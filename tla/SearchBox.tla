------------------------------ MODULE SearchBox ------------------------------
(***************************************************************************)
(* The search box of the documentation pages: the field, the menu of       *)
(* sections and the window with the results, steered by keys, the mouse,   *)
(* two timers and a frame that loads on its own.  Handlers run to their    *)
(* end; between a handler and the next anything may come.                  *)
(*                                                                         *)
(* The browser is as the handlers see it.  Focus is in one place; moving   *)
(* it calls the blur and focus handlers at once.  A key goes to the place  *)
(* that has the focus when it is pressed and to the one that has it when   *)
(* it is released.  What is hidden cannot keep or get the focus.  The      *)
(* frame goes on showing its page until the next one is there.             *)
(*                                                                         *)
(* A text is a sequence of characters, all lower case.  Positions and      *)
(* styles are left out.  The close button is shown and hidden together     *)
(* with the window.  SearchResults has the keys inside the window.         *)
(***************************************************************************)
EXTENDS Lists

CONSTANTS
  Characters,   \* what texts are made of, the space included
  Space,        \* the space
  Texts,        \* the texts that a key can leave in the field
  Label,        \* searchLabel, the text of the unused field
  Items,        \* the number of items in the menu
  Content,      \* indexSectionsWithContent: the pages there are, each a
                \*   section and a first character
  NoMatches,    \* nomatches.html
  Nothing,      \* no page
  MaxTimers     \* bound on the timers that are running at once

ASSUME TextsAssumption ==
  /\ Space \in Characters
  /\ Texts \subseteq Seq(Characters)
  /\ Label \in Seq(Characters)

ASSUME PagesAssumption ==
  /\ Items \in Nat \ {0}
  /\ Content \subseteq (0 .. Items - 1) \X Characters
  /\ NoMatches \notin Content
  /\ Nothing \notin [page : Content \union {NoMatches},
                     query : Seq(Characters)]
  /\ MaxTimers \in Nat

VARIABLES
  box,       \* the object searchBox and the parts of the page it writes
  focus,     \* where the focus is
  held,      \* the key that is down
  overMenu   \* the mouse is over the magnifier or the menu

vars == <<box, focus, held, overMenu>>

-----------------------------------------------------------------------------

Keys == {"Text", "Down", "Up", "Enter", "Escape"}
Places == {"page", "field", "menu", "results"}
Pages == Content \union {NoMatches}
Documents == [page : Pages, query : Seq(Characters)]

Boxes == [field : Seq(Characters),           \* value of MSearchField
          className : {"Active", "Inactive"},
          searchActive : BOOLEAN,
          searchIndex : 0 .. Items,
          lastSearchValue : Seq(Characters),
          lastResultsPage : Pages \union {Nothing},
          resultsShown : BOOLEAN,            \* MSearchResultsWindow
          menuShown : BOOLEAN,               \* MSearchSelectWindow
          keyTimeout : BOOLEAN,              \* it names a running timer
          timers : Nat,                      \* running timers of Search()
          hideTimeout : BOOLEAN,             \* its timer is running
          loading : Documents \union {Nothing},
          frame : Documents \union {Nothing}]

TypeOK ==
  /\ box \in Boxes
  /\ focus \in Places
  /\ held \in Keys \union {"none"}
  /\ overMenu \in BOOLEAN
  /\ box.keyTimeout => box.timers > 0
  /\ box.hideTimeout => ~overMenu

\* The page is ready: OnSelectItem(0) found the label and did not search.
Init ==
  /\ box = [field |-> Label, className |-> "Inactive",
            searchActive |-> FALSE, searchIndex |-> 0,
            lastSearchValue |-> <<>>, lastResultsPage |-> Nothing,
            resultsShown |-> FALSE, menuShown |-> FALSE,
            keyTimeout |-> FALSE, timers |-> 0, hideTimeout |-> FALSE,
            loading |-> Nothing, frame |-> Nothing]
  /\ focus = "page"
  /\ held = "none"
  /\ overMenu = FALSE

-----------------------------------------------------------------------------
(* What the handlers are built from: operators from box to box. *)

Squeezed(text) == ElementsAt(text, {i \in DOMAIN text : text[i] # Space})

\* replace(/^ +/, ""): from the first character that is no space.
LeadStripped(text) ==
  LET starts == {i \in 1 .. Len(text) : text[i] # Space}
  IN  IF starts = {} THEN <<>>
      ELSE SubSeq(text,
                  CHOOSE i \in starts : \A j \in starts : i <= j,
                  Len(text))

\* Mutant: the reset takes no heed of the window with the results.
ActivateDespiteResults(b, isActive) ==
  IF isActive
  THEN IF b.field = Label
       THEN [b EXCEPT !.className = "Active", !.field = <<>>,
                      !.searchActive = TRUE]
       ELSE [b EXCEPT !.className = "Active"]
  ELSE [b EXCEPT !.className = "Inactive", !.field = Label,
                 !.searchActive = FALSE, !.lastSearchValue = <<>>,
                 !.lastResultsPage = Nothing]

\* Mutant: the reset leaves the text in the field.
ActivateKeepsText(b, isActive) ==
  IF isActive \/ b.resultsShown
  THEN IF b.field = Label
       THEN [b EXCEPT !.className = "Active", !.field = <<>>,
                      !.searchActive = TRUE]
       ELSE [b EXCEPT !.className = "Active"]
  ELSE [b EXCEPT !.className = "Inactive", !.searchActive = FALSE,
                 !.lastSearchValue = <<>>, !.lastResultsPage = Nothing]

Activate(b, isActive) ==
  IF isActive \/ b.resultsShown
  THEN IF b.field = Label
       THEN [b EXCEPT !.className = "Active", !.field = <<>>,
                      !.searchActive = TRUE]
       ELSE [b EXCEPT !.className = "Active"]
  ELSE [b EXCEPT !.className = "Inactive", !.field = Label,
                 !.searchActive = FALSE, !.lastSearchValue = <<>>,
                 !.lastResultsPage = Nothing]

Hidden(b) == [b EXCEPT !.resultsShown = FALSE]

CloseResultsWindow(b) == Activate(Hidden(b), FALSE)

\* The section after the last one has no entry in indexSectionsWithContent:
\* to look it up throws, which ends the handler.
Throws(b) == b.searchIndex = Items

Search(b) ==
  LET value == LeadStripped(b.field)
      known == value # <<>> /\ <<b.searchIndex, Head(value)>> \in Content
      resultsPage == IF known THEN <<b.searchIndex, Head(value)>>
                              ELSE NoMatches
  IN  IF Throws(b) THEN [b EXCEPT !.keyTimeout = FALSE]
      ELSE [b EXCEPT !.keyTimeout = FALSE,
                     !.loading = [page |-> resultsPage,
                                  query |-> IF known THEN value ELSE <<>>],
                     !.resultsShown = TRUE,
                     !.lastSearchValue = value,
                     !.lastResultsPage = resultsPage]

Searching(b) == Squeezed(b.field) # <<>> /\ b.searchActive

OnSelectItem(b, id) ==
  LET selected == [b EXCEPT !.searchIndex = id]
  IN  IF Searching(selected) THEN Search(selected) ELSE selected

OnSearchSelectShow(b) == [b EXCEPT !.menuShown = TRUE, !.hideTimeout = FALSE]

CloseSelectionWindow(b) == [b EXCEPT !.menuShown = FALSE]

KillKeyTimer(b) ==
  IF b.keyTimeout THEN [b EXCEPT !.keyTimeout = FALSE, !.timers = @ - 1]
  ELSE b

\* The end of OnSearchFieldChange: is there something else to search for?
CompareValue(b) ==
  LET value == Squeezed(b.field)
  IN  CASE value = b.lastSearchValue -> b
        [] value # b.lastSearchValue /\ value # <<>> ->
             [b EXCEPT !.keyTimeout = TRUE, !.timers = @ + 1]
        [] OTHER -> [Hidden(b) EXCEPT !.lastSearchValue = <<>>]

\* The focus goes from one place to another: onblur and onfocus of the field.
Moved(b, from, to) ==
  LET left == IF from = "field" /\ to # "field" THEN Activate(b, FALSE) ELSE b
  IN  IF to = "field" /\ from # "field" THEN Activate(left, TRUE) ELSE left

\* The browser takes the focus away from what is hidden.
Kept(place, b) ==
  IF \/ place = "results" /\ ~b.resultsShown
     \/ place = "menu" /\ ~b.menuShown
  THEN "page" ELSE place

HasResults(b) == b.frame # Nothing /\ b.frame.page # NoMatches

-----------------------------------------------------------------------------
(* The mouse.  Nobody uses its buttons with a key down. *)

\* A click on the field, or beside everything.
Click(place) ==
  /\ held = "none"
  /\ place \in {"field", "page"}
  /\ focus' = place
  /\ box' = Moved(box, focus, place)
  /\ UNCHANGED <<held, overMenu>>

\* A click on a result with several places, which Toggle() opens.
ClickResult ==
  /\ held = "none"
  /\ box.resultsShown /\ HasResults(box)
  /\ focus' = "results"
  /\ box' = Moved(box, focus, "results")
  /\ UNCHANGED <<held, overMenu>>

ClickClose ==
  /\ held = "none"
  /\ box.resultsShown
  /\ focus' = "page"
  /\ box' = CloseResultsWindow(Moved(box, focus, "page"))
  /\ UNCHANGED <<held, overMenu>>

ClickItem(id) ==
  /\ held = "none"
  /\ box.menuShown /\ overMenu
  /\ focus' = "menu"
  /\ box' = OnSelectItem(Moved(box, focus, "menu"), id)
  /\ UNCHANGED <<held, overMenu>>

MouseOver ==
  /\ ~overMenu
  /\ overMenu' = TRUE
  /\ box' = OnSearchSelectShow(box)
  /\ UNCHANGED <<focus, held>>

\* OnSearchSelectHide
MouseOut ==
  /\ overMenu
  /\ overMenu' = FALSE
  /\ box' = [box EXCEPT !.hideTimeout = TRUE]
  /\ UNCHANGED <<focus, held>>

-----------------------------------------------------------------------------
(* Keys. *)

\* A key of a text changes the field, the others do nothing there.
PressInField(key) ==
  /\ focus = "field"
  /\ IF key = "Text" THEN \E text \in Texts : box' = [box EXCEPT !.field = text]
                     ELSE box' = box
  /\ focus' = focus

\* OnSearchSelectKey: an exception ends it in the middle.
PressInMenu(key) ==
  /\ focus = "menu"
  /\ CASE key = "Down" /\ box.searchIndex < Items ->
            /\ box' = OnSelectItem(box, box.searchIndex + 1)
            /\ focus' = focus
       [] key = "Up" /\ box.searchIndex > 0 ->
            /\ box' = OnSelectItem(box, box.searchIndex - 1)
            /\ focus' = focus
       [] key \in {"Enter", "Escape"} /\ ~(Searching(box) /\ Throws(box)) ->
            /\ box' = Moved(CloseSelectionWindow(
                              OnSelectItem(box, box.searchIndex)),
                            "menu", "field")
            /\ focus' = "field"
       [] key \in {"Enter", "Escape"} /\ Searching(box) /\ Throws(box) ->
            /\ box' = OnSelectItem(box, box.searchIndex)
            /\ focus' = focus
       [] OTHER -> UNCHANGED <<box, focus>>

\* Nav and NavChild: Escape closes the window, Up leaves the first result.
PressInResults(key) ==
  /\ focus = "results"
  /\ \/ /\ key = "Escape"
        /\ box' = Moved(CloseResultsWindow(box), "results", "field")
        /\ focus' = "field"
     \/ /\ key = "Up"
        /\ box' = Moved(box, "results", "field")
        /\ focus' = "field"
     \/ /\ key # "Escape"
        /\ UNCHANGED <<box, focus>>

KeyDown(key) ==
  /\ held = "none"
  /\ held' = key
  /\ \/ PressInField(key) \/ PressInMenu(key) \/ PressInResults(key)
     \/ focus = "page" /\ UNCHANGED <<box, focus>>
  /\ UNCHANGED overMenu

\* OnSearchFieldChange with Down or Enter and the shift key: to the menu.
\* It returns before the value is compared.
FieldToMenu ==
  /\ focus = "field" /\ held \in {"Down", "Enter"}
  /\ focus' = "menu"
  /\ box' = Moved(OnSearchSelectShow(KillKeyTimer(box)), "field", "menu")

\* Mutant: returns before the value is compared, as FieldToMenu does.
FieldToResultsAtOnce ==
  LET moved == Moved(KillKeyTimer(box), "field", "results")
  IN  /\ focus = "field" /\ held \in {"Down", "Enter"}
      /\ HasResults(box) /\ box.resultsShown
      /\ box' = moved
      /\ focus' = Kept("results", box')

\* OnSearchFieldChange with Down or Enter: to the first visible result.
FieldToResults ==
  LET moved == Moved(KillKeyTimer(box), "field", "results")
  IN  /\ focus = "field" /\ held \in {"Down", "Enter"}
      /\ HasResults(box) /\ box.resultsShown
      /\ box' = CompareValue(moved)
      /\ focus' = Kept("results", box')

\* OnSearchFieldChange with Escape: blur() runs the blur handler first.
LeaveField ==
  LET left == Activate(KillKeyTimer(box), FALSE)
  IN  /\ focus = "field" /\ held = "Escape"
      /\ focus' = "page"
      /\ box' = Activate([Hidden(left) EXCEPT !.lastSearchValue = <<>>], FALSE)

\* OnSearchFieldChange otherwise; NavNext(0) may find no visible result.
FieldChange ==
  /\ focus = "field" /\ held # "Escape"
  /\ box' = CompareValue(KillKeyTimer(box))
  /\ focus' = focus

KeyUp ==
  /\ held # "none"
  /\ held' = "none"
  /\ \/ FieldToMenu \/ FieldToResults \/ LeaveField \/ FieldChange
     \/ focus # "field" /\ UNCHANGED <<box, focus>>
  /\ UNCHANGED overMenu

-----------------------------------------------------------------------------
(* The timers and the frame. *)

SearchTimer ==
  /\ box.timers > 0
  /\ box' = Search([box EXCEPT !.timers = @ - 1])
  /\ UNCHANGED <<focus, held, overMenu>>

HideTimer ==
  /\ box.hideTimeout
  /\ box' = [CloseSelectionWindow(box) EXCEPT !.hideTimeout = FALSE]
  /\ focus' = Kept(focus, box')
  /\ UNCHANGED <<held, overMenu>>

Load ==
  /\ box.loading # Nothing
  /\ box' = [box EXCEPT !.frame = box.loading, !.loading = Nothing]
  /\ focus' = IF focus = "results" THEN "page" ELSE focus
  /\ UNCHANGED <<held, overMenu>>

Next ==
  /\ \/ \E place \in {"field", "page"} : Click(place)
     \/ ClickResult
     \/ ClickClose
     \/ \E id \in 0 .. Items - 1 : ClickItem(id)
     \/ MouseOver
     \/ MouseOut
     \/ \E key \in Keys : KeyDown(key)
     \/ KeyUp
     \/ SearchTimer
     \/ HideTimer
     \/ Load
  /\ box'.timers <= MaxTimers

Spec == Init /\ [][Next]_vars

-----------------------------------------------------------------------------
(* Properties. *)

\* The page that the frame has or is getting.
Target(b) == IF b.loading = Nothing THEN b.frame ELSE b.loading

\* While the window is open it has, or is getting, the page of the last
\* search, and lastSearchValue and lastResultsPage tell which it is: whatever
\* order the timers, the menu and the resets by Activate() come in.
ShownIsLastSearch ==
  box.resultsShown =>
    /\ Target(box) # Nothing
    /\ Target(box).page = box.lastResultsPage
    /\ Target(box).page # NoMatches => Target(box).query = box.lastSearchValue

\* Where the user can write, the panel is active and searchActive is set, and
\* no text of the user is left in a field that is not: OnSelectItem() skips
\* the search only when the field has the label, and Activate() overwrites
\* no text that is still being edited.
TypedIsActive ==
  /\ focus = "field" => box.className = "Active" /\ box.searchActive
  /\ box.field # Label => box.searchActive

\* Results stand beside another text, no timer is set to search for it, and
\* no key is about to be released that could set one.
Stale ==
  /\ box.resultsShown /\ ~Throws(box)
  /\ box.timers = 0
  /\ ~(focus = "field" /\ held = "Text")
  /\ Squeezed(box.field) \notin {<<>>, Squeezed(box.lastSearchValue)}

\* What was typed is searched for: through all orders of keys, clicks, timers
\* and loads the results fall behind the text only by Shift and Down or Enter,
\* for which OnSearchFieldChange() kills the timer and sets no other.
OnlyShiftLosesSearch ==
  [][Stale' => Stale \/ (focus = "field" /\ focus' = "menu" /\ held # "none")]_vars
=============================================================================
