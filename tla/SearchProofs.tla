---------------------------- MODULE SearchProofs ----------------------------
(***************************************************************************)
(* The two classes of the search of the documentation.                     *)
(*                                                                         *)
(* SearchBox, for any characters, texts, sections and pages: the open      *)
(* window has the page of the last search, no text of the user is in a     *)
(* field that is not active, and what was typed is searched for.  The      *)
(* first two and the types are inductive together.  Most of an action is   *)
(* a composition of operators from box to box, so each operator is shown   *)
(* to keep Good, what the invariant says of a box, with what else its      *)
(* callers rely on.  A part of its own takes the operators once more, for  *)
(* the results that are not those of the text.                             *)
(*                                                                         *)
(* SearchResults, for any sorted pages: the keys act on what the reader    *)
(* sees, in the order in which it is read.  That the rows which a search   *)
(* leaves are next to each other is a property of the pages,               *)
(* RowsAssumption, and with it NavUp() finds the row before the present    *)
(* one by its number.                                                      *)
(***************************************************************************)
EXTENDS SearchBox, SearchResults

Consistent(b) ==
  b.resultsShown =>
    /\ Target(b) # Nothing
    /\ Target(b).page = b.lastResultsPage
    /\ Target(b).page # NoMatches => Target(b).query = b.lastSearchValue

Good(b) ==
  /\ b \in Boxes
  /\ b.keyTimeout => b.timers > 0
  /\ Consistent(b)
  /\ b.field # Label => b.searchActive

\* What the operators leave as it is, but for a hide timer that stops.
HidesNoMore(b, c) == c.hideTimeout => b.hideTimeout

SamePanel(b, c) ==
  /\ c.className = b.className
  /\ c.searchActive = b.searchActive
  /\ c.field = b.field

Follows(b, c) == Good(c) /\ SamePanel(b, c) /\ HidesNoMore(b, c)

Active(b) == b.className = "Active" /\ b.searchActive

IInv == TypeOK /\ ShownIsLastSearch /\ TypedIsActive

LEMMA GoodBox ==
  IInv <=> /\ Good(box)
           /\ focus \in Places /\ held \in Keys \union {"none"}
           /\ overMenu \in BOOLEAN
           /\ box.hideTimeout => ~overMenu
           /\ focus = "field" => Active(box)
  BY DEF IInv, Good, TypeOK, ShownIsLastSearch, Consistent, TypedIsActive,
         Active

-----------------------------------------------------------------------------

LEMMA EmptyText == <<>> \in Seq(Characters)
  OBVIOUS

\* What LeadStripped() leaves is a text again.
LEMMA LeadStrippedText ==
  ASSUME NEW text \in Seq(Characters)
  PROVE  LeadStripped(text) \in Seq(Characters)
<1> DEFINE starts == {i \in 1 .. Len(text) : text[i] # Space}
           first == CHOOSE i \in starts : \A j \in starts : i <= j
<1>1. CASE starts = {}
  BY <1>1, EmptyText DEF LeadStripped
<1>2. CASE starts # {}
  <2>1. \E i \in starts : \A j \in starts : i <= j
    <3>1. starts \subseteq Nat
      OBVIOUS
    <3> HIDE DEF starts
    <3> QED
      BY <1>2, <3>1, LeastElement
  <2>2. first \in 1 .. Len(text)
    <3> HIDE DEF starts
    <3>1. first \in starts
      BY <2>1, Zenon
    <3> QED
      BY <3>1 DEF starts
  <2>3. LeadStripped(text) = SubSeq(text, first, Len(text))
    BY <1>2 DEF LeadStripped
  <2> HIDE DEF first
  <2> QED
    BY <2>2, <2>3
<1> QED
  BY <1>1, <1>2

LEMMA ActivateGood ==
  ASSUME NEW b, Good(b), NEW isActive \in BOOLEAN
  PROVE  /\ Good(Activate(b, isActive))
         /\ HidesNoMore(b, Activate(b, isActive))
         /\ isActive => Active(Activate(b, isActive))
<1> DEFINE c == Activate(b, isActive)
<1>1. CASE (isActive \/ b.resultsShown) /\ b.field = Label
  <2>1. c = [b EXCEPT !.className = "Active", !.field = <<>>,
                      !.searchActive = TRUE]
    BY <1>1 DEF Activate
  <2>2. c \in Boxes
    BY <2>1, EmptyText DEF Good, Boxes
  <2>3. Consistent(c)
    BY <2>1 DEF Good, Boxes, Consistent, Target
  <2>4. Active(c) /\ (c.keyTimeout => c.timers > 0)
    BY <2>1 DEF Good, Boxes, Active
  <2>5. HidesNoMore(b, c)
    BY <2>1 DEF Good, Boxes, HidesNoMore
  <2> QED
    BY <2>2, <2>3, <2>4, <2>5 DEF Good, Active
<1>2. CASE (isActive \/ b.resultsShown) /\ b.field # Label
  <2>1. c = [b EXCEPT !.className = "Active"]
    BY <1>2 DEF Activate
  <2> QED
    BY <1>2, <2>1
    DEF Good, Boxes, Consistent, Target, HidesNoMore, Active
<1>3. CASE ~(isActive \/ b.resultsShown)
  <2>1. c = [b EXCEPT !.className = "Inactive", !.field = Label,
                      !.searchActive = FALSE, !.lastSearchValue = <<>>,
                      !.lastResultsPage = Nothing]
    BY <1>3 DEF Activate
  <2>2. c \in Boxes
    BY <2>1, EmptyText, TextsAssumption, ZenonT(40) DEF Good, Boxes
  <2>3. /\ Consistent(c)
        /\ c.field = Label
    BY <1>3, <2>1 DEF Good, Boxes, Consistent
  <2>4. /\ c.keyTimeout => c.timers > 0
        /\ HidesNoMore(b, c)
    BY <2>1 DEF Good, Boxes, HidesNoMore
  <2> QED
    BY <1>3, <2>2, <2>3, <2>4 DEF Good
<1> QED
  BY <1>1, <1>2, <1>3

LEMMA HiddenGood ==
  ASSUME NEW b, Good(b)
  PROVE  /\ Follows(b, Hidden(b))
         /\ Follows(b, [Hidden(b) EXCEPT !.lastSearchValue = <<>>])
         /\ ~ Hidden(b).resultsShown
  BY EmptyText DEF Good, Boxes, Consistent, Hidden, Follows, SamePanel,
                   HidesNoMore

LEMMA CloseResultsWindowGood ==
  ASSUME NEW b, Good(b)
  PROVE  /\ Good(CloseResultsWindow(b))
         /\ HidesNoMore(b, CloseResultsWindow(b))
<1>1. Good(Hidden(b)) /\ HidesNoMore(b, Hidden(b))
  BY HiddenGood DEF Follows
<1> QED
  BY <1>1, ActivateGood DEF CloseResultsWindow, HidesNoMore

LEMMA MovedGood ==
  ASSUME NEW b, Good(b), NEW from, NEW to,
         from = "field" => Active(b)
  PROVE  /\ Good(Moved(b, from, to))
         /\ HidesNoMore(b, Moved(b, from, to))
         /\ to = "field" => Active(Moved(b, from, to))
<1> DEFINE left == IF from = "field" /\ to # "field" THEN Activate(b, FALSE)
                                                   ELSE b
<1>1. Good(left) /\ HidesNoMore(b, left)
  BY ActivateGood DEF HidesNoMore
<1>2. CASE to = "field" /\ from # "field"
  <2>1. Moved(b, from, to) = Activate(left, TRUE)
    BY <1>2 DEF Moved
  <2> HIDE DEF left
  <2> QED
    BY <1>1, <2>1, ActivateGood DEF HidesNoMore
<1>3. CASE ~(to = "field" /\ from # "field")
  <2>1. Moved(b, from, to) = left
    BY <1>3 DEF Moved
  <2> QED
    BY <1>1, <1>3, <2>1
<1> QED
  BY <1>2, <1>3

\* Search() also runs as a timer that is not there any more.
LEMMA SearchGood ==
  ASSUME NEW b \in Boxes, Consistent(b), b.field # Label => b.searchActive
  PROVE  Follows(b, Search(b))
<1> DEFINE value == LeadStripped(b.field)
           known == value # <<>> /\ <<b.searchIndex, Head(value)>> \in Content
           resultsPage == IF known THEN <<b.searchIndex, Head(value)>>
                                   ELSE NoMatches
           document == [page |-> resultsPage,
                        query |-> IF known THEN value ELSE <<>>]
           c == Search(b)
<1>1. CASE Throws(b)
  <2>1. c = [b EXCEPT !.keyTimeout = FALSE]
    BY <1>1 DEF Search
  <2> QED
    BY <2>1 DEF Good, Boxes, Consistent, Target, Follows, SamePanel,
                HidesNoMore
<1>2. CASE ~ Throws(b)
  <2>1. value \in Seq(Characters)
    BY LeadStrippedText DEF Good, Boxes
  <2>2. resultsPage \in Pages
    BY DEF Pages
  <2>3. /\ document \in Documents
        /\ document # Nothing
        /\ document.page = resultsPage
        /\ resultsPage # NoMatches => document.query = value
    <3>1. document \in Documents
      BY <2>1, <2>2, EmptyText DEF Documents
    <3>2. document # Nothing
      BY <3>1, PagesAssumption DEF Documents, Pages
    <3> QED
      BY <3>1, <3>2, PagesAssumption
  <2>4. c = [b EXCEPT !.keyTimeout = FALSE,
                      !.loading = document,
                      !.resultsShown = TRUE,
                      !.lastSearchValue = value,
                      !.lastResultsPage = resultsPage]
    BY <1>2 DEF Search
  <2> HIDE DEF value, known, resultsPage, document
  <2>5. c \in Boxes
    BY <2>1, <2>2, <2>3, <2>4 DEF Good, Boxes
  <2>6. Consistent(c)
    BY <2>3, <2>4 DEF Good, Boxes, Consistent, Target
  <2>7. SamePanel(b, c) /\ HidesNoMore(b, c) /\ ~ c.keyTimeout
    BY <2>4 DEF Good, Boxes, SamePanel, HidesNoMore
  <2> QED
    BY <2>5, <2>6, <2>7 DEF Good, Follows, SamePanel
<1> QED
  BY <1>1, <1>2

LEMMA OnSelectItemGood ==
  ASSUME NEW b, Good(b), NEW id \in 0 .. Items
  PROVE  Follows(b, OnSelectItem(b, id))
<1> DEFINE selected == [b EXCEPT !.searchIndex = id]
<1>1. Follows(b, selected)
  BY DEF Good, Boxes, Consistent, Target, Follows, SamePanel, HidesNoMore
<1>2. OnSelectItem(b, id) = IF Searching(selected) THEN Search(selected)
                                                   ELSE selected
  BY DEF OnSelectItem
<1> HIDE DEF selected
<1>3. Follows(selected, Search(selected))
  BY <1>1, SearchGood DEF Follows, Good
<1> QED
  BY <1>1, <1>2, <1>3 DEF Follows, SamePanel, HidesNoMore

LEMMA MenuGood ==
  ASSUME NEW b, Good(b)
  PROVE  /\ Follows(b, OnSearchSelectShow(b))
         /\ ~ OnSearchSelectShow(b).hideTimeout
         /\ Follows(b, CloseSelectionWindow(b))
<1>1. Follows(b, OnSearchSelectShow(b)) /\ ~ OnSearchSelectShow(b).hideTimeout
  BY DEF OnSearchSelectShow, Good, Boxes, Consistent, Target, Follows,
         SamePanel, HidesNoMore
<1>2. Follows(b, CloseSelectionWindow(b))
  BY DEF CloseSelectionWindow, Good, Boxes, Consistent, Target, Follows,
         SamePanel, HidesNoMore
<1> QED
  BY <1>1, <1>2

LEMMA KillKeyTimerGood ==
  ASSUME NEW b, Good(b)
  PROVE  Follows(b, KillKeyTimer(b))
<1>1. CASE b.keyTimeout
  <2>1. /\ KillKeyTimer(b)
             = [b EXCEPT !.keyTimeout = FALSE, !.timers = b.timers - 1]
        /\ b.timers - 1 \in Nat
    BY <1>1 DEF KillKeyTimer, Good, Boxes
  <2> QED
    BY ZenonT(40), <2>1 DEF Good, Boxes, Consistent, Target, Follows, SamePanel,
                HidesNoMore
<1>2. CASE ~ b.keyTimeout
  BY <1>2 DEF KillKeyTimer, Follows, SamePanel, HidesNoMore
<1> QED
  BY <1>1, <1>2

LEMMA CompareValueGood ==
  ASSUME NEW b, Good(b)
  PROVE  Follows(b, CompareValue(b))
<1> DEFINE value == Squeezed(b.field)
<1>1. CASE value = b.lastSearchValue
  BY <1>1 DEF CompareValue, Follows, SamePanel, HidesNoMore
<1>2. CASE value # b.lastSearchValue /\ value # <<>>
  <2>1. CompareValue(b)
          = [b EXCEPT !.keyTimeout = TRUE, !.timers = b.timers + 1]
    BY <1>2 DEF CompareValue
  <2> DEFINE c == CompareValue(b)
  <2>2. b.timers + 1 \in Nat /\ b.timers + 1 > 0
    BY DEF Good, Boxes
  <2>3. c \in Boxes /\ c.timers > 0
    BY <2>1, <2>2 DEF Good, Boxes
  <2>4. Consistent(c)
    BY <2>1 DEF Good, Boxes, Consistent, Target
  <2>5. SamePanel(b, c) /\ HidesNoMore(b, c)
    BY <2>1 DEF Good, Boxes, SamePanel, HidesNoMore
  <2> QED
    BY <2>3, <2>4, <2>5 DEF Good, Follows, SamePanel
<1>3. CASE value # b.lastSearchValue /\ value = <<>>
  <2>1. CompareValue(b) = [Hidden(b) EXCEPT !.lastSearchValue = <<>>]
    BY <1>3 DEF CompareValue
  <2> QED
    BY <2>1, HiddenGood
<1> QED
  BY <1>1, <1>2, <1>3

-----------------------------------------------------------------------------

\* What is left to show of a step that takes the box to a good one.
LEMMA GoodStep ==
  ASSUME IInv, Good(box'),
         focus' \in Places, held' \in Keys \union {"none"},
         box'.hideTimeout => box.hideTimeout,
         overMenu' = overMenu,
         focus' = "field" => Active(box')
  PROVE  IInv'
<1>1. TypeOK'
  BY DEF IInv, TypeOK, Good
<1>2. ShownIsLastSearch' /\ TypedIsActive'
  BY DEF ShownIsLastSearch, TypedIsActive, Good, Consistent, Active
<1> QED
  BY <1>1, <1>2 DEF IInv

LEMMA ClickGood ==
  ASSUME IInv, NEW place \in {"field", "page"}, Click(place)
  PROVE  IInv'
<1>1. box' = Moved(box, focus, place) /\ focus' = place
  BY DEF Click
<1>2. Good(box) /\ (focus = "field" => Active(box))
  BY GoodBox
<1>3. /\ Good(box') /\ HidesNoMore(box, box')
      /\ place = "field" => Active(box')
  BY <1>1, <1>2, MovedGood
<1> QED
  BY <1>1, <1>3, GoodStep, GoodBox DEF Click, HidesNoMore, Places

LEMMA ClickResultGood ==
  ASSUME IInv, ClickResult
  PROVE  IInv'
<1>1. box' = Moved(box, focus, "results") /\ focus' = "results"
  BY DEF ClickResult
<1>2. Good(box) /\ (focus = "field" => Active(box))
  BY GoodBox
<1>3. Good(box') /\ HidesNoMore(box, box')
  BY <1>1, <1>2, MovedGood
<1> QED
  BY <1>1, <1>3, GoodStep, GoodBox DEF ClickResult, HidesNoMore, Places

LEMMA ClickCloseGood ==
  ASSUME IInv, ClickClose
  PROVE  IInv'
<1> DEFINE moved == Moved(box, focus, "page")
<1>1. box' = CloseResultsWindow(moved) /\ focus' = "page"
  BY DEF ClickClose
<1>2. Good(box) /\ (focus = "field" => Active(box))
  BY GoodBox
<1>3. Good(moved) /\ HidesNoMore(box, moved)
  BY <1>2, MovedGood
<1>4. Good(box') /\ HidesNoMore(box, box')
  BY <1>1, <1>3, CloseResultsWindowGood DEF HidesNoMore
<1> QED
  BY <1>1, <1>4, GoodStep, GoodBox DEF ClickClose, HidesNoMore, Places

LEMMA ClickItemGood ==
  ASSUME IInv, NEW id \in 0 .. Items - 1, ClickItem(id)
  PROVE  IInv'
<1> DEFINE moved == Moved(box, focus, "menu")
<1>1. box' = OnSelectItem(moved, id) /\ focus' = "menu"
  BY DEF ClickItem
<1>2. Good(box) /\ (focus = "field" => Active(box))
  BY GoodBox
<1>3. Good(moved) /\ HidesNoMore(box, moved)
  BY <1>2, MovedGood
<1>4. id \in 0 .. Items
  BY PagesAssumption
<1>5. Good(box') /\ HidesNoMore(box, box')
  BY <1>1, <1>3, <1>4, OnSelectItemGood DEF HidesNoMore, Follows
<1> QED
  BY <1>1, <1>5, GoodStep, GoodBox DEF ClickItem, HidesNoMore, Places

LEMMA MouseGood ==
  ASSUME IInv, MouseOver \/ MouseOut
  PROVE  IInv'
<1>1. Good(box) /\ (focus = "field" => Active(box))
  BY GoodBox
<1>2. Good(box') /\ SamePanel(box, box')
  <2>1. CASE MouseOver
    BY <1>1, <2>1, MenuGood DEF MouseOver, Follows
  <2>2. CASE MouseOut
    BY <1>1, <2>2 DEF MouseOut, Good, Boxes, Consistent, Target, SamePanel
  <2> QED
    BY <2>1, <2>2
<1>3. box'.hideTimeout => ~ overMenu'
  BY <1>1, MenuGood DEF MouseOver, MouseOut
<1>4. TypeOK'
  BY <1>2, <1>3 DEF IInv, TypeOK, Good, MouseOver, MouseOut
<1>5. ShownIsLastSearch' /\ TypedIsActive'
  BY <1>1, <1>2 DEF ShownIsLastSearch, TypedIsActive, Good, Consistent,
                    Active, SamePanel, MouseOver, MouseOut
<1> QED
  BY <1>4, <1>5 DEF IInv

LEMMA KeyDownGood ==
  ASSUME IInv, NEW key \in Keys, KeyDown(key)
  PROVE  IInv'
<1>1. /\ Good(box) /\ (focus = "field" => Active(box))
      /\ focus \in Places
  BY GoodBox
<1>2. held' \in Keys \union {"none"} /\ overMenu' = overMenu
  BY DEF KeyDown
<1>3. SUFFICES /\ Good(box') /\ HidesNoMore(box, box')
               /\ focus' \in Places
               /\ focus' = "field" => Active(box')
  BY <1>2, GoodStep DEF HidesNoMore
<1>4. CASE PressInField(key)
  <2>1. focus = "field" /\ focus' = "field"
    BY <1>4 DEF PressInField
  <2>2. CASE key = "Text"
    <3>1. PICK text \in Texts : box' = [box EXCEPT !.field = text]
      BY <1>4, <2>2 DEF PressInField
    <3>2. text \in Seq(Characters)
      BY TextsAssumption
    <3>3. /\ box' \in Boxes /\ Active(box') /\ HidesNoMore(box, box')
          /\ box'.keyTimeout => box'.timers > 0
      BY <1>1, <2>1, <3>1, <3>2 DEF Good, Boxes, Active, HidesNoMore
    <3>4. Consistent(box')
      BY <1>1, <3>1 DEF Good, Boxes, Consistent, Target
    <3> QED
      BY <2>1, <3>3, <3>4 DEF Good, Active, Places
  <2>3. CASE key # "Text"
    BY <1>1, <1>4, <2>1, <2>3 DEF PressInField, HidesNoMore, Places
  <2> QED
    BY <2>2, <2>3
<1>5. CASE PressInMenu(key)
  <2>1. focus = "menu"
    BY <1>5 DEF PressInMenu
  <2>2. CASE \E id \in 0 .. Items :
               box' = OnSelectItem(box, id) /\ focus' = focus
    BY <1>1, <2>1, <2>2, OnSelectItemGood DEF Follows
  <2>3. CASE UNCHANGED <<box, focus>>
    BY <1>1, <2>3, <2>1 DEF HidesNoMore
  <2>4. CASE /\ box' = Moved(CloseSelectionWindow(
                               OnSelectItem(box, box.searchIndex)),
                             "menu", "field")
             /\ focus' = "field"
    <3> DEFINE selected == OnSelectItem(box, box.searchIndex)
               closed == CloseSelectionWindow(selected)
    <3>1. box.searchIndex \in 0 .. Items
      BY <1>1 DEF Good, Boxes
    <3>2. Good(selected) /\ HidesNoMore(box, selected)
      BY <1>1, <3>1, OnSelectItemGood DEF Follows
    <3> HIDE DEF selected
    <3>3. Good(closed) /\ HidesNoMore(selected, closed)
      BY <3>2, MenuGood DEF Follows
    <3> HIDE DEF closed
    <3>4. /\ Good(Moved(closed, "menu", "field"))
          /\ HidesNoMore(closed, Moved(closed, "menu", "field"))
          /\ Active(Moved(closed, "menu", "field"))
      BY <3>3, MovedGood
    <3>5. box' = Moved(closed, "menu", "field")
      BY <2>4 DEF closed, selected
    <3> QED
      BY <2>4, <3>2, <3>3, <3>4, <3>5 DEF HidesNoMore, Places
  <2>5. box.searchIndex \in 0 .. Items
    BY <1>1 DEF Good, Boxes
  <2>6. CASE key = "Down" /\ box.searchIndex < Items
    <3>1. box' = OnSelectItem(box, box.searchIndex + 1) /\ focus' = focus
      BY <1>5, <2>6 DEF PressInMenu
    <3>2. box.searchIndex + 1 \in 0 .. Items
      BY <2>5, <2>6, PagesAssumption
    <3> QED
      BY <2>2, <3>1, <3>2
  <2>7. CASE key = "Up" /\ box.searchIndex > 0
    <3>1. box' = OnSelectItem(box, box.searchIndex - 1) /\ focus' = focus
      BY <1>5, <2>7 DEF PressInMenu
    <3>2. box.searchIndex - 1 \in 0 .. Items
      BY <2>5, <2>7, PagesAssumption
    <3> QED
      BY <2>2, <3>1, <3>2
  <2>8. CASE key \in {"Enter", "Escape"}
    <3>1. CASE Searching(box) /\ Throws(box)
      <4>1. box' = OnSelectItem(box, box.searchIndex) /\ focus' = focus
        BY <1>5, <2>8, <3>1 DEF PressInMenu
      <4> QED
        BY <2>2, <2>5, <4>1
    <3>2. CASE ~(Searching(box) /\ Throws(box))
      BY <1>5, <2>4, <2>8, <3>2 DEF PressInMenu
    <3> QED
      BY <3>1, <3>2
  <2>9. CASE /\ ~(key = "Down" /\ box.searchIndex < Items)
             /\ ~(key = "Up" /\ box.searchIndex > 0)
             /\ key \notin {"Enter", "Escape"}
    BY <1>5, <2>3, <2>9 DEF PressInMenu
  <2> QED
    BY <2>6, <2>7, <2>8, <2>9
<1>6. CASE PressInResults(key)
  <2>1. CASE /\ box' = Moved(CloseResultsWindow(box), "results", "field")
             /\ focus' = "field"
    <3> DEFINE closed == CloseResultsWindow(box)
    <3>1. Good(closed) /\ HidesNoMore(box, closed)
      BY <1>1, CloseResultsWindowGood
    <3> HIDE DEF closed
    <3>2. /\ Good(Moved(closed, "results", "field"))
          /\ HidesNoMore(closed, Moved(closed, "results", "field"))
          /\ Active(Moved(closed, "results", "field"))
      BY <3>1, MovedGood
    <3>3. box' = Moved(closed, "results", "field")
      BY <2>1 DEF closed
    <3> QED
      BY <2>1, <3>1, <3>2, <3>3 DEF HidesNoMore, Places
  <2>2. CASE box' = Moved(box, "results", "field") /\ focus' = "field"
    <3>1. /\ Good(Moved(box, "results", "field"))
          /\ HidesNoMore(box, Moved(box, "results", "field"))
          /\ Active(Moved(box, "results", "field"))
      BY <1>1, MovedGood
    <3> QED
      BY <2>2, <3>1 DEF Places
  <2>3. CASE UNCHANGED <<box, focus>> /\ focus = "results"
    BY <1>1, <2>3 DEF HidesNoMore
  <2> QED
    BY <1>6, <2>1, <2>2, <2>3 DEF PressInResults
<1>7. CASE focus = "page" /\ UNCHANGED <<box, focus>>
  BY <1>1, <1>7 DEF HidesNoMore
<1> QED
  BY <1>4, <1>5, <1>6, <1>7 DEF KeyDown

LEMMA KeyUpGood ==
  ASSUME IInv, KeyUp
  PROVE  IInv'
<1>1. /\ Good(box) /\ (focus = "field" => Active(box))
      /\ focus \in Places
  BY GoodBox
<1>2. held' \in Keys \union {"none"} /\ overMenu' = overMenu
  BY DEF KeyUp
<1>3. SUFFICES /\ Good(box') /\ HidesNoMore(box, box')
               /\ focus' \in Places
               /\ focus' = "field" => Active(box')
  BY <1>2, GoodStep DEF HidesNoMore
<1> DEFINE killed == KillKeyTimer(box)
<1>4. /\ Good(killed) /\ SamePanel(box, killed)
      /\ HidesNoMore(box, killed)
  BY <1>1, KillKeyTimerGood DEF Follows
<1> HIDE DEF killed
<1>5. CASE FieldToMenu
  <2> DEFINE shown == OnSearchSelectShow(killed)
  <2>1. Good(shown) /\ SamePanel(killed, shown) /\ HidesNoMore(killed, shown)
    BY <1>4, MenuGood DEF Follows
  <2>2. Active(shown)
    BY <1>1, <1>4, <1>5, <2>1 DEF FieldToMenu, SamePanel, Active
  <2> HIDE DEF shown
  <2>3. /\ Good(Moved(shown, "field", "menu"))
        /\ HidesNoMore(shown, Moved(shown, "field", "menu"))
    BY <2>1, <2>2, MovedGood
  <2>4. box' = Moved(shown, "field", "menu") /\ focus' = "menu"
    BY <1>5 DEF FieldToMenu, shown, killed
  <2> QED
    BY <1>4, <2>1, <2>3, <2>4 DEF HidesNoMore, Places
<1>6. CASE FieldToResults
  <2> DEFINE moved == Moved(killed, "field", "results")
  <2>1. Active(killed)
    BY <1>1, <1>4, <1>6 DEF FieldToResults, SamePanel, Active
  <2>2. Good(moved) /\ HidesNoMore(killed, moved)
    BY <1>4, <2>1, MovedGood
  <2> HIDE DEF moved
  <2>3. Good(CompareValue(moved)) /\ HidesNoMore(moved, CompareValue(moved))
    BY <2>2, CompareValueGood DEF Follows
  <2>4. box' = CompareValue(moved) /\ focus' \in {"results", "page"}
    BY <1>6 DEF FieldToResults, Kept, moved, killed
  <2> QED
    BY <1>4, <2>2, <2>3, <2>4 DEF HidesNoMore, Places
<1>7. CASE LeaveField
  <2> DEFINE left == Activate(killed, FALSE)
             cleared == [Hidden(left) EXCEPT !.lastSearchValue = <<>>]
  <2>1. Good(left) /\ HidesNoMore(killed, left)
    BY <1>4, ActivateGood
  <2> HIDE DEF left
  <2>2. Good(cleared) /\ HidesNoMore(left, cleared)
    BY <2>1, HiddenGood DEF Follows
  <2> HIDE DEF cleared
  <2>3. Good(Activate(cleared, FALSE))
        /\ HidesNoMore(cleared, Activate(cleared, FALSE))
    BY <2>2, ActivateGood
  <2>4. box' = Activate(cleared, FALSE) /\ focus' = "page"
    BY <1>7 DEF LeaveField, cleared, left, killed
  <2> QED
    BY <1>4, <2>1, <2>2, <2>3, <2>4 DEF HidesNoMore, Places
<1>8. CASE FieldChange
  <2>1. box' = CompareValue(killed) /\ focus' = "field" /\ focus = "field"
    BY <1>8 DEF FieldChange, killed
  <2>2. /\ Good(box') /\ HidesNoMore(killed, box')
        /\ SamePanel(killed, box')
    BY <1>4, <2>1, CompareValueGood DEF Follows
  <2> QED
    BY <1>1, <1>4, <2>1, <2>2 DEF HidesNoMore, SamePanel, Active, Places
<1>9. CASE focus # "field" /\ UNCHANGED <<box, focus>>
  BY <1>1, <1>9 DEF HidesNoMore
<1> QED
  BY <1>5, <1>6, <1>7, <1>8, <1>9 DEF KeyUp

LEMMA SearchTimerGood ==
  ASSUME IInv, SearchTimer
  PROVE  IInv'
<1> DEFINE fired == [box EXCEPT !.timers = box.timers - 1]
<1>1. Good(box) /\ (focus = "field" => Active(box)) /\ focus \in Places
  BY GoodBox
<1>2. box' = Search(fired) /\ UNCHANGED <<focus, held, overMenu>>
  BY DEF SearchTimer
<1>3. fired \in Boxes
  <2>1. box.timers - 1 \in Nat
    BY <1>1 DEF Good, Boxes, SearchTimer
  <2> QED
    BY <1>1, <2>1 DEF Good, Boxes
<1>4. Consistent(fired) /\ SamePanel(box, fired) /\ HidesNoMore(box, fired)
  BY <1>1 DEF Good, Boxes, Consistent, Target, SamePanel, HidesNoMore
<1> HIDE DEF fired
<1>5. fired.field # Label => fired.searchActive
  BY <1>1, <1>4 DEF Good, SamePanel
<1>6. Follows(fired, Search(fired))
  BY <1>3, <1>4, <1>5, SearchGood
<1>7. Good(box') /\ SamePanel(box, box') /\ HidesNoMore(box, box')
  BY <1>2, <1>4, <1>6 DEF Follows, SamePanel, HidesNoMore
<1> QED
  BY <1>1, <1>2, <1>7, GoodStep, GoodBox DEF HidesNoMore, SamePanel, Active

LEMMA HideTimerGood ==
  ASSUME IInv, HideTimer
  PROVE  IInv'
<1> DEFINE closed == CloseSelectionWindow(box)
<1>1. Good(box) /\ (focus = "field" => Active(box)) /\ focus \in Places
  BY GoodBox
<1>2. Follows(box, closed)
  BY <1>1, MenuGood
<1>3. box' = [closed EXCEPT !.hideTimeout = FALSE]
  BY DEF HideTimer
<1> HIDE DEF closed
<1>4. Good(box') /\ SamePanel(closed, box') /\ ~ box'.hideTimeout
  BY <1>2, <1>3 DEF Good, Boxes, Consistent, Target, Follows, SamePanel
<1>5. focus' \in {focus, "page"}
  BY DEF HideTimer, Kept
<1> QED
  BY <1>1, <1>2, <1>4, <1>5, GoodStep, GoodBox
  DEF Follows, SamePanel, Active, Places, HideTimer

LEMMA LoadGood ==
  ASSUME IInv, Load
  PROVE  IInv'
<1>1. Good(box) /\ (focus = "field" => Active(box)) /\ focus \in Places
  BY GoodBox
<1>2. /\ box' = [box EXCEPT !.frame = box.loading, !.loading = Nothing]
      /\ box.loading # Nothing
      /\ focus' \in {focus, "page"}
      /\ UNCHANGED <<held, overMenu>>
  BY DEF Load
<1>3. Good(box') /\ SamePanel(box, box') /\ HidesNoMore(box, box')
  BY <1>1, <1>2 DEF Good, Boxes, Consistent, Target, SamePanel, HidesNoMore
<1> QED
  BY <1>1, <1>2, <1>3, GoodStep, GoodBox
  DEF HidesNoMore, SamePanel, Active, Places

LEMMA InitGood == Init => IInv
<1> SUFFICES ASSUME Init
             PROVE  IInv
  OBVIOUS
<1>1. box \in Boxes
  BY EmptyText, TextsAssumption, PagesAssumption DEF Init, Boxes
<1> QED
  BY <1>1 DEF Init, IInv, TypeOK, ShownIsLastSearch, TypedIsActive, Places,
              Keys

LEMMA NextGood == IInv /\ [Next]_vars => IInv'
<1> SUFFICES ASSUME IInv, [Next]_vars
             PROVE  IInv'
  OBVIOUS
<1>1. CASE UNCHANGED vars
  BY <1>1 DEF vars, IInv, TypeOK, ShownIsLastSearch, TypedIsActive
<1>2. CASE Next
  BY <1>2, ClickGood, ClickResultGood, ClickCloseGood, ClickItemGood,
     MouseGood, KeyDownGood, KeyUpGood, SearchTimerGood, HideTimerGood,
     LoadGood DEF Next
<1> QED
  BY <1>1, <1>2

\* The inductive invariant holds for every instance.
THEOREM Invariance == Spec => []IInv
  BY InitGood, NextGood, PTL DEF Spec

\* The variables have their types, a key timer that is set is running, and no
\* hide timer runs while the mouse is over the menu.
THEOREM TypeCorrect == Spec => []TypeOK
<1>1. IInv => TypeOK
  BY DEF IInv
<1> QED
  BY <1>1, Invariance, PTL

\* In every order of keys, clicks, timers and loads the open window has, or
\* is getting, the page of the last search.
THEOREM WindowIsLastSearch == Spec => []ShownIsLastSearch
<1>1. IInv => ShownIsLastSearch
  BY DEF IInv
<1> QED
  BY <1>1, Invariance, PTL

\* The focused field is active, and a text of the user is only in a field
\* that is.
THEOREM TextIsActive == Spec => []TypedIsActive
<1>1. IInv => TypedIsActive
  BY DEF IInv
<1> QED
  BY <1>1, Invariance, PTL

-----------------------------------------------------------------------------
(* Results that fall behind the text.                                      *)

\* What OnSearchFieldChange and LeadStripped() leave of a text is the same
\* without its spaces.
LEMMA SqueezedEmpty == Squeezed(<<>>) = <<>>
  BY ElementsAtEmpty DEF Squeezed

LEMMA SqueezedTwice ==
  ASSUME NEW text \in Seq(Characters)
  PROVE  Squeezed(Squeezed(text)) = Squeezed(text)
<1> DEFINE P == {i \in DOMAIN text : text[i] # Space}
           C == {x \in Characters : x # Space}
<1>1. \A i \in 1 .. Len(text) : i \in P => text[i] \in C
  OBVIOUS
<1>2. PICK t \in Seq(C) : t = Squeezed(text)
  <2>1. ElementsAt(text, P) \in Seq(C)
    <3> HIDE DEF P, C
    <3> QED
      BY <1>1, ElementsAtIn
  <2> QED
    BY <2>1 DEF Squeezed
<1> DEFINE Q == {i \in DOMAIN t : t[i] # Space}
<1>3. 1 .. Len(t) \subseteq Q
  <2>1. \A i \in 1 .. Len(t) : t[i] \in C
    <3> HIDE DEF C
    <3> QED
      OBVIOUS
  <2> QED
    BY <2>1
<1>4. ElementsAt(t, Q) = t
  <2> HIDE DEF Q, C
  <2> QED
    BY <1>3, ElementsAtAll
<1> QED
  BY <1>2, <1>4 DEF Squeezed

LEMMA SqueezedConcat ==
  ASSUME NEW s \in Seq(Characters), NEW t \in Seq(Characters)
  PROVE  Squeezed(s \o t) = Squeezed(s) \o Squeezed(t)
<1>1. PICK P : P = {i \in DOMAIN (s \o t) : (s \o t)[i] # Space}
  OBVIOUS
<1>2. PICK O : O = {i \in DOMAIN s : s[i] # Space}
  OBVIOUS
<1>3. PICK Q : Q = {i \in DOMAIN t : t[i] # Space}
  OBVIOUS
<1>4. \A i \in 1 .. Len(t) : i \in Q <=> Len(s) + i \in P
  BY <1>1, <1>3
<1>5. \A i \in 1 .. Len(s) : i \in P <=> i \in O
  BY <1>1, <1>2
<1>6. ElementsAt(s \o t, P) = ElementsAt(s, P) \o ElementsAt(t, Q)
  BY <1>4, ElementsAtConcat
<1>7. ElementsAt(s, P) = ElementsAt(s, O)
  <2>1. Len(s) \in Nat
    OBVIOUS
  <2> QED
    BY <1>5, <2>1, ElementsAtSame
<1> QED
  BY <1>1, <1>2, <1>3, <1>6, <1>7 DEF Squeezed

LEMMA SqueezedSpaces ==
  ASSUME NEW s \in Seq(Characters), \A i \in 1 .. Len(s) : s[i] = Space
  PROVE  Squeezed(s) = <<>>
<1>1. PICK P : P = {i \in DOMAIN s : s[i] # Space}
  OBVIOUS
<1>2. Len(s) \in Nat /\ \A i \in 1 .. Len(s) : i \notin P
  BY <1>1
<1>3. ElementsAt(s, P) = <<>>
  BY <1>2, ElementsAtNone
<1> QED
  BY <1>1, <1>3 DEF Squeezed

LEMMA SqueezedLeadStripped ==
  ASSUME NEW text \in Seq(Characters)
  PROVE  Squeezed(LeadStripped(text)) = Squeezed(text)
<1> DEFINE starts == {i \in 1 .. Len(text) : text[i] # Space}
           first == CHOOSE i \in starts : \A j \in starts : i <= j
<1>1. CASE starts = {}
  <2>1. \A i \in 1 .. Len(text) : text[i] = Space
    BY <1>1
  <2>2. LeadStripped(text) = <<>>
    BY <1>1 DEF LeadStripped
  <2> QED
    BY <2>1, <2>2, SqueezedSpaces, SqueezedEmpty
<1>2. CASE starts # {}
  <2>1. \E i \in starts : \A j \in starts : i <= j
    <3>1. starts \subseteq Nat
      OBVIOUS
    <3> HIDE DEF starts
    <3> QED
      BY <1>2, <3>1, LeastElement
  <2>2. first \in starts /\ \A j \in starts : first <= j
    <3> HIDE DEF starts
    <3> QED
      BY <2>1, Zenon
  <2>3. LeadStripped(text) = SubSeq(text, first, Len(text))
    BY <1>2 DEF LeadStripped
  <2>4. PICK f \in 1 .. Len(text) : f = first /\ \A j \in starts : f <= j
    BY <2>2
  <2> HIDE DEF first
  <2>5. PICK n \in 0 .. Len(text) : n = f - 1
    OBVIOUS
  <2>6. PICK s \in Seq(Characters) :
          /\ s = SubSeq(text, 1, n) /\ Len(s) = n
          /\ \A i \in 1 .. n : s[i] = text[i]
    <3>1. /\ SubSeq(text, 1, n) \in Seq(Characters)
          /\ Len(SubSeq(text, 1, n)) = n
          /\ \A i \in 1 .. n : SubSeq(text, 1, n)[i] = text[i]
      BY PrefixIs, Zenon
    <3> QED
      BY <3>1
  <2>7. PICK t \in Seq(Characters) :
          /\ t = SubSeq(text, f, Len(text)) /\ Len(t) = Len(text) - n
          /\ \A i \in 1 .. Len(t) : t[i] = text[n + i]
    <3>1. /\ SubSeq(text, f, Len(text)) \in Seq(Characters)
          /\ Len(SubSeq(text, f, Len(text))) = Len(text) - n
      BY <2>5
    <3>2. \A i \in 1 .. Len(text) - n :
            SubSeq(text, f, Len(text))[i] = text[n + i]
      BY <2>5
    <3> QED
      BY <3>1, <3>2
  <2>8. text = s \o t
    BY <2>5, <2>6, <2>7
  <2>9. \A i \in 1 .. Len(s) : s[i] = Space
    BY <2>4, <2>5, <2>6
  <2>10. Squeezed(s) = <<>>
    BY <2>9, SqueezedSpaces
  <2>11. Squeezed(t) \in Seq(Characters)
    BY ElementsAtType DEF Squeezed
  <2>12. Squeezed(text) = <<>> \o Squeezed(t)
    BY <2>8, <2>10, SqueezedConcat
  <2> QED
    BY <2>3, <2>4, <2>7, <2>11, <2>12
<1> QED
  BY <1>1, <1>2

\* Results beside another text, and no timer to search for it.
Behind(b) ==
  /\ b.resultsShown /\ ~ Throws(b)
  /\ b.timers = 0
  /\ Squeezed(b.field) \notin {<<>>, Squeezed(b.lastSearchValue)}

\* While the field is not in use, what is shown is what stands in it.
Quiet(b) ==
  b.resultsShown /\ ~ b.searchActive
    => Squeezed(b.field) = Squeezed(b.lastSearchValue)

\* An operator from box to box after which results are behind the text only
\* if they were before.
Keeps(b, c) == /\ Behind(c) => Behind(b)
               /\ Quiet(b) => Quiet(c)

LEMMA KeepsTransitive ==
  \A b, c, d : Keeps(b, c) /\ Keeps(c, d) => Keeps(b, d)
  BY DEF Keeps

\* What neither property looks at.
LEMMA SameKeeps ==
  ASSUME NEW b, NEW c, SamePanel(b, c),
         c.resultsShown = b.resultsShown, c.timers = b.timers,
         c.searchIndex = b.searchIndex, c.lastSearchValue = b.lastSearchValue
  PROVE  Keeps(b, c)
  BY DEF SamePanel, Keeps, Behind, Quiet, Throws

\* A window that is closed shows nothing old.
LEMMA ClosedKeeps ==
  ASSUME NEW b, NEW c, ~ c.resultsShown
  PROVE  Keeps(b, c) /\ ~ Behind(c)
  BY DEF Keeps, Behind, Quiet

LEMMA ActivateKeeps ==
  ASSUME NEW b \in Boxes, NEW isActive \in BOOLEAN
  PROVE  Keeps(b, Activate(b, isActive))
<1> DEFINE c == Activate(b, isActive)
<1>1. CASE (isActive \/ b.resultsShown) /\ b.field = Label
  <2>1. c.field = <<>> /\ c.searchActive
    BY <1>1 DEF Activate, Boxes
  <2> QED
    BY <2>1, SqueezedEmpty DEF Keeps, Behind, Quiet
<1>2. CASE (isActive \/ b.resultsShown) /\ b.field # Label
  <2>1. c = [b EXCEPT !.className = "Active"]
    BY <1>2 DEF Activate
  <2> QED
    BY <2>1 DEF Boxes, Keeps, Behind, Quiet, Throws
<1>3. CASE ~(isActive \/ b.resultsShown)
  <2>1. ~ c.resultsShown
    BY <1>3 DEF Activate, Boxes
  <2> QED
    BY <2>1, ClosedKeeps
<1> QED
  BY <1>1, <1>2, <1>3

LEMMA MovedKeeps ==
  ASSUME NEW b, Good(b), NEW from, NEW to
  PROVE  Keeps(b, Moved(b, from, to))
<1> DEFINE left == IF from = "field" /\ to # "field" THEN Activate(b, FALSE)
                                                   ELSE b
<1>1. left \in Boxes /\ Keeps(b, left)
  BY ActivateGood, ActivateKeeps DEF Good, Keeps
<1>2. Moved(b, from, to) = IF to = "field" /\ from # "field"
                           THEN Activate(left, TRUE) ELSE left
  BY DEF Moved
<1> HIDE DEF left
<1> QED
  BY <1>1, <1>2, ActivateKeeps, KeepsTransitive

LEMMA HiddenShowsNothing ==
  ASSUME NEW b \in Boxes
  PROVE  /\ ~ Hidden(b).resultsShown
         /\ ~ [Hidden(b) EXCEPT !.lastSearchValue = <<>>].resultsShown
  BY DEF Hidden, Boxes

LEMMA CloseResultsWindowKeeps ==
  ASSUME NEW b, Good(b)
  PROVE  /\ Keeps(b, CloseResultsWindow(b))
         /\ ~ Behind(CloseResultsWindow(b))
<1>1. Hidden(b) \in Boxes /\ ~ Hidden(b).resultsShown
  BY HiddenGood DEF Follows, Good
<1>2. Keeps(Hidden(b), CloseResultsWindow(b))
  BY <1>1, ActivateKeeps DEF CloseResultsWindow
<1>3. Keeps(b, Hidden(b)) /\ ~ Behind(Hidden(b))
  BY <1>1, ClosedKeeps
<1> QED
  BY <1>2, <1>3, KeepsTransitive DEF Keeps

\* What is searched for is the text.
LEMMA SearchKeeps ==
  ASSUME NEW b \in Boxes
  PROVE  Keeps(b, Search(b)) /\ ~ Behind(Search(b))
<1> DEFINE value == LeadStripped(b.field)
           c == Search(b)
<1>1. CASE Throws(b)
  <2>1. c = [b EXCEPT !.keyTimeout = FALSE]
    BY <1>1 DEF Search
  <2> QED
    BY <1>1, <2>1 DEF Boxes, Keeps, Behind, Quiet, Throws
<1>2. CASE ~ Throws(b)
  <2>1. c.field = b.field /\ c.lastSearchValue = value
    BY <1>2 DEF Search, Boxes
  <2>2. Squeezed(value) = Squeezed(b.field)
    BY SqueezedLeadStripped DEF Boxes
  <2> HIDE DEF value
  <2> QED
    BY <2>1, <2>2 DEF Keeps, Behind, Quiet
<1> QED
  BY <1>1, <1>2

LEMMA OnSelectItemKeeps ==
  ASSUME NEW b, Good(b), NEW id \in 0 .. Items
  PROVE  /\ Quiet(b) => Quiet(OnSelectItem(b, id))
         /\ Quiet(b) => ~ Behind(OnSelectItem(b, id))
<1> DEFINE selected == [b EXCEPT !.searchIndex = id]
<1>1. selected \in Boxes
  BY DEF Good, Boxes
<1>2. /\ SamePanel(b, selected)
      /\ selected.resultsShown = b.resultsShown
      /\ selected.lastSearchValue = b.lastSearchValue
  BY DEF Good, Boxes, SamePanel
<1>3. OnSelectItem(b, id) = IF Searching(selected) THEN Search(selected)
                                                   ELSE selected
  BY DEF OnSelectItem
<1> HIDE DEF selected
<1>4. Quiet(b) => Quiet(selected)
  BY <1>2 DEF Quiet, SamePanel
<1>5. CASE Searching(selected)
  BY <1>1, <1>3, <1>4, <1>5, SearchKeeps DEF Keeps
<1>6. CASE ~ Searching(selected)
  BY <1>3, <1>4, <1>6 DEF Searching, Quiet, Behind
<1> QED
  BY <1>5, <1>6

LEMMA MenuKeeps ==
  ASSUME NEW b, Good(b)
  PROVE  /\ Keeps(b, OnSearchSelectShow(b))
         /\ Keeps(b, CloseSelectionWindow(b))
<1>1. Keeps(b, OnSearchSelectShow(b))
  <2> DEFINE c == OnSearchSelectShow(b)
  <2>1. /\ SamePanel(b, c) /\ c.resultsShown = b.resultsShown
        /\ c.timers = b.timers /\ c.searchIndex = b.searchIndex
        /\ c.lastSearchValue = b.lastSearchValue
    BY DEF OnSearchSelectShow, Good, Boxes, SamePanel
  <2> QED
    BY <2>1, SameKeeps
<1>2. Keeps(b, CloseSelectionWindow(b))
  <2> DEFINE c == CloseSelectionWindow(b)
  <2>1. /\ SamePanel(b, c) /\ c.resultsShown = b.resultsShown
        /\ c.timers = b.timers /\ c.searchIndex = b.searchIndex
        /\ c.lastSearchValue = b.lastSearchValue
    BY DEF CloseSelectionWindow, Good, Boxes, SamePanel
  <2> QED
    BY <2>1, SameKeeps
<1> QED
  BY <1>1, <1>2

\* Without its timer a text may be forgotten; what is quiet stays so.
LEMMA KillKeyTimerQuiet ==
  ASSUME NEW b, Good(b)
  PROVE  Quiet(b) => Quiet(KillKeyTimer(b))
<1>1. CASE b.keyTimeout
  <2>1. KillKeyTimer(b) = [b EXCEPT !.keyTimeout = FALSE,
                                    !.timers = b.timers - 1]
    BY <1>1 DEF KillKeyTimer
  <2> QED
    BY <2>1 DEF Good, Boxes, Quiet
<1>2. CASE ~ b.keyTimeout
  BY <1>2 DEF KillKeyTimer
<1> QED
  BY <1>1, <1>2

\* OnSearchFieldChange comes to its end with a timer for a new text.
LEMMA CompareValueKeeps ==
  ASSUME NEW b, Good(b)
  PROVE  /\ Quiet(b) => Quiet(CompareValue(b))
         /\ ~ Behind(CompareValue(b))
<1> DEFINE value == Squeezed(b.field)
<1>1. CASE value = b.lastSearchValue
  <2>1. Squeezed(b.lastSearchValue) = value
    BY <1>1, SqueezedTwice DEF Good, Boxes
  <2> QED
    BY <1>1, <2>1 DEF CompareValue, Behind
<1>2. CASE value # b.lastSearchValue /\ value # <<>>
  <2>1. CompareValue(b)
          = [b EXCEPT !.keyTimeout = TRUE, !.timers = b.timers + 1]
    BY <1>2 DEF CompareValue
  <2>2. CompareValue(b).timers = b.timers + 1 /\ b.timers \in Nat
    BY <2>1 DEF Good, Boxes
  <2>3. Quiet(b) => Quiet(CompareValue(b))
    BY <2>1 DEF Good, Boxes, Quiet
  <2> QED
    BY <2>2, <2>3 DEF Behind
<1>3. CASE value # b.lastSearchValue /\ value = <<>>
  <2>1. CompareValue(b) = [Hidden(b) EXCEPT !.lastSearchValue = <<>>]
    BY <1>3 DEF CompareValue
  <2>2. ~ CompareValue(b).resultsShown
    BY <2>1, HiddenShowsNothing DEF Good
  <2> QED
    BY <2>2 DEF Quiet, Behind
<1> QED
  BY <1>1, <1>2, <1>3

-----------------------------------------------------------------------------

\* A key that is down in the field may have changed its text.
Pressed == focus = "field" /\ held = "Text"

ToMenu == focus = "field" /\ focus' = "menu" /\ held # "none"

LEMMA StaleIs == Stale <=> Behind(box) /\ ~ Pressed
  BY DEF Stale, Behind, Pressed

\* What is to be shown of a step.
StepQuiet ==
  /\ Quiet(box')
  /\ Behind(box') /\ ~ Pressed' => (Behind(box) /\ ~ Pressed) \/ ToMenu

LEMMA ClickQuiet ==
  ASSUME IInv, Quiet(box),
         \/ \E place \in {"field", "page"} : Click(place)
         \/ ClickResult \/ ClickClose
         \/ \E id \in 0 .. Items - 1 : ClickItem(id)
  PROVE  StepQuiet
<1>1. held = "none"
  BY DEF Click, ClickResult, ClickClose, ClickItem
<1>2. SUFFICES Quiet(box') /\ (Behind(box') => Behind(box))
  BY <1>1 DEF StepQuiet, Pressed
<1>3. Good(box) /\ (focus = "field" => Active(box))
  BY GoodBox
<1>4. \A to : Keeps(box, Moved(box, focus, to))
  BY <1>3, MovedKeeps
<1>5. CASE \/ \E place \in {"field", "page"} : Click(place)
           \/ ClickResult
  <2>1. \E to : box' = Moved(box, focus, to)
    BY <1>5 DEF Click, ClickResult
  <2> QED
    BY <1>4, <2>1 DEF Keeps
<1>6. CASE ClickClose
  <2> DEFINE moved == Moved(box, focus, "page")
  <2>1. box' = CloseResultsWindow(moved)
    BY <1>6 DEF ClickClose
  <2>2. Good(moved) /\ Keeps(box, moved)
    BY <1>3, <1>4, MovedGood
  <2> HIDE DEF moved
  <2> QED
    BY <2>1, <2>2, CloseResultsWindowKeeps DEF Keeps
<1>7. CASE \E id \in 0 .. Items - 1 : ClickItem(id)
  <2> DEFINE moved == Moved(box, focus, "menu")
  <2>1. PICK id \in 0 .. Items - 1 : box' = OnSelectItem(moved, id)
    BY <1>7 DEF ClickItem
  <2>2. id \in 0 .. Items
    BY PagesAssumption
  <2>3. Good(moved) /\ Keeps(box, moved)
    BY <1>3, <1>4, MovedGood
  <2> HIDE DEF moved
  <2> QED
    BY <2>1, <2>2, <2>3, OnSelectItemKeeps DEF Keeps
<1> QED
  BY <1>5, <1>6, <1>7

LEMMA MouseQuiet ==
  ASSUME IInv, Quiet(box), MouseOver \/ MouseOut
  PROVE  StepQuiet
<1>1. Good(box)
  BY GoodBox
<1>2. Keeps(box, box')
  <2>1. CASE MouseOver
    BY <1>1, <2>1, MenuKeeps DEF MouseOver
  <2>2. CASE MouseOut
    <3>1. box' = [box EXCEPT !.hideTimeout = TRUE]
      BY <2>2 DEF MouseOut
    <3> QED
      BY <1>1, <3>1, SameKeeps DEF Good, Boxes, SamePanel
  <2> QED
    BY <2>1, <2>2
<1>3. UNCHANGED <<focus, held>>
  BY DEF MouseOver, MouseOut
<1> QED
  BY <1>2, <1>3 DEF StepQuiet, Keeps, Pressed

LEMMA KeyDownQuiet ==
  ASSUME IInv, Quiet(box), NEW key \in Keys, KeyDown(key)
  PROVE  StepQuiet
<1>1. Good(box) /\ (focus = "field" => Active(box))
  BY GoodBox
<1>2. held = "none" /\ held' = key
  BY DEF KeyDown
<1>3. ~ Pressed
  BY <1>2 DEF Pressed
<1>4. CASE PressInField(key) /\ key = "Text"
  <2>1. PICK text \in Texts : box' = [box EXCEPT !.field = text]
    BY <1>4 DEF PressInField
  <2>2. focus = "field" /\ focus' = "field"
    BY <1>4 DEF PressInField
  <2>3. Quiet(box')
    BY <1>1, <2>1, <2>2 DEF Good, Boxes, Active, Quiet
  <2> QED
    BY <1>2, <1>4, <2>2, <2>3 DEF StepQuiet, Pressed
<1>5. CASE box' = box
  BY <1>3, <1>5 DEF StepQuiet
<1>6. CASE \E id \in 0 .. Items : box' = OnSelectItem(box, id)
  BY <1>1, <1>6, OnSelectItemKeeps DEF StepQuiet
<1>7. CASE box' = Moved(CloseSelectionWindow(
                          OnSelectItem(box, box.searchIndex)),
                        "menu", "field")
  <2> DEFINE selected == OnSelectItem(box, box.searchIndex)
             closed == CloseSelectionWindow(selected)
  <2>1. box.searchIndex \in 0 .. Items
    BY <1>1 DEF Good, Boxes
  <2>2. Good(selected) /\ Quiet(selected) /\ ~ Behind(selected)
    BY <1>1, <2>1, OnSelectItemGood, OnSelectItemKeeps DEF Follows
  <2> HIDE DEF selected
  <2>3. Good(closed) /\ Keeps(selected, closed)
    BY <2>2, MenuGood, MenuKeeps DEF Follows
  <2> HIDE DEF closed
  <2>4. Keeps(closed, Moved(closed, "menu", "field"))
    BY <2>3, MovedKeeps
  <2>5. box' = Moved(closed, "menu", "field")
    BY <1>7 DEF closed, selected
  <2> QED
    BY <2>2, <2>3, <2>4, <2>5 DEF StepQuiet, Keeps
<1>8. CASE box' = Moved(CloseResultsWindow(box), "results", "field")
  <2> DEFINE closed == CloseResultsWindow(box)
  <2>1. Good(closed) /\ Keeps(box, closed)
    BY <1>1, CloseResultsWindowGood, CloseResultsWindowKeeps
  <2> HIDE DEF closed
  <2>2. Keeps(closed, Moved(closed, "results", "field"))
    BY <2>1, MovedKeeps
  <2>3. box' = Moved(closed, "results", "field")
    BY <1>8 DEF closed
  <2> QED
    BY <1>3, <2>1, <2>2, <2>3 DEF StepQuiet, Keeps
<1>9. CASE box' = Moved(box, "results", "field")
  BY <1>1, <1>3, <1>9, MovedKeeps DEF StepQuiet, Keeps
<1>10. CASE PressInMenu(key)
  <2>1. box.searchIndex \in 0 .. Items
    BY <1>1 DEF Good, Boxes
  <2>2. CASE key = "Down" /\ box.searchIndex < Items
    <3>1. box' = OnSelectItem(box, box.searchIndex + 1)
      BY <1>10, <2>2 DEF PressInMenu
    <3>2. box.searchIndex + 1 \in 0 .. Items
      BY <2>1, <2>2, PagesAssumption
    <3> QED
      BY <1>6, <3>1, <3>2
  <2>3. CASE key = "Up" /\ box.searchIndex > 0
    <3>1. box' = OnSelectItem(box, box.searchIndex - 1)
      BY <1>10, <2>3 DEF PressInMenu
    <3>2. box.searchIndex - 1 \in 0 .. Items
      BY <2>1, <2>3, PagesAssumption
    <3> QED
      BY <1>6, <3>1, <3>2
  <2>4. CASE key \in {"Enter", "Escape"}
    <3>1. CASE Searching(box) /\ Throws(box)
      <4>1. box' = OnSelectItem(box, box.searchIndex)
        BY <1>10, <2>4, <3>1 DEF PressInMenu
      <4> QED
        BY <1>6, <2>1, <4>1
    <3>2. CASE ~(Searching(box) /\ Throws(box))
      BY <1>7, <1>10, <2>4, <3>2 DEF PressInMenu
    <3> QED
      BY <3>1, <3>2
  <2>5. CASE /\ ~(key = "Down" /\ box.searchIndex < Items)
             /\ ~(key = "Up" /\ box.searchIndex > 0)
             /\ key \notin {"Enter", "Escape"}
    BY <1>5, <1>10, <2>5 DEF PressInMenu
  <2> QED
    BY <2>2, <2>3, <2>4, <2>5
<1> QED
  BY <1>4, <1>5, <1>8, <1>9, <1>10 DEF KeyDown, PressInField, PressInResults

LEMMA KeyUpQuiet ==
  ASSUME IInv, Quiet(box), KeyUp
  PROVE  StepQuiet
<1>1. Good(box) /\ (focus = "field" => Active(box))
  BY GoodBox
<1> DEFINE killed == KillKeyTimer(box)
<1>2. Good(killed) /\ SamePanel(box, killed) /\ Quiet(killed)
  BY <1>1, KillKeyTimerGood, KillKeyTimerQuiet DEF Follows
<1>3. focus = "field" => Active(killed)
  BY <1>1, <1>2 DEF SamePanel, Active
<1> HIDE DEF killed
<1>4. CASE FieldToMenu
  <2> DEFINE shown == OnSearchSelectShow(killed)
  <2>1. Good(shown) /\ Quiet(shown)
    BY <1>2, MenuGood, MenuKeeps DEF Follows, Keeps
  <2> HIDE DEF shown
  <2>2. Quiet(Moved(shown, "field", "menu"))
    BY <2>1, MovedKeeps DEF Keeps
  <2>3. box' = Moved(shown, "field", "menu") /\ ToMenu
    BY <1>4 DEF FieldToMenu, ToMenu, shown, killed
  <2> QED
    BY <2>2, <2>3 DEF StepQuiet
<1>5. CASE FieldToResults
  <2> DEFINE moved == Moved(killed, "field", "results")
  <2>1. focus = "field"
    BY <1>5 DEF FieldToResults
  <2>2. Good(moved) /\ Quiet(moved)
    BY <1>2, <1>3, <2>1, MovedGood, MovedKeeps DEF Keeps
  <2> HIDE DEF moved
  <2>3. box' = CompareValue(moved)
    BY <1>5 DEF FieldToResults, moved, killed
  <2> QED
    BY <2>2, <2>3, CompareValueKeeps DEF StepQuiet
<1>6. CASE LeaveField
  <2> DEFINE left == Activate(killed, FALSE)
             cleared == [Hidden(left) EXCEPT !.lastSearchValue = <<>>]
  <2>1. Good(left)
    BY <1>2, ActivateGood
  <2> HIDE DEF left
  <2>2. Good(cleared) /\ ~ cleared.resultsShown
    BY <2>1, HiddenGood, HiddenShowsNothing DEF Follows, Good
  <2> HIDE DEF cleared
  <2>3. Keeps(cleared, Activate(cleared, FALSE))
    BY <2>2, ActivateKeeps DEF Good
  <2>4. box' = Activate(cleared, FALSE)
    BY <1>6 DEF LeaveField, cleared, left, killed
  <2> QED
    BY <2>2, <2>3, <2>4 DEF StepQuiet, Keeps, Behind, Quiet
<1>7. CASE FieldChange
  <2>1. box' = CompareValue(killed)
    BY <1>7 DEF FieldChange, killed
  <2> QED
    BY <1>2, <2>1, CompareValueKeeps DEF StepQuiet
<1>8. CASE focus # "field" /\ UNCHANGED <<box, focus>>
  BY <1>8 DEF StepQuiet, Pressed
<1> QED
  BY <1>4, <1>5, <1>6, <1>7, <1>8 DEF KeyUp

LEMMA TimerQuiet ==
  ASSUME IInv, Quiet(box), SearchTimer \/ HideTimer \/ Load
  PROVE  StepQuiet
<1>1. Good(box)
  BY GoodBox
<1>2. CASE SearchTimer
  <2> DEFINE fired == [box EXCEPT !.timers = box.timers - 1]
  <2>1. box' = Search(fired)
    BY <1>2 DEF SearchTimer
  <2>2. fired \in Boxes
    <3>1. box.timers - 1 \in Nat
      BY <1>1, <1>2 DEF Good, Boxes, SearchTimer
    <3> QED
      BY <1>1, <3>1 DEF Good, Boxes
  <2>3. Quiet(fired)
    BY <1>1 DEF Good, Boxes, Quiet
  <2> HIDE DEF fired
  <2> QED
    BY <2>1, <2>2, <2>3, SearchKeeps DEF StepQuiet, Keeps
<1>3. CASE HideTimer
  <2>1. box' = [CloseSelectionWindow(box) EXCEPT !.hideTimeout = FALSE]
    BY <1>3 DEF HideTimer
  <2>2. Keeps(box, box')
    <3>1. /\ SamePanel(box, box')
          /\ box'.resultsShown = box.resultsShown
          /\ box'.timers = box.timers
          /\ box'.searchIndex = box.searchIndex
          /\ box'.lastSearchValue = box.lastSearchValue
      BY <1>1, <2>1 DEF CloseSelectionWindow, Good, Boxes, SamePanel
    <3> QED
      BY <3>1, SameKeeps
  <2>3. focus = "field" => focus' = "field" /\ held' = held
    BY <1>3 DEF HideTimer, Kept
  <2> QED
    BY <2>2, <2>3 DEF StepQuiet, Keeps, Pressed
<1>4. CASE Load
  <2>1. box' = [box EXCEPT !.frame = box.loading, !.loading = Nothing]
    BY <1>4 DEF Load
  <2>2. Keeps(box, box')
    <3>1. /\ SamePanel(box, box')
          /\ box'.resultsShown = box.resultsShown
          /\ box'.timers = box.timers
          /\ box'.searchIndex = box.searchIndex
          /\ box'.lastSearchValue = box.lastSearchValue
      BY <1>1, <2>1 DEF Good, Boxes, SamePanel
    <3> QED
      BY <3>1, SameKeeps
  <2>3. focus = "field" => focus' = "field" /\ held' = held
    BY <1>4 DEF Load
  <2> QED
    BY <2>2, <2>3 DEF StepQuiet, Keeps, Pressed
<1> QED
  BY <1>2, <1>3, <1>4

\* Through all orders of keys, clicks, timers and loads the results fall
\* behind the text only when Shift with Down or Enter moves from the field to
\* the menu, for which OnSearchFieldChange() kills the timer and sets no other.
THEOREM TextIsSearched == Spec => OnlyShiftLosesSearch
<1>1. Init => Quiet(box)
  BY DEF Init, Quiet
<1>2. ASSUME IInv, Quiet(box), Next
      PROVE  StepQuiet
  BY <1>2, ClickQuiet, MouseQuiet, KeyDownQuiet, KeyUpQuiet, TimerQuiet
  DEF Next
<1>3. IInv /\ Quiet(box) /\ [Next]_vars => Quiet(box)'
  <2>1. CASE UNCHANGED vars
    BY <2>1 DEF vars
  <2> QED
    BY <1>2, <2>1 DEF StepQuiet
<1>4. Spec => []Quiet(box)
  BY <1>1, <1>3, Invariance, PTL DEF Spec
<1>5. IInv /\ Quiet(box) /\ [Next]_vars
        => [Stale' => Stale \/ (focus = "field" /\ focus' = "menu"
                                                /\ held # "none")]_vars
  <2>1. Stale' <=> Behind(box') /\ ~ Pressed'
    BY DEF Stale, Behind, Pressed, Throws
  <2> QED
    BY <1>2, <2>1, StaleIs DEF StepQuiet, ToMenu
<1> QED
  BY <1>4, <1>5, Invariance, PTL DEF Spec, OnlyShiftLosesSearch

-----------------------------------------------------------------------------
(* The results: where the focus can be.                                    *)

\* The focus is on a row or on a child that can be seen.
OnRow(r) == r \in visible /\ where = <<r>>
OnChild(r, c) ==
  r \in visible /\ r \in open /\ c \in Children(r) /\ where = <<r, c>>

FocusInv ==
  \/ where = <<>>
  \/ \E r \in Rows : OnRow(r)
  \/ \E r \in Rows : \E c \in Children(r) : OnChild(r, c)

RowsInv ==
  /\ page \in DOMAIN Results
  /\ visible \subseteq Rows
  /\ open \subseteq {r \in Rows : Children(r) # {}}

KeysInv ==
  /\ down \in ResultKeys \union {"none"}
  /\ lastKey \in ResultKeys \union {"none"}
  /\ repeatOn \in BOOLEAN

ResultsInv ==
  RowsInv /\ FocusInv /\ KeysInv /\ VisibleIsOneBlock /\ ActsOnHeldKey

-----------------------------------------------------------------------------
(* Rows.                                                                   *)

LEMMA RowsAre ==
  ASSUME RowsInv
  PROVE  \E n \in Nat : Rows = 1 .. n
<1>1. Results[page] \in Seq(STRING \X Nat)
  BY RowsAssumption DEF RowsInv
<1> QED
  BY <1>1 DEF Rows

LEMMA PlacesType ==
  ASSUME RowsInv, NEW r \in Rows
  PROVE  PlacesOf(r) \in Nat
<1>1. Results[page] \in Seq(STRING \X Nat)
  BY RowsAssumption DEF RowsInv
<1>2. Results[page][r] \in STRING \X Nat
  BY <1>1 DEF Rows
<1> QED
  BY <1>2 DEF PlacesOf

\* getElementById() finds a row of the page, and the row itself if that has
\* children.
LEMMA OwnerIs ==
  ASSUME RowsInv, NEW r \in Rows
  PROVE  /\ Owner(r) \in Rows
         /\ Children(r) # {} => Owner(r) = r
<1>1. PICK n \in Nat : Rows = 1 .. n
  BY RowsAre
<1> DEFINE same == {q \in 1 .. r : Results[page][q][1] = Results[page][r][1]}
<1>2. Owner(r) = Min(same)
  BY DEF RowsInv, Owner, FirstRow, Rows
<1>3. r \in Nat \ {0} /\ same \subseteq Nat /\ r \in same
  BY <1>1
<1>4. Min(same) \in same
  <2> HIDE DEF same
  <2> QED
    BY <1>3, MinIsElement
<1>5. Owner(r) \in Rows
  BY <1>1, <1>2, <1>4
<1>6. ASSUME Children(r) # {}
      PROVE  Owner(r) = r
  <2>1. Results[page][r][2] > 1
    BY <1>6 DEF Children, PlacesOf
  <2>2. \A q \in 1 .. r - 1 : Results[page][q][1] # Results[page][r][1]
    BY <2>1, RowsAssumption DEF RowsInv, Rows
  <2>3. Min(same) \notin 1 .. r - 1
    BY <1>4, <2>2
  <2> HIDE DEF same
  <2>4. Min(same) \in 1 .. r
    BY <1>4 DEF same
  <2> QED
    BY <1>2, <1>3, <2>3, <2>4
<1> QED
  BY <1>5, <1>6

\* The next visible row, and nothing of a row in between.
LEMMA NavNextIs ==
  ASSUME RowsInv, NEW i \in Nat
  PROVE  \/ NavNext(i) = {} /\ \A q \in visible : q < i
         \/ \E s \in visible : /\ NavNext(i) = {<<s>>} /\ i <= s
                               /\ \A q \in visible : i <= q => s <= q
<1>1. PICK n \in Nat : Rows = 1 .. n
  BY RowsAre
<1> DEFINE S == {q \in visible : q >= i}
<1>2. visible \subseteq Nat /\ S \subseteq Nat
  <2>1. ASSUME NEW q \in visible
        PROVE  q \in Nat
    BY <1>1 DEF RowsInv
  <2> QED
    BY <2>1, Zenon
<1>3. NavNext(i) = IF S = {} THEN {} ELSE {<<Min(S)>>}
  BY DEF NavNext
<1>4. CASE S = {}
  BY <1>2, <1>3, <1>4
<1>5. CASE S # {}
  <2>1. Min(S) \in S /\ \A q \in S : Min(S) <= q
    <3> HIDE DEF S
    <3> QED
      BY <1>2, <1>5, MinIsElement, MinIsLeast
  <2>2. PICK s : s = Min(S) /\ s \in S /\ \A q \in S : s <= q
    BY <2>1
  <2> QED
    BY <1>2, <1>3, <1>5, <2>2
<1> QED
  BY <1>4, <1>5

\* The row before a visible one is visible, or none before it is.
LEMMA NavPrevIs ==
  ASSUME RowsInv, VisibleIsOneBlock, NEW r \in visible
  PROVE  \/ NavPrev(r - 1) = {} /\ \A q \in visible : r <= q
         \/ NavPrev(r - 1) = {<<r - 1>>} /\ r - 1 \in visible
<1>1. PICK n \in Nat : Rows = 1 .. n
  BY RowsAre
<1>2. visible \subseteq 1 .. n
  BY <1>1 DEF RowsInv
<1> DEFINE S == {q \in visible : q <= r - 1}
<1>3. NavPrev(r - 1) = IF S = {} THEN {} ELSE {<<Max(S)>>}
  BY DEF NavPrev
<1>4. CASE S = {}
  BY <1>2, <1>3, <1>4
<1>5. CASE S # {}
  <2>1. S \subseteq 0 .. n
    <3>1. ASSUME NEW q \in S
          PROVE  q \in 0 .. n
      BY <1>2
    <3> HIDE DEF S
    <3> QED
      BY <3>1
  <2>2. PICK m : m = Max(S) /\ m \in S /\ \A q \in S : m >= q
    <3> HIDE DEF S
    <3> QED
      BY <1>5, <2>1, MaxIsElement, MaxIsGreatest
  <2>3. m \in visible /\ r \in visible /\ m < r /\ {m, r} \subseteq Nat
    BY <1>2, <2>2
  <2>4. m + 1 \in visible
    BY <2>3 DEF VisibleIsOneBlock
  <2>5. m + 1 = r
    <3>1. m + 1 \notin S
      BY <1>2, <2>2, <2>3
    <3> QED
      BY <2>3, <2>4, <3>1
  <2>6. m = r - 1
    BY <2>3, <2>5
  <2> QED
    BY <1>3, <1>5, <2>2, <2>3, <2>6
<1> QED
  BY <1>4, <1>5
-----------------------------------------------------------------------------
(* Where the keys go.                                                      *)

LEMMA RowIsSeen ==
  ASSUME NEW r
  PROVE  CanBeSeen(<<r>>) <=> r \in visible
<1>1. Len(<<r>>) = 1 /\ <<r>>[1] = r
  OBVIOUS
<1> QED
  BY <1>1 DEF CanBeSeen

LEMMA ChildIsSeen ==
  ASSUME NEW r, NEW c
  PROVE  CanBeSeen(<<r, c>>)
           <=> r \in visible /\ r \in open /\ c \in Children(r)
<1>1. Len(<<r, c>>) = 2 /\ <<r, c>>[1] = r /\ <<r, c>>[2] = c
  OBVIOUS
<1> QED
  BY <1>1 DEF CanBeSeen

\* The children of a row are numbered up to the number of its places.
LEMMA ChildrenAre ==
  ASSUME RowsInv, NEW r \in Rows, Children(r) # {}
  PROVE  /\ PlacesOf(r) \in Nat /\ PlacesOf(r) > 1
         /\ Children(r) = 1 .. PlacesOf(r)
  BY PlacesType DEF Children

\* A row is open exactly if its children can be seen, for the rows that have
\* any.
LEMMA OpenRow ==
  ASSUME RowsInv, NEW r \in Rows
  PROVE  /\ r \in open => Children(r) # {}
         /\ Children(r) # {} => (IsOpen(r) <=> r \in open)
  BY OwnerIs DEF RowsInv, IsOpen

\* The first visible row from i on gets the focus, if there is one.
NextRow(i) ==
  \/ where' = where /\ \A q \in visible : q < i
  \/ \E s \in visible : /\ where' = <<s>> /\ i <= s
                        /\ \A q \in visible : i <= q => s <= q

LEMMA FocusAnyNext ==
  ASSUME RowsInv, NEW i \in Nat, FocusAny(NavNext(i))
  PROVE  NextRow(i)
<1>1. CASE NavNext(i) = {} /\ \A q \in visible : q < i
  BY <1>1 DEF FocusAny, NextRow
<1>2. ASSUME NEW s \in visible, NavNext(i) = {<<s>>}, i <= s,
             \A q \in visible : i <= q => s <= q
      PROVE  NextRow(i)
  <2>1. Focus(<<s>>)
    BY <1>2 DEF FocusAny
  <2>2. where' = <<s>>
    BY <2>1, RowIsSeen DEF Focus
  <2> QED
    BY <1>2, <2>2 DEF NextRow
<1> QED
  BY <1>1, <1>2, NavNextIs

LEMMA NavDownIs ==
  ASSUME RowsInv, NEW r \in visible, NavDown(r)
  PROVE  \/ r \in open /\ 1 \in Children(r) /\ where' = <<r, 1>>
         \/ r \notin open /\ NextRow(r + 1)
<1>1. r \in Rows /\ r + 1 \in Nat
  BY RowsAre DEF RowsInv
<1>2. CASE IsOpen(r) /\ Children(r) # {}
  <2>1. r \in open /\ 1 \in Children(r)
    BY <1>1, <1>2, OpenRow, ChildrenAre
  <2> QED
    BY <1>2, <2>1, ChildIsSeen DEF NavDown, Focus
<1>3. CASE ~ (IsOpen(r) /\ Children(r) # {})
  <2>1. r \notin open
    BY <1>1, <1>3, OpenRow
  <2>2. FocusAny(NavNext(r + 1))
    BY <1>3 DEF NavDown
  <2> QED
    BY <1>1, <2>1, <2>2, FocusAnyNext
<1> QED
  BY <1>2, <1>3

LEMMA NavChildDownIs ==
  ASSUME RowsInv, NEW r \in visible, r \in open, NEW c \in Children(r),
         NavChildDown(r, c)
  PROVE  \/ c + 1 \in Children(r) /\ where' = <<r, c + 1>>
         \/ c + 1 \notin Children(r) /\ NextRow(r + 1)
<1>1. r \in Rows /\ r + 1 \in Nat
  BY RowsAre DEF RowsInv
<1>2. CASE c + 1 \in Children(r)
  <2>1. PICK d : d = c + 1
    OBVIOUS
  <2>2. Focus(<<r, d>>) /\ d \in Children(r)
    BY <1>2, <2>1 DEF NavChildDown
  <2>3. where' = <<r, d>>
    BY <2>2, ChildIsSeen DEF Focus
  <2> QED
    BY <1>2, <2>1, <2>3
<1>3. CASE c + 1 \notin Children(r)
  BY <1>1, <1>3, FocusAnyNext DEF NavChildDown
<1> QED
  BY <1>2, <1>3

LEMMA NavUpIs ==
  ASSUME RowsInv, VisibleIsOneBlock, NEW r \in visible, NavUp(r)
  PROVE  \/ where' = <<>> /\ \A q \in visible : r <= q
         \/ /\ r - 1 \in visible /\ r - 1 \in open
            /\ PlacesOf(r - 1) \in Children(r - 1)
            /\ where' = <<r - 1, PlacesOf(r - 1)>>
         \/ r - 1 \in visible /\ r - 1 \notin open /\ where' = <<r - 1>>
<1>1. CASE NavPrev(r - 1) = {} /\ \A q \in visible : r <= q
  BY <1>1 DEF NavUp
<1>2. CASE NavPrev(r - 1) = {<<r - 1>>} /\ r - 1 \in visible
  <2>1. PICK p : p = r - 1
    OBVIOUS
  <2>2. p \in visible /\ p \in Rows
    BY <1>2, <2>1 DEF RowsInv
  <2>3. Focus(IF IsOpen(p) /\ p \in Rows /\ Children(p) # {}
              THEN <<p, PlacesOf(p)>> ELSE <<p>>)
    BY <1>2, <2>1 DEF NavUp
  <2>4. CASE IsOpen(p) /\ Children(p) # {}
    <3>1. p \in open /\ PlacesOf(p) \in Children(p)
      BY <2>2, <2>4, OpenRow, ChildrenAre
    <3>2. where' = <<p, PlacesOf(p)>>
      BY <2>2, <2>3, <2>4, <3>1, ChildIsSeen DEF Focus
    <3> QED
      BY <2>1, <2>2, <3>1, <3>2
  <2>5. CASE ~ (IsOpen(p) /\ Children(p) # {})
    <3>1. p \notin open
      BY <2>2, <2>5, OpenRow
    <3>2. where' = <<p>>
      BY <2>2, <2>3, <2>5, RowIsSeen DEF Focus
    <3> QED
      BY <2>1, <2>2, <3>1, <3>2
  <2> QED
    BY <2>4, <2>5
<1> QED
  BY <1>1, <1>2, NavPrevIs

LEMMA NavChildUpIs ==
  ASSUME RowsInv, NEW r \in visible, r \in open, NEW c \in Children(r),
         NavChildUp(r, c)
  PROVE  \/ c - 1 \in Children(r) /\ where' = <<r, c - 1>>
         \/ c = 1 /\ where' = <<r>>
<1>1. PlacesOf(r) \in Nat /\ Children(r) = 1 .. PlacesOf(r)
  BY ChildrenAre DEF RowsInv
<1>2. CASE c > 1
  <2>1. PICK d : d = c - 1
    OBVIOUS
  <2>2. d \in Children(r)
    BY <1>1, <1>2, <2>1
  <2>3. where' = <<r, d>>
    BY <1>2, <2>1, <2>2, ChildIsSeen DEF NavChildUp, Focus
  <2> QED
    BY <2>1, <2>2, <2>3
<1>3. CASE ~ (c > 1)
  <2>1. c = 1
    BY <1>1, <1>3
  <2> QED
    BY <1>3, <2>1, RowIsSeen DEF NavChildUp, Focus
<1> QED
  BY <1>2, <1>3
-----------------------------------------------------------------------------
(* The invariant.                                                          *)

LEMMA FocusOnRow ==
  ASSUME RowsInv, UNCHANGED <<page, visible>>, NEW r \in visible,
         where' = <<r>>
  PROVE  FocusInv'
<1>1. r \in Rows' /\ OnRow(r)'
  BY DEF RowsInv, Rows, OnRow
<1> QED
  BY <1>1 DEF FocusInv

LEMMA FocusOnChild ==
  ASSUME RowsInv, UNCHANGED <<page, visible>>, NEW r \in visible,
         r \in open', NEW c \in Children(r), where' = <<r, c>>
  PROVE  FocusInv'
<1>1. r \in Rows' /\ c \in Children(r)' /\ OnChild(r, c)'
  BY DEF RowsInv, Rows, Children, PlacesOf, OnChild
<1> QED
  BY <1>1 DEF FocusInv

LEMMA FocusStays ==
  ASSUME RowsInv, FocusInv, UNCHANGED <<page, visible, open, where>>
  PROVE  FocusInv'
<1>1. ASSUME NEW r \in Rows, OnRow(r)
      PROVE  FocusInv'
  BY <1>1, FocusOnRow DEF OnRow
<1>2. ASSUME NEW r \in Rows, NEW c \in Children(r), OnChild(r, c)
      PROVE  FocusInv'
  BY <1>2, FocusOnChild DEF OnChild
<1>3. CASE where = <<>>
  BY <1>3 DEF FocusInv
<1> QED
  BY <1>1, <1>2, <1>3 DEF FocusInv

LEMMA FocusNext ==
  ASSUME RowsInv, FocusInv, UNCHANGED <<page, visible, open>>,
         NEW i \in Nat, NextRow(i)
  PROVE  FocusInv'
<1>1. CASE where' = where
  BY <1>1, FocusStays
<1>2. ASSUME NEW s \in visible, where' = <<s>>
      PROVE  FocusInv'
  BY <1>2, FocusOnRow
<1> QED
  BY <1>1, <1>2 DEF NextRow

\* While a key goes to the results the focus is on a row or on a child.
LEMMA FocusIs ==
  ASSUME RowsInv, FocusInv, where # <<>>
  PROVE  \/ \E r \in visible : where = <<r>> /\ Len(where) = 1 /\ where[1] = r
         \/ \E r \in visible : \E c \in Children(r) :
              /\ r \in open /\ where = <<r, c>>
              /\ Len(where) = 2 /\ where[1] = r /\ where[2] = c
<1>1. ASSUME NEW r \in Rows, OnRow(r)
      PROVE  r \in visible /\ where = <<r>> /\ Len(where) = 1 /\ where[1] = r
  BY <1>1 DEF OnRow
<1>2. ASSUME NEW r \in Rows, NEW c \in Children(r), OnChild(r, c)
      PROVE  /\ r \in visible /\ r \in open /\ where = <<r, c>>
             /\ Len(where) = 2 /\ where[1] = r /\ where[2] = c
  BY <1>2 DEF OnChild
<1> QED
  BY <1>1, <1>2 DEF FocusInv

\* What a key does to the focus and to the rows that are open.
LEMMA NavKeeps ==
  ASSUME RowsInv, FocusInv, VisibleIsOneBlock, where # <<>>,
         UNCHANGED <<page, visible>>, NEW key, Nav(key)
  PROVE  RowsInv' /\ FocusInv'
<1>1. \A r \in visible : r \in Rows /\ r + 1 \in Nat
  BY RowsAre DEF RowsInv
<1>2. CASE key = "Up" \/ key = "Down"
  <2>1. open' = open
    BY <1>2 DEF Nav
  <2>2. RowsInv'
    BY <2>1 DEF RowsInv, Rows, Children, PlacesOf
  <2>3. ASSUME NEW r \in visible, where = <<r>>, Len(where) = 1, where[1] = r
        PROVE  FocusInv'
    <3>1. CASE NavUp(r)
      <4>1. CASE where' = <<>>
        BY <4>1 DEF FocusInv
      <4>2. ASSUME NEW p, p = r - 1, p \in visible, p \in open,
                   PlacesOf(p) \in Children(p), where' = <<p, PlacesOf(p)>>
            PROVE  FocusInv'
        BY <2>1, <4>2, FocusOnChild
      <4>3. ASSUME NEW p, p = r - 1, p \in visible, where' = <<p>>
            PROVE  FocusInv'
        BY <4>3, FocusOnRow
      <4> QED
        BY <3>1, <4>1, <4>2, <4>3, NavUpIs
    <3>2. CASE NavDown(r)
      BY <1>1, <2>1, <3>2, NavDownIs, FocusOnChild, FocusNext
    <3> QED
      BY <1>2, <2>3, <3>1, <3>2 DEF Nav
  <2>4. ASSUME NEW r \in visible, NEW c \in Children(r), r \in open,
               where = <<r, c>>, Len(where) = 2, where[1] = r, where[2] = c
        PROVE  FocusInv'
    <3>1. CASE NavChildUp(r, c)
      BY <2>1, <2>4, <3>1, NavChildUpIs, FocusOnChild, FocusOnRow
    <3>2. CASE NavChildDown(r, c)
      BY <1>1, <2>1, <2>4, <3>2, NavChildDownIs, FocusOnChild, FocusNext
    <3> QED
      BY <1>2, <2>4, <3>1, <3>2 DEF Nav
  <2> QED
    BY <2>2, <2>3, <2>4, FocusIs
<1>3. CASE key = "Left" \/ key = "Right"
  <2>1. /\ where' = where
        /\ open' = IF Len(where) = 1 /\ HasChildElement(where[1])
                   THEN IF key = "Right" THEN open \union {Owner(where[1])}
                                         ELSE open \ {Owner(where[1])}
                   ELSE open
    BY <1>3 DEF Nav
  <2>2. ASSUME NEW r \in visible, where = <<r>>, Len(where) = 1, where[1] = r
        PROVE  RowsInv' /\ FocusInv'
    <3>1. Owner(r) \in Rows
      BY <1>1, OwnerIs
    <3>2. open' \subseteq {q \in Rows : Children(q) # {}}
      BY <2>1, <2>2, <3>1 DEF RowsInv, HasChildElement
    <3>3. RowsInv'
      BY <3>2 DEF RowsInv, Rows, Children, PlacesOf
    <3> QED
      BY <2>1, <2>2, <3>3, FocusOnRow
  <2>3. ASSUME NEW r \in visible, NEW c \in Children(r), r \in open,
               where = <<r, c>>, Len(where) = 2
        PROVE  RowsInv' /\ FocusInv'
    <3>1. open' = open
      BY <2>1, <2>3
    <3>2. RowsInv'
      BY <3>1 DEF RowsInv, Rows, Children, PlacesOf
    <3> QED
      BY <2>1, <3>1, <3>2, FocusStays
  <2> QED
    BY <2>2, <2>3, FocusIs
<1>4. CASE key = "Escape"
  <2>1. where' = <<>> /\ open' = open
    BY <1>4 DEF Nav
  <2> QED
    BY <2>1 DEF RowsInv, FocusInv, Rows, Children, PlacesOf
<1> QED
  BY <1>2, <1>3, <1>4 DEF Nav

LEMMA ResultsInitially == ResultsInit => ResultsInv
<1> SUFFICES ASSUME ResultsInit
             PROVE  ResultsInv
  OBVIOUS
<1>1. PICK query \in Queries(page) :
        visible = {r \in Rows : IsPrefix(query, Id(r))}
  BY DEF ResultsInit, Matches
<1>2. page \in DOMAIN Results /\ visible \subseteq Rows
  BY <1>1 DEF ResultsInit
<1>3. VisibleIsOneBlock
  BY <1>1, <1>2, RowsAssumption DEF VisibleIsOneBlock, Rows, Id
<1>4. RowsInv
  BY <1>2 DEF ResultsInit, RowsInv
<1> QED
  BY <1>3, <1>4 DEF ResultsInit, ResultsInv, FocusInv, KeysInv, ActsOnHeldKey

LEMMA ResultsStep == ResultsInv /\ [ResultsNext]_resultVars => ResultsInv'
<1> SUFFICES ASSUME ResultsInv, [ResultsNext]_resultVars
             PROVE  ResultsInv'
  OBVIOUS
<1> USE DEF ResultsInv
<1>1. UNCHANGED <<page, visible>> => VisibleIsOneBlock'
  BY DEF VisibleIsOneBlock
<1>2. UNCHANGED <<page, visible, open>> => RowsInv'
  BY DEF RowsInv, Rows, Children, PlacesOf
<1>3. ASSUME NEW key \in ResultKeys, ResultKeyDown(key)
      PROVE  ResultsInv'
  <2>1. UNCHANGED <<page, visible>> /\ down' = key
    BY <1>3 DEF ResultKeyDown
  <2>2. CASE where = <<>>
    <3>1. UNCHANGED <<open, where, lastKey, repeatOn>>
      BY <1>3, <2>2 DEF ResultKeyDown
    <3>2. FocusInv' /\ RowsInv' /\ VisibleIsOneBlock'
      BY <1>1, <1>2, <2>1, <3>1, FocusStays
    <3>3. KeysInv' /\ ActsOnHeldKey'
      BY <2>1, <2>2, <3>1 DEF KeysInv, ActsOnHeldKey
    <3> QED
      BY <3>2, <3>3
  <2>3. CASE where # <<>>
    <3>1. Nav(key) /\ lastKey' = key /\ repeatOn' = FALSE
      BY <1>3, <2>3 DEF ResultKeyDown
    <3>2. RowsInv' /\ FocusInv'
      BY <2>1, <2>3, <3>1, NavKeeps
    <3>3. KeysInv' /\ ActsOnHeldKey'
      BY <2>1, <3>1 DEF KeysInv, ActsOnHeldKey
    <3> QED
      BY <1>1, <2>1, <3>2, <3>3
  <2> QED
    BY <2>2, <2>3
<1>4. CASE ResultKeyPress
  <2>1. UNCHANGED <<page, visible, down, lastKey>> /\ where # <<>>
    BY <1>4 DEF ResultKeyPress
  <2>2. RowsInv' /\ FocusInv' /\ repeatOn' \in BOOLEAN
    <3>1. CASE repeatOn
      <4>1. Nav(lastKey) /\ repeatOn' = repeatOn
        BY <1>4, <3>1 DEF ResultKeyPress
      <4> QED
        BY <2>1, <4>1, NavKeeps DEF KeysInv
    <3>2. CASE ~ repeatOn
      <4>1. repeatOn' = (lastKey # "none") /\ UNCHANGED <<open, where>>
        BY <1>4, <3>2 DEF ResultKeyPress
      <4>2. repeatOn' \in BOOLEAN
        BY <4>1, Zenon
      <4> QED
        BY <1>2, <2>1, <4>1, <4>2, FocusStays
    <3> QED
      BY <3>1, <3>2
  <2>3. KeysInv' /\ ActsOnHeldKey'
    BY <1>4, <2>1, <2>2 DEF ResultKeyPress, KeysInv, ActsOnHeldKey
  <2> QED
    BY <1>1, <2>1, <2>2, <2>3
<1>5. CASE ResultKeyUp
  <2>1. UNCHANGED <<page, visible, open>> /\ down' = "none"
    BY <1>5 DEF ResultKeyUp
  <2>2. FocusInv'
    <3>1. CASE where' = where
      BY <2>1, <3>1, FocusStays
    <3>2. CASE FocusAny(NavNext(1))
      BY <2>1, <3>2, FocusAnyNext, FocusNext
    <3> QED
      BY <1>5, <3>1, <3>2 DEF ResultKeyUp
  <2>3. KeysInv' /\ ActsOnHeldKey'
    BY <1>5, <2>1 DEF ResultKeyUp, KeysInv, ActsOnHeldKey
  <2> QED
    BY <1>1, <1>2, <2>1, <2>2, <2>3
<1>6. ASSUME NEW r \in visible, Toggle(r)
      PROVE  ResultsInv'
  <2>1. UNCHANGED <<page, visible, down, lastKey, repeatOn>> /\ down = "none"
    BY <1>6 DEF Toggle
  <2>2. r \in Rows /\ Children(r) # {}
    BY <1>6 DEF Toggle, RowsInv
  <2>3. Owner(r) = r
    BY <2>2, OwnerIs
  <2>4. open' \subseteq {q \in Rows : Children(q) # {}}
    BY <1>6, <2>2, <2>3 DEF Toggle, RowsInv
  <2>5. RowsInv'
    BY <2>1, <2>4 DEF RowsInv, Rows, Children, PlacesOf
  <2>6. where' = <<r>>
    BY <1>6, RowIsSeen DEF Toggle, Focus
  <2>7. FocusInv'
    BY <2>1, <2>6, FocusOnRow
  <2>8. KeysInv' /\ ActsOnHeldKey'
    BY <2>1 DEF KeysInv, ActsOnHeldKey
  <2> QED
    BY <1>1, <2>1, <2>5, <2>7, <2>8
<1>7. CASE UNCHANGED resultVars
  <2>1. UNCHANGED <<page, visible, open, where>>
    BY <1>7 DEF resultVars
  <2>2. KeysInv' /\ ActsOnHeldKey'
    BY <1>7 DEF resultVars, KeysInv, ActsOnHeldKey
  <2> QED
    BY <1>1, <1>2, <2>1, <2>2, FocusStays
<1> QED
  BY <1>3, <1>4, <1>5, <1>6, <1>7 DEF ResultsNext

\* The inductive invariant holds.
THEOREM ResultsInvariance == ResultsSpec => []ResultsInv
  BY ResultsInitially, ResultsStep, PTL DEF ResultsSpec

\* The variables have their types, and the focus is on something one can see.
THEOREM ResultsTypeCorrect == ResultsSpec => []ResultsTypeOK
<1>1. ResultsInv => ResultsTypeOK
  <2> SUFFICES ASSUME ResultsInv
               PROVE  ResultsTypeOK
    OBVIOUS
  <2>1. RowsInv /\ FocusInv /\ KeysInv
    BY DEF ResultsInv
  <2>2. ASSUME where # <<>>
        PROVE  Len(where) \in 1 .. 2 /\ CanBeSeen(where)
    <3>1. ASSUME NEW r \in visible, where = <<r>>, Len(where) = 1
          PROVE  Len(where) \in 1 .. 2 /\ CanBeSeen(where)
      BY <3>1, RowIsSeen
    <3>2. ASSUME NEW r \in visible, NEW c \in Children(r), r \in open,
                 where = <<r, c>>, Len(where) = 2
          PROVE  Len(where) \in 1 .. 2 /\ CanBeSeen(where)
      BY <3>2, ChildIsSeen
    <3> QED
      BY <2>1, <2>2, <3>1, <3>2, FocusIs
  <2> QED
    BY <2>1, <2>2 DEF RowsInv, KeysInv, ResultsTypeOK
<1> QED
  BY <1>1, ResultsInvariance, PTL

\* A key that is down and reaches the results is the key they act on.
THEOREM ActsOnKey == ResultsSpec => []ActsOnHeldKey
<1>1. ResultsInv => ActsOnHeldKey
  BY DEF ResultsInv
<1> QED
  BY <1>1, ResultsInvariance, PTL
-----------------------------------------------------------------------------
(* The order in which one reads.                                           *)

LEMMA AboveIs ==
  /\ \A q, r : Above(<<q>>, <<r>>) <=> q < r
  /\ \A q, r, c : Above(<<q>>, <<r, c>>) <=> (q < r \/ q = r)
  /\ \A q, d, r : Above(<<q, d>>, <<r>>) <=> q < r
  /\ \A q, d, r, c :
       Above(<<q, d>>, <<r, c>>) <=> (q < r \/ (q = r /\ d < c))
<1> SUFFICES ASSUME NEW q, NEW r, NEW c, NEW d
             PROVE  /\ Above(<<q>>, <<r>>) <=> q < r
                    /\ Above(<<q>>, <<r, c>>) <=> (q < r \/ q = r)
                    /\ Above(<<q, d>>, <<r>>) <=> q < r
                    /\ Above(<<q, d>>, <<r, c>>)
                         <=> (q < r \/ (q = r /\ d < c))
  BY Zenon
<1>1. /\ Len(<<q>>) = 1 /\ Len(<<r>>) = 1
      /\ Len(<<q, d>>) = 2 /\ Len(<<r, c>>) = 2
      /\ <<q>>[1] = q /\ <<r>>[1] = r
      /\ <<q, d>>[1] = q /\ <<q, d>>[2] = d
      /\ <<r, c>>[1] = r /\ <<r, c>>[2] = c
  OBVIOUS
<1>2. /\ ~ (Len(<<q>>) < Len(<<r>>)) /\ Len(<<q>>) < Len(<<r, c>>)
      /\ ~ (Len(<<q, d>>) < Len(<<r>>))
      /\ ~ (Len(<<q, d>>) < Len(<<r, c>>))
      /\ Len(<<q>>) # 2 /\ Len(<<r>>) # 2
  BY <1>1
<1>3. Above(<<q>>, <<r>>) <=> q < r
  BY <1>1, <1>2, Zenon DEF Above
<1>4. Above(<<q>>, <<r, c>>) <=> (q < r \/ q = r)
  BY <1>1, <1>2, Zenon DEF Above
<1>5. Above(<<q, d>>, <<r>>) <=> q < r
  BY <1>1, <1>2, Zenon DEF Above
<1>6. Above(<<q, d>>, <<r, c>>) <=> (q < r \/ (q = r /\ d < c))
  BY <1>1, <1>2, Zenon DEF Above
<1> QED
  BY <1>3, <1>4, <1>5, <1>6

\* The rows and children that can be seen.
LEMMA LinkIs ==
  ASSUME RowsInv, NEW link \in VisibleLinks
  PROVE  \/ \E q \in visible : link = <<q>>
         \/ \E q \in visible : \E d \in Children(q) :
              q \in open /\ link = <<q, d>>
  BY DEF VisibleLinks

\* Rows and the numbers of children are numbers.
LEMMA Numbers ==
  ASSUME RowsInv
  PROVE  /\ \A q \in visible : q \in Nat \ {0}
         /\ \A q \in visible : \A d \in Children(q) :
              /\ PlacesOf(q) \in Nat /\ d \in 1 .. PlacesOf(q)
              /\ Children(q) = 1 .. PlacesOf(q)
<1>1. \A q \in visible : q \in Rows /\ q \in Nat \ {0}
  BY RowsAre DEF RowsInv
<1> QED
  BY <1>1, ChildrenAre

\* Down, from a row or a child after which no child of the row comes.
Lower(link, r) ==
  /\ \A q \in visible : Above(link, <<q>>) <=> r < q
  /\ \A q \in visible : \A d \in Children(q) :
       q \in open => (Above(link, <<q, d>>) <=> r < q)

LEMMA NextIsLower ==
  ASSUME RowsInv, NEW r \in visible, NextRow(r + 1), Lower(where, r)
  PROVE  \/ Above(where, where') /\ Between(where, where') = {}
         \/ where' = where /\ \A link \in VisibleLinks : ~ Above(where, link)
<1>1. CASE where' = where /\ \A q \in visible : q < r + 1
  <2>1. \A q \in visible : ~ (r < q)
    BY <1>1, Numbers
  <2>2. ASSUME NEW link \in VisibleLinks
        PROVE  ~ Above(where, link)
    BY <2>1, LinkIs DEF Lower
  <2> QED
    BY <1>1, <2>2
<1>2. ASSUME NEW s \in visible, where' = <<s>>, r + 1 <= s,
             \A q \in visible : r + 1 <= q => s <= q
      PROVE  Above(where, where') /\ Between(where, where') = {}
  <2>1. Above(where, <<s>>)
    BY <1>2, Numbers DEF Lower
  <2>2. ASSUME NEW link \in VisibleLinks, Above(where, link)
        PROVE  ~ Above(link, <<s>>)
    <3>1. ASSUME NEW q \in visible, link = <<q>>
          PROVE  ~ Above(link, <<s>>)
      <4>1. r < q
        BY <2>2, <3>1 DEF Lower
      <4>2. ~ (q < s)
        BY <1>2, <4>1, Numbers
      <4> QED
        BY <3>1, <4>2, AboveIs
    <3>2. ASSUME NEW q \in visible, NEW d \in Children(q), q \in open,
                 link = <<q, d>>
          PROVE  ~ Above(link, <<s>>)
      <4>1. r < q
        BY <2>2, <3>2 DEF Lower
      <4>2. ~ (q < s)
        BY <1>2, <4>1, Numbers
      <4> QED
        BY <3>2, <4>2, AboveIs
    <3> QED
      BY <3>1, <3>2, LinkIs
  <2> QED
    BY <1>2, <2>1, <2>2 DEF Between
<1> QED
  BY <1>1, <1>2 DEF NextRow

LEMMA DownInOrder ==
  ASSUME RowsInv, FocusInv, where # <<>>, Nav("Down")
  PROVE  \/ Above(where, where') /\ Between(where, where') = {}
         \/ where' = where /\ \A link \in VisibleLinks : ~ Above(where, link)
<1>1. ASSUME NEW r \in visible, where = <<r>>, Len(where) = 1, where[1] = r
      PROVE  \/ Above(where, where') /\ Between(where, where') = {}
             \/ /\ where' = where
                /\ \A link \in VisibleLinks : ~ Above(where, link)
  <2>1. NavDown(r)
    BY <1>1 DEF Nav
  <2>2. CASE r \in open /\ 1 \in Children(r) /\ where' = <<r, 1>>
    <3>1. Above(<<r>>, <<r, 1>>)
      BY AboveIs
    <3>2. ASSUME NEW link \in VisibleLinks
          PROVE  ~ (Above(<<r>>, link) /\ Above(link, <<r, 1>>))
      <4>1. ASSUME NEW q \in visible, link = <<q>>
            PROVE  ~ (Above(<<r>>, link) /\ Above(link, <<r, 1>>))
        BY <4>1, AboveIs, Numbers
      <4>2. ASSUME NEW q \in visible, NEW d \in Children(q), link = <<q, d>>
            PROVE  ~ (Above(<<r>>, link) /\ Above(link, <<r, 1>>))
        BY <4>2, AboveIs, Numbers
      <4> QED
        BY <4>1, <4>2, LinkIs
    <3> QED
      BY <1>1, <2>2, <3>1, <3>2 DEF Between
  <2>3. CASE r \notin open /\ NextRow(r + 1)
    <3>1. Lower(<<r>>, r)
      <4>1. \A q \in visible : Above(<<r>>, <<q>>) <=> r < q
        BY AboveIs
      <4>2. ASSUME NEW q \in visible, NEW d \in Children(q), q \in open
            PROVE  Above(<<r>>, <<q, d>>) <=> r < q
        BY <2>3, <4>2, AboveIs
      <4> QED
        BY <4>1, <4>2 DEF Lower
    <3> QED
      BY <1>1, <2>3, <3>1, NextIsLower
  <2> QED
    BY <2>1, <2>2, <2>3, NavDownIs
<1>2. ASSUME NEW r \in visible, NEW c \in Children(r), r \in open,
             where = <<r, c>>, Len(where) = 2, where[1] = r, where[2] = c
      PROVE  \/ Above(where, where') /\ Between(where, where') = {}
             \/ /\ where' = where
                /\ \A link \in VisibleLinks : ~ Above(where, link)
  <2>1. NavChildDown(r, c)
    BY <1>2 DEF Nav
  <2>2. PICK e : e = c + 1
    OBVIOUS
  <2>3. CASE e \in Children(r) /\ where' = <<r, e>>
    <3>1. Above(<<r, c>>, <<r, e>>)
      BY <2>2, AboveIs, Numbers
    <3>2. ASSUME NEW link \in VisibleLinks
          PROVE  ~ (Above(<<r, c>>, link) /\ Above(link, <<r, e>>))
      <4>1. ASSUME NEW q \in visible, link = <<q>>
            PROVE  ~ (Above(<<r, c>>, link) /\ Above(link, <<r, e>>))
        BY <4>1, AboveIs, Numbers
      <4>2. ASSUME NEW q \in visible, NEW d \in Children(q), link = <<q, d>>
            PROVE  ~ (Above(<<r, c>>, link) /\ Above(link, <<r, e>>))
        <5>1. d \in Nat /\ c \in Nat /\ q \in Nat /\ r \in Nat
          BY Numbers
        <5> QED
          BY <2>2, <4>2, <5>1, AboveIs
      <4> QED
        BY <4>1, <4>2, LinkIs
    <3> QED
      BY <1>2, <2>3, <3>1, <3>2 DEF Between
  <2>4. CASE e \notin Children(r) /\ NextRow(r + 1)
    <3>1. Lower(<<r, c>>, r)
      <4>1. \A q \in visible : Above(<<r, c>>, <<q>>) <=> r < q
        BY AboveIs
      <4>2. ASSUME NEW q \in visible, NEW d \in Children(q), q \in open
            PROVE  Above(<<r, c>>, <<q, d>>) <=> r < q
        <5>1. q = r => ~ (c < d)
          BY <2>2, <2>4, Numbers
        <5>2. Above(<<r, c>>, <<q, d>>) <=> r < q \/ (r = q /\ c < d)
          BY AboveIs
        <5>3. q \in Nat /\ r \in Nat
          BY Numbers
        <5> QED
          BY <5>1, <5>2, <5>3
      <4> QED
        BY <4>1, <4>2 DEF Lower
    <3> QED
      BY <1>2, <2>4, <3>1, NextIsLower
  <2> QED
    BY <1>2, <2>1, <2>2, <2>3, <2>4, NavChildDownIs
<1> QED
  BY <1>1, <1>2, FocusIs

LEMMA UpInOrder ==
  ASSUME RowsInv, FocusInv, VisibleIsOneBlock, where # <<>>, Nav("Up")
  PROVE  IF where' = <<>> THEN \A link \in VisibleLinks : ~ Above(link, where)
         ELSE Above(where', where) /\ Between(where', where) = {}
<1>1. ASSUME NEW r \in visible, where = <<r>>, Len(where) = 1, where[1] = r
      PROVE  IF where' = <<>>
             THEN \A link \in VisibleLinks : ~ Above(link, where)
             ELSE Above(where', where) /\ Between(where', where) = {}
  <2>1. NavUp(r)
    BY <1>1 DEF Nav
  <2>2. CASE where' = <<>> /\ \A q \in visible : r <= q
    <3>1. ASSUME NEW q \in visible
          PROVE  ~ (q < r)
      BY <2>2, Numbers
    <3>2. ASSUME NEW link \in VisibleLinks
          PROVE  ~ Above(link, <<r>>)
      BY <3>1, LinkIs, AboveIs
    <3> QED
      BY <1>1, <2>2, <3>2
  <2>3. ASSUME NEW p \in visible, p = r - 1, p \in open,
               PlacesOf(p) \in Children(p), where' = <<p, PlacesOf(p)>>
        PROVE  /\ where' # <<>>
               /\ Above(where', where) /\ Between(where', where) = {}
    <3>1. PICK n : n = PlacesOf(p)
      OBVIOUS
    <3>2. p < r /\ \A d \in Children(p) : d \in Nat /\ n \in Nat /\ ~ (n < d)
      BY <2>3, <3>1, Numbers
    <3>3. Above(<<p, n>>, <<r>>)
      BY <3>2, AboveIs
    <3>4. ASSUME NEW link \in VisibleLinks
          PROVE  ~ (Above(<<p, n>>, link) /\ Above(link, <<r>>))
      <4>1. ASSUME NEW q \in visible, link = <<q>>
            PROVE  ~ (Above(<<p, n>>, link) /\ Above(link, <<r>>))
        BY <2>3, <4>1, AboveIs, Numbers
      <4>2. ASSUME NEW q \in visible, NEW d \in Children(q), link = <<q, d>>
            PROVE  ~ (Above(<<p, n>>, link) /\ Above(link, <<r>>))
        <5>1. q < r => ~ (p < q)
          BY <2>3, Numbers
        <5> QED
          BY <3>2, <4>2, <5>1, AboveIs
      <4> QED
        BY <4>1, <4>2, LinkIs
    <3> QED
      BY <1>1, <2>3, <3>1, <3>3, <3>4 DEF Between
  <2>4. ASSUME NEW p \in visible, p = r - 1, p \notin open, where' = <<p>>
        PROVE  /\ where' # <<>>
               /\ Above(where', where) /\ Between(where', where) = {}
    <3>1. Above(<<p>>, <<r>>)
      BY <2>4, AboveIs, Numbers
    <3>2. ASSUME NEW link \in VisibleLinks
          PROVE  ~ (Above(<<p>>, link) /\ Above(link, <<r>>))
      <4>1. ASSUME NEW q \in visible
            PROVE  q < r => ~ (p < q)
        BY <2>4, Numbers
      <4>2. ASSUME NEW q \in visible, link = <<q>>
            PROVE  ~ (Above(<<p>>, link) /\ Above(link, <<r>>))
        BY <4>1, <4>2, AboveIs
      <4>3. ASSUME NEW q \in visible, NEW d \in Children(q), q \in open,
                   link = <<q, d>>
            PROVE  ~ (Above(<<p>>, link) /\ Above(link, <<r>>))
        BY <2>4, <4>1, <4>3, AboveIs
      <4> QED
        BY <4>2, <4>3, LinkIs
    <3> QED
      BY <1>1, <2>4, <3>1, <3>2 DEF Between
  <2>5. PICK p : p = r - 1
    OBVIOUS
  <2> QED
    BY <1>1, <2>1, <2>2, <2>3, <2>4, <2>5, NavUpIs
<1>2. ASSUME NEW r \in visible, NEW c \in Children(r), r \in open,
             where = <<r, c>>, Len(where) = 2, where[1] = r, where[2] = c
      PROVE  /\ where' # <<>>
             /\ Above(where', where) /\ Between(where', where) = {}
  <2>1. NavChildUp(r, c)
    BY <1>2 DEF Nav
  <2>2. ASSUME NEW e \in Children(r), e = c - 1, where' = <<r, e>>
        PROVE  /\ where' # <<>>
               /\ Above(where', where) /\ Between(where', where) = {}
    <3>1. Above(<<r, e>>, <<r, c>>)
      BY <2>2, AboveIs, Numbers
    <3>2. ASSUME NEW link \in VisibleLinks
          PROVE  ~ (Above(<<r, e>>, link) /\ Above(link, <<r, c>>))
      <4>1. ASSUME NEW q \in visible, link = <<q>>
            PROVE  ~ (Above(<<r, e>>, link) /\ Above(link, <<r, c>>))
        BY <4>1, AboveIs, Numbers
      <4>2. ASSUME NEW q \in visible, NEW d \in Children(q), link = <<q, d>>
            PROVE  ~ (Above(<<r, e>>, link) /\ Above(link, <<r, c>>))
        <5>1. d \in Nat /\ c \in Nat /\ q \in Nat /\ r \in Nat
          BY Numbers
        <5> QED
          BY <2>2, <4>2, <5>1, AboveIs
      <4> QED
        BY <4>1, <4>2, LinkIs
    <3> QED
      BY <1>2, <2>2, <3>1, <3>2 DEF Between
  <2>3. CASE c = 1 /\ where' = <<r>>
    <3>1. Above(<<r>>, <<r, c>>)
      BY AboveIs
    <3>2. ASSUME NEW link \in VisibleLinks
          PROVE  ~ (Above(<<r>>, link) /\ Above(link, <<r, c>>))
      <4>1. ASSUME NEW q \in visible, link = <<q>>
            PROVE  ~ (Above(<<r>>, link) /\ Above(link, <<r, c>>))
        BY <4>1, AboveIs, Numbers
      <4>2. ASSUME NEW q \in visible, NEW d \in Children(q), link = <<q, d>>
            PROVE  ~ (Above(<<r>>, link) /\ Above(link, <<r, c>>))
        BY <2>3, <4>2, AboveIs, Numbers
      <4> QED
        BY <4>1, <4>2, LinkIs
    <3> QED
      BY <1>2, <2>3, <3>1, <3>2 DEF Between
  <2> QED
    BY <1>2, <2>1, <2>2, <2>3, NavChildUpIs
<1> QED
  BY <1>1, <1>2, FocusIs

\* Down goes to the next visible link and stays on the last; Up goes to the one
\* before, and from the first to the field.
THEOREM InReadingOrder == ResultsSpec => ReadingOrder
<1> DEFINE Ordered ==
      where # <<>> =>
        /\ ResultKeyDown("Down") =>
             \/ Above(where, where') /\ Between(where, where') = {}
             \/ /\ where' = where
                /\ \A link \in VisibleLinks : ~ Above(where, link)
        /\ ResultKeyDown("Up") =>
             IF where' = <<>>
             THEN \A link \in VisibleLinks : ~ Above(link, where)
             ELSE Above(where', where) /\ Between(where', where) = {}
<1>1. ResultsInv => Ordered
  <2> SUFFICES ASSUME ResultsInv, where # <<>>
               PROVE  Ordered
    OBVIOUS
  <2>1. ResultKeyDown("Down") => Nav("Down")
    BY DEF ResultKeyDown
  <2>2. ResultKeyDown("Up") => Nav("Up")
    BY DEF ResultKeyDown
  <2> QED
    BY <2>1, <2>2, DownInOrder, UpInOrder DEF ResultsInv
<1>2. ResultsInv /\ [ResultsNext]_resultVars => [Ordered]_resultVars
  BY <1>1
<1>3. ResultsSpec => [][Ordered]_resultVars
  BY <1>2, ResultsInvariance, PTL DEF ResultsSpec
<1> QED
  BY <1>3, PTL DEF ReadingOrder
=============================================================================
