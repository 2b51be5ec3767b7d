---------------------------- MODULE SearchResults ----------------------------
(***************************************************************************)
(* The page of results in the frame of the search window: which rows a     *)
(* search leaves visible, and how the arrow keys go through them.  A row   *)
(* is a link; one that leads to several places has them as its children,   *)
(* which are hidden until it is opened.                                    *)
(*                                                                         *)
(* A link is <<r>> for row r and <<r, c>> for its child c (Item... and     *)
(* Item..._c..., counted from 1 here); <<>> is the search field, where the *)
(* keys are not seen.  SearchBox has what happens there and when the page  *)
(* goes away; the names here are such that both modules can be extended.   *)
(* Following a link leaves the page and is left out.                       *)
(***************************************************************************)
EXTENDS Naturals, SequencesExt

CONSTANTS
  Results,    \* the pages by name; a page is a sequence of rows <<id, places>>
  MaxQuery,   \* bound on the length of what is searched for
  MaxOpen     \* bound on the rows that are open at once, by page

VARIABLES
  page,       \* the name of the page that is loaded
  visible,    \* the rows with style 'block'
  open,       \* the rows whose children have style 'block'
  where,      \* the link with the focus, or <<>>
  down,       \* the key that is down
  lastKey,    \* lastKey, "none" for 0
  repeatOn    \* repeatOn

resultVars == <<page, visible, open, where, down, lastKey, repeatOn>>

-----------------------------------------------------------------------------
(* What createResults() makes of searchData. *)

Rows == DOMAIN Results[page]
Id(r) == Results[page][r][1]
PlacesOf(r) == Results[page][r][2]

\* There are children where there is more than one place.
Children(r) == IF PlacesOf(r) > 1 THEN 1 .. PlacesOf(r) ELSE {}

\* The links one can see, and so all that the focus can go to.
CanBeSeen(link) ==
  /\ link[1] \in visible
  /\ Len(link) = 2 => link[1] \in open /\ link[2] \in Children(link[1])

VisibleLinks == {<<r>> : r \in visible}
                  \union UNION {{r} \X Children(r) : r \in visible \cap open}

ResultKeys == {"Up", "Down", "Left", "Right", "Escape"}

-----------------------------------------------------------------------------
(* The search, once, as the page is loaded. *)

\* Mutant: anywhere in the id.
IsWithin(query, id) ==
  \E n \in 0 .. Len(id) :
    /\ n + Len(query) <= Len(id)
    /\ SubSeq(id, n + 1, n + Len(query)) = query

Matches(query, id) == IsPrefix(query, id)

\* convertToId() writes a character that is no letter or digit as _ and two
\* digits: a text that was converted never ends within these three.
IsConverted(query) ==
  \A n \in {Len(query), Len(query) - 1} :
    n > 0 => SubSeq(query, n, n) # "_"

\* What can be asked of a page: the beginnings of its ids, and what none has.
Queries(name) ==
  LET Beginnings(id) ==
        {SubSeq(id, 1, n) : n \in {m \in 1 .. MaxQuery : m <= Len(id)}}
  IN  {query \in UNION {Beginnings(Results[name][r][1]) :
                         r \in DOMAIN Results[name]} : IsConverted(query)}
        \union {"no match"}

\* What the generator of the pages sees to: rows are sorted by id, and of
\* those with the same id at most the first has several places.
ASSUME RowsAssumption ==
  \A name \in DOMAIN Results :
    LET rows  == DOMAIN Results[name]
        id(r) == Results[name][r][1]
    IN  /\ Results[name] \in Seq(STRING \X Nat)
        /\ \A query \in Queries(name) :
             LET S == {r \in rows : IsPrefix(query, id(r))}
             IN  \A r \in S : r + 1 \in S \/ \A q \in S : q <= r
        /\ \A r \in rows : Results[name][r][2] > 1 =>
             \A q \in 1 .. r - 1 : id(q) # id(r)

ResultsInit ==
  /\ page \in DOMAIN Results
  /\ \E query \in Queries(page) :
       visible = {r \in Rows : Matches(query, Id(r))}
  /\ open = {}
  /\ where = <<>>
  /\ down = "none"
  /\ lastKey = "none"
  /\ repeatOn = FALSE

-----------------------------------------------------------------------------
(* Finding links. *)

\* getElementById() finds the first row of an id, and so does what starts from
\* it: the row whose children FindChildElement() looks for.
FirstRow ==
  [name \in DOMAIN Results |->
    [r \in DOMAIN Results[name] |->
      Min({q \in 1 .. r : Results[name][q][1] = Results[name][r][1]})]]

Owner(r) == FirstRow[page][r]
HasChildElement(r) == Children(Owner(r)) # {}
IsOpen(r) == Owner(r) \in open

NavNext(index) ==
  LET S == {r \in visible : r >= index}
  IN  IF S = {} THEN {} ELSE {<<Min(S)>>}

NavPrev(index) ==
  LET S == {r \in visible : r <= index}
  IN  IF S = {} THEN {} ELSE {<<Max(S)>>}

\* focus() on a link that cannot be seen does nothing.
Focus(link) == where' = IF CanBeSeen(link) THEN link ELSE where

\* focus() where it is only called if there is a link.
FocusAny(found) == IF found = {} THEN where' = where
                                 ELSE \E link \in found : Focus(link)

-----------------------------------------------------------------------------
(* Keys. *)

\* Mutant: the children of the row before are passed over.
NavUpOverChildren(r) ==
  LET found == NavPrev(r - 1)
  IN  IF found = {} THEN where' = <<>> ELSE \E link \in found : Focus(link)

\* The last child of the row before is looked for by the number of that row,
\* not by that of the row that was found.
NavUp(r) ==
  LET found == NavPrev(r - 1)
  IN  IF found = {} THEN where' = <<>>
      ELSE \E link \in found :
             Focus(IF IsOpen(link[1]) /\ r - 1 \in Rows /\ Children(r - 1) # {}
                   THEN <<r - 1, PlacesOf(r - 1)>> ELSE link)

NavDown(r) ==
  IF IsOpen(r) /\ Children(r) # {} THEN Focus(<<r, 1>>)
                                   ELSE FocusAny(NavNext(r + 1))

NavChildUp(r, c) == Focus(IF c > 1 THEN <<r, c - 1>> ELSE <<r>>)

NavChildDown(r, c) ==
  IF c + 1 \in Children(r) THEN Focus(<<r, c + 1>>)
                           ELSE FocusAny(NavNext(r + 1))

\* Mutant: a child closes its row, too, and keeps the focus.
NavClosesFromChild(key) ==
  LET r == where[1]
  IN  \/ /\ key = "Up"
         /\ IF Len(where) = 1 THEN NavUp(r) ELSE NavChildUp(r, where[2])
         /\ open' = open
      \/ /\ key = "Down"
         /\ IF Len(where) = 1 THEN NavDown(r) ELSE NavChildDown(r, where[2])
         /\ open' = open
      \/ /\ key \in {"Left", "Right"}
         /\ open' = IF HasChildElement(r)
                    THEN IF key = "Right" THEN open \union {Owner(r)}
                                          ELSE open \ {Owner(r)}
                    ELSE open
         /\ where' = where
      \/ /\ key = "Escape"
         /\ where' = <<>>
         /\ open' = open

\* Nav and NavChild, after ProcessKeys.
Nav(key) ==
  LET r == where[1]
  IN  \/ /\ key = "Up"
         /\ IF Len(where) = 1 THEN NavUp(r) ELSE NavChildUp(r, where[2])
         /\ open' = open
      \/ /\ key = "Down"
         /\ IF Len(where) = 1 THEN NavDown(r) ELSE NavChildDown(r, where[2])
         /\ open' = open
      \/ /\ key \in {"Left", "Right"}
         /\ open' = IF Len(where) = 1 /\ HasChildElement(r)
                    THEN IF key = "Right" THEN open \union {Owner(r)}
                                          ELSE open \ {Owner(r)}
                    ELSE open
         /\ where' = where
      \/ /\ key = "Escape"
         /\ where' = <<>>
         /\ open' = open

\* Mutant: what is left of an earlier key is not replaced.
KeyDownOnce(key) ==
  /\ down \in {"none", key}
  /\ down' = key
  /\ IF where = <<>> THEN UNCHANGED <<open, where, lastKey, repeatOn>>
     ELSE /\ lastKey' = IF lastKey = "none" THEN key ELSE lastKey
          /\ repeatOn' = FALSE
          /\ Nav(key)
          /\ Cardinality(open') <= MaxOpen[page]
  /\ UNCHANGED <<page, visible>>

\* ProcessKeys on keydown, also one that the browser repeats.
ResultKeyDown(key) ==
  /\ down \in {"none", key}
  /\ down' = key
  /\ IF where = <<>> THEN UNCHANGED <<open, where, lastKey, repeatOn>>
     ELSE /\ lastKey' = key
          /\ repeatOn' = FALSE
          /\ Nav(key)
          /\ Cardinality(open') <= MaxOpen[page]
  /\ UNCHANGED <<page, visible>>

\* ProcessKeys on keypress: the first one after a keydown is ignored.
ResultKeyPress ==
  /\ down # "none"
  /\ where # <<>>
  /\ IF repeatOn
     THEN Nav(lastKey) /\ repeatOn' = repeatOn
     ELSE repeatOn' = (lastKey # "none") /\ UNCHANGED <<open, where>>
  /\ Cardinality(open') <= MaxOpen[page]
  /\ UNCHANGED <<page, visible, down, lastKey>>

\* In the field it is OnSearchFieldChange() that sees the key: Down goes to the
\* first visible row.
ResultKeyUp ==
  /\ down # "none"
  /\ down' = "none"
  /\ IF where = <<>>
     THEN /\ IF down = "Down" THEN FocusAny(NavNext(1)) ELSE where' = where
          /\ UNCHANGED <<lastKey, repeatOn>>
     ELSE /\ lastKey' = "none"
          /\ repeatOn' = FALSE
          /\ where' = where
  /\ UNCHANGED <<page, visible, open>>

\* A click on a row with children, or Enter on it: Toggle().
Toggle(r) ==
  /\ down = "none"
  /\ r \in visible /\ Children(r) # {}
  /\ open' = IF IsOpen(r) THEN open \ {Owner(r)} ELSE open \union {Owner(r)}
  /\ Cardinality(open') <= MaxOpen[page]
  /\ Focus(<<r>>)
  /\ UNCHANGED <<page, visible, down, lastKey, repeatOn>>

ResultsNext ==
  \/ \E key \in ResultKeys : ResultKeyDown(key)
  \/ ResultKeyPress
  \/ ResultKeyUp
  \/ \E r \in visible : Toggle(r)

ResultsSpec == ResultsInit /\ [][ResultsNext]_resultVars

-----------------------------------------------------------------------------
(* Properties. *)

\* The focus is on something one can see.
ResultsTypeOK ==
  /\ page \in DOMAIN Results
  /\ visible \subseteq Rows
  /\ open \subseteq {r \in Rows : Children(r) # {}}
  /\ where # <<>> => Len(where) \in 1 .. 2 /\ CanBeSeen(where)
  /\ down \in ResultKeys \union {"none"}
  /\ lastKey \in ResultKeys \union {"none"}
  /\ repeatOn \in BOOLEAN

\* The rows that a search leaves are next to each other.  NavUp() relies on
\* it, and it holds because the pages are sorted and the search is for the
\* beginning of an id.
VisibleIsOneBlock ==
  \A r \in visible : r + 1 \in visible \/ \A q \in visible : q <= r

\* A key that is down and reaches the results is the key they act on: no key
\* that was released in the field, where Nav() does not see it, is taken for
\* another one later.
ActsOnHeldKey == where # <<>> /\ down # "none" => lastKey = down

\* In the order in which one reads.
Above(link1, link2) ==
  \/ link1[1] < link2[1]
  \/ link1[1] = link2[1] /\ Len(link1) < Len(link2)
  \/ /\ link1[1] = link2[1] /\ Len(link1) = 2 /\ Len(link2) = 2
     /\ link1[2] < link2[2]

Between(upper, lower) ==
  {link \in VisibleLinks : Above(upper, link) /\ Above(link, lower)}

\* Down goes to the next visible link and stays on the last; Up goes to the one
\* before, and from the first to the field: rows that were opened, hidden rows,
\* and rows of the same id make no difference.
ReadingOrder ==
  [][where # <<>> =>
       /\ ResultKeyDown("Down") =>
            \/ Above(where, where') /\ Between(where, where') = {}
            \/ /\ where' = where
               /\ \A link \in VisibleLinks : ~ Above(where, link)
       /\ ResultKeyDown("Up") =>
            IF where' = <<>>
            THEN \A link \in VisibleLinks : ~ Above(link, where)
            ELSE Above(where', where) /\ Between(where', where) = {}
    ]_resultVars
=============================================================================
