----------------------------- MODULE MCSearchBox -----------------------------
(***************************************************************************)
(* An instance of SearchBox for TLC: two letters, texts with spaces before *)
(* and within, the label typed by hand, two sections of which one has no   *)
(* page for the second letter.                                             *)
(***************************************************************************)
EXTENDS SearchBox

CONSTANTS a, b, s     \* characters; s is the one of the label

MCCharacters == {a, b, s, Space}
MCLabel == <<s>>
MCTexts == {<<>>, <<a>>, <<b>>, <<Space, a>>, <<a, Space, b>>, <<s>>}
MCContent == {<<0, a>>, <<0, b>>, <<1, a>>, <<1, s>>}
=============================================================================
