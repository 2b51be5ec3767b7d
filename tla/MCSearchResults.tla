--------------------------- MODULE MCSearchResults ---------------------------
(***************************************************************************)
(* An instance of SearchResults for TLC: pages of the documentation.       *)
(***************************************************************************)
EXTENDS SearchResults, SearchPages

MCPages == SearchPages

\* Two rows are open at once on all pages but the largest ones.
MCMaxOpen ==
  [name \in DOMAIN SearchPages |->
     IF Len(SearchPages[name]) < 50 THEN 2 ELSE 1]
=============================================================================
