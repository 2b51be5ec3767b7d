------------------------------- MODULE MCLoader -------------------------------
(***************************************************************************)
(* An instance of GRILoader for TLC: two names, a class that is loaded and *)
(* one that is not, elements that lack an attribute.                       *)
(***************************************************************************)
EXTENDS GRILoader

CONSTANTS daq, ana,       \* names
          known, unknown  \* classes

CONSTANTS raw, result     \* data

Element(n, c) == [name |-> n, class |-> c]

LinkFrom(w, r, d) == [writer |-> w, reader |-> r, data |-> d]

MCObjects == {Element(daq, known), Element(ana, known), Element(ana, unknown),
              Element(None, known), Element(daq, None)}

MCLinks == {LinkFrom(daq, ana, raw), LinkFrom(ana, daq, result),
            LinkFrom(daq, daq, raw), LinkFrom(daq, ana, None),
            LinkFrom(None, ana, raw)}
=============================================================================
