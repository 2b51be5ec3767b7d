------------------------------ MODULE MCAnalysis ------------------------------
(***************************************************************************)
(* Instances of GRIAnalysisThread for TLC: the configurations of           *)
(* MCRegulator, in which ana is an analysis thread.                        *)
(***************************************************************************)
EXTENDS GRIAnalysisThread, GRIRegulatorInv, MCRegulator

JustAna == {ana}
=============================================================================
