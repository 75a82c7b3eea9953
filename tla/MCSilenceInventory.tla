------------------------- MODULE MCSilenceInventory -------------------------
(***************************************************************************)
(* Model-checking instance of SilenceInventory: two overlapping loops.     *)
(***************************************************************************)
EXTENDS SilenceInventory

CONSTANTS a1

\* Every silence matches the one alert.
MCMatched == [i \in Ids |-> {a1}]
=============================================================================
