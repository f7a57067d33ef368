--------------------------- MODULE MCJourneyClient ---------------------------
(***************************************************************************)
(* JourneyClient for TLC.                                                  *)
(***************************************************************************)
EXTENDS JourneyClient, TLC

AllModes == {"point", "line", "area"}

Symmetric == Permutations(Local) \cup Permutations(Report) \cup Permutations(Object)
=============================================================================
