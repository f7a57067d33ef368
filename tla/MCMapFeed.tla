------------------------------ MODULE MCMapFeed ------------------------------
(***************************************************************************)
(* MapFeed for TLC: an object of the user's own report and one of another's. *)
(***************************************************************************)
EXTENDS MapFeedRequirements

CONSTANTS o1, o2, own, other

OneOfEach == [o \in {o1, o2} |-> IF o = o1 THEN own ELSE other]
Reviewed == [o \in {o1, o2} |-> IF o = o1 THEN "draft" ELSE "resolved"]
ByOther == [r \in {own, other} |-> IF r = own THEN Me ELSE "Bruker"]
=============================================================================
