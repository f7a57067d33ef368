------------------------------- MODULE MapCopy -------------------------------
(***************************************************************************)
(* What lists of map objects that are brought up to date piece by piece    *)
(* are meant to be: as good as ones that are fetched anew each time.       *)
(***************************************************************************)
EXTENDS Naturals

CONSTANTS
    Object, Journey, NoCopy,
    Own      \* the objects of each journey

VARIABLES
    seen,    \* for each journey, when what may be seen of each object was written
    copy,    \* for each journey, what the page has of them, or NoCopy
    missed   \* when what may be missed was written

Init == copy = [j \in Journey |-> NoCopy]

\* Objects are written, or the user's role changes.
Change == copy' = copy

\* An answer: all that may be seen is there as it is now, missed things excepted,
\* and nothing of the journey itself.  What is not to be seen may still be there.
Fresh(j, new) ==
    /\ new # NoCopy
    /\ \A o \in Object : /\ seen[j][o] \in {0, new[o]} \cup missed
                         /\ o \in Own[j] => new[o] = 0
CatchUp(j) == seen' = seen /\ copy' = [copy EXCEPT ![j] = copy'[j]] /\ Fresh(j, copy'[j])

Forget(j) == seen' = seen /\ copy' = [copy EXCEPT ![j] = NoCopy]

\* The page is left.
Leave == seen' = seen /\ copy' = [j \in Journey |-> NoCopy]

Next == Change \/ Leave \/ \E j \in Journey : CatchUp(j) \/ Forget(j)
Spec == Init /\ [][Next]_<<seen, copy, missed>>
=============================================================================
