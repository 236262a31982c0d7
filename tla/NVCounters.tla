----------------------------- MODULE NVCounters -----------------------------
(***************************************************************************)
(* What the counter indices of the NV store promise to their users: a      *)
(* counter never shows a smaller value than one it has shown, whatever     *)
(* commands, power losses and restarts come between, and a counter that is *)
(* written for the first time starts above every counter deleted before    *)
(* it, so that deleting and redefining an index never rolls it back.       *)
(*                                                                         *)
(* A counter may run ahead: after a power loss an orderly counter skips    *)
(* the values it may have had in memory.                                   *)
(***************************************************************************)
EXTENDS Integers

CONSTANT Indices     \* the handles a counter can have

VARIABLES count,     \* the value each written counter has shown
          floor      \* the largest value a deleted counter has shown

TypeOK == /\ DOMAIN count \subseteq Indices
          /\ \A i \in DOMAIN count : count[i] \in Nat
          /\ floor \in Nat

Init == /\ count = [i \in {} |-> 0]
        /\ floor = 0

\* The first increment of index i.
Create(i) == /\ i \notin DOMAIN count
             /\ DOMAIN count' = DOMAIN count \cup {i}
             /\ count'[i] > floor
             /\ \A j \in DOMAIN count : count'[j] = count[j]
             /\ UNCHANGED floor

\* Increments, and the jump of the orderly counters at a startup.
Raise == /\ DOMAIN count' = DOMAIN count
         /\ \A i \in DOMAIN count : count'[i] >= count[i]
         /\ UNCHANGED floor

\* The deletion of one index, or of all the owner's.
Delete(gone) == /\ DOMAIN count' = DOMAIN count \ gone
                /\ \A i \in DOMAIN count' : count'[i] = count[i]
                /\ floor' >= floor
                /\ \A i \in gone : floor' >= count[i]

Next == \/ \E i \in Indices : Create(i)
        \/ Raise
        \/ \E gone \in SUBSET DOMAIN count : Delete(gone)

Spec == Init /\ [][Next]_<<count, floor>>

=============================================================================
