------------------------------- MODULE Barrier -------------------------------
(***************************************************************************)
(* What a sequence of barriers promises, without saying how: "Block until  *)
(* all referrers reach barrier" (blts_sync.c:182).  Every process goes     *)
(* through the same Rounds barriers; it may pass its r-th one only when    *)
(* every process has entered its own r-th one.                             *)
(***************************************************************************)
EXTENDS Naturals

CONSTANTS
  Procs,    \* the participating test processes
  Rounds    \* how many barriers each of them goes through

VARIABLES
  entered,  \* entered[p]: barriers p has begun to wait at
  passed    \* passed[p]: barriers p has been let through

vars == <<entered, passed>>

TypeOK == /\ entered \in [Procs -> 0..Rounds]
          /\ passed \in [Procs -> 0..Rounds]

Init == /\ entered = [p \in Procs |-> 0]
        /\ passed = [p \in Procs |-> 0]

\* A process outside a barrier begins to wait at its next one.
Enter(p) == /\ entered[p] = passed[p]
            /\ entered[p] < Rounds
            /\ entered' = [entered EXCEPT ![p] = @ + 1]
            /\ UNCHANGED passed

\* A waiting process goes on, once nobody is still to come.
Pass(p) == /\ passed[p] < entered[p]
           /\ \A q \in Procs : entered[p] <= entered[q]
           /\ passed' = [passed EXCEPT ![p] = @ + 1]
           /\ UNCHANGED entered

Next == \E p \in Procs : Enter(p) \/ Pass(p)

Fairness == \A p \in Procs : WF_vars(Enter(p) \/ Pass(p))

Spec == Init /\ [][Next]_vars /\ Fairness
=============================================================================
