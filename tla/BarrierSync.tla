----------------------------- MODULE BarrierSync -----------------------------
(***************************************************************************)
(* Processes that go through a sequence of barriers with barrier_sync().   *)
(*                                                                         *)
(* The membership is fixed: every process is registered at every barrier   *)
(* and calls them in the same order (Schedule), which is what the API asks *)
(* of its users (blts_sync.c:408-409, :478-480).                           *)
(***************************************************************************)
EXTENDS BltsSync

CONSTANT Schedule   \* the barriers every process calls, in order

ASSUME ScheduleAssumption == Schedule \in Seq(Barriers)

Rounds == Len(Schedule)
N == Cardinality(Procs)

\* The barrier p's current (or next) call is about.
Here(p) == Schedule[visit[p] + 1]

TypeOK == /\ syncMutex \in Nat
          /\ mutex \in [Barriers -> Nat]
          /\ refcount \in [Barriers -> Nat]
          /\ active \in [Barriers -> BOOLEAN]
          /\ arrive \in [Barriers -> Nat]
          /\ depart \in [Barriers -> Nat]
          /\ pc \in [Procs -> Labels]
          /\ i \in [Procs -> Nat]
          /\ visit \in [Procs -> 0..Rounds]

\* Every process is registered at every barrier.
Init == InitWith([b \in Barriers |-> N])

Step(p) == /\ visit[p] < Rounds
           /\ Call(p) \/ Barrier_sync(p, Here(p))

\* Every process has been through its whole schedule.
Finished == \A p \in Procs : visit[p] = Rounds
Terminated == Finished /\ UNCHANGED vars

Next == (\E p \in Procs : Step(p)) \/ Terminated

\* Every test process keeps being scheduled.
Fairness == \A p \in Procs : WF_vars(Step(p))

Spec == Init /\ [][Next]_vars /\ Fairness

-----------------------------------------------------------------------------
\* What a process has entered and passed, read off its place in the call.
Entered == [p \in Procs |-> visit[p] + (IF pc[p] = "idle" THEN 0 ELSE 1)]
Passed  == [p \in Procs |->
              visit[p] + (IF pc[p] \in {"departing", "returning"} THEN 1 ELSE 0)]

\* The two mutexes are semaphores that anybody may post: each has one holder or
\* the value 1, never both and never neither (sync_mutex_lock..barrier_mutex_unlock,
\* and the unlock/relock pair barrier_sync makes on its caller's behalf).
MutexInv ==
  /\ syncMutex + Cardinality({p \in Procs : HoldsSync(p)}) = 1
  /\ \A b \in Barriers :
       mutex[b] + Cardinality({p \in Procs : HoldsMutex(p) /\ Here(p) = b}) = 1

\* b->active is set exactly while one process leads b, so nobody elects itself
\* beside a leader, and a barrier without one is never closed to newcomers.
LeaderInv ==
  \A b \in Barriers :
    Cardinality({p \in Procs : Leads(p) /\ Here(p) = b}) = (IF active[b] THEN 1 ELSE 0)

\* "Block until all referrers reach barrier" (blts_sync.c:182), "block until all
\* participating processes reach this point" (:478): whoever is past its r-th
\* barrier, every other process has at least entered its own r-th one.
NobodyPassesEarly ==
  \A p, q \in Procs : Passed[p] <= Entered[q]

\* A barrier left by everybody is as barrier_init made it: no arrival or
\* departure token is left over for the next round to mistake for its own.
NoTokenLeftOver ==
  \A r \in 0..Rounds :
    (\A p \in Procs : pc[p] = "idle" /\ visit[p] = r)
      => \A b \in Barriers : ~active[b] /\ arrive[b] = 0 /\ depart[b] = 0

\* The barriers implement the abstract one, each step of a process being an
\* entry, a passage or invisible, and nobody being kept waiting for ever.
Abstract == INSTANCE Barrier WITH entered <- Entered, passed <- Passed
ImplementsBarrier == Abstract!Spec

\* Every process gets through its schedule: no round is left with a process
\* waiting for a token nobody will post.
EveryoneGetsThrough == <>Finished
=============================================================================
