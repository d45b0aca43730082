------------------------------ MODULE TimedSync ------------------------------
(***************************************************************************)
(* barrier_sync_to() of blts_sync.c and its callers blts_sync_anon_to()    *)
(* and blts_sync_tagged_to(), beside the untimed calls: a process may give *)
(* up while others are still to come, and then resets the barrier.         *)
(*                                                                         *)
(* Time is not measured: a wait that would block may be given up at any    *)
(* moment.  Barrier 0 is the anonymous one.                                *)
(***************************************************************************)
EXTENDS BltsSync

CONSTANTS
  Program,        \* Program[p]: the calls p makes, [bar |-> b, timed |-> t]
  Users           \* Users[b]: how many processes are registered at b

ASSUME ProgramAssumption ==
  /\ Program \in [Procs -> Seq([bar : Barriers, timed : BOOLEAN])]
  /\ Users \in [Barriers -> Nat \ {0}]

VARIABLES
  failed,    \* failed[p]: ret # 0 in p's barrier_sync_to
  rejected   \* history: whose deadline was invalid at the first lock (EINVAL)

tvars == <<vars, failed, rejected>>

\* Places of a failed call: at "out", emptying the two semaphores, resetting active.
OutLabels == {"out", "drainArrive", "drainDepart", "resetting"}

Rounds(p) == Len(Program[p])
InProgram(p) == visit[p] < Rounds(p)
Here(p) == Program[p][visit[p] + 1].bar
Timed(p) == Program[p][visit[p] + 1].timed

TypeOK == /\ syncMutex \in 0..1
          /\ mutex \in [Barriers -> 0..1]
          /\ refcount = Users
          /\ active \in [Barriers -> BOOLEAN]
          /\ arrive \in [Barriers -> Nat]
          /\ depart \in [Barriers -> Nat]
          /\ pc \in [Procs -> Labels \cup OutLabels]
          /\ i \in [Procs -> Nat]
          /\ visit \in [Procs -> Nat]
          /\ failed \in [Procs -> BOOLEAN]
          /\ rejected \subseteq Procs

Init == /\ InitWith(Users)
        /\ failed = [p \in Procs |-> FALSE]
        /\ rejected = {}

-----------------------------------------------------------------------------
\* goto out with ret # 0.
GiveUp(p, from) == /\ Goto(p, from, "out")
                   /\ failed' = [failed EXCEPT ![p] = TRUE]
                   /\ UNCHANGED <<syncMutex, mutex, refcount, active, arrive,
                                  depart, i, visit>>

\* The first barrier_mutex_lock_to() fails: somebody holds the mutex for too long, or
\* the deadline is invalid, as tv_nsec is not carried into tv_sec.  sync_mutex is not
\* given back on this path.
FailToArrive(p, b) == /\ GiveUp(p, "arriving")
                      /\ \/ mutex[b] = 0 /\ UNCHANGED rejected
                         \/ rejected' = rejected \cup {p}

\* Mutated form of the next one: the result of sem_timedwait(arrive) is ignored.
FailToCollect_GoOn(p, b) ==
  /\ pc[p] = "collecting"
  /\ i[p] > 0 /\ arrive[b] = 0
  /\ i' = [i EXCEPT ![p] = @ - 1]
  /\ UNCHANGED <<syncMutex, mutex, refcount, active, arrive, depart, pc, visit,
                 failed, rejected>>

\* The leader's sem_timedwait(arrive), or its second barrier_mutex_lock_to().
FailToCollect(p, b) == /\ IF i[p] > 0 THEN arrive[b] = 0 ELSE mutex[b] = 0
                       /\ GiveUp(p, "collecting")
                       /\ UNCHANGED rejected

\* Mutated form of the next one: sem_wait(depart).
FailToDepart_Never(p, b) == FALSE /\ GiveUp(p, "awaiting") /\ UNCHANGED rejected

\* The others' sem_timedwait(depart).
FailToDepart(p, b) == /\ depart[b] = 0
                      /\ GiveUp(p, "awaiting")
                      /\ UNCHANGED rejected

\* Mutated form of the next one: the caller's lock is not taken again.
RelockFailed_Not(p) == /\ Goto(p, "out", "drainArrive")
                       /\ UNCHANGED <<syncMutex, mutex, refcount, active, arrive,
                                      depart, i, visit, failed, rejected>>

\* out: sync_mutex_lock().
RelockFailed(p) == /\ Goto(p, "out", "drainArrive")
                   /\ syncMutex > 0
                   /\ syncMutex' = syncMutex - 1
                   /\ UNCHANGED <<mutex, refcount, active, arrive, depart, i,
                                  visit, failed, rejected>>

\* while(!sem_trywait(arrive)), then while(!sem_trywait(depart)): one token, or
\* the failure that ends the loop.
DrainArrive(p, b) == /\ pc[p] = "drainArrive"
                     /\ Dec(arrive, b)
                     /\ UNCHANGED <<syncMutex, mutex, refcount, active, depart,
                                    pc, i, visit, failed, rejected>>
ArriveDrained(p, b) == /\ Goto(p, "drainArrive", "drainDepart")
                       /\ arrive[b] = 0
                       /\ UNCHANGED <<syncMutex, mutex, refcount, active, arrive,
                                      depart, i, visit, failed, rejected>>
DrainDepart(p, b) == /\ pc[p] = "drainDepart"
                     /\ Dec(depart, b)
                     /\ UNCHANGED <<syncMutex, mutex, refcount, active, arrive,
                                    pc, i, visit, failed, rejected>>
DepartDrained(p, b) == /\ Goto(p, "drainDepart", "resetting")
                       /\ depart[b] = 0
                       /\ UNCHANGED <<syncMutex, mutex, refcount, active, arrive,
                                      depart, i, visit, failed, rejected>>

\* b->active = 0, whoever may be waiting at b.
Reset(p, b) == /\ Goto(p, "resetting", "returning")
               /\ active' = [active EXCEPT ![b] = FALSE]
               /\ UNCHANGED <<syncMutex, mutex, refcount, arrive, depart, i,
                              visit, failed, rejected>>

\* The caller's sync_mutex_unlock().  What it returns, which blts_sync_tagged_to()
\* does not pass on, is left out.
ReturnResult(p) == /\ Return(p)
                   /\ failed' = [failed EXCEPT ![p] = FALSE]
                   /\ UNCHANGED rejected

\* barrier_sync_to(): as barrier_sync(), each wait with a way out.
Barrier_sync_to(p, b) ==
  \/ FailToArrive(p, b)
  \/ FailToCollect(p, b)
  \/ FailToDepart(p, b)
  \/ RelockFailed(p)
  \/ DrainArrive(p, b)
  \/ ArriveDrained(p, b)
  \/ DrainDepart(p, b)
  \/ DepartDrained(p, b)
  \/ Reset(p, b)

Step(p) ==
  /\ InProgram(p)
  /\ \/ Call(p) /\ UNCHANGED <<failed, rejected>>
     \/ pc[p] # "returning" /\ Barrier_sync(p, Here(p)) /\ UNCHANGED <<failed, rejected>>
     \/ Timed(p) /\ Barrier_sync_to(p, Here(p))
     \/ ReturnResult(p)

Finished == \A p \in Procs : ~InProgram(p)
Terminated == Finished /\ UNCHANGED tvars

Next == (\E p \in Procs : Step(p)) \/ Terminated

\* Every process keeps being scheduled; a timed wait is over at the latest when
\* its deadline has passed.
Fairness == \A p \in Procs : WF_tvars(Step(p))

Spec == Init /\ [][Next]_tvars /\ Fairness

-----------------------------------------------------------------------------
\* "note: no locks are held at this point" (blts_sync.c:293): sync_mutex is free or has
\* exactly one holder, who is at one of the places that hold it.  The way out is such a
\* place for a process whose deadline was invalid, and for nobody else: that process
\* goes on to wait there for itself.
KeepsLock(p) == pc[p] = "out" /\ p \in rejected
OnlyRejectedKeepLock ==
  syncMutex + Cardinality({p \in Procs : \/ HoldsSync(p)
                                         \/ pc[p] \in OutLabels \ {"out"}
                                         \/ KeepsLock(p)}) = 1

\* A call that got through did so because everybody had come: when a process passes
\* its k-th barrier, all have entered their k-th call, whoever gave up in between.
Passes(p) == pc[p] \in {"departing", "returning"} /\ ~failed[p]
NobodyPassesAlone ==
  \A p, q \in Procs : Passes(p) =>
    visit[q] > visit[p] \/ (visit[q] = visit[p] /\ pc[q] # "idle")

\* "This will block until all participating processes reach this point" (:478):
\* and no longer.  Once all of them wait in untimed calls at one barrier, not all
\* of them are stuck there.
Stuck(p) == /\ InProgram(p) /\ ~Timed(p)
            /\ \/ pc[p] = "collecting" /\ i[p] > 0 /\ arrive[Here(p)] = 0
               \/ pc[p] = "awaiting" /\ depart[Here(p)] = 0
NobodyAbandoned ==
  ~ \E b \in Barriers : \A p \in Procs : Stuck(p) /\ Here(p) = b

\* A call returns: nobody who may give up waits for ever, for a token, for a lock or
\* for somebody who has gone; unless a deadline was invalid, whose owner has
\* sync_mutex for ever.
EveryCallReturns == <>(Finished \/ rejected # {})
=============================================================================
