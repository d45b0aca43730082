------------------------------ MODULE BltsSync ------------------------------
(***************************************************************************)
(* The shared table of blts-common/src/blts_sync.c and what one process    *)
(* does to it in blts_sync_anon(), blts_sync_tagged() and barrier_sync():  *)
(* nothing but operations on counting semaphores.  Which barrier a process *)
(* calls, and when, is left to the modules that extend this one.           *)
(*                                                                         *)
(* One action is one semaphore operation together with the plain memory    *)
(* accesses made under the lock it takes or gives back.                    *)
(***************************************************************************)
EXTENDS Naturals, FiniteSets, Sequences

CONSTANTS
  Procs,     \* the test processes
  Barriers   \* indices of the barrier table in use

ASSUME ProcsAssumption == IsFiniteSet(Procs) /\ Procs # {}

VARIABLES
  syncMutex,  \* value of shared_data.sync_mutex
  mutex,      \* mutex[b]: value of barriers[b].mutex
  refcount,   \* refcount[b]: registered users of b
  active,     \* active[b]: somebody leads a round at b
  arrive,     \* arrive[b]: value of barrier_arrive_signal
  depart,     \* depart[b]: value of barrier_depart_signal
  pc,         \* pc[p]: where p is in its call
  i,          \* i[p]: the loop counter of barrier_sync
  visit       \* visit[p]: calls p has completed

vars == <<syncMutex, mutex, refcount, active, arrive, depart, pc, i, visit>>

\* The places of a process.  "first" is the one that found the barrier idle and
\* leads the round, "other" one that found it active.
Labels == {"idle", "arriving", "firstLocked", "firstOut", "collecting",
           "releasing", "otherLocked", "otherOut", "signalling", "awaiting",
           "departing", "returning"}

\* The table after barrier_init() has run for every barrier, with the given users
\* registered, and every process outside of it.
InitWith(users) ==
  /\ syncMutex = 1
  /\ mutex = [b \in Barriers |-> 1]
  /\ refcount = users
  /\ active = [b \in Barriers |-> FALSE]
  /\ arrive = [b \in Barriers |-> 0]
  /\ depart = [b \in Barriers |-> 0]
  /\ pc = [p \in Procs |-> "idle"]
  /\ i = [p \in Procs |-> 0]
  /\ visit = [p \in Procs |-> 0]

Goto(p, from, to) == pc[p] = from /\ pc' = [pc EXCEPT ![p] = to]
Dec(sem, b) == sem[b] > 0 /\ sem' = [sem EXCEPT ![b] = @ - 1]
Inc(sem, b) == sem' = [sem EXCEPT ![b] = @ + 1]

-----------------------------------------------------------------------------
\* blts_sync_anon() / blts_sync_tagged(): take sync_mutex, then barrier_sync().
Call(p) == /\ Goto(p, "idle", "arriving")
           /\ syncMutex > 0
           /\ syncMutex' = syncMutex - 1
           /\ UNCHANGED <<mutex, refcount, active, arrive, depart, i, visit>>

\* Mutated forms of the next one: the leader waits for one arrival less; active is
\* not set.
ArriveFirst_OneShort(p, b) ==
  /\ Goto(p, "arriving", "firstLocked")
  /\ ~active[b]
  /\ Dec(mutex, b)
  /\ active' = [active EXCEPT ![b] = TRUE]
  /\ i' = [i EXCEPT ![p] = refcount[b] - 2]
  /\ UNCHANGED <<syncMutex, refcount, arrive, depart, visit>>
ArriveFirst_Unmarked(p, b) ==
  /\ Goto(p, "arriving", "firstLocked")
  /\ ~active[b]
  /\ Dec(mutex, b)
  /\ i' = [i EXCEPT ![p] = refcount[b] - 1]
  /\ UNCHANGED <<syncMutex, refcount, active, arrive, depart, visit>>

\* barrier_mutex_lock(b), and nobody leads: lead this round.
ArriveFirst(p, b) ==
  /\ Goto(p, "arriving", "firstLocked")
  /\ ~active[b]
  /\ Dec(mutex, b)
  /\ active' = [active EXCEPT ![b] = TRUE]
  /\ i' = [i EXCEPT ![p] = refcount[b] - 1]
  /\ UNCHANGED <<syncMutex, refcount, arrive, depart, visit>>

\* barrier_mutex_lock(b), and somebody leads already.
ArriveOther(p, b) ==
  /\ Goto(p, "arriving", "otherLocked")
  /\ active[b]
  /\ Dec(mutex, b)
  /\ UNCHANGED <<syncMutex, refcount, active, arrive, depart, i, visit>>

\* barrier_mutex_unlock(b), in either branch.
UnlockBarrier(p, b) ==
  /\ Goto(p, "firstLocked", "firstOut") \/ Goto(p, "otherLocked", "otherOut")
  /\ Inc(mutex, b)
  /\ UNCHANGED <<syncMutex, refcount, active, arrive, depart, i, visit>>

\* sync_mutex_unlock(), in either branch.
UnlockSync(p) ==
  /\ Goto(p, "firstOut", "collecting") \/ Goto(p, "otherOut", "signalling")
  /\ syncMutex' = syncMutex + 1
  /\ UNCHANGED <<mutex, refcount, active, arrive, depart, i, visit>>

\* while(i--) sem_wait(arrive): one arrival collected.
Collect(p, b) ==
  /\ pc[p] = "collecting"
  /\ i[p] > 0
  /\ Dec(arrive, b)
  /\ i' = [i EXCEPT ![p] = @ - 1]
  /\ UNCHANGED <<syncMutex, mutex, refcount, active, depart, pc, visit>>

\* Mutated forms of the next one: a token for the leader too; one token too few.
BeginRelease_ItselfToo(p, b) ==
  /\ Goto(p, "collecting", "releasing")
  /\ i[p] = 0
  /\ Dec(mutex, b)
  /\ i' = [i EXCEPT ![p] = refcount[b]]
  /\ UNCHANGED <<syncMutex, refcount, active, arrive, depart, visit>>
BeginRelease_OneShort(p, b) ==
  /\ Goto(p, "collecting", "releasing")
  /\ i[p] = 0
  /\ Dec(mutex, b)
  /\ i' = [i EXCEPT ![p] = refcount[b] - 2]
  /\ UNCHANGED <<syncMutex, refcount, active, arrive, depart, visit>>

\* All collected: barrier_mutex_lock(b) and read refcount once more.
BeginRelease(p, b) ==
  /\ Goto(p, "collecting", "releasing")
  /\ i[p] = 0
  /\ Dec(mutex, b)
  /\ i' = [i EXCEPT ![p] = refcount[b] - 1]
  /\ UNCHANGED <<syncMutex, refcount, active, arrive, depart, visit>>

\* while(i--) sem_post(depart): one waiter let go.
Release(p, b) ==
  /\ pc[p] = "releasing"
  /\ i[p] > 0
  /\ Inc(depart, b)
  /\ i' = [i EXCEPT ![p] = @ - 1]
  /\ UNCHANGED <<syncMutex, mutex, refcount, active, arrive, pc, visit>>

\* Mutated form of the next one: active stays set.
EndRelease_Active(p, b) ==
  /\ Goto(p, "releasing", "departing")
  /\ i[p] = 0
  /\ Inc(mutex, b)
  /\ UNCHANGED <<syncMutex, refcount, active, arrive, depart, i, visit>>

\* active = 0 and barrier_mutex_unlock(b).
EndRelease(p, b) ==
  /\ Goto(p, "releasing", "departing")
  /\ i[p] = 0
  /\ active' = [active EXCEPT ![b] = FALSE]
  /\ Inc(mutex, b)
  /\ UNCHANGED <<syncMutex, refcount, arrive, depart, i, visit>>

\* sem_post(arrive): tell the leader.
SignalArrival(p, b) ==
  /\ Goto(p, "signalling", "awaiting")
  /\ Inc(arrive, b)
  /\ UNCHANGED <<syncMutex, mutex, refcount, active, depart, i, visit>>

\* sem_wait(depart) returns.
Depart(p, b) ==
  /\ Goto(p, "awaiting", "departing")
  /\ Dec(depart, b)
  /\ UNCHANGED <<syncMutex, mutex, refcount, active, arrive, i, visit>>

\* Mutated form of the next one: the caller's lock is not taken again.
Relock_Not(p) == /\ Goto(p, "departing", "returning")
                 /\ UNCHANGED <<syncMutex, mutex, refcount, active, arrive, depart,
                                i, visit>>

\* The sync_mutex_lock() barrier_sync() ends with, for its caller's sake.
Relock(p) == /\ Goto(p, "departing", "returning")
             /\ syncMutex > 0
             /\ syncMutex' = syncMutex - 1
             /\ UNCHANGED <<mutex, refcount, active, arrive, depart, i, visit>>

\* The caller's sync_mutex_unlock() and return.
Return(p) == /\ Goto(p, "returning", "idle")
             /\ syncMutex' = syncMutex + 1
             /\ visit' = [visit EXCEPT ![p] = @ + 1]
             /\ UNCHANGED <<mutex, refcount, active, arrive, depart, i>>

\* One step of a process that is inside a call about barrier b.
Barrier_sync(p, b) ==
  \/ ArriveFirst(p, b)
  \/ ArriveOther(p, b)
  \/ UnlockBarrier(p, b)
  \/ UnlockSync(p)
  \/ Collect(p, b)
  \/ BeginRelease(p, b)
  \/ Release(p, b)
  \/ EndRelease(p, b)
  \/ SignalArrival(p, b)
  \/ Depart(p, b)
  \/ Relock(p)
  \/ Return(p)

-----------------------------------------------------------------------------
\* The places that hold sync_mutex, and those that hold a barrier's mutex.
HoldsSync(p) == pc[p] \in {"arriving", "firstLocked", "firstOut", "otherLocked",
                           "otherOut", "returning"}
HoldsMutex(p) == pc[p] \in {"firstLocked", "otherLocked", "releasing"}
Leads(p) == pc[p] \in {"firstLocked", "firstOut", "collecting", "releasing"}
=============================================================================
