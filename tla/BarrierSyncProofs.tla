-------------------------- MODULE BarrierSyncProofs --------------------------
(***************************************************************************)
(* Proofs about BarrierSync, for any finite set of processes and any       *)
(* schedule that never names the same barrier twice in a row.              *)
(*                                                                         *)
(* The argument: between two processes there is at most one round of       *)
(* difference (Skew), so two processes at one barrier are in one round.    *)
(* While a leader gathers, the arrivals it has collected and those still   *)
(* in the semaphore are exactly the processes that wait, and no departure  *)
(* token exists; when it has collected N - 1 all the others wait.  From    *)
(* then on the departure tokens, with those it has still to post, are      *)
(* exactly as many as the processes that wait.                             *)
(***************************************************************************)
EXTENDS BarrierSync, FiniteSetTheorems, TLAPS

\* No barrier is called twice in a row.
Alternating == \A k \in 1..(Rounds - 1) : Schedule[k] # Schedule[k + 1]

\* A leader that has not collected every arrival yet.
Gathers(p) == pc[p] \in {"firstLocked", "firstOut", "collecting"}

\* p has done its part of the round it is in: others may pass.
Settled(p) == pc[p] \in {"awaiting", "releasing", "departing", "returning"}

\* p is done with gathering for the barrier with r calls before it.
Beyond(p, r) == visit[p] > r \/ (visit[p] = r /\ Settled(p))

Waiting(b) == {p \in Procs : pc[p] = "awaiting" /\ Here(p) = b}

-----------------------------------------------------------------------------
Typing == /\ TypeOK
          /\ refcount = [b \in Barriers |-> N]
          /\ \A p \in Procs : pc[p] # "idle" => visit[p] < Rounds

Leader == /\ \A p \in Procs : Leads(p) => active[Here(p)]
          /\ \A b \in Barriers : active[b] => \E p \in Procs : Leads(p) /\ Here(p) = b
          /\ \A p, q \in Procs : Leads(p) /\ Leads(q) /\ Here(p) = Here(q) => p = q

Skew == \A p, q \in Procs :
          \/ Passed[p] <= visit[q]
          \/ Passed[p] = visit[q] + 1 /\ Settled(q)

Gathering == \A p \in Procs : Gathers(p) =>
               /\ arrive[Here(p)] + (N - 1) = Cardinality(Waiting(Here(p))) + i[p]
               /\ depart[Here(p)] = 0
               /\ \A q \in Procs : Passed[q] <= visit[p]

Releasing == \A p \in Procs : pc[p] = "releasing" =>
               /\ arrive[Here(p)] = 0
               /\ depart[Here(p)] + i[p] = Cardinality(Waiting(Here(p)))
               /\ \A q \in Procs : Beyond(q, visit[p])

Joining == \A p \in Procs : pc[p] \in {"otherLocked", "otherOut", "signalling"} =>
             \E l \in Procs : Gathers(l) /\ Here(l) = Here(p)

Awaiting == \A p \in Procs : pc[p] = "awaiting" =>
              \/ active[Here(p)]
              \/ \A q \in Procs : Beyond(q, visit[p])

Quiet == \A b \in Barriers : ~active[b] =>
           arrive[b] = 0 /\ depart[b] = Cardinality(Waiting(b))

IInv == /\ Typing
        /\ Leader
        /\ Skew
        /\ Gathering
        /\ Releasing
        /\ Joining
        /\ Awaiting
        /\ Quiet

-----------------------------------------------------------------------------
\* The number of processes is a positive integer.
LEMMA NPositive == N \in Nat /\ N >= 1
  <1>1. N \in Nat
    BY ProcsAssumption, FS_CardinalityType DEF N
  <1>2. N # 0
    BY ProcsAssumption, FS_EmptySet DEF N
  <1>. QED
    BY <1>1, <1>2

\* Every call of the schedule is about a barrier of the table.
LEMMA HereType ==
  ASSUME Typing, NEW p \in Procs, visit[p] < Rounds
  PROVE  Here(p) \in Barriers
  BY ScheduleAssumption DEF Typing, TypeOK, Here, Rounds

\* The processes that wait at a barrier can be counted.
LEMMA WaitingFinite ==
  ASSUME NEW b
  PROVE  IsFiniteSet(Waiting(b)) /\ Cardinality(Waiting(b)) \in Nat
  <1>1. Waiting(b) \subseteq Procs
    BY DEF Waiting
  <1>. QED
    BY <1>1, ProcsAssumption, FS_Subset, FS_CardinalityType

\* Two processes whose (next) call is about one barrier are in one round: they
\* are at most one call apart, and consecutive calls name different barriers.
LEMMA SameRound ==
  ASSUME Alternating, Typing, Skew,
         NEW p \in Procs, NEW q \in Procs,
         visit[p] < Rounds, visit[q] < Rounds, Here(p) = Here(q)
  PROVE  visit[p] = visit[q]
  <1>1. /\ visit[p] \in Nat /\ visit[q] \in Nat /\ Rounds \in Nat
        /\ Passed[p] \in {visit[p], visit[p] + 1}
        /\ Passed[q] \in {visit[q], visit[q] + 1}
    BY ScheduleAssumption DEF Typing, TypeOK, Passed, Rounds
  <1>2. visit[p] <= visit[q] + 1 /\ visit[q] <= visit[p] + 1
    BY <1>1 DEF Skew
  <1>3. CASE visit[p] = visit[q] + 1
    <2>1. visit[p] \in 1..(Rounds - 1)
      BY <1>1, <1>3
    <2>2. Schedule[visit[p]] # Schedule[visit[p] + 1]
      BY <2>1 DEF Alternating
    <2>. QED
      BY <2>2, <1>3 DEF Here
  <1>4. CASE visit[q] = visit[p] + 1
    <2>1. visit[q] \in 1..(Rounds - 1)
      BY <1>1, <1>4
    <2>2. Schedule[visit[q]] # Schedule[visit[q] + 1]
      BY <2>1 DEF Alternating
    <2>. QED
      BY <2>2, <1>4 DEF Here
  <1>. QED
    BY <1>1, <1>2, <1>3, <1>4

-----------------------------------------------------------------------------
\* Every initial state, with the semaphores and counters as sync_init leaves
\* them, satisfies the inductive invariant.
LEMMA InitIInv == Init => IInv
  <1>. SUFFICES ASSUME Init PROVE IInv
    OBVIOUS
  <1>1. Typing
    BY NPositive, ScheduleAssumption DEF Init, InitWith, Typing, TypeOK, Labels, Rounds
  <1>2. Leader
    BY DEF Init, InitWith, Leader, Leads
  <1>3. Skew
    BY DEF Init, InitWith, Skew, Passed
  <1>4. Gathering /\ Releasing /\ Joining /\ Awaiting
    BY DEF Init, InitWith, Gathering, Gathers, Releasing, Joining, Awaiting
  <1>5. Quiet
    <2>1. ASSUME NEW b \in Barriers PROVE Waiting(b) = {}
      BY DEF Init, InitWith, Waiting
    <2>. QED
      BY <2>1, FS_EmptySet DEF Init, InitWith, Quiet
  <1>. QED
    BY <1>1, <1>2, <1>3, <1>4, <1>5 DEF IInv

\* Typing is kept by every step.
LEMMA TypingStep ==
  ASSUME Typing, [Next]_vars
  PROVE  Typing'
  <1>. USE DEF Typing, TypeOK
  <1>1. ASSUME NEW p \in Procs, visit[p] < Rounds, Call(p)
        PROVE  Typing'
    BY <1>1 DEF Call, Goto, Labels
  <1>2. ASSUME NEW p \in Procs, visit[p] < Rounds, Barrier_sync(p, Here(p))
        PROVE  Typing'
    <2>. DEFINE b == Here(p)
    <2>. b \in Barriers /\ refcount[b] = N /\ N - 1 \in Nat
      BY <1>2, HereType, NPositive
    <2>. HIDE DEF b
    <2>1. CASE ArriveFirst(p, b)
      BY <2>1 DEF ArriveFirst, Goto, Dec, Labels
    <2>2. CASE ArriveOther(p, b)
      BY <2>2 DEF ArriveOther, Goto, Dec, Labels
    <2>3. CASE UnlockBarrier(p, b)
      BY <2>3 DEF UnlockBarrier, Goto, Inc, Labels
    <2>4. CASE UnlockSync(p)
      BY <2>4 DEF UnlockSync, Goto, Labels
    <2>5. CASE Collect(p, b)
      BY <2>5 DEF Collect, Dec, Labels
    <2>6. CASE BeginRelease(p, b)
      BY <2>6 DEF BeginRelease, Goto, Dec, Labels
    <2>7. CASE Release(p, b)
      BY <2>7 DEF Release, Inc, Labels
    <2>8. CASE EndRelease(p, b)
      BY <2>8 DEF EndRelease, Goto, Inc, Labels
    <2>9. CASE SignalArrival(p, b)
      BY <2>9 DEF SignalArrival, Goto, Inc, Labels
    <2>10. CASE Depart(p, b)
      BY <2>10 DEF Depart, Goto, Dec, Labels
    <2>11. CASE Relock(p)
      BY <2>11 DEF Relock, Goto, Labels
    <2>12. CASE Return(p)
      <3>1. /\ visit' = [visit EXCEPT ![p] = visit[p] + 1]
            /\ visit[p] + 1 \in 0..Rounds
            /\ pc' = [pc EXCEPT ![p] = "idle"]
            /\ syncMutex' \in Nat
        BY <1>2, <2>12, ScheduleAssumption DEF Return, Goto, Rounds
      <3>. QED
        BY <3>1, <2>12 DEF Return, Goto, Labels
    <2>. QED
      BY <1>2, <2>1, <2>2, <2>3, <2>4, <2>5, <2>6, <2>7, <2>8, <2>9, <2>10,
         <2>11, <2>12 DEF Barrier_sync, b
  <1>3. CASE UNCHANGED vars
    BY <1>3 DEF vars
  <1>. QED
    BY <1>1, <1>2, <1>3 DEF Next, Step, Terminated

-----------------------------------------------------------------------------
\* The places of a process that the invariant does not tell apart.
Alike == {{"idle", "arriving"}, {"firstLocked", "firstOut", "collecting"},
          {"otherLocked", "otherOut", "signalling"}, {"departing", "returning"}}

\* A step that takes or gives back a mutex and moves one process between two
\* places that are alike disturbs nothing.
LEMMA InertStep ==
  ASSUME IInv, Typing', NEW p \in Procs, NEW from, NEW to,
         Goto(p, from, to), \E A \in Alike : from \in A /\ to \in A,
         UNCHANGED <<refcount, active, arrive, depart, i, visit>>
  PROVE  IInv'
  <1>. USE DEF IInv, Typing, TypeOK, Goto
  <1>1. \A q \in Procs : Here(q)' = Here(q)
    BY DEF Here
  <1>2. \A q \in Procs :
          /\ Leads(q)' = Leads(q)
          /\ Gathers(q)' = Gathers(q)
          /\ Settled(q)' = Settled(q)
          /\ Passed'[q] = Passed[q]
          /\ (pc'[q] = "releasing") = (pc[q] = "releasing")
          /\ (pc'[q] = "awaiting") = (pc[q] = "awaiting")
          /\ (pc'[q] \in {"otherLocked", "otherOut", "signalling"})
               = (pc[q] \in {"otherLocked", "otherOut", "signalling"})
    BY DEF Alike, Leads, Gathers, Settled, Passed
  <1>3. \A c : Waiting(c)' = Waiting(c)
    BY <1>1, <1>2 DEF Waiting
  <1>4. \A q \in Procs : \A r : Beyond(q, r)' = Beyond(q, r)
    BY <1>2 DEF Beyond
  <1>5. Leader'
    BY <1>1, <1>2 DEF Leader
  <1>6. Skew'
    BY <1>2 DEF Skew
  <1>7. Gathering' /\ Releasing'
    BY <1>1, <1>2, <1>3, <1>4 DEF Gathering, Releasing
  <1>8. Joining' /\ Awaiting' /\ Quiet'
    BY <1>1, <1>2, <1>3, <1>4 DEF Joining, Awaiting, Quiet
  <1>. QED
    BY <1>5, <1>6, <1>7, <1>8

\* A new leader: the barrier was quiet, and nobody waited at it, for then p would
\* have settled.
LEMMA ArriveFirstStep ==
  ASSUME Alternating, IInv, Typing', NEW p \in Procs, visit[p] < Rounds,
         ArriveFirst(p, Here(p))
  PROVE  IInv'
  <1>. DEFINE b == Here(p)
  <1>. USE DEF IInv, Typing, TypeOK
  <1>1. b \in Barriers /\ refcount[b] = N /\ N - 1 \in Nat /\ ~active[b]
    BY HereType, NPositive DEF ArriveFirst
  <1>2. \A q \in Procs : Here(q)' = Here(q)
    BY DEF ArriveFirst, Here
  <1>3. /\ \A q \in Procs : q # p => pc'[q] = pc[q] /\ i'[q] = i[q]
        /\ pc[p] = "arriving" /\ pc'[p] = "firstLocked" /\ i'[p] = N - 1
        /\ \A c \in Barriers : c # b => active'[c] = active[c]
        /\ active'[b] /\ arrive' = arrive /\ depart' = depart /\ visit' = visit
    BY <1>1 DEF ArriveFirst, Goto
  <1>. HIDE DEF b
  <1>4. /\ \A q \in Procs : Settled(q)' = Settled(q) /\ Passed'[q] = Passed[q]
        /\ \A q \in Procs : Leads(q)' = (Leads(q) \/ q = p)
        /\ \A q \in Procs : Gathers(q)' = (Gathers(q) \/ q = p)
    BY <1>3 DEF Settled, Passed, Leads, Gathers
  <1>5. \A c : Waiting(c)' = Waiting(c)
    BY <1>2, <1>3 DEF Waiting
  <1>6. \A q \in Procs : \A r : Beyond(q, r)' = Beyond(q, r)
    BY <1>3, <1>4 DEF Beyond
  <1>7. \A q \in Procs : pc[q] = "awaiting" => Here(q) # b
    <2>. SUFFICES ASSUME NEW q \in Procs, pc[q] = "awaiting", Here(q) = b
                  PROVE  FALSE
      OBVIOUS
    <2>1. Beyond(p, visit[q])
      BY <1>1 DEF Awaiting
    <2>2. visit[p] = visit[q]
      BY SameRound DEF b
    <2>. QED
      BY <1>3, <2>1, <2>2 DEF Beyond, Settled
  <1>8. Cardinality(Waiting(b)) = 0 /\ arrive[b] = 0 /\ depart[b] = 0
    BY <1>1, <1>7, FS_EmptySet DEF Waiting, Quiet
  <1>9. \A q \in Procs : Passed[q] <= visit[p]
    BY <1>3 DEF Skew, Settled
  <1>10. Leader'
    <2>1. \A q \in Procs : Leads(q) => Here(q) # b
      BY <1>1 DEF Leader
    <2>2. ASSUME NEW q \in Procs, Leads(q)'
          PROVE  active'[Here(q)']
      <3>1. CASE q = p
        BY <1>2, <1>3, <3>1 DEF b
      <3>2. CASE Leads(q)
        BY <1>2, <1>3, <3>2, HereType DEF Leader, Leads
      <3>. QED
        BY <1>4, <2>2, <3>1, <3>2
    <2>3. ASSUME NEW c \in Barriers, active'[c]
          PROVE  \E q \in Procs : Leads(q)' /\ Here(q)' = c
      BY <1>2, <1>3, <1>4, <2>3 DEF Leader, b
    <2>4. ASSUME NEW q \in Procs, NEW r \in Procs, Leads(q)', Leads(r)', Here(q)' = Here(r)'
          PROVE  q = r
      BY <1>2, <1>4, <2>1, <2>4 DEF Leader, b
    <2>. QED
      BY <2>2, <2>3, <2>4 DEF Leader
  <1>11. Skew'
    BY <1>3, <1>4 DEF Skew
  <1>12. Gathering'
    BY <1>1, <1>2, <1>3, <1>4, <1>5, <1>8, <1>9 DEF Gathering, b
  <1>13. Releasing'
    BY <1>2, <1>3, <1>5, <1>6 DEF Releasing
  <1>14. Joining'
    <2>1. ASSUME NEW q \in Procs, pc'[q] \in {"otherLocked", "otherOut", "signalling"}
          PROVE  \E l \in Procs : Gathers(l)' /\ Here(l)' = Here(q)'
      <3>1. PICK l \in Procs : Gathers(l) /\ Here(l) = Here(q)
        BY <1>3, <2>1 DEF Joining
      <3>. QED
        BY <1>2, <1>4, <3>1
    <2>. QED
      BY <2>1 DEF Joining
  <1>15. Awaiting'
    BY <1>2, <1>3, <1>6, HereType DEF Awaiting
  <1>16. Quiet'
    BY <1>3, <1>5 DEF Quiet
  <1>. QED
    BY <1>10, <1>11, <1>12, <1>13, <1>14, <1>15, <1>16

\* One more process at a barrier that is led: the leader still gathers, since one
\* that releases has seen everybody settle.
LEMMA ArriveOtherStep ==
  ASSUME Alternating, IInv, Typing', NEW p \in Procs, visit[p] < Rounds,
         ArriveOther(p, Here(p))
  PROVE  IInv'
  <1>. USE DEF IInv, Typing, TypeOK
  <1>1. Here(p) \in Barriers /\ active[Here(p)]
    BY HereType DEF ArriveOther
  <1>2. PICK l \in Procs : Leads(l) /\ Here(l) = Here(p)
    BY <1>1 DEF Leader
  <1>3. pc[p] = "arriving"
    BY DEF ArriveOther, Goto
  <1>4. visit[l] = visit[p]
    BY <1>2, SameRound DEF Leads
  <1>5. Gathers(l)
    BY <1>2, <1>3, <1>4 DEF Leads, Gathers, Releasing, Beyond, Settled
  <1>6. \A q \in Procs : Here(q)' = Here(q)
    BY DEF ArriveOther, Here
  <1>7. /\ \A q \in Procs : q # p => pc'[q] = pc[q]
        /\ pc'[p] = "otherLocked"
        /\ UNCHANGED <<active, arrive, depart, i, visit>>
    BY DEF ArriveOther, Goto
  <1>8. \A q \in Procs :
          /\ Settled(q)' = Settled(q) /\ Passed'[q] = Passed[q]
          /\ Leads(q)' = Leads(q) /\ Gathers(q)' = Gathers(q)
    BY <1>3, <1>7 DEF Settled, Passed, Leads, Gathers
  <1>9. \A c : Waiting(c)' = Waiting(c)
    BY <1>3, <1>6, <1>7 DEF Waiting
  <1>10. \A q \in Procs : \A r : Beyond(q, r)' = Beyond(q, r)
    BY <1>7, <1>8 DEF Beyond
  <1>11. Leader' /\ Skew'
    BY <1>6, <1>7, <1>8 DEF Leader, Skew
  <1>12. Gathering' /\ Releasing'
    BY <1>3, <1>6, <1>7, <1>8, <1>9, <1>10 DEF Gathering, Releasing
  <1>13. Joining'
    BY <1>2, <1>5, <1>6, <1>7, <1>8 DEF Joining
  <1>14. Awaiting' /\ Quiet'
    BY <1>3, <1>6, <1>7, <1>9, <1>10 DEF Awaiting, Quiet
  <1>. QED
    BY <1>11, <1>12, <1>13, <1>14

\* An arrival is collected: one less in the semaphore, one less to wait for.
LEMMA CollectStep ==
  ASSUME Alternating, IInv, Typing', NEW p \in Procs, visit[p] < Rounds,
         Collect(p, Here(p))
  PROVE  IInv'
  <1>. DEFINE b == Here(p)
  <1>. USE DEF IInv, Typing, TypeOK
  <1>1. b \in Barriers
    BY HereType
  <1>2. /\ pc' = pc /\ visit' = visit /\ active' = active /\ depart' = depart
        /\ pc[p] = "collecting"
        /\ i'[p] = i[p] - 1 /\ \A q \in Procs : q # p => i'[q] = i[q]
        /\ arrive'[b] = arrive[b] - 1
        /\ \A c \in Barriers : c # b => arrive'[c] = arrive[c]
    BY <1>1 DEF Collect, Dec
  <1>. HIDE DEF b
  <1>3. \A q \in Procs :
          /\ Here(q)' = Here(q) /\ Passed'[q] = Passed[q]
          /\ Settled(q)' = Settled(q) /\ Leads(q)' = Leads(q) /\ Gathers(q)' = Gathers(q)
    BY <1>2 DEF Here, Passed, Settled, Leads, Gathers
  <1>4. \A c : Waiting(c)' = Waiting(c)
    BY <1>2, <1>3 DEF Waiting
  <1>5. \A q \in Procs : \A r : Beyond(q, r)' = Beyond(q, r)
    BY <1>2, <1>3 DEF Beyond
  <1>6. active[b] /\ Leads(p) /\ Gathers(p)
    BY <1>2 DEF Leads, Gathers, Leader, b
  <1>7. \A q \in Procs : Leads(q) /\ q # p => Here(q) \in Barriers /\ Here(q) # b
    BY <1>6, HereType DEF Leader, Leads, b
  <1>8. Leader' /\ Skew' /\ Joining' /\ Awaiting'
    BY <1>2, <1>3, <1>5 DEF Leader, Skew, Joining, Awaiting
  <1>9. Gathering'
    <2>. SUFFICES ASSUME NEW q \in Procs, Gathers(q)
                  PROVE  /\ arrive'[Here(q)] + (N - 1) = Cardinality(Waiting(Here(q))) + i'[q]
                         /\ depart'[Here(q)] = 0
                         /\ \A r \in Procs : Passed'[r] <= visit'[q]
      BY <1>3, <1>4 DEF Gathering
    <2>1. /\ arrive[Here(q)] + (N - 1) = Cardinality(Waiting(Here(q))) + i[q]
          /\ depart[Here(q)] = 0
          /\ \A r \in Procs : Passed[r] <= visit[q]
      BY DEF Gathering
    <2>2. arrive'[Here(q)] + (N - 1) = Cardinality(Waiting(Here(q))) + i'[q]
      <3>1. CASE q = p
        BY <1>1, <1>2, <2>1, <3>1, NPositive, WaitingFinite DEF b
      <3>2. CASE q # p
        BY <1>2, <1>7, <2>1, <3>2 DEF Gathers, Leads
      <3>. QED
        BY <3>1, <3>2
    <2>. QED
      BY <1>2, <1>3, <2>1, <2>2
  <1>10. Releasing'
    <2>. SUFFICES ASSUME NEW q \in Procs, pc[q] = "releasing"
                  PROVE  /\ arrive'[Here(q)] = 0
                         /\ depart'[Here(q)] + i'[q] = Cardinality(Waiting(Here(q)))
                         /\ \A r \in Procs : Beyond(r, visit[q])'
      BY <1>2, <1>3, <1>4 DEF Releasing
    <2>1. q # p /\ Here(q) \in Barriers /\ Here(q) # b
      BY <1>2, <1>7 DEF Leads
    <2>. QED
      BY <1>2, <1>5, <2>1 DEF Releasing
  <1>11. Quiet'
    BY <1>2, <1>4, <1>6 DEF Quiet
  <1>. QED
    BY <1>8, <1>9, <1>10, <1>11

\* Everybody has arrived: N - 1 processes wait, that is all the others.
LEMMA BeginReleaseStep ==
  ASSUME Alternating, IInv, Typing', NEW p \in Procs, visit[p] < Rounds,
         BeginRelease(p, Here(p))
  PROVE  IInv'
  <1>. DEFINE b == Here(p)
  <1>. USE DEF IInv, Typing, TypeOK
  <1>1. b \in Barriers /\ refcount[b] = N /\ N - 1 \in Nat
    BY HereType, NPositive
  <1>2. /\ visit' = visit /\ active' = active /\ depart' = depart /\ arrive' = arrive
        /\ pc[p] = "collecting" /\ pc'[p] = "releasing" /\ i[p] = 0 /\ i'[p] = N - 1
        /\ \A q \in Procs : q # p => i'[q] = i[q] /\ pc'[q] = pc[q]
    BY <1>1 DEF BeginRelease, Goto
  <1>. HIDE DEF b
  <1>3. active[b] /\ Leads(p) /\ Gathers(p)
    BY <1>2 DEF Leads, Gathers, Leader, b
  <1>4. /\ arrive[b] + (N - 1) = Cardinality(Waiting(b))
        /\ depart[b] = 0
        /\ \A q \in Procs : Passed[q] <= visit[p]
    BY <1>1, <1>2, <1>3, WaitingFinite DEF Gathering, b
  <1>5. arrive[b] = 0 /\ Waiting(b) = Procs \ {p}
    <2>1. Waiting(b) \subseteq Procs \ {p}
      BY <1>2 DEF Waiting
    <2>2. IsFiniteSet(Procs \ {p}) /\ Cardinality(Procs \ {p}) = N - 1
      BY ProcsAssumption, FS_RemoveElement DEF N
    <2>3. /\ Cardinality(Waiting(b)) <= N - 1
          /\ Cardinality(Waiting(b)) = N - 1 => Waiting(b) = Procs \ {p}
      BY <2>1, <2>2, FS_Subset
    <2>. QED
      BY <1>1, <1>4, <2>3, WaitingFinite
  <1>6. \A q \in Procs :
          /\ Here(q)' = Here(q) /\ Leads(q)' = Leads(q)
          /\ Passed'[q] = Passed[q] /\ (Settled(q) => Settled(q)')
          /\ Gathers(q)' = (Gathers(q) /\ q # p)
    BY <1>2 DEF Here, Passed, Settled, Leads, Gathers
  <1>7. \A c : Waiting(c)' = Waiting(c)
    BY <1>2, <1>6 DEF Waiting
  <1>8. \A q \in Procs : \A r : Beyond(q, r) => Beyond(q, r)'
    BY <1>2, <1>6 DEF Beyond
  <1>9. \A q \in Procs : Beyond(q, visit[p])'
    <2>. SUFFICES ASSUME NEW q \in Procs PROVE Beyond(q, visit[p])'
      OBVIOUS
    <2>1. CASE q = p
      BY <1>2, <2>1 DEF Beyond, Settled
    <2>2. CASE q # p
      <3>1. pc[q] = "awaiting" /\ Here(q) = Here(p)
        BY <1>5, <2>2 DEF Waiting, b
      <3>2. visit[q] = visit[p]
        BY <3>1, SameRound
      <3>. QED
        BY <1>2, <2>2, <3>1, <3>2 DEF Beyond, Settled
    <2>. QED
      BY <2>1, <2>2
  <1>10. Leader' /\ Skew'
    BY <1>2, <1>6 DEF Leader, Skew
  <1>11. Gathering'
    BY <1>2, <1>6, <1>7 DEF Gathering
  <1>12. Releasing'
    <2>. SUFFICES ASSUME NEW q \in Procs, pc'[q] = "releasing"
                  PROVE  /\ arrive'[Here(q)] = 0
                         /\ depart'[Here(q)] + i'[q] = Cardinality(Waiting(Here(q)))
                         /\ \A r \in Procs : Beyond(r, visit[q])'
      BY <1>2, <1>6, <1>7 DEF Releasing
    <2>1. CASE q = p
      BY <1>1, <1>2, <1>4, <1>5, <1>9, <2>1 DEF b
    <2>2. CASE q # p
      BY <1>2, <1>8, <2>2 DEF Releasing
    <2>. QED
      BY <2>1, <2>2
  <1>13. Joining'
    <2>1. \A q \in Procs : pc[q] \in {"otherLocked", "otherOut", "signalling"} => Here(q) # b
      <3>. SUFFICES ASSUME NEW q \in Procs, Here(q) = b,
                           pc[q] \in {"otherLocked", "otherOut", "signalling"}
                    PROVE  FALSE
        OBVIOUS
      <3>1. q # p
        BY <1>2
      <3>. QED
        BY <1>5, <3>1 DEF Waiting
    <2>2. ASSUME NEW q \in Procs, pc'[q] \in {"otherLocked", "otherOut", "signalling"}
          PROVE  \E l \in Procs : Gathers(l)' /\ Here(l)' = Here(q)'
      <3>1. PICK l \in Procs : Gathers(l) /\ Here(l) = Here(q)
        BY <1>2, <2>2 DEF Joining
      <3>2. l # p
        BY <1>2, <2>1, <2>2, <3>1 DEF b
      <3>. QED
        BY <1>6, <3>1, <3>2
    <2>. QED
      BY <2>2 DEF Joining
  <1>14. Awaiting' /\ Quiet'
    BY <1>2, <1>6, <1>7, <1>8 DEF Awaiting, Quiet
  <1>. QED
    BY <1>10, <1>11, <1>12, <1>13, <1>14

\* A departure token is posted: one more in the semaphore, one less to post.
LEMMA ReleaseStep ==
  ASSUME Alternating, IInv, Typing', NEW p \in Procs, visit[p] < Rounds,
         Release(p, Here(p))
  PROVE  IInv'
  <1>. DEFINE b == Here(p)
  <1>. USE DEF IInv, Typing, TypeOK
  <1>1. b \in Barriers
    BY HereType
  <1>2. /\ pc' = pc /\ visit' = visit /\ active' = active /\ arrive' = arrive
        /\ pc[p] = "releasing"
        /\ i'[p] = i[p] - 1 /\ \A q \in Procs : q # p => i'[q] = i[q]
        /\ depart'[b] = depart[b] + 1
        /\ \A c \in Barriers : c # b => depart'[c] = depart[c]
    BY <1>1 DEF Release, Inc
  <1>. HIDE DEF b
  <1>3. \A q \in Procs :
          /\ Here(q)' = Here(q) /\ Passed'[q] = Passed[q]
          /\ Settled(q)' = Settled(q) /\ Leads(q)' = Leads(q) /\ Gathers(q)' = Gathers(q)
    BY <1>2 DEF Here, Passed, Settled, Leads, Gathers
  <1>4. \A c : Waiting(c)' = Waiting(c)
    BY <1>2, <1>3 DEF Waiting
  <1>5. \A q \in Procs : \A r : Beyond(q, r)' = Beyond(q, r)
    BY <1>2, <1>3 DEF Beyond
  <1>6. active[b] /\ Leads(p)
    BY <1>2 DEF Leads, Leader, b
  <1>7. \A q \in Procs : Leads(q) /\ q # p => Here(q) \in Barriers /\ Here(q) # b
    BY <1>6, HereType DEF Leader, Leads, b
  <1>8. Leader' /\ Skew' /\ Joining' /\ Awaiting'
    BY <1>2, <1>3, <1>5 DEF Leader, Skew, Joining, Awaiting
  <1>9. Gathering'
    <2>. SUFFICES ASSUME NEW q \in Procs, Gathers(q)
                  PROVE  /\ arrive'[Here(q)] + (N - 1) = Cardinality(Waiting(Here(q))) + i'[q]
                         /\ depart'[Here(q)] = 0
                         /\ \A r \in Procs : Passed'[r] <= visit'[q]
      BY <1>3, <1>4 DEF Gathering
    <2>1. q # p /\ Leads(q)
      BY <1>2 DEF Gathers, Leads
    <2>2. Here(q) \in Barriers /\ Here(q) # b
      BY <1>7, <2>1
    <2>. QED
      BY <1>2, <1>3, <2>1, <2>2 DEF Gathering
  <1>10. Releasing'
    <2>. SUFFICES ASSUME NEW q \in Procs, pc[q] = "releasing"
                  PROVE  /\ arrive'[Here(q)] = 0
                         /\ depart'[Here(q)] + i'[q] = Cardinality(Waiting(Here(q)))
                         /\ \A r \in Procs : Beyond(r, visit[q])'
      BY <1>2, <1>3, <1>4 DEF Releasing
    <2>1. /\ arrive[Here(q)] = 0
          /\ depart[Here(q)] + i[q] = Cardinality(Waiting(Here(q)))
          /\ \A r \in Procs : Beyond(r, visit[q])
      BY DEF Releasing
    <2>2. depart'[Here(q)] + i'[q] = depart[Here(q)] + i[q]
      <3>1. CASE q = p
        BY <1>1, <1>2, <3>1 DEF b
      <3>2. CASE q # p
        BY <1>2, <1>7, <3>2 DEF Leads
      <3>. QED
        BY <3>1, <3>2
    <2>. QED
      BY <1>2, <1>5, <2>1, <2>2
  <1>11. Quiet'
    BY <1>2, <1>4, <1>6 DEF Quiet
  <1>. QED
    BY <1>8, <1>9, <1>10, <1>11

\* The leader goes: there is a departure token for each process that still waits,
\* and everybody has settled, so p is the first one to pass or not far behind.
LEMMA EndReleaseStep ==
  ASSUME Alternating, IInv, Typing', NEW p \in Procs, visit[p] < Rounds,
         EndRelease(p, Here(p))
  PROVE  IInv'
  <1>. DEFINE b == Here(p)
  <1>. USE DEF IInv, Typing, TypeOK
  <1>1. b \in Barriers
    BY HereType
  <1>2. /\ visit' = visit /\ depart' = depart /\ arrive' = arrive /\ i' = i
        /\ pc[p] = "releasing" /\ pc'[p] = "departing" /\ i[p] = 0
        /\ \A q \in Procs : q # p => pc'[q] = pc[q]
        /\ ~active'[b] /\ \A c \in Barriers : c # b => active'[c] = active[c]
    BY <1>1 DEF EndRelease, Goto
  <1>. HIDE DEF b
  <1>3. /\ active[b] /\ Leads(p)
        /\ arrive[b] = 0 /\ depart[b] = Cardinality(Waiting(b))
        /\ \A q \in Procs : Beyond(q, visit[p])
    BY <1>1, <1>2, WaitingFinite DEF Leads, Leader, Releasing, b
  <1>4. \A q \in Procs :
          /\ Here(q)' = Here(q) /\ Leads(q)' = (Leads(q) /\ q # p)
          /\ Gathers(q)' = Gathers(q) /\ Settled(q)' = Settled(q)
          /\ q # p => Passed'[q] = Passed[q]
    BY <1>2 DEF Here, Passed, Settled, Leads, Gathers
  <1>5. Passed'[p] = visit[p] + 1
    BY <1>2 DEF Passed
  <1>6. \A c : Waiting(c)' = Waiting(c)
    BY <1>2, <1>4 DEF Waiting
  <1>7. \A q \in Procs : \A r : Beyond(q, r)' = Beyond(q, r)
    BY <1>2, <1>4 DEF Beyond
  <1>8. \A q \in Procs : Leads(q) /\ q # p => Here(q) \in Barriers /\ Here(q) # b
    BY <1>3, HereType DEF Leader, Leads, b
  <1>9. Leader'
    <2>1. \A q \in Procs : Leads(q)' => active'[Here(q)']
      BY <1>2, <1>4, <1>8 DEF Leader
    <2>2. ASSUME NEW c \in Barriers, active'[c]
          PROVE  \E q \in Procs : Leads(q)' /\ Here(q)' = c
      <3>1. c # b /\ active[c]
        BY <1>2, <2>2
      <3>2. PICK q \in Procs : Leads(q) /\ Here(q) = c
        BY <3>1 DEF Leader
      <3>. QED
        BY <1>4, <3>1, <3>2 DEF b
    <2>3. \A q, r \in Procs : Leads(q)' /\ Leads(r)' /\ Here(q)' = Here(r)' => q = r
      BY <1>4 DEF Leader
    <2>. QED
      BY <2>1, <2>2, <2>3 DEF Leader
  <1>10. Skew'
    <2>. SUFFICES ASSUME NEW q \in Procs, NEW r \in Procs
                  PROVE  \/ Passed'[q] <= visit[r]
                         \/ Passed'[q] = visit[r] + 1 /\ Settled(r)
      BY <1>2, <1>4 DEF Skew
    <2>1. CASE q = p
      BY <1>3, <1>5, <2>1 DEF Beyond
    <2>2. CASE q # p
      BY <1>4, <2>2 DEF Skew
    <2>. QED
      BY <2>1, <2>2
  <1>11. Gathering'
    <2>. SUFFICES ASSUME NEW q \in Procs, Gathers(q)
                  PROVE  \A r \in Procs : Passed'[r] <= visit[q]
      BY <1>2, <1>4, <1>6 DEF Gathering
    <2>1. q # p /\ Leads(q)
      BY <1>2 DEF Gathers, Leads
    <2>2. visit[p] < visit[q]
      BY <1>3, <2>1 DEF Beyond, Settled, Gathers
    <2>. QED
      BY <1>4, <1>5, <2>2 DEF Gathering
  <1>12. Releasing'
    BY <1>2, <1>4, <1>6, <1>7 DEF Releasing
  <1>13. Joining'
    BY <1>2, <1>4 DEF Joining
  <1>14. Awaiting'
    <2>. SUFFICES ASSUME NEW q \in Procs, pc[q] = "awaiting", ~active'[Here(q)]
                  PROVE  \A r \in Procs : Beyond(r, visit[q])
      BY <1>2, <1>4, <1>7 DEF Awaiting
    <2>1. CASE Here(q) = b
      <3>1. visit[q] = visit[p]
        BY <2>1, SameRound DEF b
      <3>. QED
        BY <1>3, <3>1
    <2>2. CASE Here(q) # b
      BY <1>2, <2>2, HereType DEF Awaiting
    <2>. QED
      BY <2>1, <2>2
  <1>15. Quiet'
    BY <1>2, <1>3, <1>6 DEF Quiet
  <1>. QED
    BY <1>9, <1>10, <1>11, <1>12, <1>13, <1>14, <1>15

\* One more arrival token, and one more process that waits.
LEMMA SignalArrivalStep ==
  ASSUME Alternating, IInv, Typing', NEW p \in Procs, visit[p] < Rounds,
         SignalArrival(p, Here(p))
  PROVE  IInv'
  <1>. USE DEF IInv, Typing, TypeOK
  <1>1. PICK b \in Barriers : b = Here(p)
    BY HereType
  <1>2. /\ visit' = visit /\ active' = active /\ depart' = depart /\ i' = i
        /\ pc[p] = "signalling" /\ pc'[p] = "awaiting"
        /\ \A q \in Procs : q # p => pc'[q] = pc[q]
        /\ arrive'[b] = arrive[b] + 1
        /\ \A c \in Barriers : c # b => arrive'[c] = arrive[c]
    BY <1>1 DEF SignalArrival, Goto, Inc
  <1>3. PICK l \in Procs : Gathers(l) /\ Here(l) = b
    BY <1>1, <1>2 DEF Joining
  <1>4. active[b] /\ Leads(l)
    BY <1>3 DEF Leader, Leads, Gathers
  <1>5. \A q \in Procs :
          /\ Here(q)' = Here(q) /\ Passed'[q] = Passed[q] /\ (Settled(q) => Settled(q)')
          /\ Leads(q)' = Leads(q) /\ Gathers(q)' = Gathers(q)
    BY <1>2 DEF Here, Passed, Settled, Leads, Gathers
  <1>6. \A c : c # b => Waiting(c)' = Waiting(c)
    BY <1>1, <1>2, <1>5 DEF Waiting
  <1>7. Cardinality(Waiting(b)') = Cardinality(Waiting(b)) + 1
    <2>1. Waiting(b)' = Waiting(b) \cup {p} /\ p \notin Waiting(b)
      BY <1>1, <1>2, <1>5 DEF Waiting
    <2>2. Cardinality(Waiting(b) \cup {p}) = Cardinality(Waiting(b)) + 1
      BY <2>1, WaitingFinite, FS_AddElement
    <2>. QED
      BY <2>1, <2>2
  <1>8. \A q \in Procs : \A r : Beyond(q, r) => Beyond(q, r)'
    BY <1>2, <1>5 DEF Beyond
  <1>9. Leader' /\ Skew'
    BY <1>2, <1>5 DEF Leader, Skew
  <1>10. Gathering'
    <2>. SUFFICES ASSUME NEW q \in Procs, Gathers(q)
                  PROVE  arrive'[Here(q)] + (N - 1) = Cardinality(Waiting(Here(q))') + i'[q]
      BY <1>2, <1>5 DEF Gathering
    <2>1. arrive[Here(q)] + (N - 1) = Cardinality(Waiting(Here(q))) + i[q] /\ Here(q) \in Barriers
      BY HereType DEF Gathering, Gathers
    <2>2. CASE Here(q) = b
      BY <1>1, <1>2, <1>5, <1>7, <2>1, <2>2, NPositive, WaitingFinite
    <2>3. CASE Here(q) # b
      BY <1>2, <1>5, <1>6, <2>1, <2>3
    <2>. QED
      BY <2>2, <2>3
  <1>11. Releasing'
    <2>. SUFFICES ASSUME NEW q \in Procs, pc'[q] = "releasing"
                  PROVE  /\ arrive'[Here(q)] = 0
                         /\ depart'[Here(q)] + i'[q] = Cardinality(Waiting(Here(q))')
                         /\ \A r \in Procs : Beyond(r, visit[q])'
      BY <1>2, <1>5 DEF Releasing
    <2>1. pc[q] = "releasing" /\ Here(q) \in Barriers
      BY <1>2, HereType
    <2>2. Here(q) # b
      BY <1>3, <1>4, <2>1 DEF Leader, Leads, Gathers
    <2>. QED
      BY <1>2, <1>5, <1>6, <1>8, <2>1, <2>2 DEF Releasing
  <1>12. Joining'
    BY <1>2, <1>5 DEF Joining
  <1>13. Awaiting'
    BY <1>1, <1>2, <1>4, <1>5, <1>8 DEF Awaiting
  <1>14. Quiet'
    BY <1>2, <1>4, <1>6 DEF Quiet
  <1>. QED
    BY <1>9, <1>10, <1>11, <1>12, <1>13, <1>14

\* A departure token is taken: there is none while a leader gathers, so everybody
\* has settled, p passes, and one process less waits.
LEMMA DepartStep ==
  ASSUME Alternating, IInv, Typing', NEW p \in Procs, visit[p] < Rounds,
         Depart(p, Here(p))
  PROVE  IInv'
  <1>. USE DEF IInv, Typing, TypeOK
  <1>1. PICK b \in Barriers : b = Here(p)
    BY HereType
  <1>2. /\ visit' = visit /\ active' = active /\ arrive' = arrive /\ i' = i
        /\ pc[p] = "awaiting" /\ pc'[p] = "departing"
        /\ \A q \in Procs : q # p => pc'[q] = pc[q]
        /\ depart[b] > 0 /\ depart'[b] = depart[b] - 1
        /\ \A c \in Barriers : c # b => depart'[c] = depart[c]
    BY <1>1 DEF Depart, Goto, Dec
  <1>3. \A q \in Procs : Gathers(q) => Here(q) # b
    BY <1>2 DEF Gathering
  <1>4. \A q \in Procs : Beyond(q, visit[p])
    <2>1. CASE active[b]
      <3>1. PICK l \in Procs : Leads(l) /\ Here(l) = b
        BY <1>1, <2>1 DEF Leader
      <3>2. pc[l] = "releasing" /\ visit[l] = visit[p]
        BY <1>1, <1>2, <1>3, <3>1, SameRound DEF Leads, Gathers
      <3>. QED
        BY <3>2 DEF Releasing
    <2>2. CASE ~active[b]
      BY <1>1, <1>2, <2>2 DEF Awaiting
    <2>. QED
      BY <2>1, <2>2
  <1>5. \A q \in Procs :
          /\ Here(q)' = Here(q) /\ Settled(q)' = Settled(q)
          /\ Leads(q)' = Leads(q) /\ Gathers(q)' = Gathers(q)
          /\ q # p => Passed'[q] = Passed[q]
    BY <1>2 DEF Here, Passed, Settled, Leads, Gathers
  <1>6. Passed'[p] = visit[p] + 1
    BY <1>2 DEF Passed
  <1>7. \A c : c # b => Waiting(c)' = Waiting(c)
    BY <1>1, <1>2, <1>5 DEF Waiting
  <1>8. Cardinality(Waiting(b)') = Cardinality(Waiting(b)) - 1
    <2>1. Waiting(b)' = Waiting(b) \ {p} /\ p \in Waiting(b)
      BY <1>1, <1>2, <1>5 DEF Waiting
    <2>. QED
      BY <2>1, WaitingFinite, FS_RemoveElement
  <1>9. \A q \in Procs : \A r : Beyond(q, r)' = Beyond(q, r)
    BY <1>2, <1>5 DEF Beyond
  <1>10. Leader'
    BY <1>2, <1>5 DEF Leader
  <1>11. Skew'
    <2>. SUFFICES ASSUME NEW q \in Procs, NEW r \in Procs
                  PROVE  \/ Passed'[q] <= visit[r]
                         \/ Passed'[q] = visit[r] + 1 /\ Settled(r)
      BY <1>2, <1>5 DEF Skew
    <2>1. CASE q = p
      BY <1>4, <1>6, <2>1 DEF Beyond
    <2>2. CASE q # p
      BY <1>5, <2>2 DEF Skew
    <2>. QED
      BY <2>1, <2>2
  <1>12. Gathering'
    <2>. SUFFICES ASSUME NEW q \in Procs, Gathers(q)
                  PROVE  /\ arrive[Here(q)] + (N - 1) = Cardinality(Waiting(Here(q))') + i[q]
                         /\ depart'[Here(q)] = 0
                         /\ \A r \in Procs : Passed'[r] <= visit[q]
      BY <1>2, <1>5 DEF Gathering
    <2>1. Here(q) # b /\ Here(q) \in Barriers
      BY <1>3, HereType DEF Gathers
    <2>2. visit[p] < visit[q]
      BY <1>4 DEF Beyond, Settled, Gathers
    <2>. QED
      BY <1>2, <1>5, <1>6, <1>7, <2>1, <2>2 DEF Gathering
  <1>13. Releasing'
    <2>. SUFFICES ASSUME NEW q \in Procs, pc[q] = "releasing"
                  PROVE  depart'[Here(q)] + i[q] = Cardinality(Waiting(Here(q))')
      BY <1>2, <1>5, <1>9 DEF Releasing
    <2>1. depart[Here(q)] + i[q] = Cardinality(Waiting(Here(q))) /\ Here(q) \in Barriers
      BY HereType DEF Releasing
    <2>2. CASE Here(q) = b
      BY <1>1, <1>2, <1>5, <1>8, <2>1, <2>2, WaitingFinite
    <2>3. CASE Here(q) # b
      BY <1>2, <1>5, <1>7, <2>1, <2>3
    <2>. QED
      BY <2>2, <2>3
  <1>14. Joining' /\ Awaiting'
    BY <1>2, <1>5, <1>9 DEF Joining, Awaiting
  <1>15. Quiet'
    <2>. SUFFICES ASSUME NEW c \in Barriers, ~active[c]
                  PROVE  depart'[c] = Cardinality(Waiting(c)')
      BY <1>2 DEF Quiet
    <2>1. depart[c] = Cardinality(Waiting(c))
      BY DEF Quiet
    <2>. QED
      BY <1>1, <1>2, <1>7, <1>8, <2>1, WaitingFinite
  <1>. QED
    BY <1>10, <1>11, <1>12, <1>13, <1>14, <1>15

\* The call returns: p passed before, and is outside any barrier.
LEMMA ReturnStep ==
  ASSUME Alternating, IInv, Typing', NEW p \in Procs, visit[p] < Rounds, Return(p)
  PROVE  IInv'
  <1>. USE DEF IInv, Typing, TypeOK
  <1>1. /\ active' = active /\ depart' = depart /\ arrive' = arrive /\ i' = i
        /\ pc[p] = "returning" /\ pc'[p] = "idle" /\ visit'[p] = visit[p] + 1
        /\ \A q \in Procs : q # p => pc'[q] = pc[q] /\ visit'[q] = visit[q]
    BY DEF Return, Goto
  <1>2. \A q \in Procs :
          /\ q # p => Here(q)' = Here(q) /\ Settled(q)' = Settled(q)
          /\ Leads(q) => q # p
          /\ Leads(q)' = Leads(q) /\ Gathers(q)' = Gathers(q)
          /\ Passed'[q] = Passed[q]
    BY <1>1 DEF Here, Passed, Settled, Leads, Gathers
  <1>3. \A c : Waiting(c)' = Waiting(c)
    BY <1>1, <1>2 DEF Waiting
  <1>4. \A q \in Procs : \A r \in Nat : Beyond(q, r) => Beyond(q, r)'
    BY <1>1, <1>2 DEF Beyond
  <1>5. Leader'
    BY <1>1, <1>2 DEF Leader
  <1>6. Skew'
    <2>. SUFFICES ASSUME NEW q \in Procs, NEW r \in Procs
                  PROVE  \/ Passed[q] <= visit'[r]
                         \/ Passed[q] = visit'[r] + 1 /\ Settled(r)'
      BY <1>2 DEF Skew
    <2>1. /\ Passed[q] <= visit[r] \/ (Passed[q] = visit[r] + 1 /\ Settled(r))
          /\ Passed[q] \in Nat
      BY DEF Skew, Passed
    <2>. QED
      BY <1>1, <1>2, <2>1
  <1>7. Gathering'
    <2>1. \A q \in Procs : Gathers(q) => q # p
      BY <1>1 DEF Gathers
    <2>. QED
      BY <1>1, <1>2, <1>3, <2>1 DEF Gathering
  <1>8. Releasing'
    BY <1>1, <1>2, <1>3, <1>4 DEF Releasing
  <1>9. Joining'
    <2>1. ASSUME NEW q \in Procs, pc'[q] \in {"otherLocked", "otherOut", "signalling"}
          PROVE  \E l \in Procs : Gathers(l)' /\ Here(l)' = Here(q)'
      <3>1. PICK l \in Procs : Gathers(l) /\ Here(l) = Here(q)
        BY <1>1, <2>1 DEF Joining
      <3>2. l # p /\ q # p
        BY <1>1, <2>1, <3>1 DEF Gathers
      <3>. QED
        BY <1>2, <3>1, <3>2
    <2>. QED
      BY <2>1 DEF Joining
  <1>10. Awaiting'
    BY <1>1, <1>2, <1>4 DEF Awaiting
  <1>11. Quiet'
    BY <1>1, <1>3 DEF Quiet
  <1>. QED
    BY <1>5, <1>6, <1>7, <1>8, <1>9, <1>10, <1>11

-----------------------------------------------------------------------------
\* Every step keeps the invariant.
LEMMA NextIInv ==
  ASSUME Alternating, IInv, [Next]_vars
  PROVE  IInv'
  <1>1. Typing'
    BY TypingStep DEF IInv
  <1>2. ASSUME NEW p \in Procs, visit[p] < Rounds, Call(p)
        PROVE  IInv'
    BY <1>1, <1>2, InertStep DEF Call, Alike
  <1>3. ASSUME NEW p \in Procs, visit[p] < Rounds, Barrier_sync(p, Here(p))
        PROVE  IInv'
    <2>1. CASE ArriveFirst(p, Here(p))
      BY <1>1, <1>3, <2>1, ArriveFirstStep
    <2>2. CASE ArriveOther(p, Here(p))
      BY <1>1, <1>3, <2>2, ArriveOtherStep
    <2>3. CASE UnlockBarrier(p, Here(p))
      BY <1>1, <2>3, InertStep DEF UnlockBarrier, Alike
    <2>4. CASE UnlockSync(p)
      BY <1>1, <2>4, InertStep DEF UnlockSync, Alike
    <2>5. CASE Collect(p, Here(p))
      BY <1>1, <1>3, <2>5, CollectStep
    <2>6. CASE BeginRelease(p, Here(p))
      BY <1>1, <1>3, <2>6, BeginReleaseStep
    <2>7. CASE Release(p, Here(p))
      BY <1>1, <1>3, <2>7, ReleaseStep
    <2>8. CASE EndRelease(p, Here(p))
      BY <1>1, <1>3, <2>8, EndReleaseStep
    <2>9. CASE SignalArrival(p, Here(p))
      BY <1>1, <1>3, <2>9, SignalArrivalStep
    <2>10. CASE Depart(p, Here(p))
      BY <1>1, <1>3, <2>10, DepartStep
    <2>11. CASE Relock(p)
      BY <1>1, <2>11, InertStep DEF Relock, Alike
    <2>12. CASE Return(p)
      BY <1>1, <1>3, <2>12, ReturnStep
    <2>. QED
      BY <1>3, <2>1, <2>2, <2>3, <2>4, <2>5, <2>6, <2>7, <2>8, <2>9, <2>10,
         <2>11, <2>12 DEF Barrier_sync
  <1>4. CASE UNCHANGED vars
    BY <1>4 DEF vars, IInv, Typing, TypeOK, Leader, Leads, Skew, Passed, Settled, Gathering,
       Gathers, Waiting, Releasing, Beyond, Joining, Awaiting, Quiet, Here
  <1>. QED
    BY <1>2, <1>3, <1>4 DEF Next, Step, Terminated

\* The inductive invariant holds in every reachable state of the specification.
LEMMA InvariantHolds ==
  ASSUME Alternating
  PROVE  Spec => []IInv
  <1>1. Init => IInv
    BY InitIInv
  <1>2. IInv /\ [Next]_vars => IInv'
    BY NextIInv
  <1>. QED
    BY <1>1, <1>2, PTL DEF Spec

-----------------------------------------------------------------------------
\* Types, for every schedule: refcount - 1 never goes below zero, so no loop of
\* barrier_sync starts from a wrapped counter (blts_sync.c:194, :203).
THEOREM TypeCorrect == Spec => []TypeOK
  <1>1. Init => Typing
    BY InitIInv DEF IInv
  <1>2. Typing /\ [Next]_vars => Typing'
    BY TypingStep
  <1>3. Typing => TypeOK
    BY DEF Typing
  <1>. QED
    BY <1>1, <1>2, <1>3, PTL DEF Spec

\* A process that has settled in its round has entered it.
LEMMA SkewSuffices == IInv => NobodyPassesEarly
  <1>. SUFFICES ASSUME IInv, NEW p \in Procs, NEW q \in Procs
                PROVE  Passed[p] <= Entered[q]
    BY DEF NobodyPassesEarly
  <1>. USE DEF IInv, Typing, TypeOK, Passed, Entered
  <1>1. CASE Passed[p] <= visit[q]
    BY <1>1
  <1>2. CASE Passed[p] = visit[q] + 1 /\ Settled(q)
    BY <1>2 DEF Settled
  <1>. QED
    BY <1>1, <1>2 DEF Skew

\* The barrier is one: whoever has passed its r-th barrier, everybody has entered
\* the r-th ("Block until all referrers reach barrier", blts_sync.c:182).
THEOREM BarrierSafe ==
  ASSUME Alternating
  PROVE  Spec => []NobodyPassesEarly
  <1>1. IInv => NobodyPassesEarly
    BY SkewSuffices
  <1>. QED
    BY <1>1, InvariantHolds, PTL

\* Between two rounds no token is left in a semaphore: what the leader posts is
\* what the others take (the loops of blts_sync.c:198-208).
THEOREM TokensBalance ==
  ASSUME Alternating
  PROVE  Spec => []NoTokenLeftOver
  <1>1. IInv => NoTokenLeftOver
    <2>. SUFFICES ASSUME IInv, \A p \in Procs : pc[p] = "idle", NEW b \in Barriers
                  PROVE  ~active[b] /\ arrive[b] = 0 /\ depart[b] = 0
      BY DEF NoTokenLeftOver
    <2>1. ~active[b]
      BY DEF IInv, Leader, Leads
    <2>2. Waiting(b) = {}
      BY DEF Waiting
    <2>. QED
      BY <2>1, <2>2, FS_EmptySet DEF IInv, Quiet
  <1>. QED
    BY <1>1, InvariantHolds, PTL

\* A call is an entry, what a departure token or the end of a release lets through
\* a passage, and the rest does not show.
LEMMA RefinementStep ==
  ASSUME IInv, IInv', [Next]_vars
  PROVE  [Abstract!Next]_(Abstract!vars)
  <1>. USE DEF IInv, Typing, TypeOK
  <1>. DEFINE Same(p) == Entered'[p] = Entered[p] /\ Passed'[p] = Passed[p]
  <1>1. (\A p \in Procs : Same(p)) => UNCHANGED Abstract!vars
    <2>1. (\A p \in Procs : Entered'[p] = Entered[p]) => Entered' = Entered
      BY DEF Entered
    <2>2. (\A p \in Procs : Passed'[p] = Passed[p]) => Passed' = Passed
      BY DEF Passed
    <2>. QED
      BY <2>1, <2>2 DEF Abstract!vars
  <1>2. ASSUME NEW p \in Procs, visit[p] < Rounds, Call(p)
        PROVE  Abstract!Enter(p)
    <2>1. /\ Entered[p] = visit[p] /\ Passed[p] = visit[p] /\ Entered'[p] = visit[p] + 1
          /\ Passed'[p] = Passed[p] /\ \A q \in Procs : q # p => Same(q)
      BY <1>2 DEF Call, Goto, Entered, Passed
    <2>2. Entered' = [Entered EXCEPT ![p] = @ + 1]
      BY <2>1 DEF Entered
    <2>3. Passed' = Passed
      BY <2>1 DEF Passed
    <2>. QED
      BY <1>2, <2>1, <2>2, <2>3 DEF Abstract!Enter
  <1>3. ASSUME NEW p \in Procs, pc[p] \in {"releasing", "awaiting"},
               pc' = [pc EXCEPT ![p] = "departing"], visit' = visit
        PROVE  Abstract!Pass(p)
    <2>1. /\ Entered[p] = visit[p] + 1 /\ Passed[p] = visit[p] /\ Passed'[p] = visit[p] + 1
          /\ Entered'[p] = Entered[p] /\ \A q \in Procs : q # p => Same(q)
      BY <1>3 DEF Entered, Passed
    <2>2. Passed' = [Passed EXCEPT ![p] = @ + 1]
      BY <2>1 DEF Passed
    <2>3. Entered' = Entered
      BY <2>1 DEF Entered
    <2>4. NobodyPassesEarly'
      BY SkewSuffices, PTL
    <2>5. \A q \in Procs : Entered[p] <= Entered[q]
      BY <2>1, <2>3, <2>4 DEF NobodyPassesEarly
    <2>. QED
      BY <2>1, <2>2, <2>3, <2>5 DEF Abstract!Pass
  <1>4. ASSUME NEW p \in Procs, visit[p] < Rounds, Barrier_sync(p, Here(p))
        PROVE  Abstract!Next \/ \A q \in Procs : Same(q)
    <2>1. CASE EndRelease(p, Here(p)) \/ Depart(p, Here(p))
      BY <1>3, <2>1 DEF EndRelease, Depart, Goto, Abstract!Next
    <2>2. CASE Return(p)
      BY <2>2 DEF Return, Goto, Entered, Passed
    <2>3. CASE ArriveFirst(p, Here(p)) \/ ArriveOther(p, Here(p)) \/ SignalArrival(p, Here(p))
      BY <2>3 DEF ArriveFirst, ArriveOther, SignalArrival, Goto, Entered, Passed
    <2>4. CASE UnlockBarrier(p, Here(p)) \/ UnlockSync(p) \/ Relock(p) \/ BeginRelease(p, Here(p))
      BY <2>4 DEF UnlockBarrier, UnlockSync, Relock, BeginRelease, Goto, Entered, Passed
    <2>5. CASE Collect(p, Here(p)) \/ Release(p, Here(p))
      BY <2>5 DEF Collect, Release, Entered, Passed
    <2>. QED
      BY <1>4, <2>1, <2>2, <2>3, <2>4, <2>5 DEF Barrier_sync
  <1>5. CASE UNCHANGED vars
    BY <1>1, <1>5 DEF vars, Entered, Passed
  <1>. HIDE DEF Same
  <1>. QED
    BY <1>1, <1>2, <1>4, <1>5 DEF Next, Step, Terminated, Abstract!Next

\* barrier_sync implements the abstract barrier: each of its steps is an entry, a
\* passage that the abstract barrier allows, or invisible.
THEOREM RefinesBarrier ==
  ASSUME Alternating
  PROVE  Spec => Abstract!Init /\ [][Abstract!Next]_(Abstract!vars)
  <1>1. Init => Abstract!Init
    BY DEF Init, InitWith, Abstract!Init, Entered, Passed
  <1>2. ASSUME IInv, IInv', [Next]_vars
        PROVE  [Abstract!Next]_(Abstract!vars)
    BY <1>2, RefinementStep
  <1>. QED
    BY <1>1, <1>2, InvariantHolds, PTL DEF Spec

-----------------------------------------------------------------------------
SyncHolders == {p \in Procs : HoldsSync(p)}
MutexHolders(b) == {p \in Procs : HoldsMutex(p) /\ Here(p) = b}

\* The holders are finitely many, so they can be counted.
LEMMA HoldersFinite ==
  ASSUME NEW b
  PROVE  /\ IsFiniteSet(SyncHolders) /\ Cardinality(SyncHolders) \in Nat
         /\ IsFiniteSet(MutexHolders(b)) /\ Cardinality(MutexHolders(b)) \in Nat
  <1>1. SyncHolders \subseteq Procs /\ MutexHolders(b) \subseteq Procs
    BY DEF SyncHolders, MutexHolders
  <1>. QED
    BY <1>1, ProcsAssumption, FS_Subset, FS_CardinalityType

\* sync_mutex: Call and Relock take it, UnlockSync and Return give it back.
LEMMA SyncHoldersStep ==
  ASSUME Typing, NEW p \in Procs, visit[p] < Rounds, Call(p) \/ Barrier_sync(p, Here(p)),
         syncMutex + Cardinality(SyncHolders) = 1
  PROVE  syncMutex' + Cardinality(SyncHolders') = 1
  <1>0. pc \in [Procs -> Labels] /\ syncMutex \in Nat
    BY DEF Typing, TypeOK
  <1>1. CASE Call(p) \/ Relock(p)
    <2>1. /\ p \notin SyncHolders /\ SyncHolders' = SyncHolders \cup {p}
          /\ syncMutex' = syncMutex - 1
      BY <1>0, <1>1 DEF Call, Relock, Goto, SyncHolders, HoldsSync
    <2>2. Cardinality(SyncHolders') = Cardinality(SyncHolders) + 1
      BY <2>1, HoldersFinite, FS_AddElement
    <2>. QED
      BY <1>0, <2>1, <2>2, HoldersFinite
  <1>2. CASE UnlockSync(p) \/ Return(p)
    <2>1. /\ p \in SyncHolders /\ SyncHolders' = SyncHolders \ {p}
          /\ syncMutex' = syncMutex + 1
      BY <1>0, <1>2 DEF UnlockSync, Return, Goto, SyncHolders, HoldsSync
    <2>2. Cardinality(SyncHolders') = Cardinality(SyncHolders) - 1
      BY <2>1, HoldersFinite, FS_RemoveElement
    <2>. QED
      BY <1>0, <2>1, <2>2, HoldersFinite
  <1>3. CASE ~(Call(p) \/ Relock(p) \/ UnlockSync(p) \/ Return(p))
    <2>1. SyncHolders' = SyncHolders /\ syncMutex' = syncMutex
      BY <1>0, <1>3 DEF Barrier_sync, Goto, SyncHolders, HoldsSync, ArriveFirst, ArriveOther,
         UnlockBarrier, Collect, BeginRelease, Release, EndRelease, SignalArrival, Depart
    <2>. QED
      BY <2>1
  <1>. QED
    BY <1>1, <1>2, <1>3

\* A barrier's mutex: taken to arrive and to release, given back after either.  The
\* mutexes of the other barriers do not come into it.
LEMMA MutexHoldersStep ==
  ASSUME Typing, NEW p \in Procs, visit[p] < Rounds, Call(p) \/ Barrier_sync(p, Here(p)),
         NEW b \in Barriers, mutex[b] + Cardinality(MutexHolders(b)) = 1
  PROVE  mutex'[b] + Cardinality(MutexHolders(b)') = 1
  <1>0. pc \in [Procs -> Labels] /\ mutex \in [Barriers -> Nat] /\ mutex[b] \in Nat
    BY DEF Typing, TypeOK
  <1>1. CASE /\ ArriveFirst(p, Here(p)) \/ ArriveOther(p, Here(p)) \/ BeginRelease(p, Here(p))
             /\ Here(p) = b
    <2>1. /\ p \notin MutexHolders(b) /\ MutexHolders(b)' = MutexHolders(b) \cup {p}
          /\ mutex'[b] = mutex[b] - 1
      BY <1>0, <1>1 DEF ArriveFirst, ArriveOther, BeginRelease, Goto, Dec, MutexHolders, HoldsMutex,
         Here
    <2>2. Cardinality(MutexHolders(b)') = Cardinality(MutexHolders(b)) + 1
      BY <2>1, HoldersFinite, FS_AddElement
    <2>. QED
      BY <1>0, <2>1, <2>2, HoldersFinite
  <1>2. CASE (UnlockBarrier(p, Here(p)) \/ EndRelease(p, Here(p))) /\ Here(p) = b
    <2>1. /\ p \in MutexHolders(b) /\ MutexHolders(b)' = MutexHolders(b) \ {p}
          /\ mutex'[b] = mutex[b] + 1
      BY <1>0, <1>2 DEF UnlockBarrier, EndRelease, Goto, Inc, MutexHolders, HoldsMutex, Here
    <2>2. Cardinality(MutexHolders(b)') = Cardinality(MutexHolders(b)) - 1
      BY <2>1, HoldersFinite, FS_RemoveElement
    <2>. QED
      BY <1>0, <2>1, <2>2, HoldersFinite
  <1>3. CASE /\ ArriveFirst(p, Here(p)) \/ ArriveOther(p, Here(p)) \/ BeginRelease(p, Here(p))
                  \/ UnlockBarrier(p, Here(p)) \/ EndRelease(p, Here(p))
             /\ Here(p) # b
    <2>1. MutexHolders(b)' = MutexHolders(b) /\ mutex'[b] = mutex[b]
      BY <1>0, <1>3 DEF ArriveFirst, ArriveOther, BeginRelease, UnlockBarrier, EndRelease, Goto,
         Dec, Inc, MutexHolders, HoldsMutex, Here
    <2>. QED
      BY <2>1
  <1>4. CASE ~(ArriveFirst(p, Here(p)) \/ ArriveOther(p, Here(p)) \/ BeginRelease(p, Here(p))
                 \/ UnlockBarrier(p, Here(p)) \/ EndRelease(p, Here(p)))
    <2>1. /\ \A q \in Procs : HoldsMutex(q)' <=> HoldsMutex(q)
          /\ \A q \in Procs : HoldsMutex(q) => visit'[q] = visit[q]
          /\ mutex' = mutex
      BY <1>0, <1>4 DEF Barrier_sync, Goto, HoldsMutex, Typing, TypeOK, Call, UnlockSync, Collect,
         Release, SignalArrival, Depart, Relock, Return
    <2>2. MutexHolders(b)' = MutexHolders(b)
      BY <2>1 DEF MutexHolders, Here
    <2>. QED
      BY <2>1, <2>2
  <1>. QED
    BY <1>1, <1>2, <1>3, <1>4

\* Each of the two mutexes has one holder or the value 1, although barrier_sync gives
\* back and retakes the lock of its caller (blts_sync.c:186-217).
THEOREM MutexesSafe ==
  ASSUME Alternating
  PROVE  Spec => []MutexInv
  <1>. USE DEF SyncHolders, MutexHolders
  <1>1. ASSUME Init
        PROVE  MutexInv
    <2>1. SyncHolders = {} /\ \A b \in Barriers : MutexHolders(b) = {}
      BY <1>1 DEF Init, InitWith, HoldsSync, HoldsMutex
    <2>2. syncMutex = 1 /\ \A b \in Barriers : mutex[b] = 1
      BY <1>1 DEF Init, InitWith
    <2>3. syncMutex + Cardinality(SyncHolders) = 1
      BY <2>1, <2>2, FS_EmptySet
    <2>4. ASSUME NEW b \in Barriers
          PROVE  mutex[b] + Cardinality(MutexHolders(b)) = 1
      BY <2>1, <2>2, FS_EmptySet
    <2>. QED
      BY <2>3, <2>4 DEF MutexInv
  <1>2. ASSUME IInv, MutexInv, [Next]_vars
        PROVE  MutexInv'
    <2>1. ASSUME NEW p \in Procs, Step(p)
          PROVE  MutexInv'
      <3>1. /\ Typing /\ visit[p] < Rounds
            /\ Call(p) \/ Barrier_sync(p, Here(p))
        BY <1>2, <2>1 DEF IInv, Step
      <3>. HIDE DEF SyncHolders, MutexHolders
      <3>2. /\ syncMutex + Cardinality(SyncHolders) = 1
            /\ \A b \in Barriers : mutex[b] + Cardinality(MutexHolders(b)) = 1
        BY <1>2 DEF MutexInv, SyncHolders, MutexHolders
      <3>3. syncMutex' + Cardinality(SyncHolders') = 1
        BY <3>1, <3>2, SyncHoldersStep
      <3>4. \A b \in Barriers : mutex'[b] + Cardinality(MutexHolders(b)') = 1
        BY <3>1, <3>2, MutexHoldersStep
      <3>. QED
        BY <3>3, <3>4 DEF MutexInv, SyncHolders, MutexHolders
    <2>2. CASE UNCHANGED vars
      <3>1. /\ SyncHolders' = SyncHolders /\ UNCHANGED <<syncMutex, mutex>>
            /\ \A b \in Barriers : MutexHolders(b)' = MutexHolders(b)
        BY <2>2 DEF vars, HoldsSync, HoldsMutex, Here
      <3>. QED
        BY <1>2, <3>1 DEF MutexInv
    <2>. QED
      BY <1>2, <2>1, <2>2 DEF Next, Terminated
  <1>. QED
    BY <1>1, <1>2, InvariantHolds, PTL DEF Spec

\* A barrier is active exactly while one process leads it (blts_sync.c:189-213).
THEOREM OneLeader ==
  ASSUME Alternating
  PROVE  Spec => []LeaderInv
  <1>1. ASSUME IInv
        PROVE  LeaderInv
    <2>. SUFFICES ASSUME NEW b \in Barriers
                  PROVE  Cardinality({p \in Procs : Leads(p) /\ Here(p) = b})
                           = (IF active[b] THEN 1 ELSE 0)
      BY DEF LeaderInv
    <2>1. CASE active[b]
      <3>1. PICK l \in Procs : Leads(l) /\ Here(l) = b
        BY <1>1, <2>1 DEF IInv, Leader
      <3>2. {p \in Procs : Leads(p) /\ Here(p) = b} = {l}
        BY <1>1, <3>1 DEF IInv, Leader
      <3>. QED
        BY <2>1, <3>2, FS_Singleton
    <2>2. CASE ~active[b]
      <3>1. {p \in Procs : Leads(p) /\ Here(p) = b} = {}
        BY <1>1, <2>2 DEF IInv, Leader
      <3>. QED
        BY <2>2, <3>1, FS_EmptySet
    <2>. QED
      BY <2>1, <2>2
  <1>. QED
    BY <1>1, InvariantHolds, PTL
=============================================================================
