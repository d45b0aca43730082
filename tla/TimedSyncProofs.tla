---------------------------- MODULE TimedSyncProofs ----------------------------
(***************************************************************************)
(* Proofs about TimedSync, for any finite set of processes that may give   *)
(* up their timed calls at any moment, as long as nobody calls the same    *)
(* barrier twice and everybody is registered.                              *)
(*                                                                         *)
(* The argument: an arrival token is posted by a process that does not     *)
(* come back to the barrier, so a leader, even one of several, that has    *)
(* collected all it waits for knows that all the others are past that      *)
(* point (Collected); whoever drains the semaphores only takes tokens      *)
(* away.                                                                   *)
(*                                                                         *)
(* At a barrier that nobody calls with a deadline nothing is taken away    *)
(* either, so there the sums are exact (Order) and whoever has come leaves *)
(* again, whatever happens at the other barriers.                          *)
(*                                                                         *)
(* The first lock of a call is free when a process asks for it, so only an *)
(* invalid deadline makes it fail (OnlyRejectionFails); its owner then has *)
(* sync_mutex and waits for it.                                            *)
(***************************************************************************)
EXTENDS TimedSync, FiniteSetTheorems, TLAPS

N == Cardinality(Procs)

\* No process calls a barrier twice, and all are counted at each.
Once == \A p \in Procs : \A j, k \in 1..Rounds(p) :
          Program[p][j].bar = Program[p][k].bar => j = k
Registered == \A b \in Barriers : Users[b] >= N

\* All call the same barriers in the same order.
Common == \A p, q \in Procs :
            /\ Rounds(p) = Rounds(q)
            /\ \A k \in 1..Rounds(p) : Program[p][k].bar = Program[q][k].bar

-----------------------------------------------------------------------------
At(p, b) == InProgram(p) /\ Here(p) = b
Been(p, b) == \E k \in 1..visit[p] : Program[p][k].bar = b

\* Who has been to b, or is there and will not signal its arrival any more.
Before == {"idle", "arriving", "firstLocked", "firstOut", "collecting", "releasing",
           "otherLocked", "otherOut", "signalling"}
Past(b) == {p \in Procs : Been(p, b) \/ (At(p, b) /\ pc[p] \notin Before)}

\* Who has been to b or is there.
Come(p, b) == Been(p, b) \/ (At(p, b) /\ pc[p] # "idle")
Complete(b) == \A p \in Procs : Come(p, b)

Typing == /\ syncMutex \in Nat
          /\ mutex \in [Barriers -> Nat]
          /\ refcount = Users
          /\ active \in [Barriers -> BOOLEAN]
          /\ arrive \in [Barriers -> Nat]
          /\ depart \in [Barriers -> Nat]
          /\ pc \in [Procs -> Labels \cup OutLabels]
          /\ i \in [Procs -> Nat]
          /\ visit \in [Procs -> Nat]
          /\ failed \in [Procs -> BOOLEAN]
          /\ rejected \subseteq Procs
          /\ \A p \in Procs : visit[p] <= Rounds(p) /\ (pc[p] # "idle" => InProgram(p))

\* Arrivals in the semaphore, and those a leader has collected, were signalled.
Gathers(p) == pc[p] \in {"firstLocked", "firstOut", "collecting"}
Collected ==
  /\ \A b \in Barriers : arrive[b] <= Cardinality(Past(b))
  /\ \A p \in Procs : Gathers(p) =>
       arrive[Here(p)] + (Users[Here(p)] - 1 - i[p]) <= Cardinality(Past(Here(p)))

\* A leader lets the others go when all of them are past their signal.
Released == \A p \in Procs : pc[p] = "releasing" =>
              \A q \in Procs \ {p} : q \in Past(Here(p))

\* A departure token, and a passage, mean that everybody has come.
Tokens == \A b \in Barriers : depart[b] > 0 => Complete(b)
Passing == \A p \in Procs : Passes(p) => Complete(Here(p))

\* A call that has come to out has failed.
Failing == \A p \in Procs : pc[p] \in OutLabels => failed[p]

IInv == Typing /\ Collected /\ Released /\ Tokens /\ Passing /\ Failing

-----------------------------------------------------------------------------
\* The number of processes, and what a call is about.
LEMMA NPositive == N \in Nat /\ N >= 1
  <1>1. N \in Nat
    BY ProcsAssumption, FS_CardinalityType DEF N
  <1>2. N # 0
    BY ProcsAssumption, FS_EmptySet DEF N
  <1>. QED
    BY <1>1, <1>2

LEMMA HereTyped ==
  ASSUME Typing, NEW p \in Procs, InProgram(p)
  PROVE  Here(p) \in Barriers /\ Timed(p) \in BOOLEAN /\ visit[p] + 1 \in 1..Rounds(p)
  <1>. DEFINE Calls == [bar : Barriers, timed : BOOLEAN]
  <1>1. Program[p] \in Seq(Calls)
    BY ProgramAssumption
  <1>2. visit[p] + 1 \in 1..Len(Program[p])
    BY <1>1 DEF Typing, InProgram, Rounds
  <1>. HIDE DEF Calls
  <1>3. Program[p][visit[p] + 1] \in Calls
    BY <1>1, <1>2
  <1>. QED
    BY <1>2, <1>3 DEF Calls, Here, Timed, Rounds

LEMMA UsersTyped == ASSUME NEW b \in Barriers PROVE Users[b] \in Nat /\ Users[b] >= 1
  BY ProgramAssumption

LEMMA RoundsTyped == ASSUME NEW p \in Procs PROVE Rounds(p) \in Nat
  BY ProgramAssumption DEF Rounds

\* All that a step of p does to the places of processes: p returns, or goes on in its
\* call and not back before its signal; the others stay.
Elsewhere(p) == \A q \in Procs \ {p} :
  pc'[q] = pc[q] /\ visit'[q] = visit[q] /\ i'[q] = i[q] /\ failed'[q] = failed[q]
Returns(p) == pc[p] = "returning" /\ pc'[p] = "idle" /\ visit'[p] = visit[p] + 1
GoesOn(p) == /\ visit'[p] = visit[p]
             /\ pc[p] # "returning" /\ pc'[p] # "idle"
             /\ pc[p] \notin Before => pc'[p] \notin Before

LEMMA Moves ==
  ASSUME Typing, NEW p \in Procs, Step(p)
  PROVE  InProgram(p) /\ Elsewhere(p) /\ (Returns(p) \/ GoesOn(p))
  <1>. USE DEF Typing, Elsewhere, Returns, GoesOn, Before, Goto
  <1>0. InProgram(p)
    BY DEF Step
  <1>1. CASE Call(p) /\ UNCHANGED <<failed, rejected>>
    BY <1>0, <1>1 DEF Call
  <1>2. CASE pc[p] # "returning" /\ Barrier_sync(p, Here(p)) /\ UNCHANGED <<failed, rejected>>
    BY <1>0, <1>2 DEF Barrier_sync, ArriveFirst, ArriveOther, UnlockBarrier, UnlockSync, Collect,
       BeginRelease, Release, EndRelease, SignalArrival, Depart, Relock, Return
  <1>3. CASE Barrier_sync_to(p, Here(p))
    BY <1>0, <1>3 DEF Barrier_sync_to, FailToArrive, FailToCollect, FailToDepart, GiveUp,
       RelockFailed, DrainArrive, ArriveDrained, DrainDepart, DepartDrained, Reset
  <1>4. CASE ReturnResult(p)
    BY <1>0, <1>4 DEF ReturnResult, Return
  <1>. QED
    BY <1>1, <1>2, <1>3, <1>4 DEF Step

-----------------------------------------------------------------------------
\* Nothing is there at the beginning.
LEMMA InitIInv == Init => IInv
  <1>. SUFFICES ASSUME Init
                PROVE  IInv
    OBVIOUS
  <1>. USE DEF Init, InitWith
  <1>1. \A p \in Procs : visit[p] = 0 /\ pc[p] = "idle" /\ ~failed[p]
    OBVIOUS
  <1>2. Typing
    BY <1>1, RoundsTyped, ProgramAssumption DEF Typing, Labels
  <1>3. ASSUME NEW b \in Barriers
        PROVE  arrive[b] <= Cardinality(Past(b))
    <2>1. Past(b) \subseteq Procs
      BY DEF Past
    <2>2. Cardinality(Past(b)) \in Nat
      BY <2>1, ProcsAssumption, FS_Subset, FS_CardinalityType
    <2>. QED
      BY <2>2
  <1>4. Collected
    BY <1>1, <1>3 DEF Collected, Gathers
  <1>5. Released /\ Tokens /\ Passing /\ Failing
    BY <1>1 DEF Released, Tokens, Passing, Passes, Failing, OutLabels
  <1>. QED
    BY <1>2, <1>4, <1>5 DEF IInv

LEMMA TypingStep ==
  ASSUME Typing, NEW p \in Procs, Step(p)
  PROVE  Typing'
  <1>. USE DEF Typing
  <1>1. /\ InProgram(p) /\ Here(p) \in Barriers /\ Timed(p) \in BOOLEAN
        /\ visit[p] + 1 <= Rounds(p)
    BY HereTyped DEF Step
  <1>2. \A b \in Barriers : Users[b] \in Nat /\ Users[b] >= 1
    BY UsersTyped
  <1>3. \A q \in Procs : visit'[q] <= Rounds(q) /\ (pc'[q] # "idle" => InProgram(q)')
    BY <1>1, Moves DEF Elsewhere, Returns, GoesOn, InProgram
  <1>. DEFINE Rest == /\ syncMutex' \in Nat
                      /\ mutex' \in [Barriers -> Nat]
                      /\ refcount' = Users
                      /\ active' \in [Barriers -> BOOLEAN]
                      /\ arrive' \in [Barriers -> Nat]
                      /\ depart' \in [Barriers -> Nat]
                      /\ pc' \in [Procs -> Labels \cup OutLabels]
                      /\ i' \in [Procs -> Nat]
                      /\ visit' \in [Procs -> Nat]
                      /\ failed' \in [Procs -> BOOLEAN]
                      /\ rejected' \subseteq Procs
  <1>4. CASE Call(p) /\ UNCHANGED <<failed, rejected>>
    <2>1. Rest
      BY <1>4 DEF Call, Goto, Labels
    <2>. QED
      BY <1>3, <2>1
  <1>5. CASE Barrier_sync(p, Here(p)) /\ pc[p] # "returning" /\ UNCHANGED <<failed, rejected>>
    <2>. USE DEF Goto, Dec, Inc, Labels
    <2>1. CASE ArriveFirst(p, Here(p))
      BY <1>1, <1>2, <1>3, <1>5, <2>1 DEF ArriveFirst
    <2>2. CASE ArriveOther(p, Here(p)) \/ UnlockSync(p)
      BY <1>1, <1>3, <1>5, <2>2 DEF ArriveOther, UnlockSync
    <2>3. CASE UnlockBarrier(p, Here(p))
      BY <1>1, <1>3, <1>5, <2>3 DEF UnlockBarrier
    <2>4. CASE Collect(p, Here(p)) \/ BeginRelease(p, Here(p))
      BY <1>1, <1>2, <1>3, <1>5, <2>4 DEF Collect, BeginRelease
    <2>5. CASE Release(p, Here(p))
      BY <1>1, <1>3, <1>5, <2>5 DEF Release
    <2>6. CASE EndRelease(p, Here(p))
      BY <1>1, <1>3, <1>5, <2>6 DEF EndRelease
    <2>7. CASE SignalArrival(p, Here(p))
      BY <1>1, <1>3, <1>5, <2>7 DEF SignalArrival
    <2>8. CASE Depart(p, Here(p)) \/ Relock(p)
      BY <1>1, <1>3, <1>5, <2>8 DEF Depart, Relock
    <2>. QED
      BY <1>5, <2>1, <2>2, <2>3, <2>4, <2>5, <2>6, <2>7, <2>8 DEF Barrier_sync, Return
  <1>6. CASE Barrier_sync_to(p, Here(p))
    <2>. USE DEF Goto, Dec, OutLabels, Labels
    <2>1. CASE FailToArrive(p, Here(p)) \/ FailToCollect(p, Here(p)) \/ FailToDepart(p, Here(p))
      BY <1>3, <2>1 DEF FailToArrive, FailToCollect, FailToDepart, GiveUp
    <2>2. CASE RelockFailed(p) \/ ArriveDrained(p, Here(p)) \/ DepartDrained(p, Here(p))
      BY <1>3, <2>2 DEF RelockFailed, ArriveDrained, DepartDrained
    <2>4. CASE Reset(p, Here(p))
      BY <1>1, <1>3, <2>4 DEF Reset
    <2>3. CASE DrainArrive(p, Here(p)) \/ DrainDepart(p, Here(p))
      BY <1>1, <1>3, <2>3 DEF DrainArrive, DrainDepart
    <2>. QED
      BY <1>6, <2>1, <2>2, <2>3, <2>4 DEF Barrier_sync_to
  <1>7. CASE ReturnResult(p)
    <2>1. Rest
      BY <1>7 DEF ReturnResult, Return, Goto, Labels
    <2>. QED
      BY <1>3, <2>1
  <1>. QED
    BY <1>4, <1>5, <1>6, <1>7 DEF Step

-----------------------------------------------------------------------------
\* Nobody is at a barrier it has been to.
LEMMA NotAgain ==
  ASSUME Typing, Once, NEW p \in Procs, InProgram(p)
  PROVE  ~Been(p, Here(p))
  <1>1. visit[p] \in Nat /\ visit[p] + 1 \in 1..Rounds(p) /\ Rounds(p) \in Nat
    BY HereTyped, RoundsTyped DEF Typing
  <1>. QED
    BY <1>1 DEF Once, Been, Here

\* Who is past a barrier, or has come there, remains so.
LEMMA PastGrows ==
  ASSUME Typing, NEW p \in Procs, Step(p), NEW b \in Barriers
  PROVE  /\ Past(b) \subseteq Past(b)'
         /\ \A q \in Procs : Come(q, b) => Come(q, b)'
  <1>1. InProgram(p) /\ Elsewhere(p) /\ (Returns(p) \/ GoesOn(p))
    BY Moves
  <1>2. \A q \in Procs : visit[q] \in Nat
    BY DEF Typing
  <1>3. ASSUME NEW q \in Procs, q # p
        PROVE  /\ Been(q, b)' <=> Been(q, b)
               /\ At(q, b)' <=> At(q, b)
               /\ pc'[q] = pc[q]
    BY <1>1, <1>3 DEF Elsewhere, Been, At, InProgram, Here
  <1>4. CASE Returns(p)
    <2>1. Been(p, b) \/ At(p, b) => Been(p, b)'
      BY <1>2, <1>4 DEF Returns, Been, At, Here
    <2>. QED
      BY <1>3, <2>1 DEF Past, Come
  <1>5. CASE GoesOn(p)
    <2>1. /\ Been(p, b)' <=> Been(p, b)
          /\ At(p, b)' <=> At(p, b)
          /\ pc[p] \notin Before => pc'[p] \notin Before
          /\ pc'[p] # "idle"
      BY <1>5 DEF GoesOn, Been, At, InProgram, Here
    <2>. QED
      BY <1>3, <2>1 DEF Past, Come
  <1>. QED
    BY <1>1, <1>4, <1>5

LEMMA PastFinite ==
  ASSUME NEW b
  PROVE  /\ IsFiniteSet(Past(b)) /\ Cardinality(Past(b)) \in Nat
         /\ IsFiniteSet(Past(b)') /\ Cardinality(Past(b)') \in Nat
  <1>1. Past(b) \subseteq Procs /\ Past(b)' \subseteq Procs
    BY DEF Past
  <1>. QED
    BY <1>1, ProcsAssumption, FS_Subset, FS_CardinalityType

LEMMA PastCounts ==
  ASSUME Typing, NEW p \in Procs, Step(p), NEW b \in Barriers
  PROVE  Cardinality(Past(b)) <= Cardinality(Past(b)')
  BY PastGrows, PastFinite, FS_Subset

\* Who signals its arrival is past from now on, and was not before.
LEMMA SignalCounts ==
  ASSUME Typing, Once, NEW p \in Procs, Step(p), NEW b \in Barriers, At(p, b),
         SignalArrival(p, b)
  PROVE  Cardinality(Past(b)) + 1 <= Cardinality(Past(b)')
  <1>1. InProgram(p) /\ Here(p) = b /\ ~Been(p, b)
    BY NotAgain DEF At
  <1>2. p \notin Past(b)
    BY <1>1 DEF SignalArrival, Goto, Past, Before
  <1>3. visit' = visit /\ pc'[p] = "awaiting"
    BY DEF SignalArrival, Goto, Typing
  <1>4. p \in Past(b)'
    BY <1>1, <1>3 DEF Past, At, InProgram, Here, Before
  <1>5. Past(b) \cup {p} \subseteq Past(b)'
    BY <1>1, <1>4, PastGrows
  <1>6. Cardinality(Past(b) \cup {p}) = Cardinality(Past(b)) + 1
    BY <1>2, PastFinite, FS_AddElement
  <1>7. Cardinality(Past(b) \cup {p}) <= Cardinality(Past(b)')
    BY <1>5, PastFinite, FS_Subset
  <1>. QED
    BY <1>6, <1>7

\* Arrival tokens are posted by who signals, and only taken by everybody else.
LEMMA ArriveMoves ==
  ASSUME Typing, NEW p \in Procs, Step(p), NEW b \in Barriers
  PROVE  /\ arrive[b] \in Nat /\ arrive'[b] \in Nat
         /\ \/ arrive'[b] <= arrive[b]
            \/ At(p, b) /\ SignalArrival(p, b) /\ arrive'[b] = arrive[b] + 1
  <1>1. /\ InProgram(p) /\ Here(p) \in Barriers
        /\ arrive \in [Barriers -> Nat] /\ arrive' \in [Barriers -> Nat]
    BY HereTyped, TypingStep DEF Step, Typing
  <1>2. CASE SignalArrival(p, Here(p))
    <2>1. arrive' = [arrive EXCEPT ![Here(p)] = @ + 1]
      BY <1>2 DEF SignalArrival, Inc
    <2>2. CASE b = Here(p)
      <3>1. At(p, b) /\ SignalArrival(p, b)
        BY <1>1, <1>2, <2>2 DEF At, SignalArrival, Inc
      <3>. QED
        BY <1>1, <2>1, <2>2, <3>1
    <2>3. CASE b # Here(p)
      BY <1>1, <2>1, <2>3
    <2>. QED
      BY <2>2, <2>3
  <1>3. CASE \/ Collect(p, Here(p)) \/ DrainArrive(p, Here(p))
    <2>1. arrive' = [arrive EXCEPT ![Here(p)] = @ - 1]
      BY <1>3 DEF Collect, DrainArrive, Dec
    <2>. QED
      BY <1>1, <2>1
  <1>4. CASE ~(SignalArrival(p, Here(p)) \/ Collect(p, Here(p)) \/ DrainArrive(p, Here(p)))
    <2>1. CASE Call(p) \/ ReturnResult(p)
      BY <1>1, <2>1 DEF Call, ReturnResult, Return
    <2>2. CASE Barrier_sync(p, Here(p))
      BY <1>1, <1>4, <2>2 DEF Barrier_sync, ArriveFirst, ArriveOther, UnlockBarrier, UnlockSync,
         BeginRelease, Release, EndRelease, Depart, Relock, Return
    <2>3. CASE Barrier_sync_to(p, Here(p))
      BY <1>1, <1>4, <2>3 DEF Barrier_sync_to, FailToArrive, FailToCollect, FailToDepart, GiveUp,
         RelockFailed, ArriveDrained, DrainDepart, DepartDrained, Reset
    <2>. QED
      BY <2>1, <2>2, <2>3 DEF Step
  <1>. QED
    BY <1>2, <1>3, <1>4

\* What p has done when it gathers after a step: it has begun, with nothing collected,
\* or collected one, or neither.
LEMMA GatherMoves ==
  ASSUME Typing, NEW p \in Procs, Step(p), Gathers(p)'
  PROVE  \/ ArriveFirst(p, Here(p))
         \/ Collect(p, Here(p))
         \/ Gathers(p) /\ (UnlockBarrier(p, Here(p)) \/ UnlockSync(p))
  <1>. USE DEF Typing, Gathers, Goto
  <1>1. CASE Call(p) \/ ReturnResult(p)
    BY <1>1 DEF Call, ReturnResult, Return
  <1>2. CASE Barrier_sync(p, Here(p))
    BY <1>2 DEF Barrier_sync, ArriveOther, UnlockBarrier, UnlockSync,
       BeginRelease, Release, EndRelease, SignalArrival, Depart, Relock, Return
  <1>3. CASE Barrier_sync_to(p, Here(p))
    BY <1>3 DEF Barrier_sync_to, FailToArrive, FailToCollect, FailToDepart, GiveUp,
       RelockFailed, DrainArrive, ArriveDrained, DrainDepart, DepartDrained, Reset
  <1>. QED
    BY <1>1, <1>2, <1>3 DEF Step

LEMMA CollectedStep ==
  ASSUME Typing, Once, Collected, NEW p \in Procs, Step(p)
  PROVE  Collected'
  <1>0. InProgram(p) /\ Elsewhere(p) /\ (Returns(p) \/ GoesOn(p)) /\ Here(p) \in Barriers
    BY Moves, HereTyped
  <1>1. ASSUME NEW b \in Barriers, NEW k \in Int, arrive[b] + k <= Cardinality(Past(b))
        PROVE  arrive'[b] + k <= Cardinality(Past(b)')
    <2>1. CASE arrive'[b] <= arrive[b]
      BY <1>1, <2>1, ArriveMoves, PastCounts, PastFinite
    <2>2. CASE At(p, b) /\ SignalArrival(p, b) /\ arrive'[b] = arrive[b] + 1
      BY <1>1, <2>2, ArriveMoves, SignalCounts, PastFinite
    <2>. QED
      BY <2>1, <2>2, ArriveMoves
  <1>2. ASSUME NEW b \in Barriers
        PROVE  arrive'[b] <= Cardinality(Past(b)')
    <2>1. arrive[b] + 0 <= Cardinality(Past(b))
      BY ArriveMoves, PastFinite DEF Collected
    <2>2. arrive'[b] + 0 <= Cardinality(Past(b)')
      BY <1>1, <2>1
    <2>. QED
      BY <2>2, ArriveMoves
  <1>3. ASSUME NEW q \in Procs, Gathers(q)', q # p
        PROVE  arrive'[Here(q)'] + (Users[Here(q)'] - 1 - i'[q]) <= Cardinality(Past(Here(q))')
    <2>1. Gathers(q) /\ Here(q)' = Here(q) /\ i'[q] = i[q] /\ pc[q] # "idle"
      BY <1>0, <1>3 DEF Elsewhere, Gathers, Here
    <2>2. Here(q) \in Barriers /\ Users[Here(q)] \in Nat /\ i[q] \in Nat
      BY <2>1, HereTyped, UsersTyped DEF Typing
    <2>3. PICK b \in Barriers : b = Here(q)
      BY <2>2
    <2>4. arrive[b] + (Users[b] - 1 - i[q]) <= Cardinality(Past(b))
      BY <2>1, <2>3 DEF Collected
    <2>5. arrive'[b] + (Users[b] - 1 - i[q]) <= Cardinality(Past(b)')
      BY <1>1, <2>2, <2>3, <2>4
    <2>6. Past(Here(q))' = Past(b)'
      BY <2>1, <2>3 DEF Past, Been, At
    <2>. QED
      BY <2>1, <2>3, <2>5, <2>6
  <1>4. ASSUME Gathers(p)'
        PROVE  arrive'[Here(p)'] + (Users[Here(p)'] - 1 - i'[p]) <= Cardinality(Past(Here(p))')
    <2>1. visit' = visit /\ Here(p)' = Here(p)
      BY <1>4, GatherMoves DEF ArriveFirst, Collect, UnlockBarrier, UnlockSync, Here
    <2>2. PICK b \in Barriers : b = Here(p)
      BY <1>0
    <2>3. Past(Here(p))' = Past(b)'
      BY <2>1, <2>2 DEF Past, Been, At
    <2>4. Users[b] \in Nat /\ i[p] \in Nat /\ arrive[b] \in Nat
      BY UsersTyped DEF Typing
    <2>5. CASE ArriveFirst(p, b)
      <3>1. i'[p] = Users[b] - 1 /\ arrive' = arrive
        BY <2>5 DEF ArriveFirst, Typing
      <3>. QED
        BY <1>2, <2>1, <2>2, <2>3, <2>4, <3>1
    <2>6. CASE Collect(p, b)
      <3>1. arrive'[b] = arrive[b] - 1 /\ i'[p] = i[p] - 1 /\ Gathers(p)
        BY <2>6 DEF Collect, Dec, Typing, Gathers
      <3>2. arrive[b] + (Users[b] - 1 - i[p]) <= Cardinality(Past(b))
        BY <2>2, <3>1 DEF Collected
      <3>3. arrive'[b] + (Users[b] - 1 - i'[p]) <= Cardinality(Past(b)')
        BY <2>4, <3>1, <3>2, PastCounts, PastFinite
      <3>. QED
        BY <2>1, <2>2, <2>3, <3>3
    <2>7. CASE Gathers(p) /\ (UnlockBarrier(p, b) \/ UnlockSync(p))
      <3>1. arrive' = arrive /\ i' = i
        BY <2>7 DEF UnlockBarrier, UnlockSync
      <3>2. arrive[b] + (Users[b] - 1 - i[p]) <= Cardinality(Past(b))
        BY <2>2, <2>7 DEF Collected
      <3>3. arrive'[b] + (Users[b] - 1 - i'[p]) <= Cardinality(Past(b)')
        BY <2>4, <3>1, <3>2, PastCounts, PastFinite
      <3>. QED
        BY <2>1, <2>2, <2>3, <3>3
    <2>8. \/ ArriveFirst(p, b)
          \/ Collect(p, b)
          \/ Gathers(p) /\ (UnlockBarrier(p, b) \/ UnlockSync(p))
      <3>1. ArriveFirst(p, Here(p)) => ArriveFirst(p, b)
        BY <2>2 DEF ArriveFirst, Dec
      <3>2. Collect(p, Here(p)) => Collect(p, b)
        BY <2>2 DEF Collect, Dec
      <3>3. UnlockBarrier(p, Here(p)) => UnlockBarrier(p, b)
        BY <2>2 DEF UnlockBarrier, Inc
      <3>4. Gathers(p)'
        BY <1>4
      <3>. QED
        BY <3>1, <3>2, <3>3, <3>4, GatherMoves, Zenon
    <2>. QED
      BY <2>5, <2>6, <2>7, <2>8
  <1>. QED
    BY <1>2, <1>3, <1>4 DEF Collected

-----------------------------------------------------------------------------
\* Who is past a barrier has come there.
LEMMA PastHaveCome ==
  ASSUME NEW b, NEW p \in Past(b)
  PROVE  Come(p, b)
  BY DEF Past, Come, Before

\* A leader that has collected everything is the only one that is not past.
LEMMA AllPast ==
  ASSUME Typing, Once, Registered, Collected, NEW p \in Procs, InProgram(p),
         pc[p] = "collecting", i[p] = 0
  PROVE  \A q \in Procs \ {p} : q \in Past(Here(p))
  <1>1. PICK b \in Barriers : b = Here(p)
    BY HereTyped
  <1>2. p \notin Past(b)
    BY <1>1, NotAgain DEF Past, Before
  <1>3. arrive[b] + (Users[b] - 1 - 0) <= Cardinality(Past(b))
    BY <1>1 DEF Collected, Gathers
  <1>4. Cardinality(Past(b)) >= N - 1
    BY <1>3, UsersTyped, NPositive, PastFinite DEF Registered, Typing
  <1>5. Past(b) \subseteq Procs \ {p}
    BY <1>2 DEF Past
  <1>6. IsFiniteSet(Procs \ {p}) /\ Cardinality(Procs \ {p}) = N - 1
    BY ProcsAssumption, FS_RemoveElement DEF N
  <1>7. Past(b) = Procs \ {p}
    BY <1>4, <1>5, <1>6, NPositive, FS_Subset, PastFinite
  <1>. QED
    BY <1>1, <1>7

LEMMA ReleasedStep ==
  ASSUME Typing, Once, Registered, Collected, Released, NEW p \in Procs, Step(p)
  PROVE  Released'
  <1>. USE DEF Goto
  <1>0. InProgram(p) /\ Elsewhere(p) /\ Here(p) \in Barriers
    BY Moves, HereTyped
  <1>1. ASSUME NEW q \in Procs, pc'[q] = "releasing", q # p
        PROVE  \A r \in Procs \ {q} : r \in Past(Here(q))'
    <2>1. pc[q] = "releasing" /\ visit'[q] = visit[q] /\ Here(q)' = Here(q) /\ InProgram(q)
      BY <1>0, <1>1 DEF Elsewhere, Here, Typing
    <2>2. PICK b \in Barriers : b = Here(q)
      BY <2>1, HereTyped
    <2>3. Past(b) \subseteq Past(b)' /\ Past(Here(q))' = Past(b)'
      BY <2>1, <2>2, PastGrows DEF Past, Been, At
    <2>. QED
      BY <2>1, <2>2, <2>3 DEF Released
  <1>2. ASSUME pc'[p] = "releasing"
        PROVE  \A r \in Procs \ {p} : r \in Past(Here(p))'
    <2>1. CASE BeginRelease(p, Here(p)) \/ Release(p, Here(p))
      <3>1. visit' = visit /\ Here(p)' = Here(p)
        BY <2>1 DEF BeginRelease, Release, Here
      <3>2. PICK b \in Barriers : b = Here(p)
        BY <1>0
      <3>3. Past(b) \subseteq Past(b)' /\ Past(Here(p))' = Past(b)'
        BY <3>1, <3>2, PastGrows DEF Past, Been, At
      <3>4. \A r \in Procs \ {p} : r \in Past(Here(p))
        BY <1>0, <2>1, AllPast DEF BeginRelease, Release, Released
      <3>. QED
        BY <3>2, <3>3, <3>4
    <2>2. CASE Call(p) \/ ReturnResult(p)
      BY <1>2, <2>2 DEF Call, ReturnResult, Return, Typing
    <2>3. CASE Barrier_sync(p, Here(p)) /\ ~(BeginRelease(p, Here(p)) \/ Release(p, Here(p)))
      BY <1>2, <2>3 DEF Barrier_sync, ArriveFirst, ArriveOther, UnlockBarrier, UnlockSync, Collect,
         EndRelease, SignalArrival, Depart, Relock, Return, Typing
    <2>4. CASE Barrier_sync_to(p, Here(p))
      BY <1>2, <2>4 DEF Barrier_sync_to, FailToArrive, FailToCollect, FailToDepart, GiveUp,
         RelockFailed, DrainArrive, ArriveDrained, DrainDepart, DepartDrained, Reset, Typing
    <2>. QED
      BY <2>1, <2>2, <2>3, <2>4 DEF Step
  <1>. QED
    BY <1>1, <1>2 DEF Released

\* Departure tokens are posted by a leader that lets go.
LEMMA TokensStep ==
  ASSUME Typing, Released, Tokens, NEW p \in Procs, Step(p)
  PROVE  Tokens'
  <1>. SUFFICES ASSUME NEW b \in Barriers, depart'[b] > 0
                PROVE  \A q \in Procs : Come(q, b)'
    BY DEF Tokens, Complete
  <1>0. InProgram(p) /\ Here(p) \in Barriers /\ depart[b] \in Nat
    BY Moves, HereTyped DEF Typing
  <1>1. CASE depart[b] > 0
    BY <1>1, PastGrows DEF Tokens, Complete
  <1>2. CASE ~(depart[b] > 0)
    <2>1. Release(p, Here(p)) /\ Here(p) = b
      <3>1. CASE Release(p, Here(p))
        BY <1>0, <1>2, <3>1 DEF Release, Inc, Typing
      <3>2. CASE Call(p) \/ ReturnResult(p)
        BY <1>2, <3>2 DEF Call, ReturnResult, Return
      <3>3. CASE Barrier_sync(p, Here(p)) /\ ~Release(p, Here(p))
        BY <1>0, <1>2, <3>3 DEF Barrier_sync, ArriveFirst, ArriveOther, UnlockBarrier, UnlockSync,
           Collect, BeginRelease, EndRelease, SignalArrival, Depart, Relock, Return, Dec, Typing
      <3>4. CASE Barrier_sync_to(p, Here(p))
        BY <1>0, <1>2, <3>4 DEF Barrier_sync_to, FailToArrive, FailToCollect, FailToDepart, GiveUp,
           RelockFailed, DrainArrive, ArriveDrained, DrainDepart, DepartDrained, Reset, Dec, Typing
      <3>. QED
        BY <3>1, <3>2, <3>3, <3>4 DEF Step
    <2>2. \A q \in Procs : Come(q, b)
      <3>1. \A q \in Procs \ {p} : q \in Past(b)
        BY <2>1 DEF Release, Released
      <3>2. Come(p, b)
        BY <1>0, <2>1 DEF Release, Come, At
      <3>. QED
        BY <3>1, <3>2, PastHaveCome
    <2>. QED
      BY <2>2, PastGrows
  <1>. QED
    BY <1>1, <1>2

LEMMA FailingStep ==
  ASSUME Typing, Failing, NEW p \in Procs, Step(p)
  PROVE  Failing'
  <1>. USE DEF Typing, Failing, Goto, OutLabels
  <1>1. CASE Call(p) /\ UNCHANGED <<failed, rejected>>
    BY <1>1 DEF Call
  <1>2. CASE Barrier_sync(p, Here(p)) /\ UNCHANGED <<failed, rejected>>
    BY <1>2 DEF Barrier_sync, ArriveFirst, ArriveOther, UnlockBarrier, UnlockSync, Collect,
       BeginRelease, Release, EndRelease, SignalArrival, Depart, Relock, Return
  <1>3. CASE Barrier_sync_to(p, Here(p))
    BY <1>3 DEF Barrier_sync_to, FailToArrive, FailToCollect, FailToDepart, GiveUp,
       RelockFailed, DrainArrive, ArriveDrained, DrainDepart, DepartDrained, Reset
  <1>4. CASE ReturnResult(p)
    BY <1>4 DEF ReturnResult, Return
  <1>. QED
    BY <1>1, <1>2, <1>3, <1>4 DEF Step

\* Who passes has led the others out, or has been let go.
LEMMA PassingStep ==
  ASSUME Typing, Released, Tokens, Passing, Failing, NEW p \in Procs, Step(p)
  PROVE  Passing'
  <1>. USE DEF Goto
  <1>0. InProgram(p) /\ Elsewhere(p) /\ (Returns(p) \/ GoesOn(p)) /\ Here(p) \in Barriers
    BY Moves, HereTyped
  <1>1. ASSUME NEW q \in Procs, Here(q)' = Here(q), InProgram(q), Complete(Here(q))
        PROVE  Complete(Here(q))'
    <2>1. PICK b \in Barriers : b = Here(q)
      BY <1>1, HereTyped
    <2>2. \A r \in Procs : Come(r, b)'
      BY <1>1, <2>1, PastGrows DEF Complete
    <2>. QED
      BY <1>1, <2>1, <2>2 DEF Complete, Come, Been, At
  <1>2. ASSUME NEW q \in Procs, Passes(q)', q # p
        PROVE  Complete(Here(q))'
    <2>1. Passes(q) /\ Here(q)' = Here(q) /\ InProgram(q)
      BY <1>0, <1>2 DEF Elsewhere, Passes, Here, Typing
    <2>. QED
      BY <1>1, <2>1 DEF Passing
  <1>3. ASSUME Passes(p)'
        PROVE  Complete(Here(p))'
    <2>1. GoesOn(p) /\ Here(p)' = Here(p)
      BY <1>0, <1>3 DEF Returns, GoesOn, Passes, Here
    <2>2. CASE EndRelease(p, Here(p))
      <3>1. \A q \in Procs \ {p} : Come(q, Here(p))
        BY <2>2, PastHaveCome DEF EndRelease, Released
      <3>2. Come(p, Here(p))
        BY <1>0, <2>2 DEF EndRelease, Come, At
      <3>. QED
        BY <1>0, <1>1, <2>1, <3>1, <3>2 DEF Complete
    <2>3. CASE Depart(p, Here(p))
      <3>1. Complete(Here(p))
        BY <1>0, <2>3 DEF Depart, Dec, Tokens
      <3>. QED
        BY <1>0, <1>1, <2>1, <3>1
    <2>4. CASE Relock(p) /\ UNCHANGED failed
      <3>1. Passes(p)
        BY <1>3, <2>4 DEF Relock, Passes
      <3>. QED
        BY <1>0, <1>1, <2>1, <3>1 DEF Passing
    <2>5. CASE Call(p) \/ ReturnResult(p)
      BY <1>3, <2>5 DEF Call, ReturnResult, Return, Passes, Typing
    <2>6. CASE /\ Barrier_sync(p, Here(p))
               /\ ~(EndRelease(p, Here(p)) \/ Depart(p, Here(p)) \/ Relock(p))
      BY <1>3, <2>1, <2>6 DEF GoesOn, Barrier_sync, ArriveFirst, ArriveOther, UnlockBarrier,
         UnlockSync, Collect, BeginRelease, Release, SignalArrival, Return, Passes, Typing
    <2>7. CASE Barrier_sync_to(p, Here(p))
      BY <1>3, <2>7 DEF Barrier_sync_to, FailToArrive, FailToCollect, FailToDepart, GiveUp,
         RelockFailed, DrainArrive, ArriveDrained, DrainDepart, DepartDrained, Reset, Typing,
         Passes, Failing, OutLabels
    <2>. QED
      BY <2>2, <2>3, <2>4, <2>5, <2>6, <2>7 DEF Step
  <1>. QED
    BY <1>2, <1>3 DEF Passing

-----------------------------------------------------------------------------
LEMMA NextIInv ==
  ASSUME Once, Registered, IInv, [Next]_tvars
  PROVE  IInv'
  <1>1. ASSUME NEW p \in Procs, Step(p)
        PROVE  IInv'
    BY <1>1, TypingStep, CollectedStep, ReleasedStep, TokensStep, PassingStep, FailingStep DEF IInv
  <1>2. CASE UNCHANGED tvars
    <2>. USE <1>2 DEF tvars, vars
    <2>1. \A b : Past(b)' = Past(b)
      BY DEF Past, Been, At, InProgram, Here
    <2>2. \A p, b : Come(p, b)' <=> Come(p, b)
      BY DEF Come, Been, At, InProgram, Here
    <2>3. \A p : Here(p)' = Here(p) /\ (InProgram(p)' <=> InProgram(p))
      BY DEF Here, InProgram
    <2>4. Typing' /\ Failing'
      BY <2>3 DEF IInv, Typing, Failing
    <2>5. Collected' /\ Released'
      BY <2>1, <2>3 DEF IInv, Collected, Released, Gathers
    <2>6. \A b : Complete(b)' <=> Complete(b)
      BY <2>2 DEF Complete
    <2>7. Tokens' /\ Passing'
      BY <2>3, <2>6 DEF IInv, Tokens, Passing, Passes
    <2>. QED
      BY <2>4, <2>5, <2>7 DEF IInv
  <1>. QED
    BY <1>1, <1>2 DEF Next, Terminated

LEMMA InvariantHolds ==
  ASSUME Once, Registered
  PROVE  Spec => []IInv
  <1>1. IInv /\ [Next]_tvars => IInv'
    BY NextIInv
  <1>. QED
    BY <1>1, InitIInv, PTL DEF Spec

\* With the calls in one order, who has come to p's barrier is in its call or beyond.
LEMMA ComeSuffices ==
  ASSUME Once, Common, IInv
  PROVE  NobodyPassesAlone
  <1>. SUFFICES ASSUME NEW p \in Procs, NEW q \in Procs, Passes(p)
                PROVE  visit[q] > visit[p] \/ (visit[q] = visit[p] /\ pc[q] # "idle")
    BY DEF NobodyPassesAlone
  <1>1. /\ visit[p] + 1 \in 1..Rounds(p) /\ Here(p) = Program[p][visit[p] + 1].bar
        /\ visit[p] \in Nat /\ visit[q] \in Nat
        /\ Rounds(q) \in Nat /\ Rounds(p) = Rounds(q) /\ visit[q] <= Rounds(q)
    BY HereTyped, RoundsTyped DEF IInv, Typing, Passes, Here, Common
  <1>2. ASSUME NEW k \in 1..Rounds(q), Program[q][k].bar = Here(p)
        PROVE  k = visit[p] + 1
    BY <1>1, <1>2 DEF Common, Once
  <1>3. Come(q, Here(p))
    BY DEF IInv, Passing, Complete
  <1>4. CASE Been(q, Here(p))
    <2>1. PICK k \in 1..visit[q] : Program[q][k].bar = Here(p)
      BY <1>4 DEF Been
    <2>2. k = visit[p] + 1
      BY <1>1, <1>2, <2>1
    <2>. QED
      BY <1>1, <2>1, <2>2
  <1>5. CASE At(q, Here(p)) /\ pc[q] # "idle"
    <2>1. visit[q] + 1 \in 1..Rounds(q) /\ Program[q][visit[q] + 1].bar = Here(p)
      BY <1>1, <1>5, HereTyped DEF At, Here, IInv
    <2>2. visit[q] + 1 = visit[p] + 1
      BY <1>2, <2>1
    <2>. QED
      BY <1>1, <1>5, <2>2
  <1>. QED
    BY <1>3, <1>4, <1>5 DEF Come

\* A timed or untimed call that does not fail had everybody there, whoever gives up,
\* resets the barrier or leads it a second time (blts_sync.c:234-308).
THEOREM PassesTogether ==
  ASSUME Once, Common, Registered
  PROVE  Spec => []NobodyPassesAlone
  <1>1. IInv => NobodyPassesAlone
    BY ComeSuffices
  <1>. QED
    BY <1>1, InvariantHolds, PTL

-----------------------------------------------------------------------------
SyncHolders == {p \in Procs : \/ HoldsSync(p)
                              \/ pc[p] \in OutLabels \ {"out"}
                              \/ KeepsLock(p)}
MutexHolders(b) == {p \in Procs : HoldsMutex(p) /\ Here(p) = b}
Locks == /\ syncMutex + Cardinality(SyncHolders) = 1
         /\ \A p \in rejected : pc[p] = "out"
         /\ \A b \in Barriers : mutex[b] + Cardinality(MutexHolders(b)) = 1

\* The holders are finitely many, so they can be counted.
LEMMA HoldersFinite ==
  ASSUME NEW b
  PROVE  /\ IsFiniteSet(SyncHolders) /\ Cardinality(SyncHolders) \in Nat
         /\ IsFiniteSet(MutexHolders(b)) /\ Cardinality(MutexHolders(b)) \in Nat
  <1>1. SyncHolders \subseteq Procs /\ MutexHolders(b) \subseteq Procs
    BY DEF SyncHolders, MutexHolders
  <1>. QED
    BY <1>1, ProcsAssumption, FS_Subset, FS_CardinalityType

\* A first lock is not waited for in vain: who has it either has sync_mutex, which the
\* newcomer has, or lets go when all have come.
LEMMA FirstLockIsFree ==
  ASSUME Once, IInv, Locks, NEW p \in Procs, InProgram(p), pc[p] = "arriving"
  PROVE  mutex[Here(p)] # 0
  <1>. SUFFICES ASSUME mutex[Here(p)] = 0
                PROVE  FALSE
    OBVIOUS
  <1>1. pc[p] = "arriving" /\ Here(p) \in Barriers /\ mutex[Here(p)] = 0
    BY HereTyped DEF IInv
  <1>2. PICK b \in Barriers : b = Here(p)
    BY <1>1
  <1>3. Cardinality(MutexHolders(b)) = 1
    BY <1>1, <1>2, HoldersFinite DEF Locks
  <1>4. PICK q \in MutexHolders(b) : TRUE
    BY <1>3, HoldersFinite, FS_EmptySet
  <1>5. q \in Procs /\ HoldsMutex(q) /\ Here(q) = b /\ q # p
    BY <1>1, <1>4 DEF MutexHolders, HoldsMutex
  <1>6. CASE pc[q] = "releasing"
    <2>1. p \in Past(b)
      BY <1>5, <1>6 DEF IInv, Released
    <2>. QED
      BY <1>1, <1>2, <2>1, NotAgain DEF IInv, Past, Before
  <1>7. CASE pc[q] \in {"firstLocked", "otherLocked"}
    <2>1. {p, q} \subseteq SyncHolders
      BY <1>1, <1>5, <1>7 DEF SyncHolders, HoldsSync
    <2>2. Cardinality({p, q}) <= Cardinality(SyncHolders)
      BY <2>1, HoldersFinite, FS_Subset
    <2>3. Cardinality({p} \cup {q}) = Cardinality({p}) + 1 /\ {p, q} = {p} \cup {q}
      BY <1>5, FS_Singleton, FS_AddElement
    <2>4. Cardinality({p, q}) = 2
      BY <2>3, FS_Singleton
    <2>5. Cardinality(SyncHolders) <= 1
      BY HoldersFinite DEF Locks, IInv, Typing
    <2>. QED
      BY <2>2, <2>4, <2>5, HoldersFinite
  <1>. QED
    BY <1>5, <1>6, <1>7 DEF HoldsMutex

\* So only an invalid deadline makes it fail, and its owner takes sync_mutex along.
LEMMA OnlyRejectionFails ==
  ASSUME Once, IInv, Locks, NEW p \in Procs, InProgram(p), FailToArrive(p, Here(p))
  PROVE  /\ pc[p] = "arriving" /\ pc' = [pc EXCEPT ![p] = "out"]
         /\ rejected' = rejected \cup {p}
         /\ UNCHANGED <<syncMutex, mutex, visit>>
  BY FirstLockIsFree DEF FailToArrive, GiveUp, Goto

\* Its owner does not get away from there: it holds what it waits for.
LEMMA RejectedStay ==
  ASSUME Once, IInv, Locks, NEW p \in Procs, Step(p)
  PROVE  /\ FailToArrive(p, Here(p)) \/ rejected' = rejected
         /\ p \notin rejected
         /\ \A q \in rejected' : pc'[q] = "out"
  <1>0. /\ pc \in [Procs -> Labels \cup OutLabels] /\ rejected \subseteq Procs
        /\ syncMutex \in Nat /\ InProgram(p)
    BY DEF IInv, Typing, Step
  <1>1. FailToArrive(p, Here(p)) \/ rejected' = rejected
    <2>1. CASE Timed(p) /\ Barrier_sync_to(p, Here(p))
      BY <2>1 DEF Barrier_sync_to, FailToCollect, FailToDepart, RelockFailed, DrainArrive,
         ArriveDrained, DrainDepart, DepartDrained, Reset
    <2>. QED
      BY <2>1 DEF Step, ReturnResult
  <1>2. p \notin rejected
    <2>. SUFFICES ASSUME p \in rejected
                  PROVE  FALSE
      OBVIOUS
    <2>1. pc[p] = "out" /\ p \in SyncHolders
      BY DEF Locks, SyncHolders, KeepsLock
    <2>2. Cardinality(SyncHolders) # 0
      BY <2>1, HoldersFinite, FS_EmptySet
    <2>3. syncMutex = 0
      BY <1>0, <2>2, HoldersFinite DEF Locks
    <2>4. CASE Call(p) \/ ReturnResult(p)
      BY <2>1, <2>4 DEF Call, ReturnResult, Return, Goto
    <2>5. CASE Barrier_sync(p, Here(p))
      BY <2>1, <2>5 DEF Barrier_sync, ArriveFirst, ArriveOther, UnlockBarrier, UnlockSync, Collect,
         BeginRelease, Release, EndRelease, SignalArrival, Depart, Relock, Return, Goto
    <2>6. CASE Barrier_sync_to(p, Here(p))
      BY <2>1, <2>3, <2>6 DEF Barrier_sync_to, FailToArrive, FailToCollect, FailToDepart, GiveUp,
         RelockFailed, DrainArrive, ArriveDrained, DrainDepart, DepartDrained, Reset, Goto
    <2>. QED
      BY <2>4, <2>5, <2>6 DEF Step
  <1>3. ASSUME NEW q \in rejected'
        PROVE  pc'[q] = "out"
    <2>1. CASE q = p
      <3>1. FailToArrive(p, Here(p))
        BY <1>1, <1>2, <2>1
      <3>. QED
        BY <1>0, <2>1, <3>1, OnlyRejectionFails
    <2>2. CASE q # p
      <3>1. q \in rejected
        BY <1>0, <1>1, <2>2, OnlyRejectionFails
      <3>2. pc'[q] = pc[q]
        BY <1>0, <2>2, <3>1, Moves DEF Elsewhere, IInv
      <3>. QED
        BY <3>1, <3>2 DEF Locks
    <2>. QED
      BY <2>1, <2>2
  <1>. QED
    BY <1>1, <1>2, <1>3

\* sync_mutex is taken by Call, Relock and RelockFailed, and given back by UnlockSync
\* and Return.
LEMMA SyncHoldersStep ==
  ASSUME Once, IInv, Locks, NEW p \in Procs, Step(p)
  PROVE  syncMutex' + Cardinality(SyncHolders') = 1
  <1>0. /\ pc \in [Procs -> Labels \cup OutLabels] /\ syncMutex \in Nat
        /\ InProgram(p) /\ rejected \subseteq Procs /\ p \notin rejected
        /\ syncMutex + Cardinality(SyncHolders) = 1
    BY RejectedStay DEF IInv, Typing, Step, Locks
  <1>. USE DEF Goto
  <1>5. rejected' = rejected \/ (pc[p] = "arriving" /\ pc'[p] = "out")
    BY <1>0, RejectedStay, OnlyRejectionFails
  <1>1. CASE Call(p) \/ Relock(p) \/ RelockFailed(p)
    <2>1. /\ p \notin SyncHolders /\ SyncHolders' = SyncHolders \cup {p}
          /\ syncMutex' = syncMutex - 1
      BY <1>0, <1>1, <1>5 DEF Call, Relock, RelockFailed, SyncHolders, HoldsSync,
         KeepsLock, OutLabels
    <2>2. Cardinality(SyncHolders') = Cardinality(SyncHolders) + 1
      BY <2>1, HoldersFinite, FS_AddElement
    <2>. QED
      BY <1>0, <2>1, <2>2, HoldersFinite
  <1>2. CASE UnlockSync(p) \/ ReturnResult(p)
    <2>1. /\ p \in SyncHolders /\ SyncHolders' = SyncHolders \ {p}
          /\ syncMutex' = syncMutex + 1
      BY <1>0, <1>2, <1>5 DEF UnlockSync, ReturnResult, Return, SyncHolders, HoldsSync,
         KeepsLock, OutLabels
    <2>2. Cardinality(SyncHolders') = Cardinality(SyncHolders) - 1
      BY <2>1, HoldersFinite, FS_RemoveElement
    <2>. QED
      BY <1>0, <2>1, <2>2, HoldersFinite
  <1>3. CASE /\ Barrier_sync(p, Here(p)) /\ pc[p] # "returning"
             /\ ~(Relock(p) \/ UnlockSync(p))
    <2>1. SyncHolders' = SyncHolders /\ syncMutex' = syncMutex
      BY <1>0, <1>3, <1>5 DEF Barrier_sync, ArriveFirst, ArriveOther, UnlockBarrier, Collect,
         BeginRelease, Release, EndRelease, SignalArrival, Depart, Return, SyncHolders, HoldsSync,
         KeepsLock, OutLabels
    <2>. QED
      BY <1>0, <2>1
  <1>6. CASE FailToArrive(p, Here(p))
    <2>1. SyncHolders' = SyncHolders /\ syncMutex' = syncMutex
      BY <1>0, <1>6, OnlyRejectionFails DEF SyncHolders, HoldsSync,
         KeepsLock, OutLabels
    <2>. QED
      BY <1>0, <2>1
  <1>4. CASE /\ Barrier_sync_to(p, Here(p))
             /\ ~(RelockFailed(p) \/ FailToArrive(p, Here(p)))
    <2>1. SyncHolders' = SyncHolders /\ syncMutex' = syncMutex
      BY <1>0, <1>4, <1>5 DEF Barrier_sync_to, FailToCollect, FailToDepart, GiveUp, DrainArrive,
         ArriveDrained, DrainDepart, DepartDrained, Reset, SyncHolders, HoldsSync,
         KeepsLock, OutLabels
    <2>. QED
      BY <1>0, <2>1
  <1>. QED
    BY <1>1, <1>2, <1>3, <1>4, <1>6 DEF Step

\* A barrier's mutex is taken by both arrivals and the leader's second lock, and given
\* back by the unlocks; nothing on the way out takes or gives it.
LEMMA MutexHoldersStep ==
  ASSUME Once, IInv, Locks, NEW p \in Procs, Step(p), NEW b \in Barriers
  PROVE  mutex'[b] + Cardinality(MutexHolders(b)') = 1
  <1>0. /\ pc \in [Procs -> Labels \cup OutLabels] /\ mutex \in [Barriers -> Nat]
        /\ mutex[b] \in Nat /\ visit \in [Procs -> Nat] /\ InProgram(p)
        /\ mutex[b] + Cardinality(MutexHolders(b)) = 1
    BY DEF IInv, Typing, Step, Locks
  <1>. DEFINE Locking(c) == ArriveFirst(p, c) \/ ArriveOther(p, c) \/ BeginRelease(p, c)
              Unlocking(c) == UnlockBarrier(p, c) \/ EndRelease(p, c)
  <1>1. CASE Locking(Here(p)) /\ Here(p) = b
    <2>1. /\ p \notin MutexHolders(b) /\ MutexHolders(b)' = MutexHolders(b) \cup {p}
          /\ mutex'[b] = mutex[b] - 1
      BY <1>0, <1>1 DEF ArriveFirst, ArriveOther, BeginRelease, Goto, Dec, MutexHolders,
         HoldsMutex, Here
    <2>2. Cardinality(MutexHolders(b)') = Cardinality(MutexHolders(b)) + 1
      BY <2>1, HoldersFinite, FS_AddElement
    <2>. QED
      BY <1>0, <2>1, <2>2, HoldersFinite
  <1>2. CASE Unlocking(Here(p)) /\ Here(p) = b
    <2>1. /\ p \in MutexHolders(b) /\ MutexHolders(b)' = MutexHolders(b) \ {p}
          /\ mutex'[b] = mutex[b] + 1
      BY <1>0, <1>2 DEF UnlockBarrier, EndRelease, Goto, Inc, MutexHolders, HoldsMutex, Here
    <2>2. Cardinality(MutexHolders(b)') = Cardinality(MutexHolders(b)) - 1
      BY <2>1, HoldersFinite, FS_RemoveElement
    <2>. QED
      BY <1>0, <2>1, <2>2, HoldersFinite
  <1>3. CASE (Locking(Here(p)) \/ Unlocking(Here(p))) /\ Here(p) # b
    <2>1. MutexHolders(b)' = MutexHolders(b) /\ mutex'[b] = mutex[b]
      BY <1>0, <1>3 DEF ArriveFirst, ArriveOther, BeginRelease, UnlockBarrier, EndRelease, Goto,
         Dec, Inc, MutexHolders, HoldsMutex, Here
    <2>. QED
      BY <1>0, <2>1
  <1>4. CASE ~Locking(Here(p)) /\ ~Unlocking(Here(p))
    <2>1. /\ \A q \in Procs : HoldsMutex(q)' <=> HoldsMutex(q)
          /\ \A q \in Procs : HoldsMutex(q) => visit'[q] = visit[q]
          /\ mutex' = mutex
      <3>0. CASE ReturnResult(p)
        BY <1>0, <3>0 DEF Goto, HoldsMutex, ReturnResult, Return
      <3>1. CASE Call(p) \/ UnlockSync(p) \/ Relock(p)
        BY <1>0, <3>1 DEF Goto, HoldsMutex, Call, UnlockSync, Relock
      <3>2. CASE Collect(p, Here(p)) \/ Release(p, Here(p)) \/ SignalArrival(p, Here(p))
                   \/ Depart(p, Here(p))
        BY <1>0, <3>2 DEF Goto, HoldsMutex, Collect, Release, SignalArrival, Depart
      <3>3. CASE FailToCollect(p, Here(p)) \/ FailToDepart(p, Here(p)) \/ RelockFailed(p)
        BY <1>0, <3>3 DEF Goto, HoldsMutex, FailToCollect, FailToDepart, RelockFailed, GiveUp
      <3>4. CASE DrainArrive(p, Here(p)) \/ ArriveDrained(p, Here(p)) \/ DrainDepart(p, Here(p))
                   \/ DepartDrained(p, Here(p)) \/ Reset(p, Here(p))
        BY <1>0, <3>4 DEF Goto, HoldsMutex, DrainArrive, ArriveDrained, DrainDepart,
           DepartDrained, Reset
      <3>6. CASE FailToArrive(p, Here(p))
        BY <1>0, <3>6, OnlyRejectionFails DEF HoldsMutex
      <3>5. Return(p) => pc[p] = "returning"
        BY DEF Return, Goto
      <3>. QED
        BY <1>0, <1>4, <3>0, <3>1, <3>2, <3>3, <3>4, <3>5, <3>6 DEF Step, Barrier_sync,
           Barrier_sync_to
    <2>2. MutexHolders(b)' = MutexHolders(b)
      BY <2>1 DEF MutexHolders, Here
    <2>. QED
      BY <1>0, <2>1, <2>2
  <1>. QED
    BY <1>1, <1>2, <1>3, <1>4

LEMMA LocksHold ==
  ASSUME Once, Registered
  PROVE  Spec => []Locks
  <1>1. ASSUME Init
        PROVE  Locks
    <2>1. SyncHolders = {} /\ \A b \in Barriers : MutexHolders(b) = {}
      BY <1>1 DEF Init, InitWith, HoldsSync, HoldsMutex, SyncHolders, MutexHolders, KeepsLock,
         OutLabels
    <2>2. syncMutex = 1 /\ \A b \in Barriers : mutex[b] = 1
      BY <1>1 DEF Init, InitWith
    <2>3. syncMutex + Cardinality(SyncHolders) = 1
      BY <2>1, <2>2, FS_EmptySet
    <2>4. ASSUME NEW b \in Barriers
          PROVE  mutex[b] + Cardinality(MutexHolders(b)) = 1
      BY <2>1, <2>2, FS_EmptySet
    <2>. QED
      BY <1>1, <2>3, <2>4 DEF Init, Locks
  <1>2. ASSUME IInv, Locks, [Next]_tvars
        PROVE  Locks'
    <2>1. ASSUME NEW p \in Procs, Step(p)
          PROVE  Locks'
      <3>1. \A b \in Barriers : mutex'[b] + Cardinality(MutexHolders(b)') = 1
        BY <1>2, <2>1, MutexHoldersStep
      <3>2. syncMutex' + Cardinality(SyncHolders') = 1
        BY <1>2, <2>1, SyncHoldersStep
      <3>. QED
        BY <1>2, <2>1, <3>1, <3>2, RejectedStay DEF Locks
    <2>2. CASE UNCHANGED tvars
      <3>1. /\ SyncHolders' = SyncHolders /\ UNCHANGED <<syncMutex, mutex, pc, rejected>>
            /\ \A b \in Barriers : MutexHolders(b)' = MutexHolders(b)
        BY <2>2 DEF tvars, vars, HoldsSync, HoldsMutex, Here, SyncHolders, MutexHolders,
           KeepsLock
      <3>. QED
        BY <1>2, <3>1 DEF Locks
    <2>. QED
      BY <1>2, <2>1, <2>2 DEF Next, Terminated
  <1>. QED
    BY <1>1, <1>2, InvariantHolds, PTL DEF Spec

\* "note: no locks are held at this point" (blts_sync.c:293): a call that gives up does
\* not leave with a lock, except the first lock's when its deadline was invalid.
THEOREM NoLocksHeld ==
  ASSUME Once, Registered
  PROVE  Spec => []OnlyRejectedKeepLock
  <1>1. Locks => OnlyRejectedKeepLock
    BY DEF Locks, OnlyRejectedKeepLock, SyncHolders
  <1>. QED
    BY <1>1, LocksHold, PTL

\* Each semaphore that serves as a mutex is 0 or 1, every count is a natural number and
\* every process at a place of its call (blts_sync.c:222-312).
THEOREM TypeCorrect ==
  ASSUME Once, Registered
  PROVE  Spec => []TypeOK
  <1>1. ASSUME IInv, Locks
        PROVE  TypeOK
    <2>1. syncMutex \in 0..1
      BY <1>1, HoldersFinite DEF IInv, Typing, Locks
    <2>2. ASSUME NEW b \in Barriers
          PROVE  mutex[b] \in 0..1
      <3>1. mutex[b] \in Nat /\ Cardinality(MutexHolders(b)) \in Nat
        BY <1>1, HoldersFinite DEF IInv, Typing
      <3>. QED
        BY <1>1, <3>1 DEF Locks
    <2>3. mutex \in [Barriers -> 0..1]
      BY <1>1, <2>2 DEF IInv, Typing
    <2>. QED
      BY <1>1, <2>1, <2>3 DEF TypeOK, IInv, Typing
  <1>. QED
    BY <1>1, InvariantHolds, LocksHold, PTL

-----------------------------------------------------------------------------
\* Where p is with regard to b: at a place of its call, away before it, gone after it.
Spot(p, b) == IF At(p, b) /\ pc[p] # "idle" THEN pc[p]
              ELSE IF Been(p, b) THEN "gone" ELSE "away"

Gather == {"firstLocked", "firstOut", "collecting"}
Join == {"otherLocked", "otherOut", "signalling"}
Leave == {"releasing", "departing", "returning", "gone"}
Later == {"awaiting", "departing", "returning", "gone"} \cup OutLabels

Gatherers(b) == {p \in Procs : Spot(p, b) \in Gather}
Leaders(b) == {p \in Procs : Spot(p, b) \in Gather \cup {"releasing"}}
Arrived(b) == {p \in Procs : Spot(p, b) \in Later}
Opened(b) == \E p \in Procs : Spot(p, b) \in Leave

\* Nobody calls b with a deadline, and so nobody gives up there.
Untimed(b) == \A p \in Procs : \A k \in 1..Rounds(p) :
                Program[p][k].bar = b => ~Program[p][k].timed

\* The one round of such a barrier.
Order(b) ==
  /\ \A p \in Procs : Spot(p, b) \notin OutLabels
  /\ active[b] <=> Leaders(b) # {}
  /\ \A p, q \in Leaders(b) : p = q
  /\ \A p \in Procs : Spot(p, b) \in Join \cup {"awaiting"} => Gatherers(b) # {} \/ Opened(b)
  /\ depart[b] > 0 => Opened(b)
  /\ Opened(b) => \A p \in Procs : Spot(p, b) \in Later \cup {"releasing"}
  /\ \A p \in Gatherers(b) : arrive[b] + (Users[b] - 1 - i[p]) = Cardinality(Arrived(b))

Ordered == \A b \in Barriers : Untimed(b) => Order(b)

LEMMA ArrivedArePast ==
  ASSUME Typing, Once, NEW b
  PROVE  Arrived(b) = Past(b)
  <1>1. ASSUME NEW p \in Procs
        PROVE  Spot(p, b) \in Later <=> Been(p, b) \/ (At(p, b) /\ pc[p] \notin Before)
    <2>1. pc[p] \in Labels \cup OutLabels /\ (At(p, b) => ~Been(p, b))
      BY NotAgain DEF Typing, At
    <2>. QED
      BY <2>1 DEF Spot, Later, Before, Labels, OutLabels
  <1>. QED
    BY <1>1 DEF Arrived, Past

LEMMA ArrivedFinite ==
  ASSUME NEW b
  PROVE  /\ IsFiniteSet(Arrived(b)) /\ Cardinality(Arrived(b)) \in Nat
         /\ IsFiniteSet(Arrived(b)') /\ Cardinality(Arrived(b)') \in Nat
  <1>1. Arrived(b) \subseteq Procs /\ Arrived(b)' \subseteq Procs
    BY DEF Arrived
  <1>. QED
    BY <1>1, ProcsAssumption, FS_Subset, FS_CardinalityType

\* What a step of p does to the spots.
LEMMA SpotMoves ==
  ASSUME Typing, Once, NEW p \in Procs, Step(p), NEW b \in Barriers
  PROVE  /\ \A q \in Procs \ {p} : Spot(q, b)' = Spot(q, b)
         /\ ~At(p, b) => Spot(p, b)' = Spot(p, b)
         /\ At(p, b) =>
              /\ Spot(p, b) = IF pc[p] = "idle" THEN "away" ELSE pc[p]
              /\ Spot(p, b)' = IF pc[p] = "returning" THEN "gone" ELSE pc'[p]
  <1>1. InProgram(p) /\ Elsewhere(p) /\ (Returns(p) \/ GoesOn(p))
    BY Moves
  <1>2. \A q \in Procs : visit[q] \in Nat
    BY DEF Typing
  <1>3. ASSUME NEW q \in Procs \ {p}
        PROVE  Spot(q, b)' = Spot(q, b)
    BY <1>1 DEF Elsewhere, Spot, Been, At, InProgram, Here
  <1>4. CASE Returns(p)
    <2>1. Been(p, b)' <=> Been(p, b) \/ At(p, b)
      BY <1>1, <1>2, <1>4 DEF Returns, Been, At, Here
    <2>2. Spot(p, b)' = IF Been(p, b)' THEN "gone" ELSE "away"
      BY <1>4 DEF Returns, Spot
    <2>3. ~At(p, b) => Spot(p, b) = IF Been(p, b) THEN "gone" ELSE "away"
      BY DEF Spot
    <2>4. pc[p] = "returning"
      BY <1>4 DEF Returns
    <2>5. At(p, b) => Spot(p, b) = pc[p]
      BY <2>4 DEF Spot
    <2>. QED
      BY <1>3, <2>1, <2>2, <2>3, <2>4, <2>5
  <1>5. CASE GoesOn(p)
    <2>1. /\ Been(p, b)' <=> Been(p, b)
          /\ At(p, b)' <=> At(p, b)
          /\ pc[p] # "returning" /\ pc'[p] # "idle"
      BY <1>5 DEF GoesOn, Been, At, InProgram, Here
    <2>2. CASE At(p, b)
      <3>1. ~Been(p, b)
        BY <2>2, NotAgain DEF At
      <3>. QED
        BY <1>3, <2>1, <2>2, <3>1 DEF Spot
    <2>3. CASE ~At(p, b)
      BY <1>3, <2>1, <2>3 DEF Spot
    <2>. QED
      BY <2>2, <2>3
  <1>. QED
    BY <1>1, <1>4, <1>5

-----------------------------------------------------------------------------
\* Spots that the order of a round does not tell apart.
Alike == {{"away", "arriving"}, Gather, Join, {"releasing"}, {"departing", "returning", "gone"}}

\* A process that goes from spot to spot without changing what it is, or stays.
LEMMA OrderKept ==
  ASSUME NEW b \in Barriers, Order(b), NEW p \in Procs,
         \A q \in Procs \ {p} : Spot(q, b)' = Spot(q, b) /\ i'[q] = i[q],
         Spot(p, b)' = Spot(p, b) \/ \E A \in Alike : Spot(p, b) \in A /\ Spot(p, b)' \in A,
         p \in Gatherers(b) => i'[p] = i[p],
         active'[b] = active[b], arrive'[b] = arrive[b],
         depart'[b] > 0 => depart[b] > 0 \/ Opened(b)
  PROVE  Order(b)'
  <1>1. ASSUME NEW q \in Procs
        PROVE  /\ Spot(q, b)' \in OutLabels <=> Spot(q, b) \in OutLabels
               /\ Spot(q, b)' \in Gather <=> Spot(q, b) \in Gather
               /\ Spot(q, b)' = "releasing" <=> Spot(q, b) = "releasing"
               /\ Spot(q, b)' \in Later <=> Spot(q, b) \in Later
               /\ Spot(q, b)' \in Leave <=> Spot(q, b) \in Leave
               /\ Spot(q, b)' \in Join <=> Spot(q, b) \in Join
               /\ Spot(q, b)' = "awaiting" <=> Spot(q, b) = "awaiting"
    BY DEF Alike, Gather, Join, Leave, Later, OutLabels
  <1>2. /\ Gatherers(b)' = Gatherers(b) /\ Leaders(b)' = Leaders(b) /\ Arrived(b)' = Arrived(b)
        /\ Opened(b)' <=> Opened(b)
    BY <1>1 DEF Gatherers, Leaders, Arrived, Opened
  <1>3. \A q \in Gatherers(b) : i'[q] = i[q]
    BY DEF Gatherers
  <1>. QED
    BY <1>1, <1>2, <1>3 DEF Order

\* p leads the round: nobody has come before it, for then somebody would lead, or all
\* would have come.
LEMMA ArriveFirstOrder ==
  ASSUME Once, IInv, NEW p \in Procs, Step(p), NEW b \in Barriers, Order(b), At(p, b),
         ArriveFirst(p, b)
  PROVE  Order(b)'
  <1>1. /\ \A q \in Procs \ {p} : Spot(q, b)' = Spot(q, b)
        /\ Spot(p, b) = "arriving" /\ Spot(p, b)' = "firstLocked"
        /\ ~active[b] /\ active'[b] /\ i'[p] = Users[b] - 1
        /\ arrive' = arrive /\ depart' = depart
    BY SpotMoves DEF ArriveFirst, Goto, IInv, Typing
  <1>. USE DEF Gather, Join, Leave, Later, OutLabels
  <1>2. Leaders(b) = {} /\ Gatherers(b) = {} /\ ~Opened(b) /\ ~(depart[b] > 0)
    <2>1. Leaders(b) = {} /\ Gatherers(b) = {}
      BY <1>1 DEF Order, Leaders, Gatherers
    <2>2. ~Opened(b)
      BY <1>1 DEF Order
    <2>. QED
      BY <2>1, <2>2 DEF Order
  <1>3. Arrived(b) = {} /\ Arrived(b)' = {}
    <2>1. \A q \in Procs : Spot(q, b) \notin Later
      BY <1>2 DEF Order, Opened
    <2>. QED
      BY <1>1, <2>1 DEF Arrived
  <1>4. Leaders(b)' = {p} /\ Gatherers(b)' = {p}
    BY <1>1, <1>2 DEF Leaders, Gatherers
  <1>5. arrive[b] = 0
    <2>1. arrive[b] <= Cardinality(Arrived(b)) /\ arrive[b] \in Nat
      BY ArrivedArePast DEF IInv, Collected, Typing
    <2>. QED
      BY <1>3, <2>1, FS_EmptySet
  <1>6. ~Opened(b)'
    BY <1>1, <1>2 DEF Opened
  <1>7. \A q \in Procs : Spot(q, b)' \notin OutLabels
    BY <1>1 DEF Order
  <1>8. arrive'[b] + (Users[b] - 1 - i'[p]) = Cardinality(Arrived(b)')
    BY <1>1, <1>3, <1>5, UsersTyped, FS_EmptySet
  <1>. QED
    BY <1>1, <1>2, <1>4, <1>6, <1>7, <1>8 DEF Order

\* p joins the round of the one that leads it.
LEMMA ArriveOtherOrder ==
  ASSUME Once, IInv, NEW p \in Procs, Step(p), NEW b \in Barriers, Order(b), At(p, b),
         ArriveOther(p, b)
  PROVE  Order(b)'
  <1>1. /\ \A q \in Procs \ {p} : Spot(q, b)' = Spot(q, b)
        /\ Spot(p, b) = "arriving" /\ Spot(p, b)' = "otherLocked"
        /\ active[b] /\ active' = active /\ i' = i /\ arrive' = arrive /\ depart' = depart
    BY SpotMoves DEF ArriveOther, Goto, IInv, Typing
  <1>. USE DEF Gather, Join, Leave, Later, OutLabels
  <1>2. /\ Leaders(b)' = Leaders(b) /\ Gatherers(b)' = Gatherers(b) /\ Arrived(b)' = Arrived(b)
        /\ Opened(b)' <=> Opened(b)
    BY <1>1 DEF Leaders, Gatherers, Arrived, Opened
  <1>3. Gatherers(b) # {} \/ Opened(b)
    BY <1>1 DEF Order, Leaders, Gatherers, Opened
  <1>4. ~Opened(b)
    BY <1>1 DEF Order
  <1>5. \A q \in Procs : Spot(q, b)' \notin OutLabels
    BY <1>1 DEF Order
  <1>. QED
    BY <1>1, <1>2, <1>3, <1>4, <1>5 DEF Order

\* An arrival is collected, or signalled: the count stays right.
LEMMA CollectOrder ==
  ASSUME Once, IInv, NEW p \in Procs, Step(p), NEW b \in Barriers, Order(b), At(p, b),
         Collect(p, b)
  PROVE  Order(b)'
  <1>1. /\ \A q \in Procs : Spot(q, b)' = Spot(q, b)
        /\ Spot(p, b) = "collecting" /\ i'[p] = i[p] - 1 /\ arrive'[b] = arrive[b] - 1
        /\ active' = active /\ depart' = depart
    <2>1. pc'[p] = "collecting" /\ pc[p] = "collecting"
      BY DEF Collect
    <2>2. Spot(p, b) = "collecting" /\ Spot(p, b)' = "collecting"
      BY <2>1, SpotMoves DEF IInv
    <2>3. i'[p] = i[p] - 1 /\ arrive'[b] = arrive[b] - 1 /\ active' = active /\ depart' = depart
      BY DEF Collect, Dec, IInv, Typing
    <2>. QED
      BY <2>2, <2>3, SpotMoves DEF IInv
  <1>2. /\ Leaders(b)' = Leaders(b) /\ Gatherers(b)' = Gatherers(b) /\ Arrived(b)' = Arrived(b)
        /\ Opened(b)' <=> Opened(b)
    BY <1>1 DEF Leaders, Gatherers, Arrived, Opened
  <1>3. \A q \in Gatherers(b) : q = p
    BY <1>1 DEF Order, Gatherers, Leaders, Gather
  <1>4. arrive'[b] + (Users[b] - 1 - i'[p]) = arrive[b] + (Users[b] - 1 - i[p])
    BY <1>1, UsersTyped DEF IInv, Typing
  <1>. QED
    BY <1>1, <1>2, <1>3, <1>4 DEF Order

LEMMA SignalOrder ==
  ASSUME Once, IInv, NEW p \in Procs, Step(p), NEW b \in Barriers, Order(b), At(p, b),
         SignalArrival(p, b)
  PROVE  Order(b)'
  <1>1. /\ \A q \in Procs \ {p} : Spot(q, b)' = Spot(q, b)
        /\ Spot(p, b) = "signalling" /\ Spot(p, b)' = "awaiting"
        /\ i' = i /\ arrive'[b] = arrive[b] + 1 /\ active' = active /\ depart' = depart
    BY SpotMoves DEF SignalArrival, Goto, Inc, IInv, Typing
  <1>. USE DEF Gather, Join, Leave, Later, OutLabels
  <1>2. /\ Leaders(b)' = Leaders(b) /\ Gatherers(b)' = Gatherers(b)
        /\ Arrived(b)' = Arrived(b) \cup {p} /\ p \notin Arrived(b)
        /\ Opened(b)' <=> Opened(b)
    BY <1>1 DEF Leaders, Gatherers, Arrived, Opened
  <1>3. Cardinality(Arrived(b)') = Cardinality(Arrived(b)) + 1
    BY <1>2, ArrivedFinite, FS_AddElement
  <1>4. ~Opened(b) /\ Gatherers(b) # {}
    BY <1>1 DEF Order
  <1>5. ASSUME NEW q \in Gatherers(b)
        PROVE  arrive'[b] + (Users[b] - 1 - i'[q]) = Cardinality(Arrived(b)')
    <2>1. arrive[b] + (Users[b] - 1 - i[q]) = Cardinality(Arrived(b))
      BY DEF Order
    <2>2. i[q] \in Nat /\ arrive[b] \in Nat /\ Users[b] \in Nat
      BY UsersTyped DEF IInv, Typing, Gatherers
    <2>. QED
      BY <1>1, <1>3, <2>1, <2>2, ArrivedFinite
  <1>6. \A q \in Procs : Spot(q, b)' \notin OutLabels
    BY <1>1 DEF Order
  <1>. QED
    BY <1>1, <1>2, <1>4, <1>5, <1>6 DEF Order

\* The leader has collected everything, and all others wait.
LEMMA BeginReleaseOrder ==
  ASSUME Once, Registered, IInv, NEW p \in Procs, Step(p), NEW b \in Barriers, Order(b),
         At(p, b), BeginRelease(p, b)
  PROVE  Order(b)'
  <1>1. /\ \A q \in Procs \ {p} : Spot(q, b)' = Spot(q, b)
        /\ Spot(p, b) = "collecting" /\ Spot(p, b)' = "releasing"
        /\ arrive' = arrive /\ active' = active /\ depart' = depart
    BY SpotMoves DEF BeginRelease, Goto, IInv, Typing
  <1>. USE DEF Gather, Join, Leave, Later, OutLabels
  <1>2. \A q \in Procs \ {p} : Spot(q, b) \in Later
    <2>1. \A q \in Procs \ {p} : q \in Past(b)
      BY AllPast DEF At, BeginRelease, Goto, IInv
    <2>. QED
      BY <2>1, ArrivedArePast DEF IInv, Arrived
  <1>3. Leaders(b)' = {p} /\ Gatherers(b)' = {} /\ p \in Leaders(b)
    BY <1>1, <1>2 DEF Leaders, Gatherers
  <1>4. Opened(b)'
    BY <1>1 DEF Opened
  <1>5. \A q \in Procs : Spot(q, b)' \notin OutLabels
    BY <1>1 DEF Order
  <1>. QED
    BY <1>1, <1>2, <1>3, <1>4, <1>5 DEF Order

\* The leader is done, or a process it has let go leaves.
LEMMA LeaveOrder ==
  ASSUME Once, IInv, NEW p \in Procs, Step(p), NEW b \in Barriers, Order(b), At(p, b),
         EndRelease(p, b) \/ Depart(p, b)
  PROVE  Order(b)'
  <1>1. /\ \A q \in Procs \ {p} : Spot(q, b)' = Spot(q, b)
        /\ Spot(p, b)' = "departing" /\ Spot(p, b) \in {"releasing", "awaiting"}
        /\ arrive' = arrive
    BY SpotMoves DEF EndRelease, Depart, Goto, IInv, Typing
  <1>. USE DEF Gather, Join, Leave, Later, OutLabels
  <1>2. Opened(b) /\ Opened(b)'
    <2>1. CASE EndRelease(p, b)
      <3>1. Spot(p, b) = "releasing"
        BY <2>1, SpotMoves DEF EndRelease, Goto, IInv
      <3>. QED
        BY <1>1, <3>1 DEF Opened
    <2>2. CASE Depart(p, b)
      BY <1>1, <2>2 DEF Depart, Dec, Order, Opened
    <2>. QED
      BY <2>1, <2>2
  <1>3. \A q \in Procs : Spot(q, b)' \in Later \cup {"releasing"} /\ Spot(q, b)' \notin OutLabels
    BY <1>1, <1>2 DEF Order
  <1>4. Gatherers(b)' = {} /\ Leaders(b)' = Leaders(b) \ {p}
    BY <1>1, <1>3 DEF Leaders, Gatherers, Order
  <1>5. active'[b] <=> Leaders(b)' # {}
    <2>1. CASE EndRelease(p, b)
      <3>1. Spot(p, b) = "releasing" /\ ~active'[b]
        BY <2>1, SpotMoves DEF EndRelease, Goto, IInv, Typing
      <3>. QED
        BY <1>4, <3>1 DEF Order, Leaders
    <2>2. CASE Depart(p, b)
      <3>1. Spot(p, b) = "awaiting" /\ active' = active
        BY <2>2, SpotMoves DEF Depart, Goto, IInv
      <3>. QED
        BY <1>4, <3>1 DEF Order, Leaders
    <2>. QED
      BY <2>1, <2>2
  <1>. QED
    BY <1>2, <1>3, <1>4, <1>5 DEF Order

\* Nobody gives up a call without a deadline.
LEMMA UntimedCall ==
  ASSUME Typing, NEW p \in Procs, InProgram(p), NEW b \in Barriers, At(p, b), Untimed(b)
  PROVE  ~Timed(p)
  BY HereTyped DEF Untimed, At, Here, Timed

\* A step at another barrier.
LEMMA ElsewhereOrder ==
  ASSUME Once, IInv, NEW p \in Procs, Step(p), NEW b \in Barriers, Order(b), ~At(p, b)
  PROVE  Order(b)'
  <1>1. /\ InProgram(p) /\ Elsewhere(p) /\ Here(p) \in Barriers /\ Here(p) # b
        /\ \A q \in Procs : Spot(q, b)' = Spot(q, b)
    BY Moves, SpotMoves, HereTyped DEF At, IInv
  <1>2. \A q \in Procs \ {p} : i'[q] = i[q]
    BY <1>1 DEF Elsewhere
  <1>3. p \notin Gatherers(b)
    BY DEF Gatherers, Gather, Spot
  <1>4. active'[b] = active[b] /\ arrive'[b] = arrive[b] /\ depart'[b] = depart[b]
    <2>. USE DEF IInv, Typing
    <2>1. CASE Call(p) \/ ReturnResult(p) \/ UnlockSync(p) \/ Relock(p) \/ Return(p)
      BY <2>1 DEF Call, ReturnResult, Return, UnlockSync, Relock
    <2>2. CASE ArriveFirst(p, Here(p)) \/ ArriveOther(p, Here(p)) \/ UnlockBarrier(p, Here(p))
      BY <1>1, <2>2 DEF ArriveFirst, ArriveOther, UnlockBarrier
    <2>3. CASE \/ Collect(p, Here(p)) \/ BeginRelease(p, Here(p)) \/ Release(p, Here(p))
               \/ EndRelease(p, Here(p)) \/ SignalArrival(p, Here(p)) \/ Depart(p, Here(p))
      BY <1>1, <2>3 DEF Collect, BeginRelease, Release, EndRelease, SignalArrival, Depart, Inc, Dec
    <2>4. CASE Barrier_sync_to(p, Here(p))
      BY <1>1, <2>4 DEF Barrier_sync_to, FailToArrive, FailToCollect, FailToDepart, GiveUp,
         RelockFailed, DrainArrive, ArriveDrained, DrainDepart, DepartDrained, Reset, Dec
    <2>. QED
      BY <2>1, <2>2, <2>3, <2>4 DEF Step, Barrier_sync
  <1>. QED
    BY <1>1, <1>2, <1>3, <1>4, OrderKept DEF Order

\* A step that changes no more than the place of p in its part of the call, or lets one
\* waiter go.
LEMMA InertOrder ==
  ASSUME Once, IInv, NEW p \in Procs, Step(p), NEW b \in Barriers, Order(b), At(p, b),
         \/ Call(p) \/ UnlockBarrier(p, b) \/ UnlockSync(p) \/ Release(p, b) \/ Relock(p)
         \/ ReturnResult(p)
  PROVE  Order(b)'
  <1>1. Elsewhere(p) /\ \A q \in Procs \ {p} : Spot(q, b)' = Spot(q, b)
    BY Moves, SpotMoves DEF IInv
  <1>2. \A q \in Procs \ {p} : i'[q] = i[q]
    BY <1>1 DEF Elsewhere
  <1>3. /\ Spot(p, b) = IF pc[p] = "idle" THEN "away" ELSE pc[p]
        /\ Spot(p, b)' = IF pc[p] = "returning" THEN "gone" ELSE pc'[p]
    BY SpotMoves DEF IInv
  <1>. USE DEF IInv, Typing, Goto
  <1>4. CASE Call(p) \/ Relock(p) \/ ReturnResult(p)
    <2>1. /\ \/ Spot(p, b) = "away" /\ Spot(p, b)' = "arriving"
             \/ Spot(p, b) = "departing" /\ Spot(p, b)' = "returning"
             \/ Spot(p, b) = "returning" /\ Spot(p, b)' = "gone"
          /\ i' = i /\ active' = active /\ arrive' = arrive /\ depart' = depart
      BY <1>3, <1>4 DEF Call, Relock, ReturnResult, Return
    <2>2. \E A \in Alike : Spot(p, b) \in A /\ Spot(p, b)' \in A
      BY <2>1 DEF Alike
    <2>. QED
      BY <1>1, <1>2, <2>1, <2>2, OrderKept
  <1>5. CASE UnlockBarrier(p, b) \/ UnlockSync(p)
    <2>1. /\ \/ Spot(p, b) \in Gather /\ Spot(p, b)' \in Gather
             \/ Spot(p, b) \in Join /\ Spot(p, b)' \in Join
          /\ i' = i /\ active' = active /\ arrive' = arrive /\ depart' = depart
      BY <1>3, <1>5 DEF UnlockBarrier, UnlockSync, Gather, Join
    <2>2. \E A \in Alike : Spot(p, b) \in A /\ Spot(p, b)' \in A
      BY <2>1 DEF Alike
    <2>. QED
      BY <1>1, <1>2, <2>1, <2>2, OrderKept
  <1>6. CASE Release(p, b)
    <2>1. /\ Spot(p, b) = "releasing" /\ Spot(p, b)' = "releasing"
          /\ active' = active /\ arrive' = arrive
      BY <1>3, <1>6 DEF Release
    <2>2. Opened(b) /\ p \notin Gatherers(b)
      BY <2>1 DEF Opened, Leave, Gatherers, Gather
    <2>. QED
      BY <1>1, <1>2, <2>1, <2>2, OrderKept
  <1>. QED
    BY <1>4, <1>5, <1>6

LEMMA OrderStep ==
  ASSUME Once, Registered, IInv, NEW p \in Procs, Step(p), NEW b \in Barriers, Untimed(b),
         Order(b)
  PROVE  Order(b)'
  <1>1. CASE At(p, b)
    <2>1. InProgram(p) /\ Here(p) = b /\ ~Timed(p)
      BY <1>1, UntimedCall DEF At, IInv
    <2>2. Return(p) => pc[p] = "returning"
      BY DEF Return, Goto
    <2>3. \/ Call(p) \/ ReturnResult(p) \/ ArriveFirst(p, b) \/ ArriveOther(p, b)
          \/ UnlockBarrier(p, b) \/ UnlockSync(p) \/ Collect(p, b) \/ BeginRelease(p, b)
          \/ Release(p, b) \/ EndRelease(p, b) \/ SignalArrival(p, b) \/ Depart(p, b) \/ Relock(p)
      <3>1. b = Here(p) => (Barrier_sync(p, Here(p)) => Barrier_sync(p, b))
        BY DEF Barrier_sync, ArriveFirst, ArriveOther, UnlockBarrier, Collect, BeginRelease,
           Release, EndRelease, SignalArrival, Depart, Inc, Dec
      <3>2. b = Here(p) => (ReturnResult(p) => ReturnResult(p))
        BY DEF ReturnResult
      <3>. QED
        BY <2>1, <2>2, <3>1, <3>2, Zenon DEF Step, Barrier_sync
    <2>. QED
      BY <1>1, <2>3, InertOrder, ArriveFirstOrder, ArriveOtherOrder, CollectOrder, SignalOrder,
         BeginReleaseOrder, LeaveOrder
  <1>2. CASE ~At(p, b)
    BY <1>2, ElsewhereOrder
  <1>. QED
    BY <1>1, <1>2

\* The order of a round in which nobody gives up, whatever happens at other barriers.
LEMMA OrderedHolds ==
  ASSUME Once, Registered
  PROVE  Spec => []Ordered
  <1>1. ASSUME Init
        PROVE  Ordered
    <2>1. ASSUME NEW b \in Barriers
          PROVE  Order(b)
      <3>1. \A p \in Procs : Spot(p, b) = "away"
        BY <1>1 DEF Init, InitWith, Spot, Been
      <3>2. Gatherers(b) = {} /\ Leaders(b) = {} /\ ~Opened(b)
        BY <3>1 DEF Gatherers, Leaders, Opened, Gather, Leave
      <3>. QED
        BY <1>1, <3>1, <3>2 DEF Init, InitWith, Order, OutLabels, Join
    <2>. QED
      BY <2>1 DEF Ordered
  <1>2. ASSUME IInv, Ordered, [Next]_tvars
        PROVE  Ordered'
    <2>1. ASSUME NEW p \in Procs, Step(p)
          PROVE  Ordered'
      BY <1>2, <2>1, OrderStep DEF Ordered, Untimed
    <2>2. CASE UNCHANGED tvars
      <3>1. \A p, b : Spot(p, b)' = Spot(p, b)
        BY <2>2 DEF tvars, vars, Spot, At, Been, InProgram, Here
      <3>2. ASSUME NEW b \in Barriers, Order(b)
            PROVE  Order(b)'
        BY <2>2, <3>1, <3>2 DEF tvars, vars, Order, Gatherers, Leaders, Arrived, Opened
      <3>. QED
        BY <1>2, <3>2 DEF Ordered, Untimed
    <2>. QED
      BY <1>2, <2>1, <2>2 DEF Next, Terminated
  <1>. QED
    BY <1>1, <1>2, InvariantHolds, PTL DEF Spec

\* All are counted at each barrier, and nobody else.
Exact == \A b \in Barriers : Users[b] = N

\* A barrier all of whose users wait in calls without a deadline is not one that a call
\* with a deadline was ever made at; one of them leads, and has collected all the others.
LEMMA NotAllStuck ==
  ASSUME Once, Exact, IInv, Ordered
  PROVE  NobodyAbandoned
  <1>. SUFFICES ASSUME NEW b \in Barriers, \A p \in Procs : Stuck(p) /\ Here(p) = b
                PROVE  FALSE
    BY DEF NobodyAbandoned
  <1>1. ASSUME NEW p \in Procs
        PROVE  /\ Spot(p, b) = pc[p] /\ At(p, b) /\ ~Timed(p)
               /\ \/ pc[p] = "collecting" /\ i[p] > 0 /\ arrive[b] = 0
                  \/ pc[p] = "awaiting"
    BY DEF Stuck, At, Spot
  <1>2. Untimed(b)
    <2>1. ASSUME NEW p \in Procs, NEW k \in 1..Rounds(p), Program[p][k].bar = b
          PROVE  ~Program[p][k].timed
      <3>1. visit[p] + 1 \in 1..Rounds(p) /\ Program[p][visit[p] + 1].bar = b
        BY <1>1, HereTyped DEF At, Here, IInv
      <3>2. k = visit[p] + 1
        BY <2>1, <3>1 DEF Once
      <3>. QED
        BY <1>1, <3>2 DEF Timed
    <2>. QED
      BY <2>1 DEF Untimed
  <1>3. Order(b) /\ ~Opened(b)
    BY <1>1, <1>2 DEF Ordered, Opened, Leave
  <1>4. PICK l \in Gatherers(b) : TRUE
    <2>1. PICK p \in Procs : TRUE
      BY ProcsAssumption
    <2>2. CASE pc[p] = "awaiting"
      BY <1>1, <1>3, <2>2 DEF Order
    <2>3. CASE pc[p] = "collecting"
      BY <1>1, <2>3 DEF Gatherers, Gather
    <2>. QED
      BY <1>1, <2>2, <2>3
  <1>5. l \in Procs /\ i[l] > 0 /\ arrive[b] = 0 /\ pc[l] = "collecting"
    BY <1>1, <1>4 DEF Gatherers, Gather
  <1>6. Arrived(b) = Procs \ {l}
    <2>1. ASSUME NEW q \in Procs, q # l
          PROVE  Spot(q, b) = "awaiting"
      BY <1>1, <1>3, <1>4, <2>1 DEF Order, Leaders, Gatherers, Gather
    <2>. QED
      BY <1>1, <1>5, <2>1 DEF Arrived, Later, OutLabels
  <1>7. Cardinality(Arrived(b)) = N - 1
    BY <1>5, <1>6, ProcsAssumption, FS_RemoveElement DEF N
  <1>8. 0 + (N - 1 - i[l]) = N - 1
    BY <1>3, <1>4, <1>5, <1>7 DEF Order, Exact
  <1>. QED
    BY <1>5, <1>8, NPositive DEF IInv, Typing

\* "This will block until all participating processes reach this point"
\* (blts_sync.c:478), and no longer: calls with a deadline that are given up, drained
\* and reset at other barriers do not leave all the users of one waiting for ever.
THEOREM NobodyLeftWaiting ==
  ASSUME Once, Exact
  PROVE  Spec => []NobodyAbandoned
  <1>1. Registered
    BY NPositive DEF Exact, Registered
  <1>. QED
    BY <1>1, NotAllStuck, InvariantHolds, OrderedHolds, PTL
=============================================================================
