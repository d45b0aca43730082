----------------------------- MODULE TagTableProofs -----------------------------
(***************************************************************************)
(* Proofs about TagTable, for any finite set of processes and any table,   *)
(* when no tag begins with another one and the processes keep to the rules *)
(* of the interface: register before use, deregister what was registered.  *)
(*                                                                         *)
(* The argument: with the rules a slot's refcount is the number of         *)
(* processes that have registered for its tag, so a slot somebody waits at *)
(* is counted by that process itself and is neither freed nor taken over.  *)
(*                                                                         *)
(* When, besides, all processes run one program that meets between a       *)
(* registration and the first use of its tag, a leader reads a refcount    *)
(* that counts everybody, at the beginning and at the end of its round.    *)
(* Seen by name instead of by slot the table is then a set of barriers     *)
(* with a fixed membership, and what is proved of those holds for it.      *)
(***************************************************************************)
EXTENDS TagTable, FiniteSetTheorems, WellFoundedInduction, TLAPS

\* No tag begins with another one.
Exact == \A t \in AllTags : Prefixed[t] = {t}

\* The rules, as a state of the processes: who registers for a tag is not registered
\* for it, who deregisters or waits is.  Calls about a tag that has no slot do no harm.
Regular(p) ==
  /\ pc[p] = "adding" => Now(p).tag \in Tags \ reg[p]
  /\ pc[p] = "deleting" => Now(p).tag \in reg[p] \/ Candidates(Now(p).tag) = {}
  /\ AtTagged(p) => Now(p).tag \in reg[p]
Disciplined == \A p \in Procs : InProgram(p) => Regular(p)

-----------------------------------------------------------------------------
\* Who has registered for t; the slots that carry t.
Of(t) == {p \in Procs : t \in reg[p]}
OfNext(t) == {p \in Procs : t \in reg'[p]}
InUse(b) == refcount[b] > 0
Carries(b, t) == InUse(b) /\ tagOf[b] = t

Typing == /\ refcount \in [Barriers -> Nat]
          /\ pc \in [Procs -> Labels \cup RegLabels]
          /\ visit \in [Procs -> Nat]
          /\ tagOf \in [Barriers -> AllTags]
          /\ slot \in [Procs -> Barriers]
          /\ reg \in [Procs -> SUBSET Tags]

\* Slot 0 is the anonymous barrier for ever.
Anonymous == InUse(0) /\ tagOf[0] = Default

\* Every other slot in use counts those who have registered for its tag.
Counted == \A b \in Barriers \ {0} : InUse(b) =>
             tagOf[b] \in Tags /\ refcount[b] = Cardinality(Of(tagOf[b]))

\* A tag has one slot if somebody has registered for it, and never two.
Unique == \A b, c \in Barriers : InUse(b) /\ InUse(c) /\ tagOf[b] = tagOf[c] => b = c
Present == \A p \in Procs : \A t \in reg[p] : \E b \in Barriers : Carries(b, t)

IInv == Typing /\ Anonymous /\ Counted /\ Unique /\ Present /\ AtOwnBarrier

-----------------------------------------------------------------------------
\* The lowest of some slots is one of them.
LEMMA LowestIn ==
  ASSUME NEW S, S \subseteq Barriers, S # {}
  PROVE  Lowest(S) \in S
  <1>1. S \subseteq Nat
    BY TableAssumption
  <1>2. PICK x \in S : \A y \in S : ~(<<y, x>> \in OpToRel(<, Nat))
    BY <1>1, NatLessThanWellFounded, WFMin, Zenon
  <1>3. \A y \in S : ~(y < x)
    BY <1>1, <1>2, Zenon DEF OpToRel
  <1>4. \A y \in S : x <= y
    BY <1>1, <1>3
  <1>. QED
    BY <1>4 DEF Lowest

\* With exact tags a tag's candidates are the slot that carries it.
LEMMA TheCandidate ==
  ASSUME Exact, IInv, NEW t \in AllTags, Candidates(t) # {}
  PROVE  /\ Lowest(Candidates(t)) \in Barriers
         /\ Carries(Lowest(Candidates(t)), t)
         /\ t \in Tags => Lowest(Candidates(t)) # 0
  <1>1. Candidates(t) \subseteq Barriers
    BY DEF Candidates
  <1>2. Lowest(Candidates(t)) \in Candidates(t)
    BY <1>1, LowestIn
  <1>. QED
    BY <1>2, TableAssumption DEF Candidates, Exact, Carries, InUse, IInv, Anonymous

LEMMA TheFree ==
  ASSUME FreeSlots # {}, IInv
  PROVE  Lowest(FreeSlots) \in Barriers \ {0} /\ ~InUse(Lowest(FreeSlots))
  <1>1. FreeSlots \subseteq Barriers
    BY DEF FreeSlots
  <1>2. Lowest(FreeSlots) \in FreeSlots
    BY <1>1, LowestIn
  <1>. QED
    BY <1>2 DEF FreeSlots, InUse, IInv, Anonymous

LEMMA NoCandidate ==
  ASSUME Exact, NEW t \in AllTags, Candidates(t) = {}, NEW b \in Barriers
  PROVE  ~Carries(b, t)
  BY DEF Candidates, Exact, Carries, InUse

LEMMA NowTyped ==
  ASSUME Typing, NEW p \in Procs, InProgram(p)
  PROVE  Now(p).tag \in AllTags /\ Now(p).op \in Ops /\ visit[p] + 1 \in 1..Len(Program[p])
  <1>. DEFINE Calls == [op : Ops, tag : AllTags]
  <1>1. Program[p] \in Seq(Calls)
    BY TableAssumption
  <1>2. visit[p] + 1 \in 1..Len(Program[p])
    BY <1>1 DEF Typing, InProgram
  <1>. HIDE DEF Calls
  <1>3. Program[p][visit[p] + 1] \in Calls
    BY <1>1, <1>2
  <1>. QED
    BY <1>2, <1>3 DEF Calls, Now

LEMMA OfFinite ==
  ASSUME NEW t
  PROVE  IsFiniteSet(Of(t)) /\ Cardinality(Of(t)) \in Nat
  <1>1. Of(t) \subseteq Procs
    BY DEF Of
  <1>. QED
    BY <1>1, ProcsAssumption, FS_Subset, FS_CardinalityType

-----------------------------------------------------------------------------
LEMMA InitIInv == Init => IInv
  <1>. SUFFICES ASSUME Init
                PROVE  IInv
    OBVIOUS
  <1>1. Cardinality(Procs) \in Nat /\ Cardinality(Procs) # 0
    BY ProcsAssumption, FS_CardinalityType, FS_EmptySet
  <1>2. /\ refcount = [b \in Barriers |-> IF b = 0 THEN Cardinality(Procs) ELSE 0]
        /\ tagOf = [b \in Barriers |-> Default]
        /\ slot = [p \in Procs |-> 0] /\ reg = [p \in Procs |-> {}]
        /\ pc = [p \in Procs |-> "idle"] /\ visit = [p \in Procs |-> 0]
    BY DEF Init, InitWith
  <1>3. Typing
    BY <1>1, <1>2, TableAssumption DEF Typing, Labels, AllTags
  <1>4. Anonymous /\ Counted /\ Unique /\ Present
    BY <1>1, <1>2, TableAssumption DEF Anonymous, Counted, Unique, Present, InUse
  <1>5. AtOwnBarrier
    BY <1>2 DEF AtOwnBarrier, AtTagged
  <1>. QED
    BY <1>3, <1>4, <1>5 DEF IInv

\* Most steps leave the table alone, and the place of the others.
Elsewhere(p) == \A q \in Procs \ {p} :
  pc'[q] = pc[q] /\ visit'[q] = visit[q] /\ slot'[q] = slot[q] /\ reg'[q] = reg[q]

LEMMA Others ==
  ASSUME Typing, NEW p \in Procs, Step(p)
  PROVE  Elsewhere(p)
  <1>. USE DEF Typing, Elsewhere, Goto
  <1>1. CASE Registration(p, Now(p).tag)
    BY <1>1 DEF Registration, BeginReg, RefExisting, RefNew, RefFull, Unref, UnrefUnknown
  <1>2. CASE CallAnon(p) \/ CallTagged(p, Now(p).tag) \/ CallUnknown(p, Now(p).tag)
    BY <1>2 DEF CallAnon, CallTagged, CallUnknown, Call
  <1>3. CASE Barrier_sync(p, slot[p]) /\ UNCHANGED <<tagOf, slot, reg>>
    BY <1>3 DEF Barrier_sync, ArriveFirst, ArriveOther, UnlockBarrier, UnlockSync, Collect,
       BeginRelease, Release, EndRelease, SignalArrival, Depart, Relock, Return
  <1>. QED
    BY <1>1, <1>2, <1>3 DEF Step

LEMMA TypingStep ==
  ASSUME Exact, IInv, NEW p \in Procs, Step(p), Regular(p)
  PROVE  Typing'
  <1>. DEFINE t == Now(p).tag
  <1>0. Typing /\ t \in AllTags
    BY NowTyped DEF IInv, Step
  <1>. USE DEF Typing, Goto, Labels, RegLabels
  <1>1. CASE RefExisting(p, t)
    <2>1. Lowest(Candidates(t)) \in Barriers /\ t \in Tags
      BY <1>0, <1>1, TheCandidate DEF RefExisting, Regular
    <2>. QED
      BY <1>0, <1>1, <2>1 DEF RefExisting
  <1>2. CASE RefNew(p, t)
    <2>1. Lowest(FreeSlots) \in Barriers /\ t \in Tags
      BY <1>0, <1>2, TheFree DEF RefNew, Regular, Goto
    <2>. QED
      BY <1>0, <1>2, <2>1 DEF RefNew
  <1>3. CASE Unref(p, t)
    <2>1. Lowest(Candidates(t)) \in Barriers /\ refcount[Lowest(Candidates(t))] > 0
      BY <1>0, <1>3, TheCandidate DEF Unref, Carries, InUse
    <2>. QED
      BY <1>0, <1>3, <2>1 DEF Unref, AllTags
  <1>4. CASE BeginReg(p) \/ RefFull(p, t) \/ UnrefUnknown(p, t)
    BY <1>0, <1>4 DEF BeginReg, RefFull, UnrefUnknown
  <1>5. CASE CallTagged(p, t)
    <2>1. Lowest(Candidates(t)) \in Barriers
      BY <1>0, <1>5, TheCandidate DEF CallTagged
    <2>. QED
      BY <1>0, <1>5, <2>1 DEF CallTagged, Call
  <1>6. CASE CallAnon(p) \/ CallUnknown(p, t)
    BY <1>0, <1>6, TableAssumption DEF CallAnon, CallUnknown, Call
  <1>7. CASE Barrier_sync(p, slot[p]) /\ UNCHANGED <<tagOf, slot, reg>>
    BY <1>0, <1>7 DEF Barrier_sync, ArriveFirst, ArriveOther, UnlockBarrier, UnlockSync,
           Collect,
       BeginRelease, Release, EndRelease, SignalArrival, Depart, Relock, Return
  <1>. QED
    BY <1>1, <1>2, <1>3, <1>4, <1>5, <1>6, <1>7 DEF Step, Registration

\* The steps that leave the table and the registrations as they are.
Untouched == UNCHANGED <<refcount, tagOf, reg>>

LEMMA UntouchedKeeps ==
  ASSUME IInv, Untouched
  PROVE  Anonymous' /\ Counted' /\ Unique' /\ Present'
  BY DEF IInv, Untouched, Anonymous, Counted, Unique, Present, Carries, InUse, Of

\* One user more at the tag's slot (blts_sync.c:337-341).
LEMMA RefExistingKeeps ==
  ASSUME Exact, IInv, NEW p \in Procs, NEW t \in Tags \ reg[p], RefExisting(p, t)
  PROVE  Anonymous' /\ Counted' /\ Unique' /\ Present'
  <1>. PICK b : b = Lowest(Candidates(t))
    OBVIOUS
  <1>1. b \in Barriers \ {0} /\ Carries(b, t)
    BY TheCandidate DEF RefExisting, AllTags
  <1>2. /\ refcount \in [Barriers -> Nat] /\ reg \in [Procs -> SUBSET Tags]
        /\ refcount' = [refcount EXCEPT ![b] = @ + 1] /\ tagOf' = tagOf
        /\ reg' = [reg EXCEPT ![p] = @ \cup {t}]
    BY DEF RefExisting, IInv, Typing
  <1>3. \A c \in Barriers : InUse(c)' <=> InUse(c)
    BY <1>1, <1>2 DEF InUse, Carries
  <1>4. Cardinality(Of(t)') = Cardinality(Of(t)) + 1
    <2>1. Of(t)' = Of(t) \cup {p} /\ p \notin Of(t)
      BY <1>2 DEF Of
    <2>. QED
      BY <2>1, OfFinite, FS_AddElement
  <1>5. Anonymous' /\ Unique'
    BY <1>2, <1>3, TableAssumption DEF IInv, Anonymous, Unique
  <1>6. Counted'
    <2>. SUFFICES ASSUME NEW c \in Barriers \ {0}, InUse(c)
                  PROVE  /\ tagOf[c] \in Tags
                         /\ refcount'[c] = Cardinality(Of(tagOf[c])')
      BY <1>2, <1>3 DEF Counted, Of
    <2>1. tagOf[c] \in Tags /\ refcount[c] = Cardinality(Of(tagOf[c]))
      BY DEF IInv, Counted
    <2>2. CASE c = b
      BY <1>1, <1>2, <1>4, <2>1, <2>2 DEF Carries
    <2>3. CASE c # b
      <3>1. tagOf[c] # t
        BY <1>1, <2>3 DEF IInv, Unique, Carries
      <3>2. Of(tagOf[c])' = Of(tagOf[c])
        BY <1>2, <3>1 DEF Of
      <3>. QED
        BY <1>2, <2>1, <2>3, <3>2
    <2>. QED
      BY <2>2, <2>3
  <1>7. Present'
    BY <1>1, <1>2, <1>3 DEF IInv, Present, Carries
  <1>. QED
    BY <1>5, <1>6, <1>7

\* A free slot for a tag nobody has registered for (:343-351).
LEMMA RefNewKeeps ==
  ASSUME Exact, IInv, NEW p \in Procs, NEW t \in Tags \ reg[p], RefNew(p, t)
  PROVE  Anonymous' /\ Counted' /\ Unique' /\ Present'
  <1>. PICK b : b = Lowest(FreeSlots)
    OBVIOUS
  <1>1. b \in Barriers \ {0} /\ ~InUse(b)
    BY TheFree DEF RefNew
  <1>2. /\ refcount \in [Barriers -> Nat] /\ reg \in [Procs -> SUBSET Tags]
        /\ tagOf \in [Barriers -> AllTags]
        /\ refcount' = [refcount EXCEPT ![b] = 1]
        /\ tagOf' = [tagOf EXCEPT ![b] = t]
        /\ reg' = [reg EXCEPT ![p] = @ \cup {t}]
    BY DEF RefNew, IInv, Typing
  <1>3. \A c \in Barriers : ~Carries(c, t)
    BY NoCandidate DEF RefNew, AllTags
  <1>4. \A c \in Barriers \ {b} : (InUse(c)' <=> InUse(c)) /\ tagOf'[c] = tagOf[c]
    BY <1>1, <1>2 DEF InUse
  <1>5. InUse(b)' /\ tagOf'[b] = t /\ refcount'[b] = 1
    BY <1>1, <1>2 DEF InUse
  <1>6. Cardinality(OfNext(t)) = 1
    <2>1. OfNext(t) = {p}
      BY <1>2, <1>3 DEF OfNext, IInv, Present
    <2>. QED
      BY <2>1, FS_Singleton
  <1>7. Anonymous'
    BY <1>1, <1>4, TableAssumption DEF IInv, Anonymous
  <1>8. Unique'
    BY <1>3, <1>4, <1>5 DEF IInv, Unique, Carries
  <1>9. Counted'
    <2>. SUFFICES ASSUME NEW c \in Barriers \ {0}, InUse(c)'
                  PROVE  /\ tagOf'[c] \in Tags
                         /\ refcount'[c] = Cardinality(OfNext(tagOf'[c]))
      BY DEF Counted, Of, OfNext
    <2>1. CASE c = b
      BY <1>5, <1>6, <2>1
    <2>2. CASE c # b
      <3>1. tagOf[c] \in Tags /\ refcount[c] = Cardinality(Of(tagOf[c])) /\ tagOf[c] # t
        BY <1>3, <1>4, <2>2 DEF IInv, Counted, Carries
      <3>2. OfNext(tagOf[c]) = Of(tagOf[c])
        BY <1>2, <1>4, <2>2, <3>1 DEF Of, OfNext
      <3>. QED
        BY <1>2, <1>4, <2>2, <3>1, <3>2
    <2>. QED
      BY <2>1, <2>2
  <1>10. Present'
    <2>. SUFFICES ASSUME NEW q \in Procs, NEW s \in reg'[q]
                  PROVE  \E c \in Barriers : InUse(c)' /\ tagOf'[c] = s
      BY DEF Present, Carries
    <2>1. CASE s = t
      BY <1>1, <1>5, <2>1
    <2>2. CASE s # t
      <3>1. PICK c \in Barriers : Carries(c, s)
        BY <1>2, <2>2 DEF IInv, Present
      <3>. QED
        BY <1>1, <1>4, <3>1 DEF Carries
    <2>. QED
      BY <2>1, <2>2
  <1>. QED
    BY <1>7, <1>8, <1>9, <1>10

\* One user less, and nobody's slot if it was the last (:360-376).
LEMMA UnrefKeeps ==
  ASSUME Exact, IInv, NEW p \in Procs, NEW t \in reg[p], Unref(p, t)
  PROVE  Anonymous' /\ Counted' /\ Unique' /\ Present'
  <1>. PICK b : b = Lowest(Candidates(t))
    OBVIOUS
  <1>0. t \in Tags /\ t \in AllTags
    BY DEF IInv, Typing, AllTags
  <1>1. b \in Barriers \ {0} /\ Carries(b, t)
    BY <1>0, TheCandidate DEF Unref
  <1>2. /\ refcount \in [Barriers -> Nat] /\ reg \in [Procs -> SUBSET Tags]
        /\ tagOf \in [Barriers -> AllTags]
        /\ refcount' = [refcount EXCEPT ![b] = @ - 1]
        /\ reg' = [reg EXCEPT ![p] = @ \ {t}]
    BY DEF Unref, IInv, Typing
  <1>3. /\ refcount[b] > 1 => tagOf' = tagOf
        /\ ~(refcount[b] > 1) => tagOf' = [tagOf EXCEPT ![b] = Default]
    BY DEF Unref
  <1>4. /\ \A c \in Barriers \ {b} : (InUse(c)' <=> InUse(c)) /\ tagOf'[c] = tagOf[c]
        /\ refcount[b] \in Nat /\ refcount[b] > 0 /\ refcount'[b] = refcount[b] - 1
        /\ InUse(b)' => tagOf'[b] = t
    BY <1>1, <1>2, <1>3 DEF InUse, Carries
  <1>5. Cardinality(OfNext(t)) = refcount[b] - 1
    <2>1. OfNext(t) = Of(t) \ {p} /\ p \in Of(t)
      BY <1>2 DEF Of, OfNext
    <2>2. Cardinality(Of(t)) = refcount[b]
      BY <1>1 DEF IInv, Counted, Carries
    <2>. QED
      BY <2>1, <2>2, OfFinite, FS_RemoveElement
  <1>6. IsFiniteSet(OfNext(t))
    <2>1. OfNext(t) \subseteq Procs
      BY DEF OfNext
    <2>. QED
      BY <2>1, ProcsAssumption, FS_Subset
  <1>7. Anonymous'
    BY <1>1, <1>4, TableAssumption DEF IInv, Anonymous
  <1>8. Unique'
    BY <1>1, <1>4 DEF IInv, Unique, Carries
  <1>9. Counted'
    <2>. SUFFICES ASSUME NEW c \in Barriers \ {0}, InUse(c)'
                  PROVE  /\ tagOf'[c] \in Tags
                         /\ refcount'[c] = Cardinality(OfNext(tagOf'[c]))
      BY DEF Counted, Of, OfNext
    <2>1. CASE c = b
      BY <1>0, <1>4, <1>5, <2>1
    <2>2. CASE c # b
      <3>1. tagOf[c] \in Tags /\ refcount[c] = Cardinality(Of(tagOf[c])) /\ tagOf[c] # t
        BY <1>1, <1>4, <2>2 DEF IInv, Counted, Unique, Carries
      <3>2. OfNext(tagOf[c]) = Of(tagOf[c])
        BY <1>2, <3>1 DEF Of, OfNext
      <3>. QED
        BY <1>2, <1>4, <2>2, <3>1, <3>2
    <2>. QED
      BY <2>1, <2>2
  <1>10. Present'
    <2>. SUFFICES ASSUME NEW q \in Procs, NEW s \in reg'[q]
                  PROVE  \E c \in Barriers : InUse(c)' /\ tagOf'[c] = s
      BY DEF Present, Carries
    <2>1. CASE s = t
      <3>1. q \in OfNext(t)
        BY <2>1 DEF OfNext
      <3>2. refcount[b] - 1 # 0
        BY <1>5, <1>6, <3>1, FS_EmptySet
      <3>3. InUse(b)'
        BY <1>4, <3>2 DEF InUse
      <3>. QED
        BY <1>1, <1>4, <2>1, <3>3
    <2>2. CASE s # t
      <3>1. PICK c \in Barriers : Carries(c, s)
        BY <1>2, <2>2 DEF IInv, Present
      <3>. QED
        BY <1>1, <1>4, <2>2, <3>1 DEF Carries
    <2>. QED
      BY <2>1, <2>2
  <1>. QED
    BY <1>7, <1>8, <1>9, <1>10

-----------------------------------------------------------------------------
\* No other step changes the table.
LEMMA TableStep ==
  ASSUME Exact, IInv, NEW p \in Procs, Step(p), Regular(p)
  PROVE  Anonymous' /\ Counted' /\ Unique' /\ Present'
  <1>. DEFINE t == Now(p).tag
  <1>0. t \in AllTags
    BY NowTyped DEF IInv, Step
  <1>1. CASE RefExisting(p, t)
    BY <1>1, RefExistingKeeps DEF RefExisting, Goto, Regular
  <1>2. CASE RefNew(p, t)
    BY <1>2, RefNewKeeps DEF RefNew, Goto, Regular
  <1>3. CASE Unref(p, t)
    BY <1>3, UnrefKeeps DEF Unref, Goto, Regular
  <1>4. CASE BeginReg(p) \/ RefFull(p, t) \/ UnrefUnknown(p, t)
    BY <1>4, UntouchedKeeps DEF BeginReg, RefFull, UnrefUnknown, Untouched
  <1>5. CASE CallAnon(p) \/ CallTagged(p, t) \/ CallUnknown(p, t)
    BY <1>5, UntouchedKeeps DEF CallAnon, CallTagged, CallUnknown, Call, Untouched
  <1>6. CASE Barrier_sync(p, slot[p]) /\ UNCHANGED <<tagOf, slot, reg>>
    <2>1. Untouched
      BY <1>6 DEF Barrier_sync, ArriveFirst, ArriveOther, UnlockBarrier, UnlockSync,
             Collect,
         BeginRelease, Release, EndRelease, SignalArrival, Depart, Relock, Return, Untouched
    <2>. QED
      BY <2>1, UntouchedKeeps
  <1>. QED
    BY <1>1, <1>2, <1>3, <1>4, <1>5, <1>6 DEF Step, Registration

\* A slot whose tag another process is registered for stays in use and keeps the tag.
LEMMA SlotKept ==
  ASSUME Exact, IInv, NEW p \in Procs, Step(p), Regular(p),
         NEW c \in Barriers, InUse(c), NEW q \in Procs \ {p}, tagOf[c] \in reg[q]
  PROVE  InUse(c)' /\ tagOf'[c] = tagOf[c]
  <1>. DEFINE t == Now(p).tag
  <1>0. /\ t \in AllTags /\ Present' /\ reg'[q] = reg[q]
        /\ refcount \in [Barriers -> Nat] /\ tagOf \in [Barriers -> AllTags]
    BY NowTyped, TableStep, Others DEF IInv, Typing, Step, Elsewhere
  <1>1. CASE RefExisting(p, t)
    BY <1>0, <1>1, TheCandidate DEF RefExisting, InUse
  <1>2. CASE RefNew(p, t)
    <2>1. Lowest(FreeSlots) # c
      BY <1>2, TheFree DEF RefNew
    <2>. QED
      BY <1>0, <1>2, <2>1 DEF RefNew, InUse
  <1>3. CASE Unref(p, t)
    <2>. PICK b : b = Lowest(Candidates(t))
      OBVIOUS
    <2>1. /\ b \in Barriers /\ Carries(b, t)
          /\ refcount' = [refcount EXCEPT ![b] = @ - 1]
          /\ refcount[b] > 1 => tagOf' = tagOf
          /\ ~(refcount[b] > 1) => tagOf' = [tagOf EXCEPT ![b] = Default]
      BY <1>0, <1>3, TheCandidate DEF Unref
    <2>2. CASE c # b
      BY <1>0, <2>1, <2>2 DEF InUse
    <2>3. CASE c = b /\ refcount[b] > 1
      BY <1>0, <2>1, <2>3 DEF InUse
    <2>4. CASE c = b /\ ~(refcount[b] > 1)
      <3>1. PICK d \in Barriers : InUse(d)' /\ tagOf'[d] = t
        BY <1>0, <2>1, <2>4 DEF Present, Carries
      <3>2. d # b /\ InUse(d) /\ tagOf[d] = t
        BY <1>0, <2>1, <2>4, <3>1 DEF InUse, Carries
      <3>. QED
        BY <2>1, <3>2 DEF IInv, Unique, Carries
    <2>. QED
      BY <2>2, <2>3, <2>4
  <1>4. CASE BeginReg(p) \/ RefFull(p, t) \/ UnrefUnknown(p, t)
    BY <1>4 DEF BeginReg, RefFull, UnrefUnknown, InUse
  <1>5. CASE CallAnon(p) \/ CallTagged(p, t) \/ CallUnknown(p, t)
    BY <1>5 DEF CallAnon, CallTagged, CallUnknown, Call, InUse
  <1>6. CASE Barrier_sync(p, slot[p]) /\ UNCHANGED <<tagOf, slot, reg>>
    BY <1>6 DEF Barrier_sync, ArriveFirst, ArriveOther, UnlockBarrier, UnlockSync, Collect,
       BeginRelease, Release, EndRelease, SignalArrival, Depart, Relock, Return, InUse
  <1>. QED
    BY <1>1, <1>2, <1>3, <1>4, <1>5, <1>6 DEF Step, Registration

\* The process's own call: it finds its slot, and nothing it does there frees it.
LEMMA OwnSlot ==
  ASSUME Exact, IInv, NEW p \in Procs, Step(p), AtTagged(p)'
  PROVE  refcount'[slot'[p]] > 0 /\ tagOf'[slot'[p]] = Now(p).tag /\ visit'[p] = visit[p]
  <1>. DEFINE t == Now(p).tag
  <1>0. /\ t \in AllTags /\ pc \in [Procs -> Labels \cup RegLabels]
        /\ slot \in [Procs -> Barriers] /\ visit \in [Procs -> Nat]
    BY NowTyped DEF IInv, Typing, Step
  <1>1. CASE Registration(p, t)
    <2>1. /\ pc'[p] # "returning" => BeginReg(p)
          /\ visit' = visit
      BY <1>0, <1>1 DEF Registration, BeginReg, RefExisting, RefNew, RefFull, Unref,
         UnrefUnknown, Goto
    <2>. QED
      BY <2>1 DEF AtTagged, BeginReg, Now
  <1>2. CASE CallTagged(p, t)
    <2>1. Carries(Lowest(Candidates(t)), t)
      BY <1>0, <1>2, TheCandidate DEF CallTagged
    <2>. QED
      BY <1>0, <1>2, <2>1 DEF CallTagged, Call, Carries, InUse
  <1>3. CASE CallAnon(p)
    BY <1>0, <1>3 DEF CallAnon, Call, AtTagged, Now
  <1>4. CASE CallUnknown(p, t)
    BY <1>0, <1>4 DEF CallUnknown, Goto, AtTagged
  <1>5. CASE Barrier_sync(p, slot[p]) /\ UNCHANGED <<tagOf, slot, reg>>
    <2>1. UNCHANGED refcount
      BY <1>5 DEF Barrier_sync, ArriveFirst, ArriveOther, UnlockBarrier, UnlockSync,
             Collect,
         BeginRelease, Release, EndRelease, SignalArrival, Depart, Relock, Return
    <2>2. visit' = visit /\ pc[p] \notin {"idle", "returning"}
      <3>1. ~Return(p)
        BY <1>0 DEF Return, Goto, AtTagged
      <3>. QED
        BY <1>0, <1>5, <3>1 DEF Barrier_sync, ArriveFirst, ArriveOther, UnlockBarrier,
               UnlockSync,
           Collect, BeginRelease, Release, EndRelease, SignalArrival, Depart, Relock, Goto
    <2>3. AtTagged(p)
      BY <2>2 DEF AtTagged, InProgram, Now
    <2>. QED
      BY <1>5, <2>1, <2>2, <2>3 DEF IInv, AtOwnBarrier
  <1>. QED
    BY <1>1, <1>2, <1>3, <1>4, <1>5 DEF Step

LEMMA NextIInv ==
  ASSUME Exact, IInv, Disciplined, [Next]_tvars
  PROVE  IInv'
  <1>1. ASSUME NEW p \in Procs, Step(p)
        PROVE  IInv'
    <2>1. Regular(p) /\ Elsewhere(p)
      BY <1>1, Others DEF Step, Disciplined, IInv
    <2>2. ASSUME NEW q \in Procs, AtTagged(q)'
          PROVE  refcount'[slot'[q]] > 0 /\ tagOf'[slot'[q]] = Now(q)'.tag
      <3>1. CASE q = p
        <4>1. refcount'[slot'[p]] > 0 /\ tagOf'[slot'[p]] = Now(p).tag /\ visit'[p] = visit[p]
          BY <1>1, <2>2, <3>1, OwnSlot
        <4>. QED
          BY <3>1, <4>1 DEF Now
      <3>2. CASE q # p
        <4>1. AtTagged(q) /\ Now(q)' = Now(q) /\ slot'[q] = slot[q]
          BY <2>1, <2>2, <3>2 DEF Elsewhere, AtTagged, InProgram, Now
        <4>2. PICK c \in Barriers : c = slot[q]
          BY DEF IInv, Typing
        <4>3. InUse(c) /\ tagOf[c] = Now(q).tag
          BY <4>1, <4>2 DEF IInv, AtOwnBarrier, InUse
        <4>4. tagOf[c] \in reg[q]
          BY <4>1, <4>3 DEF Disciplined, Regular, AtTagged
        <4>5. InUse(c)' /\ tagOf'[c] = tagOf[c]
          BY <1>1, <2>1, <3>2, <4>3, <4>4, SlotKept
        <4>. QED
          BY <4>1, <4>2, <4>3, <4>5 DEF InUse
      <3>. QED
        BY <3>1, <3>2
    <2>3. AtOwnBarrier'
      BY <2>2 DEF AtOwnBarrier
    <2>. QED
      BY <1>1, <2>1, <2>3, TypingStep, TableStep DEF IInv
  <1>2. CASE UNCHANGED tvars
    <2>1. Untouched /\ Typing'
      BY <1>2 DEF tvars, vars, Untouched, IInv, Typing
    <2>2. AtOwnBarrier'
      BY <1>2 DEF tvars, vars, IInv, AtOwnBarrier, AtTagged, InProgram, Now
    <2>. QED
      BY <2>1, <2>2, UntouchedKeeps DEF IInv
  <1>. QED
    BY <1>1, <1>2 DEF Next, Terminated

\* refcount is the "number of registered users" (blts_sync.c:41): with the rules kept,
\* every tag somebody has registered for has one slot, which counts who has.
THEOREM SlotsCount ==
  ASSUME Exact
  PROVE  Spec /\ []Disciplined => []RegistrationsCounted
  <1>1. ASSUME IInv
        PROVE  RegistrationsCounted
    <2>1. ASSUME NEW p \in Procs, NEW t \in reg[p]
          PROVE  Cardinality({b \in Barriers : refcount[b] > 0 /\ tagOf[b] = t}) = 1
      <3>1. PICK b \in Barriers : Carries(b, t)
        BY <1>1, <2>1 DEF IInv, Present
      <3>2. {c \in Barriers : refcount[c] > 0 /\ tagOf[c] = t} = {b}
        BY <1>1, <3>1 DEF IInv, Unique, Carries, InUse
      <3>. QED
        BY <3>2, FS_Singleton
    <2>2. ASSUME NEW b \in Barriers \ {0}, refcount[b] > 0
          PROVE  refcount[b] = Cardinality({p \in Procs : tagOf[b] \in reg[p]})
      BY <1>1, <2>2 DEF IInv, Counted, InUse, Of
    <2>3. ASSUME NEW t \in UNION {reg[p] : p \in Procs}
          PROVE  Cardinality({b \in Barriers : refcount[b] > 0 /\ tagOf[b] = t}) = 1
      <3>1. PICK p \in Procs : t \in reg[p]
        OBVIOUS
      <3>. QED
        BY <2>1, <3>1
    <2>. QED
      BY <2>2, <2>3 DEF RegistrationsCounted
  <1>2. IInv /\ Disciplined /\ [Next]_tvars => IInv'
    BY NextIInv
  <1>. QED
    BY <1>1, <1>2, InitIInv, PTL DEF Spec

\* "Return index of barrier with given tag" (:311): with the rules kept, a process that
\* waits at a slot waits at its tag's, from the look at the table to the end of the call.
THEOREM OwnBarrier ==
  ASSUME Exact
  PROVE  Spec /\ []Disciplined => []AtOwnBarrier
  <1>1. IInv => AtOwnBarrier
    BY DEF IInv
  <1>2. IInv /\ Disciplined /\ [Next]_tvars => IInv'
    BY NextIInv
  <1>. QED
    BY <1>1, <1>2, InitIInv, PTL DEF Spec

-----------------------------------------------------------------------------
\* Programs that keep to the rules.  Holds(p, k, t): behind its k-th call p has
\* registered for t and not deregistered.
Adds(p, j, t) == Program[p][j].op = "add" /\ Program[p][j].tag = t
Dels(p, j, t) == Program[p][j].op = "del" /\ Program[p][j].tag = t
Holds(p, k, t) == \E j \in 1..k : Adds(p, j, t) /\ \A l \in (j + 1)..k : ~Dels(p, l, t)

Rules == \A p \in Procs : \A k \in 1..Len(Program[p]) :
  /\ Program[p][k].op # "anon" => Program[p][k].tag \in Tags
  /\ Program[p][k].op = "add" => ~Holds(p, k - 1, Program[p][k].tag)
  /\ Program[p][k].op \in {"del", "tagged"} => Holds(p, k - 1, Program[p][k].tag)

\* Every tag finds a slot.
Enough == /\ IsFiniteSet(Barriers) /\ IsFiniteSet(Tags)
          /\ Cardinality(Tags) < Cardinality(Barriers)

\* How many calls of p have had their effect on its registrations.
Done(p) == IF pc[p] = "returning" THEN visit[p] + 1 ELSE visit[p]
Tracked == \A p \in Procs : \A t \in Tags : t \in reg[p] <=> Holds(p, Done(p), t)
Placed == \A p \in Procs :
  /\ pc[p] # "idle" => InProgram(p)
  /\ pc[p] = "adding" => Now(p).op = "add"
  /\ pc[p] = "deleting" => Now(p).op = "del"
  /\ pc[p] \notin {"idle", "adding", "deleting", "returning"} => Now(p).op \in {"tagged", "anon"}

LEMMA HoldsNext ==
  ASSUME NEW p \in Procs, NEW k \in Nat, NEW t
  PROVE  /\ Adds(p, k + 1, t) => Holds(p, k + 1, t)
         /\ Dels(p, k + 1, t) => ~Holds(p, k + 1, t)
         /\ ~Adds(p, k + 1, t) /\ ~Dels(p, k + 1, t) => (Holds(p, k + 1, t) <=> Holds(p, k, t))
  <1>1. Adds(p, k + 1, t) => Holds(p, k + 1, t)
    BY DEF Holds
  <1>2. Dels(p, k + 1, t) => ~Holds(p, k + 1, t)
    <2>. SUFFICES ASSUME Dels(p, k + 1, t), NEW j \in 1..(k + 1), Adds(p, j, t),
                         \A l \in (j + 1)..(k + 1) : ~Dels(p, l, t)
                  PROVE  FALSE
      BY DEF Holds
    <2>1. j # k + 1
      BY DEF Adds, Dels
    <2>. QED
      BY <2>1
  <1>3. ASSUME ~Adds(p, k + 1, t), ~Dels(p, k + 1, t), Holds(p, k + 1, t)
        PROVE  Holds(p, k, t)
    <2>1. PICK j \in 1..(k + 1) : Adds(p, j, t) /\ \A l \in (j + 1)..(k + 1) : ~Dels(p, l, t)
      BY <1>3 DEF Holds
    <2>2. j \in 1..k /\ \A l \in (j + 1)..k : l \in (j + 1)..(k + 1)
      BY <1>3, <2>1
    <2>. QED
      BY <2>1, <2>2 DEF Holds
  <1>4. ASSUME ~Dels(p, k + 1, t), Holds(p, k, t)
        PROVE  Holds(p, k + 1, t)
    <2>1. PICK j \in 1..k : Adds(p, j, t) /\ \A l \in (j + 1)..k : ~Dels(p, l, t)
      BY <1>4 DEF Holds
    <2>2. j \in 1..(k + 1) /\ \A l \in (j + 1)..(k + 1) : l = k + 1 \/ l \in (j + 1)..k
      BY <2>1
    <2>. QED
      BY <1>4, <2>1, <2>2 DEF Holds
  <1>. QED
    BY <1>1, <1>2, <1>3, <1>4

\* With a slot for every tag the table is never full.
LEMMA NeverFull ==
  ASSUME Exact, Enough, IInv, NEW t \in Tags, Candidates(t) = {}
  PROVE  FreeSlots # {}
  <1>. SUFFICES ASSUME FreeSlots = {}
                PROVE  FALSE
    OBVIOUS
  <1>. DEFINE f == [b \in Barriers |-> tagOf[b]]
              Rest == AllTags \ {t}
  <1>1. \A b \in Barriers : InUse(b) /\ tagOf[b] \in Rest
    <2>. SUFFICES ASSUME NEW b \in Barriers
                  PROVE  InUse(b) /\ tagOf[b] \in Rest
      OBVIOUS
    <2>1. InUse(b)
      BY DEF FreeSlots, InUse, IInv, Typing
    <2>. QED
      BY <2>1, NoCandidate DEF Carries, IInv, Typing, AllTags
  <1>2. f \in Injection(Barriers, Rest)
    BY <1>1 DEF IInv, Unique, Injection, IsInjective
  <1>3. Rest = (Tags \ {t}) \cup {Default} /\ Default \notin Tags \ {t}
    BY TableAssumption DEF AllTags
  <1>4. /\ IsFiniteSet(Tags \ {t}) /\ Cardinality(Tags \ {t}) = Cardinality(Tags) - 1
        /\ Cardinality(Tags) \in Nat /\ Cardinality(Tags \ {t}) \in Nat
    BY FS_RemoveElement, FS_CardinalityType DEF Enough
  <1>5. IsFiniteSet(Rest) /\ Cardinality(Rest) = Cardinality(Tags)
    BY <1>3, <1>4, FS_AddElement
  <1>6. Cardinality(Barriers) <= Cardinality(Rest)
    BY <1>2, <1>5, FS_Injection
  <1>7. Cardinality(Barriers) \in Nat
    BY FS_CardinalityType DEF Enough
  <1>. QED
    BY <1>4, <1>5, <1>6, <1>7 DEF Enough

\* The rules of the program are the rules of its states.
LEMMA RulesDiscipline ==
  ASSUME Rules, IInv, Tracked, Placed
  PROVE  Disciplined
  <1>. SUFFICES ASSUME NEW p \in Procs, InProgram(p)
                PROVE  Regular(p)
    BY DEF Disciplined
  <1>. DEFINE k == visit[p] + 1
              t == Now(p).tag
  <1>0. visit[p] \in Nat /\ k \in 1..Len(Program[p])
    BY NowTyped DEF IInv, Typing
  <1>1. k \in 1..Len(Program[p]) /\ k - 1 = visit[p] /\ Now(p) = Program[p][k]
    BY <1>0 DEF Now
  <1>2. /\ Now(p).op # "anon" => t \in Tags
        /\ Now(p).op = "add" => ~Holds(p, visit[p], t)
        /\ Now(p).op \in {"del", "tagged"} => Holds(p, visit[p], t)
    BY <1>1 DEF Rules
  <1>3. pc[p] # "returning" /\ t \in Tags => (t \in reg[p] <=> Holds(p, visit[p], t))
    BY DEF Tracked, Done
  <1>. QED
    BY <1>2, <1>3 DEF Regular, Placed, AtTagged

\* A call that names a tag its caller is registered for finds the slot.
LEMMA FindsSlot ==
  ASSUME Exact, IInv, NEW p \in Procs, NEW t \in reg[p]
  PROVE  Candidates(t) # {}
  BY NoCandidate DEF IInv, Present, Typing, AllTags

\* Calls have their effect on the registrations before they return, and none fails.
LEMMA TrackedStep ==
  ASSUME Exact, Rules, Enough, IInv, Tracked, Placed, NEW p \in Procs, Step(p)
  PROVE  Tracked' /\ Placed'
  <1>. DEFINE t == Now(p).tag
              k == visit[p] + 1
  <1>0. /\ InProgram(p) /\ t \in AllTags /\ Now(p).op \in Ops /\ Now(p) = Program[p][k]
        /\ pc \in [Procs -> Labels \cup RegLabels] /\ visit \in [Procs -> Nat]
        /\ reg \in [Procs -> SUBSET Tags] /\ Elsewhere(p) /\ visit[p] \in Nat
    BY NowTyped, Others DEF IInv, Typing, Step, Now
  <1>1. Regular(p)
    BY <1>0, RulesDiscipline DEF Disciplined
  <1>2. Now(p).op \in {"del", "tagged"} /\ pc[p] # "returning" => Candidates(t) # {}
    <2>. SUFFICES ASSUME Now(p).op \in {"del", "tagged"}, pc[p] # "returning"
                  PROVE  t \in reg[p]
      BY FindsSlot
    <2>1. k \in 1..Len(Program[p]) /\ k - 1 = visit[p]
      BY <1>0, NowTyped DEF IInv
    <2>2. t \in Tags /\ Holds(p, visit[p], t)
      BY <1>0, <2>1 DEF Rules
    <2>. QED
      BY <2>2 DEF Tracked, Done
  <1>3. SUFFICES
          /\ \A s \in Tags : s \in reg'[p] <=> Holds(p, Done(p)', s)
          /\ pc'[p] # "idle" => visit'[p] = visit[p]
          /\ pc'[p] = "adding" => Now(p).op = "add"
          /\ pc'[p] = "deleting" => Now(p).op = "del"
          /\ pc'[p] \notin {"idle", "adding", "deleting", "returning"}
               => Now(p).op \in {"tagged", "anon"}
    <2>. HIDE DEF t, k
    <2>1. ASSUME NEW q \in Procs \ {p}
          PROVE  /\ Done(q)' = Done(q) /\ Now(q)' = Now(q) /\ InProgram(q)' = InProgram(q)
                 /\ pc'[q] = pc[q] /\ reg'[q] = reg[q]
      BY <1>0 DEF Elsewhere, Done, Now, InProgram
    <2>2. pc'[p] # "idle" => Now(p)' = Now(p) /\ InProgram(p)'
      BY <1>0, <1>3 DEF Now, InProgram
    <2>3. Tracked'
      BY <1>3, <2>1 DEF Tracked
    <2>4. Placed'
      BY <1>3, <2>1, <2>2 DEF Placed
    <2>. QED
      BY <2>3, <2>4
  <1>4. \A s \in Tags :
          /\ Now(p).op = "add" /\ s = t => Holds(p, k, s)
          /\ Now(p).op = "del" /\ s = t => ~Holds(p, k, s)
          /\ s # t \/ Now(p).op \notin {"add", "del"} => (Holds(p, k, s) <=> Holds(p, visit[p], s))
    BY <1>0, HoldsNext DEF Adds, Dels
  <1>5. \A s \in Tags : s \in reg[p] <=>
          Holds(p, IF pc[p] = "returning" THEN k ELSE visit[p], s)
    BY DEF Tracked, Done
  <1>6. CASE BeginReg(p)
    BY <1>0, <1>5, <1>6 DEF BeginReg, Goto, Done
  <1>7. CASE RefExisting(p, t) \/ RefNew(p, t)
    <2>1. /\ pc[p] = "adding" /\ pc'[p] = "returning" /\ visit' = visit
          /\ reg'[p] = reg[p] \cup {t}
      BY <1>0, <1>7 DEF RefExisting, RefNew, Goto
    <2>2. Done(p)' = k
      BY <2>1 DEF Done
    <2>3. Now(p).op = "add"
      BY <2>1 DEF Placed
    <2>. QED
      BY <1>4, <1>5, <2>1, <2>2, <2>3
  <1>8. CASE RefFull(p, t)
    BY <1>1, <1>8, NeverFull DEF RefFull, Goto, Regular
  <1>9. CASE Unref(p, t)
    <2>1. /\ pc[p] = "deleting" /\ pc'[p] = "returning" /\ visit' = visit
          /\ reg'[p] = reg[p] \ {t}
      BY <1>0, <1>9 DEF Unref, Goto
    <2>2. Done(p)' = k
      BY <2>1 DEF Done
    <2>3. Now(p).op = "del"
      BY <2>1 DEF Placed
    <2>. QED
      BY <1>4, <1>5, <2>1, <2>2, <2>3
  <1>10. CASE UnrefUnknown(p, t) \/ CallUnknown(p, t)
    BY <1>2, <1>10 DEF UnrefUnknown, CallUnknown, Goto, Placed
  <1>11. CASE CallAnon(p) \/ CallTagged(p, t)
    BY <1>0, <1>5, <1>11 DEF CallAnon, CallTagged, Call, Goto, Done
  <1>12. CASE Barrier_sync(p, slot[p]) /\ UNCHANGED <<tagOf, slot, reg>>
    <2>1. CASE Return(p)
      BY <1>0, <1>5, <1>12, <2>1 DEF Return, Goto, Done
    <2>2. CASE Relock(p)
      <3>1. pc[p] = "departing" /\ pc'[p] = "returning" /\ visit' = visit
        BY <1>0, <2>2 DEF Relock, Goto
      <3>2. Now(p).op \in {"tagged", "anon"} /\ Done(p)' = k
        BY <3>1 DEF Placed, Done
      <3>. QED
        BY <1>4, <1>5, <1>12, <3>1, <3>2
    <2>3. CASE ~Return(p) /\ ~Relock(p)
      <3>1. /\ pc[p] \notin {"idle", "adding", "deleting", "returning"} /\ visit' = visit
            /\ pc'[p] \notin {"idle", "adding", "deleting", "returning"}
        BY <1>0, <1>12, <2>3 DEF Barrier_sync, ArriveFirst, ArriveOther, UnlockBarrier,
           UnlockSync, Collect, BeginRelease, Release, EndRelease, SignalArrival, Depart,
           Goto
      <3>. QED
        BY <1>5, <1>12, <3>1 DEF Placed, Done
    <2>. QED
      BY <2>1, <2>2, <2>3
  <1>. QED
    BY <1>6, <1>7, <1>8, <1>9, <1>10, <1>11, <1>12 DEF Step, Registration

-----------------------------------------------------------------------------
\* At a barrier, in a tagged or anonymous call.
Outside == {"idle", "adding", "deleting", "returning"}
AtSlot(p) == pc[p] \notin Outside

\* Who is there is at the anonymous barrier or at its tag's.
Attending == /\ refcount[0] = Cardinality(Procs)
             /\ \A p \in Procs : AtSlot(p) =>
                  InProgram(p) /\ (Now(p).op = "tagged" \/ slot[p] = 0)

Counters == /\ syncMutex \in Nat
            /\ mutex \in [Barriers -> Nat]
            /\ active \in [Barriers -> BOOLEAN]
            /\ arrive \in [Barriers -> Nat]
            /\ depart \in [Barriers -> Nat]
            /\ i \in [Procs -> Nat]

\* Each mutex has the value 1 or one holder; that of a free slot has no holder.
SyncHolders == {p \in Procs : HoldsSync(p) \/ pc[p] \in RegLabels}
MutexHolders(b) == {p \in Procs : HoldsMutex(p) /\ slot[p] = b}
Locks == /\ syncMutex + Cardinality(SyncHolders) = 1
         /\ \A b \in Barriers :
              IF InUse(b) THEN mutex[b] + Cardinality(MutexHolders(b)) = 1
                          ELSE mutex[b] <= 1

\* A slot somebody is at is in use.
LEMMA SlotInUse ==
  ASSUME IInv, Attending, NEW p \in Procs, AtSlot(p)
  PROVE  slot[p] \in Barriers /\ InUse(slot[p])
  BY DEF IInv, Typing, Anonymous, Attending, AtSlot, Outside, AtTagged, AtOwnBarrier, InUse

LEMMA HoldersFinite ==
  ASSUME NEW b
  PROVE  /\ IsFiniteSet(SyncHolders) /\ Cardinality(SyncHolders) \in Nat
         /\ IsFiniteSet(MutexHolders(b)) /\ Cardinality(MutexHolders(b)) \in Nat
  <1>1. SyncHolders \subseteq Procs /\ MutexHolders(b) \subseteq Procs
    BY DEF SyncHolders, MutexHolders
  <1>. QED
    BY <1>1, ProcsAssumption, FS_Subset, FS_CardinalityType

LEMMA AttendingStep ==
  ASSUME Exact, IInv, Attending, NEW p \in Procs, Step(p), Regular(p)
  PROVE  Attending'
  <1>. DEFINE t == Now(p).tag
  <1>0. /\ t \in AllTags /\ Elsewhere(p) /\ InProgram(p) /\ 0 \in Barriers
        /\ pc \in [Procs -> Labels \cup RegLabels] /\ slot \in [Procs -> Barriers]
        /\ refcount \in [Barriers -> Nat]
    BY NowTyped, Others, TableAssumption DEF IInv, Typing, Step
  <1>1. ASSUME NEW q \in Procs \ {p}, AtSlot(q)'
        PROVE  InProgram(q)' /\ (Now(q)'.op = "tagged" \/ slot'[q] = 0)
    BY <1>0, <1>1 DEF Attending, Elsewhere, AtSlot, Outside, InProgram, Now
  <1>2. SUFFICES /\ refcount'[0] = refcount[0]
                 /\ AtSlot(p)' => visit' = visit /\ (Now(p).op = "tagged" \/ slot'[p] = 0)
    BY <1>0, <1>1, <1>2 DEF Attending, InProgram, Now
  <1>. USE DEF Goto, AtSlot, Outside
  <1>3. CASE RefExisting(p, t)
    <2>1. Lowest(Candidates(t)) # 0
      BY <1>0, <1>3, TheCandidate DEF RefExisting, Regular
    <2>. QED
      BY <1>0, <1>3, <2>1 DEF RefExisting
  <1>4. CASE RefNew(p, t)
    <2>1. Lowest(FreeSlots) # 0
      BY <1>4, TheFree DEF RefNew
    <2>. QED
      BY <1>0, <1>4, <2>1 DEF RefNew
  <1>5. CASE Unref(p, t)
    <2>1. t \in Tags /\ Lowest(Candidates(t)) # 0
      BY <1>0, <1>5, TheCandidate DEF Unref, Regular, IInv, Typing
    <2>. QED
      BY <1>0, <1>5, <2>1 DEF Unref
  <1>6. CASE BeginReg(p) \/ RefFull(p, t) \/ UnrefUnknown(p, t) \/ CallUnknown(p, t)
    BY <1>0, <1>6 DEF BeginReg, RefFull, UnrefUnknown, CallUnknown
  <1>7. CASE CallAnon(p) \/ CallTagged(p, t)
    BY <1>0, <1>7 DEF CallAnon, CallTagged, Call
  <1>8. CASE Barrier_sync(p, slot[p]) /\ UNCHANGED <<tagOf, slot, reg>>
    <2>1. UNCHANGED refcount
      BY <1>8 DEF Barrier_sync, ArriveFirst, ArriveOther, UnlockBarrier, UnlockSync,
             Collect,
         BeginRelease, Release, EndRelease, SignalArrival, Depart, Relock, Return
    <2>2. AtSlot(p)' => AtSlot(p) /\ visit' = visit
      BY <1>0, <1>8 DEF Barrier_sync, ArriveFirst, ArriveOther, UnlockBarrier, UnlockSync,
         Collect, BeginRelease, Release, EndRelease, SignalArrival, Depart, Relock, Return
    <2>. QED
      BY <1>8, <2>1, <2>2 DEF Attending
  <1>. QED
    BY <1>3, <1>4, <1>5, <1>6, <1>7, <1>8 DEF Step, Registration

LEMMA CountersStep ==
  ASSUME Exact, IInv, Attending, Counters, NEW p \in Procs, Step(p)
  PROVE  Counters'
  <1>. DEFINE t == Now(p).tag
  <1>. USE DEF Counters, Goto
  <1>0. t \in AllTags /\ pc \in [Procs -> Labels \cup RegLabels]
    BY NowTyped DEF IInv, Typing, Step
  <1>1. CASE Registration(p, t)
    <2>1. CASE BeginReg(p) \/ RefExisting(p, t) \/ RefFull(p, t) \/ UnrefUnknown(p, t)
      BY <2>1 DEF BeginReg, RefExisting, RefFull, UnrefUnknown
    <2>2. CASE RefNew(p, t)
      BY <2>2 DEF RefNew
    <2>3. CASE Unref(p, t)
      <3>1. CASE refcount[Lowest(Candidates(t))] > 1
        BY <2>3, <3>1 DEF Unref
      <3>2. CASE ~(refcount[Lowest(Candidates(t))] > 1)
        <4>. PICK b : b = Lowest(Candidates(t))
          OBVIOUS
        <4>1. /\ mutex' = [mutex EXCEPT ![b] = 0] /\ active' = [active EXCEPT ![b] = FALSE]
              /\ arrive' = [arrive EXCEPT ![b] = 0] /\ depart' = [depart EXCEPT ![b] = 0]
              /\ UNCHANGED <<syncMutex, i>>
          BY <2>3, <3>2 DEF Unref
        <4>2. mutex' \in [Barriers -> Nat] /\ arrive' \in [Barriers -> Nat]
          BY <4>1
        <4>3. depart' \in [Barriers -> Nat] /\ active' \in [Barriers -> BOOLEAN]
          BY <4>1
        <4>. QED
          BY <4>1, <4>2, <4>3
      <3>. QED
        BY <3>1, <3>2
    <2>. QED
      BY <1>1, <2>1, <2>2, <2>3 DEF Registration
  <1>2. CASE CallAnon(p) \/ CallTagged(p, t) \/ CallUnknown(p, t)
    BY <1>2 DEF CallAnon, CallTagged, CallUnknown, Call
  <1>3. CASE Barrier_sync(p, slot[p])
    <2>. PICK b : b = slot[p]
      OBVIOUS
    <2>1. CASE ArriveFirst(p, slot[p]) \/ BeginRelease(p, slot[p])
      <3>1. AtSlot(p)
        BY <2>1 DEF ArriveFirst, BeginRelease, AtSlot, Outside
      <3>2. b \in Barriers /\ refcount[b] \in Nat /\ refcount[b] - 1 \in Nat
        BY <3>1, SlotInUse DEF IInv, Typing, InUse
      <3>3. CASE ArriveFirst(p, slot[p])
        BY <3>2, <3>3 DEF ArriveFirst, Dec
      <3>4. CASE BeginRelease(p, slot[p])
        BY <3>2, <3>4 DEF BeginRelease, Dec
      <3>. QED
        BY <2>1, <3>3, <3>4
    <2>2. CASE ArriveOther(p, slot[p]) \/ UnlockBarrier(p, slot[p]) \/ UnlockSync(p)
      BY <2>2 DEF ArriveOther, UnlockBarrier, UnlockSync, Dec, Inc
    <2>3. CASE Collect(p, slot[p]) \/ Release(p, slot[p])
      BY <2>3 DEF Collect, Release, Dec, Inc
    <2>4. CASE EndRelease(p, slot[p])
      <3>1. /\ active' = [active EXCEPT ![b] = FALSE]
            /\ mutex' = [mutex EXCEPT ![b] = @ + 1]
            /\ UNCHANGED <<syncMutex, arrive, depart, i>>
        BY <2>4 DEF EndRelease, Inc
      <3>2. b \in Barriers /\ mutex[b] + 1 \in Nat
        BY DEF IInv, Typing
      <3>3. mutex' \in [Barriers -> Nat]
        BY <3>1, <3>2
      <3>. QED
        BY <3>1, <3>3
    <2>6. CASE SignalArrival(p, slot[p]) \/ Depart(p, slot[p])
      BY <2>6 DEF SignalArrival, Depart, Dec, Inc
    <2>5. CASE Relock(p) \/ Return(p)
      BY <2>5 DEF Relock, Return
    <2>. QED
      BY <1>3, <2>1, <2>2, <2>3, <2>4, <2>5, <2>6 DEF Barrier_sync
  <1>. QED
    BY <1>1, <1>2, <1>3 DEF Step

LEMMA SyncHoldersStep ==
  ASSUME IInv, Counters, syncMutex + Cardinality(SyncHolders) = 1, NEW p \in Procs, Step(p)
  PROVE  syncMutex' + Cardinality(SyncHolders') = 1
  <1>. DEFINE t == Now(p).tag
  <1>0. /\ pc \in [Procs -> Labels \cup RegLabels] /\ syncMutex \in Nat
        /\ syncMutex + Cardinality(SyncHolders) = 1 /\ Cardinality(SyncHolders) \in Nat
        /\ IsFiniteSet(SyncHolders)
    BY HoldersFinite DEF IInv, Typing, Counters
  <1>1. CASE BeginReg(p) \/ CallAnon(p) \/ CallTagged(p, t) \/ CallUnknown(p, t) \/ Relock(p)
    <2>1. /\ p \notin SyncHolders /\ SyncHolders' = SyncHolders \cup {p}
          /\ syncMutex' = syncMutex - 1
      BY <1>0, <1>1 DEF BeginReg, CallAnon, CallTagged, CallUnknown, Call, Relock, Goto,
             SyncHolders,
         HoldsSync, RegLabels
    <2>2. Cardinality(SyncHolders') = Cardinality(SyncHolders) + 1
      BY <1>0, <2>1, FS_AddElement
    <2>. QED
      BY <1>0, <2>1, <2>2
  <1>2. CASE UnlockSync(p) \/ Return(p)
    <2>1. /\ p \in SyncHolders /\ SyncHolders' = SyncHolders \ {p}
          /\ syncMutex' = syncMutex + 1
      BY <1>0, <1>2 DEF UnlockSync, Return, Goto, SyncHolders, HoldsSync, RegLabels
    <2>2. Cardinality(SyncHolders') = Cardinality(SyncHolders) - 1
      BY <1>0, <2>1, FS_RemoveElement
    <2>. QED
      BY <1>0, <2>1, <2>2
  <1>3. CASE RefExisting(p, t) \/ RefNew(p, t) \/ RefFull(p, t) \/ Unref(p, t)
               \/ UnrefUnknown(p, t)
    <2>1. SyncHolders' = SyncHolders /\ syncMutex' = syncMutex
      BY <1>0, <1>3 DEF RefExisting, RefNew, RefFull, Unref, UnrefUnknown, Goto,
             SyncHolders,
         HoldsSync, RegLabels
    <2>. QED
      BY <2>1
  <1>4. CASE Barrier_sync(p, slot[p]) /\ ~(Relock(p) \/ UnlockSync(p) \/ Return(p))
    <2>1. SyncHolders' = SyncHolders /\ syncMutex' = syncMutex
      BY <1>0, <1>4 DEF Barrier_sync, ArriveFirst, ArriveOther, UnlockBarrier, Collect,
         BeginRelease, Release, EndRelease, SignalArrival, Depart, Goto, SyncHolders,
         HoldsSync, RegLabels
    <2>. QED
      BY <2>1
  <1>. QED
    BY <1>1, <1>2, <1>3, <1>4 DEF Step, Registration

\* At a slot in use the mutex and its holder, at a free one nobody.
LockOf(b) == IF InUse(b) THEN mutex[b] + Cardinality(MutexHolders(b)) = 1 ELSE mutex[b] <= 1

\* A slot nobody holds the mutex of has none behind a step that leaves the places alone.
LEMMA SameHolders ==
  ASSUME NEW b, UNCHANGED <<slot>>, \A q \in Procs : HoldsMutex(q)' <=> HoldsMutex(q)
  PROVE  MutexHolders(b)' = MutexHolders(b)
  BY DEF MutexHolders

LEMMA RegistrationLocks ==
  ASSUME Exact, IInv, Attending, Counters, NEW p \in Procs, Step(p), Regular(p),
         Registration(p, Now(p).tag), NEW b \in Barriers, LockOf(b)
  PROVE  LockOf(b)'
  <1>. DEFINE t == Now(p).tag
  <1>0. /\ t \in AllTags /\ pc \in [Procs -> Labels \cup RegLabels]
        /\ refcount \in [Barriers -> Nat] /\ mutex \in [Barriers -> Nat]
        /\ tagOf \in [Barriers -> AllTags]
    BY NowTyped DEF IInv, Typing, Counters, Step
  <1>1. MutexHolders(b)' = MutexHolders(b)
    <2>1. UNCHANGED slot /\ \A q \in Procs : HoldsMutex(q)' <=> HoldsMutex(q)
      BY <1>0 DEF Registration, BeginReg, RefExisting, RefNew, RefFull, Unref, UnrefUnknown,
         Goto, HoldsMutex
    <2>. QED
      BY <2>1, SameHolders
  <1>2. CASE BeginReg(p) \/ RefFull(p, t) \/ UnrefUnknown(p, t)
    BY <1>1, <1>2 DEF BeginReg, RefFull, UnrefUnknown, LockOf, InUse
  <1>3. CASE RefExisting(p, t)
    <2>1. InUse(b)' <=> InUse(b)
      BY <1>0, <1>3, TheCandidate DEF RefExisting, InUse, Carries
    <2>2. mutex' = mutex
      BY <1>3 DEF RefExisting
    <2>. QED
      BY <1>1, <2>1, <2>2 DEF LockOf
  <1>4. CASE RefNew(p, t)
    <2>1. CASE b = Lowest(FreeSlots)
      <3>1. ~InUse(b)
        BY <1>4, <2>1, TheFree DEF RefNew
      <3>2. MutexHolders(b) = {}
        BY <3>1, SlotInUse DEF MutexHolders, HoldsMutex, AtSlot, Outside
      <3>3. mutex'[b] = 1
        BY <1>0, <1>4, <2>1 DEF RefNew
      <3>. QED
        BY <1>1, <3>2, <3>3, FS_EmptySet DEF LockOf
    <2>2. CASE b # Lowest(FreeSlots)
      <3>1. mutex'[b] = mutex[b] /\ refcount'[b] = refcount[b]
        BY <1>0, <1>4, <2>2 DEF RefNew
      <3>. QED
        BY <1>1, <3>1 DEF LockOf, InUse
    <2>. QED
      BY <2>1, <2>2
  <1>5. CASE Unref(p, t)
    <2>. PICK c : c = Lowest(Candidates(t))
      OBVIOUS
    <2>1. /\ c \in Barriers /\ Carries(c, t)
          /\ refcount' = [refcount EXCEPT ![c] = @ - 1]
          /\ refcount[c] > 1 => mutex' = mutex
          /\ ~(refcount[c] > 1) => mutex' = [mutex EXCEPT ![c] = 0]
      BY <1>0, <1>5, TheCandidate DEF Unref
    <2>2. CASE b # c
      <3>1. mutex'[b] = mutex[b] /\ refcount'[b] = refcount[b]
        BY <1>0, <2>1, <2>2
      <3>. QED
        BY <1>1, <3>1 DEF LockOf, InUse
    <2>3. CASE b = c /\ refcount[c] > 1
      <3>1. mutex'[b] = mutex[b] /\ InUse(b) /\ InUse(b)'
        BY <1>0, <2>1, <2>3 DEF InUse
      <3>. QED
        BY <1>1, <3>1 DEF LockOf
    <2>4. CASE b = c /\ ~(refcount[c] > 1)
      <3>1. mutex'[b] = 0 /\ ~InUse(b)'
        BY <1>0, <2>1, <2>4 DEF InUse
      <3>. QED
        BY <3>1 DEF LockOf
    <2>. QED
      BY <2>2, <2>3, <2>4
  <1>. QED
    BY <1>2, <1>3, <1>4, <1>5 DEF Registration

LEMMA CallLocks ==
  ASSUME IInv, Attending, Counters, NEW p \in Procs, Step(p),
         ~Registration(p, Now(p).tag), NEW b \in Barriers, LockOf(b)
  PROVE  LockOf(b)'
  <1>. DEFINE Locking(c) == ArriveFirst(p, c) \/ ArriveOther(p, c) \/ BeginRelease(p, c)
              Unlocking(c) == UnlockBarrier(p, c) \/ EndRelease(p, c)
  <1>0. /\ pc \in [Procs -> Labels \cup RegLabels] /\ slot \in [Procs -> Barriers]
        /\ mutex \in [Barriers -> Nat] /\ mutex[b] \in Nat
        /\ Cardinality(MutexHolders(b)) \in Nat
        /\ IsFiniteSet(MutexHolders(b))
    BY HoldersFinite DEF IInv, Typing, Counters
  <1>1. InUse(b)' <=> InUse(b)
    BY DEF Step, CallAnon, CallTagged, CallUnknown, Call, Barrier_sync, ArriveFirst,
           ArriveOther,
       UnlockBarrier, UnlockSync, Collect, BeginRelease, Release, EndRelease, SignalArrival,
       Depart, Relock, Return, InUse
  <1>2. CASE Locking(slot[p]) /\ slot[p] = b /\ UNCHANGED slot
    <2>1. /\ p \notin MutexHolders(b) /\ MutexHolders(b)' = MutexHolders(b) \cup {p}
          /\ mutex'[b] = mutex[b] - 1 /\ AtSlot(p)
      BY <1>0, <1>2 DEF ArriveFirst, ArriveOther, BeginRelease, Goto, Dec, MutexHolders,
         HoldsMutex, AtSlot, Outside
    <2>2. Cardinality(MutexHolders(b)') = Cardinality(MutexHolders(b)) + 1
      BY <1>0, <2>1, FS_AddElement
    <2>3. InUse(b)
      BY <1>2, <2>1, SlotInUse
    <2>. QED
      BY <1>0, <1>1, <2>1, <2>2, <2>3 DEF LockOf
  <1>3. CASE Unlocking(slot[p]) /\ slot[p] = b /\ UNCHANGED slot
    <2>1. /\ p \in MutexHolders(b) /\ MutexHolders(b)' = MutexHolders(b) \ {p}
          /\ mutex'[b] = mutex[b] + 1 /\ AtSlot(p)
      BY <1>0, <1>3 DEF UnlockBarrier, EndRelease, Goto, Inc, MutexHolders, HoldsMutex,
             AtSlot,
         Outside
    <2>2. Cardinality(MutexHolders(b)') = Cardinality(MutexHolders(b)) - 1
      BY <1>0, <2>1, FS_RemoveElement
    <2>3. InUse(b)
      BY <1>3, <2>1, SlotInUse
    <2>. QED
      BY <1>0, <1>1, <2>1, <2>2, <2>3 DEF LockOf
  <1>4. CASE (Locking(slot[p]) \/ Unlocking(slot[p])) /\ slot[p] # b /\ UNCHANGED slot
    <2>1. MutexHolders(b)' = MutexHolders(b) /\ mutex'[b] = mutex[b]
      BY <1>0, <1>4 DEF ArriveFirst, ArriveOther, BeginRelease, UnlockBarrier, EndRelease,
             Goto,
         Dec, Inc, MutexHolders, HoldsMutex
    <2>. QED
      BY <1>1, <2>1 DEF LockOf
  <1>5. CASE ~Locking(slot[p]) /\ ~Unlocking(slot[p])
    <2>1. /\ \A q \in Procs : HoldsMutex(q)' <=> HoldsMutex(q)
          /\ \A q \in Procs : HoldsMutex(q) => slot'[q] = slot[q]
          /\ mutex' = mutex
      <3>1. CASE CallAnon(p) \/ CallTagged(p, Now(p).tag) \/ CallUnknown(p, Now(p).tag)
        BY <1>0, <3>1 DEF CallAnon, CallTagged, CallUnknown, Call, Goto, HoldsMutex
      <3>2. CASE Barrier_sync(p, slot[p]) /\ UNCHANGED <<tagOf, slot, reg>>
        BY <1>0, <1>5, <3>2 DEF Barrier_sync, UnlockSync, Collect, Release, SignalArrival,
           Depart, Relock, Return, Goto, HoldsMutex
      <3>. QED
        BY <3>1, <3>2 DEF Step
    <2>2. MutexHolders(b)' = MutexHolders(b)
      BY <2>1 DEF MutexHolders
    <2>. QED
      BY <1>1, <2>1, <2>2 DEF LockOf
  <1>6. Locking(slot[p]) \/ Unlocking(slot[p]) => UNCHANGED slot
    <2>1. CASE CallAnon(p) \/ CallTagged(p, Now(p).tag) \/ CallUnknown(p, Now(p).tag)
      BY <2>1 DEF CallAnon, CallTagged, CallUnknown, Call, ArriveFirst, ArriveOther,
         BeginRelease, UnlockBarrier, EndRelease, Goto
    <2>. QED
      BY <2>1 DEF Step
  <1>. QED
    BY <1>2, <1>3, <1>4, <1>5, <1>6

\* Places, counters and locks together.
Sound == Attending /\ Counters /\ Locks

LEMMA InitSound == Init => Sound
  <1>. SUFFICES ASSUME Init
                PROVE  Sound
    OBVIOUS
  <1>1. SyncHolders = {} /\ \A b \in Barriers : MutexHolders(b) = {}
    BY DEF Init, InitWith, HoldsSync, HoldsMutex, SyncHolders, MutexHolders, RegLabels
  <1>2. /\ syncMutex = 1 /\ mutex = [b \in Barriers |-> 1]
        /\ Cardinality({}) = 0
    BY FS_EmptySet DEF Init, InitWith
  <1>3. Locks
    BY <1>1, <1>2 DEF Locks
  <1>4. Attending
    BY TableAssumption DEF Init, InitWith, Attending, AtSlot, Outside
  <1>5. Counters
    BY DEF Init, InitWith, Counters
  <1>. QED
    BY <1>3, <1>4, <1>5 DEF Sound

LEMMA NextSound ==
  ASSUME Exact, IInv, Disciplined, Sound, [Next]_tvars
  PROVE  Sound'
  <1>1. ASSUME NEW p \in Procs, Step(p)
        PROVE  Sound'
    <2>1. Regular(p)
      BY <1>1 DEF Disciplined, Step
    <2>2. Attending' /\ Counters'
      BY <1>1, <2>1, AttendingStep, CountersStep DEF Sound
    <2>3. ASSUME NEW b \in Barriers
          PROVE  LockOf(b)'
      <3>1. LockOf(b)
        BY DEF Sound, Locks, LockOf
      <3>. QED
        BY <1>1, <2>1, <3>1, RegistrationLocks, CallLocks DEF Sound
    <2>4. syncMutex' + Cardinality(SyncHolders') = 1
      BY <1>1, SyncHoldersStep DEF Sound, Locks
    <2>. QED
      BY <2>2, <2>3, <2>4 DEF Sound, Locks, LockOf
  <1>2. CASE UNCHANGED tvars
    <2>1. /\ SyncHolders' = SyncHolders /\ UNCHANGED <<syncMutex, mutex, refcount>>
          /\ \A b \in Barriers : MutexHolders(b)' = MutexHolders(b)
      BY <1>2 DEF tvars, vars, HoldsSync, HoldsMutex, SyncHolders, MutexHolders
    <2>2. Locks'
      BY <2>1 DEF Sound, Locks, InUse
    <2>. QED
      BY <1>2, <2>2 DEF Sound, tvars, vars, Attending, AtSlot, InProgram, Now, Counters
  <1>. QED
    BY <1>1, <1>2 DEF Next, Terminated

\* Type correctness: semaphores that serve as mutexes are 0 or 1 although slots are wiped
\* without their mutex, and no count goes below zero (blts_sync.c:186-217, 327-376).
THEOREM TypeCorrect ==
  ASSUME Exact
  PROVE  Spec /\ []Disciplined => []TypeOK
  <1>1. ASSUME IInv, Sound
        PROVE  TypeOK
    <2>1. syncMutex \in 0..1
      BY <1>1, HoldersFinite DEF Sound, Locks, Counters
    <2>2. ASSUME NEW b \in Barriers
          PROVE  mutex[b] \in 0..1 /\ refcount[b] \in 0..Cardinality(Procs)
      <3>1. mutex[b] \in Nat /\ Cardinality(MutexHolders(b)) \in Nat
        BY <1>1, HoldersFinite DEF Sound, Counters
      <3>2. mutex[b] \in 0..1
        BY <1>1, <3>1 DEF Sound, Locks
      <3>3. Of(tagOf[b]) \subseteq Procs
        BY DEF Of
      <3>4. /\ Cardinality(Of(tagOf[b])) <= Cardinality(Procs)
            /\ Cardinality(Procs) \in Nat
        BY <3>3, ProcsAssumption, FS_Subset, FS_CardinalityType
      <3>5. refcount[b] \in Nat /\ refcount[b] <= Cardinality(Procs)
        BY <1>1, <3>4 DEF IInv, Typing, Counted, InUse, Sound, Attending
      <3>. QED
        BY <3>2, <3>4, <3>5
    <2>3. mutex \in [Barriers -> 0..1] /\ refcount \in [Barriers -> 0..Cardinality(Procs)]
      BY <1>1, <2>2 DEF Sound, Counters, IInv, Typing
    <2>. QED
      BY <1>1, <2>1, <2>3 DEF TypeOK, IInv, Typing, Sound, Counters
  <1>2. IInv /\ Disciplined /\ [Next]_tvars => IInv'
    BY NextIInv
  <1>3. IInv /\ Disciplined /\ Sound /\ [Next]_tvars => Sound'
    BY NextSound
  <1>. QED
    BY <1>1, <1>2, <1>3, InitIInv, InitSound, PTL DEF Spec

-----------------------------------------------------------------------------
\* The whole invariant of processes that keep to the rules, which makes them disciplined.
RInv == IInv /\ Sound /\ Tracked /\ Placed

LEMMA InitRInv == Init => RInv
  <1>. SUFFICES ASSUME Init
                PROVE  Tracked /\ Placed
    BY InitIInv, InitSound DEF RInv
  <1>1. \A p \in Procs : visit[p] = 0 /\ pc[p] = "idle" /\ reg[p] = {}
    BY DEF Init, InitWith
  <1>. QED
    BY <1>1 DEF Tracked, Placed, Done, Holds

LEMMA NextRInv ==
  ASSUME Exact, Rules, Enough, RInv, [Next]_tvars
  PROVE  RInv' /\ Disciplined
  <1>1. Disciplined
    BY RulesDiscipline DEF RInv
  <1>2. Tracked' /\ Placed'
    <2>1. CASE UNCHANGED tvars
      BY <2>1 DEF RInv, tvars, vars, Tracked, Placed, Done, InProgram, Now
    <2>. QED
      BY <2>1, TrackedStep DEF RInv, Next, Terminated
  <1>. QED
    BY <1>1, <1>2, NextIInv, NextSound DEF RInv

\* Processes that register before they use, deregister what they registered, and have
\* a slot for every tag never break the table, whatever the order in which they
\* come: refcounts count and nobody waits at another tag's barrier (blts_sync.c:311-376).
THEOREM RulesSuffice ==
  ASSUME Exact, Rules, Enough
  PROVE  Spec => [](TypeOK /\ RegistrationsCounted /\ AtOwnBarrier)
  <1>1. RInv /\ [Next]_tvars => RInv' /\ Disciplined
    BY NextRInv
  <1>2. RInv => Disciplined
    BY RulesDiscipline DEF RInv
  <1>3. Spec => []Disciplined
    BY <1>1, <1>2, InitRInv, PTL DEF Spec
  <1>. QED
    BY <1>3, TypeCorrect, SlotsCount, OwnBarrier, PTL

-----------------------------------------------------------------------------
\* The barriers by name.  When all processes make the same calls, keep to the rules and
\* meet somewhere between a registration and the first use of its tag, the table of slots
\* with its registrations implements barriers with a fixed membership (BarrierSync), one
\* for each tag: Meetings is the order in which the tags are called.
Script == Program[CHOOSE p \in Procs : TRUE]
Common == \A p \in Procs : Program[p] = Script

Meeting(j) == Script[j].op \in {"tagged", "anon"}
Name(j) == IF Script[j].op = "anon" THEN Default ELSE Script[j].tag
Met(k) == Cardinality({j \in 1..k : Meeting(j)})
CallOf(r) == CHOOSE j \in 1..Len(Script) : Meeting(j) /\ Met(j) = r
Meetings == [r \in 1..Met(Len(Script)) |-> Name(CallOf(r))]

\* Between the registration for a tag and a call that uses it there is another meeting.
MetBefore == \A p \in Procs : \A k \in 1..Len(Script) : Script[k].op = "tagged" =>
  \E m \in 1..(k - 1) : \E j \in 1..(m - 1) :
    /\ Meeting(m)
    /\ Adds(p, j, Script[k].tag) /\ \A l \in (j + 1)..k : ~Dels(p, l, Script[k].tag)

\* No two meetings in a row are at one barrier.
Changing == \A j, k \in 1..Len(Script) :
  j < k /\ Meeting(j) /\ Meeting(k) /\ (\A l \in (j + 1)..(k - 1) : ~Meeting(l))
    => Name(j) # Name(k)

\* What the documentation asks of test programs: register, meet, then use what was
\* registered ("Best practices" in blts-common/README:149-152), in the same order in all
\* processes (blts_sync.c:408-409, :478-480).  Changing is not asked for there: a barrier
\* that is called again at once mixes up its rounds (run sync_reuse).
Practised == Exact /\ Rules /\ Enough /\ Common /\ MetBefore /\ Changing

\* The state of the barriers: registrations and slots disappear.
AtMeeting(p) == InProgram(p) /\ Now(p).op \in {"tagged", "anon"}
Place == [p \in Procs |-> IF AtMeeting(p) THEN pc[p] ELSE "idle"]
Visits == [p \in Procs |-> Met(visit[p])]
Registering == \E p \in Procs : pc[p] # "idle" /\ ~AtMeeting(p)
Turn == IF Registering THEN syncMutex + 1 ELSE syncMutex

Kept(t) == \E b \in Barriers : Carries(b, t)
SlotOf(t) == CHOOSE b \in Barriers : Carries(b, t)
View(f, unused) == [t \in AllTags |-> IF Kept(t) THEN f[SlotOf(t)] ELSE unused]
Everybody == [t \in AllTags |-> Cardinality(Procs)]

Mutexes == View(mutex, 1)
Actives == View(active, FALSE)
Arrivals == View(arrive, 0)
Departures == View(depart, 0)

B == INSTANCE BarrierSyncProofs WITH
  Barriers <- AllTags, Schedule <- Meetings,
  syncMutex <- Turn, mutex <- Mutexes, refcount <- Everybody, active <- Actives,
  arrive <- Arrivals, depart <- Departures, pc <- Place, visit <- Visits

-----------------------------------------------------------------------------
\* Meetings are counted.
LEMMA MetNext ==
  ASSUME NEW k \in Nat
  PROVE  /\ Met(0) = 0 /\ Met(k) \in Nat
         /\ Met(k + 1) = IF Meeting(k + 1) THEN Met(k) + 1 ELSE Met(k)
  <1>. DEFINE S == {j \in 1..k : Meeting(j)}
              T == {j \in 1..(k + 1) : Meeting(j)}
  <1>1. IsFiniteSet(1..k) /\ S \subseteq 1..k
    BY FS_Interval
  <1>2. IsFiniteSet(S) /\ Cardinality(S) \in Nat
    BY <1>1, FS_Subset, FS_CardinalityType
  <1>3. 1..(k + 1) = (1..k) \cup {k + 1} /\ k + 1 \notin 1..k
    OBVIOUS
  <1>6. Met(0) = 0
    <2>1. {j \in 1..0 : Meeting(j)} = {}
      OBVIOUS
    <2>. QED
      BY <2>1, FS_EmptySet DEF Met
  <1>7. Met(k) \in Nat
    BY <1>2 DEF Met
  <1>4. CASE Meeting(k + 1)
    <2>1. T = S \cup {k + 1} /\ k + 1 \notin S
      BY <1>3, <1>4
    <2>. QED
      BY <1>2, <1>4, <1>6, <1>7, <2>1, FS_AddElement DEF Met
  <1>5. CASE ~Meeting(k + 1)
    <2>1. T = S
      BY <1>3, <1>5
    <2>. QED
      BY <1>5, <1>6, <1>7, <2>1 DEF Met
  <1>. QED
    BY <1>4, <1>5, <1>6, <1>7

\* Later calls have met more often; nobody meets between calls with one count.
LEMMA MetOrder ==
  ASSUME NEW j \in Nat, NEW k \in Nat
  PROVE  /\ j <= k => Met(j) <= Met(k)
         /\ j < k /\ Meeting(k) => Met(j) < Met(k)
         /\ j < k /\ Met(j) = Met(k) => \A l \in (j + 1)..k : ~Meeting(l)
  <1>1. ASSUME NEW m \in Nat, NEW n \in Nat, m <= n
        PROVE  Met(m) <= Met(n)
    <2>. DEFINE S == {l \in 1..m : Meeting(l)}
                T == {l \in 1..n : Meeting(l)}
    <2>1. IsFiniteSet(1..n) /\ S \subseteq T /\ T \subseteq 1..n
      BY <1>1, FS_Interval
    <2>2. IsFiniteSet(T)
      BY <2>1, FS_Subset
    <2>. QED
      BY <2>1, <2>2, FS_Subset DEF Met
  <1>2. ASSUME NEW m \in Nat, NEW n \in Nat, m < n, Meeting(n)
        PROVE  Met(m) < Met(n)
    <2>1. n - 1 \in Nat /\ n - 1 + 1 = n /\ m <= n - 1
      BY <1>2
    <2>2. Met(n) = Met(n - 1) + 1 /\ Met(n - 1) \in Nat /\ Met(m) \in Nat
      BY <1>2, <2>1, MetNext
    <2>3. Met(m) <= Met(n - 1)
      BY <1>1, <2>1
    <2>. QED
      BY <2>2, <2>3
  <1>3. ASSUME j < k, Met(j) = Met(k), NEW l \in (j + 1)..k, Meeting(l)
        PROVE  FALSE
    <2>1. Met(j) < Met(l) /\ Met(l) <= Met(k)
      BY <1>1, <1>2, <1>3
    <2>2. Met(j) \in Nat /\ Met(l) \in Nat
      BY <1>3, MetNext
    <2>. QED
      BY <1>3, <2>1, <2>2
  <1>. QED
    BY <1>1, <1>2, <1>3

\* The common program is a sequence of calls.
LEMMA ScriptTyped == Script \in Seq([op : Ops, tag : AllTags]) /\ Len(Script) \in Nat
  <1>1. (CHOOSE p \in Procs : TRUE) \in Procs
    BY ProcsAssumption
  <1>2. Script \in Seq([op : Ops, tag : AllTags])
    BY <1>1, TableAssumption DEF Script
  <1>. QED
    BY <1>2

\* A call of it names a tag.
LEMMA NameTyped ==
  ASSUME NEW j \in 1..Len(Script)
  PROVE  Name(j) \in AllTags /\ Script[j] \in [op : Ops, tag : AllTags]
  <1>. DEFINE Calls == [op : Ops, tag : AllTags]
  <1>1. Script \in Seq(Calls)
    BY ScriptTyped
  <1>. HIDE DEF Calls
  <1>2. Script[j] \in Calls
    BY <1>1
  <1>. QED
    BY <1>2 DEF Calls, Name, AllTags

\* Every number up to the number of meetings is the number of one.
LEMMA CallOfIs ==
  /\ \A j \in 1..Len(Script) : Meeting(j) =>
       CallOf(Met(j)) = j /\ Met(j) \in 1..Met(Len(Script)) /\ Met(j) = Met(j - 1) + 1
  /\ \A r \in 1..Met(Len(Script)) :
       CallOf(r) \in 1..Len(Script) /\ Meeting(CallOf(r)) /\ Met(CallOf(r)) = r
  <1>1. ASSUME NEW j \in 1..Len(Script), Meeting(j)
        PROVE  /\ CallOf(Met(j)) = j /\ Met(j) \in 1..Met(Len(Script))
               /\ Met(j) = Met(j - 1) + 1
    <2>1. Len(Script) \in Nat /\ j \in Nat /\ j - 1 \in Nat /\ j - 1 + 1 = j
      BY ScriptTyped
    <2>2. Met(j) = Met(j - 1) + 1 /\ Met(j - 1) \in Nat /\ Met(Len(Script)) \in Nat
      BY <1>1, <2>1, MetNext
    <2>3. Met(j) <= Met(Len(Script))
      BY <2>1, MetOrder
    <2>4. ASSUME NEW k \in 1..Len(Script), Meeting(k), Met(k) = Met(j)
          PROVE  k = j
      BY <1>1, <2>1, <2>4, MetOrder
    <2>5. CallOf(Met(j)) = j
      BY <1>1, <2>4 DEF CallOf
    <2>. QED
      BY <2>2, <2>3, <2>5
  <1>2. ASSUME NEW r \in 1..Met(Len(Script))
        PROVE  \E j \in 1..Len(Script) : Meeting(j) /\ Met(j) = r
    <2>. DEFINE S == {k \in 1..Len(Script) : Met(k) >= r}
    <2>1. Len(Script) \in Nat /\ Met(Len(Script)) \in Nat /\ Met(0) = 0 /\ r \in Nat
      BY ScriptTyped, MetNext
    <2>2. Len(Script) \in S
      BY <2>1
    <2>3. S \subseteq Nat /\ S # {}
      BY <2>1, <2>2
    <2>4. PICK x \in S : \A y \in S : ~(<<y, x>> \in OpToRel(<, Nat))
      BY <2>3, NatLessThanWellFounded, WFMin, Zenon
    <2>5. \A y \in S : ~(y < x)
      BY <2>3, <2>4, Zenon DEF OpToRel
    <2>6. x - 1 \in Nat /\ x - 1 + 1 = x /\ x - 1 \notin S /\ x - 1 < Len(Script)
      BY <2>1, <2>5
    <2>7. /\ Met(x - 1) \in Nat /\ Met(x - 1) < r
          /\ Met(x) = IF Meeting(x) THEN Met(x - 1) + 1 ELSE Met(x - 1)
      <3>. PICK w \in Nat : w = x - 1
        BY <2>6
      <3>1. Met(w) \in Nat /\ Met(w + 1) = IF Meeting(w + 1) THEN Met(w) + 1 ELSE Met(w)
        BY MetNext
      <3>2. Met(w) < r
        BY <2>1, <2>6, <3>1
      <3>. QED
        BY <2>6, <3>1, <3>2
    <2>. QED
      BY <2>1, <2>7
  <1>3. ASSUME NEW r \in 1..Met(Len(Script))
        PROVE  CallOf(r) \in 1..Len(Script) /\ Meeting(CallOf(r)) /\ Met(CallOf(r)) = r
    BY <1>2 DEF CallOf
  <1>. QED
    BY <1>1, <1>3

\* The meetings are a schedule of barriers named by tags.
LEMMA MeetingsTyped ==
  Meetings \in Seq(AllTags) /\ Len(Meetings) = Met(Len(Script)) /\ Met(Len(Script)) \in Nat
  <1>1. Met(Len(Script)) \in Nat
    BY ScriptTyped, MetNext
  <1>2. \A r \in 1..Met(Len(Script)) : Name(CallOf(r)) \in AllTags
    BY CallOfIs, NameTyped
  <1>3. Meetings \in Seq(AllTags)
    BY <1>1, <1>2 DEF Meetings
  <1>. QED
    BY <1>1, <1>3 DEF Meetings

\* No barrier is called twice in a row.
LEMMA MeetingsAlternate ==
  ASSUME Changing
  PROVE  B!Alternating
  <1>. SUFFICES ASSUME NEW r \in 1..(Met(Len(Script)) - 1)
                PROVE  Meetings[r] # Meetings[r + 1]
    BY MeetingsTyped DEF B!Alternating, B!Rounds
  <1>. DEFINE j == CallOf(r)
              k == CallOf(r + 1)
  <1>1. r \in 1..Met(Len(Script)) /\ r + 1 \in 1..Met(Len(Script))
    BY MeetingsTyped
  <1>2. /\ j \in 1..Len(Script) /\ Meeting(j) /\ Met(j) = r
        /\ k \in 1..Len(Script) /\ Meeting(k) /\ Met(k) = r + 1
    BY <1>1, CallOfIs
  <1>3. Meetings[r] = Name(j) /\ Meetings[r + 1] = Name(k)
    BY <1>1 DEF Meetings
  <1>. HIDE DEF j, k
  <1>4. j \in Nat /\ k \in Nat /\ r \in Nat /\ ~(k <= j)
    BY <1>2, ScriptTyped, MetOrder
  <1>5. Met(k) = Met(k - 1) + 1 /\ k - 1 \in Nat /\ Met(k - 1) \in Nat /\ j <= k - 1
    BY <1>2, <1>4, CallOfIs, MetNext
  <1>6. \A l \in (j + 1)..(k - 1) : ~Meeting(l)
    <2>1. Met(j) = Met(k - 1)
      BY <1>2, <1>4, <1>5
    <2>. QED
      BY <1>4, <1>5, <2>1, MetOrder
  <1>. QED
    BY <1>2, <1>3, <1>4, <1>6 DEF Changing

-----------------------------------------------------------------------------
\* The call of a process that meets, by its number and by its name.
LEMMA MeetingIs ==
  ASSUME Common, RInv, NEW p \in Procs, AtMeeting(p)
  PROVE  /\ Now(p) = Script[visit[p] + 1] /\ visit[p] \in Nat
         /\ visit[p] + 1 \in 1..Len(Script) /\ Meeting(visit[p] + 1)
         /\ Met(visit[p]) \in Nat /\ Met(visit[p] + 1) = Met(visit[p]) + 1
         /\ Visits[p] = Met(visit[p]) /\ Visits[p] < B!Rounds
         /\ B!Here(p) = Name(visit[p] + 1) /\ Name(visit[p] + 1) \in AllTags
         /\ Place[p] = pc[p]
  <1>1. /\ Now(p) = Script[visit[p] + 1] /\ visit[p] \in Nat
        /\ visit[p] + 1 \in 1..Len(Script)
    BY NowTyped DEF Common, RInv, IInv, Typing, AtMeeting, Now
  <1>2. Meeting(visit[p] + 1)
    BY <1>1 DEF AtMeeting, Meeting
  <1>3. /\ Met(visit[p]) \in Nat /\ Met(visit[p] + 1) = Met(visit[p]) + 1
        /\ CallOf(Met(visit[p] + 1)) = visit[p] + 1
        /\ Met(visit[p] + 1) \in 1..Met(Len(Script))
    BY <1>1, <1>2, MetNext, CallOfIs
  <1>4. Visits[p] = Met(visit[p]) /\ Place[p] = pc[p]
    BY DEF Visits, Place
  <1>5. Visits[p] < B!Rounds
    BY <1>3, <1>4, MeetingsTyped DEF B!Rounds
  <1>6. B!Here(p) = Name(visit[p] + 1)
    BY <1>3, <1>4 DEF B!Here, Meetings
  <1>. QED
    BY <1>1, <1>2, <1>3, <1>4, <1>5, <1>6, NameTyped

\* Who is at a slot is at a meeting, and the slot carries its name.
LEMMA SlotNamed ==
  ASSUME Common, Rules, RInv, NEW p \in Procs, AtSlot(p)
  PROVE  /\ AtMeeting(p) /\ slot[p] \in Barriers /\ Carries(slot[p], B!Here(p))
         /\ Now(p).op = "tagged" => B!Here(p) = Now(p).tag /\ Now(p).tag \in Tags
         /\ Now(p).op # "tagged" => slot[p] = 0
  <1>1. AtMeeting(p)
    BY DEF RInv, Placed, AtSlot, Outside, AtMeeting
  <1>2. B!Here(p) = Name(visit[p] + 1) /\ Now(p) = Script[visit[p] + 1]
    BY <1>1, MeetingIs
  <1>3. CASE Now(p).op = "tagged"
    <2>1. AtTagged(p)
      BY <1>1, <1>3 DEF AtTagged, AtMeeting, AtSlot, Outside
    <2>2. B!Here(p) = Now(p).tag
      BY <1>2, <1>3 DEF Name
    <2>3. Now(p).tag \in Tags
      BY <1>1, <1>2, <1>3, MeetingIs DEF Rules, Common
    <2>. QED
      BY <1>1, <1>3, <2>1, <2>2, <2>3 DEF RInv, IInv, Typing, AtOwnBarrier, Carries, InUse
  <1>4. CASE Now(p).op # "tagged"
    <2>1. Now(p).op = "anon" /\ slot[p] = 0
      BY <1>1, <1>4 DEF AtMeeting, RInv, Sound, Attending
    <2>2. B!Here(p) = Default
      BY <1>2, <2>1 DEF Name
    <2>. QED
      BY <1>1, <1>4, <2>1, <2>2 DEF RInv, IInv, Typing, Anonymous, Carries
  <1>. QED
    BY <1>3, <1>4

\* The view of a name is the slot that carries it.
LEMMA ViewAt ==
  ASSUME RInv, NEW b \in Barriers, NEW t \in AllTags, Carries(b, t)
  PROVE  Kept(t) /\ SlotOf(t) = b /\ \A f, u : View(f, u)[t] = f[b]
  <1>1. \A c \in Barriers : Carries(c, t) => c = b
    BY DEF RInv, IInv, Unique, Carries
  <1>2. Kept(t) /\ SlotOf(t) = b
    BY <1>1 DEF Kept, SlotOf
  <1>. QED
    BY <1>2 DEF View

\* The number of processes, in both modules.
LEMMA NumberIs == Everybody = [t \in AllTags |-> B!N] /\ B!IsFiniteSet(Procs)
  <1>1. B!Cardinality(Procs) = Cardinality(Procs)
    BY Zenon DEF B!Cardinality, Cardinality
  <1>2. B!IsFiniteSet(Procs)
    BY ProcsAssumption DEF B!IsFiniteSet, IsFiniteSet
  <1>. QED
    BY <1>1, <1>2 DEF Everybody, B!N

\* As long as a process has not settled at a tag's barrier, everybody is registered there:
\* all have come through the meeting before, and nobody is past this one.
LEMMA AllRegistered ==
  ASSUME Common, Rules, MetBefore, RInv, B!Skew, NEW p \in Procs, AtSlot(p),
         ~B!Settled(p), Now(p).op = "tagged"
  PROVE  Of(Now(p).tag) = Procs
  <1>. SUFFICES ASSUME NEW q \in Procs
                PROVE  Now(p).tag \in reg[q]
    BY DEF Of
  <1>. DEFINE k == visit[p] + 1
              t == Now(p).tag
  <1>1. AtMeeting(p) /\ t \in Tags
    BY SlotNamed
  <1>2. /\ Now(p) = Script[k] /\ k \in 1..Len(Script) /\ visit[p] \in Nat
        /\ Visits[p] = Met(visit[p]) /\ Met(visit[p]) \in Nat /\ Met(k) = Met(visit[p]) + 1
    BY <1>1, MeetingIs
  <1>3. PICK m \in 1..(k - 1) : \E j \in 1..(m - 1) :
          /\ Meeting(m)
          /\ Adds(q, j, t) /\ \A l \in (j + 1)..k : ~Dels(q, l, t)
    BY <1>2 DEF MetBefore
  <1>4. PICK j \in 1..(m - 1) : Adds(q, j, t) /\ \A l \in (j + 1)..k : ~Dels(q, l, t)
    BY <1>3
  <1>. HIDE DEF k, t
  <1>5. /\ visit[q] \in Nat /\ Visits[q] = Met(visit[q]) /\ Met(visit[q]) \in Nat
        /\ Done(q) \in {visit[q], visit[q] + 1}
    BY MetNext DEF RInv, IInv, Typing, Visits, Done
  <1>6. j <= Done(q)
    <2>0. m \in Nat /\ m - 1 \in Nat /\ m - 1 + 1 = m /\ m <= visit[p]
      BY <1>2, <1>3 DEF k
    <2>1. Met(m) = Met(m - 1) + 1 /\ Met(m - 1) \in Nat
      BY <1>3, <2>0, MetNext
    <2>2. Met(m) <= Met(visit[p])
      BY <1>2, <2>0, MetOrder
    <2>3. B!Passed[p] >= Met(m)
      BY <1>2, <2>0, <2>1, <2>2 DEF B!Passed
    <2>4. CASE Met(m) <= Met(visit[q])
      <3>1. ~(visit[q] < m)
        BY <1>3, <1>5, <2>0, <2>1, <2>4, MetOrder
      <3>. QED
        BY <1>4, <1>5, <2>0, <2>1, <3>1
    <2>5. CASE B!Settled(q)
      <3>1. AtMeeting(q)
        BY <2>5 DEF B!Settled, Place
      <3>2. Met(visit[q] + 1) = Met(visit[q]) + 1 /\ Met(m) <= Met(visit[q] + 1)
        BY <1>2, <1>5, <2>0, <2>1, <2>3, <3>1, MeetingIs DEF B!Skew, B!Passed
      <3>3. ~(visit[q] + 1 < m)
        BY <1>3, <1>5, <2>0, <2>1, <3>2, MetOrder
      <3>. QED
        BY <1>4, <1>5, <2>0, <2>1, <3>3
    <2>. QED
      BY <1>2, <1>5, <2>0, <2>1, <2>3, <2>4, <2>5 DEF B!Skew, B!Passed
  <1>7. Done(q) < k
    <2>1. B!Passed[q] <= Met(visit[p])
      BY <1>2, <1>5 DEF B!Skew
    <2>2. visit[q] <= visit[p]
      <3>1. Met(visit[q]) <= Met(visit[p])
        BY <1>2, <1>5, <2>1 DEF B!Passed
      <3>2. ~(k <= visit[q])
        BY <1>2, <1>5, <3>1, MetOrder
      <3>. QED
        BY <1>2, <1>5, <3>2 DEF k
    <2>3. CASE visit[q] = visit[p] /\ pc[q] = "returning"
      <3>1. AtMeeting(q)
        BY <1>1, <2>3 DEF AtMeeting, Common, InProgram, Now
      <3>2. Place[q] = "returning"
        BY <2>3, <3>1 DEF Place
      <3>. QED
        BY <1>2, <1>5, <2>1, <2>3, <3>2 DEF B!Passed
    <2>. QED
      BY <1>2, <1>5, <2>2, <2>3 DEF Done, k
  <1>8. Holds(q, Done(q), t)
    <2>1. j \in 1..Done(q) /\ \A l \in (j + 1)..Done(q) : l \in (j + 1)..k
      BY <1>2, <1>4, <1>5, <1>6, <1>7
    <2>. QED
      BY <1>4, <2>1 DEF Holds
  <1>. QED
    BY <1>1, <1>8 DEF RInv, Tracked, t

\* ... so that the slot counts everybody.
LEMMA AllCounted ==
  ASSUME Common, Rules, MetBefore, RInv, B!Skew, NEW p \in Procs, AtSlot(p), ~B!Settled(p)
  PROVE  refcount[slot[p]] = Cardinality(Procs)
  <1>1. /\ slot[p] \in Barriers /\ Carries(slot[p], B!Here(p)) /\ AtMeeting(p)
        /\ Now(p).op = "tagged" => B!Here(p) = Now(p).tag /\ Now(p).tag \in Tags
        /\ Now(p).op # "tagged" => slot[p] = 0
    BY SlotNamed
  <1>2. CASE Now(p).op = "tagged"
    <2>1. slot[p] # 0
      BY <1>1, <1>2, TableAssumption DEF Carries, RInv, IInv, Anonymous
    <2>. QED
      BY <1>1, <1>2, <2>1, AllRegistered DEF Carries, RInv, IInv, Counted
  <1>3. CASE Now(p).op # "tagged"
    BY <1>1, <1>3 DEF RInv, Sound, Attending
  <1>. QED
    BY <1>2, <1>3

-----------------------------------------------------------------------------
\* The view behind a step is that of the slot that carries the name then.
LEMMA ViewNext ==
  ASSUME RInv', NEW b \in Barriers, NEW t \in AllTags, Carries(b, t)'
  PROVE  /\ Mutexes'[t] = mutex'[b] /\ Actives'[t] = active'[b]
         /\ Arrivals'[t] = arrive'[b] /\ Departures'[t] = depart'[b]
  <1>1. \A c \in Barriers : Carries(c, t)' => c = b
    BY DEF RInv, IInv, Unique, Carries
  <1>2. Kept(t)' /\ SlotOf(t)' = b
    BY <1>1 DEF Kept, SlotOf
  <1>. QED
    BY <1>2 DEF View, Mutexes, Actives, Arrivals, Departures

\* A tag without a slot, behind a step, ...
LEMMA ViewGone ==
  ASSUME NEW t \in AllTags, \A b \in Barriers : ~Carries(b, t)'
  PROVE  Mutexes'[t] = 1 /\ Actives'[t] = FALSE /\ Arrivals'[t] = 0 /\ Departures'[t] = 0
  BY DEF View, Mutexes, Actives, Arrivals, Departures, Kept

\* The same of the state before it.
LEMMA ViewNow ==
  ASSUME RInv, NEW b \in Barriers, NEW t \in AllTags, Carries(b, t)
  PROVE  /\ Mutexes[t] = mutex[b] /\ Actives[t] = active[b]
         /\ Arrivals[t] = arrive[b] /\ Departures[t] = depart[b]
  BY ViewAt DEF Mutexes, Actives, Arrivals, Departures

LEMMA ViewNone ==
  ASSUME NEW t \in AllTags, \A b \in Barriers : ~Carries(b, t)
  PROVE  Mutexes[t] = 1 /\ Actives[t] = FALSE /\ Arrivals[t] = 0 /\ Departures[t] = 0
  BY DEF View, Mutexes, Actives, Arrivals, Departures, Kept

\* The slots are as before, but for those of one tag.
LEMMA ViewsAlike ==
  ASSUME RInv, RInv', NEW n,
         \A b \in Barriers : \A t \in AllTags \ {n} : Carries(b, t)' <=> Carries(b, t),
         \A b \in Barriers : InUse(b) /\ tagOf[b] # n =>
           /\ mutex'[b] = mutex[b] /\ active'[b] = active[b]
           /\ arrive'[b] = arrive[b] /\ depart'[b] = depart[b]
  PROVE  \A t \in AllTags \ {n} :
           /\ Mutexes'[t] = Mutexes[t] /\ Actives'[t] = Actives[t]
           /\ Arrivals'[t] = Arrivals[t] /\ Departures'[t] = Departures[t]
  <1>. SUFFICES ASSUME NEW t \in AllTags \ {n}
                PROVE  /\ Mutexes'[t] = Mutexes[t] /\ Actives'[t] = Actives[t]
                       /\ Arrivals'[t] = Arrivals[t] /\ Departures'[t] = Departures[t]
    OBVIOUS
  <1>1. CASE \E b \in Barriers : Carries(b, t)
    <2>1. PICK b \in Barriers : Carries(b, t)
      BY <1>1
    <2>2. Carries(b, t)' /\ InUse(b) /\ tagOf[b] # n
      BY <2>1 DEF Carries
    <2>. QED
      BY <2>1, <2>2, ViewNow, ViewNext
  <1>2. CASE ~\E b \in Barriers : Carries(b, t)
    BY <1>2, ViewNone, ViewGone
  <1>. QED
    BY <1>1, <1>2

\* The views are functions of the tags.
LEMMA ViewsAre ==
  /\ DOMAIN Mutexes = AllTags /\ DOMAIN Actives = AllTags
  /\ DOMAIN Arrivals = AllTags /\ DOMAIN Departures = AllTags
  /\ Mutexes = [t \in AllTags |-> Mutexes[t]] /\ Actives = [t \in AllTags |-> Actives[t]]
  /\ Arrivals = [t \in AllTags |-> Arrivals[t]]
  /\ Departures = [t \in AllTags |-> Departures[t]]
  BY DEF View, Mutexes, Actives, Arrivals, Departures

LEMMA ViewsAreNext ==
  /\ Mutexes' = [t \in AllTags |-> Mutexes'[t]] /\ Actives' = [t \in AllTags |-> Actives'[t]]
  /\ Arrivals' = [t \in AllTags |-> Arrivals'[t]]
  /\ Departures' = [t \in AllTags |-> Departures'[t]]
  BY DEF View, Mutexes, Actives, Arrivals, Departures

Views == <<Mutexes, Actives, Arrivals, Departures>>

\* Views that agree at every tag are the same.
LEMMA SameViews ==
  ASSUME \A t \in AllTags :
           /\ Mutexes'[t] = Mutexes[t] /\ Actives'[t] = Actives[t]
           /\ Arrivals'[t] = Arrivals[t] /\ Departures'[t] = Departures[t]
  PROVE  UNCHANGED Views
  BY ViewsAre, ViewsAreNext DEF Views

\* sync_mutex has one holder; while it is free nobody registers.
LEMMA OneTurn ==
  ASSUME RInv
  PROVE  /\ syncMutex \in Nat
         /\ \A p, q \in SyncHolders : p = q
         /\ \A p \in SyncHolders : syncMutex = 0
         /\ \A p \in Procs : pc[p] # "idle" /\ ~AtMeeting(p) => p \in SyncHolders
  <1>1. /\ syncMutex \in Nat /\ syncMutex + Cardinality(SyncHolders) = 1
        /\ IsFiniteSet(SyncHolders) /\ Cardinality(SyncHolders) \in Nat
    BY HoldersFinite DEF RInv, Sound, Counters, Locks
  <1>2. ASSUME NEW p \in SyncHolders
        PROVE  syncMutex = 0 /\ SyncHolders = {p}
    <2>1. Cardinality(SyncHolders) # 0
      BY <1>1, <1>2, FS_EmptySet
    <2>2. Cardinality(SyncHolders) = 1
      BY <1>1, <2>1
    <2>3. PICK r : SyncHolders = {r}
      BY <1>1, <2>2, FS_Singleton
    <2>. QED
      BY <1>1, <1>2, <2>2, <2>3
  <1>3. ASSUME NEW p \in Procs, pc[p] # "idle", ~AtMeeting(p)
        PROVE  p \in SyncHolders
    <2>1. pc[p] \in {"adding", "deleting", "returning"}
      BY <1>3 DEF RInv, Placed, AtMeeting
    <2>. QED
      BY <2>1 DEF SyncHolders, HoldsSync, RegLabels
  <1>. QED
    BY <1>1, <1>2, <1>3

-----------------------------------------------------------------------------
\* Who is idle or at a meeting, before and behind a step, changes nothing for the others.
LEMMA StillRegistering ==
  ASSUME NEW p \in Procs, Elsewhere(p), pc[p] = "idle" \/ AtMeeting(p),
         pc'[p] = "idle" \/ AtMeeting(p)'
  PROVE  Registering' <=> Registering
  <1>1. \A q \in Procs \ {p} : (AtMeeting(q)' <=> AtMeeting(q)) /\ pc'[q] = pc[q]
    BY DEF Elsewhere, AtMeeting, InProgram, Now
  <1>. QED
    BY <1>1 DEF Registering

\* A registration takes the turn and gives it back: nobody sees a difference.
LEMMA TurnKept ==
  ASSUME RInv, RInv', NEW p \in Procs, Elsewhere(p), ~AtMeeting(p),
         ~AtMeeting(p)' \/ pc'[p] = "idle",
         \/ pc[p] = "idle" /\ pc'[p] # "idle" /\ syncMutex > 0 /\ syncMutex' = syncMutex - 1
         \/ pc[p] # "idle" /\ pc'[p] # "idle" /\ syncMutex' = syncMutex
         \/ pc[p] # "idle" /\ pc'[p] = "idle" /\ syncMutex' = syncMutex + 1
  PROVE  Turn' = Turn
  <1>1. \A q \in Procs \ {p} : (AtMeeting(q)' <=> AtMeeting(q)) /\ pc'[q] = pc[q]
    BY DEF Elsewhere, AtMeeting, InProgram, Now
  <1>2. /\ syncMutex \in Nat
        /\ \A q, r \in SyncHolders : q = r
        /\ \A q \in SyncHolders : syncMutex = 0
        /\ \A q \in Procs : pc[q] # "idle" /\ ~AtMeeting(q) => q \in SyncHolders
    BY OneTurn
  <1>3. CASE pc[p] = "idle" /\ pc'[p] # "idle" /\ syncMutex > 0 /\ syncMutex' = syncMutex - 1
    <2>1. ~Registering /\ Registering'
      BY <1>2, <1>3 DEF Registering
    <2>. QED
      BY <1>2, <1>3, <2>1 DEF Turn
  <1>4. CASE pc[p] # "idle" /\ pc'[p] # "idle" /\ syncMutex' = syncMutex
    <2>1. Registering /\ Registering'
      BY <1>4 DEF Registering
    <2>. QED
      BY <1>4, <2>1 DEF Turn
  <1>5. CASE pc[p] # "idle" /\ pc'[p] = "idle" /\ syncMutex' = syncMutex + 1
    <2>1. Registering /\ ~Registering'
      BY <1>1, <1>2, <1>5 DEF Registering
    <2>. QED
      BY <1>5, <2>1 DEF Turn
  <1>. QED
    BY <1>3, <1>4, <1>5

\* Places and visits as the barriers see them, when a process moves outside of meetings.
LEMMA PlacesKept ==
  ASSUME RInv, RInv', NEW p \in Procs, Elsewhere(p), ~AtMeeting(p),
         visit'[p] = visit[p] \/ (visit'[p] = visit[p] + 1 /\ pc'[p] = "idle"),
         InProgram(p), Common
  PROVE  Place' = Place /\ Visits' = Visits
  <1>1. \A q \in Procs \ {p} : Place'[q] = Place[q] /\ Visits'[q] = Visits[q]
    BY DEF Elsewhere, AtMeeting, InProgram, Now, Place, Visits
  <1>2. Visits'[p] = Visits[p]
    <2>1. CASE visit'[p] = visit[p]
      BY <2>1 DEF Visits
    <2>2. CASE visit'[p] = visit[p] + 1
      <3>1. visit[p] \in Nat /\ ~Meeting(visit[p] + 1)
        BY DEF RInv, IInv, Typing, Meeting, AtMeeting, Now, Common
      <3>. QED
        BY <2>2, <3>1, MetNext DEF Visits
    <2>. QED
      BY <2>1, <2>2
  <1>3. Place'[p] = Place[p]
    BY DEF Place, AtMeeting, InProgram, Now
  <1>. QED
    BY <1>1, <1>2, <1>3 DEF Place, Visits

\* The barrier a tag has lost, or not yet got, is as good as new.
LEMMA LastUserGone ==
  ASSUME Common, Rules, RInv, B!IInv, NEW p \in Procs, ~AtSlot(p), NEW t \in Tags,
         Of(t) \subseteq {p}, NEW b \in Barriers, Carries(b, t)
  PROVE  Mutexes[t] = 1 /\ Actives[t] = FALSE /\ Arrivals[t] = 0 /\ Departures[t] = 0
  <1>1. ASSUME NEW q \in Procs, AtSlot(q)
        PROVE  B!Here(q) # t /\ slot[q] # b
    <2>1. /\ AtMeeting(q) /\ slot[q] \in Barriers /\ Carries(slot[q], B!Here(q))
          /\ Now(q).op = "tagged" => B!Here(q) = Now(q).tag /\ Now(q).tag \in Tags
          /\ Now(q).op # "tagged" => slot[q] = 0
      BY <1>1, SlotNamed
    <2>2. CASE Now(q).op = "tagged"
      <3>1. Now(q).tag \in reg[q]
        BY <1>1, <2>1, <2>2, RulesDiscipline DEF RInv, Disciplined, Regular, AtTagged,
               AtSlot,
           Outside, AtMeeting
      <3>. QED
        BY <1>1, <2>1, <2>2, <3>1 DEF Of, Carries
    <2>3. CASE Now(q).op # "tagged"
      BY <2>1, <2>3, TableAssumption DEF RInv, IInv, Anonymous, Carries
    <2>. QED
      BY <2>2, <2>3
  <1>2. t \in AllTags /\ AllTags # {}
    BY DEF AllTags
  <1>3. Actives[t] = FALSE
    <2>1. ASSUME NEW q \in Procs, B!Leads(q)
          PROVE  B!Here(q) # t
      <3>1. AtSlot(q)
        BY <2>1 DEF B!Leads, Place, AtSlot, Outside
      <3>. QED
        BY <1>1, <3>1
    <2>. QED
      BY <1>2, <2>1 DEF B!IInv, B!Leader, B!Typing, B!TypeOK
  <1>4. Arrivals[t] = 0 /\ Departures[t] = 0
    <2>1. B!Waiting(t) = {}
      BY <1>1 DEF B!Waiting, Place, AtSlot, Outside
    <2>2. B!Cardinality({}) = 0
      <3>1. B!Cardinality({}) = Cardinality({})
        BY Zenon DEF B!Cardinality, Cardinality
      <3>. QED
        BY <3>1, FS_EmptySet
    <2>. QED
      BY <1>2, <1>3, <2>1, <2>2 DEF B!IInv, B!Quiet
  <1>5. Mutexes[t] = 1
    <2>1. MutexHolders(b) = {}
      BY <1>1 DEF MutexHolders, HoldsMutex, AtSlot, Outside
    <2>2. mutex[b] + Cardinality(MutexHolders(b)) = 1 /\ mutex[b] \in Nat
      BY DEF RInv, Sound, Locks, Counters, Carries
    <2>3. mutex[b] = 1
      BY <2>1, <2>2, FS_EmptySet
    <2>. QED
      BY <1>2, <2>3, ViewNow
  <1>. QED
    BY <1>3, <1>4, <1>5

\* The table under a registration: what a name sees of it stays the same.
LEMMA RegistrationViews ==
  ASSUME Exact, Enough, Common, Rules, RInv, RInv', B!IInv, NEW p \in Procs, Step(p),
         Registration(p, Now(p).tag)
  PROVE  UNCHANGED Views
  <1>. PICK t : t = Now(p).tag
    OBVIOUS
  <1>0. /\ IInv /\ t \in AllTags /\ refcount \in [Barriers -> Nat]
        /\ tagOf \in [Barriers -> AllTags] /\ mutex \in [Barriers -> Nat]
        /\ active \in [Barriers -> BOOLEAN] /\ arrive \in [Barriers -> Nat]
        /\ depart \in [Barriers -> Nat] /\ InProgram(p) /\ reg \in [Procs -> SUBSET Tags]
    BY NowTyped DEF RInv, IInv, Typing, Sound, Counters, Step
  <1>1. Regular(p)
    BY <1>0, RulesDiscipline DEF RInv, Disciplined
  <1>2. CASE UNCHANGED <<tagOf, mutex, active, arrive, depart>>
               /\ \A b \in Barriers : InUse(b)' <=> InUse(b)
    <2>1. \A b \in Barriers : \A s \in AllTags : Carries(b, s)' <=> Carries(b, s)
      BY <1>2 DEF Carries
    <2>2. PICK n : n \notin AllTags
      BY NoSetContainsEverything
    <2>3. \A s \in AllTags : s \in AllTags \ {n}
      BY <2>2
    <2>. QED
      BY <1>2, <2>1, <2>3, ViewsAlike, SameViews
  <1>3. CASE BeginReg(p) \/ RefFull(p, Now(p).tag) \/ UnrefUnknown(p, Now(p).tag)
    BY <1>2, <1>3 DEF BeginReg, RefFull, UnrefUnknown, InUse
  <1>4. CASE RefExisting(p, Now(p).tag)
    <2>. PICK b : b = Lowest(Candidates(t))
      OBVIOUS
    <2>1. b \in Barriers /\ InUse(b) /\ refcount' = [refcount EXCEPT ![b] = @ + 1]
      BY <1>0, <1>4, TheCandidate DEF RefExisting, Carries
    <2>2. \A c \in Barriers : InUse(c)' <=> InUse(c)
      BY <1>0, <2>1 DEF InUse
    <2>. QED
      BY <1>2, <1>4, <2>2 DEF RefExisting
  <1>5. CASE RefNew(p, Now(p).tag)
    <2>. PICK b : b = Lowest(FreeSlots)
      OBVIOUS
    <2>1. /\ b \in Barriers \ {0} /\ ~InUse(b)
          /\ mutex' = [mutex EXCEPT ![b] = 1] /\ arrive' = [arrive EXCEPT ![b] = 0]
          /\ depart' = [depart EXCEPT ![b] = 0] /\ active' = [active EXCEPT ![b] = FALSE]
          /\ refcount' = [refcount EXCEPT ![b] = 1] /\ tagOf' = [tagOf EXCEPT ![b] = t]
      BY <1>0, <1>5, TheFree DEF RefNew
    <2>2. \A c \in Barriers : ~Carries(c, t)
      BY <1>0, <1>5, NoCandidate DEF RefNew
    <2>3. Carries(b, t)'
      BY <1>0, <2>1 DEF Carries, InUse
    <2>4. /\ Mutexes'[t] = Mutexes[t] /\ Actives'[t] = Actives[t]
          /\ Arrivals'[t] = Arrivals[t] /\ Departures'[t] = Departures[t]
      <3>1. mutex'[b] = 1 /\ active'[b] = FALSE /\ arrive'[b] = 0 /\ depart'[b] = 0
        BY <1>0, <2>1
      <3>2. Mutexes[t] = 1 /\ Actives[t] = FALSE /\ Arrivals[t] = 0 /\ Departures[t] = 0
        BY <1>0, <2>2, ViewNone
      <3>3. /\ Mutexes'[t] = mutex'[b] /\ Actives'[t] = active'[b]
            /\ Arrivals'[t] = arrive'[b] /\ Departures'[t] = depart'[b]
        BY <1>0, <2>1, <2>3, ViewNext
      <3>. QED
        BY <3>1, <3>2, <3>3
    <2>5. \A c \in Barriers : \A s \in AllTags \ {t} : Carries(c, s)' <=> Carries(c, s)
      BY <1>0, <2>1 DEF Carries, InUse
    <2>6. \A c \in Barriers : InUse(c) /\ tagOf[c] # t =>
             /\ mutex'[c] = mutex[c] /\ active'[c] = active[c]
             /\ arrive'[c] = arrive[c] /\ depart'[c] = depart[c]
      BY <1>0, <2>1
    <2>. QED
      BY <2>4, <2>5, <2>6, ViewsAlike, SameViews
  <1>6. CASE Unref(p, Now(p).tag)
    <2>. PICK b : b = Lowest(Candidates(t))
      OBVIOUS
    <2>1. /\ b \in Barriers /\ Carries(b, t) /\ pc[p] = "deleting" /\ Candidates(t) # {}
          /\ refcount' = [refcount EXCEPT ![b] = @ - 1]
          /\ reg' = [reg EXCEPT ![p] = @ \ {t}]
      BY <1>0, <1>6, TheCandidate DEF Unref, Goto
    <2>2. t \in reg[p] /\ t \in Tags
      BY <1>0, <1>1, <2>1 DEF Regular
    <2>3. b # 0
      BY <2>1, <2>2, TableAssumption DEF Carries, RInv, IInv, Anonymous
    <2>4. refcount[b] \in Nat /\ refcount[b] > 0 /\ refcount[b] = Cardinality(Of(t))
      BY <1>0, <2>1, <2>3 DEF Carries, InUse, IInv, Counted
    <2>5. CASE refcount[b] > 1
      <3>1. \A c \in Barriers : InUse(c)' <=> InUse(c)
        BY <1>0, <2>1, <2>4, <2>5 DEF InUse
      <3>2. UNCHANGED <<tagOf, mutex, active, arrive, depart>>
        BY <1>6, <2>5 DEF Unref
      <3>. QED
        BY <1>2, <3>1, <3>2
    <2>6. CASE ~(refcount[b] > 1)
      <3>1. /\ mutex' = [mutex EXCEPT ![b] = 0] /\ arrive' = [arrive EXCEPT ![b] = 0]
            /\ depart' = [depart EXCEPT ![b] = 0] /\ active' = [active EXCEPT ![b] = FALSE]
            /\ tagOf' = [tagOf EXCEPT ![b] = Default]
        BY <1>6, <2>6 DEF Unref
      <3>2. ~InUse(b)'
        BY <1>0, <2>1, <2>4, <2>6 DEF InUse
      <3>3. \A c \in Barriers \ {b} : (InUse(c)' <=> InUse(c)) /\ tagOf'[c] = tagOf[c]
        BY <1>0, <2>1, <3>1 DEF InUse
      <3>4. \A c \in Barriers : Carries(c, t) => c = b
        BY <2>1 DEF RInv, IInv, Unique, Carries
      <3>5. \A c \in Barriers : ~Carries(c, t)'
        BY <3>2, <3>3, <3>4 DEF Carries
      <3>6. Of(t) \subseteq {p}
        <4>1. IsFiniteSet(Of(t)) /\ Cardinality(Of(t)) = 1 /\ p \in Of(t)
          <5>1. p \in Of(t)
            BY <2>2 DEF Of
          <5>. QED
            BY <2>4, <2>6, <5>1, OfFinite
        <4>. QED
          BY <4>1, FS_Singleton
      <3>7. Mutexes[t] = 1 /\ Actives[t] = FALSE /\ Arrivals[t] = 0 /\ Departures[t] = 0
        BY <2>1, <2>2, <3>6, LastUserGone DEF AtSlot, Outside
      <3>8. Mutexes'[t] = 1 /\ Actives'[t] = FALSE /\ Arrivals'[t] = 0 /\ Departures'[t] = 0
        BY <1>0, <3>5, ViewGone
      <3>9. \A c \in Barriers : \A s \in AllTags \ {t} : Carries(c, s)' <=> Carries(c, s)
        BY <2>1, <3>2, <3>3 DEF Carries
      <3>10. \A c \in Barriers : InUse(c) /\ tagOf[c] # t =>
               /\ mutex'[c] = mutex[c] /\ active'[c] = active[c]
               /\ arrive'[c] = arrive[c] /\ depart'[c] = depart[c]
        BY <1>0, <2>1, <3>1 DEF Carries
      <3>11. \A s \in AllTags \ {t} :
               /\ Mutexes'[s] = Mutexes[s] /\ Actives'[s] = Actives[s]
               /\ Arrivals'[s] = Arrivals[s] /\ Departures'[s] = Departures[s]
        BY <3>9, <3>10, ViewsAlike
      <3>. QED
        BY <3>7, <3>8, <3>11, SameViews
    <2>. QED
      BY <2>5, <2>6
  <1>. QED
    BY <1>3, <1>4, <1>5, <1>6 DEF Registration

-----------------------------------------------------------------------------
\* A process moves within its meeting.
LEMMA PlaceMoves ==
  ASSUME RInv, NEW p \in Procs, AtMeeting(p), NEW to, visit' = visit,
         pc' = [pc EXCEPT ![p] = to]
  PROVE  /\ Place' = [Place EXCEPT ![p] = to] /\ Visits' = Visits
         /\ AtMeeting(p)' /\ \A q \in Procs : AtMeeting(q)' <=> AtMeeting(q)
  <1>1. \A q \in Procs : AtMeeting(q)' <=> AtMeeting(q)
    BY DEF AtMeeting, InProgram, Now
  <1>2. pc \in [Procs -> Labels \cup RegLabels]
    BY DEF RInv, IInv, Typing
  <1>. QED
    BY <1>1, <1>2 DEF Place, Visits

\* The turn stays, is taken, or given back, by a process at a meeting.
LEMMA TurnSame ==
  ASSUME NEW p \in Procs, Elsewhere(p), AtMeeting(p), AtMeeting(p)', syncMutex' = syncMutex
  PROVE  Turn' = Turn
  BY StillRegistering DEF Turn

LEMMA TurnTaken ==
  ASSUME RInv, NEW p \in Procs, Elsewhere(p), AtMeeting(p), AtMeeting(p)', syncMutex > 0,
         syncMutex' = syncMutex - 1
  PROVE  Turn > 0 /\ Turn' = Turn - 1
  <1>1. ~Registering
    BY OneTurn DEF Registering
  <1>. QED
    BY <1>1, StillRegistering DEF Turn

LEMMA TurnGiven ==
  ASSUME RInv, NEW p \in Procs, Elsewhere(p), AtMeeting(p), p \in SyncHolders,
         AtMeeting(p)' \/ pc'[p] = "idle", syncMutex' = syncMutex + 1
  PROVE  Turn' = Turn + 1
  <1>1. ~Registering
    BY OneTurn DEF Registering
  <1>. QED
    BY <1>1, StillRegistering DEF Turn

\* A step at one slot is a step at its name.
LEMMA ViewsMove ==
  ASSUME RInv, RInv', NEW b \in Barriers, NEW n \in AllTags, Carries(b, n),
         UNCHANGED <<refcount, tagOf>>,
         \A c \in Barriers \ {b} : /\ mutex'[c] = mutex[c] /\ active'[c] = active[c]
                                  /\ arrive'[c] = arrive[c] /\ depart'[c] = depart[c]
  PROVE  /\ Mutexes' = [Mutexes EXCEPT ![n] = mutex'[b]]
         /\ Actives' = [Actives EXCEPT ![n] = active'[b]]
         /\ Arrivals' = [Arrivals EXCEPT ![n] = arrive'[b]]
         /\ Departures' = [Departures EXCEPT ![n] = depart'[b]]
         /\ Mutexes[n] = mutex[b] /\ Actives[n] = active[b]
         /\ Arrivals[n] = arrive[b] /\ Departures[n] = depart[b]
         /\ mutex'[b] = mutex[b] => Mutexes' = Mutexes
         /\ active'[b] = active[b] => Actives' = Actives
         /\ arrive'[b] = arrive[b] => Arrivals' = Arrivals
         /\ depart'[b] = depart[b] => Departures' = Departures
  <1>1. \A c \in Barriers : \A s \in AllTags : Carries(c, s)' <=> Carries(c, s)
    BY DEF Carries, InUse
  <1>2. \A c \in Barriers : InUse(c) /\ tagOf[c] # n => c # b
    BY DEF Carries
  <1>3. \A t \in AllTags \ {n} :
           /\ Mutexes'[t] = Mutexes[t] /\ Actives'[t] = Actives[t]
           /\ Arrivals'[t] = Arrivals[t] /\ Departures'[t] = Departures[t]
    BY <1>1, <1>2, ViewsAlike
  <1>4. /\ Mutexes'[n] = mutex'[b] /\ Actives'[n] = active'[b]
        /\ Arrivals'[n] = arrive'[b] /\ Departures'[n] = depart'[b]
    BY <1>1, ViewNext
  <1>5. /\ Mutexes[n] = mutex[b] /\ Actives[n] = active[b]
        /\ Arrivals[n] = arrive[b] /\ Departures[n] = depart[b]
    BY ViewNow
  <1>6. /\ Mutexes' = [Mutexes EXCEPT ![n] = mutex'[b]]
        /\ mutex'[b] = mutex[b] => Mutexes' = Mutexes
    BY <1>3, <1>4, <1>5, ViewsAre, ViewsAreNext
  <1>7. /\ Actives' = [Actives EXCEPT ![n] = active'[b]]
        /\ active'[b] = active[b] => Actives' = Actives
    BY <1>3, <1>4, <1>5, ViewsAre, ViewsAreNext
  <1>8. /\ Arrivals' = [Arrivals EXCEPT ![n] = arrive'[b]]
        /\ arrive'[b] = arrive[b] => Arrivals' = Arrivals
    BY <1>3, <1>4, <1>5, ViewsAre, ViewsAreNext
  <1>9. /\ Departures' = [Departures EXCEPT ![n] = depart'[b]]
        /\ depart'[b] = depart[b] => Departures' = Departures
    BY <1>3, <1>4, <1>5, ViewsAre, ViewsAreNext
  <1>. QED
    BY <1>5, <1>6, <1>7, <1>8, <1>9

\* A call begins: the slot has been found, and everybody sees the turn taken.
LEMMA CallMaps ==
  ASSUME Common, Rules, RInv, RInv', NEW p \in Procs, Step(p),
         CallAnon(p) \/ CallTagged(p, Now(p).tag)
  PROVE  B!Call(p)
  <1>1. /\ AtMeeting(p) /\ Elsewhere(p) /\ pc[p] = "idle" /\ syncMutex > 0
        /\ pc' = [pc EXCEPT ![p] = "arriving"] /\ syncMutex' = syncMutex - 1
        /\ UNCHANGED <<mutex, refcount, active, arrive, depart, i, visit, tagOf>>
    <2>1. Elsewhere(p) /\ AtMeeting(p)
      BY Others DEF RInv, IInv, CallAnon, CallTagged, Step, AtMeeting
    <2>2. CASE CallAnon(p)
      BY <2>1, <2>2 DEF CallAnon, Call, Goto
    <2>3. CASE CallTagged(p, Now(p).tag)
      BY <2>1, <2>3 DEF CallTagged, Call, Goto
    <2>. QED
      BY <2>2, <2>3
  <1>2. Place' = [Place EXCEPT ![p] = "arriving"] /\ Visits' = Visits /\ AtMeeting(p)'
    BY <1>1, PlaceMoves
  <1>3. Turn > 0 /\ Turn' = Turn - 1
    BY <1>1, <1>2, TurnTaken
  <1>4. UNCHANGED Views
    <2>1. \A b \in Barriers : \A s \in AllTags : Carries(b, s)' <=> Carries(b, s)
      BY <1>1 DEF Carries, InUse
    <2>2. PICK n : n \notin AllTags
      BY NoSetContainsEverything
    <2>3. \A s \in AllTags : s \in AllTags \ {n}
      BY <2>2
    <2>. QED
      BY <1>1, <2>1, <2>3, ViewsAlike, SameViews
  <1>5. Place[p] = "idle" /\ UNCHANGED Everybody
    BY <1>1 DEF Place, Everybody
  <1>. QED
    BY <1>1, <1>2, <1>3, <1>4, <1>5 DEF B!Call, B!Goto, Views

\* The steps that are about sync_mutex only, the last of which ends the call.
LEMMA TurnMaps ==
  ASSUME Common, RInv, RInv', NEW p \in Procs, Step(p), AtMeeting(p),
         UNCHANGED <<tagOf, slot, reg>>, UnlockSync(p) \/ Relock(p) \/ Return(p)
  PROVE  B!UnlockSync(p) \/ B!Relock(p) \/ B!Return(p)
  <1>1. /\ Elsewhere(p) /\ Place[p] = pc[p] /\ syncMutex \in Nat
        /\ pc \in [Procs -> Labels \cup RegLabels] /\ visit \in [Procs -> Nat]
    BY Others, MeetingIs, OneTurn DEF RInv, IInv, Typing
  <1>2. UNCHANGED Views /\ UNCHANGED Everybody
    <2>1. UNCHANGED <<mutex, refcount, active, arrive, depart, tagOf>>
      BY DEF UnlockSync, Relock, Return
    <2>2. \A b \in Barriers : \A s \in AllTags : Carries(b, s)' <=> Carries(b, s)
      BY <2>1 DEF Carries, InUse
    <2>3. PICK n : n \notin AllTags
      BY NoSetContainsEverything
    <2>4. \A s \in AllTags : s \in AllTags \ {n}
      BY <2>3
    <2>. QED
      BY <2>1, <2>2, <2>4, ViewsAlike, SameViews DEF Everybody
  <1>3. ASSUME NEW to, UnlockSync(p), pc' = [pc EXCEPT ![p] = to]
        PROVE  Turn' = Turn + 1 /\ Place' = [Place EXCEPT ![p] = to] /\ Visits' = Visits
    <2>1. visit' = visit /\ syncMutex' = syncMutex + 1 /\ p \in SyncHolders
      BY <1>3 DEF UnlockSync, Goto, SyncHolders, HoldsSync
    <2>. QED
      BY <1>1, <1>3, <2>1, PlaceMoves, TurnGiven
  <1>4. CASE UnlockSync(p)
    <2>. PICK from, to : /\ <<from, to>> \in {<<"firstOut", "collecting">>,
                                            <<"otherOut", "signalling">>}
                         /\ pc[p] = from /\ pc' = [pc EXCEPT ![p] = to]
      BY <1>4 DEF UnlockSync, Goto
    <2>1. Turn' = Turn + 1 /\ Place' = [Place EXCEPT ![p] = to] /\ Visits' = Visits /\ i' = i
      BY <1>3, <1>4 DEF UnlockSync
    <2>. QED
      BY <1>1, <1>2, <2>1 DEF Views, B!UnlockSync, B!Goto
  <1>5. CASE Relock(p)
    <2>1. /\ pc[p] = "departing" /\ pc' = [pc EXCEPT ![p] = "returning"] /\ visit' = visit
          /\ syncMutex > 0 /\ syncMutex' = syncMutex - 1 /\ i' = i
      BY <1>5 DEF Relock, Goto
    <2>2. Place' = [Place EXCEPT ![p] = "returning"] /\ Visits' = Visits /\ AtMeeting(p)'
      BY <2>1, PlaceMoves
    <2>3. Turn > 0 /\ Turn' = Turn - 1
      BY <1>1, <2>1, <2>2, TurnTaken
    <2>. QED
      BY <1>1, <1>2, <2>1, <2>2, <2>3 DEF Views, B!Relock, B!Goto
  <1>6. CASE Return(p)
    <2>1. /\ pc[p] = "returning" /\ pc' = [pc EXCEPT ![p] = "idle"] /\ i' = i
          /\ syncMutex' = syncMutex + 1 /\ visit' = [visit EXCEPT ![p] = @ + 1]
          /\ p \in SyncHolders
      BY <1>6 DEF Return, Goto, SyncHolders, HoldsSync
    <2>2. Turn' = Turn + 1
      BY <1>1, <2>1, TurnGiven
    <2>3. \A q \in Procs \ {p} : Place'[q] = Place[q] /\ Visits'[q] = Visits[q]
      BY <1>1 DEF Elsewhere, AtMeeting, InProgram, Now, Place, Visits
    <2>4. Place'[p] = "idle" /\ Visits'[p] = Visits[p] + 1
      BY <1>1, <2>1, MeetingIs DEF Place, Visits
    <2>5. Place' = [Place EXCEPT ![p] = "idle"]
      BY <2>3, <2>4 DEF Place
    <2>6. Visits' = [Visits EXCEPT ![p] = @ + 1]
      BY <2>3, <2>4 DEF Visits
    <2>. QED
      BY <1>1, <1>2, <2>1, <2>2, <2>5, <2>6 DEF Views, B!Return, B!Goto
  <1>. QED
    BY <1>4, <1>5, <1>6

\* ... or stays where it is.
LEMMA PlaceStays ==
  ASSUME RInv, NEW p \in Procs, AtMeeting(p), UNCHANGED <<pc, visit>>
  PROVE  Place' = Place /\ Visits' = Visits /\ AtMeeting(p)'
  BY DEF Place, Visits, AtMeeting, InProgram, Now

\* A step of barrier_sync() at a slot is that step at the name the slot carries.
LEMMA SyncMaps ==
  ASSUME Common, Rules, MetBefore, RInv, RInv', B!IInv, NEW p \in Procs, Step(p),
         Barrier_sync(p, slot[p]), UNCHANGED <<tagOf, slot, reg>>, AtMeeting(p)
  PROVE  B!Barrier_sync(p, B!Here(p))
  <1>. PICK b : b = slot[p]
    OBVIOUS
  <1>. PICK n : n = B!Here(p)
    OBVIOUS
  <1>1. /\ Elsewhere(p)
        /\ AtSlot(p) => b \in Barriers /\ Carries(b, n)
        /\ n \in AllTags /\ Place[p] = pc[p]
        /\ AtSlot(p) /\ ~B!Settled(p) => refcount[b] = Cardinality(Procs)
    BY Others, SlotNamed, MeetingIs, AllCounted DEF RInv, IInv, B!IInv
  <1>2. /\ mutex \in [Barriers -> Nat] /\ active \in [Barriers -> BOOLEAN]
        /\ arrive \in [Barriers -> Nat] /\ depart \in [Barriers -> Nat]
        /\ pc \in [Procs -> Labels \cup RegLabels] /\ visit \in [Procs -> Nat]
        /\ i \in [Procs -> Nat]
    BY DEF RInv, IInv, Typing, Sound, Counters
  <1>3. UNCHANGED Everybody /\ Everybody[n] = Cardinality(Procs)
    BY <1>1 DEF Everybody
  <1>4. CASE ArriveFirst(p, slot[p])
    <2>1. /\ pc[p] = "arriving" /\ pc' = [pc EXCEPT ![p] = "firstLocked"]
          /\ ~active[b]
          /\ mutex[b] > 0 /\ mutex' = [mutex EXCEPT ![b] = @ - 1]
          /\ active' = [active EXCEPT ![b] = TRUE]
          /\ i' = [i EXCEPT ![p] = refcount[b] - 1]
          /\ UNCHANGED <<syncMutex, refcount, arrive, depart, visit>>
      BY <1>4 DEF ArriveFirst, Goto, Dec, Inc
    <2>2. AtSlot(p) /\ ~B!Settled(p)
      BY <1>1, <2>1 DEF AtSlot, Outside, B!Settled
    <2>3. b \in Barriers /\ Carries(b, n) /\ refcount[b] = Cardinality(Procs)
      BY <1>1, <2>2
    <2>4. Place' = [Place EXCEPT ![p] = "firstLocked"] /\ Visits' = Visits /\ AtMeeting(p)'
      BY <2>1, PlaceMoves
    <2>5. Turn' = Turn
      BY <1>1, <2>1, <2>4, TurnSame
    <2>6. /\ \A c \in Barriers \ {b} : /\ mutex'[c] = mutex[c] /\ active'[c] = active[c]
                                       /\ arrive'[c] = arrive[c] /\ depart'[c] = depart[c]
          /\ mutex'[b] = mutex[b] - 1 /\ active'[b] = TRUE
          /\ arrive'[b] = arrive[b] /\ depart'[b] = depart[b]
      BY <1>2, <2>1, <2>3
    <2>7. /\ Mutexes' = [Mutexes EXCEPT ![n] = mutex'[b]] /\ Mutexes[n] = mutex[b]
          /\ Actives' = [Actives EXCEPT ![n] = active'[b]] /\ Actives[n] = active[b]
          /\ Arrivals' = Arrivals /\ Departures' = Departures
      BY <1>1, <2>1, <2>3, <2>6, ViewsMove
    <2>8. B!ArriveFirst(p, B!Here(p))
      BY <1>1, <1>2, <1>3, <2>1, <2>3, <2>4, <2>5, <2>6, <2>7 DEF B!ArriveFirst, B!Goto,
             B!Dec, B!Inc
    <2>. QED
      BY <2>8 DEF B!Barrier_sync
  <1>5. CASE ArriveOther(p, slot[p])
    <2>1. /\ pc[p] = "arriving" /\ pc' = [pc EXCEPT ![p] = "otherLocked"]
          /\ active[b]
          /\ mutex[b] > 0 /\ mutex' = [mutex EXCEPT ![b] = @ - 1]
          /\ UNCHANGED <<syncMutex, refcount, active, arrive, depart, i, visit>>
      BY <1>5 DEF ArriveOther, Goto, Dec, Inc
    <2>2. AtSlot(p)
      BY <1>1, <2>1 DEF AtSlot, Outside
    <2>3. b \in Barriers /\ Carries(b, n)
      BY <1>1, <2>2
    <2>4. Place' = [Place EXCEPT ![p] = "otherLocked"] /\ Visits' = Visits /\ AtMeeting(p)'
      BY <2>1, PlaceMoves
    <2>5. Turn' = Turn
      BY <1>1, <2>1, <2>4, TurnSame
    <2>6. /\ \A c \in Barriers \ {b} : /\ mutex'[c] = mutex[c] /\ active'[c] = active[c]
                                       /\ arrive'[c] = arrive[c] /\ depart'[c] = depart[c]
          /\ mutex'[b] = mutex[b] - 1 /\ active'[b] = active[b]
          /\ arrive'[b] = arrive[b] /\ depart'[b] = depart[b]
      BY <1>2, <2>1, <2>3
    <2>7. /\ Mutexes' = [Mutexes EXCEPT ![n] = mutex'[b]] /\ Mutexes[n] = mutex[b]
          /\ Actives[n] = active[b]
          /\ Actives' = Actives /\ Arrivals' = Arrivals /\ Departures' = Departures
      BY <1>1, <2>1, <2>3, <2>6, ViewsMove
    <2>8. B!ArriveOther(p, B!Here(p))
      BY <1>1, <1>2, <1>3, <2>1, <2>3, <2>4, <2>5, <2>6, <2>7 DEF B!ArriveOther, B!Goto,
             B!Dec, B!Inc
    <2>. QED
      BY <2>8 DEF B!Barrier_sync
  <1>6. CASE Collect(p, slot[p])
    <2>1. /\ pc[p] = "collecting"
          /\ i[p] > 0
          /\ arrive[b] > 0 /\ arrive' = [arrive EXCEPT ![b] = @ - 1]
          /\ i' = [i EXCEPT ![p] = @ - 1]
          /\ UNCHANGED <<syncMutex, refcount, mutex, active, depart, pc, visit>>
      BY <1>6 DEF Collect, Goto, Dec, Inc
    <2>2. AtSlot(p)
      BY <1>1, <2>1 DEF AtSlot, Outside
    <2>3. b \in Barriers /\ Carries(b, n)
      BY <1>1, <2>2
    <2>4. Place' = Place /\ Visits' = Visits /\ AtMeeting(p)'
      BY <2>1, PlaceStays
    <2>5. Turn' = Turn
      BY <1>1, <2>1, <2>4, TurnSame
    <2>6. /\ \A c \in Barriers \ {b} : /\ mutex'[c] = mutex[c] /\ active'[c] = active[c]
                                       /\ arrive'[c] = arrive[c] /\ depart'[c] = depart[c]
          /\ mutex'[b] = mutex[b] /\ active'[b] = active[b]
          /\ arrive'[b] = arrive[b] - 1 /\ depart'[b] = depart[b]
      BY <1>2, <2>1, <2>3
    <2>7. /\ Arrivals' = [Arrivals EXCEPT ![n] = arrive'[b]] /\ Arrivals[n] = arrive[b]
          /\ Actives[n] = active[b]
          /\ Mutexes' = Mutexes /\ Actives' = Actives /\ Departures' = Departures
      BY <1>1, <2>1, <2>3, <2>6, ViewsMove
    <2>8. B!Collect(p, B!Here(p))
      BY <1>1, <1>2, <1>3, <2>1, <2>3, <2>4, <2>5, <2>6, <2>7 DEF B!Collect, B!Goto, B!Dec,
             B!Inc
    <2>. QED
      BY <2>8 DEF B!Barrier_sync
  <1>7. CASE BeginRelease(p, slot[p])
    <2>1. /\ pc[p] = "collecting" /\ pc' = [pc EXCEPT ![p] = "releasing"]
          /\ i[p] = 0
          /\ mutex[b] > 0 /\ mutex' = [mutex EXCEPT ![b] = @ - 1]
          /\ i' = [i EXCEPT ![p] = refcount[b] - 1]
          /\ UNCHANGED <<syncMutex, refcount, active, arrive, depart, visit>>
      BY <1>7 DEF BeginRelease, Goto, Dec, Inc
    <2>2. AtSlot(p) /\ ~B!Settled(p)
      BY <1>1, <2>1 DEF AtSlot, Outside, B!Settled
    <2>3. b \in Barriers /\ Carries(b, n) /\ refcount[b] = Cardinality(Procs)
      BY <1>1, <2>2
    <2>4. Place' = [Place EXCEPT ![p] = "releasing"] /\ Visits' = Visits /\ AtMeeting(p)'
      BY <2>1, PlaceMoves
    <2>5. Turn' = Turn
      BY <1>1, <2>1, <2>4, TurnSame
    <2>6. /\ \A c \in Barriers \ {b} : /\ mutex'[c] = mutex[c] /\ active'[c] = active[c]
                                       /\ arrive'[c] = arrive[c] /\ depart'[c] = depart[c]
          /\ mutex'[b] = mutex[b] - 1 /\ active'[b] = active[b]
          /\ arrive'[b] = arrive[b] /\ depart'[b] = depart[b]
      BY <1>2, <2>1, <2>3
    <2>7. /\ Mutexes' = [Mutexes EXCEPT ![n] = mutex'[b]] /\ Mutexes[n] = mutex[b]
          /\ Actives[n] = active[b]
          /\ Actives' = Actives /\ Arrivals' = Arrivals /\ Departures' = Departures
      BY <1>1, <2>1, <2>3, <2>6, ViewsMove
    <2>8. B!BeginRelease(p, B!Here(p))
      BY <1>1, <1>2, <1>3, <2>1, <2>3, <2>4, <2>5, <2>6, <2>7 DEF B!BeginRelease, B!Goto,
             B!Dec, B!Inc
    <2>. QED
      BY <2>8 DEF B!Barrier_sync
  <1>8. CASE Release(p, slot[p])
    <2>1. /\ pc[p] = "releasing"
          /\ i[p] > 0
          /\ depart' = [depart EXCEPT ![b] = @ + 1]
          /\ i' = [i EXCEPT ![p] = @ - 1]
          /\ UNCHANGED <<syncMutex, refcount, mutex, active, arrive, pc, visit>>
      BY <1>8 DEF Release, Goto, Dec, Inc
    <2>2. AtSlot(p)
      BY <1>1, <2>1 DEF AtSlot, Outside
    <2>3. b \in Barriers /\ Carries(b, n)
      BY <1>1, <2>2
    <2>4. Place' = Place /\ Visits' = Visits /\ AtMeeting(p)'
      BY <2>1, PlaceStays
    <2>5. Turn' = Turn
      BY <1>1, <2>1, <2>4, TurnSame
    <2>6. /\ \A c \in Barriers \ {b} : /\ mutex'[c] = mutex[c] /\ active'[c] = active[c]
                                       /\ arrive'[c] = arrive[c] /\ depart'[c] = depart[c]
          /\ mutex'[b] = mutex[b] /\ active'[b] = active[b]
          /\ arrive'[b] = arrive[b] /\ depart'[b] = depart[b] + 1
      BY <1>2, <2>1, <2>3
    <2>7. /\ Departures' = [Departures EXCEPT ![n] = depart'[b]] /\ Departures[n] = depart[b]
          /\ Actives[n] = active[b]
          /\ Mutexes' = Mutexes /\ Actives' = Actives /\ Arrivals' = Arrivals
      BY <1>1, <2>1, <2>3, <2>6, ViewsMove
    <2>8. B!Release(p, B!Here(p))
      BY <1>1, <1>2, <1>3, <2>1, <2>3, <2>4, <2>5, <2>6, <2>7 DEF B!Release, B!Goto, B!Dec,
             B!Inc
    <2>. QED
      BY <2>8 DEF B!Barrier_sync
  <1>9. CASE EndRelease(p, slot[p])
    <2>1. /\ pc[p] = "releasing" /\ pc' = [pc EXCEPT ![p] = "departing"]
          /\ i[p] = 0
          /\ mutex' = [mutex EXCEPT ![b] = @ + 1]
          /\ active' = [active EXCEPT ![b] = FALSE]
          /\ UNCHANGED <<syncMutex, refcount, arrive, depart, i, visit>>
      BY <1>9 DEF EndRelease, Goto, Dec, Inc
    <2>2. AtSlot(p)
      BY <1>1, <2>1 DEF AtSlot, Outside
    <2>3. b \in Barriers /\ Carries(b, n)
      BY <1>1, <2>2
    <2>4. Place' = [Place EXCEPT ![p] = "departing"] /\ Visits' = Visits /\ AtMeeting(p)'
      BY <2>1, PlaceMoves
    <2>5. Turn' = Turn
      BY <1>1, <2>1, <2>4, TurnSame
    <2>6. /\ \A c \in Barriers \ {b} : /\ mutex'[c] = mutex[c] /\ active'[c] = active[c]
                                       /\ arrive'[c] = arrive[c] /\ depart'[c] = depart[c]
          /\ mutex'[b] = mutex[b] + 1 /\ active'[b] = FALSE
          /\ arrive'[b] = arrive[b] /\ depart'[b] = depart[b]
      BY <1>2, <2>1, <2>3
    <2>7. /\ Mutexes' = [Mutexes EXCEPT ![n] = mutex'[b]] /\ Mutexes[n] = mutex[b]
          /\ Actives' = [Actives EXCEPT ![n] = active'[b]] /\ Actives[n] = active[b]
          /\ Arrivals' = Arrivals /\ Departures' = Departures
      BY <1>1, <2>1, <2>3, <2>6, ViewsMove
    <2>8. B!EndRelease(p, B!Here(p))
      BY <1>1, <1>2, <1>3, <2>1, <2>3, <2>4, <2>5, <2>6, <2>7 DEF B!EndRelease, B!Goto,
             B!Dec, B!Inc
    <2>. QED
      BY <2>8 DEF B!Barrier_sync
  <1>10. CASE SignalArrival(p, slot[p])
    <2>1. /\ pc[p] = "signalling" /\ pc' = [pc EXCEPT ![p] = "awaiting"]
          /\ arrive' = [arrive EXCEPT ![b] = @ + 1]
          /\ UNCHANGED <<syncMutex, refcount, mutex, active, depart, i, visit>>
      BY <1>10 DEF SignalArrival, Goto, Dec, Inc
    <2>2. AtSlot(p)
      BY <1>1, <2>1 DEF AtSlot, Outside
    <2>3. b \in Barriers /\ Carries(b, n)
      BY <1>1, <2>2
    <2>4. Place' = [Place EXCEPT ![p] = "awaiting"] /\ Visits' = Visits /\ AtMeeting(p)'
      BY <2>1, PlaceMoves
    <2>5. Turn' = Turn
      BY <1>1, <2>1, <2>4, TurnSame
    <2>6. /\ \A c \in Barriers \ {b} : /\ mutex'[c] = mutex[c] /\ active'[c] = active[c]
                                       /\ arrive'[c] = arrive[c] /\ depart'[c] = depart[c]
          /\ mutex'[b] = mutex[b] /\ active'[b] = active[b]
          /\ arrive'[b] = arrive[b] + 1 /\ depart'[b] = depart[b]
      BY <1>2, <2>1, <2>3
    <2>7. /\ Arrivals' = [Arrivals EXCEPT ![n] = arrive'[b]] /\ Arrivals[n] = arrive[b]
          /\ Actives[n] = active[b]
          /\ Mutexes' = Mutexes /\ Actives' = Actives /\ Departures' = Departures
      BY <1>1, <2>1, <2>3, <2>6, ViewsMove
    <2>8. B!SignalArrival(p, B!Here(p))
      BY <1>1, <1>2, <1>3, <2>1, <2>3, <2>4, <2>5, <2>6, <2>7 DEF B!SignalArrival, B!Goto,
             B!Dec, B!Inc
    <2>. QED
      BY <2>8 DEF B!Barrier_sync
  <1>11. CASE Depart(p, slot[p])
    <2>1. /\ pc[p] = "awaiting" /\ pc' = [pc EXCEPT ![p] = "departing"]
          /\ depart[b] > 0 /\ depart' = [depart EXCEPT ![b] = @ - 1]
          /\ UNCHANGED <<syncMutex, refcount, mutex, active, arrive, i, visit>>
      BY <1>11 DEF Depart, Goto, Dec, Inc
    <2>2. AtSlot(p)
      BY <1>1, <2>1 DEF AtSlot, Outside
    <2>3. b \in Barriers /\ Carries(b, n)
      BY <1>1, <2>2
    <2>4. Place' = [Place EXCEPT ![p] = "departing"] /\ Visits' = Visits /\ AtMeeting(p)'
      BY <2>1, PlaceMoves
    <2>5. Turn' = Turn
      BY <1>1, <2>1, <2>4, TurnSame
    <2>6. /\ \A c \in Barriers \ {b} : /\ mutex'[c] = mutex[c] /\ active'[c] = active[c]
                                       /\ arrive'[c] = arrive[c] /\ depart'[c] = depart[c]
          /\ mutex'[b] = mutex[b] /\ active'[b] = active[b]
          /\ arrive'[b] = arrive[b] /\ depart'[b] = depart[b] - 1
      BY <1>2, <2>1, <2>3
    <2>7. /\ Departures' = [Departures EXCEPT ![n] = depart'[b]] /\ Departures[n] = depart[b]
          /\ Actives[n] = active[b]
          /\ Mutexes' = Mutexes /\ Actives' = Actives /\ Arrivals' = Arrivals
      BY <1>1, <2>1, <2>3, <2>6, ViewsMove
    <2>8. B!Depart(p, B!Here(p))
      BY <1>1, <1>2, <1>3, <2>1, <2>3, <2>4, <2>5, <2>6, <2>7 DEF B!Depart, B!Goto, B!Dec,
             B!Inc
    <2>. QED
      BY <2>8 DEF B!Barrier_sync
  <1>12. CASE UnlockBarrier(p, slot[p]) /\ pc[p] = "firstLocked"
    <2>1. /\ pc[p] = "firstLocked" /\ pc' = [pc EXCEPT ![p] = "firstOut"]
          /\ mutex' = [mutex EXCEPT ![b] = @ + 1]
          /\ UNCHANGED <<syncMutex, refcount, active, arrive, depart, i, visit>>
      BY <1>12 DEF UnlockBarrier, Goto, Dec, Inc
    <2>2. AtSlot(p)
      BY <1>1, <2>1 DEF AtSlot, Outside
    <2>3. b \in Barriers /\ Carries(b, n)
      BY <1>1, <2>2
    <2>4. Place' = [Place EXCEPT ![p] = "firstOut"] /\ Visits' = Visits /\ AtMeeting(p)'
      BY <2>1, PlaceMoves
    <2>5. Turn' = Turn
      BY <1>1, <2>1, <2>4, TurnSame
    <2>6. /\ \A c \in Barriers \ {b} : /\ mutex'[c] = mutex[c] /\ active'[c] = active[c]
                                       /\ arrive'[c] = arrive[c] /\ depart'[c] = depart[c]
          /\ mutex'[b] = mutex[b] + 1 /\ active'[b] = active[b]
          /\ arrive'[b] = arrive[b] /\ depart'[b] = depart[b]
      BY <1>2, <2>1, <2>3
    <2>7. /\ Mutexes' = [Mutexes EXCEPT ![n] = mutex'[b]] /\ Mutexes[n] = mutex[b]
          /\ Actives[n] = active[b]
          /\ Actives' = Actives /\ Arrivals' = Arrivals /\ Departures' = Departures
      BY <1>1, <2>1, <2>3, <2>6, ViewsMove
    <2>8. B!UnlockBarrier(p, B!Here(p))
      BY <1>1, <1>2, <1>3, <2>1, <2>3, <2>4, <2>5, <2>6, <2>7 DEF B!UnlockBarrier, B!Goto,
             B!Dec, B!Inc
    <2>. QED
      BY <2>8 DEF B!Barrier_sync
  <1>13. CASE UnlockBarrier(p, slot[p]) /\ pc[p] = "otherLocked"
    <2>1. /\ pc[p] = "otherLocked" /\ pc' = [pc EXCEPT ![p] = "otherOut"]
          /\ mutex' = [mutex EXCEPT ![b] = @ + 1]
          /\ UNCHANGED <<syncMutex, refcount, active, arrive, depart, i, visit>>
      BY <1>13 DEF UnlockBarrier, Goto, Dec, Inc
    <2>2. AtSlot(p)
      BY <1>1, <2>1 DEF AtSlot, Outside
    <2>3. b \in Barriers /\ Carries(b, n)
      BY <1>1, <2>2
    <2>4. Place' = [Place EXCEPT ![p] = "otherOut"] /\ Visits' = Visits /\ AtMeeting(p)'
      BY <2>1, PlaceMoves
    <2>5. Turn' = Turn
      BY <1>1, <2>1, <2>4, TurnSame
    <2>6. /\ \A c \in Barriers \ {b} : /\ mutex'[c] = mutex[c] /\ active'[c] = active[c]
                                       /\ arrive'[c] = arrive[c] /\ depart'[c] = depart[c]
          /\ mutex'[b] = mutex[b] + 1 /\ active'[b] = active[b]
          /\ arrive'[b] = arrive[b] /\ depart'[b] = depart[b]
      BY <1>2, <2>1, <2>3
    <2>7. /\ Mutexes' = [Mutexes EXCEPT ![n] = mutex'[b]] /\ Mutexes[n] = mutex[b]
          /\ Actives[n] = active[b]
          /\ Actives' = Actives /\ Arrivals' = Arrivals /\ Departures' = Departures
      BY <1>1, <2>1, <2>3, <2>6, ViewsMove
    <2>8. B!UnlockBarrier(p, B!Here(p))
      BY <1>1, <1>2, <1>3, <2>1, <2>3, <2>4, <2>5, <2>6, <2>7 DEF B!UnlockBarrier, B!Goto,
             B!Dec, B!Inc
    <2>. QED
      BY <2>8 DEF B!Barrier_sync
  <1>14. CASE UnlockSync(p) \/ Relock(p) \/ Return(p)
    BY <1>14, TurnMaps DEF B!Barrier_sync
  <1>15. UnlockBarrier(p, slot[p]) => pc[p] \in {"firstLocked", "otherLocked"}
    BY DEF UnlockBarrier, Goto
  <1>. QED
    BY <1>4, <1>5, <1>6, <1>7, <1>8, <1>9, <1>10, <1>11, <1>12, <1>13, <1>14, <1>15
    DEF Barrier_sync

\* A registration, which no barrier sees.
LEMMA RegistrationMaps ==
  ASSUME Exact, Enough, Common, Rules, RInv, RInv', B!IInv, NEW p \in Procs, Step(p),
         Registration(p, Now(p).tag)
  PROVE  UNCHANGED B!vars
  <1>1. /\ InProgram(p) /\ Elsewhere(p) /\ pc \in [Procs -> Labels \cup RegLabels]
    BY Others DEF Step, RInv, IInv, Typing
  <1>2. /\ visit' = visit /\ i' = i
        /\ \/ /\ pc[p] = "idle" /\ pc'[p] # "idle" /\ Now(p).op \in {"add", "del"}
              /\ syncMutex > 0 /\ syncMutex' = syncMutex - 1
           \/ /\ pc[p] \in RegLabels /\ pc'[p] # "idle" /\ syncMutex' = syncMutex
    BY <1>1 DEF Registration, BeginReg, RefExisting, RefNew, RefFull, Unref, UnrefUnknown,
           Goto,
       RegLabels
  <1>3. ~AtMeeting(p) /\ ~AtMeeting(p)'
    <2>1. Now(p).op \in {"add", "del"}
      BY <1>2 DEF RegLabels, RInv, Placed
    <2>. QED
      BY <1>2, <2>1 DEF AtMeeting, InProgram, Now
  <1>4. Turn' = Turn
    BY <1>1, <1>2, <1>3, TurnKept DEF RegLabels
  <1>5. Place' = Place /\ Visits' = Visits
    BY <1>1, <1>2, <1>3, PlacesKept
  <1>6. UNCHANGED Views
    BY RegistrationViews
  <1>. QED
    BY <1>2, <1>4, <1>5, <1>6 DEF B!vars, Views, Everybody

\* The return from a registration.
LEMMA ReturnMaps ==
  ASSUME Common, RInv, RInv', NEW p \in Procs, Step(p), ~AtMeeting(p),
         Barrier_sync(p, slot[p]), UNCHANGED <<tagOf, slot, reg>>
  PROVE  UNCHANGED B!vars
  <1>1. /\ InProgram(p) /\ Elsewhere(p) /\ pc \in [Procs -> Labels \cup RegLabels]
        /\ visit \in [Procs -> Nat]
    BY Others DEF Step, RInv, IInv, Typing
  <1>2. pc[p] \in Outside
    BY <1>1 DEF RInv, Placed, AtMeeting, Outside
  <1>3. Return(p)
    BY <1>2 DEF Barrier_sync, ArriveFirst, ArriveOther, UnlockBarrier, UnlockSync, Collect,
       BeginRelease, Release, EndRelease, SignalArrival, Depart, Relock, Goto, Outside
  <1>4. /\ pc[p] = "returning" /\ pc'[p] = "idle" /\ syncMutex' = syncMutex + 1
        /\ visit'[p] = visit[p] + 1
        /\ UNCHANGED <<mutex, refcount, active, arrive, depart, i, tagOf>>
    BY <1>1, <1>3 DEF Return, Goto
  <1>5. Turn' = Turn
    BY <1>1, <1>4, TurnKept
  <1>6. Place' = Place /\ Visits' = Visits
    BY <1>1, <1>4, PlacesKept
  <1>7. UNCHANGED Views
    <2>1. \A b \in Barriers : \A s \in AllTags : Carries(b, s)' <=> Carries(b, s)
      BY <1>4 DEF Carries, InUse
    <2>2. PICK n : n \notin AllTags
      BY NoSetContainsEverything
    <2>3. \A s \in AllTags : s \in AllTags \ {n}
      BY <2>2
    <2>. QED
      BY <1>4, <2>1, <2>3, ViewsAlike, SameViews
  <1>. QED
    BY <1>4, <1>5, <1>6, <1>7 DEF B!vars, Views, Everybody

\* Every step is one of the barriers', or invisible.
LEMMA StepMaps ==
  ASSUME Practised, RInv, RInv', B!IInv, NEW p \in Procs, Step(p)
  PROVE  B!Next \/ UNCHANGED B!vars
  <1>. USE DEF Practised
  <1>1. CASE Registration(p, Now(p).tag)
    BY <1>1, RegistrationMaps
  <1>2. CASE CallAnon(p) \/ CallTagged(p, Now(p).tag)
    <2>1. AtMeeting(p)
      BY <1>2 DEF CallAnon, CallTagged, Step, AtMeeting
    <2>. QED
      BY <1>2, <2>1, CallMaps, MeetingIs DEF B!Next, B!Step
  <1>3. CASE CallUnknown(p, Now(p).tag)
    <2>1. Now(p).op = "tagged" /\ pc[p] = "idle" /\ Candidates(Now(p).tag) = {}
      BY <1>3 DEF CallUnknown, Goto
    <2>2. AtMeeting(p)
      BY <2>1 DEF Step, AtMeeting
    <2>3. /\ Now(p) = Script[visit[p] + 1] /\ visit[p] \in Nat
          /\ visit[p] + 1 \in 1..Len(Script) /\ visit[p] + 1 - 1 = visit[p]
      BY <2>2, MeetingIs
    <2>4. Now(p).tag \in Tags /\ Holds(p, visit[p], Now(p).tag)
      BY <2>1, <2>3 DEF Rules, Common
    <2>5. Now(p).tag \in reg[p]
      BY <2>1, <2>4 DEF RInv, Tracked, Done
    <2>. QED
      BY <2>1, <2>5, FindsSlot DEF RInv
  <1>4. CASE Barrier_sync(p, slot[p]) /\ UNCHANGED <<tagOf, slot, reg>>
    <2>1. CASE AtMeeting(p)
      BY <1>4, <2>1, SyncMaps, MeetingIs DEF B!Next, B!Step
    <2>2. CASE ~AtMeeting(p)
      BY <1>4, <2>2, ReturnMaps
    <2>. QED
      BY <2>1, <2>2
  <1>. QED
    BY <1>1, <1>2, <1>3, <1>4 DEF Step

\* The table as sync_init leaves it shows every barrier unused.
LEMMA InitMaps ==
  ASSUME Init
  PROVE  B!Init
  <1>1. /\ syncMutex = 1 /\ mutex = [b \in Barriers |-> 1]
        /\ refcount = [b \in Barriers |-> IF b = 0 THEN Cardinality(Procs) ELSE 0]
        /\ active = [b \in Barriers |-> FALSE] /\ arrive = [b \in Barriers |-> 0]
        /\ depart = [b \in Barriers |-> 0] /\ pc = [p \in Procs |-> "idle"]
        /\ i = [p \in Procs |-> 0] /\ visit = [p \in Procs |-> 0]
        /\ tagOf = [b \in Barriers |-> Default]
    BY DEF Init, InitWith
  <1>2. RInv
    BY InitRInv
  <1>3. \A t \in AllTags :
          Mutexes[t] = 1 /\ Actives[t] = FALSE /\ Arrivals[t] = 0 /\ Departures[t] = 0
    <2>. SUFFICES ASSUME NEW t \in AllTags
                  PROVE  /\ Mutexes[t] = 1 /\ Actives[t] = FALSE
                         /\ Arrivals[t] = 0 /\ Departures[t] = 0
      OBVIOUS
    <2>1. CASE \E b \in Barriers : Carries(b, t)
      <3>1. PICK b \in Barriers : Carries(b, t)
        BY <2>1
      <3>2. mutex[b] = 1 /\ active[b] = FALSE /\ arrive[b] = 0 /\ depart[b] = 0
        BY <1>1
      <3>. QED
        BY <1>2, <3>1, <3>2, ViewNow
    <2>2. CASE ~\E b \in Barriers : Carries(b, t)
      BY <2>2, ViewNone
    <2>. QED
      BY <2>1, <2>2
  <1>4. Place = [p \in Procs |-> "idle"] /\ Turn = 1 /\ Visits = [p \in Procs |-> 0]
    BY <1>1, MetNext DEF Place, Turn, Registering, Visits
  <1>5. /\ Mutexes = [t \in AllTags |-> 1] /\ Actives = [t \in AllTags |-> FALSE]
        /\ Arrivals = [t \in AllTags |-> 0] /\ Departures = [t \in AllTags |-> 0]
    BY <1>3, ViewsAre
  <1>. QED
    BY <1>1, <1>4, <1>5, NumberIs DEF B!Init, B!InitWith

\* The two invariants together.
LEMMA NextBoth ==
  ASSUME Practised, RInv, B!IInv, [Next]_tvars
  PROVE  RInv' /\ B!IInv' /\ [B!Next]_(B!vars)
  <1>1. RInv'
    BY NextRInv DEF Practised
  <1>2. [B!Next]_(B!vars)
    <2>1. CASE UNCHANGED tvars
      <3>1. UNCHANGED B!vars
        BY <2>1 DEF tvars, vars, B!vars, Turn, Registering, AtMeeting, InProgram, Now,
               Place,
           Visits, Everybody, Mutexes, Actives, Arrivals, Departures, View, Kept, SlotOf,
           Carries, InUse
      <3>. QED
        BY <3>1
    <2>. QED
      BY <1>1, <2>1, StepMaps DEF Next, Terminated
  <1>3. B!IInv'
    BY <1>2, B!NextIInv, MeetingsTyped, MeetingsAlternate, NumberIs, ProcsAssumption DEF
           Practised
  <1>. QED
    BY <1>1, <1>2, <1>3

LEMMA InitBoth ==
  ASSUME Init
  PROVE  RInv /\ B!IInv /\ B!Init
  <1>1. RInv /\ B!Init
    BY InitRInv, InitMaps
  <1>2. B!IInv
    BY <1>1, B!InitIInv, MeetingsTyped, NumberIs, ProcsAssumption
  <1>. QED
    BY <1>1, <1>2

\* The table of slots, with registrations that take and free them while others wait,
\* implements barriers with a fixed membership, one for each tag: each step of
\* blts_sync_anon() and blts_sync_tagged() is a step at the barrier of that name, and
\* blts_sync_add_tag() and blts_sync_del_tag() are invisible (blts_sync.c:380-493).
THEOREM ImplementsBarriers ==
  ASSUME Practised
  PROVE  Spec => B!Init /\ [][B!Next]_(B!vars)
  <1>1. Init => RInv /\ B!IInv /\ B!Init
    BY InitBoth
  <1>2. RInv /\ B!IInv /\ [Next]_tvars => RInv' /\ B!IInv' /\ [B!Next]_(B!vars)
    BY NextBoth
  <1>. QED
    BY <1>1, <1>2, PTL DEF Spec

\* Who is past a call has passed that meeting, so everybody has come to it.
LEMMA RegardedSuffices ==
  ASSUME Practised, RInv, B!Skew
  PROVE  NobodyPassesUnregarded
  <1>. SUFFICES ASSUME NEW p \in Procs, NEW q \in Procs, AtTagged(p), pc[p] = "departing"
                PROVE  visit[q] > visit[p] \/ (visit[q] = visit[p] /\ pc[q] # "idle")
    BY DEF NobodyPassesUnregarded
  <1>1. AtMeeting(p) /\ Common
    BY DEF AtTagged, AtMeeting, Practised
  <1>2. /\ visit[p] \in Nat /\ visit[q] \in Nat /\ Meeting(visit[p] + 1)
        /\ Met(visit[p]) \in Nat /\ Met(visit[p] + 1) = Met(visit[p]) + 1
        /\ Met(visit[q]) \in Nat /\ Visits[q] = Met(visit[q])
        /\ B!Passed[p] = Met(visit[p]) + 1
    <2>1. Place[p] = "departing" /\ Visits[p] = Met(visit[p])
      BY <1>1, MeetingIs
    <2>2. visit[q] \in Nat /\ Visits[q] = Met(visit[q])
      BY DEF RInv, IInv, Typing, Visits
    <2>. QED
      BY <1>1, <2>1, <2>2, MeetingIs, MetNext DEF B!Passed
  <1>3. CASE Met(visit[p]) + 1 <= Met(visit[q])
    <2>1. ~(visit[q] <= visit[p])
      BY <1>2, <1>3, MetOrder
    <2>. QED
      BY <1>2, <2>1
  <1>4. CASE Met(visit[q]) = Met(visit[p]) /\ B!Settled(q)
    <2>1. AtMeeting(q) /\ pc[q] # "idle"
      BY <1>4 DEF B!Settled, Place
    <2>2. Meeting(visit[q] + 1) /\ Met(visit[q] + 1) = Met(visit[p] + 1)
      BY <1>1, <1>2, <1>4, <2>1, MeetingIs
    <2>3. ~(visit[q] + 1 < visit[p] + 1) /\ ~(visit[p] + 1 < visit[q] + 1)
      BY <1>2, <2>2, MetOrder
    <2>. QED
      BY <1>2, <2>1, <2>3
  <1>. QED
    BY <1>2, <1>3, <1>4 DEF B!Skew

\* "Block process until each registered user reaches named barrier" (blts_sync.c:408):
\* who has passed a call at a tag has seen everybody who is registered for it come there,
\* although slots are found, freed and taken anew by name in between.
THEOREM NobodyUnregarded ==
  ASSUME Practised
  PROVE  Spec => []NobodyPassesUnregarded
  <1>1. Init => RInv /\ B!IInv
    BY InitBoth
  <1>2. RInv /\ B!IInv /\ [Next]_tvars => RInv' /\ B!IInv'
    BY NextBoth
  <1>3. RInv /\ B!IInv => NobodyPassesUnregarded
    BY RegardedSuffices DEF B!IInv
  <1>. QED
    BY <1>1, <1>2, <1>3, PTL DEF Spec

\* If all were stuck, nobody but a leader that still gathers could lead: the arrivals it
\* waits for would have come, or somebody would not be there.
LEMMA AbandonedSuffices ==
  ASSUME Practised, RInv, B!IInv
  PROVE  NobodyAbandoned
  <1>. SUFFICES ASSUME NEW t, NEW u \in Procs, t \in reg[u],
                       \A p \in Procs : t \in reg[p] => AtTagged(p) /\ Now(p).tag = t /\ Stuck(p)
                PROVE  FALSE
    BY DEF NobodyAbandoned
  <1>0. /\ Common /\ Rules /\ t \in Tags /\ t \in AllTags /\ i \in [Procs -> Nat]
        /\ \A T : B!Cardinality(T) = Cardinality(T)
    <2>1. \A T : B!Cardinality(T) = Cardinality(T)
      BY Zenon DEF B!Cardinality, Cardinality
    <2>. QED
      BY <2>1 DEF Practised, RInv, IInv, Typing, AllTags, Sound, Counters
  <1>1. ASSUME NEW p \in Procs, t \in reg[p]
        PROVE  /\ AtSlot(p) /\ B!Here(p) = t /\ Place[p] = pc[p] /\ Now(p).op = "tagged"
               /\ \/ pc[p] = "collecting" /\ i[p] > 0 /\ Arrivals[t] = 0
                  \/ pc[p] = "awaiting" /\ Departures[t] = 0
    <2>1. AtTagged(p) /\ Now(p).tag = t /\ Stuck(p)
      BY <1>1
    <2>2. AtSlot(p) /\ Now(p).op = "tagged"
      BY <2>1 DEF AtTagged, Stuck, AtSlot, Outside
    <2>3. /\ AtMeeting(p) /\ slot[p] \in Barriers /\ B!Here(p) = t /\ Carries(slot[p], t)
      BY <1>0, <2>1, <2>2, SlotNamed
    <2>4. Arrivals[t] = arrive[slot[p]] /\ Departures[t] = depart[slot[p]]
      BY <1>0, <2>3, ViewNow
    <2>5. Place[p] = pc[p]
      BY <1>0, <2>3, MeetingIs
    <2>. QED
      BY <2>1, <2>2, <2>3, <2>4, <2>5 DEF Stuck
  <1>2. Actives[t]
    <2>1. CASE pc[u] = "collecting"
      BY <1>1, <2>1 DEF B!IInv, B!Leader, B!Leads
    <2>2. CASE pc[u] = "awaiting" /\ ~Actives[t]
      <3>1. Cardinality(B!Waiting(t)) = 0
        BY <1>0, <1>1, <2>2 DEF B!IInv, B!Quiet
      <3>2. IsFiniteSet(B!Waiting(t)) /\ u \in B!Waiting(t)
        <4>1. B!Waiting(t) \subseteq Procs
          BY DEF B!Waiting
        <4>. QED
          BY <1>1, <2>2, <4>1, ProcsAssumption, FS_Subset DEF B!Waiting
      <3>. QED
        BY <3>1, <3>2, FS_EmptySet
    <2>. QED
      BY <1>1, <2>1, <2>2
  <1>3. PICK l \in Procs : B!Leads(l) /\ B!Here(l) = t
    BY <1>0, <1>2 DEF B!IInv, B!Leader
  <1>4. t \in reg[l]
    <2>1. AtSlot(l)
      BY <1>3 DEF B!Leads, Place, AtSlot, Outside
    <2>2. /\ AtMeeting(l)
          /\ Now(l).op = "tagged" => B!Here(l) = Now(l).tag
          /\ Now(l).op # "tagged" => slot[l] = 0
          /\ Carries(slot[l], t)
      BY <1>0, <1>3, <2>1, SlotNamed
    <2>3. Now(l).op = "tagged"
      BY <1>0, <2>2, TableAssumption DEF Carries, RInv, IInv, Anonymous
    <2>4. AtTagged(l)
      BY <2>1, <2>2, <2>3 DEF AtTagged, AtMeeting, AtSlot, Outside
    <2>. QED
      BY <1>3, <2>2, <2>3, <2>4, RulesDiscipline DEF RInv, Disciplined, Regular, AtMeeting,
             Practised
  <1>5. pc[l] = "collecting" /\ i[l] > 0 /\ Arrivals[t] = 0
    BY <1>1, <1>3, <1>4 DEF B!Leads
  <1>6. ~B!Settled(l) /\ B!Gathers(l)
    BY <1>1, <1>4, <1>5 DEF B!Settled, B!Gathers
  <1>7. \A q \in Procs : t \in reg[q]
    <2>1. Now(l).tag = t
      BY <1>4
    <2>2. Of(t) = Procs
      BY <1>0, <1>1, <1>4, <1>6, <2>1, AllRegistered DEF B!IInv, Practised
    <2>. QED
      BY <2>2 DEF Of
  <1>8. B!Waiting(t) = Procs \ {l}
    <2>1. \A q \in Procs \ {l} : pc[q] = "awaiting"
      <3>. SUFFICES ASSUME NEW q \in Procs \ {l}, pc[q] = "collecting"
                    PROVE  FALSE
        BY <1>1, <1>7
      <3>. QED
        BY <1>1, <1>3, <1>7 DEF B!IInv, B!Leader, B!Leads
    <2>. QED
      BY <1>1, <1>5, <1>7, <2>1 DEF B!Waiting
  <1>9. Arrivals[t] + (Cardinality(Procs) - 1) = Cardinality(B!Waiting(t)) + i[l]
    BY <1>0, <1>3, <1>6 DEF B!IInv, B!Gathering, B!N
  <1>10. Cardinality(B!Waiting(t)) = Cardinality(Procs) - 1 /\ Cardinality(Procs) \in Nat
    BY <1>8, ProcsAssumption, FS_RemoveElement, FS_CardinalityType
  <1>. QED
    BY <1>0, <1>5, <1>9, <1>10

\* ... and no longer: those registered for a tag are never all at its barrier, each waiting
\* for a token that is not there (blts_sync.c:230-303).
THEOREM NobodyLeftWaiting ==
  ASSUME Practised
  PROVE  Spec => []NobodyAbandoned
  <1>1. Init => RInv /\ B!IInv
    BY InitBoth
  <1>2. RInv /\ B!IInv /\ [Next]_tvars => RInv' /\ B!IInv'
    BY NextBoth
  <1>3. RInv /\ B!IInv => NobodyAbandoned
    BY AbandonedSuffices
  <1>. QED
    BY <1>1, <1>2, <1>3, PTL DEF Spec

\* "Block until all referrers reach barrier" (blts_sync.c:182), of the whole table: calls
\* about tags are entries into, and passages of, the abstract barrier.
THEOREM ImplementsAbstract ==
  ASSUME Practised
  PROVE  Spec => B!Abstract!Init /\ [][B!Abstract!Next]_(B!Abstract!vars)
  <1>1. Init => RInv /\ B!IInv /\ B!Abstract!Init
    <2>1. ASSUME Init
          PROVE  B!Init
      BY <2>1, InitBoth
    <2>2. B!Init => B!Abstract!Init
      BY DEF B!Init, B!InitWith, B!Abstract!Init, B!Entered, B!Passed
    <2>. QED
      BY <2>1, <2>2, InitBoth
  <1>2. ASSUME RInv, B!IInv, [Next]_tvars
        PROVE  RInv' /\ B!IInv' /\ [B!Abstract!Next]_(B!Abstract!vars)
    <2>1. RInv' /\ B!IInv' /\ [B!Next]_(B!vars)
      BY <1>2, NextBoth
    <2>. QED
      BY <1>2, <2>1, B!RefinementStep, MeetingsTyped, NumberIs, ProcsAssumption
  <1>. QED
    BY <1>1, <1>2, PTL DEF Spec
=============================================================================
