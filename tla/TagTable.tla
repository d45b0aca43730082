------------------------------- MODULE TagTable -------------------------------
(***************************************************************************)
(* The table of named barriers of blts_sync.c: processes register and      *)
(* deregister for tags (blts_sync_add_tag, blts_sync_del_tag) while others *)
(* wait at the barriers (blts_sync_tagged, blts_sync_anon).                *)
(*                                                                         *)
(* A slot of the table is a barrier of BltsSync; it is free while its      *)
(* refcount is zero.  Slot 0 is the anonymous barrier, tagged "default".   *)
(***************************************************************************)
EXTENDS BltsSync

CONSTANTS
  Tags,      \* names of barriers, without "default"
  Default,   \* the tag of slot 0
  Prefixed,  \* Prefixed[t]: the tags whose first 16 characters begin with t's
  Program    \* Program[p]: the calls p makes, [op |-> o, tag |-> t]

Ops == {"add", "del", "tagged", "anon"}
AllTags == Tags \cup {Default}

ASSUME TableAssumption ==
  /\ Barriers \subseteq Nat /\ 0 \in Barriers
  /\ Default \notin Tags
  /\ Prefixed \in [AllTags -> SUBSET AllTags]
  /\ \A t \in AllTags : t \in Prefixed[t]
  /\ Program \in [Procs -> Seq([op : Ops, tag : AllTags])]

VARIABLES
  tagOf,   \* tagOf[b]: the tag of slot b, of no meaning while the slot is free
  slot,    \* slot[p]: the slot p's call has found
  reg      \* reg[p]: the tags p has registered for (kept by the test program)

tvars == <<vars, tagOf, slot, reg>>

\* Places of a registration: sync_mutex is held, then the work is done.
RegLabels == {"adding", "deleting"}

InProgram(p) == visit[p] < Len(Program[p])
Now(p) == Program[p][visit[p] + 1]

TypeOK == /\ syncMutex \in 0..1
          /\ mutex \in [Barriers -> 0..1]
          /\ refcount \in [Barriers -> 0..Cardinality(Procs)]
          /\ active \in [Barriers -> BOOLEAN]
          /\ arrive \in [Barriers -> Nat]
          /\ depart \in [Barriers -> Nat]
          /\ pc \in [Procs -> Labels \cup RegLabels]
          /\ i \in [Procs -> Nat]
          /\ visit \in [Procs -> Nat]
          /\ tagOf \in [Barriers -> AllTags]
          /\ slot \in [Procs -> Barriers]
          /\ reg \in [Procs -> SUBSET Tags]

\* blts_sync_master_init(): barrier_init(0, client_count, "default"), the others 0.
Init == /\ InitWith([b \in Barriers |-> IF b = 0 THEN Cardinality(Procs) ELSE 0])
        /\ tagOf = [b \in Barriers |-> Default]
        /\ slot = [p \in Procs |-> 0]
        /\ reg = [p \in Procs |-> {}]

-----------------------------------------------------------------------------
\* Mutated form of FreeSlots: a slot in use is taken for a free one.
FreeSlots_Any == Barriers \ {0}

\* find_tagged_barrier(): the first slot in use whose tag begins with t.
Candidates(t) == {b \in Barriers : refcount[b] > 0 /\ tagOf[b] \in Prefixed[t]}
FreeSlots == {b \in Barriers : refcount[b] = 0}
Lowest(S) == CHOOSE b \in S : \A c \in S : b <= c

\* sync_mutex_lock() at the start of a registration or deregistration.
BeginReg(p) ==
  /\ \/ Now(p).op = "add" /\ Goto(p, "idle", "adding")
     \/ Now(p).op = "del" /\ Goto(p, "idle", "deleting")
  /\ syncMutex > 0
  /\ syncMutex' = syncMutex - 1
  /\ UNCHANGED <<mutex, refcount, active, arrive, depart, i, visit, tagOf, slot, reg>>

\* Mutated forms of the next one: the user is counted twice, or not at all.
RefExisting_Twice(p, t) ==
  /\ Goto(p, "adding", "returning")
  /\ Candidates(t) # {}
  /\ LET b == Lowest(Candidates(t)) IN
       /\ mutex[b] > 0
       /\ refcount' = [refcount EXCEPT ![b] = @ + 2]
  /\ reg' = [reg EXCEPT ![p] = @ \cup {t}]
  /\ UNCHANGED <<syncMutex, mutex, active, arrive, depart, i, visit, tagOf, slot>>
RefExisting_Uncounted(p, t) ==
  /\ Goto(p, "adding", "returning")
  /\ Candidates(t) # {}
  /\ reg' = [reg EXCEPT ![p] = @ \cup {t}]
  /\ UNCHANGED <<syncMutex, mutex, refcount, active, arrive, depart, i, visit,
                 tagOf, slot>>

\* tagged_barrier_ref(), tag found: refcount++ with the barrier's mutex taken and
\* given back, waiting for it as long as it takes.
RefExisting(p, t) ==
  /\ Goto(p, "adding", "returning")
  /\ Candidates(t) # {}
  /\ LET b == Lowest(Candidates(t)) IN
       /\ mutex[b] > 0
       /\ refcount' = [refcount EXCEPT ![b] = @ + 1]
  /\ reg' = [reg EXCEPT ![p] = @ \cup {t}]
  /\ UNCHANGED <<syncMutex, mutex, active, arrive, depart, i, visit, tagOf, slot>>

\* tagged_barrier_ref(), new tag: barrier_init() of the first free slot, which
\* wipes the slot, whatever is going on at it.
RefNew(p, t) ==
  /\ Goto(p, "adding", "returning")
  /\ Candidates(t) = {} /\ FreeSlots # {}
  /\ LET b == Lowest(FreeSlots) IN
       /\ mutex' = [mutex EXCEPT ![b] = 1]
       /\ arrive' = [arrive EXCEPT ![b] = 0]
       /\ depart' = [depart EXCEPT ![b] = 0]
       /\ active' = [active EXCEPT ![b] = FALSE]
       /\ refcount' = [refcount EXCEPT ![b] = 1]
       /\ tagOf' = [tagOf EXCEPT ![b] = t]
  /\ reg' = [reg EXCEPT ![p] = @ \cup {t}]
  /\ UNCHANGED <<syncMutex, i, visit, slot>>

\* Mutated form of the next one: the early return keeps sync_mutex.
RefFull_Locked(p, t) ==
  /\ Goto(p, "adding", "idle")
  /\ Candidates(t) = {} /\ FreeSlots = {}
  /\ visit' = [visit EXCEPT ![p] = @ + 1]
  /\ UNCHANGED <<syncMutex, mutex, refcount, active, arrive, depart, i,
                 tagOf, slot, reg>>

\* tagged_barrier_ref(), "Tag table full": -ENOSPC, nothing is registered.
RefFull(p, t) ==
  /\ Goto(p, "adding", "returning")
  /\ Candidates(t) = {} /\ FreeSlots = {}
  /\ UNCHANGED <<syncMutex, mutex, refcount, active, arrive, depart, i, visit,
                 tagOf, slot, reg>>

\* tagged_barrier_unref(): refcount-- without the barrier's mutex; at zero the
\* semaphores are destroyed and the slot is zeroed, whoever may use it.
Unref(p, t) ==
  /\ Goto(p, "deleting", "returning")
  /\ Candidates(t) # {}
  /\ LET b == Lowest(Candidates(t)) IN
       /\ refcount' = [refcount EXCEPT ![b] = @ - 1]
       /\ IF refcount[b] > 1
            THEN UNCHANGED <<mutex, arrive, depart, active, tagOf>>
            ELSE /\ mutex' = [mutex EXCEPT ![b] = 0]
                 /\ arrive' = [arrive EXCEPT ![b] = 0]
                 /\ depart' = [depart EXCEPT ![b] = 0]
                 /\ active' = [active EXCEPT ![b] = FALSE]
                 /\ tagOf' = [tagOf EXCEPT ![b] = Default]
  /\ reg' = [reg EXCEPT ![p] = @ \ {t}]
  /\ UNCHANGED <<syncMutex, i, visit, slot>>

UnrefUnknown(p, t) ==
  /\ Goto(p, "deleting", "returning")
  /\ Candidates(t) = {}
  /\ UNCHANGED <<syncMutex, mutex, refcount, active, arrive, depart, i, visit,
                 tagOf, slot, reg>>

\* blts_sync_anon(): barrier 0 without a look at the table.
CallAnon(p) == /\ Now(p).op = "anon"
               /\ Call(p)
               /\ slot' = [slot EXCEPT ![p] = 0]
               /\ UNCHANGED <<tagOf, reg>>

\* blts_sync_tagged(): sync_mutex_lock() and find_tagged_barrier().
CallTagged(p, t) == /\ Now(p).op = "tagged"
                    /\ Call(p)
                    /\ Candidates(t) # {}
                    /\ slot' = [slot EXCEPT ![p] = Lowest(Candidates(t))]
                    /\ UNCHANGED <<tagOf, reg>>

\* "Named barrier not available": -EINVAL.
CallUnknown(p, t) ==
  /\ Now(p).op = "tagged"
  /\ Goto(p, "idle", "returning")
  /\ Candidates(t) = {}
  /\ syncMutex > 0
  /\ syncMutex' = syncMutex - 1
  /\ UNCHANGED <<mutex, refcount, active, arrive, depart, i, visit, tagOf, slot, reg>>

Registration(p, t) ==
  \/ BeginReg(p)
  \/ RefExisting(p, t)
  \/ RefNew(p, t)
  \/ RefFull(p, t)
  \/ Unref(p, t)
  \/ UnrefUnknown(p, t)

Step(p) ==
  /\ InProgram(p)
  /\ \/ Registration(p, Now(p).tag)
     \/ CallAnon(p)
     \/ CallTagged(p, Now(p).tag)
     \/ CallUnknown(p, Now(p).tag)
     \/ Barrier_sync(p, slot[p]) /\ UNCHANGED <<tagOf, slot, reg>>

Finished == \A p \in Procs : ~InProgram(p)
Terminated == Finished /\ UNCHANGED tvars

Next == (\E p \in Procs : Step(p)) \/ Terminated

\* Every process keeps being scheduled.
Fairness == \A p \in Procs : WF_tvars(Step(p))

Spec == Init /\ [][Next]_tvars /\ Fairness

-----------------------------------------------------------------------------
\* In a tagged call, past the look at the table.
AtTagged(p) == /\ InProgram(p) /\ Now(p).op = "tagged"
               /\ pc[p] \notin {"idle", "returning"}

\* "Return index of barrier with given tag" (:311): from the look at the table to
\* the end of the call the slot is in use and carries the tag asked for; it is not
\* another tag's, and not freed or taken over under the feet of who waits there.
AtOwnBarrier ==
  \A p \in Procs : AtTagged(p) =>
    refcount[slot[p]] > 0 /\ tagOf[slot[p]] = Now(p).tag

\* refcount is "number of registered users" (:41): every tag somebody registered
\* for has one slot, which counts the processes registered for it, and no slot
\* outlives its users.
RegistrationsCounted ==
  /\ \A t \in UNION {reg[p] : p \in Procs} :
       Cardinality({b \in Barriers : refcount[b] > 0 /\ tagOf[b] = t}) = 1
  /\ \A b \in Barriers \ {0} : refcount[b] > 0 =>
       refcount[b] = Cardinality({p \in Procs : tagOf[b] \in reg[p]})

\* "Block process until each registered user reaches named barrier" (:408): who has
\* passed its k-th call at a tag, has seen every process registered for it there.
NobodyPassesUnregarded ==
  \A p, q \in Procs :
    AtTagged(p) /\ pc[p] = "departing" /\ Now(p).tag \in reg[q]
      => visit[q] > visit[p] \/ (visit[q] = visit[p] /\ pc[q] # "idle")

\* ... and no longer: it does not happen that all the processes registered for a
\* tag are at its barrier and every one of them waits for a token.
Stuck(p) == \/ pc[p] = "collecting" /\ i[p] > 0 /\ arrive[slot[p]] = 0
            \/ pc[p] = "awaiting" /\ depart[slot[p]] = 0
NobodyAbandoned ==
  \A t \in UNION {reg[p] : p \in Procs} :
    \E p \in Procs : t \in reg[p] /\ ~(AtTagged(p) /\ Now(p).tag = t /\ Stuck(p))

\* Everybody gets through its calls.
ProgramsFinish == <>Finished
=============================================================================
