--------------------------- MODULE SyncMasterProofs ---------------------------
(***************************************************************************)
(* Proofs about SyncMaster, for any number of daemons and clients.         *)
(*                                                                         *)
(* What the daemon has counted and what is left in completion_signal is    *)
(* at most what the clients of its area have signalled, whoever came too   *)
(* early or was killed; so when it has counted as many as there are        *)
(* clients, they are all gone.                                             *)
(***************************************************************************)
EXTENDS SyncMaster, FiniteSetTheorems, TLAPS

\* Only these variables have to do with the counting.
Types == /\ mpc \in [Masters -> MasterLabels]
         /\ left \in [Masters -> 0..ClientCount]
         /\ completion \in [Masters -> Nat]
         /\ cpc \in [Clients -> ClientLabels]
         /\ area \in [Clients -> Masters \cup {NoArea}]
         /\ irregular \subseteq Clients
         /\ name \in Masters \cup {NoArea}

\* Clients are where a daemon has created an area; those that were there before the
\* semaphores are known.
Attached ==
  /\ \A m \in Masters : name = m => mpc[m] # "start"
  /\ \A c \in Clients :
       /\ cpc[c] \in {"idle", "holding", "finished", "gone"} => area[c] \in Masters
       /\ cpc[c] = "start" => area[c] = NoArea
       /\ area[c] \in Masters =>
            /\ mpc[area[c]] # "start"
            /\ Ready(area[c]) \/ c \in irregular

\* A daemon counts nothing before it has set up the semaphores, and does not go on to
\* close before it has counted all.
NotYet == \A m \in Masters : ~Ready(m) => left[m] = ClientCount

Signals(m) == {c \in Clients : area[c] = m /\ cpc[c] = "gone"}
Counted(m) == completion[m] + (ClientCount - left[m])
Balanced == \A m \in Masters :
  Counted(m) <= Cardinality(Signals(m)) /\ (Regular(m) => Counted(m) = Cardinality(Signals(m)))

Inv == Types /\ Attached /\ NotYet /\ Balanced

-----------------------------------------------------------------------------
\* The clients that have signalled are finitely many.
LEMMA SignalsFinite ==
  ASSUME NEW m
  PROVE  /\ IsFiniteSet(Signals(m)) /\ Cardinality(Signals(m)) \in Nat
         /\ Cardinality(Signals(m)) <= Cardinality(Clients)
  BY SizesAssumption, FS_Subset, FS_CardinalityType DEF Signals

\* Nobody is counted in the beginning.
LEMMA InvInit == Init => Inv
  <1>. SUFFICES ASSUME Init
                PROVE  Inv
    OBVIOUS
  <1>1. Types
    BY SizesAssumption DEF Init, Types, MasterLabels, ClientLabels
  <1>2. Attached /\ NotYet
    BY NoAreaAssumption DEF Init, Attached, NotYet
  <1>3. \A m : Signals(m) = {}
    BY DEF Init, Signals
  <1>4. Balanced
    <2>. SUFFICES ASSUME NEW m \in Masters
                  PROVE  Counted(m) = 0 /\ Cardinality(Signals(m)) = 0
      BY DEF Balanced
    <2>. QED
      BY <1>3, FS_EmptySet, SizesAssumption DEF Init, Counted
  <1>. QED
    BY <1>1, <1>2, <1>4 DEF Inv

\* A daemon's step: what it takes out of completion_signal it counts; when it sets the
\* semaphore up, all clients that are there have come too early.
LEMMA MasterStep ==
  ASSUME Inv, NEW m \in Masters, Master(m)
  PROVE  Inv'
  <1>. USE DEF MGoto
  <1>1. Types /\ Attached /\ NotYet /\ Balanced
    BY DEF Inv
  <1>2. UNCHANGED <<cpc, area, irregular>>
    BY DEF Master, Create, CreateFails, Resize, Wipe, InitMutex, InitCompletion, Open,
       TakeCompletion, Close, Destroy, Unmap, Unlink, clientVars
  <1>3. \A k : Signals(k)' = Signals(k) /\ (Regular(k)' <=> Regular(k))
    BY <1>2 DEF Signals, Regular
  <1>4. CASE Create(m)
    <2>1. /\ mpc[m] = "start" /\ mpc' = [mpc EXCEPT ![m] = "created"] /\ name' = m
          /\ UNCHANGED <<left, completion>>
      BY <1>4 DEF Create, areaVars
    <2>2. Types'
      BY <1>1, <1>2, <2>1 DEF Types, MasterLabels
    <2>3. Attached' /\ NotYet'
      BY <1>1, <1>2, <2>1 DEF Types, Attached, NotYet, Ready
    <2>4. Balanced'
      BY <1>1, <1>3, <2>1 DEF Balanced, Counted
    <2>. QED
      BY <2>2, <2>3, <2>4 DEF Inv
  <1>5. CASE CreateFails(m) \/ Resize(m) \/ InitMutex(m) \/ Open(m) \/ Close(m) \/ Destroy(m)
             \/ Unmap(m) \/ Unlink(m)
    <2>1. /\ mpc' \in [Masters -> MasterLabels] /\ UNCHANGED <<left, completion>>
          /\ name' \in {name, NoArea}
          /\ \A k \in Masters : Ready(k) => Ready(k)'
          /\ \A k \in Masters : mpc[k] # "start" => mpc'[k] # "start"
          /\ \A k \in Masters : Ready(k)' => Ready(k) \/ mpc[k] = "start"
      BY <1>1, <1>5 DEF CreateFails, Resize, InitMutex, Open, Close, Destroy, Unmap, Unlink,
         areaVars, Types, MasterLabels, Ready
    <2>2. Types'
      BY <1>1, <1>2, <2>1 DEF Types
    <2>3. Attached'
      BY <1>1, <1>2, <2>1, NoAreaAssumption DEF Types, Attached
    <2>4. NotYet'
      BY <1>1, <2>1 DEF NotYet
    <2>5. Balanced'
      BY <1>1, <1>3, <2>1 DEF Balanced, Counted
    <2>. QED
      BY <2>2, <2>3, <2>4, <2>5 DEF Inv
  <1>6. CASE Wipe(m) \/ InitCompletion(m)
    <2>1. /\ mpc' \in [Masters -> MasterLabels] /\ UNCHANGED <<left, name>>
          /\ completion' = [completion EXCEPT ![m] = 0]
          /\ ~Ready(m) /\ mpc[m] # "start"
          /\ \A k \in Masters : Ready(k) => Ready(k)'
          /\ \A k \in Masters : mpc[k] # "start" => mpc'[k] # "start"
          /\ \A k \in Masters : Ready(k)' => Ready(k) \/ k = m
      BY <1>1, <1>6 DEF Wipe, InitCompletion, clientVars, Types, MasterLabels, Ready
    <2>2. Types'
      BY <1>1, <1>2, <2>1 DEF Types
    <2>3. Attached'
      BY <1>1, <1>2, <2>1 DEF Types, Attached
    <2>4. NotYet'
      BY <1>1, <2>1 DEF NotYet
    <2>5. Counted(m)' = 0
      BY <1>1, <2>1, SizesAssumption DEF Counted, NotYet, Types
    <2>6. \A k \in Masters \ {m} : Counted(k)' = Counted(k)
      BY <1>1, <2>1 DEF Counted, Types
    <2>7. Regular(m) => Signals(m) = {}
      BY <1>1, <2>1 DEF Regular, Signals, Attached
    <2>8. Balanced'
      BY <1>1, <1>3, <2>5, <2>6, <2>7, SignalsFinite, FS_EmptySet DEF Balanced
    <2>. QED
      BY <2>2, <2>3, <2>4, <2>8 DEF Inv
  <1>7. CASE TakeCompletion(m)
    <2>1. /\ mpc' \in [Masters -> MasterLabels] /\ UNCHANGED name
          /\ completion' = [completion EXCEPT ![m] = @ - 1]
          /\ left' = [left EXCEPT ![m] = @ - 1]
          /\ completion[m] > 0 /\ left[m] > 0
          /\ Ready(m)
          /\ \A k \in Masters : Ready(k) <=> Ready(k)'
          /\ \A k \in Masters : mpc[k] # "start" => mpc'[k] # "start"
      BY <1>1, <1>7 DEF TakeCompletion, clientVars, Types, MasterLabels, Ready
    <2>2. Types'
      BY <1>1, <1>2, <2>1, SizesAssumption DEF Types
    <2>3. Attached'
      BY <1>1, <1>2, <2>1 DEF Types, Attached
    <2>4. NotYet'
      BY <1>1, <2>1 DEF NotYet, Types
    <2>5. \A k \in Masters : Counted(k)' = Counted(k)
      BY <1>1, <2>1, SizesAssumption DEF Counted, Types
    <2>6. Balanced'
      BY <1>1, <1>3, <2>5 DEF Balanced
    <2>. QED
      BY <2>2, <2>3, <2>4, <2>6 DEF Inv
  <1>. QED
    BY <1>4, <1>5, <1>6, <1>7 DEF Master

\* A client's step: its completion is signalled once, as its last one.
LEMMA ClientStep ==
  ASSUME Inv, NEW c \in Clients, Client(c) \/ Kill(c)
  PROVE  Inv'
  <1>. USE DEF CGoto
  <1>1. Types /\ Attached /\ NotYet /\ Balanced
    BY DEF Inv
  <1>2. UNCHANGED <<name, mpc, left>>
    BY DEF Client, Kill, Attach, Refuse, Lock, Unlock, Finish, Complete, CompleteCrash, masterVars
  <1>3. NotYet' /\ \A k \in Masters : Ready(k)' <=> Ready(k)
    BY <1>1, <1>2 DEF NotYet, Ready
  <1>4. CASE Complete(c)
    <2>1. /\ cpc[c] = "finished" /\ cpc' = [cpc EXCEPT ![c] = "gone"]
          /\ completion' = [completion EXCEPT ![area[c]] = @ + 1]
          /\ UNCHANGED <<area, irregular>>
      BY <1>4 DEF Complete
    <2>2. PICK a \in Masters : a = area[c]
      BY <1>1, <2>1 DEF Attached
    <2>3. Types'
      BY <1>1, <1>2, <2>1, <2>2 DEF Types, ClientLabels
    <2>4. Attached'
      BY <1>1, <1>2, <1>3, <2>1 DEF Types, Attached, Ready
    <2>5. Signals(a)' = Signals(a) \cup {c} /\ c \notin Signals(a)
      BY <1>1, <2>1, <2>2 DEF Signals, Types
    <2>6. Cardinality(Signals(a)') = Cardinality(Signals(a)) + 1
      BY <2>5, SignalsFinite, FS_AddElement
    <2>7. Counted(a)' = Counted(a) + 1 /\ Counted(a) \in Int
      BY <1>1, <1>2, <2>1, <2>2, SizesAssumption DEF Counted, Types
    <2>8. \A k \in Masters \ {a} : Counted(k)' = Counted(k) /\ Signals(k)' = Signals(k)
      BY <1>1, <1>2, <2>1, <2>2 DEF Counted, Signals, Types
    <2>9. \A k \in Masters : Regular(k)' <=> Regular(k)
      BY <2>1 DEF Regular
    <2>10. Balanced'
      <3>. SUFFICES ASSUME NEW k \in Masters
                    PROVE  /\ Counted(k)' <= Cardinality(Signals(k)')
                           /\ Regular(k) => Counted(k)' = Cardinality(Signals(k)')
        BY <2>9 DEF Balanced
      <3>1. /\ Counted(k) <= Cardinality(Signals(k))
            /\ Regular(k) => Counted(k) = Cardinality(Signals(k))
        BY <1>1 DEF Balanced
      <3>2. CASE k = a
        <4>. DEFINE x == Counted(a)
                    y == Cardinality(Signals(a))
        <4>1. /\ x \in Int /\ y \in Nat /\ x <= y /\ (Regular(a) => x = y)
              /\ Counted(a)' = x + 1 /\ Cardinality(Signals(a)') = y + 1
          BY <2>6, <2>7, <3>1, <3>2, SignalsFinite
        <4>. HIDE DEF x, y
        <4>2. x + 1 <= y + 1
          BY <4>1
        <4>. QED
          BY <3>2, <4>1, <4>2
      <3>3. CASE k # a
        BY <2>8, <3>1, <3>3
      <3>. QED
        BY <3>2, <3>3
    <2>. QED
      BY <1>3, <2>3, <2>4, <2>10 DEF Inv
  <1>5. CASE Attach(c)
    <2>1. /\ cpc[c] = "start" /\ cpc' = [cpc EXCEPT ![c] = "idle"]
          /\ name # NoArea /\ area' = [area EXCEPT ![c] = name]
          /\ irregular' = IF Ready(name) THEN irregular ELSE irregular \cup {c}
          /\ UNCHANGED completion
      BY <1>5 DEF Attach, areaVars
    <2>2. Types'
      BY <1>1, <1>2, <2>1 DEF Types, ClientLabels
    <2>3. Attached'
      BY <1>1, <1>2, <1>3, <2>1, NoAreaAssumption DEF Types, Attached
    <2>4. \A k \in Masters : Signals(k)' = Signals(k)
      BY <1>1, <2>1 DEF Signals, Types
    <2>5. \A k \in Masters : Regular(k)' => Regular(k)
      BY <1>1, <2>1, NoAreaAssumption DEF Regular, Types, Attached
    <2>6. Balanced'
      BY <1>1, <1>2, <2>1, <2>4, <2>5 DEF Balanced, Counted
    <2>. QED
      BY <1>3, <2>2, <2>3, <2>6 DEF Inv
  <1>6. CASE Refuse(c) \/ Lock(c) \/ Unlock(c) \/ Finish(c) \/ CompleteCrash(c) \/ Kill(c)
    <2>1. /\ cpc' \in [Clients -> ClientLabels]
          /\ irregular' \in {irregular, irregular \cup {c}}
          /\ UNCHANGED <<area, completion>>
          /\ \A d \in Clients : cpc'[d] = "gone" <=> cpc[d] = "gone"
          /\ \A d \in Clients : cpc'[d] = "start" => cpc[d] = "start"
          /\ \A d \in Clients : cpc'[d] \in {"idle", "holding", "finished"} =>
                                  cpc[d] \in {"idle", "holding", "finished"}
      BY <1>1, <1>6 DEF Refuse, Lock, Unlock, Finish, CompleteCrash, Kill, areaVars, Types,
         ClientLabels
    <2>2. Types'
      BY <1>1, <1>2, <2>1 DEF Types
    <2>3. Attached'
      BY <1>1, <1>2, <1>3, <2>1 DEF Types, Attached
    <2>4. \A k \in Masters : Signals(k)' = Signals(k) /\ (Regular(k)' => Regular(k))
      BY <2>1 DEF Signals, Regular
    <2>5. Balanced'
      BY <1>1, <1>2, <2>1, <2>4 DEF Balanced, Counted
    <2>. QED
      BY <1>3, <2>2, <2>3, <2>5 DEF Inv
  <1>. QED
    BY <1>4, <1>5, <1>6 DEF Client

\* The invariant holds in every state.
LEMMA InvHolds == Spec => []Inv
  <1>1. Inv /\ [Next]_vars => Inv'
    <2>. SUFFICES ASSUME Inv, [Next]_vars
                  PROVE  Inv'
      OBVIOUS
    <2>1. CASE UNCHANGED vars
      BY <2>1 DEF Inv, Types, Attached, NotYet, Balanced, Ready, Counted, Signals, Regular, vars
    <2>. QED
      BY <2>1, MasterStep, ClientStep DEF Next, Terminated
  <1>. QED
    BY <1>1, InvInit, PTL DEF Spec

-----------------------------------------------------------------------------
\* Every completion that has been signalled is in the semaphore or counted, and none is
\* counted that was not signalled (blts_sync_master_init(), blts_sync_client_cleanup()).
THEOREM CompletionsCounted == Spec => []EveryCompletionCounted
  <1>1. Inv => EveryCompletionCounted
    BY DEF Inv, Balanced, Counted, Signals, Signalled, EveryCompletionCounted
  <1>. QED
    BY <1>1, InvHolds, PTL

\* With as many clients as -syncprep was told of, at most, the semaphores are destroyed
\* behind the last one (final cleanup of blts_sync_master_init()).
THEOREM MasterOutlives ==
  ASSUME Cardinality(Clients) <= ClientCount
  PROVE  Spec => []MasterOutlivesClients
  <1>1. Inv => MasterOutlivesClients
    <2>. SUFFICES ASSUME Inv, NEW m \in Masters, Destroyed(m), NEW c \in Clients, area[c] = m
                  PROVE  ClientGone(c)
      BY DEF MasterOutlivesClients
    <2>1. Cardinality(Signals(m)) = Cardinality(Clients)
      <3>1. Counted(m) <= Cardinality(Signals(m)) /\ Counted(m) >= ClientCount
        BY SizesAssumption DEF Inv, Balanced, Types, Counted, Destroyed
      <3>2. Cardinality(Clients) \in Nat /\ Counted(m) \in Int
        BY SizesAssumption, FS_CardinalityType DEF Inv, Types, Counted
      <3>. QED
        BY <3>1, <3>2, SignalsFinite, SizesAssumption
    <2>2. Signals(m) = Clients
      BY <2>1, SizesAssumption, FS_Subset DEF Signals
    <2>. QED
      BY <2>2 DEF Signals, ClientGone
  <1>. QED
    BY <1>1, InvHolds, PTL
=============================================================================
