------------------------------ MODULE SyncMaster ------------------------------
(***************************************************************************)
(* The life of the shared area of blts_sync.c: `-syncprep <count>' leaves  *)
(* a daemon that creates the area, waits until <count> clients have        *)
(* finished, and removes it; each `-sync' test process attaches to the     *)
(* area, its test takes and gives back sync_mutex, and the process signals *)
(* its completion.                                                         *)
(*                                                                         *)
(* The daemon is detached before it has set up anything, so clients start  *)
(* when they please.  Barriers are not looked at here (see BarrierSync): a *)
(* test is a number of sections under sync_mutex.                          *)
(***************************************************************************)
EXTENDS Naturals, FiniteSets

CONSTANTS
  Masters,      \* runs of -syncprep; each creates an area of its own, or fails
  Clients,      \* test processes started with -sync
  ClientCount,  \* the count given to -syncprep
  MaxSections,  \* bound: sections under sync_mutex in a test
  NoArea        \* what the name stands for when there is no area

ASSUME NoAreaAssumption == NoArea \notin Masters
ASSUME SizesAssumption == /\ ClientCount \in Nat \ {0} /\ MaxSections \in Nat
                          /\ IsFiniteSet(Clients)

VARIABLES
  name,        \* the area SYNC_SHM_NAME stands for, or NoArea
  mpc,         \* mpc[m]: where daemon m is
  left,        \* left[m]: completions daemon m still waits for
  mutexVal,    \* mutexVal[m]: value of sync_mutex in m's area
  completion,  \* completion[m]: value of completion_signal in m's area
  cpc,         \* cpc[c]: where client c is
  area,        \* area[c]: the area c has mapped
  sections,    \* sections[c]: sections c's test has still to begin
  lost,        \* clients asleep on a semaphore that was reinitialised
  irregular    \* for the properties: clients that attached to an area that was not
               \* ready, or were killed in a section

vars == <<name, mpc, left, mutexVal, completion, cpc, area, sections, lost, irregular>>
areaVars == <<mutexVal, completion>>
masterVars == <<mpc, left>>
clientVars == <<cpc, area, sections, lost, irregular>>

MasterLabels == {"start", "created", "sized", "zeroed", "mutexReady",
                 "completionReady", "collecting", "closing", "destroying",
                 "destroyed", "exiting", "gone"}
ClientLabels == {"start", "idle", "holding", "finished", "refused", "gone", "crashed"}

TypeOK == /\ name \in Masters \cup {NoArea}
          /\ mpc \in [Masters -> MasterLabels]
          /\ left \in [Masters -> 0..ClientCount]
          /\ mutexVal \in [Masters -> 0..1]
          /\ completion \in [Masters -> 0..Cardinality(Clients)]
          /\ cpc \in [Clients -> ClientLabels]
          /\ area \in [Clients -> Masters \cup {NoArea}]
          /\ sections \in [Clients -> 0..MaxSections]
          /\ lost \subseteq Clients
          /\ irregular \subseteq Clients

Init == /\ name = NoArea
        /\ mpc = [m \in Masters |-> "start"]
        /\ left = [m \in Masters |-> ClientCount]
        /\ mutexVal = [m \in Masters |-> 0]
        /\ completion = [m \in Masters |-> 0]
        /\ cpc = [c \in Clients |-> "start"]
        /\ area = [c \in Clients |-> NoArea]
        /\ sections \in [Clients -> 0..MaxSections]
        /\ lost = {}
        /\ irregular = {}

MGoto(m, from, to) == mpc[m] = from /\ mpc' = [mpc EXCEPT ![m] = to]
CGoto(c, from, to) == cpc[c] = from /\ cpc' = [cpc EXCEPT ![c] = to]

\* Clients whose test is blocked in sync_mutex_lock() of area m.
Blocked(m) == {c \in Clients : /\ area[c] = m /\ cpc[c] = "idle"
                               /\ sections[c] > 0 /\ mutexVal[m] = 0}

-----------------------------------------------------------------------------
\* setup_shm_master(): shm_open(O_CREAT | O_EXCL).
Create(m) == /\ MGoto(m, "start", "created")
             /\ name = NoArea
             /\ name' = m
             /\ UNCHANGED <<left, areaVars, clientVars>>

\* The name is taken: setup fails, goto daemon_done.
CreateFails(m) == /\ MGoto(m, "start", "exiting")
                  /\ name # NoArea
                  /\ UNCHANGED <<name, left, areaVars, clientVars>>

\* ftruncate(): until then an access to the mapped area is a SIGBUS.
Resize(m) == /\ MGoto(m, "created", "sized")
             /\ UNCHANGED <<name, left, areaVars, clientVars>>

\* memset() of the area.  Who sleeps on a semaphore that is overwritten may be
\* forgotten: the count of its waiters is in it.
Wipe(m) == /\ MGoto(m, "sized", "zeroed")
           /\ mutexVal' = [mutexVal EXCEPT ![m] = 0]
           /\ completion' = [completion EXCEPT ![m] = 0]
           /\ \E L \in SUBSET Blocked(m) : lost' = lost \cup L
           /\ UNCHANGED <<name, left, cpc, area, sections, irregular>>

\* sem_init(sync_mutex, 0): "start locked".
InitMutex(m) == /\ MGoto(m, "zeroed", "mutexReady")
                /\ mutexVal' = [mutexVal EXCEPT ![m] = 0]
                /\ \E L \in SUBSET Blocked(m) : lost' = lost \cup L
                /\ UNCHANGED <<name, left, completion, cpc, area, sections, irregular>>

\* sem_init(completion_signal, 0).
InitCompletion(m) == /\ MGoto(m, "mutexReady", "completionReady")
                     /\ completion' = [completion EXCEPT ![m] = 0]
                     /\ UNCHANGED <<name, left, mutexVal, clientVars>>

\* barrier_init(0, client_count, "default") and sync_mutex_unlock().
Open(m) == /\ MGoto(m, "completionReady", "collecting")
           /\ mutexVal' = [mutexVal EXCEPT ![m] = @ + 1]
           /\ UNCHANGED <<name, left, completion, clientVars>>

\* Mutated forms of the next one: one completion too many is waited for; sem_wait()
\* returns early and its result is ignored.
TakeCompletion_OneMore(m) ==
  /\ mpc[m] = "collecting" /\ left[m] > 0
  /\ completion[m] > 0
  /\ completion' = [completion EXCEPT ![m] = @ - 1]
  /\ left' = [left EXCEPT ![m] = @ - 1]
  /\ UNCHANGED <<name, mpc, mutexVal, clientVars>>
TakeCompletion_Early(m) ==
  /\ mpc[m] = "collecting" /\ left[m] > 0
  /\ completion' = [completion EXCEPT ![m] = IF @ > 0 THEN @ - 1 ELSE @]
  /\ left' = [left EXCEPT ![m] = @ - 1]
  /\ mpc' = [mpc EXCEPT ![m] = IF left[m] = 1 THEN "closing" ELSE @]
  /\ UNCHANGED <<name, mutexVal, clientVars>>

\* One sem_wait(completion_signal) of client_count.
TakeCompletion(m) == /\ mpc[m] = "collecting" /\ left[m] > 0
                     /\ completion[m] > 0
                     /\ completion' = [completion EXCEPT ![m] = @ - 1]
                     /\ left' = [left EXCEPT ![m] = @ - 1]
                     /\ mpc' = [mpc EXCEPT ![m] = IF left[m] = 1 THEN "closing" ELSE @]
                     /\ UNCHANGED <<name, mutexVal, clientVars>>

\* Final cleanup: sync_mutex_lock(), destroy, sync_mutex_unlock(), destroy.
Close(m) == /\ MGoto(m, "closing", "destroying")
            /\ mutexVal[m] > 0
            /\ mutexVal' = [mutexVal EXCEPT ![m] = @ - 1]
            /\ UNCHANGED <<name, left, completion, clientVars>>
Destroy(m) == /\ MGoto(m, "destroying", "destroyed")
              /\ mutexVal' = [mutexVal EXCEPT ![m] = @ + 1]
              /\ UNCHANGED <<name, left, completion, clientVars>>
Unmap(m) == /\ MGoto(m, "destroyed", "exiting")
            /\ UNCHANGED <<name, left, areaVars, clientVars>>

\* daemon_done, on every path: shm_unlink(SYNC_SHM_NAME), whoever's area that is.
Unlink(m) == /\ MGoto(m, "exiting", "gone")
             /\ name' = NoArea
             /\ UNCHANGED <<left, areaVars, clientVars>>

Master(m) ==
  \/ Create(m)
  \/ CreateFails(m)
  \/ Resize(m)
  \/ Wipe(m)
  \/ InitMutex(m)
  \/ InitCompletion(m)
  \/ Open(m)
  \/ TakeCompletion(m)
  \/ Close(m)
  \/ Destroy(m)
  \/ Unmap(m)
  \/ Unlink(m)

-----------------------------------------------------------------------------
\* Accessible once ftruncate() has given the area its size.
Sized(m) == mpc[m] \notin {"start", "created"}

\* Its semaphores are not written any more but by their users.
Ready(m) == mpc[m] \notin {"start", "created", "sized", "zeroed", "mutexReady"}

\* blts_sync_client_init(): attach to whatever area has the name.
Attach(c) == /\ CGoto(c, "start", "idle")
             /\ name # NoArea
             /\ area' = [area EXCEPT ![c] = name]
             /\ irregular' = IF Ready(name) THEN irregular ELSE irregular \cup {c}
             /\ UNCHANGED <<name, masterVars, areaVars, sections, lost>>

\* shm_open() fails: "Failed setting up synchronization", the process ends, and
\* blts_sync_client_cleanup() has nothing mapped to signal on.
Refuse(c) == /\ CGoto(c, "start", "refused")
             /\ name = NoArea
             /\ UNCHANGED <<name, masterVars, areaVars, area, sections, lost, irregular>>

\* The test enters a section: sync_mutex_lock().
Lock(c) == /\ CGoto(c, "idle", "holding")
           /\ c \notin lost
           /\ sections[c] > 0
           /\ Sized(area[c]) /\ mutexVal[area[c]] > 0
           /\ mutexVal' = [mutexVal EXCEPT ![area[c]] = @ - 1]
           /\ sections' = [sections EXCEPT ![c] = @ - 1]
           /\ UNCHANGED <<name, masterVars, completion, area, lost, irregular>>

\* Mutated form of the next one: the section keeps the mutex.
Unlock_Not(c) == /\ CGoto(c, "holding", "idle")
                 /\ UNCHANGED <<name, masterVars, areaVars, area, sections, lost, irregular>>

\* ... and leaves it: sync_mutex_unlock().
Unlock(c) == /\ CGoto(c, "holding", "idle")
             /\ mutexVal' = [mutexVal EXCEPT ![area[c]] = @ + 1]
             /\ UNCHANGED <<name, masterVars, completion, area, sections, lost, irregular>>

\* The test ends by itself: it has done all its sections, or an access to an area
\* without a size has killed it (the CLI goes on).
Finish(c) == /\ CGoto(c, "idle", "finished")
             /\ sections[c] = 0 \/ ~Sized(area[c])
             /\ UNCHANGED <<name, masterVars, areaVars, area, sections, lost, irregular>>

\* The CLI kills a test that takes too long, wherever it is.
Kill(c) == /\ CGoto(c, "idle", "finished") \/ CGoto(c, "holding", "finished")
           /\ irregular' = IF cpc[c] = "holding" THEN irregular \cup {c} ELSE irregular
           /\ UNCHANGED <<name, masterVars, areaVars, area, sections, lost>>

\* blts_sync_client_cleanup(): sem_post(completion_signal), munmap().
Complete(c) == /\ CGoto(c, "finished", "gone")
               /\ Sized(area[c])
               /\ completion' = [completion EXCEPT ![area[c]] = @ + 1]
               /\ UNCHANGED <<name, masterVars, mutexVal, area, sections, lost, irregular>>

\* The same, on an area without a size: SIGBUS, now in the CLI itself.
CompleteCrash(c) == /\ CGoto(c, "finished", "crashed")
                    /\ ~Sized(area[c])
                    /\ UNCHANGED <<name, masterVars, areaVars, area, sections, lost, irregular>>

Client(c) ==
  \/ Attach(c)
  \/ Refuse(c)
  \/ Lock(c)
  \/ Unlock(c)
  \/ Finish(c)
  \/ Complete(c)
  \/ CompleteCrash(c)

ClientGone(c) == cpc[c] \in {"refused", "gone", "crashed"}
Finished == /\ \A m \in Masters : mpc[m] = "gone"
            /\ \A c \in Clients : ClientGone(c) \/ cpc[c] = "start"
Terminated == Finished /\ UNCHANGED vars

Next == \/ \E m \in Masters : Master(m)
        \/ \E c \in Clients : Client(c) \/ Kill(c)
        \/ Terminated

\* Daemons and test processes keep being scheduled; no test need be killed.
Fairness == /\ \A m \in Masters : WF_vars(Master(m))
            /\ \A c \in Clients : WF_vars(Client(c))

Spec == Init /\ [][Next]_vars /\ Fairness

-----------------------------------------------------------------------------
\* The daemon takes the semaphores down only behind the last client: nobody has
\* its area mapped, waits on its semaphores or is still to signal.
Destroyed(m) == mpc[m] \in {"destroying", "destroyed", "exiting", "gone"} /\ left[m] = 0
MasterOutlivesClients ==
  \A m \in Masters : Destroyed(m) =>
    \A c \in Clients : area[c] = m => ClientGone(c)

\* The daemon "tracks" client_count processes (blts_sync.c:601): each completion a
\* client has signalled is still in the semaphore or has been counted off, unless
\* the client was there before the semaphores; none is counted that was not signalled.
Signalled(m) == Cardinality({c \in Clients : area[c] = m /\ cpc[c] = "gone"})
Regular(m) == \A c \in irregular : area[c] # m
EveryCompletionCounted ==
  \A m \in Masters :
    LET counted == completion[m] + (ClientCount - left[m])
    IN  counted <= Signalled(m) /\ (Regular(m) => counted = Signalled(m))

\* "cleans things up and dies when prepped number of clients exit" (README:135-136):
\* once they have, at an area that was ready for all of them and without one being
\* killed in a section, the daemon goes.
MasterDies ==
  \A m \in Masters :
    (Signalled(m) = ClientCount /\ Regular(m)) ~> mpc[m] = "gone"

\* As long as that is so of everybody, each client that has attached gets through
\* its test and ends: sync_mutex is never left locked, nor taken down too early.
NobodyLeftAsleep ==
  [](irregular = {}) => \A c \in Clients : cpc[c] = "idle" ~> ClientGone(c)
=============================================================================
