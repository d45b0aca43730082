--------------------------- MODULE HostDriverProofs ---------------------------
(***************************************************************************)
(* Proofs about HostDriver, for any number of users, buffers and           *)
(* connections.                                                            *)
(*                                                                         *)
(* The invariant comes in three parts, proved one after the other: who has *)
(* a buffer (Housekeeping), who has a file (Files), and what transfers,    *)
(* flags and URBs have to do with each other (Transfers).                  *)
(***************************************************************************)
EXTENDS HostDriver, FiniteSetTheorems, TLAPS

-----------------------------------------------------------------------------
\* TypeOK in parts, but for the upper bound of openCount, which Files gives.
CoreTyping == /\ held \in BOOLEAN /\ suspending \in BOOLEAN /\ freed \in BOOLEAN
              /\ cpc \in CoreLabels
              /\ cb \in 1..NBufs + 1
EpTyping == /\ session \in 0..MaxSessions
            /\ ep \in [Bufs -> BOOLEAN]
            /\ urb \in [Bufs -> 0..MaxSessions]
FlagTyping == /\ active \in [Bufs -> BOOLEAN]
              /\ discon \in [Bufs -> BOOLEAN]
              /\ busy \in [Bufs -> BOOLEAN]
FileTyping == /\ dirty \in BOOLEAN
              /\ openCount \in Int
              /\ stale \subseteq Users
UserTyping == /\ upc \in [Users -> UserLabels]
              /\ ubuf \in [Users -> Bufs]
              /\ used \in [Users -> 0..MaxSessions]
              /\ xfer \in [Users -> {"none", "flying", "unlinked", "back", "cancelled"}]
              /\ result \in [Users -> {"ok", "error"}]
              /\ late \subseteq Users
Typing == CoreTyping /\ EpTyping /\ FlagTyping /\ FileTyping /\ UserTyping

\* Where the loop of usb_stop_all_active() is at a buffer.
AtBuffer == cpc \in {"stopWait", "retest", "gaveUp"}
Scanning == AtBuffer => cb <= NBufs

\* Who is between the setting and the clearing of USER_BUSY has the buffer.
Claims == \A u \in Users : upc[u] \in InTransfer => busy[ubuf[u]]

Housekeeping == Typing /\ Scanning /\ Claims /\ OneCallPerBuffer

\* The files are counted, and while one from before a disconnect is open the driver is
\* dirty.
DirtyWhileStale == stale # {} => dirty
Files == /\ openCount = Cardinality(Present)
         /\ stale \subseteq Present
         /\ DirtyWhileStale

-----------------------------------------------------------------------------
\* A disconnect is under way: from the marking of the buffers to their teardown.
Stopping == {"marked", "stopping", "stopWait", "retest", "gaveUp", "teardown"}
Disconnecting == cpc \in Stopping /\ ~suspending

Submitted == {"marking", "checking", "unlinking", "awaiting", "settling", "cut", "reading"}

\* All buffers are marked during a disconnect.
Marked == Disconnecting => \A b \in Bufs : discon[b]

\* A probe has failed, and left some endpoints set up.
HalfProbed == cpc \in {"failed", "bugInProbe"}

\* Otherwise the endpoints have URBs while the device is there, and none afterwards.
Allocated == /\ cpc \in {"absent", "deregister"} => \A b \in Bufs : urb[b] = 0 /\ ~ep[b]
             /\ ~HalfProbed => \A b \in Bufs : ep[b] => urb[b] # 0

\* The places of a transfer where ACTIVE may be set for it.
Watched == {"checking", "awaiting", "settling", "cut"}

\* A transfer finds an URB to submit, and then keeps it.
OwnUrb(u) ==
  /\ upc[u] = "submitting" => urb[ubuf[u]] # 0 \/ HalfProbed
  /\ upc[u] \in Submitted => used[u] = urb[ubuf[u]] /\ used[u] # 0

\* ACTIVE is set for one that waits, unless somebody has cancelled it.
Flagged(u) == upc[u] \in {"checking", "awaiting"} /\ xfer[u] = "flying" => active[ubuf[u]]

\* It does not come back with its URB in flight, or with success if that was cancelled.
Settled(u) ==
  /\ upc[u] \notin Submitted => xfer[u] \notin Pending
  /\ upc[u] \in {"settling", "reading"} => xfer[u] \in {"back", "cancelled"}
  /\ upc[u] \in Submitted => xfer[u] # "none"
  /\ upc[u] = "finishing" /\ result[u] = "ok" => xfer[u] = "back"

\* The loop of a disconnect is not past it unless it has crashed; and at the buffer where
\* the loop waits it does not sleep over an URB that has not been killed.
Going == InTransfer \ {"crashed"}
Reached(u) ==
  ~suspending =>
    /\ upc[u] \in Going => ~Passed(ubuf[u])
    /\ cpc \in {"stopWait", "retest"} /\ ubuf[u] = cb /\ upc[u] = "awaiting"
         => xfer[u] # "flying"

Sound(u) == OwnUrb(u) /\ Flagged(u) /\ Settled(u) /\ Reached(u)

\* Behind ACTIVE there is a transfer.
Backed == \A b \in Bufs : active[b] => \E u \in Users : ubuf[u] = b /\ upc[u] \in Watched

\* The callback's BUG_ON(URB_ACTIVE): it has the lock, so the late call stays.
Bugged == cpc = "bug" =>
            held /\ \E u \in late : upc[u] \in Watched \cup {"unlinking"}

\* The loop begins at the first buffer; it is a disconnect that tears down.
Course == /\ cpc = "marked" => cb = 1
          /\ cpc = "teardown" => ~suspending

Transfers == /\ Course
             /\ Marked
             /\ Allocated
             /\ \A u \in Users \ late : Sound(u)
             /\ Backed
             /\ Bugged

-----------------------------------------------------------------------------
\* There is a first buffer.
LEMMA FirstBuf == 1 \in Bufs
  BY SizesAssumption DEF Bufs

\* The steps of a user keep the types: those of its own variables, and the few others
\* that it writes.
LEMMA TypingUser ==
  ASSUME Typing, NEW u \in Users, User(u)
  PROVE  Typing'
  <1>. USE DEF User, Transfer
  <1>1. CoreTyping'
    BY DEF Typing, CoreTyping, coreVars, Open, Release, Enter, Acquire, FoundBusy,
           WaitUserq, Interrupt, SwitchType, Oops, Submit, Mark, Check, Unlink, Await,
           Settle, ReadStatus, Finish, GiveBack
  <1>2. EpTyping'
    BY DEF Typing, EpTyping, epVars, Open, Release, Enter, Acquire, FoundBusy, WaitUserq,
           Interrupt, SwitchType, Oops, Submit, Mark, Check, Unlink, Await, Settle,
           ReadStatus, Finish, GiveBack
  <1>3. FlagTyping'
    BY DEF Typing, FlagTyping, flagVars, Open, Release, Enter, Acquire, FoundBusy,
           WaitUserq, Interrupt, SwitchType, Oops, Submit, Mark, Check, Unlink, Await,
           Settle, ReadStatus, Finish, GiveBack
  <1>4. FileTyping'
    <2>1. stale' \subseteq Users
      BY DEF Typing, FileTyping, fileVars, Open, Release, Enter, Acquire, FoundBusy,
             WaitUserq, Interrupt, SwitchType, Oops, Submit, Mark, Check, Unlink, Await,
             Settle, ReadStatus, Finish, GiveBack
    <2>2. openCount' \in Int
      BY DEF Typing, FileTyping, fileVars, Open, Release, Enter, Acquire, FoundBusy,
             WaitUserq, Interrupt, SwitchType, Oops, Submit, Mark, Check, Unlink, Await,
             Settle, ReadStatus, Finish, GiveBack
    <2>3. dirty' \in BOOLEAN
      BY Zenon DEF Typing, FileTyping, fileVars, Open, Release, Enter, Acquire, FoundBusy,
             WaitUserq, Interrupt, SwitchType, Oops, Submit, Mark, Check, Unlink, Await,
             Settle, ReadStatus, Finish, GiveBack
    <2>. QED
      BY <2>1, <2>2, <2>3 DEF FileTyping
  <1>5. UserTyping'
    <2>. USE FirstBuf DEF Typing, EpTyping, UserTyping, UserLabels, UGoto, Forget, Cancel,
                          Pending, userVars
    <2>1. CASE Open(u)
      BY <2>1 DEF Open
    <2>2. CASE Release(u)
      BY <2>2 DEF Release
    <2>3. CASE Enter(u)
      BY <2>3 DEF Enter
    <2>4. CASE Acquire(u)
      BY <2>4 DEF Acquire
    <2>5. CASE FoundBusy(u)
      BY <2>5 DEF FoundBusy
    <2>6. CASE WaitUserq(u)
      BY <2>6 DEF WaitUserq
    <2>7. CASE Interrupt(u)
      BY <2>7 DEF Interrupt
    <2>8. CASE SwitchType(u)
      BY <2>8 DEF SwitchType
    <2>9. CASE Oops(u)
      BY <2>9 DEF Oops
    <2>10. CASE Submit(u)
      BY <2>10 DEF Submit
    <2>11. CASE Mark(u)
      BY <2>11 DEF Mark
    <2>12. CASE Check(u)
      BY <2>12 DEF Check
    <2>13. CASE Unlink(u)
      BY <2>13 DEF Unlink
    <2>14. CASE Await(u)
      BY <2>14 DEF Await
    <2>15. CASE Settle(u)
      BY <2>15 DEF Settle
    <2>16. CASE ReadStatus(u)
      BY <2>16 DEF ReadStatus
    <2>17. CASE Finish(u)
      <3>1. /\ upc' = [upc EXCEPT ![u] = "open"]
            /\ ubuf' = [ubuf EXCEPT ![u] = 1]
            /\ used' = [used EXCEPT ![u] = 0]
            /\ xfer' = [xfer EXCEPT ![u] = IF @ \in Pending THEN @ ELSE "none"]
            /\ result' = [result EXCEPT ![u] = "error"]
        BY <2>17, Zenon DEF Finish, Forget, UGoto
      <3>2. late' \subseteq Users
        BY <2>17, Zenon DEF Finish, Typing, UserTyping
      <3>. QED
        BY <3>1, <3>2, FirstBuf, SizesAssumption DEF Typing, UserTyping, UserLabels, Pending
    <2>18. CASE GiveBack(u)
      BY <2>18 DEF GiveBack
    <2>. QED
      BY <2>1, <2>2, <2>3, <2>4, <2>5, <2>6, <2>7, <2>8, <2>9, <2>10, <2>11, <2>12, <2>13,
             <2>14, <2>15, <2>16, <2>17, <2>18
  <1>. QED
    BY <1>1, <1>2, <1>3, <1>4, <1>5 DEF Typing

\* The teardown clears all buffers, or those before one that is ACTIVE.
LEMMA TeardownClears ==
  ASSUME Teardown
  PROVE  \E C \in SUBSET Bufs :
           /\ ep' = [b \in Bufs |-> ep[b] /\ b \notin C]
           /\ urb' = [b \in Bufs |-> IF b \in C THEN 0 ELSE urb[b]]
           /\ session' = session
           /\ \/ C = Bufs /\ cpc' = "deregister"
              \/ cpc' = "bug" /\ held' = TRUE /\ \E b \in Bufs : active[b]
  <1>. DEFINE C == {b \in Bufs : \A c \in 1..b : ~active[c]}
  <1>1. /\ ep' = [b \in Bufs |-> ep[b] /\ b \notin C]
        /\ urb' = [b \in Bufs |-> IF b \in C THEN 0 ELSE urb[b]]
        /\ session' = session
        /\ IF C = Bufs THEN cpc' = "deregister" /\ UNCHANGED held
                       ELSE cpc' = "bug" /\ held' = TRUE
    BY Zenon DEF Teardown
  <1>2. C # Bufs => \E b \in Bufs : active[b]
    BY SizesAssumption DEF Bufs
  <1>3. C \in SUBSET Bufs
    OBVIOUS
  <1>. HIDE DEF C
  <1>. QED
    BY <1>1, <1>2, <1>3, Zenon

\* The callbacks keep the types, and their loop stays within the buffers.
LEMMA TypingCore ==
  ASSUME Typing, Scanning, Core
  PROVE  Typing' /\ Scanning'
  <1>. USE DEF Core, Callback
  <1>1. held' \in BOOLEAN /\ suspending' \in BOOLEAN /\ freed' \in BOOLEAN
    BY Zenon DEF Typing, CoreTyping, coreVars, Probe, StartTeardown, Suspend, StartStop,
             StopBuffer, StopWaitOver, Restop, EndStop, Teardown, FinishTeardown
  <1>. DEFINE Place == cpc \in CoreLabels /\ cb \in 1..NBufs + 1
  <1>6. Place' /\ Scanning'
    <2>. USE SizesAssumption DEF Typing, CoreTyping, CoreLabels, Scanning, AtBuffer
    <2>1. CASE Probe
      BY <2>1 DEF CGoto, Probe, coreVars
    <2>2. CASE StartTeardown
      <3>1. cpc' = "marked" /\ cb' = 1
        BY <2>2, Zenon DEF StartTeardown, CGoto, AtBuffer
      <3>2. cpc \in CoreLabels /\ cb \in 1..NBufs + 1 /\ Scanning
        BY Zenon
      <3>. HIDE DEF Typing
      <3>. QED
        BY <3>1, <3>2
    <2>3. CASE Suspend
      BY <2>3 DEF CGoto, Suspend, coreVars
    <2>4. CASE StartStop
      BY <2>4 DEF CGoto, StartStop, coreVars
    <2>5. CASE StopBuffer
      <3>1. /\ cb <= NBufs
            /\ \/ cpc' = "stopWait" /\ cb' = cb
               \/ cpc' = "stopping" /\ cb' = cb + 1
        BY <2>5 DEF StopBuffer, CGoto, AtBuffer
      <3>2. cpc \in CoreLabels /\ cb \in 1..NBufs + 1 /\ Scanning
        BY Zenon
      <3>. HIDE DEF Typing
      <3>. QED
        BY <3>1, <3>2
    <2>6. CASE StopWaitOver
      BY <2>6 DEF CGoto, StopWaitOver, coreVars
    <2>7. CASE Restop
      <3>1. /\ AtBuffer
            /\ \/ cpc' = "stopWait" /\ cb' = cb
               \/ cpc' = "stopping" /\ cb' = cb + 1
        BY <2>7 DEF Restop, CGoto, AtBuffer
      <3>2. cpc \in CoreLabels /\ cb \in 1..NBufs + 1 /\ Scanning
        BY Zenon
      <3>. HIDE DEF Typing
      <3>. QED
        BY <3>1, <3>2
    <2>8. CASE EndStop
      <3>1. cpc' \in {"bound", "teardown"} /\ cb' = 1
        BY <2>8, Zenon DEF EndStop, CGoto, AtBuffer
      <3>2. cpc \in CoreLabels /\ cb \in 1..NBufs + 1 /\ Scanning
        BY Zenon
      <3>. HIDE DEF Typing
      <3>. QED
        BY <3>1, <3>2
    <2>9. CASE Teardown
      BY <2>9 DEF CGoto, Teardown, coreVars
    <2>10. CASE FinishTeardown
      BY <2>10 DEF CGoto, FinishTeardown, coreVars
    <2>. QED
      BY <2>1, <2>2, <2>3, <2>4, <2>5, <2>6, <2>7, <2>8, <2>9, <2>10
  <1>2. EpTyping'
    <2>1. CASE Probe
      <3>1. PICK n \in 0..NBufs, end \in {"bound", "failed"} :
              IF \E b \in 1..n : urb[b] # 0
              THEN cpc' = "bugInProbe" /\ held' = TRUE /\ UNCHANGED epVars
              ELSE /\ session' = session + 1
                   /\ ep' = [b \in Bufs |-> b <= n + 1 \/ ep[b]]
                   /\ urb' = [b \in Bufs |-> IF b <= n THEN session + 1 ELSE urb[b]]
                   /\ cpc' = end
                   /\ UNCHANGED held
        BY <2>1, Zenon DEF Probe
      <3>2. session < MaxSessions
        BY <2>1 DEF Probe
      <3>3. CASE UNCHANGED epVars
        BY <3>3 DEF Typing, EpTyping, epVars
      <3>4. CASE /\ session' = session + 1
                 /\ ep' = [b \in Bufs |-> b <= n + 1 \/ ep[b]]
                 /\ urb' = [b \in Bufs |-> IF b <= n THEN session + 1 ELSE urb[b]]
        <4>1. ep' \in [Bufs -> BOOLEAN]
          BY <3>4, Zenon
        <4>2. session' \in 0..MaxSessions /\ urb' \in [Bufs -> 0..MaxSessions]
          BY <3>2, <3>4, SizesAssumption DEF Typing, EpTyping, Bufs
        <4>. QED
          BY <4>1, <4>2 DEF EpTyping
      <3>. QED
        BY <3>1, <3>3, <3>4
    <2>2. CASE Teardown
      <3>1. /\ session' = session
            /\ \E C \in SUBSET Bufs :
                 /\ ep' = [b \in Bufs |-> ep[b] /\ b \notin C]
                 /\ urb' = [b \in Bufs |-> IF b \in C THEN 0 ELSE urb[b]]
        BY <2>2, TeardownClears
      <3>2. ep' \in [Bufs -> BOOLEAN]
        BY <3>1, Zenon DEF Typing, EpTyping
      <3>3. session' \in 0..MaxSessions /\ urb' \in [Bufs -> 0..MaxSessions]
        BY <3>1, SizesAssumption DEF Typing, EpTyping
      <3>. QED
        BY <3>2, <3>3 DEF EpTyping
    <2>3. CASE ~Probe /\ ~Teardown
      <3>1. UNCHANGED epVars
        BY <2>3, Zenon DEF epVars, StartTeardown, Suspend, StartStop, StopBuffer,
               StopWaitOver,
               Restop, EndStop, FinishTeardown
      <3>. QED
        BY <3>1 DEF Typing, EpTyping, epVars
    <2>. QED
      BY <2>1, <2>2, <2>3
  <1>3. FlagTyping'
    BY DEF Typing, FlagTyping, flagVars, Probe, StartTeardown, Suspend, StartStop,
           StopBuffer, StopWaitOver, Restop, EndStop, Teardown, FinishTeardown
  <1>4. FileTyping'
    BY DEF Typing, FileTyping, fileVars, Present, Probe, StartTeardown, Suspend, StartStop,
           StopBuffer, StopWaitOver, Restop, EndStop, Teardown, FinishTeardown
  <1>5. UserTyping'
    BY DEF Typing, UserTyping, userVars, Cancel, CallsOn, Probe, StartTeardown, Suspend,
           StartStop, StopBuffer, StopWaitOver, Restop, EndStop, Teardown, FinishTeardown
  <1>. QED
    BY <1>1, <1>2, <1>3, <1>4, <1>5, <1>6, Zenon DEF Typing, CoreTyping

\* USER_BUSY is set by the one who finds it clear, and cleared by the one who has it;
\* the other steps leave it, and who is inside, as they are.
LEMMA ClaimsUser ==
  ASSUME Typing, Claims, OneCallPerBuffer, NEW u \in Users, User(u)
  PROVE  Claims' /\ OneCallPerBuffer'
  <1>. USE DEF Claims, OneCallPerBuffer
  <1>0. /\ busy \in [Bufs -> BOOLEAN] /\ ubuf \in [Users -> Bufs]
        /\ upc \in [Users -> UserLabels]
    BY DEF Typing, FlagTyping, UserTyping
  <1>1. CASE Acquire(u)
    <2>1. /\ upc[u] = "locking" /\ upc' = [upc EXCEPT ![u] = "filling"]
          /\ ~busy[ubuf[u]] /\ busy' = [busy EXCEPT ![ubuf[u]] = TRUE]
          /\ ubuf' = ubuf
      BY <1>1 DEF Acquire, UGoto
    <2>2. \A v \in Users : upc'[v] \in InTransfer => v = u \/ upc[v] \in InTransfer
      BY <1>0, <2>1
    <2>3. \A v \in Users : upc[v] \in InTransfer => ubuf[v] # ubuf[u]
      BY <2>1, Zenon
    <2>4. Claims'
      BY <1>0, <2>1, <2>2
    <2>5. OneCallPerBuffer'
      BY <2>1, <2>2, <2>3
    <2>. QED
      BY <2>4, <2>5
  <1>2. CASE Finish(u)
    <2>1. /\ upc[u] = "finishing" /\ upc' = [upc EXCEPT ![u] = "open"]
          /\ busy' = [busy EXCEPT ![ubuf[u]] = FALSE]
          /\ ubuf' = [ubuf EXCEPT ![u] = 1]
      BY <1>2, Zenon DEF Finish, Forget, UGoto
    <2>2. \A v \in Users : upc'[v] \in InTransfer =>
            v # u /\ upc[v] \in InTransfer /\ ubuf'[v] = ubuf[v]
      BY <1>0, <2>1 DEF InTransfer
    <2>3. upc[u] \in InTransfer
      BY <2>1 DEF InTransfer
    <2>4. Claims'
      BY <1>0, <2>1, <2>2, <2>3
    <2>5. OneCallPerBuffer'
      BY <2>2
    <2>. QED
      BY <2>4, <2>5
  <1>3. CASE ~Acquire(u) /\ ~Finish(u)
    <2>1. busy' = busy
      BY <1>3 DEF User, Transfer, flagVars, Open, Release, Enter, FoundBusy, WaitUserq,
             Interrupt, SwitchType, Oops,
               Submit, Mark, Check, Unlink, Await, Settle, ReadStatus, GiveBack
    <2>2. \A v \in Users : upc'[v] \in InTransfer =>
            upc[v] \in InTransfer /\ ubuf'[v] = ubuf[v]
      BY <1>0, <1>3 DEF User, Transfer, userVars, UGoto, Forget, InTransfer,
               Open, Release, Enter, FoundBusy, WaitUserq, Interrupt, SwitchType, Oops,
               Submit, Mark, Check, Unlink, Await, Settle, ReadStatus, GiveBack
    <2>. QED
      BY <2>1, <2>2
  <1>. QED
    BY <1>1, <1>2, <1>3

\* One call per buffer, for every number of users, buffers and connections.
LEMMA HousekeepingInductive ==
  ASSUME Housekeeping, [Next]_vars
  PROVE  Housekeeping'
  <1>. USE DEF Housekeeping
  <1>1. ASSUME NEW u \in Users, User(u)
        PROVE  Housekeeping'
    <2>1. Typing' /\ Claims' /\ OneCallPerBuffer'
      BY <1>1, TypingUser, ClaimsUser
    <2>2. Scanning'
      <3>1. UNCHANGED <<cpc, cb>>
        BY <1>1 DEF User, Transfer, coreVars, Acquire, Finish,
               Open, Release, Enter, FoundBusy, WaitUserq, Interrupt, SwitchType, Oops,
               Submit, Mark, Check, Unlink, Await, Settle, ReadStatus, GiveBack
      <3>. QED
        BY <3>1 DEF Scanning, AtBuffer
    <2>. QED
      BY <2>1, <2>2
  <1>2. CASE Core
    <2>1. UNCHANGED <<upc, ubuf, busy>>
      BY <1>2 DEF Core, Callback, Probe, StartTeardown, Suspend, StartStop, StopBuffer,
             StopWaitOver, Restop, EndStop, Teardown, FinishTeardown, userVars, flagVars
    <2>2. Claims' /\ OneCallPerBuffer'
      BY <2>1 DEF Claims, OneCallPerBuffer
    <2>. QED
      BY <1>2, <2>2, TypingCore
  <1>3. CASE UNCHANGED vars
    BY <1>3 DEF vars, userVars, flagVars, epVars, coreVars, fileVars, Typing, CoreTyping,
           EpTyping,
           FlagTyping, FileTyping, UserTyping, Scanning, AtBuffer, Claims, OneCallPerBuffer
  <1>. QED
    BY <1>1, <1>2, <1>3 DEF Next

LEMMA HousekeepingInit == Init => Housekeeping
  <1>. SUFFICES ASSUME Init PROVE Housekeeping
    OBVIOUS
  <1>1. Typing
    <2>1. cb = 1 /\ cpc = "absent"
      BY DEF Init
    <2>2. held \in BOOLEAN /\ suspending \in BOOLEAN /\ freed \in BOOLEAN
      BY Zenon DEF Init
    <2>3. CoreTyping
      BY <2>1, <2>2, SizesAssumption DEF CoreTyping, CoreLabels
    <2>4. EpTyping
      BY SizesAssumption DEF Init, EpTyping
    <2>5. FlagTyping
      BY DEF Init, FlagTyping
    <2>6. FileTyping
      <3>1. dirty \in BOOLEAN
        BY Zenon DEF Init
      <3>2. openCount \in Int /\ stale \subseteq Users
        BY DEF Init
      <3>. QED
        BY <3>1, <3>2 DEF FileTyping
    <2>7. UserTyping
      BY SizesAssumption, FirstBuf DEF Init, UserTyping, UserLabels
    <2>. QED
      BY <2>3, <2>4, <2>5, <2>6, <2>7 DEF Typing
  <1>2. Scanning /\ Claims /\ OneCallPerBuffer
    BY DEF Init, Scanning, AtBuffer, Claims, OneCallPerBuffer, InTransfer
  <1>. QED
    BY <1>1, <1>2 DEF Housekeeping

-----------------------------------------------------------------------------
\* The last close of a dirty driver finds that no file is left from before the
\* disconnect: with one left there would be two to count.
LEMMA FilesRelease ==
  ASSUME Typing, Files, NEW u \in Users, Release(u)
  PROVE  Files'
  <1>1. /\ upc[u] = "open" /\ upc' = [upc EXCEPT ![u] = "out"]
        /\ openCount' = openCount - 1 /\ stale' = stale \ {u}
    BY DEF Release, UGoto
  <1>2. dirty' = (dirty /\ openCount > 1)
    BY Zenon DEF Release
  <1>3. Present' = Present \ {u} /\ u \in Present
    BY <1>1 DEF Present, Typing, UserTyping
  <1>4. IsFiniteSet(Present)
    BY UsersAssumption, FS_Subset DEF Present
  <1>5. openCount' = Cardinality(Present')
    BY <1>1, <1>3, <1>4, FS_RemoveElement DEF Files
  <1>6. stale' \subseteq Present'
    BY <1>1, <1>3 DEF Files
  <1>7. ASSUME stale' # {}
        PROVE  dirty /\ openCount > 1
    <2>1. dirty
      BY <1>1, <1>7 DEF Files, DirtyWhileStale
    <2>2. Present' # {}
      BY <1>6, <1>7
    <2>3. IsFiniteSet(Present') /\ Cardinality(Present') \in Nat
      BY <1>3, <1>4, FS_RemoveElement, FS_CardinalityType
    <2>4. Cardinality(Present') # 0
      BY <2>2, <2>3, FS_EmptySet
    <2>5. openCount - 1 > 0
      BY <1>1, <1>5, <2>3, <2>4
    <2>6. openCount > 1
      BY <2>5 DEF Typing, FileTyping
    <2>. QED
      BY <2>1, <2>6
  <1>8. DirtyWhileStale'
    BY <1>2, <1>7, Zenon DEF DirtyWhileStale
  <1>. QED
    BY <1>5, <1>6, <1>8 DEF Files

LEMMA FilesOpen ==
  ASSUME Typing, Files, NEW u \in Users, Open(u)
  PROVE  Files'
  <1>1. /\ upc[u] = "out" /\ upc' = [upc EXCEPT ![u] = "open"]
        /\ openCount' = openCount + 1 /\ UNCHANGED <<dirty, stale>>
    BY DEF Open, UGoto
  <1>2. Present' = Present \cup {u} /\ u \notin Present
    BY <1>1 DEF Present, Typing, UserTyping
  <1>3. IsFiniteSet(Present)
    BY UsersAssumption, FS_Subset DEF Present
  <1>4. openCount' = Cardinality(Present')
    BY <1>1, <1>2, <1>3, FS_AddElement DEF Files
  <1>. QED
    BY <1>1, <1>2, <1>4 DEF Files, DirtyWhileStale

\* A disconnect marks the files that are open, if there are any.
LEMMA FilesStartTeardown ==
  ASSUME Typing, Files, StartTeardown
  PROVE  Files'
  <1>1. stale' = stale \cup Present /\ UNCHANGED <<upc, openCount>>
    BY DEF StartTeardown, userVars
  <1>2. dirty' = (dirty \/ openCount > 0)
    BY Zenon DEF StartTeardown
  <1>3. Present' = Present
    BY <1>1 DEF Present
  <1>4. IsFiniteSet(Present) /\ Cardinality(Present) \in Nat
    BY UsersAssumption, FS_Subset, FS_CardinalityType DEF Present
  <1>5. Present # {} => openCount > 0
    BY <1>4, FS_EmptySet DEF Files
  <1>6. stale' # {} => dirty \/ openCount > 0
    BY <1>1, <1>5 DEF Files, DirtyWhileStale
  <1>. QED
    BY <1>1, <1>2, <1>3, <1>6, Zenon DEF Files, DirtyWhileStale

\* All other steps leave it open who has a file.
LEMMA FilesInductive ==
  ASSUME Typing, Files, [Next]_vars
  PROVE  Files'
  <1>1. ASSUME NEW u \in Users, User(u), ~Open(u), ~Release(u)
        PROVE  Files'
    <2>1. UNCHANGED fileVars
      BY <1>1 DEF User, Transfer, Enter, Acquire, FoundBusy, WaitUserq, Interrupt,
             SwitchType, Oops, Submit, Mark,
             Check, Unlink, Await, Settle, ReadStatus, Finish, GiveBack
    <2>2. \A v \in Users : (upc'[v] # "out") <=> (upc[v] # "out")
      BY <1>1 DEF User, Transfer, userVars, UGoto, Typing, UserTyping, Enter, Acquire,
             FoundBusy, WaitUserq, Interrupt, SwitchType, Oops, Submit, Mark,
             Check, Unlink, Await, Settle, ReadStatus, Finish, GiveBack
    <2>3. Present' = Present
      BY <2>2 DEF Present
    <2>. QED
      BY <2>1, <2>3 DEF Files, DirtyWhileStale, fileVars
  <1>2. CASE Core /\ ~StartTeardown
    <2>1. UNCHANGED <<upc, dirty, openCount, stale>>
      BY <1>2 DEF Core, Callback, Probe, Suspend, StartStop, StopBuffer, StopWaitOver,
             Restop,
             EndStop, Teardown, FinishTeardown, userVars, fileVars
    <2>. QED
      BY <2>1 DEF Files, DirtyWhileStale, Present
  <1>3. CASE UNCHANGED vars
    BY <1>3 DEF vars, userVars, fileVars, Files, DirtyWhileStale, Present
  <1>. QED
    BY <1>1, <1>2, <1>3, FilesOpen, FilesRelease, FilesStartTeardown DEF Next

LEMMA FilesInit == Init => Files
  <1>. SUFFICES ASSUME Init PROVE Files
    OBVIOUS
  <1>1. Present = {} /\ stale = {} /\ openCount = 0
    BY DEF Init, Present
  <1>. QED
    BY <1>1, FS_EmptySet DEF Files, DirtyWhileStale

-----------------------------------------------------------------------------
\* What a user does is about its own transfer and its own buffer.
LEMMA OthersUntouched ==
  ASSUME Housekeeping, NEW u \in Users, User(u), NEW v \in Users, v # u
  PROVE  /\ upc'[v] = upc[v] /\ ubuf'[v] = ubuf[v] /\ used'[v] = used[v]
         /\ xfer'[v] = xfer[v] /\ result'[v] = result[v]
         /\ v \in late' <=> v \in late
         /\ upc[v] \in InTransfer => active'[ubuf[v]] = active[ubuf[v]]
  <1>. USE DEF Housekeeping, User, Transfer
  <1>0. Typing
    OBVIOUS
  <1>1. upc'[v] = upc[v] /\ ubuf'[v] = ubuf[v] /\ used'[v] = used[v] /\ result'[v] = result[v]
    BY <1>0 DEF Typing, UserTyping, UGoto, Forget, userVars, Open, Release, Enter, Acquire,
           FoundBusy, WaitUserq, Interrupt,
             SwitchType, Oops, Submit, Mark, Check, Unlink, Await, Settle, ReadStatus,
             Finish,
             GiveBack
  <1>2. v \in late' <=> v \in late
    BY Zenon DEF userVars, Open, Release, Enter, Acquire, FoundBusy, WaitUserq, Interrupt,
             SwitchType, Oops, Submit, Mark, Check, Unlink, Await, Settle, ReadStatus,
             Finish,
             GiveBack
  <1>3. upc[v] \in InTransfer /\ upc[u] \in InTransfer => ubuf[v] # ubuf[u]
    BY DEF OneCallPerBuffer
  <1>4. xfer'[v] = xfer[v]
    <2>1. CASE Unlink(u) \/ Settle(u)
      <3>1. upc[u] \in InTransfer
        BY <2>1 DEF Unlink, Settle, UGoto, InTransfer
      <3>2. ~Hit(v, ubuf[u])
        BY <1>3, <3>1 DEF Hit
      <3>. QED
        BY <2>1, <3>2 DEF Unlink, Settle, Cancel
    <2>2. CASE ~Unlink(u) /\ ~Settle(u)
      BY <1>0, <2>2 DEF Typing, UserTyping, userVars, Open, Release, Enter, Acquire,
             FoundBusy,
             WaitUserq, Interrupt, SwitchType, Oops, Submit, Mark, Check, Await, ReadStatus,
             Finish, GiveBack
    <2>. QED
      BY <2>1, <2>2
  <1>5. ASSUME upc[v] \in InTransfer
        PROVE  active'[ubuf[v]] = active[ubuf[v]]
    <2>1. ubuf[v] \in Bufs /\ active \in [Bufs -> BOOLEAN]
      BY <1>0 DEF Typing, UserTyping, FlagTyping
    <2>2. CASE Mark(u) \/ Check(u) \/ Settle(u)
      <3>1. upc[u] \in InTransfer
        BY <2>2 DEF Mark, Check, Settle, UGoto, InTransfer
      <3>2. ubuf[v] # ubuf[u]
        BY <1>3, <1>5, <3>1
      <3>3. \E x : active' = [active EXCEPT ![ubuf[u]] = x]
        BY <2>2, Zenon DEF Mark, Check, Settle
      <3>. QED
        BY <2>1, <3>2, <3>3
    <2>3. CASE ~(Mark(u) \/ Check(u) \/ Settle(u))
      BY <2>3 DEF flagVars, Open, Release, Enter, Acquire, FoundBusy, WaitUserq, Interrupt,
             SwitchType, Oops, Submit, Unlink, Await, ReadStatus, Finish, GiveBack
    <2>. QED
      BY <2>2, <2>3
  <1>. QED
    BY <1>1, <1>2, <1>4, <1>5

\* Nor does a user touch what only the callbacks write.
LEMMA CoreUntouched ==
  ASSUME NEW u \in Users, User(u)
  PROVE  UNCHANGED <<epVars, discon, cpc, suspending, cb, held>>
  BY DEF User, Transfer, epVars, flagVars, coreVars, Open, Release, Enter, Acquire,
         FoundBusy, WaitUserq, Interrupt,
             SwitchType, Oops, Submit, Mark, Check, Unlink, Await, Settle, ReadStatus,
             Finish,
             GiveBack

\* Each step of a transfer leaves it sound.
LEMMA SoundUser ==
  ASSUME Housekeeping, Transfers, NEW u \in Users, User(u), u \notin late'
  PROVE  Sound(u)'
  <1>0. UNCHANGED <<urb, ep, discon, cpc, suspending, cb>>
    BY CoreUntouched DEF epVars
  <1>1. /\ upc \in [Users -> UserLabels] /\ used \in [Users -> 0..MaxSessions]
        /\ xfer \in [Users -> {"none", "flying", "unlinked", "back", "cancelled"}]
        /\ ubuf \in [Users -> Bufs] /\ result \in [Users -> {"ok", "error"}]
        /\ urb \in [Bufs -> 0..MaxSessions]
        /\ active \in [Bufs -> BOOLEAN]
    BY DEF Housekeeping, Typing, UserTyping, EpTyping, FlagTyping
  <1>2. u \notin late => Sound(u)
    BY DEF Transfers
  <1>. USE DEF Sound, OwnUrb, Flagged, Settled, Reached, Submitted, InTransfer, Going,
         HalfProbed, Pending,
         UGoto,
               userVars, flagVars
  <1>3. CASE Open(u)
    BY <1>0, <1>1, <1>2, <1>3 DEF Open, Forget, Passed
  <1>4. CASE Release(u)
    BY <1>0, <1>1, <1>2, <1>4 DEF Release, Forget, Passed
  <1>5. CASE Enter(u)
    BY <1>0, <1>1, <1>2, <1>5 DEF Enter, Forget, Passed
  <1>6. CASE Acquire(u)
    BY <1>0, <1>1, <1>2, <1>6 DEF Acquire, Forget, Passed
  <1>7. CASE FoundBusy(u)
    BY <1>0, <1>1, <1>2, <1>7 DEF FoundBusy, Forget, Passed
  <1>8. CASE WaitUserq(u)
    BY <1>0, <1>1, <1>2, <1>8 DEF WaitUserq, Forget, Passed
  <1>9. CASE Interrupt(u)
    BY <1>0, <1>1, <1>2, <1>9 DEF Interrupt, Forget, Passed
  <1>10. CASE SwitchType(u)
    <2>1. upc[u] = "filling" /\ UNCHANGED <<ubuf, used, xfer, late, active>>
      BY <1>10, Zenon DEF SwitchType
    <2>2. \/ upc' = [upc EXCEPT ![u] = "submitting"] /\ ep[ubuf[u]] /\ result' = result
          \/ upc' = [upc EXCEPT ![u] = "finishing"] /\ result' = [result EXCEPT ![u] = "error"]
      BY <1>10, Zenon DEF SwitchType
    <2>3. ep[ubuf[u]] => urb[ubuf[u]] # 0 \/ HalfProbed
      BY <1>1, Zenon DEF Transfers, Allocated
    <2>4. \/ upc'[u] = "submitting" /\ (urb[ubuf[u]] # 0 \/ HalfProbed)
          \/ upc'[u] = "finishing" /\ result'[u] = "error"
      BY <1>1, <2>2, <2>3
    <2>. QED
      BY <1>0, <1>1, <1>2, <2>1, <2>4 DEF Passed
  <1>11. CASE Oops(u)
    BY <1>0, <1>1, <1>2, <1>11 DEF Oops, Forget, Passed
  <1>12. CASE Submit(u)
    BY <1>0, <1>1, <1>2, <1>12 DEF Submit, Forget, Passed
  <1>13. CASE Mark(u)
    BY <1>0, <1>1, <1>2, <1>13 DEF Mark, Forget, Passed
  <1>14. CASE Check(u)
    <2>1. /\ upc[u] = "checking"
          /\ UNCHANGED <<ubuf, used, xfer, result, late>>
      BY <1>14, Zenon DEF Check
    <2>2. \/ upc'[u] = "unlinking"
          \/ /\ upc'[u] = "awaiting" /\ active' = [active EXCEPT ![ubuf[u]] = active[ubuf[u]]]
             /\ ~discon[ubuf[u]] \/ ~active[ubuf[u]]
      <3>1. CASE discon[ubuf[u]] /\ active[ubuf[u]]
        BY <1>1, <1>14, <3>1, Zenon DEF Check
      <3>2. CASE ~(discon[ubuf[u]] /\ active[ubuf[u]])
        BY <1>1, <1>14, <3>2 DEF Check
      <3>. QED
        BY <3>1, <3>2
    <2>3. ~suspending /\ cpc \in {"stopWait", "retest"} => discon[ubuf[u]]
      BY <1>1 DEF Transfers, Marked, Disconnecting, Stopping
    <2>. QED
      BY <1>0, <1>1, <1>2, <2>1, <2>2, <2>3 DEF Passed
  <1>15. CASE Unlink(u)
    <2>1. /\ upc[u] = "unlinking" /\ upc' = [upc EXCEPT ![u] = "awaiting"]
          /\ xfer' = Cancel(ubuf[u], "unlinked")
          /\ UNCHANGED <<ubuf, used, result, late, active>>
      BY <1>15 DEF Unlink
    <2>2. xfer'[u] = IF xfer[u] \in Pending THEN "unlinked" ELSE xfer[u]
      BY <1>1, <1>2, <2>1 DEF Cancel, Hit
    <2>. QED
      BY <1>0, <1>1, <1>2, <2>1, <2>2 DEF Passed
  <1>16. CASE Await(u)
    BY <1>0, <1>1, <1>2, <1>16 DEF Await, Forget, Passed
  <1>17. CASE Settle(u)
    <2>1. /\ upc[u] \in {"settling", "cut"} /\ upc' = [upc EXCEPT ![u] = "reading"]
          /\ xfer' = IF upc[u] = "cut" THEN Cancel(ubuf[u], "cancelled") ELSE xfer
          /\ UNCHANGED <<ubuf, used, result, late>>
      BY <1>17 DEF Settle
    <2>2. xfer'[u] = IF upc[u] = "cut" /\ xfer[u] \in Pending THEN "cancelled" ELSE xfer[u]
      BY <1>1, <1>2, <2>1 DEF Cancel, Hit
    <2>. QED
      BY <1>0, <1>1, <1>2, <2>1, <2>2 DEF Passed
  <1>18. CASE ReadStatus(u)
    BY <1>0, <1>1, <1>2, <1>18 DEF ReadStatus, Forget, Passed
  <1>19. CASE Finish(u)
    BY <1>0, <1>1, <1>2, <1>19 DEF Finish, Forget, Passed
  <1>20. CASE GiveBack(u)
    BY <1>0, <1>1, <1>2, <1>20 DEF GiveBack, Forget, Passed
  <1>. QED
    BY <1>3, <1>4, <1>5, <1>6, <1>7, <1>8, <1>9, <1>10, <1>11, <1>12, <1>13, <1>14, <1>15,
           <1>16, <1>17, <1>18, <1>19, <1>20 DEF User, Transfer

\* The steps that do not write ACTIVE.
LEMMA ActiveUntouched ==
  ASSUME NEW u \in Users, User(u), ~Mark(u), ~Check(u), ~Settle(u)
  PROVE  active' = active
  BY DEF User, Transfer, flagVars, Open, Release, Enter, Acquire, FoundBusy, WaitUserq,
         Interrupt,
         SwitchType, Oops, Submit, Unlink, Await, ReadStatus, Finish, GiveBack

\* A user that may have ACTIVE set either stays in that part of the transfer, or clears
\* the flag; from outside it gets there by Mark only.
LEMMA WatchedStep ==
  ASSUME Housekeeping, NEW u \in Users, User(u), upc[u] \in Watched
  PROVE  /\ late' = late /\ ubuf'[u] = ubuf[u]
         /\ upc'[u] \in Watched \/ active'[ubuf[u]] = FALSE
         /\ held => upc'[u] \in Watched \cup {"unlinking"}
  <1>1. /\ upc \in [Users -> UserLabels] /\ ubuf \in [Users -> Bufs]
        /\ active \in [Bufs -> BOOLEAN]
    BY DEF Housekeeping, Typing, UserTyping, FlagTyping
  <1>2. Check(u) \/ Await(u) \/ Settle(u) \/ GiveBack(u)
    BY DEF Watched, User, Transfer, UGoto, Open, Release, Enter, Acquire, FoundBusy,
           WaitUserq,
           Interrupt, SwitchType, Oops, Submit, Mark, Unlink, ReadStatus, Finish
  <1>3. late' = late /\ ubuf' = ubuf
    BY <1>2 DEF Check, Await, Settle, GiveBack
  <1>4. CASE Check(u)
    <2>1. CASE discon[ubuf[u]] /\ active[ubuf[u]]
      <3>1. upc' = [upc EXCEPT ![u] = "unlinking"]
        BY <1>4, <2>1, Zenon DEF Check
      <3>2. active' = [active EXCEPT ![ubuf[u]] = FALSE]
        BY <1>4, <2>1 DEF Check
      <3>. QED
        BY <1>1, <1>3, <3>1, <3>2 DEF Watched
    <2>2. CASE ~(discon[ubuf[u]] /\ active[ubuf[u]])
      <3>1. upc' = [upc EXCEPT ![u] = "awaiting"]
        BY <1>4, <2>2 DEF Check
      <3>. QED
        BY <1>1, <1>3, <3>1 DEF Watched
    <2>. QED
      BY <2>1, <2>2
  <1>5. CASE Await(u)
    BY <1>1, <1>3, <1>5 DEF Await, Watched
  <1>6. CASE Settle(u)
    BY <1>1, <1>3, <1>6 DEF Settle
  <1>7. CASE GiveBack(u)
    BY <1>3, <1>7 DEF GiveBack
  <1>. QED
    BY <1>2, <1>4, <1>5, <1>6, <1>7

\* ACTIVE stays with a transfer.
LEMMA BackedUser ==
  ASSUME Housekeeping, Transfers, NEW u \in Users, User(u)
  PROVE  Backed'
  <1>1. /\ upc \in [Users -> UserLabels] /\ ubuf \in [Users -> Bufs]
        /\ active \in [Bufs -> BOOLEAN]
    BY DEF Housekeeping, Typing, UserTyping, FlagTyping
  <1>. SUFFICES ASSUME NEW b \in Bufs, active'[b]
                PROVE  \E w \in Users : ubuf'[w] = b /\ upc'[w] \in Watched
    BY DEF Backed
  <1>2. CASE active[b]
    <2>1. PICK w \in Users : ubuf[w] = b /\ upc[w] \in Watched
      BY <1>2 DEF Transfers, Backed
    <2>2. CASE w = u
      BY <2>1, <2>2, WatchedStep
    <2>3. CASE w # u
      BY <2>1, <2>3, OthersUntouched
    <2>. QED
      BY <2>2, <2>3
  <1>3. CASE ~active[b]
    <2>1. Mark(u) \/ Check(u) \/ Settle(u)
      BY <1>3, ActiveUntouched
    <2>2. CASE Mark(u)
      <3>1. upc' = [upc EXCEPT ![u] = "checking"] /\ ubuf' = ubuf
            /\ active' = [active EXCEPT ![ubuf[u]] = TRUE]
        BY <2>2 DEF Mark, UGoto
      <3>2. ubuf[u] = b
        BY <1>1, <1>3, <3>1
      <3>. QED
        BY <1>1, <3>1, <3>2 DEF Watched
    <2>3. CASE Settle(u)
      BY <1>1, <1>3, <2>3 DEF Settle
    <2>4. CASE Check(u)
      <3>1. active' = active \/ active' = [active EXCEPT ![ubuf[u]] = FALSE]
        <4>1. CASE discon[ubuf[u]] /\ active[ubuf[u]]
          BY <2>4, <4>1 DEF Check
        <4>2. CASE ~(discon[ubuf[u]] /\ active[ubuf[u]])
          BY <1>1, <2>4, <4>2 DEF Check
        <4>. QED
          BY <4>1, <4>2
      <3>. QED
        BY <1>1, <1>3, <3>1
    <2>. QED
      BY <2>1, <2>2, <2>3, <2>4
  <1>. QED
    BY <1>2, <1>3

\* With the lock gone for good, the late call of the BUG_ON cannot leave.
LEMMA BuggedUser ==
  ASSUME Housekeeping, Transfers, NEW u \in Users, User(u)
  PROVE  Bugged'
  <1>1. cpc' = cpc /\ held' = held
    BY CoreUntouched
  <1>. SUFFICES ASSUME cpc = "bug"
                PROVE  held' /\ \E w \in late' : upc'[w] \in Watched \cup {"unlinking"}
    BY <1>1 DEF Bugged
  <1>2. held /\ \E w \in late : upc[w] \in Watched \cup {"unlinking"}
    BY DEF Transfers, Bugged
  <1>3. PICK w \in late : upc[w] \in Watched \cup {"unlinking"}
    BY <1>2
  <1>4. w \in Users
    BY DEF Housekeeping, Typing, UserTyping
  <1>5. CASE w # u
    BY <1>1, <1>2, <1>3, <1>4, <1>5, OthersUntouched
  <1>6. CASE w = u /\ upc[w] \in Watched
    BY <1>1, <1>2, <1>3, <1>6, WatchedStep
  <1>7. CASE w = u /\ upc[w] = "unlinking"
    <2>1. GiveBack(u)
      BY <1>2, <1>7 DEF User, Transfer, UGoto, Open, Release, Enter, Acquire, FoundBusy,
             WaitUserq,
             Interrupt, SwitchType, Oops, Submit, Mark, Check, Unlink, Await, Settle,
             ReadStatus,
             Finish
    <2>2. late' = late /\ upc' = upc
      BY <2>1 DEF GiveBack
    <2>. QED
      BY <1>1, <1>2, <1>3, <2>2
  <1>. QED
    BY <1>3, <1>5, <1>6, <1>7

\* The steps of a user keep the transfers sound, its own and those of the others.
LEMMA TransfersUser ==
  ASSUME Housekeeping, Transfers, NEW u \in Users, User(u)
  PROVE  Transfers'
  <1>1. UNCHANGED <<urb, ep, discon, cpc, suspending, cb, held>>
    BY CoreUntouched DEF epVars
  <1>2. Course' /\ Marked' /\ Allocated'
    BY <1>1 DEF Transfers, Course, Marked, Disconnecting, Allocated, HalfProbed
  <1>3. ASSUME NEW v \in Users \ late'
        PROVE  Sound(v)'
    <2>1. CASE v = u
      BY <2>1, <1>3, SoundUser
    <2>2. CASE v # u
      <3>1. /\ upc'[v] = upc[v] /\ ubuf'[v] = ubuf[v] /\ used'[v] = used[v]
            /\ xfer'[v] = xfer[v] /\ result'[v] = result[v]
            /\ v \notin late
            /\ upc[v] \in InTransfer => active'[ubuf[v]] = active[ubuf[v]]
        BY <1>3, <2>2, OthersUntouched
      <3>2. Sound(v)
        BY <1>3, <3>1 DEF Transfers
      <3>3. Passed(ubuf[v])' = Passed(ubuf[v])
        BY <1>1, <3>1 DEF Passed
      <3>4. OwnUrb(v)' /\ Settled(v)'
        BY <1>1, <3>1, <3>2 DEF Sound, OwnUrb, Settled, HalfProbed
      <3>5. Flagged(v)'
        BY <3>1, <3>2 DEF Sound, Flagged, InTransfer
      <3>6. Reached(v)'
        BY <1>1, <3>1, <3>2, <3>3 DEF Sound, Reached
      <3>. QED
        BY <3>4, <3>5, <3>6 DEF Sound
    <2>. QED
      BY <2>1, <2>2
  <1>. QED
    BY <1>2, <1>3, BackedUser, BuggedUser DEF Transfers

\* The callbacks leave the calls where they are.
LEMMA CallsUntouched ==
  ASSUME Core
  PROVE  UNCHANGED <<upc, ubuf, used, result>>
  BY DEF Core, Callback, userVars, Probe, StartTeardown, Suspend, StartStop, StopBuffer,
         StopWaitOver, Restop, EndStop, Teardown, FinishTeardown

\* The loop begins with the first buffer, at Suspend as at StartTeardown.
LEMMA CourseCore ==
  ASSUME Course, Core
  PROVE  Course'
  <1>1. cpc' = "marked" => cb' = 1
    BY DEF Course, Core, Callback, CGoto, coreVars, Probe, StartTeardown, Suspend,
           StartStop,
           StopBuffer, StopWaitOver, Restop, EndStop, Teardown, FinishTeardown
  <1>2. ASSUME cpc' = "teardown"
        PROVE  suspending' = FALSE
    <2>1. EndStop
      BY <1>2 DEF Core, Callback, CGoto, Probe, StartTeardown, Suspend, StartStop,
             StopBuffer, StopWaitOver, Restop, Teardown, FinishTeardown
    <2>. QED
      BY <2>1 DEF EndStop
  <1>. QED
    BY <1>1, <1>2 DEF Course

\* A disconnect is begun by StartTeardown, which marks all buffers; the marks are
\* taken away by Teardown.
LEMMA MarkedCore ==
  ASSUME Marked, Core
  PROVE  Marked'
  <1>. SUFFICES ASSUME Disconnecting', NEW b \in Bufs
                PROVE  discon'[b]
    BY DEF Marked
  <1>1. CASE StartTeardown
    <2>1. discon' = [c \in Bufs |-> TRUE]
      BY <1>1 DEF StartTeardown
    <2>. QED
      BY <2>1
  <1>2. CASE ~StartTeardown
    <2>1. cpc' \in Stopping /\ ~suspending'
      BY DEF Disconnecting
    <2>2. ~Probe
      BY <2>1 DEF Stopping, Probe
    <2>3. ~Suspend
      BY <2>1, Zenon DEF Suspend
    <2>4. StartStop \/ StopBuffer \/ StopWaitOver \/ Restop \/ EndStop
      BY <1>2, <2>1, <2>2, <2>3 DEF Core, Callback, CGoto, Teardown, FinishTeardown,
             Stopping
    <2>5. discon' = discon /\ cpc \in Stopping
      BY <2>4 DEF CGoto, flagVars, StartStop, StopBuffer, StopWaitOver, Restop, EndStop,
             Stopping
    <2>6. ~suspending
      <3>1. CASE EndStop
        <4>1. cpc' # "bound"
          BY <2>1 DEF Stopping
        <4>. QED
          BY <3>1, <4>1, Zenon DEF EndStop
      <3>2. CASE ~EndStop
        <4>1. suspending' = suspending
          BY <2>4, <3>2, Zenon DEF StartStop, StopBuffer, StopWaitOver, Restop
        <4>. QED
          BY <2>1, <4>1, Zenon
      <3>. QED
        BY <3>1, <3>2
    <2>7. Disconnecting
      BY <2>5, <2>6, Zenon DEF Disconnecting
    <2>. QED
      BY <2>5, <2>7 DEF Marked
  <1>. QED
    BY <1>1, <1>2

\* A probe that is not refused leaves the URBs it finds as they are; one that succeeds has
\* found none, and gives every buffer one.
LEMMA ProbeOutcome ==
  ASSUME Housekeeping, Probe
  PROVE  /\ cpc' \in {"bound", "failed", "bugInProbe"}
         /\ cpc' = "bound" => \A b \in Bufs : urb'[b] # 0
         /\ \A b \in Bufs : urb[b] # 0 => urb'[b] = urb[b]
  <1>1. PICK n \in 0..NBufs, end \in {"bound", "failed"} :
          /\ end = "bound" => n = NBufs
          /\ IF \E b \in 1..n : urb[b] # 0
             THEN cpc' = "bugInProbe" /\ held' = TRUE /\ UNCHANGED epVars
             ELSE /\ session' = session + 1
                  /\ ep' = [b \in Bufs |-> b <= n + 1 \/ ep[b]]
                  /\ urb' = [b \in Bufs |-> IF b <= n THEN session + 1 ELSE urb[b]]
                  /\ cpc' = end
                  /\ UNCHANGED held
    BY Zenon DEF Probe
  <1>2. session \in Nat /\ NBufs \in Nat
    BY SizesAssumption DEF Housekeeping, Typing, EpTyping
  <1>3. CASE cpc' = "bugInProbe" /\ UNCHANGED epVars
    BY <1>3 DEF epVars
  <1>4. CASE /\ ~ \E b \in 1..n : urb[b] # 0
             /\ urb' = [b \in Bufs |-> IF b <= n THEN session + 1 ELSE urb[b]]
             /\ cpc' = end
    <2>1. \A b \in Bufs : urb[b] # 0 => urb'[b] = urb[b]
      BY <1>2, <1>4 DEF Bufs
    <2>2. ASSUME cpc' = "bound"
          PROVE  \A b \in Bufs : urb'[b] # 0
      <3>1. n = NBufs
        BY <1>1, <1>4, <2>2
      <3>. QED
        BY <1>2, <1>4, <3>1 DEF Bufs
    <2>. QED
      BY <1>4, <2>1, <2>2
  <1>. QED
    BY <1>1, <1>3, <1>4, Zenon

LEMMA AllocatedCore ==
  ASSUME Housekeeping, Transfers, Core
  PROVE  Allocated'
  <1>1. CASE Probe
    BY <1>1, ProbeOutcome DEF Allocated, HalfProbed
  <1>2. CASE Teardown
    <2>1. PICK C \in SUBSET Bufs :
            /\ ep' = [b \in Bufs |-> ep[b] /\ b \notin C]
            /\ urb' = [b \in Bufs |-> IF b \in C THEN 0 ELSE urb[b]]
            /\ C = Bufs \/ cpc' = "bug"
      BY <1>2, TeardownClears, Zenon
    <2>2. \A b \in Bufs : ep[b] => urb[b] # 0
      BY <1>2 DEF Teardown, Transfers, Allocated, HalfProbed
    <2>3. \A b \in Bufs : ep'[b] => urb'[b] # 0
      BY <2>1, <2>2
    <2>4. C = Bufs => \A b \in Bufs : urb'[b] = 0 /\ ~ep'[b]
      BY <2>1
    <2>. QED
      BY <2>1, <2>3, <2>4 DEF Allocated
  <1>3. CASE ~Probe /\ ~Teardown
    <2>1. UNCHANGED <<ep, urb>>
      BY <1>3 DEF epVars, Core, Callback, StartTeardown, Suspend, StartStop, StopBuffer,
             StopWaitOver,
             Restop, EndStop, FinishTeardown
    <2>2. /\ cpc' \in {"absent", "deregister"} => cpc = "deregister"
          /\ ~HalfProbed
      BY <1>3 DEF CGoto, HalfProbed, Core, Callback, StartTeardown, Suspend, StartStop,
             StopBuffer, StopWaitOver, Restop, EndStop, FinishTeardown
    <2>3. cpc' \in {"absent", "deregister"} => \A b \in Bufs : urb'[b] = 0 /\ ~ep'[b]
      <3>1. cpc = "deregister" => \A b \in Bufs : urb[b] = 0 /\ ~ep[b]
        BY Zenon DEF Transfers, Allocated
      <3>. QED
        BY <2>1, <2>2, <3>1, Zenon
    <2>. QED
      BY <2>1, <2>2, <2>3, Zenon DEF Transfers, Allocated
  <1>. QED
    BY <1>1, <1>2, <1>3

\* Only at the buffer where it is does the loop touch ACTIVE and the URBs; what was in
\* flight there with ACTIVE set is cancelled.
LEMMA StopBufferSound ==
  ASSUME Housekeeping, Transfers, StopBuffer, NEW v \in Users \ late'
  PROVE  Sound(v)'
  <1>1. /\ cpc = "stopping" /\ cb \in Bufs
        /\ active' = [active EXCEPT ![cb] = FALSE]
        /\ xfer' = IF active[cb] THEN Cancel(cb, "cancelled") ELSE xfer
        /\ UNCHANGED <<upc, ubuf, used, result, late, urb>>
    BY SizesAssumption DEF StopBuffer, epVars, Housekeeping, Typing, CoreTyping, Bufs
  <1>2. /\ \/ busy[cb] /\ cpc' = "stopWait" /\ cb' = cb
           \/ ~busy[cb] /\ cpc' = "stopping" /\ cb' = cb + 1
        /\ suspending' = suspending
    BY <1>1, Zenon DEF StopBuffer
  <1>3. /\ Sound(v) /\ v \in Users /\ active \in [Bufs -> BOOLEAN]
        /\ xfer \in [Users -> {"none", "flying", "unlinked", "back", "cancelled"}]
        /\ cb \in Int /\ ubuf[v] \in Int
    BY <1>1, SizesAssumption DEF Transfers, Housekeeping, Typing, FlagTyping, UserTyping,
           Bufs
  <1>4. CASE /\ upc[v] \in InTransfer /\ ubuf[v] = cb /\ active[cb]
             /\ used[v] = urb[cb] /\ xfer[v] \in Pending
    <2>1. xfer'[v] = "cancelled"
      BY <1>1, <1>3, <1>4 DEF Cancel, Hit
    <2>. QED
      <3>1. OwnUrb(v)' /\ Flagged(v)' /\ Settled(v)'
        BY <1>1, <1>2, <1>3, <1>4, <2>1 DEF Sound, OwnUrb, Flagged, Settled, Pending, Submitted,
           HalfProbed
      <3>2. busy[cb]
        BY <1>3, <1>4, Zenon DEF Housekeeping, Claims
      <3>3. cpc' = "stopWait" /\ cb' = cb
        BY <1>2, <3>2, Zenon
      <3>4. Reached(v)'
        BY <1>1, <1>2, <1>3, <1>4, <2>1, <3>3 DEF Sound, Reached, Passed
      <3>. QED
        BY <3>1, <3>4 DEF Sound
  <1>5. CASE ~(/\ upc[v] \in InTransfer /\ ubuf[v] = cb /\ active[cb]
               /\ used[v] = urb[cb] /\ xfer[v] \in Pending)
    <2>1. xfer'[v] = xfer[v]
      BY <1>1, <1>3, <1>5 DEF Cancel, Hit
    <2>2. upc[v] \in {"checking", "awaiting"} /\ ubuf[v] = cb => xfer[v] # "flying"
      BY <1>3, <1>5 DEF Sound, Flagged, OwnUrb, Submitted, InTransfer, Pending
    <2>3. OwnUrb(v)' /\ Settled(v)'
      BY <1>1, <1>2, <1>3, <2>1 DEF Sound, OwnUrb, Settled, HalfProbed
    <2>4. Flagged(v)'
      BY <1>1, <1>3, <2>1, <2>2 DEF Sound, Flagged
    <2>5. upc[v] \in InTransfer /\ ubuf[v] = cb => busy[cb]
      BY <1>3, Zenon DEF Housekeeping, Claims
    <2>6. /\ ~suspending /\ upc[v] \in Going => ~Passed(ubuf[v])
          /\ \/ cpc' = "stopWait" /\ cb' = cb
             \/ /\ cpc' = "stopping" /\ cb' = cb + 1
                /\ upc[v] \in Going => ubuf[v] # cb
      BY <1>2, <1>3, <2>5, Zenon DEF Sound, Reached, Going
    <2>7. Reached(v)'
      BY <1>1, <1>2, <1>3, <2>1, <2>2, <2>6 DEF Reached, Passed
    <2>. QED
      BY <2>3, <2>4, <2>7 DEF Sound
  <1>. QED
    BY <1>4, <1>5

\* The others write nothing that the transfer itself depends on; each is a step of the
\* loop that passes a buffer only when nobody has it, or leaves its user behind as late.
LEMMA SoundCore ==
  ASSUME Housekeeping, Transfers, Core, ~StopBuffer, NEW v \in Users \ late'
  PROVE  Sound(v)'
  <1>1. UNCHANGED <<upc, ubuf, used, result, xfer>>
    BY CallsUntouched DEF Core, Callback, userVars, Probe, StartTeardown, Suspend,
           StartStop,
         StopWaitOver, Restop, EndStop, Teardown, FinishTeardown
  <1>2. v \notin late /\ v \in Users
    BY DEF Core, Callback, userVars, Probe, StartTeardown, Suspend, StartStop,
         StopWaitOver, Restop, EndStop, Teardown, FinishTeardown
  <1>3. OwnUrb(v) /\ Flagged(v) /\ Settled(v) /\ Reached(v)
    BY <1>2 DEF Transfers, Sound
  <1>4. active' = active
    BY DEF Core, Callback, flagVars, Probe, StartTeardown, Suspend, StartStop,
         StopWaitOver, Restop, EndStop, Teardown, FinishTeardown
  <1>5. Flagged(v)' /\ Settled(v)'
    BY <1>1, <1>3, <1>4 DEF Flagged, Settled
  <1>6. OwnUrb(v)'
    <2>0. ubuf[v] \in Bufs
      BY <1>2 DEF Housekeeping, Typing, UserTyping
    <2>1. CASE Probe
      <3>1. upc[v] \in Submitted => urb'[ubuf[v]] = urb[ubuf[v]]
        BY <1>3, <2>0, <2>1, ProbeOutcome DEF OwnUrb
      <3>2. urb'[ubuf[v]] # 0 \/ HalfProbed'
        BY <2>0, <2>1, ProbeOutcome DEF HalfProbed
      <3>. QED
        BY <1>1, <1>3, <3>1, <3>2 DEF OwnUrb
    <2>2. CASE Teardown
      <3>1. upc[v] \notin Going
        <4>1. cpc = "teardown"
          BY <2>2 DEF Teardown
        <4>2. ~suspending
          BY <4>1, Zenon DEF Transfers, Course
        <4>3. Passed(ubuf[v])
          BY <4>1, <4>2, Zenon DEF Passed
        <4>. QED
          BY <1>3, <4>2, <4>3, Zenon DEF Reached
      <3>. QED
        BY <1>1, <3>1 DEF OwnUrb, Submitted, Going, InTransfer
    <2>3. CASE ~Probe /\ ~Teardown
      <3>1. urb' = urb
        BY <2>3 DEF Core, Callback, epVars, StartTeardown, Suspend, StartStop, StopBuffer,
           StopWaitOver, Restop, EndStop, FinishTeardown
      <3>2. HalfProbed' <=> HalfProbed
        BY <2>3 DEF Core, Callback, CGoto, HalfProbed, StartTeardown, Suspend, StartStop,
           StopBuffer, StopWaitOver, Restop, EndStop, FinishTeardown
      <3>. QED
        BY <1>1, <1>3, <3>1, <3>2 DEF OwnUrb
    <2>. QED
      BY <2>1, <2>2, <2>3
  <1>7. Reached(v)'
    <2>. SUFFICES ASSUME ~suspending'
                  PROVE  /\ upc[v] \in Going => ~Passed(ubuf[v])'
                         /\ cpc' \in {"stopWait", "retest"} /\ ubuf[v] = cb' /\ upc[v] = "awaiting"
                              => xfer[v] # "flying"
      BY <1>1, Zenon DEF Reached
    <2>0. /\ cb \in 1..NBufs + 1 /\ NBufs \in Nat \ {0} /\ ubuf[v] \in 1..NBufs
          /\ cb \in Int /\ ubuf[v] \in Int
      BY <1>2, SizesAssumption DEF Housekeeping, Typing, CoreTyping, UserTyping, Bufs
    <2>1. CASE Probe \/ StartTeardown \/ Suspend \/ FinishTeardown \/ Teardown
      <3>1. cpc' \in {"bound", "failed", "bugInProbe", "marked", "absent", "deregister", "bug"}
        <4>1. Probe => cpc' \in {"bound", "failed", "bugInProbe"}
          BY ProbeOutcome
        <4>. QED
          BY <2>1, <4>1 DEF CGoto, StartTeardown, Suspend, FinishTeardown, Teardown
      <3>. QED
        BY <3>1 DEF Passed
    <2>2. CASE StartStop
      <3>1. cpc' = "stopping" /\ cb' = 1
        BY <2>2 DEF StartStop, CGoto, Transfers, Course
      <3>. QED
        BY <1>1, <2>0, <3>1 DEF Passed
    <2>3. CASE EndStop
      <3>1. cpc = "stopping" /\ cb > NBufs
        BY <2>3 DEF EndStop
      <3>2. CASE suspending
        <4>1. cpc' = "bound"
          BY <2>3, <3>2, Zenon DEF EndStop
        <4>. QED
          BY <4>1 DEF Passed
      <3>3. CASE ~suspending
        <4>1. cpc' = "teardown"
          BY <2>3, <3>3, Zenon DEF EndStop
        <4>2. cb > ubuf[v]
          BY <2>0, <3>1
        <4>3. Passed(ubuf[v])
          BY <3>1, <3>3, <4>2, Zenon DEF Passed
        <4>4. upc[v] \notin Going
          BY <1>3, <3>3, <4>3, Zenon DEF Reached
        <4>. QED
          BY <4>1, <4>4
      <3>. QED
        BY <3>2, <3>3
    <2>4. CASE Restop \/ StopWaitOver
      <3>1. ~suspending
        BY <2>4, Zenon DEF Restop, StopWaitOver
      <3>2. /\ upc[v] \in Going => ~Passed(ubuf[v])
            /\ cpc \in {"stopWait", "retest"} /\ ubuf[v] = cb /\ upc[v] = "awaiting"
                 => xfer[v] # "flying"
        BY <1>3, <3>1, Zenon DEF Reached
      <3>3. upc[v] \in Going /\ ubuf[v] = cb => busy[cb]
        BY <1>2, Zenon DEF Going, Housekeeping, Claims
      <3>4. CASE Restop
        <4>1. \/ cpc = "gaveUp" /\ cpc' = "stopping" /\ cb' = cb + 1
              \/ cpc = "retest" /\ cpc' = "stopWait" /\ cb' = cb
              \/ cpc = "retest" /\ ~busy[cb] /\ cpc' = "stopping" /\ cb' = cb + 1
          BY <3>4, Zenon DEF Restop, CGoto
        <4>2. \/ cpc = "gaveUp" /\ cpc' = "stopping" /\ cb' = cb + 1
              \/ cpc = "retest" /\ cpc' = "stopWait" /\ cb' = cb
              \/ /\ cpc = "retest" /\ cpc' = "stopping" /\ cb' = cb + 1
                 /\ upc[v] \in Going => ubuf[v] # cb
          BY <3>3, <4>1, Zenon
        <4>. QED
          BY <1>1, <2>0, <3>1, <3>2, <4>2 DEF Passed
      <3>5. CASE StopWaitOver
        <4>1. cpc = "stopWait" /\ cb' = cb
          BY <3>5 DEF StopWaitOver
        <4>2. CASE ~busy[cb] /\ cpc' \in {"retest", "gaveUp"}
          <5>1. upc[v] \in Going => ubuf[v] # cb
            BY <3>3, <4>2, Zenon
          <5>. QED
            BY <1>1, <2>0, <3>1, <3>2, <4>1, <4>2, <5>1 DEF Passed
        <4>3. CASE cpc' = "gaveUp" /\ \E u \in CallsOn(cb) : Stuck(u)
          <5>1. PICK u \in CallsOn(cb) : Stuck(u)
            BY <4>3
          <5>2. v = u => upc[v] \notin Going
            BY <3>2, <4>1, <5>1 DEF Stuck, CallsOn, Going
          <5>3. upc[v] \in Going => ubuf[v] # cb
            BY <1>2, <5>1, <5>2 DEF CallsOn, Going, Housekeeping, OneCallPerBuffer
          <5>. QED
            BY <1>1, <2>0, <3>1, <3>2, <4>1, <4>3, <5>3 DEF Passed
        <4>4. CASE cpc' = "gaveUp" /\ late' = IF suspending THEN late ELSE late \cup CallsOn(cb)
          <5>1. v \notin CallsOn(cb)
            BY <3>1, <4>4, Zenon
          <5>2. upc[v] \in Going => ubuf[v] # cb
            BY <1>2, <5>1 DEF CallsOn, Going
          <5>. QED
            BY <1>1, <2>0, <3>1, <3>2, <4>1, <4>4, <5>2 DEF Passed
        <4>. QED
          BY <3>5, <4>2, <4>3, <4>4, Zenon DEF StopWaitOver
      <3>. QED
        BY <2>4, <3>4, <3>5
    <2>. QED
      BY <2>1, <2>2, <2>3, <2>4 DEF Core, Callback
  <1>. QED
    BY <1>5, <1>6, <1>7 DEF Sound

\* The callbacks only clear ACTIVE.
LEMMA BackedCore ==
  ASSUME Housekeeping, Transfers, Core
  PROVE  Backed'
  <1>1. UNCHANGED <<upc, ubuf>>
    BY CallsUntouched
  <1>2. active' = active \/ active' = [active EXCEPT ![cb] = FALSE]
    BY Zenon DEF Core, Callback, flagVars, Probe, StartTeardown, Suspend, StartStop,
           StopBuffer,
         StopWaitOver, Restop, EndStop, Teardown, FinishTeardown
  <1>3. \A b \in Bufs : active'[b] => active[b]
    BY <1>2 DEF Housekeeping, Typing, FlagTyping
  <1>. QED
    BY <1>1, <1>3 DEF Transfers, Backed

\* The BUG_ON finds ACTIVE set only if there is a call that the loop has not waited for.
LEMMA BuggedCore ==
  ASSUME Housekeeping, Transfers, Core
  PROVE  Bugged'
  <1>. SUFFICES ASSUME cpc' = "bug"
                PROVE  held' /\ \E w \in late' : upc'[w] \in Watched \cup {"unlinking"}
    BY DEF Bugged
  <1>1. Teardown
    <2>1. ~Probe
      BY ProbeOutcome
    <2>. QED
      BY <2>1 DEF Core, Callback, CGoto, StartTeardown, Suspend, StartStop, StopBuffer,
         StopWaitOver, Restop, EndStop, FinishTeardown
  <1>2. /\ cpc = "teardown" /\ late' = late /\ upc' = upc
    BY <1>1, Zenon DEF Teardown, userVars
  <1>3. held' = TRUE /\ \E b \in Bufs : active[b]
    BY <1>1, TeardownClears
  <1>4. PICK w \in Users : upc[w] \in Watched
    BY <1>3 DEF Transfers, Backed
  <1>5. w \in late
    <2>. SUFFICES ASSUME w \notin late
                  PROVE  FALSE
      OBVIOUS
    <2>1. Reached(w)
      BY <1>4 DEF Transfers, Sound
    <2>2. ~suspending
      BY <1>2, Zenon DEF Transfers, Course
    <2>3. Passed(ubuf[w])
      BY <1>2, <2>2, Zenon DEF Passed
    <2>4. upc[w] \in Going
      BY <1>4 DEF Watched, Going, InTransfer
    <2>. QED
      BY <2>1, <2>2, <2>3, <2>4, Zenon DEF Reached
  <1>. QED
    BY <1>2, <1>3, <1>4, <1>5

LEMMA TransfersInductive ==
  ASSUME Housekeeping, Transfers, [Next]_vars
  PROVE  Transfers'
  <1>1. ASSUME NEW u \in Users, User(u)
        PROVE  Transfers'
    BY <1>1, TransfersUser
  <1>2. CASE Core
    <2>1. \A v \in Users \ late' : Sound(v)'
      BY <1>2, StopBufferSound, SoundCore
    <2>2. Course' /\ Marked' /\ Allocated'
      BY <1>2, CourseCore, MarkedCore, AllocatedCore DEF Transfers
    <2>. QED
      BY <1>2, <2>1, <2>2, BackedCore, BuggedCore DEF Transfers
  <1>3. CASE UNCHANGED vars
    <2>1. UNCHANGED <<upc, ubuf, used, xfer, result, late, active, discon, busy, ep, urb, session,
                      cpc, suspending, cb, freed, held>>
      BY <1>3 DEF vars, userVars, flagVars, epVars, coreVars
    <2>2. Course' /\ Marked' /\ Allocated' /\ Backed' /\ Bugged'
      BY <2>1 DEF Transfers, Course, Marked, Disconnecting, Allocated,
         HalfProbed, Backed, Bugged
    <2>3. \A v \in Users \ late' : Sound(v)'
      BY <2>1 DEF Transfers, Sound, OwnUrb, Flagged, Settled, Reached, Passed,
         HalfProbed
    <2>. QED
      BY <2>2, <2>3 DEF Transfers
  <1>. QED
    BY <1>1, <1>2, <1>3 DEF Next

LEMMA TransfersInit == Init => Transfers
  <1>. SUFFICES ASSUME Init PROVE Transfers
    OBVIOUS
  <1>1. Course /\ Marked /\ Backed /\ Bugged
    BY DEF Init, Course, Marked, Disconnecting, Stopping, Backed, Bugged
  <1>2. Allocated
    BY DEF Init, Allocated, HalfProbed
  <1>3. \A v \in Users : Sound(v)
    BY DEF Init, Sound, OwnUrb, Flagged, Settled, Reached, Submitted, InTransfer,
         Going, Pending
  <1>. QED
    BY <1>1, <1>2, <1>3 DEF Transfers

-----------------------------------------------------------------------------
\* A buffer, its URB and its DMA memory serve one call at a time (BUF_FL_USER_BUSY),
\* for any number of users, buffers and connections.
THEOREM OneCall == Spec => []OneCallPerBuffer
  <1>1. Housekeeping => OneCallPerBuffer
    BY DEF Housekeeping
  <1>. QED
    BY <1>1, HousekeepingInit, HousekeepingInductive, PTL DEF Spec

\* A file from before a disconnect is of no use but to be closed, and nobody opens a
\* device while there is one (hostdrv_open(), hostdrv_read(), hostdrv_write(),
\* hostdrv_release()).
THEOREM StaleRefused == Spec => StaleFilesRefused
  <1>1. ASSUME Housekeeping, Files, Next
        PROVE  /\ \A u \in stale : upc[u] = "open" => upc'[u] \in {"open", "out"}
               /\ stale # {} => \A u \in Users : upc[u] = "out" => upc'[u] = "out"
    <2>. SUFFICES ASSUME stale # {}
                  PROVE  /\ \A u \in Users : upc[u] = "open" => upc'[u] \in {"open", "out"}
                         /\ \A u \in Users : upc[u] = "out" => upc'[u] = "out"
      BY <1>1 DEF Housekeeping, Typing, FileTyping
    <2>1. dirty /\ upc \in [Users -> UserLabels]
      BY <1>1 DEF Files, DirtyWhileStale, Housekeeping, Typing, UserTyping
    <2>2. ASSUME NEW u \in Users, User(u)
          PROVE  ~Open(u) /\ ~Enter(u)
      BY <2>1 DEF Open, Enter
    <2>3. ASSUME NEW u \in Users, User(u), NEW v \in Users, upc[v] \in {"open", "out"}
          PROVE  upc'[v] = upc[v] \/ (v = u /\ upc[v] = "open" /\ upc'[v] = "out")
      BY <2>1, <2>2, <2>3 DEF User, Transfer, UGoto, Release, Acquire, FoundBusy, WaitUserq,
         Interrupt, SwitchType, Oops, Submit, Mark, Check, Unlink, Await, Settle, ReadStatus,
         Finish, GiveBack
    <2>4. CASE Core
      BY <2>1, <2>4, CallsUntouched
    <2>. QED
      BY <1>1, <2>3, <2>4 DEF Next
  <1>2. ASSUME Housekeeping, Files, [Next]_vars
        PROVE  [ /\ \A u \in stale : upc[u] = "open" => upc'[u] \in {"open", "out"}
                 /\ stale # {} => \A u \in Users : upc[u] = "out" => upc'[u] = "out" ]_vars
    BY <1>1, <1>2
  <1>3. Housekeeping => Typing
    BY DEF Housekeeping
  <1>. QED
    BY <1>2, <1>3, HousekeepingInit, HousekeepingInductive, FilesInit, FilesInductive, PTL
    DEF Spec, StaleFilesRefused

\* The variables keep their types; that open_count stays within the number of users
\* takes the count of the files.
THEOREM TypeCorrect == Spec => []TypeOK
  <1>1. Housekeeping /\ Files => TypeOK
    <2>. SUFFICES ASSUME Housekeeping, Files
                  PROVE  TypeOK
      OBVIOUS
    <2>1. Present \subseteq Users
      BY DEF Present
    <2>2. /\ IsFiniteSet(Present) /\ Cardinality(Present) \in Nat
          /\ Cardinality(Users) \in Nat /\ Cardinality(Present) <= Cardinality(Users)
      BY <2>1, UsersAssumption, FS_Subset, FS_CardinalityType
    <2>3. openCount \in 0..Cardinality(Users)
      BY <2>2 DEF Files
    <2>. QED
      BY <2>3, Zenon DEF TypeOK, Housekeeping, Typing, CoreTyping, EpTyping, FlagTyping,
             FileTyping,
           UserTyping
  <1>2. Housekeeping => Typing
    BY DEF Housekeeping
  <1>. QED
    BY <1>1, <1>2, HousekeepingInit, HousekeepingInductive, FilesInit, FilesInductive, PTL
    DEF Spec

\* A call does not come back before its URB, nor with success for an URB that has been
\* cancelled, whatever disconnects, signals and probes that fail do meanwhile; except a
\* call the disconnect has not waited for, because it took a buffer the loop was past
\* or that another call had given back during the two seconds (usb_do_transfer(),
\* usb_stop_all_active()).
THEOREM Settles == Spec => []TransferSettled
  <1>1. Transfers => TransferSettled
    BY DEF Transfers, Sound, Settled, TransferSettled, Submitted, Pending
  <1>2. Housekeeping /\ Transfers /\ [Next]_vars => Transfers'
    BY TransfersInductive
  <1>. QED
    BY <1>1, <1>2, HousekeepingInit, HousekeepingInductive, TransfersInit, PTL DEF Spec

\* A call that meets no URB is one the disconnect has not waited for, or comes when a
\* probe has failed half-way; and the BUG_ON(URB_ACTIVE) strikes only if there is a call
\* of the first kind (usb_buffer_teardown(), hostdrv_probe()).
THEOREM OnlyLate == Spec => OnlyLateCallsCrash
  <1>1. ASSUME Housekeeping, Transfers, NEW u \in Users, User(u), NEW w \in Users,
               upc[w] # "crashed", upc'[w] = "crashed"
        PROVE  w \in late \/ HalfProbed
    <2>1. w = u
      BY <1>1, OthersUntouched
    <2>2. Oops(u)
      BY <1>1, <2>1 DEF Housekeeping, Typing, UserTyping, User, Transfer, UGoto, Open, Release,
         Enter, Acquire, FoundBusy, WaitUserq, Interrupt, SwitchType, Submit, Mark, Check, Unlink,
         Await, Settle, ReadStatus, Finish, GiveBack
    <2>3. w \notin late => OwnUrb(w)
      BY <1>1 DEF Transfers, Sound
    <2>. QED
      BY <2>1, <2>2, <2>3 DEF Oops, OwnUrb, Submitted
  <1>2. ASSUME Housekeeping, Transfers, [Next]_vars
        PROVE  [ /\ \A u \in Users : upc[u] # "crashed" /\ upc'[u] = "crashed" =>
                      u \in late \/ cpc \in {"failed", "bugInProbe"}
                 /\ cpc' = "bug" => late' # {} ]_vars
    <2>1. cpc' = "bug" => late' # {}
      BY <1>2, TransfersInductive DEF Transfers, Bugged
    <2>2. ASSUME NEW w \in Users, upc[w] # "crashed", upc'[w] = "crashed"
          PROVE  w \in late \/ HalfProbed
      <3>1. CASE Core
        BY <2>2, <3>1, CallsUntouched
      <3>2. CASE UNCHANGED vars
        BY <2>2, <3>2 DEF vars, userVars
      <3>. QED
        BY <1>1, <1>2, <2>2, <3>1, <3>2 DEF Next
    <2>. QED
      BY <2>1, <2>2 DEF HalfProbed
  <1>3. Housekeeping /\ Transfers /\ [Next]_vars => Transfers'
    BY TransfersInductive
  <1>. QED
    BY <1>2, <1>3, HousekeepingInit, HousekeepingInductive, TransfersInit, PTL
    DEF Spec, OnlyLateCallsCrash
=============================================================================
