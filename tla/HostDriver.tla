------------------------------ MODULE HostDriver ------------------------------
(***************************************************************************)
(* The host-side USB test driver, blts-usb/host-driver/hostdrv.c: user     *)
(* processes that read and write endpoints through character devices, the  *)
(* USB core's probe, disconnect and suspend callbacks, and the completion  *)
(* of URBs.                                                                *)
(*                                                                         *)
(* A section under hostdrv_lock is one action, except for the loop of      *)
(* usb_stop_all_active(), which holds it from buffer to buffer (held).     *)
(* What the driver does without the lock is one action per access to the   *)
(* flags or to current_urb.  An URB is known by the session (the           *)
(* connection) it was allocated in.                                        *)
(***************************************************************************)
EXTENDS Naturals, FiniteSets

CONSTANTS
  Users,        \* processes that open the character devices
  NBufs,        \* buffers in use, one per endpoint and direction
  MaxSessions   \* bound: connections of the device

ASSUME UsersAssumption == IsFiniteSet(Users)
ASSUME SizesAssumption == NBufs \in Nat \ {0} /\ MaxSessions \in Nat

Bufs == 1..NBufs

VARIABLES
  held,       \* hostdrv_lock is held by usb_stop_all_active()
  session,    \* number of the last connection
  ep,         \* ep[b]: usbpipe and usb_ep are set
  urb,        \* urb[b]: current_urb, 0 for NULL
  active,     \* active[b]: BUF_FL_URB_ACTIVE
  discon,     \* discon[b]: BUF_FL_DISCONNECTING
  busy,       \* busy[b]: BUF_FL_USER_BUSY
  dirty,      \* private->dirty
  openCount,  \* private->open_count
  cpc,        \* where the USB core's callback is
  suspending, \* the callback is .suspend
  cb,         \* the loop index of usb_stop_all_active()
  freed,      \* a call on that buffer has ended since the wait for it began
  upc,        \* upc[u]: where user u is
  ubuf,       \* ubuf[u]: the buffer of u's call
  used,       \* used[u]: the URB u has submitted
  xfer,       \* xfer[u]: what became of it; "back" with whatever status, or refused
  result,     \* result[u]: what u's call is going to return
  late,       \* for the properties: users the disconnect did not wait for
  stale       \* for the properties: users that were there when a disconnect began

userVars == <<upc, ubuf, used, xfer, result, late>>
flagVars == <<active, discon, busy>>
epVars == <<ep, urb, session>>
coreVars == <<cpc, suspending, cb, freed, held>>
fileVars == <<dirty, openCount, stale>>
vars == <<userVars, flagVars, epVars, coreVars, fileVars>>

CoreLabels == {"absent", "bound", "failed", "marked", "stopping", "stopWait",
               "gaveUp", "retest", "teardown", "deregister", "bug", "bugInProbe"}
UserLabels == {"out", "open", "locking", "waiting", "asleep", "filling", "submitting",
               "marking", "checking", "unlinking", "awaiting", "settling", "cut",
               "reading", "finishing", "crashed"}

\* The labels between the setting of BUF_FL_USER_BUSY and its clearing.
InTransfer == {"filling", "submitting", "marking", "checking", "unlinking",
               "awaiting", "settling", "cut", "reading", "finishing", "crashed"}

TypeOK ==
  /\ held \in BOOLEAN /\ dirty \in BOOLEAN /\ suspending \in BOOLEAN
  /\ freed \in BOOLEAN
  /\ session \in 0..MaxSessions
  /\ ep \in [Bufs -> BOOLEAN]
  /\ urb \in [Bufs -> 0..MaxSessions]
  /\ active \in [Bufs -> BOOLEAN]
  /\ discon \in [Bufs -> BOOLEAN]
  /\ busy \in [Bufs -> BOOLEAN]
  /\ openCount \in 0..Cardinality(Users)
  /\ cpc \in CoreLabels
  /\ cb \in 1..NBufs + 1
  /\ upc \in [Users -> UserLabels]
  /\ ubuf \in [Users -> Bufs]
  /\ used \in [Users -> 0..MaxSessions]
  /\ xfer \in [Users -> {"none", "flying", "unlinked", "back", "cancelled"}]
  /\ result \in [Users -> {"ok", "error"}]
  /\ late \subseteq Users /\ stale \subseteq Users

\* hostdrv_init(): everything zeroed, nothing connected.
Init ==
  /\ held = FALSE /\ dirty = FALSE /\ suspending = FALSE /\ freed = FALSE
  /\ session = 0
  /\ ep = [b \in Bufs |-> FALSE]
  /\ urb = [b \in Bufs |-> 0]
  /\ active = [b \in Bufs |-> FALSE]
  /\ discon = [b \in Bufs |-> FALSE]
  /\ busy = [b \in Bufs |-> FALSE]
  /\ openCount = 0
  /\ cpc = "absent"
  /\ cb = 1
  /\ upc = [u \in Users |-> "out"]
  /\ ubuf = [u \in Users |-> 1]
  /\ used = [u \in Users |-> 0]
  /\ xfer = [u \in Users |-> "none"]
  /\ result = [u \in Users |-> "error"]
  /\ late = {} /\ stale = {}

\* An URB that has been submitted and is not back yet.
Pending == {"flying", "unlinked"}

\* The call is over; which buffer it was about is of no interest any more.
Forget(u) == ubuf' = [ubuf EXCEPT ![u] = 1]

UGoto(u, from, to) == upc[u] = from /\ upc' = [upc EXCEPT ![u] = to]
CGoto(from, to) == cpc = from /\ cpc' = to

-----------------------------------------------------------------------------
\* hostdrv_open(), refused with EBADF while dirty (the process stays out).
Open(u) == /\ UGoto(u, "out", "open")
           /\ ~held /\ ~dirty
           /\ openCount' = openCount + 1
           /\ UNCHANGED <<ubuf, used, xfer, result, late, flagVars, epVars, coreVars,
                          dirty, stale>>

\* Mutated form of the next one: any close makes the driver clean.
Release_AnyCleans(u) ==
  /\ UGoto(u, "open", "out")
  /\ ~held
  /\ openCount' = openCount - 1
  /\ dirty' = FALSE
  /\ stale' = stale \ {u}
  /\ UNCHANGED <<ubuf, used, xfer, result, late, flagVars, epVars, coreVars>>

\* hostdrv_release(): the last close makes the driver clean again.
Release(u) == /\ UGoto(u, "open", "out")
              /\ ~held
              /\ openCount' = openCount - 1
              /\ dirty' = (dirty /\ openCount > 1)
              /\ stale' = stale \ {u}
              /\ UNCHANGED <<ubuf, used, xfer, result, late, flagVars, epVars, coreVars>>

\* hostdrv_read()/hostdrv_write(): dirty and usbpipe, looked at without the lock.
\* (Otherwise the call fails at once with EBADF, ENOENT or ENODEV.)
Enter(u) == /\ UGoto(u, "open", "locking")
            /\ ~dirty
            /\ \E b \in Bufs : ep[b] /\ ubuf' = [ubuf EXCEPT ![u] = b]
            /\ xfer' = [xfer EXCEPT ![u] = "none"]
            /\ late' = late \ {u}
            /\ UNCHANGED <<used, result, flagVars, epVars, coreVars, fileVars>>

\* The disconnect's loop is past this buffer, and its teardown is still to come.
Passed(b) ==
  /\ ~suspending
  /\ \/ cpc = "teardown"
     \/ cpc \in {"stopping", "stopWait", "retest", "gaveUp"} /\ cb > b
     \/ cpc = "gaveUp" /\ cb = b

\* Mutated form of the next one: a buffer in use is taken all the same.
Acquire_Shared(u) ==
  /\ UGoto(u, "locking", "filling")
  /\ ~held
  /\ busy' = [busy EXCEPT ![ubuf[u]] = TRUE]
  /\ late' = IF Passed(ubuf[u]) THEN late \cup {u} ELSE late
  /\ UNCHANGED <<ubuf, used, xfer, result, active, discon, epVars, coreVars, fileVars>>

\* The lock is taken and the buffer is idle: BUF_FL_USER_BUSY is ours.  (A write
\* copies its data in here, under the lock.)
Acquire(u) == /\ UGoto(u, "locking", "filling")
              /\ ~held
              /\ ~busy[ubuf[u]]
              /\ busy' = [busy EXCEPT ![ubuf[u]] = TRUE]
              /\ late' = IF Passed(ubuf[u]) THEN late \cup {u} ELSE late
              /\ UNCHANGED <<ubuf, used, xfer, result, active, discon, epVars, coreVars,
                             fileVars>>

\* The buffer is busy: give up (O_NONBLOCK) or go to wait on userq.
FoundBusy(u) == /\ upc[u] = "locking"
                /\ ~held
                /\ busy[ubuf[u]]
                /\ \/ upc' = [upc EXCEPT ![u] = "open"] /\ Forget(u)
                   \/ upc' = [upc EXCEPT ![u] = "waiting"] /\ UNCHANGED ubuf
                /\ UNCHANGED <<used, xfer, result, late, flagVars, epVars, coreVars,
                               fileVars>>

\* wait_event_interruptible(userq): it looks once, then sleeps; nothing in the
\* driver wakes userq.
WaitUserq(u) == /\ upc[u] = "waiting"
                /\ upc' = [upc EXCEPT ![u] = IF busy[ubuf[u]] THEN "asleep" ELSE "locking"]
                /\ UNCHANGED <<ubuf, used, xfer, result, late, flagVars, epVars, coreVars,
                               fileVars>>

\* A signal ends mutex_lock_interruptible() or the wait on userq.
Interrupt(u) == /\ \/ UGoto(u, "locking", "open")
                   \/ UGoto(u, "asleep", "open")
                /\ Forget(u)
                /\ UNCHANGED <<used, xfer, result, late, flagVars, epVars, coreVars,
                               fileVars>>

\* Mutated form of the next one: the type of the endpoint is not looked at.
SwitchType_Blind(u) ==
  /\ UGoto(u, "filling", "submitting")
  /\ UNCHANGED <<ubuf, used, xfer, result, late, flagVars, epVars, coreVars, fileVars>>

\* usb_do_transfer(): the type of the endpoint.  A descriptor that has been zeroed
\* reads as a control endpoint: EIO.
SwitchType(u) ==
  /\ upc[u] = "filling"
  /\ \/ /\ ep[ubuf[u]]
        /\ upc' = [upc EXCEPT ![u] = "submitting"]
        /\ UNCHANGED result
     \/ /\ ~ep[ubuf[u]]
        /\ upc' = [upc EXCEPT ![u] = "finishing"]
        /\ result' = [result EXCEPT ![u] = "error"]
  /\ UNCHANGED <<ubuf, used, xfer, late, flagVars, epVars, coreVars, fileVars>>

\* current_urb is NULL where it is used.
Oops(u) == /\ upc[u] \in {"submitting", "reading"}
           /\ urb[ubuf[u]] = 0
           /\ upc' = [upc EXCEPT ![u] = "crashed"]
           /\ UNCHANGED <<ubuf, used, xfer, result, late, flagVars, epVars, coreVars,
                          fileVars>>

\* usb_fill_*_urb(), then usb_submit_urb() succeeds or fails.
Submit(u) ==
  /\ upc[u] = "submitting"
  /\ urb[ubuf[u]] # 0
  /\ used' = [used EXCEPT ![u] = urb[ubuf[u]]]
  /\ \/ /\ upc' = [upc EXCEPT ![u] = "marking"]
        /\ xfer' = [xfer EXCEPT ![u] = "flying"]
     \/ /\ upc' = [upc EXCEPT ![u] = "reading"]
        /\ xfer' = [xfer EXCEPT ![u] = "back"]
  /\ UNCHANGED <<ubuf, result, late, flagVars, epVars, coreVars, fileVars>>

\* set_bit(BUF_FL_URB_ACTIVE).
Mark(u) == /\ UGoto(u, "marking", "checking")
           /\ active' = [active EXCEPT ![ubuf[u]] = TRUE]
           /\ UNCHANGED <<ubuf, used, xfer, result, late, discon, busy, epVars, coreVars,
                          fileVars>>

\* Mutated form of the next one: the race with the disconnect is not looked at.
Check_Not(u) ==
  /\ UGoto(u, "checking", "awaiting")
  /\ UNCHANGED <<ubuf, used, xfer, result, late, flagVars, epVars, coreVars, fileVars>>

\* "We may be racing a connection failure": DISCONNECTING and still ACTIVE.
Check(u) ==
  LET race == discon[ubuf[u]] /\ active[ubuf[u]] IN
  /\ upc[u] = "checking"
  /\ upc' = [upc EXCEPT ![u] = IF race THEN "unlinking" ELSE "awaiting"]
  /\ active' = [active EXCEPT ![ubuf[u]] = @ /\ ~race]
  /\ UNCHANGED <<ubuf, used, xfer, result, late, discon, busy, epVars, coreVars, fileVars>>

\* What usb_unlink_urb() or usb_kill_urb() of current_urb does to the transfers: the
\* one it belongs to is on its way back, or is back.
Hit(u, b) == /\ upc[u] \in InTransfer
             /\ ubuf[u] = b
             /\ used[u] = urb[b]
             /\ xfer[u] \in Pending
Cancel(b, how) == [u \in Users |-> IF Hit(u, b) THEN how ELSE xfer[u]]

\* Under the lock: usb_unlink_urb(), if there is still an URB.
Unlink(u) == /\ UGoto(u, "unlinking", "awaiting")
             /\ ~held
             /\ xfer' = Cancel(ubuf[u], "unlinked")
             /\ UNCHANGED <<ubuf, used, result, late, flagVars, epVars, coreVars, fileVars>>

\* wait_for_completion_interruptible_timeout(): the URB is back, or a signal came.
Await(u) == /\ upc[u] = "awaiting"
            /\ \/ /\ xfer[u] \notin Pending
                  /\ upc' = [upc EXCEPT ![u] = "settling"]
               \/ upc' = [upc EXCEPT ![u] = "cut"]
            /\ UNCHANGED <<ubuf, used, xfer, result, late, flagVars, epVars, coreVars,
                           fileVars>>

\* Mutated form of the next one: the URB is not killed when the wait was cut short.
Settle_NoKill(u) ==
  /\ \/ UGoto(u, "settling", "reading")
     \/ UGoto(u, "cut", "reading")
  /\ ~held
  /\ active' = [active EXCEPT ![ubuf[u]] = FALSE]
  /\ UNCHANGED <<ubuf, used, xfer, result, late, discon, busy, epVars, coreVars, fileVars>>

\* Under the lock: ACTIVE is cleared, and the URB killed if the wait was cut short.
Settle(u) == /\ \/ UGoto(u, "settling", "reading")
                \/ UGoto(u, "cut", "reading")
             /\ ~held
             /\ active' = [active EXCEPT ![ubuf[u]] = FALSE]
             /\ xfer' = IF upc[u] = "cut" THEN Cancel(ubuf[u], "cancelled") ELSE xfer
             /\ UNCHANGED <<ubuf, used, result, late, discon, busy, epVars, coreVars,
                            fileVars>>

\* status and actual_length of whatever current_urb is now, without the lock, as
\* usb_check_transfer_result() sees them.  The status of an URB that is fresh or in
\* flight is 0; a stall that could be cleared (EPIPE) is no error.
ReadStatus(u) ==
  /\ UGoto(u, "reading", "finishing")
  /\ urb[ubuf[u]] # 0
  /\ \E r \in IF used[u] # urb[ubuf[u]] THEN {"ok"}
              ELSE CASE xfer[u] = "cancelled" -> {"error"}
                     [] xfer[u] = "back"      -> {"ok", "error"}
                     [] OTHER                 -> {"ok"} :
       result' = [result EXCEPT ![u] = r]
  /\ UNCHANGED <<ubuf, used, xfer, late, flagVars, epVars, coreVars, fileVars>>

\* BUF_FL_USER_BUSY is cleared: under the lock, or without it after a signal.
Finish(u) == /\ UGoto(u, "finishing", "open")
             /\ busy' = [busy EXCEPT ![ubuf[u]] = FALSE]
             /\ Forget(u)
             /\ used' = [used EXCEPT ![u] = 0]
             /\ xfer' = [xfer EXCEPT ![u] = IF @ \in Pending THEN @ ELSE "none"]
             /\ result' = [result EXCEPT ![u] = "error"]
             /\ freed' = (freed \/ (cb = ubuf[u] /\ cpc = "stopWait"))
             /\ late' = IF xfer[u] \in Pending THEN late ELSE late \ {u}
             /\ UNCHANGED <<active, discon, epVars, cpc, suspending, cb, held, fileVars>>

\* The host controller gives an URB back: usb_generic_completion().
GiveBack(u) == /\ xfer[u] \in Pending
               /\ \E how \in {"back", "cancelled"} :
                    /\ how = "cancelled" => xfer[u] = "unlinked"
                    /\ xfer' = [xfer EXCEPT ![u] = how]
               /\ UNCHANGED <<upc, ubuf, used, result, late, flagVars, epVars, coreVars,
                              fileVars>>

-----------------------------------------------------------------------------
\* hostdrv_probe(): URBs and buffers for every endpoint, or for those before the one
\* whose allocation fails (or usb_register_dev() fails after them).  BUG_ON if an URB
\* is left over.
Probe ==
  /\ cpc \in {"absent", "failed"}
  /\ session < MaxSessions
  /\ \E n \in 0..NBufs, end \in {"bound", "failed"} :
       /\ end = "bound" => n = NBufs
       /\ IF \E b \in 1..n : urb[b] # 0
          THEN cpc' = "bugInProbe" /\ held' = TRUE /\ UNCHANGED epVars
          ELSE /\ session' = session + 1
               /\ ep' = [b \in Bufs |-> b <= n + 1 \/ ep[b]]
               /\ urb' = [b \in Bufs |-> IF b <= n THEN session + 1 ELSE urb[b]]
               /\ cpc' = end
               /\ UNCHANGED held
  /\ UNCHANGED <<suspending, cb, freed, flagVars, userVars, fileVars>>

Present == {u \in Users : upc[u] # "out"}

\* hostdrv_disconnect(): hostdrv_common_start_teardown()'s section.
StartTeardown ==
  /\ CGoto("bound", "marked")
  /\ discon' = [b \in Bufs |-> TRUE]
  /\ dirty' = (dirty \/ openCount > 0)
  /\ stale' = stale \cup Present
  /\ suspending' = FALSE /\ cb' = 1
  /\ UNCHANGED <<held, freed, active, busy, epVars, userVars, openCount>>

\* hostdrv_usb_suspend().
Suspend == /\ CGoto("bound", "marked")
           /\ suspending' = TRUE /\ cb' = 1
           /\ UNCHANGED <<held, freed, flagVars, epVars, userVars, fileVars>>

\* usb_stop_all_active() takes the lock.
StartStop == /\ CGoto("marked", "stopping")
             /\ held' = TRUE
             /\ UNCHANGED <<suspending, cb, freed, flagVars, epVars, userVars, fileVars>>

\* One buffer: kill its URB if ACTIVE; go on if no user has it, else let go of the
\* lock and wait.
StopBuffer ==
  /\ cpc = "stopping"
  /\ cb <= NBufs
  /\ active' = [active EXCEPT ![cb] = FALSE]
  /\ xfer' = IF active[cb] THEN Cancel(cb, "cancelled") ELSE xfer
  /\ freed' = FALSE
  /\ \/ busy[cb] /\ cpc' = "stopWait" /\ held' = FALSE /\ UNCHANGED cb
     \/ ~busy[cb] /\ cb' = cb + 1 /\ UNCHANGED <<cpc, held>>
  /\ UNCHANGED <<suspending, discon, busy, epVars, upc, ubuf, used, result, late, fileVars>>

\* The user that has the buffer cannot go on by itself.
Stuck(u) == \/ upc[u] = "crashed"
            \/ upc[u] = "awaiting" /\ xfer[u] = "flying"

CallsOn(b) == {u \in Users : upc[u] \in InTransfer /\ ubuf[u] = b}

\* wait_event_timeout(user_io_stop_q, ..., 2 s): nothing wakes the queue.  It returns
\* because no user had the buffer when it looked, or because the time is over.  Two
\* seconds are taken to be enough for a call that can go on: then somebody else has
\* the buffer by now.
StopWaitOver ==
  /\ cpc = "stopWait"
  /\ \/ ~busy[cb] /\ cpc' \in {"retest", "gaveUp"} /\ UNCHANGED late
     \/ /\ \E u \in CallsOn(cb) : Stuck(u)
        /\ cpc' = "gaveUp"
        /\ UNCHANGED late
     \/ /\ busy[cb] /\ freed
        /\ cpc' = "gaveUp"
        /\ late' = IF suspending THEN late ELSE late \cup CallsOn(cb)
  /\ UNCHANGED <<suspending, cb, freed, held, flagVars, epVars, upc, ubuf, used, xfer,
                 result, fileVars>>

\* Mutated form of the next one: after the timeout the same buffer is tried again.
Restop_SameBuffer ==
  /\ \/ CGoto("gaveUp", "stopping") /\ held' = TRUE /\ UNCHANGED cb
     \/ CGoto("retest", "stopWait") /\ busy[cb] /\ UNCHANGED <<cb, held>>
     \/ CGoto("retest", "stopping") /\ ~busy[cb] /\ cb' = cb + 1 /\ held' = TRUE
  /\ freed' = FALSE
  /\ UNCHANGED <<suspending, flagVars, epVars, userVars, fileVars>>

\* The lock again: "Timed out", so go on to the next buffer; or test this one again.
Restop ==
  /\ \/ CGoto("gaveUp", "stopping") /\ cb' = cb + 1 /\ held' = TRUE
     \/ CGoto("retest", "stopWait") /\ busy[cb] /\ UNCHANGED <<cb, held>>
     \/ CGoto("retest", "stopping") /\ ~busy[cb] /\ cb' = cb + 1 /\ held' = TRUE
  /\ freed' = FALSE
  /\ UNCHANGED <<suspending, flagVars, epVars, userVars, fileVars>>

\* The loop is over: the lock is given back, and .suspend is done.
EndStop == /\ cpc = "stopping"
           /\ cb > NBufs
           /\ held' = FALSE
           /\ cpc' = IF suspending THEN "bound" ELSE "teardown"
           /\ suspending' = FALSE
           /\ cb' = 1
           /\ UNCHANGED <<freed, flagVars, epVars, userVars, fileVars>>

\* usb_buffer_teardown()'s section: URBs freed and descriptors zeroed, buffer by buffer
\* up to one whose URB is ACTIVE, where BUG_ON strikes.
Teardown ==
  /\ cpc = "teardown"
  /\ LET Cleared == {b \in Bufs : \A c \in 1..b : ~active[c]} IN
       /\ ep' = [b \in Bufs |-> ep[b] /\ b \notin Cleared]
       /\ urb' = [b \in Bufs |-> IF b \in Cleared THEN 0 ELSE urb[b]]
       /\ discon' = [b \in Bufs |-> discon[b] /\ b \notin Cleared]
       /\ IF Cleared = Bufs THEN cpc' = "deregister" /\ UNCHANGED held
                            ELSE cpc' = "bug" /\ held' = TRUE
  /\ UNCHANGED <<suspending, cb, freed, session, active, busy, userVars, fileVars>>

\* The end of hostdrv_disconnect(): deregistered, DISCONNECTING clear.
FinishTeardown == /\ CGoto("deregister", "absent")
                  /\ discon' = [b \in Bufs |-> FALSE]
                  /\ UNCHANGED <<suspending, cb, freed, held, active, busy, epVars, userVars,
                                 fileVars>>

-----------------------------------------------------------------------------
\* What a user inside a transfer does next; its callers' part is User.
Transfer(u) ==
  \/ SwitchType(u)
  \/ Oops(u)
  \/ Submit(u)
  \/ Mark(u)
  \/ Check(u)
  \/ Unlink(u)
  \/ Await(u)
  \/ Settle(u)
  \/ ReadStatus(u)
  \/ Finish(u)

User(u) ==
  \/ Open(u)
  \/ Release(u)
  \/ Enter(u)
  \/ Acquire(u)
  \/ FoundBusy(u)
  \/ WaitUserq(u)
  \/ Interrupt(u)
  \/ Transfer(u)
  \/ GiveBack(u)

Callback ==
  \/ StartStop
  \/ StopBuffer
  \/ StopWaitOver
  \/ Restop
  \/ EndStop
  \/ Teardown
  \/ FinishTeardown

Core == Probe \/ StartTeardown \/ Suspend \/ Callback

Next == (\E u \in Users : User(u)) \/ Core

\* A transfer's steps are taken as far as its URB allows (a signal need not come), a
\* cancelled URB comes back, a callback that has begun goes on.
Proceed(u) == Transfer(u) /\ upc'[u] # "cut"
ReturnUnlinked(u) == xfer[u] = "unlinked" /\ GiveBack(u)
Fairness == /\ \A u \in Users : WF_vars(Proceed(u))
            /\ \A u \in Users : WF_vars(ReturnUnlinked(u))
            /\ WF_vars(Callback)

Spec == Init /\ [][Next]_vars /\ Fairness

-----------------------------------------------------------------------------
\* BUF_FL_USER_BUSY keeps users apart without a lock around the transfer: one buffer,
\* its URB and its DMA memory serve one call at a time, through disconnects, signals
\* and connections that come and go.
OneCallPerBuffer ==
  \A u, v \in Users :
    upc[u] \in InTransfer /\ upc[v] \in InTransfer /\ ubuf[u] = ubuf[v] => u = v

\* After a disconnect "userspace needs to close all devices and re-open" (hostdrv.c:125-127;
\* host-driver/README, EBADF): who had a device open when it came can do nothing with it
\* any more but close it, and nobody opens one before all of them have.  This is about
\* new calls: one that looked at dirty before the disconnect, and waits for the lock or
\* for the buffer since, is not kept off (:377, :387-401).
StaleFilesRefused ==
  [][ /\ \A u \in stale : upc[u] = "open" => upc'[u] \in {"open", "out"}
      /\ stale # {} => \A u \in Users : upc[u] = "out" => upc'[u] = "out" ]_vars

\* No call comes back while its URB is still in flight: the completion is on its
\* stack and the memory goes to the next call.  Nor does it come back with success
\* for an URB that has been cancelled.  Calls that took a buffer behind the
\* back of the disconnect are excepted.
TransferSettled ==
  \A u \in Users \ late :
    /\ upc[u] \in {"finishing", "open", "out"} => xfer[u] \notin Pending
    /\ upc[u] = "finishing" /\ result[u] = "ok" => xfer[u] = "back"

\* No call meets an URB that a disconnect has freed, except those the disconnect did not
\* wait for (it gave them up after two seconds, or they took a buffer behind its back),
\* and its BUG_ON(URB_ACTIVE) does not strike unless there are such calls.  A call finds
\* no URB besides when a probe has failed and left the endpoint set up (:930-950).
OnlyLateCallsCrash ==
  [][ /\ \A u \in Users : upc[u] # "crashed" /\ upc'[u] = "crashed" =>
           u \in late \/ cpc \in {"failed", "bugInProbe"}
      /\ cpc' = "bug" => late' # {} ]_vars

\* A disconnect or a suspend that has begun ends, whatever the device does and
\* although nothing wakes user_io_stop_q, unless users take a buffer anew for ever.
CallbackEnds == \/ []<>(cpc \in {"absent", "failed", "bound", "bug", "bugInProbe"})
                \/ []<>(\E u \in Users : upc[u] = "filling")

\* A disconnect brings every transfer under way to its end, including one that is
\* just being submitted, although the device never answers.
DisconnectEndsTransfers ==
  \A u \in Users :
    (upc[u] \in InTransfer \ {"crashed"} /\ cpc = "marked" /\ ~suspending)
      ~> (upc[u] \notin InTransfer \/ u \in late \/ cpc = "bug")

\* No connection finds an URB of an earlier one: BUG_ON(buf->current_urb) never strikes
\* ("If this triggers, we forgot a cleanup after a disconnect", hostdrv.c:708-709).
NoUrbLeftOver == cpc # "bugInProbe"
=============================================================================
