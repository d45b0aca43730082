----------------------------- MODULE GadgetDriver -----------------------------
(***************************************************************************)
(* One transfer buffer of the peripheral-side USB test driver              *)
(* (blts-usb/peripheral-driver/gadgetdrv.c): processes that have the       *)
(* endpoint's device open and read (or write) it, the ioctls that start    *)
(* and stop the gadget, closes, and the USB device controller.  "idle" is  *)
(* a process that is in no call.                                           *)
(*                                                                         *)
(* gadgetdrv_lock is lock.  Between two points where it is taken or given  *)
(* back a call is one action, unless something it does there can be        *)
(* disturbed by those who do without the lock.  The device controller is   *)
(* external: it gives a request back when it is done, when it is dequeued  *)
(* (from within usb_ep_dequeue(), as the musb controller does), and when   *)
(* the gadget is stopped.                                                  *)
(***************************************************************************)
EXTENDS Naturals, FiniteSets

CONSTANTS
  Users,   \* processes that open the device
  Nobody   \* the holder of a free lock

ASSUME NobodyAssumption == Nobody \notin Users

VARIABLES
  lock,      \* who holds gadgetdrv_lock, or Nobody
  started,   \* glob_priv_data->started: the gadget is registered
  ep,        \* glob_priv_data->ep[ep_num] is set
  req,       \* buf->req is set
  status,    \* buf->req->status: "ok" for 0
  usbBusy,   \* buf->usb_busy
  busy,      \* buf->busy
  queued,    \* the controller has the request
  pc,        \* pc[u]: where user u is
  woken,     \* sleepers that have been woken and have not looked yet
  claimed,   \* for the properties: calls that have set busy and not cleared it
  whose,     \* for the properties: whose transfer the request was queued for last
  disturbed, \* for the properties: a lock or a claim was given back by somebody else
  cutOff     \* for the properties: calls during which the endpoint was taken away

bufVars == <<req, status, usbBusy, queued, whose>>
gadgetVars == <<started, ep>>
specVars == <<disturbed, cutOff>>
vars == <<lock, gadgetVars, bufVars, busy, pc, woken, claimed, specVars>>

Labels == {"idle", "locking", "waiting", "asleep", "setup", "queueing", "polling",
           "usbWaiting", "usbAsleep", "dequeuing", "relocking", "settling", "ending",
           "unlocking", "clearing", "waking", "crashed"}

TypeOK ==
  /\ lock \in Users \cup {Nobody} /\ whose \in Users \cup {Nobody}
  /\ started \in BOOLEAN /\ ep \in BOOLEAN /\ req \in BOOLEAN /\ usbBusy \in BOOLEAN
  /\ busy \in BOOLEAN /\ queued \in BOOLEAN /\ disturbed \in BOOLEAN
  /\ status \in {"ok", "error"}
  /\ queued => req
  /\ pc \in [Users -> Labels]
  /\ woken \subseteq {u \in Users : pc[u] \in {"asleep", "usbAsleep"}}
  /\ claimed \subseteq Users /\ cutOff \subseteq Users

\* The module is loaded: everything zeroed.
Init ==
  /\ lock = Nobody /\ whose = Nobody
  /\ started = FALSE /\ ep = FALSE /\ req = FALSE /\ usbBusy = FALSE
  /\ busy = FALSE /\ queued = FALSE /\ status = "ok"
  /\ pc = [u \in Users |-> "idle"]
  /\ woken = {} /\ claimed = {} /\ cutOff = {}
  /\ disturbed = FALSE

Goto(u, from, to) == pc[u] = from /\ pc' = [pc EXCEPT ![u] = to]
At(l) == {u \in Users : pc[u] = l}

\* For the properties: who returns was not in a call that is cut off any more.
ForgetReturned == cutOff' = {u \in cutOff : pc'[u] # "idle"}

\* Mutated form of the next one: usbq is not woken.
GiveBack_Silent(s) == /\ queued' = FALSE
                      /\ status' = s
                      /\ usbBusy' = FALSE
                      /\ UNCHANGED woken

\* ep_req_complete(): usb_busy is cleared and usbq woken.
GiveBack(s) == /\ queued' = FALSE
               /\ status' = s
               /\ usbBusy' = FALSE
               /\ woken' = woken \cup At("usbAsleep")

\* usb_ep_dequeue(): a request the controller does not have is refused.
Dequeue == IF queued THEN GiveBack("error")
           ELSE UNCHANGED <<queued, status, usbBusy, woken>>

-----------------------------------------------------------------------------
\* gadgetdrv_read()/gadgetdrv_write(): the endpoint is looked at without the lock.
\* (Otherwise the call fails at once with ENOTCONN.)
Enter(u) == /\ Goto(u, "idle", "locking")
            /\ ep
            /\ UNCHANGED <<lock, gadgetVars, bufVars, busy, woken, claimed, specVars>>

\* The lock is taken and the buffer is idle.
TakeIdle(u) == /\ Goto(u, "locking", "setup")
               /\ lock = Nobody
               /\ ~busy
               /\ lock' = u
               /\ UNCHANGED <<gadgetVars, bufVars, busy, woken, claimed, specVars>>

\* The lock is taken and the buffer is busy: give the lock back, and give up
\* (O_NONBLOCK) or wait on userq.
FindBusy(u) == /\ \/ Goto(u, "locking", "idle")
                  \/ Goto(u, "locking", "waiting")
               /\ lock = Nobody
               /\ busy
               /\ ForgetReturned
               /\ UNCHANGED <<lock, gadgetVars, bufVars, busy, woken, claimed, disturbed>>

\* wait_event_interruptible(userq): go on if the buffer is idle, else sleep.
WaitUserq(u) == /\ \/ Goto(u, "waiting", "asleep") /\ busy
                   \/ Goto(u, "waiting", "locking") /\ ~busy
                /\ UNCHANGED <<lock, gadgetVars, bufVars, busy, woken, claimed, specVars>>

\* A sleeper that has been woken looks again.
WakeUp(u) == /\ u \in woken
             /\ \/ Goto(u, "asleep", "waiting")
                \/ Goto(u, "usbAsleep", "usbWaiting")
             /\ woken' = woken \ {u}
             /\ UNCHANGED <<lock, gadgetVars, bufVars, busy, claimed, specVars>>

\* A signal ends the wait for the lock or on userq: ERESTARTSYS.
Interrupt(u) == /\ \/ Goto(u, "locking", "idle")
                   \/ Goto(u, "asleep", "idle")
                /\ woken' = woken \ {u}
                /\ ForgetReturned
                /\ UNCHANGED <<lock, gadgetVars, bufVars, busy, claimed, disturbed>>

\* Mutated form of the next one: a request that was freed is not allocated again.
Setup_NoAlloc(u) ==
  /\ Goto(u, "setup", "queueing")
  /\ UNCHANGED <<lock, gadgetVars, bufVars, busy, woken, claimed, specVars>>

\* The request is allocated if need be (ENOMEM if there is no endpoint any more, too);
\* a write copies its data in (EFAULT).
Setup(u) == /\ \/ Goto(u, "setup", "queueing") /\ (req \/ ep) /\ req' = TRUE
               \/ Goto(u, "setup", "ending") /\ req' \in {req, req \/ ep}
            /\ UNCHANGED <<lock, gadgetVars, status, usbBusy, queued, whose, busy, woken, claimed,
                           specVars>>

\* A null pointer is followed: the request, or the endpoint, with the flags set; or the
\* endpoint, to dequeue.
OopsQueueing(u) == /\ Goto(u, "queueing", "crashed")
                   /\ ~(req /\ ep)
                   /\ busy' = TRUE
                   /\ claimed' = claimed \cup {u}
                   /\ usbBusy' = TRUE
                   /\ status' = IF req THEN "ok" ELSE status
                   /\ UNCHANGED <<lock, gadgetVars, req, queued, whose, woken, specVars>>

OopsDequeuing(u) == /\ Goto(u, "dequeuing", "crashed")
                    /\ ~ep
                    /\ UNCHANGED <<lock, gadgetVars, bufVars, busy, woken, claimed, specVars>>

\* Mutated form of the next one: the call does not mark the buffer busy.
Queue_NotBusy(u) ==
  /\ req /\ ep
  /\ claimed' = claimed \cup {u}
  /\ usbBusy' = TRUE
  /\ status' = "ok"
  /\ \/ Goto(u, "queueing", "polling") /\ started /\ queued' = TRUE /\ whose' = u
     \/ Goto(u, "queueing", "ending") /\ UNCHANGED <<queued, whose>>
  /\ UNCHANGED <<lock, gadgetVars, req, busy, woken, specVars>>

\* usb_ep_queue_and_wait(): the flags are set and the request is queued, or the
\* controller refuses it, as it does while the endpoint is not enabled: usb_busy stays set.
Queue(u) ==
  /\ req /\ ep
  /\ busy' = TRUE
  /\ claimed' = claimed \cup {u}
  /\ usbBusy' = TRUE
  /\ status' = "ok"
  /\ \/ Goto(u, "queueing", "polling") /\ started /\ ~queued /\ queued' = TRUE /\ whose' = u
     \/ Goto(u, "queueing", "ending") /\ UNCHANGED <<queued, whose>>
  /\ UNCHANGED <<lock, gadgetVars, req, woken, specVars>>

\* Mutated form of the next one: usb_busy is not waited for.
Poll_Not(u) ==
  /\ Goto(u, "polling", "settling")
  /\ UNCHANGED <<lock, gadgetVars, bufVars, busy, woken, claimed, specVars>>

\* while (buf->usb_busy): give the lock back and wait on usbq, or go on with it.
Poll(u) == /\ \/ Goto(u, "polling", "usbWaiting") /\ usbBusy /\ lock' = Nobody
              \/ Goto(u, "polling", "settling") /\ ~usbBusy /\ UNCHANGED lock
           /\ UNCHANGED <<gadgetVars, bufVars, busy, woken, claimed, specVars>>

\* wait_event_interruptible(usbq).
WaitUsbq(u) == /\ \/ Goto(u, "usbWaiting", "usbAsleep") /\ usbBusy
                  \/ Goto(u, "usbWaiting", "relocking") /\ ~usbBusy
               /\ UNCHANGED <<lock, gadgetVars, bufVars, busy, woken, claimed, specVars>>

\* A signal ends that wait.
SignalUsb(u) == /\ Goto(u, "usbAsleep", "dequeuing")
                /\ woken' = woken \ {u}
                /\ UNCHANGED <<lock, gadgetVars, bufVars, busy, claimed, specVars>>

\* The request is dequeued, without the lock: EFAULT.
GiveUp(u) == /\ Goto(u, "dequeuing", "ending")
             /\ ep
             /\ Dequeue
             /\ UNCHANGED <<lock, gadgetVars, req, whose, busy, claimed, specVars>>

\* The lock again, or a signal: ERESTARTSYS without the lock.
Relock(u) == /\ Goto(u, "relocking", "polling")
             /\ lock = Nobody
             /\ lock' = u
             /\ UNCHANGED <<gadgetVars, bufVars, busy, woken, claimed, specVars>>

SignalLock(u) == /\ Goto(u, "relocking", "ending")
                 /\ UNCHANGED <<lock, gadgetVars, bufVars, busy, woken, claimed, specVars>>

\* Under the lock: a request that is gone is ECONNRESET, one that has failed is freed,
\* of one that has succeeded the data are copied out.
Settle(u) == /\ Goto(u, "settling", "ending")
             /\ req' = (req /\ status = "ok")
             /\ queued' = (queued /\ req')
             /\ UNCHANGED <<lock, gadgetVars, status, usbBusy, whose, busy, woken, claimed,
                            specVars>>

\* done: the lock is given back if we have it; mutex_is_locked() is all that is asked.
End(u) == /\ \/ Goto(u, "ending", "clearing") /\ lock \in {u, Nobody} /\ lock' = Nobody
             \/ Goto(u, "ending", "unlocking") /\ lock \notin {u, Nobody} /\ UNCHANGED lock
          /\ UNCHANGED <<gadgetVars, bufVars, busy, woken, claimed, specVars>>

\* mutex_unlock(), whoever holds it by now.
Unlock(u) == /\ Goto(u, "unlocking", "clearing")
             /\ lock' = Nobody
             /\ disturbed' = TRUE
             /\ UNCHANGED <<gadgetVars, bufVars, busy, woken, claimed, cutOff>>

\* busy = 0, without the lock, whoever has set it.
Clear(u) == /\ Goto(u, "clearing", "waking")
            /\ busy' = FALSE
            /\ claimed' = claimed \ {u}
            /\ disturbed' = (disturbed \/ claimed \ {u} # {})
            /\ whose' = Nobody
            /\ UNCHANGED <<lock, gadgetVars, req, status, usbBusy, queued, woken, cutOff>>

\* Mutated form of the next one: userq is not woken.
Wake_Forgotten(u) ==
  /\ Goto(u, "waking", "idle")
  /\ ForgetReturned
  /\ UNCHANGED <<lock, gadgetVars, bufVars, busy, woken, claimed, disturbed>>

\* wake_up_interruptible(userq), and the call returns.
Wake(u) == /\ Goto(u, "waking", "idle")
           /\ woken' = woken \cup At("asleep")
           /\ ForgetReturned
           /\ UNCHANGED <<lock, gadgetVars, bufVars, busy, claimed, disturbed>>

-----------------------------------------------------------------------------
\* gadgetdrv_release(), the last close of one of the files (which is opened again:
\* gadgetdrv_open() changes nothing): whatever request there is, is dequeued and freed.
Release(u) ==
  /\ pc[u] = "idle"
  /\ lock = Nobody
  /\ req /\ usbBusy => ep
  /\ IF req /\ usbBusy THEN Dequeue ELSE UNCHANGED <<queued, status, usbBusy, woken>>
  /\ req' = FALSE
  /\ UNCHANGED <<lock, gadgetVars, whose, busy, pc, claimed, specVars>>

\* The endpoint is gone, and usb_busy says that there is something to dequeue: a null
\* pointer is followed, with the lock.
OopsRelease(u) == /\ Goto(u, "idle", "crashed")
                  /\ lock = Nobody
                  /\ req /\ usbBusy /\ ~ep
                  /\ lock' = u
                  /\ UNCHANGED <<gadgetVars, bufVars, busy, woken, claimed, specVars>>

\* For the properties: an endpoint that goes is taken away from the calls under way.
CutCallsOff == cutOff' = IF ep' THEN {}
                         ELSE IF ep THEN {u \in Users : pc[u] # "idle"} ELSE cutOff

\* GADGETDRV_IOCSTART: the gadget is registered and the endpoint configured; or that fails,
\* and nothing unbinds the endpoints: this one may be left set, or not.
Start(u) == /\ pc[u] = "idle"
            /\ lock = Nobody
            /\ ~started
            /\ \/ started' = TRUE /\ ep' = TRUE
               \/ started' = FALSE /\ ep' \in BOOLEAN
            /\ CutCallsOff
            /\ UNCHANGED <<lock, bufVars, busy, pc, woken, claimed, disturbed>>

\* GADGETDRV_IOCSTOP: the controller gives back what it has, the endpoint is gone.
Stop(u) == /\ pc[u] = "idle"
           /\ lock = Nobody
           /\ started
           /\ started' = FALSE
           /\ ep' = FALSE
           /\ CutCallsOff
           /\ Dequeue
           /\ UNCHANGED <<lock, req, whose, busy, pc, claimed, disturbed>>

\* The controller is done with the request.
Complete == /\ queued
            /\ \E s \in {"ok", "error"} : GiveBack(s)
            /\ UNCHANGED <<lock, gadgetVars, req, whose, busy, pc, claimed, specVars>>

-----------------------------------------------------------------------------
\* Steps that take the lock, and those a call goes on with by itself.
TakeLock(u) ==
  \/ TakeIdle(u)
  \/ FindBusy(u)
  \/ Relock(u)

Proceed(u) ==
  \/ WaitUserq(u)
  \/ WakeUp(u)
  \/ Setup(u)
  \/ OopsQueueing(u)
  \/ OopsDequeuing(u)
  \/ Queue(u)
  \/ Poll(u)
  \/ WaitUsbq(u)
  \/ GiveUp(u)
  \/ Settle(u)
  \/ End(u)
  \/ Unlock(u)
  \/ Clear(u)
  \/ Wake(u)

\* What a process decides to do, and the signals it gets.
Decide(u) ==
  \/ Enter(u)
  \/ Interrupt(u)
  \/ SignalUsb(u)
  \/ SignalLock(u)
  \/ Release(u)
  \/ OopsRelease(u)
  \/ Start(u)
  \/ Stop(u)

Next == (\E u \in Users : TakeLock(u) \/ Proceed(u) \/ Decide(u)) \/ Complete

\* A call goes on, a mutex serves its waiters in turn (the strong part); the host need
\* not let a request complete.
Fairness == \A u \in Users : SF_vars(TakeLock(u) \/ Proceed(u))

Spec == Init /\ [][Next]_vars /\ Fairness

-----------------------------------------------------------------------------
\* busy keeps other calls off the buffer although the lock is given back for the time
\* of the transfer.  Only a call that gives back what is not its own can break that:
\* gadgetdrv.c:311-314 after a signal, and after ENOMEM or EFAULT before the transfer.
OneTransfer == ~disturbed => /\ Cardinality(claimed) <= 1
                             /\ busy <=> claimed # {}

\* A call looks at the outcome of its own transfer and at memory the controller is
\* done with, also when another close has taken the request away meanwhile.
SettlesOwn == \A u \in At("settling") : ~disturbed /\ req => whose = u /\ ~queued

\* Whoever sleeps will be woken: busy is cleared before userq is woken, and a sleeper
\* on usbq has a request in the controller.
NoLostWakeup ==
  ~disturbed =>
    /\ \A u \in At("asleep") \ woken : busy \/ At("waking") # {}
    /\ \A u \in At("usbAsleep") \ woken : queued

\* A null pointer is followed in three cases only.  A call misses the endpoint: STOP, or a
\* START that failed, took it away while that very call was under way.  A call misses the
\* request it has just allocated: somebody had given back a lock that was not its own.  A
\* close misses the endpoint: it goes by usb_busy, which a refused request has left set,
\* and no request is in the controller.
CrashesExplained ==
  [][\A u \in Users :
       pc[u] # "crashed" /\ pc'[u] = "crashed" =>
         \/ pc[u] # "idle" /\ ~ep /\ u \in cutOff
         \/ pc[u] = "queueing" /\ ~req /\ disturbed
         \/ pc[u] = "idle" /\ ~started /\ ~ep /\ ~queued]_vars

\* A call whose transfer is over, completed, dequeued by another close or ended by a
\* stop, comes back.
EndedTransfersReturn ==
  \A u \in Users :
    (u \in claimed /\ ~queued) ~> (u \notin claimed \/ At("crashed") # {} \/ disturbed)
=============================================================================
