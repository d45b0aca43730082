-------------------------- MODULE GadgetDriverProofs --------------------------
(***************************************************************************)
(* Proofs about GadgetDriver, for any number of processes.                 *)
(*                                                                         *)
(* Until somebody gives back what is not its own (disturbed), whoever is   *)
(* between taking the lock and giving it back has it, so the buffer has    *)
(* been idle since a call that is about to queue found it so (Locked), one *)
(* call at most has a claim on it (Claimed), and the request in the        *)
(* controller is that call's own (Own).                                    *)
(***************************************************************************)
EXTENDS GadgetDriver, FiniteSetTheorems, TLAPS

\* TypeOK in parts: the flags, and what is about the calls.
FlagTyping == /\ started \in BOOLEAN /\ ep \in BOOLEAN /\ req \in BOOLEAN
              /\ usbBusy \in BOOLEAN /\ busy \in BOOLEAN /\ queued \in BOOLEAN
              /\ disturbed \in BOOLEAN
Sleepers == {u \in Users : pc[u] \in {"asleep", "usbAsleep"}}
CallTyping == /\ lock \in Users \cup {Nobody} /\ whose \in Users \cup {Nobody}
              /\ status \in {"ok", "error"}
              /\ pc \in [Users -> Labels]
              /\ woken \subseteq Sleepers
              /\ claimed \subseteq Users /\ cutOff \subseteq Users

\* A request in the controller is there, and marked.
Queued == queued => usbBusy /\ req

\* The places of a call that hold the lock, unless somebody else has given it back.
Locked == \A u \in Users : pc[u] \in {"setup", "queueing", "polling", "settling"} => lock = u

\* One claim, and none while a call that found the buffer idle is about to make its own.
Claimed == /\ \A u, v \in claimed : u = v
           /\ busy <=> claimed # {}
           /\ \A u \in Users : pc[u] \in {"setup", "queueing"} => claimed = {}
           /\ \A u \in Users : pc[u] = "queueing" => req

\* From queueing a request until it has been settled, a call has its claim; and while
\* usbBusy says so its request is in the controller.
Using == {"polling", "usbWaiting", "usbAsleep", "dequeuing", "relocking", "settling"}
Own == \A u \in Users :
         /\ pc[u] \in Using => u \in claimed /\ whose = u /\ (usbBusy => queued)
         /\ pc[u] = "settling" => ~queued
         /\ pc[u] = "usbAsleep" /\ u \notin woken => queued

\* Whoever sleeps for the buffer is woken after busy has been cleared.
Woken == \A u \in At("asleep") \ woken : busy \/ At("waking") # {}

\* The endpoint is there while the gadget is registered, and only then has the controller
\* a request; a call has begun with it there, and it is remembered of whom it is taken away.
Standing == /\ started => ep
            /\ queued => started
            /\ \A u \in Users : pc[u] \notin {"idle", "crashed"} /\ u \notin cutOff => ep

Undisturbed == Locked /\ Claimed /\ Own

IInv == /\ FlagTyping /\ CallTyping
        /\ Queued
        /\ ~disturbed => Undisturbed
        /\ Woken
        /\ Standing

-----------------------------------------------------------------------------
\* What a process does.
Act(u) == TakeLock(u) \/ Proceed(u) \/ Decide(u)

LEMMA InitIInv == Init => IInv
  <1>. SUFFICES ASSUME Init PROVE IInv
    OBVIOUS
  <1>1. FlagTyping
    BY Zenon DEF Init, FlagTyping
  <1>2. CallTyping
    BY DEF Init, CallTyping, Labels
  <1>3. Queued /\ Standing
    BY DEF Init, Queued, Standing
  <1>4. pc = [u \in Users |-> "idle"] /\ claimed = {} /\ busy = FALSE
    BY DEF Init
  <1>5. Locked /\ Claimed /\ Own /\ Woken
    BY <1>4 DEF Locked, Claimed, Own, Using, Woken, At
  <1>. QED
    BY <1>1, <1>2, <1>3, <1>5 DEF IInv, Undisturbed

\* The flags stay Boolean.
LEMMA FlagTypingStep ==
  ASSUME FlagTyping, (\E u \in Users : Act(u)) \/ Complete
  PROVE  FlagTyping'
  <1>. USE DEF FlagTyping
  <1>1. ASSUME NEW u \in Users, Act(u)
        PROVE  FlagTyping'
    <2>. USE DEF Act, TakeLock, Proceed, Decide, GiveBack, Dequeue, bufVars, gadgetVars,
                 specVars
    <2>1. CASE Enter(u)
      BY <2>1, Zenon DEF Enter
    <2>2. CASE TakeIdle(u)
      BY <2>2, Zenon DEF TakeIdle
    <2>3. CASE FindBusy(u)
      BY <2>3, Zenon DEF FindBusy
    <2>4. CASE WaitUserq(u)
      BY <2>4, Zenon DEF WaitUserq
    <2>5. CASE WakeUp(u)
      BY <2>5, Zenon DEF WakeUp
    <2>6. CASE Interrupt(u)
      BY <2>6, Zenon DEF Interrupt
    <2>7. CASE Setup(u)
      BY <2>7, Zenon DEF Setup
    <2>8. CASE OopsQueueing(u)
      BY <2>8, Zenon DEF OopsQueueing
    <2>24. CASE OopsDequeuing(u)
      BY <2>24, Zenon DEF OopsDequeuing
    <2>25. CASE OopsRelease(u)
      BY <2>25, Zenon DEF OopsRelease
    <2>9. CASE Queue(u)
      BY <2>9, Zenon DEF Queue
    <2>10. CASE Poll(u)
      BY <2>10, Zenon DEF Poll
    <2>11. CASE WaitUsbq(u)
      BY <2>11, Zenon DEF WaitUsbq
    <2>12. CASE SignalUsb(u)
      BY <2>12, Zenon DEF SignalUsb
    <2>13. CASE GiveUp(u)
      BY <2>13, Zenon DEF GiveUp
    <2>14. CASE Relock(u)
      BY <2>14, Zenon DEF Relock
    <2>15. CASE SignalLock(u)
      BY <2>15, Zenon DEF SignalLock
    <2>16. CASE Settle(u)
      BY <2>16, Zenon DEF Settle
    <2>17. CASE End(u)
      BY <2>17, Zenon DEF End
    <2>18. CASE Unlock(u)
      BY <2>18, Zenon DEF Unlock
    <2>19. CASE Clear(u)
      BY <2>19, Zenon DEF Clear
    <2>20. CASE Wake(u)
      BY <2>20, Zenon DEF Wake
    <2>21. CASE Release(u)
      BY <2>21, Zenon DEF Release
    <2>22. CASE Start(u)
      BY <2>22, Zenon DEF Start
    <2>23. CASE Stop(u)
      BY <2>23, Zenon DEF Stop
    <2>. QED
      BY <1>1, <2>1, <2>2, <2>3, <2>4, <2>5, <2>6, <2>7, <2>8, <2>9, <2>10, <2>11, <2>12,
             <2>13, <2>14, <2>15, <2>16, <2>17, <2>18, <2>19, <2>20, <2>21, <2>22, <2>23,
             <2>24, <2>25,
             Zenon
  <1>2. CASE Complete
    BY <1>2, Zenon DEF Complete, GiveBack, gadgetVars, specVars
  <1>. QED
    BY <1>1, <1>2

\* The calls stay where a call can be; who has been woken is still asleep.
LEMMA CallTypingStep ==
  ASSUME CallTyping, (\E u \in Users : Act(u)) \/ Complete
  PROVE  CallTyping'
  <1>. USE DEF CallTyping, Sleepers, Labels, At
  <1>1. ASSUME NEW u \in Users, Act(u)
        PROVE  CallTyping'
    <2>. USE DEF Goto, GiveBack, Dequeue, ForgetReturned, CutCallsOff, bufVars, specVars
    <2>1. CASE Enter(u)
      BY <2>1 DEF Enter
    <2>2. CASE TakeIdle(u)
      BY <2>2 DEF TakeIdle
    <2>3. CASE FindBusy(u)
      BY <2>3 DEF FindBusy
    <2>4. CASE WaitUserq(u)
      BY <2>4 DEF WaitUserq
    <2>5. CASE WakeUp(u)
      BY <2>5 DEF WakeUp
    <2>6. CASE Interrupt(u)
      BY <2>6 DEF Interrupt
    <2>7. CASE Setup(u)
      BY <2>7 DEF Setup
    <2>8. CASE OopsQueueing(u)
      BY <2>8 DEF OopsQueueing
    <2>24. CASE OopsDequeuing(u)
      BY <2>24 DEF OopsDequeuing
    <2>25. CASE OopsRelease(u)
      BY <2>25 DEF OopsRelease
    <2>9. CASE Queue(u)
      BY <2>9 DEF Queue
    <2>10. CASE Poll(u)
      BY <2>10 DEF Poll
    <2>11. CASE WaitUsbq(u)
      BY <2>11 DEF WaitUsbq
    <2>12. CASE SignalUsb(u)
      BY <2>12 DEF SignalUsb
    <2>13. CASE GiveUp(u)
      BY <2>13 DEF GiveUp
    <2>14. CASE Relock(u)
      BY <2>14 DEF Relock
    <2>15. CASE SignalLock(u)
      BY <2>15 DEF SignalLock
    <2>16. CASE Settle(u)
      BY <2>16 DEF Settle
    <2>17. CASE End(u)
      BY <2>17 DEF End
    <2>18. CASE Unlock(u)
      BY <2>18 DEF Unlock
    <2>19. CASE Clear(u)
      BY <2>19 DEF Clear
    <2>20. CASE Wake(u)
      BY <2>20 DEF Wake
    <2>21. CASE Release(u)
      BY <2>21 DEF Release
    <2>22. CASE Start(u)
      BY <2>22 DEF Start
    <2>23. CASE Stop(u)
      BY <2>23 DEF Stop
    <2>. QED
      BY <1>1, <2>1, <2>2, <2>3, <2>4, <2>5, <2>6, <2>7, <2>8, <2>9, <2>10, <2>11, <2>12,
             <2>13, <2>14, <2>15, <2>16, <2>17, <2>18, <2>19, <2>20, <2>21, <2>22, <2>23,
             <2>24, <2>25,
             Zenon
      DEF Act, TakeLock, Proceed, Decide
  <1>2. CASE Complete
    BY <1>2 DEF Complete, GiveBack, specVars
  <1>. QED
    BY <1>1, <1>2

\* The request leaves the controller before it is freed.
LEMMA QueuedStep ==
  ASSUME Queued, NEW u \in Users, Act(u)
  PROVE  Queued'
  <1>. USE DEF Queued, GiveBack, Dequeue, bufVars
  <1>1. CASE Enter(u)
    BY Zenon, <1>1 DEF Enter
  <1>2. CASE TakeIdle(u)
    BY Zenon, <1>2 DEF TakeIdle
  <1>3. CASE FindBusy(u)
    BY Zenon, <1>3 DEF FindBusy
  <1>4. CASE WaitUserq(u)
    BY Zenon, <1>4 DEF WaitUserq
  <1>5. CASE WakeUp(u)
    BY Zenon, <1>5 DEF WakeUp
  <1>6. CASE Interrupt(u)
    BY Zenon, <1>6 DEF Interrupt
  <1>7. CASE Setup(u)
    BY Zenon, <1>7 DEF Setup
  <1>8. CASE OopsQueueing(u)
    BY Zenon, <1>8 DEF OopsQueueing
  <1>24. CASE OopsDequeuing(u)
    BY Zenon, <1>24 DEF OopsDequeuing
  <1>25. CASE OopsRelease(u)
    BY Zenon, <1>25 DEF OopsRelease
  <1>9. CASE Queue(u)
    BY Zenon, <1>9 DEF Queue
  <1>10. CASE Poll(u)
    BY Zenon, <1>10 DEF Poll
  <1>11. CASE WaitUsbq(u)
    BY Zenon, <1>11 DEF WaitUsbq
  <1>12. CASE SignalUsb(u)
    BY Zenon, <1>12 DEF SignalUsb
  <1>13. CASE GiveUp(u)
    BY Zenon, <1>13 DEF GiveUp
  <1>14. CASE Relock(u)
    BY Zenon, <1>14 DEF Relock
  <1>15. CASE SignalLock(u)
    BY Zenon, <1>15 DEF SignalLock
  <1>16. CASE Settle(u)
    BY Zenon, <1>16 DEF Settle
  <1>17. CASE End(u)
    BY Zenon, <1>17 DEF End
  <1>18. CASE Unlock(u)
    BY Zenon, <1>18 DEF Unlock
  <1>19. CASE Clear(u)
    BY Zenon, <1>19 DEF Clear
  <1>20. CASE Wake(u)
    BY Zenon, <1>20 DEF Wake
  <1>21. CASE Release(u)
    BY Zenon, <1>21 DEF Release
  <1>22. CASE Start(u)
    BY Zenon, <1>22 DEF Start
  <1>23. CASE Stop(u)
    BY Zenon, <1>23 DEF Stop
  <1>. QED
    BY <1>1, <1>2, <1>3, <1>4, <1>5, <1>6, <1>7, <1>8, <1>9, <1>10, <1>11, <1>12, <1>13,
           <1>14, <1>15, <1>16, <1>17, <1>18, <1>19, <1>20, <1>21, <1>22, <1>23,
           <1>24, <1>25, Zenon DEF
           Act, TakeLock, Proceed, Decide

\* The lock is given back by its holder.
LEMMA LockedStep ==
  ASSUME CallTyping, Locked, NEW u \in Users, Act(u), ~disturbed'
  PROVE  Locked'
  <1>. USE NobodyAssumption DEF CallTyping, Locked, Goto
  <1>1. CASE Enter(u)
    BY <1>1 DEF Enter
  <1>2. CASE TakeIdle(u)
    BY <1>2 DEF TakeIdle
  <1>3. CASE FindBusy(u)
    BY <1>3 DEF FindBusy
  <1>4. CASE WaitUserq(u)
    BY <1>4 DEF WaitUserq
  <1>5. CASE WakeUp(u)
    BY <1>5 DEF WakeUp
  <1>6. CASE Interrupt(u)
    BY <1>6 DEF Interrupt
  <1>7. CASE Setup(u)
    BY <1>7 DEF Setup
  <1>8. CASE OopsQueueing(u)
    BY <1>8 DEF OopsQueueing
  <1>24. CASE OopsDequeuing(u)
    BY <1>24 DEF OopsDequeuing
  <1>25. CASE OopsRelease(u)
    BY <1>25 DEF OopsRelease
  <1>9. CASE Queue(u)
    BY <1>9 DEF Queue
  <1>10. CASE Poll(u)
    BY <1>10 DEF Poll
  <1>11. CASE WaitUsbq(u)
    BY <1>11 DEF WaitUsbq
  <1>12. CASE SignalUsb(u)
    BY <1>12 DEF SignalUsb
  <1>13. CASE GiveUp(u)
    BY <1>13 DEF GiveUp
  <1>14. CASE Relock(u)
    BY <1>14 DEF Relock
  <1>15. CASE SignalLock(u)
    BY <1>15 DEF SignalLock
  <1>16. CASE Settle(u)
    BY <1>16 DEF Settle
  <1>17. CASE End(u)
    BY <1>17 DEF End
  <1>18. CASE Unlock(u)
    BY <1>18 DEF Unlock
  <1>19. CASE Clear(u)
    BY <1>19 DEF Clear
  <1>20. CASE Wake(u)
    BY <1>20 DEF Wake
  <1>21. CASE Release(u)
    BY <1>21 DEF Release
  <1>22. CASE Start(u)
    BY <1>22 DEF Start
  <1>23. CASE Stop(u)
    BY <1>23 DEF Stop
  <1>. QED
    BY <1>1, <1>2, <1>3, <1>4, <1>5, <1>6, <1>7, <1>8, <1>9, <1>10, <1>11, <1>12, <1>13,
           <1>14, <1>15, <1>16, <1>17, <1>18, <1>19, <1>20, <1>21, <1>22, <1>23,
           <1>24, <1>25, Zenon DEF
           Act, TakeLock, Proceed, Decide

\* A claim is made by one who has had the lock since it found the buffer idle.
LEMMA ClaimedStep ==
  ASSUME CallTyping, Locked, Claimed, Own, NEW u \in Users, Act(u), ~disturbed'
  PROVE  Claimed'
  <1>. USE DEF CallTyping, Locked, Claimed, Goto, bufVars
  <1>1. CASE Enter(u)
    BY <1>1 DEF Enter
  <1>2. CASE TakeIdle(u)
    BY <1>2 DEF TakeIdle
  <1>3. CASE FindBusy(u)
    BY <1>3 DEF FindBusy
  <1>4. CASE WaitUserq(u)
    BY <1>4 DEF WaitUserq
  <1>5. CASE WakeUp(u)
    BY <1>5 DEF WakeUp
  <1>6. CASE Interrupt(u)
    BY <1>6 DEF Interrupt
  <1>7. CASE Setup(u)
    BY <1>7 DEF Setup
  <1>8. CASE OopsQueueing(u)
    BY <1>8 DEF OopsQueueing
  <1>24. CASE OopsDequeuing(u)
    BY <1>24 DEF OopsDequeuing
  <1>25. CASE OopsRelease(u)
    BY <1>25 DEF OopsRelease
  <1>9. CASE Queue(u)
    BY <1>9 DEF Queue
  <1>10. CASE Poll(u)
    BY <1>10 DEF Poll
  <1>11. CASE WaitUsbq(u)
    BY <1>11 DEF WaitUsbq
  <1>12. CASE SignalUsb(u)
    BY <1>12 DEF SignalUsb
  <1>13. CASE GiveUp(u)
    BY <1>13 DEF GiveUp
  <1>14. CASE Relock(u)
    BY <1>14 DEF Relock
  <1>15. CASE SignalLock(u)
    BY <1>15 DEF SignalLock
  <1>16. CASE Settle(u)
    BY <1>16 DEF Settle
  <1>17. CASE End(u)
    BY <1>17 DEF End
  <1>18. CASE Unlock(u)
    BY <1>18 DEF Unlock
  <1>19. CASE Clear(u)
    BY <1>19 DEF Clear
  <1>20. CASE Wake(u)
    BY <1>20 DEF Wake
  <1>21. CASE Release(u)
    BY <1>21, NobodyAssumption DEF Release
  <1>22. CASE Start(u)
    BY <1>22 DEF Start
  <1>23. CASE Stop(u)
    BY <1>23 DEF Stop
  <1>. QED
    BY <1>1, <1>2, <1>3, <1>4, <1>5, <1>6, <1>7, <1>8, <1>9, <1>10, <1>11, <1>12, <1>13,
           <1>14, <1>15, <1>16, <1>17, <1>18, <1>19, <1>20, <1>21, <1>22, <1>23,
           <1>24, <1>25, Zenon DEF
           Act, TakeLock, Proceed, Decide

\* What a call uses stays its own.
LEMMA OwnStep ==
  ASSUME CallTyping, Queued, Locked, Claimed, Own, NEW u \in Users, Act(u), ~disturbed'
  PROVE  Own'
  <1>. USE DEF CallTyping, Locked, Claimed, Own, Using, Goto, GiveBack, Dequeue, At, bufVars
  <1>1. CASE Enter(u)
    BY <1>1 DEF Enter
  <1>2. CASE TakeIdle(u)
    BY <1>2 DEF TakeIdle
  <1>3. CASE FindBusy(u)
    BY <1>3 DEF FindBusy
  <1>4. CASE WaitUserq(u)
    BY <1>4 DEF WaitUserq
  <1>5. CASE WakeUp(u)
    BY <1>5 DEF WakeUp
  <1>6. CASE Interrupt(u)
    BY <1>6 DEF Interrupt
  <1>7. CASE Setup(u)
    BY <1>7 DEF Setup
  <1>8. CASE OopsQueueing(u)
    BY <1>8 DEF OopsQueueing
  <1>24. CASE OopsDequeuing(u)
    BY <1>24 DEF OopsDequeuing
  <1>25. CASE OopsRelease(u)
    BY <1>25 DEF OopsRelease
  <1>9. CASE Queue(u)
    BY <1>9 DEF Queue
  <1>10. CASE Poll(u)
    BY <1>10 DEF Poll, Queued
  <1>11. CASE WaitUsbq(u)
    BY <1>11 DEF WaitUsbq
  <1>12. CASE SignalUsb(u)
    BY <1>12 DEF SignalUsb
  <1>13. CASE GiveUp(u)
    BY <1>13 DEF GiveUp
  <1>14. CASE Relock(u)
    BY <1>14 DEF Relock
  <1>15. CASE SignalLock(u)
    BY <1>15 DEF SignalLock
  <1>16. CASE Settle(u)
    BY <1>16 DEF Settle
  <1>17. CASE End(u)
    BY <1>17 DEF End
  <1>18. CASE Unlock(u)
    BY <1>18 DEF Unlock
  <1>19. CASE Clear(u)
    BY <1>19 DEF Clear
  <1>20. CASE Wake(u)
    BY <1>20 DEF Wake
  <1>21. CASE Release(u)
    BY <1>21 DEF Release
  <1>22. CASE Start(u)
    BY <1>22 DEF Start
  <1>23. CASE Stop(u)
    BY <1>23 DEF Stop
  <1>. QED
    BY <1>1, <1>2, <1>3, <1>4, <1>5, <1>6, <1>7, <1>8, <1>9, <1>10, <1>11, <1>12, <1>13,
           <1>14, <1>15, <1>16, <1>17, <1>18, <1>19, <1>20, <1>21, <1>22, <1>23,
           <1>24, <1>25, Zenon DEF
           Act, TakeLock, Proceed, Decide

\* Between the clearing of busy and the waking of userq is the place "waking".
LEMMA WokenStep ==
  ASSUME CallTyping, Woken, NEW u \in Users, Act(u)
  PROVE  Woken'
  <1>. USE DEF CallTyping, Woken, At, Goto, GiveBack, Dequeue, bufVars
  <1>1. CASE Enter(u)
    BY <1>1 DEF Enter
  <1>2. CASE TakeIdle(u)
    BY <1>2 DEF TakeIdle
  <1>3. CASE FindBusy(u)
    BY <1>3 DEF FindBusy
  <1>4. CASE WaitUserq(u)
    BY <1>4 DEF WaitUserq
  <1>5. CASE WakeUp(u)
    BY <1>5 DEF WakeUp
  <1>6. CASE Interrupt(u)
    BY <1>6 DEF Interrupt
  <1>7. CASE Setup(u)
    BY <1>7 DEF Setup
  <1>8. CASE OopsQueueing(u)
    BY <1>8 DEF OopsQueueing
  <1>24. CASE OopsDequeuing(u)
    BY <1>24 DEF OopsDequeuing
  <1>25. CASE OopsRelease(u)
    BY <1>25 DEF OopsRelease
  <1>9. CASE Queue(u)
    BY <1>9 DEF Queue
  <1>10. CASE Poll(u)
    BY <1>10 DEF Poll
  <1>11. CASE WaitUsbq(u)
    BY <1>11 DEF WaitUsbq
  <1>12. CASE SignalUsb(u)
    BY <1>12 DEF SignalUsb
  <1>13. CASE GiveUp(u)
    BY <1>13 DEF GiveUp
  <1>14. CASE Relock(u)
    BY <1>14 DEF Relock
  <1>15. CASE SignalLock(u)
    BY <1>15 DEF SignalLock
  <1>16. CASE Settle(u)
    BY <1>16 DEF Settle
  <1>17. CASE End(u)
    BY <1>17 DEF End
  <1>18. CASE Unlock(u)
    BY <1>18 DEF Unlock
  <1>19. CASE Clear(u)
    BY <1>19 DEF Clear
  <1>20. CASE Wake(u)
    BY <1>20 DEF Wake
  <1>21. CASE Release(u)
    BY <1>21 DEF Release
  <1>22. CASE Start(u)
    BY <1>22 DEF Start
  <1>23. CASE Stop(u)
    BY <1>23 DEF Stop
  <1>. QED
    BY <1>1, <1>2, <1>3, <1>4, <1>5, <1>6, <1>7, <1>8, <1>9, <1>10, <1>11, <1>12, <1>13,
           <1>14, <1>15, <1>16, <1>17, <1>18, <1>19, <1>20, <1>21, <1>22, <1>23,
           <1>24, <1>25, Zenon DEF
           Act, TakeLock, Proceed, Decide

\* A call begins with the endpoint there; STOP is remembered.
LEMMA StandingStep ==
  ASSUME CallTyping, Standing, NEW u \in Users, Act(u)
  PROVE  Standing'
  <1>. USE DEF CallTyping, Standing, Goto, GiveBack, Dequeue, ForgetReturned, CutCallsOff,
               bufVars, gadgetVars, specVars
  <1>1. CASE Enter(u)
    BY <1>1 DEF Enter
  <1>2. CASE TakeIdle(u)
    BY <1>2 DEF TakeIdle
  <1>3. CASE FindBusy(u)
    BY <1>3 DEF FindBusy
  <1>4. CASE WaitUserq(u)
    BY <1>4 DEF WaitUserq
  <1>5. CASE WakeUp(u)
    BY <1>5 DEF WakeUp
  <1>6. CASE Interrupt(u)
    BY <1>6 DEF Interrupt
  <1>7. CASE Setup(u)
    BY <1>7 DEF Setup
  <1>8. CASE OopsQueueing(u)
    BY <1>8 DEF OopsQueueing
  <1>24. CASE OopsDequeuing(u)
    BY <1>24 DEF OopsDequeuing
  <1>25. CASE OopsRelease(u)
    BY <1>25 DEF OopsRelease
  <1>9. CASE Queue(u)
    BY <1>9 DEF Queue
  <1>10. CASE Poll(u)
    BY <1>10 DEF Poll
  <1>11. CASE WaitUsbq(u)
    BY <1>11 DEF WaitUsbq
  <1>12. CASE SignalUsb(u)
    BY <1>12 DEF SignalUsb
  <1>13. CASE GiveUp(u)
    BY <1>13 DEF GiveUp
  <1>14. CASE Relock(u)
    BY <1>14 DEF Relock
  <1>15. CASE SignalLock(u)
    BY <1>15 DEF SignalLock
  <1>16. CASE Settle(u)
    BY <1>16 DEF Settle
  <1>17. CASE End(u)
    BY <1>17 DEF End
  <1>18. CASE Unlock(u)
    BY <1>18 DEF Unlock
  <1>19. CASE Clear(u)
    BY <1>19 DEF Clear
  <1>20. CASE Wake(u)
    BY <1>20 DEF Wake
  <1>21. CASE Release(u)
    BY <1>21 DEF Release
  <1>22. CASE Start(u)
    BY <1>22 DEF Start
  <1>23. CASE Stop(u)
    BY <1>23 DEF Stop
  <1>. QED
    BY <1>1, <1>2, <1>3, <1>4, <1>5, <1>6, <1>7, <1>8, <1>9, <1>10, <1>11, <1>12, <1>13,
           <1>14, <1>15, <1>16, <1>17, <1>18, <1>19, <1>20, <1>21, <1>22, <1>23,
           <1>24, <1>25, Zenon DEF
           Act, TakeLock, Proceed, Decide

\* What is given back by somebody else is remembered.
LEMMA DisturbedStays ==
  ASSUME NEW u \in Users, Act(u), disturbed
  PROVE  disturbed'
  <1>. USE DEF bufVars, specVars
  <1>1. CASE Enter(u)
    BY Zenon, <1>1 DEF Enter
  <1>2. CASE TakeIdle(u)
    BY Zenon, <1>2 DEF TakeIdle
  <1>3. CASE FindBusy(u)
    BY Zenon, <1>3 DEF FindBusy
  <1>4. CASE WaitUserq(u)
    BY Zenon, <1>4 DEF WaitUserq
  <1>5. CASE WakeUp(u)
    BY Zenon, <1>5 DEF WakeUp
  <1>6. CASE Interrupt(u)
    BY Zenon, <1>6 DEF Interrupt
  <1>7. CASE Setup(u)
    BY Zenon, <1>7 DEF Setup
  <1>8. CASE OopsQueueing(u)
    BY Zenon, <1>8 DEF OopsQueueing
  <1>24. CASE OopsDequeuing(u)
    BY Zenon, <1>24 DEF OopsDequeuing
  <1>25. CASE OopsRelease(u)
    BY Zenon, <1>25 DEF OopsRelease
  <1>9. CASE Queue(u)
    BY Zenon, <1>9 DEF Queue
  <1>10. CASE Poll(u)
    BY Zenon, <1>10 DEF Poll
  <1>11. CASE WaitUsbq(u)
    BY Zenon, <1>11 DEF WaitUsbq
  <1>12. CASE SignalUsb(u)
    BY Zenon, <1>12 DEF SignalUsb
  <1>13. CASE GiveUp(u)
    BY Zenon, <1>13 DEF GiveUp
  <1>14. CASE Relock(u)
    BY Zenon, <1>14 DEF Relock
  <1>15. CASE SignalLock(u)
    BY Zenon, <1>15 DEF SignalLock
  <1>16. CASE Settle(u)
    BY Zenon, <1>16 DEF Settle
  <1>17. CASE End(u)
    BY Zenon, <1>17 DEF End
  <1>18. CASE Unlock(u)
    BY Zenon, <1>18 DEF Unlock
  <1>19. CASE Clear(u)
    BY Zenon, <1>19 DEF Clear
  <1>20. CASE Wake(u)
    BY Zenon, <1>20 DEF Wake
  <1>21. CASE Release(u)
    BY Zenon, <1>21 DEF Release
  <1>22. CASE Start(u)
    BY Zenon, <1>22 DEF Start
  <1>23. CASE Stop(u)
    BY Zenon, <1>23 DEF Stop
  <1>. QED
    BY <1>1, <1>2, <1>3, <1>4, <1>5, <1>6, <1>7, <1>8, <1>9, <1>10, <1>11, <1>12, <1>13,
           <1>14, <1>15, <1>16, <1>17, <1>18, <1>19, <1>20, <1>21, <1>22, <1>23,
           <1>24, <1>25, Zenon DEF
           Act, TakeLock, Proceed, Decide

\* The controller gives a request back: usb_busy cleared, usbq woken.
LEMMA CompleteStep ==
  ASSUME IInv, Complete
  PROVE  IInv'
  <1>0. /\ UNCHANGED <<lock, started, ep, req, whose, busy, pc, claimed, disturbed, cutOff>>
        /\ queued' = FALSE /\ usbBusy' = FALSE /\ woken' = woken \cup At("usbAsleep")
    BY DEF Complete, GiveBack, gadgetVars, specVars
  <1>1. FlagTyping' /\ CallTyping'
    BY FlagTypingStep, CallTypingStep DEF IInv
  <1>2. Queued'
    BY <1>0, Zenon DEF Queued
  <1>3. Standing'
    BY <1>0 DEF IInv, Standing
  <1>4. Woken'
    BY <1>0 DEF IInv, Woken, At
  <1>5. ASSUME Undisturbed
        PROVE  Undisturbed'
    <2>1. Locked' /\ Claimed'
      BY <1>0, <1>5 DEF Undisturbed, Locked, Claimed
    <2>2. Own'
      BY <1>0, <1>5 DEF Undisturbed, Own, At
    <2>. QED
      BY <2>1, <2>2 DEF Undisturbed
  <1>6. ~disturbed' => Undisturbed'
    BY <1>0, <1>5, Zenon DEF IInv
  <1>. QED
    BY <1>1, <1>2, <1>3, <1>4, <1>6 DEF IInv

LEMMA NextIInv ==
  ASSUME IInv, [Next]_vars
  PROVE  IInv'
  <1>1. ASSUME NEW u \in Users, Act(u)
        PROVE  IInv'
    <2>1. FlagTyping' /\ CallTyping'
      BY <1>1, FlagTypingStep, CallTypingStep DEF IInv
    <2>2. Queued' /\ Woken' /\ Standing'
      BY <1>1, QueuedStep, WokenStep, StandingStep DEF IInv
    <2>3. ASSUME ~disturbed'
          PROVE  Undisturbed'
      <3>1. ~disturbed
        BY <1>1, <2>3, DisturbedStays
      <3>2. CallTyping /\ Queued /\ Locked /\ Claimed /\ Own
        BY <3>1, Zenon DEF IInv, Undisturbed
      <3>. QED
        BY <1>1, <2>3, <3>2, LockedStep, ClaimedStep, OwnStep DEF Undisturbed
    <2>. QED
      BY <2>1, <2>2, <2>3 DEF IInv
  <1>2. CASE UNCHANGED vars
    BY <1>2 DEF vars, bufVars, gadgetVars, specVars, IInv, FlagTyping, CallTyping,
       Sleepers, Queued, Undisturbed, Locked, Claimed, Own, Woken, At, Standing
  <1>. QED
    BY <1>1, <1>2, CompleteStep DEF Next, Act

LEMMA InvariantHolds == Spec => []IInv
  BY InitIInv, NextIInv, PTL DEF Spec

-----------------------------------------------------------------------------
\* The variables keep their types, and no request is freed in the controller's hands.
THEOREM TypeCorrect == Spec => []TypeOK
  <1>1. IInv => TypeOK
    BY Zenon DEF IInv, FlagTyping, CallTyping, Queued, Sleepers, TypeOK
  <1>. QED
    BY <1>1, InvariantHolds, PTL

\* One transfer at a time has the buffer, until a call gives back what is not its own.
THEOREM OneAtATime == Spec => []OneTransfer
  <1>1. ASSUME IInv
        PROVE  OneTransfer
    <2>. SUFFICES ASSUME ~disturbed
                  PROVE  Cardinality(claimed) <= 1 /\ (busy <=> claimed # {})
      BY DEF OneTransfer
    <2>1. Claimed
      BY <1>1, Zenon DEF IInv, Undisturbed
    <2>2. busy <=> claimed # {}
      BY <2>1, Zenon DEF Claimed
    <2>3. CASE claimed = {}
      BY <2>2, <2>3, FS_EmptySet
    <2>4. CASE claimed # {}
      <3>1. PICK u \in claimed : TRUE
        BY <2>4
      <3>2. claimed = {u}
        BY <2>1, <3>1 DEF Claimed
      <3>3. Cardinality(claimed) = 1
        BY <3>2, FS_Singleton
      <3>. QED
        BY <2>2, <3>3
    <2>. QED
      BY <2>3, <2>4
  <1>. QED
    BY <1>1, InvariantHolds, PTL

\* A call settles its own transfer, with the controller done.
THEOREM SettlesItsOwn == Spec => []SettlesOwn
  <1>1. IInv => SettlesOwn
    BY Zenon DEF IInv, Undisturbed, Own, Using, SettlesOwn, At
  <1>. QED
    BY <1>1, InvariantHolds, PTL

\* Nobody is left asleep on userq or usbq with nothing to come that wakes it.
THEOREM WakeupsArrive == Spec => []NoLostWakeup
  <1>1. IInv => NoLostWakeup
    BY DEF IInv, Undisturbed, Own, Woken, NoLostWakeup, At
  <1>. QED
    BY <1>1, InvariantHolds, PTL

\* A null pointer is followed by a call from which the endpoint was taken away while it was
\* under way, by one whose request went although it had the lock, or by a close that goes
\* by the usb_busy of a request that was refused.
THEOREM EveryCrash == Spec => CrashesExplained
  <1>1. ASSUME IInv, NEW u \in Users, Act(u)
        PROVE  \A v \in Users :
                 pc[v] # "crashed" /\ pc'[v] = "crashed" =>
                   \/ pc[v] # "idle" /\ ~ep /\ v \in cutOff
                   \/ pc[v] = "queueing" /\ ~req /\ disturbed
                   \/ pc[v] = "idle" /\ ~started /\ ~ep /\ ~queued
    <2>0. CallTyping /\ Standing
      BY <1>1, Zenon DEF IInv
    <2>1. CASE OopsQueueing(u)
      <3>1. pc[u] = "queueing" /\ ~(req /\ ep) /\ pc' = [pc EXCEPT ![u] = "crashed"]
        BY <2>1, Zenon DEF OopsQueueing, Goto
      <3>2. req \/ disturbed
        BY <1>1, <3>1, Zenon DEF IInv, Undisturbed, Claimed
      <3>3. ep \/ u \in cutOff
        BY <2>0, <3>1 DEF Standing
      <3>. QED
        BY <2>0, <3>1, <3>2, <3>3 DEF CallTyping
    <2>2. CASE OopsDequeuing(u)
      BY <2>0, <2>2 DEF OopsDequeuing, Goto, CallTyping, Standing
    <2>3. CASE OopsRelease(u)
      BY <2>0, <2>3 DEF OopsRelease, Goto, CallTyping, Standing
    <2>4. CASE ~(OopsQueueing(u) \/ OopsDequeuing(u) \/ OopsRelease(u))
      BY <1>1, <2>0, <2>4 DEF CallTyping, Act, TakeLock, Proceed, Decide, Goto, Enter,
         TakeIdle, FindBusy, WaitUserq, WakeUp, Interrupt, Setup, Queue, Poll, WaitUsbq,
         SignalUsb, GiveUp, Relock, SignalLock, Settle, End, Unlock, Clear, Wake, Release,
         Start, Stop
    <2>. QED
      BY <2>1, <2>2, <2>3, <2>4, Zenon
  <1>2. ASSUME IInv, [Next]_vars
        PROVE  [ \A u \in Users :
                   pc[u] # "crashed" /\ pc'[u] = "crashed" =>
                     \/ pc[u] # "idle" /\ ~ep /\ u \in cutOff
                     \/ pc[u] = "queueing" /\ ~req /\ disturbed
                     \/ pc[u] = "idle" /\ ~started /\ ~ep /\ ~queued ]_vars
    <2>1. CASE Complete \/ UNCHANGED vars
      BY <2>1 DEF Complete, vars
    <2>2. CASE \E u \in Users : Act(u)
      BY <1>1, <1>2, <2>2
    <2>. QED
      BY <1>2, <2>1, <2>2 DEF Next, Act
  <1>. QED
    BY <1>2, InvariantHolds, PTL DEF Spec, CrashesExplained
=============================================================================
