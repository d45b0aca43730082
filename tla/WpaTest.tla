------------------------------- MODULE WpaTest -------------------------------
(***************************************************************************)
(* A WPA2 test: the main thread, associate_with_wpa2psk_ap() of            *)
(* blts-wlan-core/src/wlan-core-wpa.c, and the EAPOL thread it starts and  *)
(* ends (wlan-core-eapol.c), which drives the handshake of EapolHandshake. *)
(*                                                                         *)
(* loop_state_lock is held by main from the cancellation of the thread to  *)
(* its end ("join"); every other section under it is one action.           *)
(* wpa_wait_state is the supplicant's state: the callback copies it.       *)
(***************************************************************************)
EXTENDS EapolHandshake

VARIABLES
  mpc,        \* where main is
  tpc,        \* where the EAPOL thread is; "none" before it is created
  ref,        \* loop_state.refcnt (no test holds more than one reference)
  tid,        \* loop_state.loop_tid is set
  associated, \* cmd->associated
  result      \* the result main is going to return

mainVars == <<mpc, ref, associated, result>>
vars == <<hsVars, mpc, tpc, ref, tid, associated, result>>

MainLabels == {"start", "run", "associating", "associated", "wait", "dhcp", "unref",
               "join", "remove", "end"}
ThreadLabels == {"none", "locking", "select", "reading", "exiting", "gone"}

TypeOK ==
  /\ sm.state \in States
  /\ ap.state \in {"idle", "wait2", "wait4", "waitGroup", "done", "gaveUp"}
  /\ \A i \in DOMAIN toSta : toSta[i].kind \in ToSta /\ toSta[i].c \in 1..ap.c
  /\ \A i \in DOMAIN toAp : toAp[i].kind \in ToAp /\ toAp[i].c \in 1..ap.c
  /\ faults \in 0..MaxFaults /\ lost \subseteq ToSta \cup ToAp
  /\ ended \in {"no", "local", "stale", "fresh"}
  /\ mpc \in MainLabels /\ tpc \in ThreadLabels
  /\ ref \in BOOLEAN /\ tid \in BOOLEAN /\ associated \in BOOLEAN
  /\ result \in {"none", "ok", "failed", "timeout"}

Init ==
  /\ InitHandshake
  /\ mpc = "start" /\ tpc = "none"
  /\ ref = FALSE /\ tid = FALSE /\ associated = FALSE
  /\ result = "none"

Unlocked == mpc # "join"
MGoto(from, to) == mpc = from /\ mpc' = to
TGoto(from, to) == tpc = from /\ tpc' = to

\* goto done, with the callback unregistered.
FailTo(from) == MGoto(from, "unref") /\ result' = "failed"

-----------------------------------------------------------------------------
\* The PMK and the monitor interface.
Prepare == /\ \/ MGoto("start", "run") /\ UNCHANGED result
              \/ FailTo("start") /\ MayFailLocal
           /\ UNCHANGED <<hsVars, tpc, ref, tid, associated>>

\* eapol_loop_run(): it returns 0 even if eapol_loop_init() has failed.
LoopRun == /\ MGoto("run", "associating")
           /\ \/ tpc' = "locking" /\ ref' = TRUE /\ tid' = TRUE
              \/ MayFailLocal /\ UNCHANGED <<tpc, ref, tid>>
           /\ UNCHANGED <<hsVars, associated, result>>

\* Scan, authentication and association; the access point begins its handshake.
Associate == /\ \/ /\ MGoto("associating", "associated")
                   /\ StartHandshake
                   /\ UNCHANGED result
                \/ /\ MayFailLocal
                   /\ FailTo("associating")
                   /\ UNCHANGED <<ap, toSta>>
             /\ UNCHANGED <<sm, toAp, faults, lost, ended, tpc, ref, tid, associated>>

\* The event that says so has come, and cmd->associated is set.
SetAssociated == /\ \/ MGoto("associated", "wait") /\ associated' = TRUE /\ UNCHANGED result
                    \/ FailTo("associated") /\ MayFailLocal /\ UNCHANGED associated
                 /\ UNCHANGED <<hsVars, tpc, ref, tid>>

\* wpa_wait_for_state(AUTH_STATE_GROUP_HS_READY, 30).
WaitReady == /\ MGoto("wait", "dhcp")
             /\ sm.state = "GROUP_HS_READY"
             /\ UNCHANGED <<hsVars, tpc, ref, tid, associated, result>>

\* Nothing is on its way that somebody is going to receive.
Quiet == toAp = <<>> /\ (toSta = <<>> \/ tpc \in {"none", "exiting", "gone"})

\* The 30 seconds are over.  They are taken to be enough for whatever still goes on.
WaitTimeout == /\ MGoto("wait", "unref")
               /\ sm.state # "GROUP_HS_READY"
               /\ Quiet /\ ap.state \in {"done", "gaveUp"}
               /\ result' = "timeout"
               /\ UNCHANGED <<hsVars, tpc, ref, tid, associated>>

\* send_dhcp_discover(): an answer, or none.
Dhcp == /\ MGoto("dhcp", "unref")
        /\ result' \in {"ok", "failed"}
        /\ UNCHANGED <<hsVars, tpc, ref, tid, associated>>

\* Mutated form of the next one: the thread is cancelled and not waited for.
LoopUnref_NoJoin ==
  /\ MGoto("unref", "remove")
  /\ ref' = FALSE
  /\ tid' = FALSE
  /\ UNCHANGED <<hsVars, tpc, associated, result>>

\* eapol_loop_unref(): the last reference cancels the thread, if there is one, and waits
\* for its end with the lock held.
LoopUnref == /\ IF ref /\ tid THEN MGoto("unref", "join") ELSE MGoto("unref", "remove")
             /\ ref' = FALSE
             /\ UNCHANGED <<hsVars, tpc, tid, associated, result>>

\* pthread_join() returns.
Join == /\ MGoto("join", "remove")
        /\ tpc = "gone"
        /\ tid' = FALSE
        /\ UNCHANGED <<hsVars, tpc, ref, associated, result>>

\* The monitor interface is removed and the access point left.
Leave == /\ MGoto("remove", "end")
         /\ result' \in {result, "failed"}
         /\ UNCHANGED <<hsVars, tpc, ref, tid, associated>>

-----------------------------------------------------------------------------
\* eapol_thread_fn(): the sets for select() are made under the lock.
PrepareSelect == /\ TGoto("locking", "select")
                 /\ Unlocked
                 /\ UNCHANGED <<hsVars, mainVars, tid>>

\* select() returns for a frame, any frame that the monitor interface sees.
Select == /\ TGoto("select", "reading")
          /\ Unlocked
          /\ UNCHANGED <<hsVars, mainVars, tid>>

\* Mutated form of the next one: the thread is not to be cancelled.
Cancelled_Disabled == /\ tpc = "select"
                      /\ mpc = "join"
                      /\ UNCHANGED vars

\* select() is the thread's only cancellation point without the lock.
Cancelled == /\ TGoto("select", "gone")
             /\ mpc = "join"
             /\ UNCHANGED <<hsVars, mainVars, tid>>

\* eapol_sock_handle_read(): somebody else's frame.
ReadForeign == /\ TGoto("reading", "locking")
               /\ Unlocked
               /\ UNCHANGED <<hsVars, mainVars, tid>>

\* eapol_sock_handle_read(): a frame from the access point, ignored if not associated.
ReadFrame == /\ tpc = "reading"
             /\ Unlocked
             /\ toSta # <<>>
             /\ toSta' = Tail(toSta)
             /\ IF associated THEN Process(Head(toSta)) ELSE UNCHANGED <<sm, toAp, ended>>
             /\ tpc' = IF ended' = "no" THEN "locking" ELSE "exiting"
             /\ UNCHANGED <<ap, faults, lost, mainVars, tid>>

\* select() or recv() fails, or a frame has a malformed radiotap header.
ThreadFails == /\ MayFailLocal
               /\ \/ TGoto("select", "exiting")
                  \/ TGoto("reading", "exiting")
               /\ Unlocked
               /\ ended' = "local"
               /\ UNCHANGED <<sm, apVars, mainVars, tid>>

\* The end of the thread: loop_tid is cleared under the lock.
ThreadExit == /\ TGoto("exiting", "gone")
              /\ Unlocked
              /\ tid' = FALSE
              /\ UNCHANGED <<hsVars, mainVars>>

-----------------------------------------------------------------------------
\* The access point repeats a frame when nothing is on its way any more, or too early,
\* which is one of the faults.  The event of the association comes within its second.
ApTimeout == /\ Repeat \/ GiveUp
             /\ Quiet /\ mpc # "associated"
             /\ UNCHANGED <<faults, mainVars, tpc, tid>>

ApTooEarly == /\ Repeat
              /\ Fault
              /\ UNCHANGED <<mainVars, tpc, tid>>

ApRekey == /\ ap.state = "done"
           /\ \/ StartHandshake /\ UNCHANGED <<sm, toAp, faults, lost, ended>>
              \/ StartGroup
           /\ UNCHANGED <<mainVars, tpc, tid>>

Network == (Lose \/ Duplicate) /\ UNCHANGED <<mainVars, tpc, tid>>
Answered == ApReceive /\ UNCHANGED <<mainVars, tpc, tid>>

Main == \/ Prepare \/ LoopRun \/ Associate \/ SetAssociated
        \/ WaitReady \/ WaitTimeout \/ Dhcp
        \/ LoopUnref \/ Join \/ Leave

Thread == \/ PrepareSelect \/ Select \/ Cancelled
          \/ ReadForeign \/ ReadFrame \/ ThreadFails
          \/ ThreadExit

Next == Main \/ Thread \/ Answered \/ ApTimeout \/ ApTooEarly \/ ApRekey \/ Network

\* Both threads go on when they can, a frame that has come is read in the end whatever
\* else the monitor interface sees, the access point answers and its timer runs.
Fairness ==
  /\ WF_vars(Main) /\ WF_vars(Thread)
  /\ SF_vars(ReadFrame)
  /\ WF_vars(Answered)
  /\ WF_vars(ApTimeout)

Spec == Init /\ [][Next]_vars /\ Fairness

-----------------------------------------------------------------------------
\* Frames that are lost, repeated or early do not make the test fail: it gives up its wait
\* (wlan-core-wpa.c:180) only when the thread has ended, for whatever reason (ended; wider
\* than a failed call of the supplicant), or was not started, or message 2 was lost, which a supplicant that has sent it never
\* repeats (wlan-core-eapol.c:1030-1036).  The access point is taken to ask at least two
\* times more than the network fails; one that asks less often may give up on its own.
TimeoutHasCause ==
  result = "timeout" => \/ "msg2" \in lost
                        \/ ended # "no" \/ tpc = "none"

\* Behind the last unref no thread is left that would use the context and the socket that
\* are gone by then, and loop_tid does not name one.
NoThreadBehindUnref ==
  mpc \in {"remove", "end"} => tpc \in {"none", "gone"} /\ ~ref

\* The thread that is being joined with the lock held, and needs it.
Blocked == mpc = "join" /\ tpc \in {"locking", "reading", "exiting"}

\* The test ends, whatever the access point and the network do; the only thing that can
\* keep it is the join (wlan-core-eapol.c:1276-1277).
OnlyJoinHangs == <>(mpc = "end" \/ Blocked)

\* "Last unref causes loop termination" (wlan-core-eapol.c:1306-1307).
LastUnrefEndsLoop == (mpc = "join") ~> (tpc = "gone")
=============================================================================
