---------------------------- MODULE WpaTestProofs ----------------------------
(***************************************************************************)
(* Proofs about WpaTest and the handshake in it, for any number of frames, *)
(* handshakes, repetitions and losses.                                     *)
(*                                                                         *)
(* That the keys agree rests on the numbers: the supplicant makes a new    *)
(* SNonce for each handshake, so a pairwise key it has not installed yet   *)
(* is newer than any the access point can have used in a message 3 if they *)
(* agree on the one installed; and a frame that can still be answered      *)
(* carries the access point's present keys.                                *)
(*                                                                         *)
(* That nothing but a loss of message 2 keeps an undisturbed test from     *)
(* READY follows from the order of the frames: as long as it is waiting,   *)
(* the two are in one of four phases, and an access point that asks often  *)
(* enough cannot give up in one from which the supplicant still goes on.   *)
(***************************************************************************)
EXTENDS WpaTest, TLAPS

\* The frames on their way, in whatever order.
In(s) == {s[k] : k \in DOMAIN s}

Keys == Nat \X Nat
Frames == [kind : ToSta \cup ToAp, c : Nat, nonce : Nat, mic : Keys, gtk : Nat]
Supplicants ==
  [state : States, counter : Nat, answered : Nat, anonce : Nat, snonce : Nat, ptk : Keys,
   installed : Keys, installs : Nat, gtk : Nat, port : BOOLEAN]
AccessPoints ==
  [state : {"idle", "wait2", "wait4", "waitGroup", "done", "gaveUp"}, c : Nat, from : Nat,
   tries : Nat, anonce : Nat, ptk : Keys, gtk : Nat]

Typing == /\ sm \in Supplicants /\ ap \in AccessPoints
          /\ toSta \in Seq(Frames) /\ toAp \in Seq(Frames)

\* The supplicant's pairwise keys are known by its nonces.
Nonces == /\ sm.ptk[2] = sm.snonce
          /\ sm.installed[2] <= sm.snonce
          /\ sm.state = "4WAY_2_SENT" => sm.installed[2] < sm.snonce
          /\ ap.ptk[2] <= sm.snonce

\* One installation for each nonce.
Installs == /\ sm.installs <= sm.snonce
            /\ sm.state = "4WAY_2_SENT" => sm.installs < sm.snonce

\* READY means that everything is installed.
Ready == sm.state = "GROUP_HS_READY" => sm.installed = sm.ptk /\ sm.gtk # 0 /\ sm.port

\* Frames to the supplicant: with keys the access point has had; those of the present
\* exchange with its present ones.
Keyed == {"msg3", "group1"}
Downstream ==
  /\ ap.gtk # 0
  /\ \A f \in In(toSta) :
       /\ f.c <= ap.c
       /\ f.kind \in Keyed => f.gtk # 0 /\ f.mic[2] <= ap.ptk[2]
       /\ f.kind \in Keyed /\ f.c >= ap.from => f.mic = ap.ptk /\ f.gtk = ap.gtk

\* Frames from the supplicant: a message 2 of the present exchange is not older than
\* the pairwise key of the last one.
Upstream ==
  \A f \in In(toAp) :
    /\ f.c <= ap.c
    /\ f.kind = "msg2" => f.nonce <= sm.snonce
    /\ f.kind = "msg2" /\ f.c >= ap.from => ap.ptk[2] <= f.nonce

\* The two have the same keys, and the supplicant takes no older ones.
Agree == /\ sm.installed = ap.ptk /\ sm.gtk = ap.gtk
         /\ sm.state = "GROUP_HS_READY" => sm.counter >= ap.from

\* They agree when the access point has what completes its exchange, or is about to.
Confirms(f) == f.kind \in {"msg4", "group2"} /\ f.c >= ap.from /\ f.mic = ap.ptk
Confirmed == ap.state = "done" \/ \E f \in In(toAp) : Confirms(f)
Completion == Confirmed => ended = "local" \/ Agree

\* A thread that goes on, or has not begun, has not been told to end.
Running == tpc \in {"none", "locking", "select", "reading"} => ended = "no"

Handshake == /\ Typing
             /\ Nonces /\ Installs /\ Ready
             /\ Downstream /\ Upstream
             /\ Completion
             /\ Running

\* Who has the context: a thread that is not gone is known to main by loop_tid, which
\* lasts while main has its reference or waits for the thread's end.
Context == /\ tpc \in ThreadLabels /\ mpc \in MainLabels
           /\ tpc \notin {"none", "gone"} => tid
           /\ tid => ref \/ mpc = "join"
           /\ mpc \in {"start", "run"} => ~tid /\ tpc = "none"
           /\ mpc \in {"join", "remove", "end"} => ~ref

-----------------------------------------------------------------------------
\* The steps that have to do with the context.
LEMMA ContextStep ==
  ASSUME Context, [Next]_vars
  PROVE  Context'
  <1>. USE DEF Context, ThreadLabels, MainLabels, MGoto, TGoto, FailTo, mainVars, Unlocked
  <1>1. CASE Main
    <2>1. CASE Prepare
      BY <2>1 DEF Prepare
    <2>2. CASE LoopRun
      BY <2>2 DEF LoopRun
    <2>3. CASE Associate
      BY <2>3 DEF Associate
    <2>4. CASE SetAssociated
      BY <2>4 DEF SetAssociated
    <2>5. CASE WaitReady
      BY <2>5 DEF WaitReady
    <2>6. CASE WaitTimeout
      BY <2>6 DEF WaitTimeout
    <2>7. CASE Dhcp
      BY <2>7 DEF Dhcp
    <2>8. CASE LoopUnref
      BY <2>8 DEF LoopUnref
    <2>9. CASE Join
      BY <2>9 DEF Join
    <2>10. CASE Leave
      BY <2>10 DEF Leave
    <2>. QED
      BY <1>1, <2>1, <2>2, <2>3, <2>4, <2>5, <2>6, <2>7, <2>8, <2>9, <2>10 DEF Main
  <1>2. CASE Thread
    <2>1. CASE PrepareSelect
      BY <2>1 DEF PrepareSelect
    <2>2. CASE Select
      BY <2>2 DEF Select
    <2>3. CASE Cancelled
      BY <2>3 DEF Cancelled
    <2>4. CASE ReadForeign
      BY <2>4 DEF ReadForeign
    <2>5. CASE ReadFrame
      BY <2>5 DEF ReadFrame
    <2>6. CASE ThreadFails
      BY <2>6 DEF ThreadFails
    <2>7. CASE ThreadExit
      BY <2>7 DEF ThreadExit
    <2>. QED
      BY <1>2, <2>1, <2>2, <2>3, <2>4, <2>5, <2>6, <2>7 DEF Thread
  <1>3. CASE Answered \/ ApTimeout \/ ApTooEarly \/ ApRekey \/ Network \/ UNCHANGED vars
    BY <1>3 DEF Answered, ApTimeout, ApTooEarly, ApRekey, Network, vars
  <1>. QED
    BY <1>1, <1>2, <1>3 DEF Next

\* There is no thread in the beginning, and none is lost sight of.
LEMMA ContextHolds == Spec => []Context
  <1>1. Init => Context
    BY DEF Init, Context, ThreadLabels, MainLabels
  <1>. QED
    BY <1>1, ContextStep, PTL DEF Spec

\* Behind the last unref no thread is left (eapol_loop_unref(), the end of the thread).
THEOREM NoThreadLeft == Spec => []NoThreadBehindUnref
  <1>1. Context => NoThreadBehindUnref
    BY DEF Context, NoThreadBehindUnref
  <1>. QED
    BY <1>1, ContextHolds, PTL

-----------------------------------------------------------------------------
\* What handling a frame does, as far as the keys are concerned.
Replies(frame) == toAp' = toAp \o <<frame>>

Took1(f) ==
  /\ f.kind = "msg1"
  /\ sm'.snonce = sm.snonce + 1 /\ sm'.ptk = <<f.nonce, sm.snonce + 1>>
  /\ sm'.installed = sm.installed /\ sm'.installs = sm.installs /\ sm'.gtk = sm.gtk
  /\ sm'.state \in {"4WAY_1_RCVD", "4WAY_2_SENT"}
  /\ toAp' = toAp \/ Replies(Frame("msg2", f.c, sm.snonce + 1, sm'.ptk, 0))

Took3(f) ==
  /\ f.kind = "msg3" /\ sm.state = "4WAY_2_SENT" /\ f.mic = sm.ptk
  /\ sm'.snonce = sm.snonce /\ sm'.ptk = sm.ptk
  /\ \/ ended' = "local" /\ sm'.state \in {"4WAY_3_RCVD", "4WAY_COMPLETE"}
     \/ /\ sm'.state = "GROUP_HS_READY" /\ sm'.installed = sm.ptk
        /\ sm'.gtk = f.gtk /\ sm'.port /\ sm'.counter = f.c
  /\ \/ sm'.installed = sm.installed /\ sm'.installs = sm.installs
     \/ sm'.installed = sm.ptk /\ sm'.installs = sm.installs + 1
  /\ toAp' = toAp \/ Replies(Frame("msg4", f.c, 0, sm.ptk, 0))

TookG(f) ==
  /\ f.kind = "group1" /\ sm.state = "GROUP_HS_READY" /\ f.mic = sm.ptk /\ f.c > sm.counter
  /\ sm'.snonce = sm.snonce /\ sm'.ptk = sm.ptk
  /\ sm'.installed = sm.installed /\ sm'.installs = sm.installs /\ sm'.port = sm.port
  /\ \/ ended' = "local" /\ sm'.state = "GROUP_HS_1_RCVD"
     \/ sm'.state = "GROUP_HS_READY" /\ sm'.counter = f.c + 1 /\ sm'.gtk = f.gtk
  /\ toAp' = toAp \/ Replies(Frame("group2", f.c, 0, sm.ptk, 0))

Left == sm' = sm /\ toAp' = toAp

\* Two updates of the supplicant's record that compute a field from its old value.
LEMMA InstallingTyped ==
  ASSUME NEW s \in Supplicants, NEW k \in Keys
  PROVE  [s EXCEPT !.installed = k, !.installs = @ + 1] \in Supplicants
  <1>. DEFINE n == s.installs + 1
  <1>1. n \in Nat
    BY DEF Supplicants
  <1>2. [s EXCEPT !.installed = k, !.installs = @ + 1] = [s EXCEPT !.installed = k, !.installs = n]
    BY DEF Supplicants
  <1>. HIDE DEF n
  <1>3. [s EXCEPT !.installed = k, !.installs = n] \in Supplicants
    BY <1>1 DEF Supplicants
  <1>. QED
    BY <1>2, <1>3

LEMMA CountingTyped ==
  ASSUME NEW s \in Supplicants
  PROVE  [s EXCEPT !.counter = @ + 1, !.state = "GROUP_HS_READY"] \in Supplicants
  <1>. DEFINE n == s.counter + 1
  <1>1. n \in Nat
    BY DEF Supplicants
  <1>2. [s EXCEPT !.counter = @ + 1, !.state = "GROUP_HS_READY"]
          = [s EXCEPT !.counter = n, !.state = "GROUP_HS_READY"]
    BY DEF Supplicants
  <1>. HIDE DEF n
  <1>3. [s EXCEPT !.counter = n, !.state = "GROUP_HS_READY"] \in Supplicants
    BY <1>1 DEF Supplicants, States
  <1>. QED
    BY <1>2, <1>3

\* Message 1: a new nonce and key, and message 2 if it can be sent.
LEMMA After1Takes ==
  ASSUME Typing, NEW f \in Frames, f.kind = "msg1",
         NEW o \in After1(f), sm' = o[1], toAp' = toAp \o o[2], ended' = o[3]
  PROVE  Took1(f) /\ sm' \in Supplicants
  <1>. DEFINE s == [sm EXCEPT !.counter = f.c, !.answered = f.c, !.anonce = f.nonce,
                              !.snonce = @ + 1, !.ptk = <<f.nonce, sm.snonce + 1>>]
  <1>1. \/ o = <<[s EXCEPT !.state = "4WAY_2_SENT"],
                 <<Frame("msg2", f.c, s.snonce, s.ptk, 0)>>, "no">>
        \/ o = <<[s EXCEPT !.state = "4WAY_1_RCVD"], <<>>, "local">>
    BY Zenon DEF After1
  <1>2. s \in Supplicants /\ s.snonce = sm.snonce + 1 /\ s.ptk = <<f.nonce, sm.snonce + 1>>
        /\ s.installed = sm.installed /\ s.installs = sm.installs /\ s.gtk = sm.gtk
    <2>1. sm \in Supplicants /\ f.c \in Nat /\ f.nonce \in Nat
      BY DEF Typing, Frames
    <2>2. sm.snonce + 1 \in Nat
      BY <2>1 DEF Supplicants
    <2>3. <<f.nonce, sm.snonce + 1>> \in Keys
      BY <2>1, <2>2 DEF Keys
    <2>4. s \in Supplicants
      BY <2>1, <2>2, <2>3 DEF Supplicants
    <2>. QED
      BY <2>1, <2>4 DEF Supplicants
  <1>. HIDE DEF s
  <1>3. CASE o = <<[s EXCEPT !.state = "4WAY_2_SENT"],
                   <<Frame("msg2", f.c, s.snonce, s.ptk, 0)>>, "no">>
    <2>1. sm' = [s EXCEPT !.state = "4WAY_2_SENT"]
          /\ toAp' = toAp \o <<Frame("msg2", f.c, s.snonce, s.ptk, 0)>>
      BY <1>3
    <2>. QED
      BY <1>2, <2>1 DEF Took1, Replies, Supplicants, States
  <1>4. CASE o = <<[s EXCEPT !.state = "4WAY_1_RCVD"], <<>>, "local">>
    <2>1. sm' = [s EXCEPT !.state = "4WAY_1_RCVD"] /\ toAp' = toAp
      BY <1>4 DEF Typing
    <2>. QED
      BY <1>2, <2>1 DEF Took1, Supplicants, States
  <1>. QED
    BY <1>1, <1>3, <1>4

\* Message 3: every failure after message 4 ends the thread.
LEMMA After3Takes ==
  ASSUME Typing, NEW f \in Frames, f.kind = "msg3", sm.state = "4WAY_2_SENT", f.mic = sm.ptk,
         NEW o \in After3(f), sm' = o[1], toAp' = toAp \o o[2], ended' = o[3]
  PROVE  Took3(f) /\ sm' \in Supplicants
  <1>. DEFINE r == [sm EXCEPT !.counter = f.c, !.answered = f.c, !.state = "4WAY_3_RCVD"]
              s == [r EXCEPT !.state = "4WAY_COMPLETE"]
              p == [s EXCEPT !.installed = sm.ptk, !.installs = @ + 1]
              g == [p EXCEPT !.gtk = f.gtk]
              d == [p EXCEPT !.gtk = f.gtk, !.port = TRUE, !.state = "GROUP_HS_READY"]
              msg4 == <<Frame("msg4", f.c, 0, sm.ptk, 0)>>
  <1>1. \/ o = <<d, msg4, "no">>
        \/ o = <<r, <<>>, "local">>
        \/ o = <<s, msg4, "local">>
        \/ o = <<p, msg4, "local">>
        \/ o = <<g, msg4, "local">>
    BY Zenon DEF After3
  <1>2. /\ r \in Supplicants /\ r.state = "4WAY_3_RCVD" /\ r.counter = f.c
        /\ r.snonce = sm.snonce /\ r.ptk = sm.ptk
        /\ r.installed = sm.installed /\ r.installs = sm.installs
    BY DEF Typing, Supplicants, Frames, States
  <1>3. s \in Supplicants /\ s = [r EXCEPT !.state = "4WAY_COMPLETE"]
    BY <1>2 DEF Supplicants, States
  <1>4. p \in Supplicants /\ p = [s EXCEPT !.installed = sm.ptk, !.installs = @ + 1]
    BY <1>3, InstallingTyped DEF Typing, Supplicants
  <1>5. g \in Supplicants /\ g = [p EXCEPT !.gtk = f.gtk]
    BY <1>4 DEF Frames, Supplicants
  <1>6. d \in Supplicants
        /\ d = [p EXCEPT !.gtk = f.gtk, !.port = TRUE, !.state = "GROUP_HS_READY"]
    BY <1>4 DEF Frames, Supplicants, States
  <1>7. /\ toAp \o <<>> = toAp
        /\ msg4 = <<Frame("msg4", f.c, 0, sm.ptk, 0)>>
    BY DEF Typing
  <1>. HIDE DEF r, s, p, g, d, msg4
  <1>8. CASE o = <<d, msg4, "no">>
    BY <1>2, <1>3, <1>4, <1>6, <1>7, <1>8 DEF Took3, Replies, Supplicants
  <1>9. CASE o = <<r, <<>>, "local">>
    BY <1>2, <1>7, <1>9 DEF Took3, Supplicants
  <1>10. CASE o = <<s, msg4, "local">>
    BY <1>2, <1>3, <1>7, <1>10 DEF Took3, Replies, Supplicants
  <1>11. CASE o = <<p, msg4, "local">>
    BY <1>2, <1>3, <1>4, <1>7, <1>11 DEF Took3, Replies, Supplicants
  <1>12. CASE o = <<g, msg4, "local">>
    BY <1>2, <1>3, <1>4, <1>5, <1>7, <1>12 DEF Took3, Replies, Supplicants
  <1>. QED
    BY <1>1, <1>8, <1>9, <1>10, <1>11, <1>12

\* Message 1 of a group handshake.
LEMMA AfterGTakes ==
  ASSUME Typing, NEW f \in Frames, f.kind = "group1", sm.state = "GROUP_HS_READY",
         f.mic = sm.ptk, f.c > sm.counter,
         NEW o \in AfterG(f), sm' = o[1], toAp' = toAp \o o[2], ended' = o[3]
  PROVE  TookG(f) /\ sm' \in Supplicants
  <1>. DEFINE r == [sm EXCEPT !.counter = f.c, !.answered = f.c, !.state = "GROUP_HS_1_RCVD"]
              g == [r EXCEPT !.gtk = f.gtk]
              d == [g EXCEPT !.counter = @ + 1, !.state = "GROUP_HS_READY"]
              msg2 == <<Frame("group2", f.c, 0, sm.ptk, 0)>>
  <1>1. \/ o = <<d, msg2, "no">>
        \/ o = <<r, <<>>, "local">>
        \/ o = <<g, <<>>, "local">>
        \/ o = <<g, msg2, "local">>
    BY Zenon DEF AfterG
  <1>2. /\ r \in Supplicants /\ r.state = "GROUP_HS_1_RCVD" /\ r.counter = f.c
        /\ r.snonce = sm.snonce /\ r.ptk = sm.ptk /\ r.port = sm.port
        /\ r.installed = sm.installed /\ r.installs = sm.installs
    BY DEF Typing, Supplicants, Frames, States
  <1>3. g \in Supplicants /\ g = [r EXCEPT !.gtk = f.gtk]
    BY <1>2 DEF Frames, Supplicants
  <1>4. d \in Supplicants /\ d = [g EXCEPT !.counter = @ + 1, !.state = "GROUP_HS_READY"]
    BY <1>3, CountingTyped
  <1>5. /\ toAp \o <<>> = toAp
        /\ msg2 = <<Frame("group2", f.c, 0, sm.ptk, 0)>>
    BY DEF Typing
  <1>. HIDE DEF r, g, d, msg2
  <1>6. CASE o = <<d, msg2, "no">>
    BY <1>2, <1>3, <1>4, <1>5, <1>6 DEF TookG, Replies, Supplicants
  <1>7. CASE o = <<r, <<>>, "local">>
    BY <1>2, <1>5, <1>7 DEF TookG, Supplicants
  <1>8. CASE o = <<g, <<>>, "local">>
    BY <1>2, <1>3, <1>5, <1>8 DEF TookG, Supplicants
  <1>9. CASE o = <<g, msg2, "local">>
    BY <1>2, <1>3, <1>5, <1>9 DEF TookG, Replies, Supplicants
  <1>. QED
    BY <1>1, <1>6, <1>7, <1>8, <1>9

\* What handling a frame can come to.
LEMMA ProcessTakes ==
  ASSUME Typing, NEW f \in Frames, Process(f)
  PROVE  sm' \in Supplicants /\ (Took1(f) \/ Took3(f) \/ TookG(f) \/ Left)
  <1>1. PICK o \in Outcomes(f) : sm' = o[1] /\ toAp' = toAp \o o[2] /\ ended' = o[3]
    BY Zenon DEF Process
  <1>2. \/ f.kind = "msg1" /\ o \in After1(f)
        \/ /\ f.kind = "msg3" /\ sm.state = "4WAY_2_SENT" /\ f.mic = sm.ptk
           /\ o \in After3(f)
        \/ /\ f.kind = "group1" /\ sm.state = "GROUP_HS_READY" /\ f.mic = sm.ptk
           /\ f.c > sm.counter /\ o \in AfterG(f)
        \/ o \in RejectReplay(f) \cup {<<sm, <<>>, "no">>}
    BY Zenon DEF Outcomes
  <1>3. CASE o \in RejectReplay(f) \cup {<<sm, <<>>, "no">>}
    <2>1. \E e : o = <<sm, <<>>, e>>
      BY <1>3, Zenon DEF RejectReplay
    <2>. QED
      BY <1>1, <2>1 DEF Left, Typing
  <1>. QED
    BY <1>1, <1>2, <1>3, After1Takes, After3Takes, AfterGTakes

-----------------------------------------------------------------------------
\* Which frames are on their way after a channel has been written or read.
LEMMA InTail ==
  ASSUME NEW s \in Seq(Frames), s # <<>>
  PROVE  /\ Head(s) \in In(s) /\ Head(s) \in Frames
         /\ Tail(s) \in Seq(Frames) /\ In(Tail(s)) \subseteq In(s)
  <1>1. Len(s) \in Nat /\ Len(s) >= 1 /\ DOMAIN s = 1..Len(s)
    OBVIOUS
  <1>2. Head(s) = s[1] /\ 1 \in DOMAIN s
    BY <1>1
  <1>3. ASSUME NEW k \in DOMAIN Tail(s)
        PROVE  Tail(s)[k] = s[k + 1] /\ k + 1 \in DOMAIN s
    BY <1>1
  <1>. QED
    BY <1>2, <1>3 DEF In

\* A frame sent.
LEMMA InAppend ==
  ASSUME NEW s \in Seq(Frames), NEW e \in Frames
  PROVE  /\ Append(s, e) \in Seq(Frames) /\ In(Append(s, e)) = In(s) \cup {e}
         /\ s \o <<e>> = Append(s, e)
  <1>1. Len(s) \in Nat /\ DOMAIN s = 1..Len(s) /\ DOMAIN Append(s, e) = 1..Len(s) + 1
    OBVIOUS
  <1>2. \A k \in DOMAIN s : Append(s, e)[k] = s[k]
    OBVIOUS
  <1>3. Append(s, e)[Len(s) + 1] = e
    OBVIOUS
  <1>4. In(Append(s, e)) \subseteq In(s) \cup {e}
    <2>. SUFFICES ASSUME NEW k \in DOMAIN Append(s, e)
                  PROVE  Append(s, e)[k] \in In(s) \cup {e}
      BY DEF In
    <2>1. CASE k = Len(s) + 1
      BY <1>3, <2>1
    <2>2. CASE k \in DOMAIN s
      BY <1>2, <2>2 DEF In
    <2>. QED
      BY <1>1, <2>1, <2>2
  <1>5. In(s) \cup {e} \subseteq In(Append(s, e))
    BY <1>1, <1>2, <1>3 DEF In
  <1>6. s \o <<e>> = Append(s, e)
    OBVIOUS
  <1>. QED
    BY <1>4, <1>5, <1>6

\* The next frame twice.
LEMMA InAgain ==
  ASSUME NEW s \in Seq(Frames), s # <<>>
  PROVE  <<Head(s)>> \o s \in Seq(Frames) /\ In(<<Head(s)>> \o s) \subseteq In(s)
  <1>. DEFINE t == <<Head(s)>> \o s
  <1>1. Len(s) \in Nat /\ DOMAIN s = 1..Len(s)
    OBVIOUS
  <1>2. t \in Seq(Frames) /\ Len(t) = Len(s) + 1 /\ DOMAIN t = 1..Len(s) + 1
    BY InTail
  <1>3. ASSUME NEW k \in DOMAIN t
        PROVE  t[k] \in In(s)
    <2>1. CASE k = 1
      BY <2>1, InTail
    <2>2. CASE k # 1
      <3>1. k - 1 \in DOMAIN s /\ t[k] = s[k - 1]
        BY <1>1, <1>2, <2>2
      <3>. QED
        BY <3>1 DEF In
    <2>. QED
      BY <2>1, <2>2
  <1>. QED
    BY <1>2, <1>3 DEF In

\* What is on its way are frames.
LEMMA InTyped ==
  ASSUME NEW s \in Seq(Frames)
  PROVE  In(s) \subseteq Frames
  BY DEF In

-----------------------------------------------------------------------------
\* The handling of a frame of the present exchange makes the supplicant's keys those of
\* the access point; that of an older one cannot undo it.
LEMMA ProcessStep ==
  ASSUME Typing, Nonces, Installs, Ready, Downstream, Upstream, Completion, ended = "no",
         NEW f \in In(toSta), Process(f), ap' = ap,
         toSta' \in Seq(Frames), In(toSta') \subseteq In(toSta)
  PROVE  Typing' /\ Nonces' /\ Installs' /\ Ready' /\ Downstream' /\ Upstream' /\ Completion'
  <1>1. f \in Frames
    BY InTyped DEF Typing
  <1>2. sm' \in Supplicants /\ (Took1(f) \/ Took3(f) \/ TookG(f) \/ Left)
    BY <1>1, ProcessTakes
  <1>3. /\ sm.snonce \in Nat /\ sm.installs \in Nat /\ sm.counter \in Nat
        /\ sm.ptk \in Nat \X Nat /\ sm.installed \in Nat \X Nat
        /\ ap.ptk \in Nat \X Nat /\ ap.from \in Nat /\ ap.c \in Nat
        /\ f.c \in Nat /\ f.nonce \in Nat /\ f.mic \in Nat \X Nat /\ f.gtk \in Nat
    BY <1>1 DEF Typing, Supplicants, AccessPoints, Frames, Keys
  <1>4. /\ f.c <= ap.c
        /\ f.kind \in Keyed => f.gtk # 0 /\ f.mic[2] <= ap.ptk[2]
        /\ f.kind \in Keyed /\ f.c >= ap.from => f.mic = ap.ptk /\ f.gtk = ap.gtk
    BY DEF Downstream
  <1>5. Downstream'
    BY DEF Downstream
  <1>6. Nonces' /\ Installs'
    <2>1. CASE Took1(f)
      <3>1. sm'.ptk[2] = sm'.snonce
        BY <1>3, <2>1 DEF Took1
      <3>2. /\ sm'.snonce = sm.snonce + 1
            /\ sm'.installed = sm.installed /\ sm'.installs = sm.installs
        BY <2>1 DEF Took1
      <3>3. /\ sm.installed[2] \in Nat /\ sm.installed[2] <= sm.snonce
            /\ ap.ptk[2] \in Nat /\ ap.ptk[2] <= sm.snonce /\ sm.installs <= sm.snonce
        BY <1>3 DEF Nonces, Installs
      <3>4. /\ sm.installed[2] <= sm.snonce + 1 /\ sm.installed[2] < sm.snonce + 1
            /\ ap.ptk[2] <= sm.snonce + 1
            /\ sm.installs <= sm.snonce + 1 /\ sm.installs < sm.snonce + 1
        <4>. DEFINE m == sm.installed[2]
                    k == ap.ptk[2]
        <4>1. /\ m \in Nat /\ m <= sm.snonce /\ k \in Nat /\ k <= sm.snonce
              /\ sm.snonce \in Nat /\ sm.installs \in Nat /\ sm.installs <= sm.snonce
          BY <1>3, <3>3, Zenon
        <4>. HIDE DEF m, k
        <4>2. /\ m <= sm.snonce + 1 /\ m < sm.snonce + 1 /\ k <= sm.snonce + 1
              /\ sm.installs <= sm.snonce + 1 /\ sm.installs < sm.snonce + 1
          BY <4>1
        <4>. QED
          BY <4>2, Zenon DEF m, k
      <3>. QED
        BY <3>1, <3>2, <3>4, Zenon DEF Nonces, Installs
    <2>2. CASE Took3(f)
      <3>1. sm'.state # "4WAY_2_SENT"
        BY <2>2 DEF Took3
      <3>. QED
        BY <1>3, <2>2, <3>1 DEF Nonces, Installs, Took3
    <2>3. CASE TookG(f) \/ Left
      <3>1. /\ sm'.snonce = sm.snonce /\ sm'.ptk = sm.ptk
            /\ sm'.installed = sm.installed /\ sm'.installs = sm.installs
            /\ sm'.state = "4WAY_2_SENT" => sm.state = "4WAY_2_SENT"
        BY <2>3 DEF TookG, Left
      <3>. QED
        BY <3>1 DEF Nonces, Installs
    <2>. QED
      BY <1>2, <2>1, <2>2, <2>3
  <1>7. Ready'
    BY <1>2, <1>4 DEF Ready, Took1, Took3, TookG, Left, Keyed
  <1>8. ASSUME NEW e \in Frames, toAp' = toAp \/ toAp' = toAp \o <<e>>
        PROVE  toAp' \in Seq(Frames) /\ In(toAp') \subseteq In(toAp) \cup {e}
    <2>1. toAp \in Seq(Frames)
      BY DEF Typing
    <2>2. CASE toAp' = toAp
      BY <2>1, <2>2
    <2>3. CASE toAp' = toAp \o <<e>>
      BY <1>8, <2>1, <2>3, InAppend
    <2>. QED
      BY <1>8, <2>2, <2>3
  <1>9. CASE Left
    <2>1. UNCHANGED <<sm, toAp, ap>>
      BY <1>9 DEF Left
    <2>2. Typing' /\ Upstream'
      BY <2>1 DEF Typing, Upstream
    <2>3. Completion'
      BY <2>1 DEF Completion, Confirmed, Confirms, Agree
    <2>. QED
      BY <1>5, <1>6, <1>7, <2>2, <2>3
  <1>10. CASE Took1(f)
    <2>. DEFINE e == Frame("msg2", f.c, sm.snonce + 1, sm'.ptk, 0)
    <2>1. e \in Frames /\ e.kind = "msg2" /\ e.c = f.c /\ e.nonce = sm.snonce + 1
      <3>1. sm'.ptk \in Keys
        BY <1>2 DEF Supplicants
      <3>2. sm.snonce + 1 \in Nat
        BY <1>3
      <3>. QED
        BY <1>3, <3>1, <3>2 DEF Frame, Frames, ToAp
    <2>2. toAp' = toAp \/ toAp' = toAp \o <<e>>
      BY <1>10 DEF Took1, Replies
    <2>3. sm'.snonce = sm.snonce + 1 /\ sm'.installed = sm.installed /\ sm'.gtk = sm.gtk
          /\ sm'.state # "GROUP_HS_READY"
      BY <1>10 DEF Took1
    <2>. HIDE DEF e
    <2>4. toAp' \in Seq(Frames) /\ In(toAp') \subseteq In(toAp) \cup {e}
      BY <1>8, <2>1, <2>2
    <2>5. Typing'
      BY <1>2, <2>4 DEF Typing
    <2>6. Upstream'
      <3>. SUFFICES ASSUME NEW g \in In(toAp')
                    PROVE  /\ g.c <= ap.c
                           /\ g.kind = "msg2" => g.nonce <= sm.snonce + 1
                           /\ g.kind = "msg2" /\ g.c >= ap.from => ap.ptk[2] <= g.nonce
        BY <2>3 DEF Upstream
      <3>1. CASE g = e
        BY <1>3, <1>4, <2>1, <3>1 DEF Nonces
      <3>2. CASE g \in In(toAp)
        <4>1. g.nonce \in Nat
          BY <3>2, InTyped DEF Typing, Frames
        <4>2. /\ g.c <= ap.c
              /\ g.kind = "msg2" => g.nonce <= sm.snonce
              /\ g.kind = "msg2" /\ g.c >= ap.from => ap.ptk[2] <= g.nonce
          BY <3>2 DEF Upstream
        <4>. QED
          BY <1>3, <4>1, <4>2
      <3>. QED
        BY <2>4, <3>1, <3>2
    <2>7. Completion'
      <3>1. Confirmed' => Confirmed
        BY <2>1, <2>4 DEF Confirmed, Confirms
      <3>. QED
        BY <2>3, <3>1 DEF Completion, Agree
    <2>. QED
      BY <1>5, <1>6, <1>7, <2>5, <2>6, <2>7
  <1>11. ASSUME NEW e \in Frames, e.kind \in {"msg4", "group2"}, e.c = f.c, e.mic = sm.ptk,
                toAp' = toAp \/ toAp' = toAp \o <<e>>, sm'.snonce = sm.snonce,
                Confirmed \/ (f.c >= ap.from /\ f.mic = ap.ptk) => ended' = "local" \/ Agree',
                f.mic = sm.ptk
         PROVE  Typing' /\ Upstream' /\ Completion'
    <2>1. toAp' \in Seq(Frames) /\ In(toAp') \subseteq In(toAp) \cup {e}
      BY <1>8, <1>11
    <2>2. Typing'
      BY <1>2, <2>1 DEF Typing
    <2>3. Upstream'
      <3>. SUFFICES ASSUME NEW g \in In(toAp')
                    PROVE  /\ g.c <= ap.c
                           /\ g.kind = "msg2" => g.nonce <= sm.snonce
                           /\ g.kind = "msg2" /\ g.c >= ap.from => ap.ptk[2] <= g.nonce
        BY <1>11 DEF Upstream
      <3>1. CASE g = e
        BY <1>4, <1>11, <3>1
      <3>2. CASE g \in In(toAp)
        BY <3>2 DEF Upstream
      <3>. QED
        BY <2>1, <3>1, <3>2
    <2>4. Confirmed' => Confirmed \/ (f.c >= ap.from /\ f.mic = ap.ptk)
      BY <1>11, <2>1 DEF Confirmed, Confirms
    <2>5. ASSUME Confirmed', ended' # "local"
          PROVE  Agree'
      <3>1. Confirmed \/ (f.c >= ap.from /\ f.mic = ap.ptk)
        BY <2>4, <2>5
      <3>. QED
        BY <1>11, <2>5, <3>1
    <2>6. Completion'
      BY <2>5 DEF Completion
    <2>. QED
      BY <2>2, <2>3, <2>6
  <1>12. CASE Took3(f)
    <2>. DEFINE e == Frame("msg4", f.c, 0, sm.ptk, 0)
    <2>1. e \in Frames /\ e.kind = "msg4" /\ e.c = f.c /\ e.mic = sm.ptk
      BY <1>3 DEF Frame, Frames, ToAp, ToSta, Keys
    <2>2. toAp' = toAp \/ toAp' = toAp \o <<e>>
      BY <1>12 DEF Took3, Replies
    <2>3. ~Confirmed
      BY <1>3, <1>4, <1>12 DEF Took3, Keyed, Completion, Agree, Nonces
    <2>4. ASSUME f.c >= ap.from, f.mic = ap.ptk, ended' # "local"
          PROVE  Agree'
      BY <1>4, <1>12, <2>4 DEF Took3, Keyed, Agree
    <2>. HIDE DEF e
    <2>5. f.mic = sm.ptk /\ sm'.snonce = sm.snonce
      BY <1>12 DEF Took3
    <2>. QED
      BY <1>5, <1>6, <1>7, <1>11, <2>1, <2>2, <2>3, <2>4, <2>5
  <1>13. CASE TookG(f)
    <2>. DEFINE e == Frame("group2", f.c, 0, sm.ptk, 0)
    <2>1. e \in Frames /\ e.kind = "group2" /\ e.c = f.c /\ e.mic = sm.ptk
      BY <1>3 DEF Frame, Frames, ToAp, ToSta, Keys
    <2>2. toAp' = toAp \/ toAp' = toAp \o <<e>>
      BY <1>13 DEF TookG, Replies
    <2>3. Confirmed => f.c >= ap.from
      BY <1>3, <1>13 DEF TookG, Completion, Agree
    <2>4. ASSUME f.c >= ap.from, ended' # "local"
          PROVE  Agree'
      BY <1>3, <1>4, <1>13, <2>4 DEF TookG, Keyed, Agree, Ready
    <2>. HIDE DEF e
    <2>5. f.mic = sm.ptk /\ sm'.snonce = sm.snonce
      BY <1>13 DEF TookG
    <2>. QED
      BY <1>5, <1>6, <1>7, <1>11, <2>1, <2>2, <2>3, <2>4, <2>5
  <1>. QED
    BY <1>2, <1>9, <1>10, <1>12, <1>13

-----------------------------------------------------------------------------
\* A frame the access point sends is typed, and its next state too.
LEMMA SendTyped ==
  ASSUME Typing, NEW a \in AccessPoints, NEW kind \in ToSta, Send(kind, a)
  PROVE  \E e \in Frames :
           /\ toSta' \in Seq(Frames) /\ In(toSta') = In(toSta) \cup {e}
           /\ ap' \in AccessPoints /\ ap' = [a EXCEPT !.c = ap.c + 1]
           /\ e.kind = kind /\ e.c = ap.c + 1
           /\ kind \in Keyed => e.mic = a.ptk /\ e.gtk = a.gtk
  <1>. DEFINE nonce == IF kind = "group1" THEN 0 ELSE a.anonce
              mic == IF kind = "msg1" THEN NoKey ELSE a.ptk
              gtk == IF kind = "msg1" THEN 0 ELSE a.gtk
              e == Frame(kind, ap.c + 1, nonce, mic, gtk)
  <1>1. toSta' = Append(toSta, e) /\ ap' = [a EXCEPT !.c = ap.c + 1]
    BY DEF Send
  <1>2. ap.c + 1 \in Nat /\ nonce \in Nat /\ mic \in Keys /\ gtk \in Nat
    BY DEF Typing, AccessPoints, NoKey, Keys
  <1>3. e \in Frames /\ e.kind = kind /\ e.c = ap.c + 1
        /\ (kind \in Keyed => e.mic = a.ptk /\ e.gtk = a.gtk)
    <2>1. kind \in Keyed => mic = a.ptk /\ gtk = a.gtk
      BY DEF Keyed
    <2>. HIDE DEF nonce, mic, gtk
    <2>. QED
      BY <1>2, <2>1 DEF Frame, Frames
  <1>4. ap' \in AccessPoints
    BY <1>1, <1>2 DEF AccessPoints
  <1>. HIDE DEF e
  <1>5. toSta' \in Seq(Frames) /\ In(toSta') = In(toSta) \cup {e}
    BY <1>1, <1>3, InAppend DEF Typing
  <1>. QED
    BY <1>1, <1>3, <1>4, <1>5

\* The first frame of an exchange: all others on their way belong to earlier ones.
LEMMA BeginStep ==
  ASSUME Typing, Nonces, Installs, Ready, Downstream, Upstream,
         NEW a \in AccessPoints, NEW kind \in ToSta, Send(kind, a),
         a.from = ap.c + 1, a.state # "done", a.gtk # 0,
         ap.ptk[2] <= a.ptk[2], a.ptk[2] <= sm.snonce,
         sm' = sm, toAp' \in Seq(Frames), In(toAp') \subseteq In(toAp)
  PROVE  Typing' /\ Nonces' /\ Installs' /\ Ready' /\ Downstream' /\ Upstream' /\ Completion'
  <1>1. PICK e \in Frames :
           /\ toSta' \in Seq(Frames) /\ In(toSta') = In(toSta) \cup {e}
           /\ ap' \in AccessPoints /\ ap' = [a EXCEPT !.c = ap.c + 1]
           /\ e.kind = kind /\ e.c = ap.c + 1
           /\ kind \in Keyed => e.mic = a.ptk /\ e.gtk = a.gtk
    BY SendTyped
  <1>2. /\ ap'.c = ap.c + 1 /\ ap'.from = ap.c + 1 /\ ap'.state # "done"
        /\ ap'.ptk = a.ptk /\ ap'.gtk = a.gtk
    BY <1>1 DEF AccessPoints
  <1>3. Typing'
    BY <1>1 DEF Typing
  <1>4. Nonces' /\ Installs' /\ Ready'
    BY <1>2 DEF Nonces, Installs, Ready
  <1>5. /\ ap.c \in Nat /\ In(toSta) \subseteq Frames /\ In(toAp) \subseteq Frames
        /\ ap.ptk \in Keys /\ a.ptk \in Keys
    BY InTyped DEF Typing, AccessPoints
  <1>6. Downstream'
    <2>. SUFFICES ASSUME NEW g \in In(toSta')
                  PROVE  /\ g.c <= ap.c + 1
                         /\ g.kind \in Keyed => g.gtk # 0 /\ g.mic[2] <= a.ptk[2]
                         /\ g.kind \in Keyed /\ g.c >= ap.c + 1 => g.mic = a.ptk /\ g.gtk = a.gtk
      BY <1>2 DEF Downstream
    <2>. DEFINE m == a.ptk[2]
                k == ap.ptk[2]
                n == g.mic[2]
    <2>1. m \in Nat /\ k \in Nat /\ k <= m
      BY <1>5 DEF Keys
    <2>2. g \in Frames /\ g.c \in Nat /\ n \in Nat
      BY <1>1, <1>5 DEF Frames, Keys
    <2>3. CASE g = e
      <3>1. m <= m
        <4>. HIDE DEF m
        <4>. QED
          BY <2>1
      <3>. QED
        BY <1>1, <1>5, <2>3, <3>1
    <2>4. CASE g \in In(toSta)
      <3>1. g.c <= ap.c /\ (g.kind \in Keyed => g.gtk # 0 /\ n <= k)
        BY <2>4 DEF Downstream
      <3>2. g.c <= ap.c + 1 /\ ~(g.c >= ap.c + 1) /\ (n <= k => n <= m)
        <4>. HIDE DEF m, k, n
        <4>. QED
          BY <1>5, <2>1, <2>2, <3>1
      <3>. QED
        BY <3>1, <3>2
    <2>. QED
      BY <1>1, <2>3, <2>4
  <1>7. ASSUME NEW g \in In(toAp')
        PROVE  g \in In(toAp) /\ g.c <= ap.c + 1 /\ ~(g.c >= ap.c + 1)
    <2>1. g \in In(toAp) /\ g.c \in Nat /\ g.c <= ap.c
      BY <1>5 DEF Upstream, Frames
    <2>. QED
      BY <1>5, <2>1
  <1>8. Upstream'
    BY <1>2, <1>7 DEF Upstream
  <1>9. Completion'
    BY <1>2, <1>7 DEF Completion, Confirmed, Confirms
  <1>. QED
    BY <1>3, <1>4, <1>6, <1>8, <1>9

\* A repeated frame has the same keys and belongs to the same exchange.
LEMMA RepeatStep ==
  ASSUME Typing, Nonces, Installs, Ready, Downstream, Upstream, Completion, Repeat
  PROVE  Typing' /\ Nonces' /\ Installs' /\ Ready' /\ Downstream' /\ Upstream' /\ Completion'
  <1>. DEFINE n == ap.tries + 1
              a == [ap EXCEPT !.tries = n]
              kind == Asks[ap.state]
  <1>1. n \in Nat /\ ap.state \in {"wait2", "wait4", "waitGroup"}
    BY DEF Typing, AccessPoints, Repeat, Asks
  <1>2. a = [ap EXCEPT !.tries = @ + 1]
    BY DEF Typing, AccessPoints
  <1>. HIDE DEF n
  <1>3. a \in AccessPoints /\ a.from = ap.from /\ a.state = ap.state /\ a.ptk = ap.ptk
        /\ a.gtk = ap.gtk
    BY <1>1 DEF Typing, AccessPoints
  <1>4. kind \in ToSta
    BY <1>1 DEF Asks, ToSta
  <1>5. Send(kind, a) /\ UNCHANGED <<sm, toAp, ended>>
    BY <1>2 DEF Repeat
  <1>. HIDE DEF a, kind
  <1>6. PICK e \in Frames :
           /\ toSta' \in Seq(Frames) /\ In(toSta') = In(toSta) \cup {e}
           /\ ap' \in AccessPoints /\ ap' = [a EXCEPT !.c = ap.c + 1]
           /\ e.kind = kind /\ e.c = ap.c + 1
           /\ kind \in Keyed => e.mic = a.ptk /\ e.gtk = a.gtk
    BY <1>3, <1>4, <1>5, SendTyped
  <1>7. /\ ap'.c = ap.c + 1 /\ ap'.from = ap.from /\ ap'.state = ap.state
        /\ ap'.ptk = ap.ptk /\ ap'.gtk = ap.gtk
    BY <1>3, <1>6 DEF AccessPoints
  <1>8. Typing'
    BY <1>5, <1>6 DEF Typing
  <1>9. Nonces' /\ Installs' /\ Ready'
    BY <1>5, <1>7 DEF Nonces, Installs, Ready
  <1>10. ap.c \in Nat /\ In(toSta) \subseteq Frames /\ In(toAp) \subseteq Frames /\ ap.ptk \in Keys
    BY InTyped DEF Typing, AccessPoints
  <1>11. Downstream'
    <2>. SUFFICES ASSUME NEW g \in In(toSta')
                  PROVE  /\ g.c <= ap.c + 1
                         /\ g.kind \in Keyed => g.gtk # 0 /\ g.mic[2] <= ap.ptk[2]
                         /\ g.kind \in Keyed /\ g.c >= ap.from => g.mic = ap.ptk /\ g.gtk = ap.gtk
      BY <1>7 DEF Downstream
    <2>1. CASE g = e
      <3>1. ap.ptk[2] <= ap.ptk[2]
        <4>. DEFINE k == ap.ptk[2]
        <4>1. k \in Nat
          BY <1>10 DEF Keys
        <4>. HIDE DEF k
        <4>2. k <= k
          BY <4>1
        <4>. QED
          BY <4>2 DEF k
      <3>. QED
        BY <1>3, <1>6, <1>10, <2>1, <3>1 DEF Downstream
    <2>2. CASE g \in In(toSta)
      <3>1. g.c \in Nat /\ g.c <= ap.c
        BY <1>10, <2>2 DEF Frames, Downstream
      <3>. QED
        BY <1>10, <2>2, <3>1 DEF Downstream
    <2>. QED
      BY <1>6, <2>1, <2>2
  <1>12. Upstream'
    <2>1. ASSUME NEW g \in In(toAp)
          PROVE  g.c <= ap.c + 1
      <3>1. g.c \in Nat /\ g.c <= ap.c
        BY <1>10 DEF Frames, Upstream
      <3>. QED
        BY <1>10, <3>1
    <2>. QED
      BY <1>5, <1>7, <2>1 DEF Upstream
  <1>13. Completion'
    BY <1>5, <1>7 DEF Completion, Confirmed, Confirms, Agree
  <1>. QED
    BY <1>8, <1>9, <1>11, <1>12, <1>13

\* What an access point step begins or repeats, or ends an exchange with.
LEMMA HandshakeBegins ==
  ASSUME Typing, Nonces, Installs, Ready, Downstream, Upstream, StartHandshake,
         UNCHANGED <<sm, toAp, ended>>
  PROVE  Typing' /\ Nonces' /\ Installs' /\ Ready' /\ Downstream' /\ Upstream' /\ Completion'
  <1>. DEFINE n == ap.anonce + 1
              m == ap.c + 1
              b == [ap EXCEPT !.anonce = n]
              a == [b EXCEPT !.state = "wait2", !.from = m, !.tries = 1]
  <1>1. n \in Nat /\ m \in Nat /\ b = [ap EXCEPT !.anonce = @ + 1]
    BY DEF Typing, AccessPoints
  <1>2. Send("msg1", a)
    BY <1>1 DEF StartHandshake, Begin, Asks
  <1>3. m = ap.c + 1
    OBVIOUS
  <1>. HIDE DEF n, m
  <1>4. /\ a \in AccessPoints /\ a.from = m /\ a.state = "wait2"
        /\ a.gtk = ap.gtk /\ a.ptk = ap.ptk
    BY <1>1 DEF Typing, AccessPoints
  <1>. HIDE DEF a, b
  <1>5. ap.ptk[2] <= ap.ptk[2]
    <2>. DEFINE k == ap.ptk[2]
    <2>1. k \in Nat
      BY DEF Typing, AccessPoints, Keys
    <2>. HIDE DEF k
    <2>2. k <= k
      BY <2>1
    <2>. QED
      BY <2>2 DEF k
  <1>6. ap.gtk # 0 /\ ap.ptk[2] <= sm.snonce
    BY DEF Downstream, Nonces
  <1>7. toAp' \in Seq(Frames) /\ In(toAp') \subseteq In(toAp) /\ "msg1" \in ToSta
    BY DEF Typing, ToSta
  <1>. QED
    BY <1>2, <1>3, <1>4, <1>5, <1>6, <1>7, BeginStep

\* The same for a group handshake.
LEMMA GroupBegins ==
  ASSUME Typing, Nonces, Installs, Ready, Downstream, Upstream, StartGroup
  PROVE  Typing' /\ Nonces' /\ Installs' /\ Ready' /\ Downstream' /\ Upstream' /\ Completion'
  <1>. DEFINE n == ap.gtk + 1
              m == ap.c + 1
              b == [ap EXCEPT !.gtk = n]
              a == [b EXCEPT !.state = "waitGroup", !.from = m, !.tries = 1]
  <1>1. n \in Nat /\ n # 0 /\ m \in Nat /\ b = [ap EXCEPT !.gtk = @ + 1]
    BY DEF Typing, AccessPoints
  <1>2. Send("group1", a)
    BY <1>1 DEF StartGroup, Begin, Asks
  <1>3. m = ap.c + 1 /\ UNCHANGED <<sm, toAp, ended>>
    BY DEF StartGroup
  <1>. HIDE DEF n, m
  <1>4. /\ a \in AccessPoints /\ a.from = m /\ a.state = "waitGroup"
        /\ a.gtk = n /\ a.ptk = ap.ptk
    BY <1>1 DEF Typing, AccessPoints
  <1>. HIDE DEF a, b
  <1>5. ap.ptk[2] <= ap.ptk[2]
    <2>. DEFINE k == ap.ptk[2]
    <2>1. k \in Nat
      BY DEF Typing, AccessPoints, Keys
    <2>. HIDE DEF k
    <2>2. k <= k
      BY <2>1
    <2>. QED
      BY <2>2 DEF k
  <1>6. ap.ptk[2] <= sm.snonce
    BY DEF Nonces
  <1>7. toAp' \in Seq(Frames) /\ In(toAp') \subseteq In(toAp) /\ "group1" \in ToSta
    BY <1>3 DEF Typing, ToSta
  <1>. QED
    BY <1>1, <1>2, <1>3, <1>4, <1>5, <1>6, <1>7, BeginStep

\* An answer taken or left: message 2 leads to message 3 with its key, the others to "done".
LEMMA ApReceiveStep ==
  ASSUME Typing, Nonces, Installs, Ready, Downstream, Upstream, Completion, ApReceive
  PROVE  Typing' /\ Nonces' /\ Installs' /\ Ready' /\ Downstream' /\ Upstream' /\ Completion'
  <1>. DEFINE f == Head(toAp)
  <1>1. /\ f \in In(toAp) /\ f \in Frames /\ toAp' \in Seq(Frames)
        /\ In(toAp') \subseteq In(toAp) /\ UNCHANGED <<sm, ended>>
    BY InTail DEF ApReceive, Typing
  <1>2. \/ UNCHANGED <<ap, toSta>>
        \/ /\ Answers(f) /\ f.kind = "msg2"
           /\ Begin("wait4", [ap EXCEPT !.ptk = f.mic])
        \/ /\ Answers(f) /\ f.kind # "msg2"
           /\ ap' = [ap EXCEPT !.state = "done"] /\ UNCHANGED toSta
    BY Zenon DEF ApReceive
  <1>. HIDE DEF f
  <1>3. CASE UNCHANGED <<ap, toSta>>
    <2>1. Typing' /\ Nonces' /\ Installs' /\ Ready' /\ Downstream'
      BY <1>1, <1>3 DEF Typing, Nonces, Installs, Ready, Downstream
    <2>2. Upstream' /\ Completion'
      BY <1>1, <1>3 DEF Upstream, Completion, Confirmed, Confirms, Agree
    <2>. QED
      BY <2>1, <2>2
  <1>4. CASE Answers(f) /\ f.kind = "msg2" /\ Begin("wait4", [ap EXCEPT !.ptk = f.mic])
    <2>. DEFINE m == ap.c + 1
                b == [ap EXCEPT !.ptk = f.mic]
                a == [b EXCEPT !.state = "wait4", !.from = m, !.tries = 1]
    <2>1. Send("msg3", a) /\ m = ap.c + 1 /\ m \in Nat
      BY <1>4 DEF Begin, Asks, Typing, AccessPoints
    <2>. HIDE DEF m
    <2>2. /\ a \in AccessPoints /\ a.from = m /\ a.state = "wait4"
          /\ a.gtk = ap.gtk /\ a.ptk = f.mic
      BY <1>1, <2>1 DEF Typing, AccessPoints, Frames
    <2>. HIDE DEF a, b
    <2>3. f.c \in Nat /\ ap.from \in Nat /\ ap.c \in Nat /\ f.c >= ap.from
      BY <1>1, <1>4 DEF Answers, Typing, AccessPoints, Frames
    <2>4. f.mic = <<ap.anonce, f.nonce>>
      BY <1>4 DEF Answers
    <2>5. ap.ptk[2] <= f.nonce /\ f.nonce <= sm.snonce
      BY <1>1, <1>4, <2>3 DEF Upstream
    <2>6. ap.ptk[2] <= a.ptk[2] /\ a.ptk[2] <= sm.snonce /\ a.gtk # 0
      BY <2>2, <2>4, <2>5 DEF Downstream
    <2>7. "msg3" \in ToSta
      BY DEF ToSta
    <2>. QED
      BY <1>1, <2>1, <2>2, <2>6, <2>7, BeginStep
  <1>5. CASE Answers(f) /\ f.kind # "msg2" /\ ap' = [ap EXCEPT !.state = "done"]
             /\ UNCHANGED toSta
    <2>1. f.c \in Nat /\ ap.from \in Nat /\ ap.c \in Nat /\ f.c >= ap.from
      BY <1>1, <1>5 DEF Answers, Typing, AccessPoints, Frames
    <2>2. Confirms(f)
      BY <1>5, <2>1 DEF Answers, Confirms
    <2>3. ended = "local" \/ Agree
      BY <1>1, <2>2 DEF Completion, Confirmed
    <2>4. /\ ap' \in AccessPoints /\ ap'.c = ap.c /\ ap'.from = ap.from
          /\ ap'.ptk = ap.ptk /\ ap'.gtk = ap.gtk
      BY <1>5 DEF Typing, AccessPoints
    <2>5. Typing' /\ Nonces' /\ Installs' /\ Ready' /\ Downstream'
      BY <1>1, <1>5, <2>4 DEF Typing, Nonces, Installs, Ready, Downstream
    <2>6. Upstream'
      BY <1>1, <2>4 DEF Upstream
    <2>7. Completion'
      BY <1>1, <2>3, <2>4 DEF Completion, Agree
    <2>. QED
      BY <2>5, <2>6, <2>7
  <1>. QED
    BY <1>2, <1>3, <1>4, <1>5

\* The access point gives up, or the network loses or repeats a frame.
LEMMA LossStep ==
  ASSUME Typing, Nonces, Installs, Ready, Downstream, Upstream, Completion,
         GiveUp \/ Lose \/ Duplicate
  PROVE  Typing' /\ Nonces' /\ Installs' /\ Ready' /\ Downstream' /\ Upstream' /\ Completion'
  <1>1. CASE GiveUp
    <2>1. UNCHANGED <<sm, toSta, toAp, ended>>
      BY <1>1 DEF GiveUp
    <2>2. /\ ap' \in AccessPoints /\ ap'.c = ap.c /\ ap'.from = ap.from /\ ap'.state # "done"
          /\ ap'.ptk = ap.ptk /\ ap'.gtk = ap.gtk
      BY <1>1 DEF GiveUp, Typing, AccessPoints
    <2>3. Typing' /\ Nonces' /\ Installs' /\ Ready' /\ Downstream'
      BY <2>1, <2>2 DEF Typing, Nonces, Installs, Ready, Downstream
    <2>4. Upstream' /\ Completion'
      BY <2>1, <2>2 DEF Upstream, Completion, Confirmed, Confirms, Agree
    <2>. QED
      BY <2>3, <2>4
  <1>2. CASE Lose \/ Duplicate
    <2>1. /\ toSta' \in Seq(Frames) /\ In(toSta') \subseteq In(toSta)
          /\ toAp' \in Seq(Frames) /\ In(toAp') \subseteq In(toAp)
      BY <1>2, InTail, InAgain DEF Lose, Duplicate, Typing
    <2>2. UNCHANGED <<sm, ap, ended>>
      BY <1>2 DEF Lose, Duplicate
    <2>3. Typing' /\ Nonces' /\ Installs' /\ Ready' /\ Downstream'
      BY <2>1, <2>2 DEF Typing, Nonces, Installs, Ready, Downstream
    <2>4. Upstream' /\ Completion'
      BY <2>1, <2>2 DEF Upstream, Completion, Confirmed, Confirms, Agree
    <2>. QED
      BY <2>3, <2>4
  <1>. QED
    BY <1>1, <1>2

-----------------------------------------------------------------------------
\* Every step keeps the invariant.
LEMMA HandshakeStep ==
  ASSUME Context, Handshake, [Next]_vars
  PROVE  Handshake'
  <1>. DEFINE Kept == /\ Typing' /\ Nonces' /\ Installs' /\ Ready'
                      /\ Downstream' /\ Upstream' /\ Completion'
  <1>. USE DEF Handshake
  <1>1. UNCHANGED hsVars => Kept
    <2>. SUFFICES ASSUME UNCHANGED hsVars
                  PROVE  Kept
      OBVIOUS
    <2>1. UNCHANGED <<sm, ap, toSta, toAp, ended>>
      BY DEF hsVars, apVars
    <2>2. Typing' /\ Nonces' /\ Installs' /\ Ready' /\ Downstream'
      BY <2>1 DEF Typing, Nonces, Installs, Ready, Downstream
    <2>3. Upstream' /\ Completion'
      BY <2>1 DEF Upstream, Completion, Confirmed, Confirms, Agree
    <2>. QED
      BY <2>2, <2>3
  <1>2. CASE Main
    <2>. USE DEF MGoto, FailTo
    <2>1. CASE Associate
      <3>1. /\ UNCHANGED <<sm, toAp, ended, tpc>>
            /\ StartHandshake \/ UNCHANGED <<ap, toSta>>
        BY <2>1 DEF Associate
      <3>2. CASE StartHandshake
        BY <3>1, <3>2, HandshakeBegins DEF Running
      <3>3. CASE UNCHANGED <<ap, toSta>>
        <4>1. Typing' /\ Nonces' /\ Installs' /\ Ready' /\ Downstream'
          BY <3>1, <3>3 DEF Typing, Nonces, Installs, Ready, Downstream
        <4>2. Upstream' /\ Completion'
          BY <3>1, <3>3 DEF Upstream, Completion, Confirmed, Confirms, Agree
        <4>. QED
          BY <3>1, <4>1, <4>2 DEF Running
      <3>. QED
        BY <3>1, <3>2, <3>3
    <2>2. CASE LoopRun
      BY <1>1, <2>2 DEF LoopRun, Running, Context, hsVars
    <2>3. CASE Prepare \/ SetAssociated \/ WaitReady \/ WaitTimeout \/ Dhcp
               \/ LoopUnref \/ Join \/ Leave
      <3>1. UNCHANGED <<hsVars, tpc>>
        BY <2>3 DEF Prepare, SetAssociated, WaitReady, WaitTimeout, Dhcp, LoopUnref, Join, Leave
      <3>. QED
        BY <1>1, <3>1 DEF Running, hsVars
    <2>. QED
      BY <1>2, <2>1, <2>2, <2>3 DEF Main
  <1>3. CASE Thread
    <2>. USE DEF TGoto
    <2>1. CASE ReadFrame
      <3>1. /\ toSta # <<>> /\ toSta' = Tail(toSta) /\ ap' = ap /\ tpc = "reading"
            /\ tpc' = IF ended' = "no" THEN "locking" ELSE "exiting"
        BY <2>1 DEF ReadFrame, apVars
      <3>2. Running'
        BY <3>1 DEF Running
      <3>3. ended = "no"
        BY <3>1 DEF Running
      <3>4. /\ Head(toSta) \in In(toSta) /\ toSta' \in Seq(Frames)
            /\ In(toSta') \subseteq In(toSta)
        BY <3>1, InTail DEF Typing
      <3>5. CASE associated
        <4>1. Process(Head(toSta))
          BY <2>1, <3>5 DEF ReadFrame
        <4>. QED
          BY <3>1, <3>2, <3>3, <3>4, <4>1, ProcessStep
      <3>6. CASE ~associated
        <4>1. UNCHANGED <<sm, toAp, ended>>
          BY <2>1, <3>6 DEF ReadFrame
        <4>2. Typing' /\ Nonces' /\ Installs' /\ Ready' /\ Downstream'
          BY <3>1, <3>4, <4>1 DEF Typing, Nonces, Installs, Ready, Downstream
        <4>3. Upstream' /\ Completion'
          BY <3>1, <4>1 DEF Upstream, Completion, Confirmed, Confirms, Agree
        <4>. QED
          BY <3>2, <4>2, <4>3
      <3>. QED
        BY <3>5, <3>6
    <2>2. CASE ThreadFails
      <3>1. UNCHANGED <<sm, ap, toSta, toAp>> /\ ended' = "local" /\ tpc' = "exiting"
        BY <2>2 DEF ThreadFails, apVars
      <3>2. Typing' /\ Nonces' /\ Installs' /\ Ready' /\ Downstream'
        BY <3>1 DEF Typing, Nonces, Installs, Ready, Downstream
      <3>3. Upstream' /\ Completion' /\ Running'
        BY <3>1 DEF Upstream, Completion, Running
      <3>. QED
        BY <3>2, <3>3
    <2>3. CASE PrepareSelect \/ Select \/ Cancelled \/ ReadForeign \/ ThreadExit
      <3>1. UNCHANGED hsVars
        BY <2>3 DEF PrepareSelect, Select, Cancelled, ReadForeign, ThreadExit
      <3>2. \/ tpc' \in {"exiting", "gone"}
            \/ tpc \in {"locking", "select", "reading"}
        BY <2>3 DEF PrepareSelect, Select, Cancelled, ReadForeign, ThreadExit
      <3>. QED
        BY <1>1, <3>1, <3>2 DEF Running, hsVars
    <2>. QED
      BY <1>3, <2>1, <2>2, <2>3 DEF Thread
  <1>4. CASE Answered \/ ApTimeout \/ ApTooEarly \/ ApRekey \/ Network
    <2>1. UNCHANGED tpc
      BY <1>4 DEF Answered, ApTimeout, ApTooEarly, ApRekey, Network
    <2>2. \/ ApReceive \/ Repeat \/ GiveUp \/ Lose \/ Duplicate \/ StartGroup
          \/ StartHandshake /\ UNCHANGED <<sm, toAp, ended>>
      BY <1>4 DEF Answered, ApTimeout, ApTooEarly, ApRekey, Network
    <2>3. Kept
      BY <2>2, ApReceiveStep, RepeatStep, LossStep, GroupBegins, HandshakeBegins
    <2>4. UNCHANGED ended
      BY <2>2 DEF ApReceive, Repeat, GiveUp, Lose, Duplicate, StartGroup
    <2>. QED
      BY <2>1, <2>3, <2>4 DEF Running
  <1>5. CASE UNCHANGED vars
    BY <1>1, <1>5 DEF vars, hsVars, Running
  <1>. QED
    BY <1>2, <1>3, <1>4, <1>5 DEF Next

\* Nothing is on its way in the beginning, and no key is installed.
LEMMA HandshakeInit == Init => Handshake
  <1>. SUFFICES ASSUME Init
                PROVE  Handshake
    OBVIOUS
  <1>. USE DEF Init, InitHandshake, NoKey
  <1>1. Typing
    BY DEF Typing, Supplicants, AccessPoints, States, Keys
  <1>2. In(toSta) = {} /\ In(toAp) = {}
    BY DEF In
  <1>3. Nonces /\ Installs /\ Ready /\ Running
    BY DEF Nonces, Installs, Ready, Running
  <1>4. Downstream /\ Upstream /\ Completion
    BY <1>2 DEF Downstream, Upstream, Completion, Confirmed
  <1>. QED
    BY <1>1, <1>3, <1>4 DEF Handshake

\* The invariant holds in every state.
LEMMA HandshakeHolds == Spec => []Handshake
  BY HandshakeInit, HandshakeStep, ContextHolds, PTL DEF Spec

\* A pairwise key is installed once, whatever is repeated or lost
\* (process_eapol_4way_msg_3(), wlan-core-eapol.c).
THEOREM KeyOnce == Spec => []PairwiseKeyInstalledOnce
  <1>1. Handshake => PairwiseKeyInstalledOnce
    BY DEF Handshake, Installs, PairwiseKeyInstalledOnce
  <1>. QED
    BY <1>1, HandshakeHolds, PTL

\* A completed handshake leaves the same keys on both sides, and READY stands for installed
\* keys and an open port (process_eapol_frame()).
THEOREM KeysAlwaysAgree == Spec => []KeysAgree
  <1>1. Handshake => KeysAgree
    BY DEF Handshake, Ready, Completion, Confirmed, Agree, KeysAgree
  <1>. QED
    BY <1>1, HandshakeHolds, PTL
-----------------------------------------------------------------------------
\* The access point asks at least two times more than the network fails.
Patient == MaxFaults + 1 < MaxTries

\* Frames come in the order of their counters.
Sorted(s) == \A j, k \in DOMAIN s : j <= k => s[j].c <= s[k].c

\* The access point has sent nothing yet, or message 1 that nobody has answered.
Beginning ==
  /\ sm.state = "PREAUTH" /\ toAp = <<>>
  /\ \/ ap.state = "idle" /\ toSta = <<>>
     \/ /\ ap.state = "wait2"
        /\ ap.tries <= faults + IF associated /\ toSta # <<>> THEN 2 ELSE 1
  /\ \A f \in In(toSta) : f.kind = "msg1" /\ f.c >= ap.from /\ f.nonce = ap.anonce

\* An answer that the access point accepts is on its way.
Answering ==
  /\ sm.state = "4WAY_2_SENT" /\ ap.state = "wait2" /\ associated
  /\ sm.anonce = ap.anonce /\ sm.counter <= ap.c
  /\ \A f \in In(toSta) : f.kind = "msg1"
  /\ \E f \in In(toAp) : f.c >= ap.from
  /\ \A f \in In(toAp) : f.c >= ap.from =>
       f.kind = "msg2" /\ f.mic = sm.ptk /\ f.mic = <<ap.anonce, f.nonce>>

\* The access point asks for message 4, with the keys of the supplicant.
Confirming ==
  /\ sm.state = "4WAY_2_SENT" /\ ap.state = "wait4" /\ associated
  /\ sm.anonce = ap.anonce /\ sm.ptk = ap.ptk /\ sm.counter < ap.from
  /\ \A f \in In(toSta) : \/ f.kind = "msg1" /\ f.c < ap.from
                          \/ f.kind = "msg3" /\ f.c >= ap.from /\ f.nonce = ap.anonce
  /\ \A f \in In(toAp) : f.c < ap.from
  /\ ap.tries <= faults + IF \E f \in In(toSta) : f.kind = "msg3" THEN 1 ELSE 0

\* Message 3 has come; a new handshake goes on from here.
Secured ==
  /\ sm.state = "GROUP_HS_READY" /\ ap.state # "idle" /\ associated
  /\ \A f \in In(toSta) : f.kind = "msg1" =>
       ap.state = "wait2" /\ f.c >= ap.from /\ f.nonce = ap.anonce
  /\ ap.state = "wait2" => /\ \A f \in In(toSta) : f.c >= ap.from => f.kind = "msg1"
                           /\ \A f \in In(toAp) : f.c < ap.from

\* How far the two are, as long as the test may still become READY.
Phase == /\ Sorted(toSta) /\ ap.from <= ap.c + 1
         /\ Beginning \/ Answering \/ Confirming \/ Secured

Waits == {"associating", "associated", "wait"}
Going == mpc \in Waits /\ tpc # "none" /\ ended = "no" /\ "msg2" \notin lost

\* What holds also when it cannot.
Ground ==
  /\ faults \in 0..MaxFaults
  /\ tpc = "exiting" => ended # "no"
  /\ tpc = "gone" => ended # "no" \/ mpc \in {"join", "remove", "end"}
  /\ mpc \in {"start", "run", "associating"} =>
       /\ ap.state = "idle" /\ ap.from <= ap.c + 1
       /\ toSta = <<>> /\ toAp = <<>> /\ sm.state = "PREAUTH"
  /\ mpc \in {"start", "run", "associating", "associated"} => ~associated
  /\ mpc = "wait" => associated
  /\ result = "timeout" => mpc \in {"unref", "join", "remove", "end"}
Progress == Ground /\ (Going => Phase)
-----------------------------------------------------------------------------
\* The frame that comes next and those behind it.
LEMMA InRest ==
  ASSUME NEW s \in Seq(Frames), s # <<>>
  PROVE  In(s) = {Head(s)} \cup In(Tail(s))
  <1>1. /\ Len(s) \in Nat /\ Len(s) >= 1 /\ DOMAIN s = 1..Len(s) /\ Head(s) = s[1]
        /\ DOMAIN Tail(s) = 1..(Len(s) - 1)
        /\ \A k \in 1..(Len(s) - 1) : Tail(s)[k] = s[k + 1]
    OBVIOUS
  <1>2. ASSUME NEW k \in DOMAIN s
        PROVE  s[k] \in {Head(s)} \cup In(Tail(s))
    <2>1. CASE k = 1
      BY <1>1, <2>1
    <2>2. CASE k # 1
      <3>1. k - 1 \in 1..(Len(s) - 1) /\ Tail(s)[k - 1] = s[k]
        BY <1>1, <2>2
      <3>. QED
        BY <1>1, <3>1 DEF In
    <2>. QED
      BY <2>1, <2>2
  <1>. QED
    BY <1>2, InTail DEF In

\* In order, the first one has the lowest counter.
LEMMA SortedTail ==
  ASSUME NEW s \in Seq(Frames), s # <<>>, Sorted(s)
  PROVE  /\ Sorted(Tail(s))
         /\ In(s) = {Head(s)} \cup In(Tail(s))
         /\ \A f \in In(s) : Head(s).c <= f.c
  <1>1. Len(s) \in Nat /\ Len(s) >= 1 /\ DOMAIN s = 1..Len(s) /\ Head(s) = s[1]
    OBVIOUS
  <1>2. /\ Tail(s) \in Seq(Frames) /\ Len(Tail(s)) = Len(s) - 1
        /\ DOMAIN Tail(s) = 1..(Len(s) - 1)
    OBVIOUS
  <1>3. \A k \in 1..(Len(s) - 1) : Tail(s)[k] = s[k + 1]
    OBVIOUS
  <1>4. Sorted(Tail(s))
    <2>. SUFFICES ASSUME NEW j \in 1..(Len(s) - 1), NEW k \in 1..(Len(s) - 1), j <= k
                  PROVE  Tail(s)[j].c <= Tail(s)[k].c
      BY <1>2 DEF Sorted
    <2>1. j + 1 \in DOMAIN s /\ k + 1 \in DOMAIN s /\ j + 1 <= k + 1
      BY <1>1
    <2>2. s[j + 1].c <= s[k + 1].c
      BY <2>1 DEF Sorted
    <2>. QED
      BY <1>3, <2>2
  <1>5. \A f \in In(s) : Head(s).c <= f.c
    BY <1>1 DEF Sorted, In
  <1>. QED
    BY <1>4, <1>5, InRest

\* A frame sent later has the higher counter.
LEMMA SortedAppend ==
  ASSUME NEW s \in Seq(Frames), NEW e \in Frames, Sorted(s), \A f \in In(s) : f.c <= e.c
  PROVE  Sorted(Append(s, e))
  <1>1. Len(s) \in Nat /\ DOMAIN s = 1..Len(s) /\ DOMAIN Append(s, e) = 1..Len(s) + 1
    OBVIOUS
  <1>2. \A k \in 1..Len(s) : Append(s, e)[k] = s[k] /\ s[k] \in In(s)
    BY <1>1 DEF In
  <1>3. Append(s, e)[Len(s) + 1] = e /\ e.c <= e.c
    BY DEF Frames
  <1>. SUFFICES ASSUME NEW j \in 1..Len(s) + 1, NEW k \in 1..Len(s) + 1, j <= k
                PROVE  Append(s, e)[j].c <= Append(s, e)[k].c
    BY <1>1 DEF Sorted
  <1>4. CASE k = Len(s) + 1
    <2>1. j = Len(s) + 1 \/ j \in 1..Len(s)
      BY <1>1
    <2>. QED
      BY <1>2, <1>3, <1>4, <2>1
  <1>5. CASE k \in 1..Len(s)
    <2>1. j \in 1..Len(s)
      BY <1>1, <1>5
    <2>. QED
      BY <1>1, <1>2, <1>5, <2>1 DEF Sorted
  <1>. QED
    BY <1>1, <1>4, <1>5

\* The next frame twice.
LEMMA SortedAgain ==
  ASSUME NEW s \in Seq(Frames), s # <<>>, Sorted(s)
  PROVE  Sorted(<<Head(s)>> \o s) /\ In(s) = In(<<Head(s)>> \o s)
  <1>. DEFINE t == <<Head(s)>> \o s
  <1>1. Len(s) \in Nat /\ Len(s) >= 1 /\ DOMAIN s = 1..Len(s) /\ s[1] = Head(s)
    OBVIOUS
  <1>2. t \in Seq(Frames) /\ Len(t) = Len(s) + 1 /\ DOMAIN t = 1..Len(s) + 1
    BY InTail
  <1>3. t[1] = s[1] /\ \A k \in 1..Len(s) : t[k + 1] = s[k]
    BY <1>1, InTail
  <1>. HIDE DEF t
  <1>4. Sorted(t)
    <2>. SUFFICES ASSUME NEW j \in 1..Len(s) + 1, NEW k \in 1..Len(s) + 1, j <= k
                  PROVE  t[j].c <= t[k].c
      BY <1>2 DEF Sorted
    <2>. DEFINE Old(x) == IF x = 1 THEN 1 ELSE x - 1
    <2>1. /\ Old(j) \in DOMAIN s /\ Old(k) \in DOMAIN s /\ Old(j) <= Old(k)
          /\ t[j] = s[Old(j)] /\ t[k] = s[Old(k)]
      <3>1. \A x \in 1..Len(s) + 1 : x = 1 \/ (x - 1 \in 1..Len(s) /\ x = (x - 1) + 1)
        BY <1>1
      <3>. QED
        BY <1>1, <1>3, <3>1
    <2>. QED
      BY <2>1 DEF Sorted
  <1>5. In(s) \subseteq In(t)
    <2>. SUFFICES ASSUME NEW k \in 1..Len(s)
                  PROVE  s[k] \in In(t)
      BY <1>1 DEF In
    <2>1. k + 1 \in DOMAIN t /\ t[k + 1] = s[k]
      BY <1>1, <1>2, <1>3
    <2>. QED
      BY <2>1 DEF In
  <1>. QED
    BY <1>4, <1>5, InAgain DEF t

-----------------------------------------------------------------------------
\* What handling a frame comes to when nothing fails and nothing is taken for a replay.
LEMMA ProcessGoesOn ==
  ASSUME Typing, NEW f \in Frames, Process(f), ended' = "no"
  PROVE  /\ f.kind = "msg1" /\ sm.state \in {"PREAUTH", "GROUP_HS_READY"} =>
              /\ sm'.state = "4WAY_2_SENT" /\ sm'.counter = f.c /\ sm'.anonce = f.nonce
              /\ sm'.ptk = <<f.nonce, sm.snonce + 1>>
              /\ toAp' = toAp \o <<Frame("msg2", f.c, sm.snonce + 1, sm'.ptk, 0)>>
         /\ f.kind = "msg1" /\ sm.state = "4WAY_2_SENT" => Left
         /\ /\ f.kind = "msg3" /\ sm.state = "4WAY_2_SENT" /\ f.mic = sm.ptk
            /\ f.c > sm.counter /\ f.nonce = sm.anonce
            => /\ sm'.state = "GROUP_HS_READY"
               /\ toAp' = toAp \o <<Frame("msg4", f.c, 0, sm.ptk, 0)>>
         /\ f.kind # "msg1" /\ sm.state = "GROUP_HS_READY" =>
              /\ sm'.state = "GROUP_HS_READY"
              /\ \/ toAp' = toAp
                 \/ /\ f.kind = "group1"
                    /\ toAp' = toAp \o <<Frame("group2", f.c, 0, sm.ptk, 0)>>
  <1>1. PICK o \in Outcomes(f) : sm' = o[1] /\ toAp' = toAp \o o[2] /\ ended' = o[3]
    BY Zenon DEF Process
  <1>2. o[3] = "no" /\ toAp \o <<>> = toAp
    BY <1>1 DEF Typing
  <1>3. ASSUME o \in RejectReplay(f)
        PROVE  FALSE
    <2>1. o[3] \in {"fresh", "stale"}
      BY <1>3 DEF RejectReplay
    <2>. QED
      BY <1>2, <2>1
  <1>4. ASSUME o = <<sm, <<>>, "no">>
        PROVE  Left
    BY <1>1, <1>2, <1>4 DEF Left
  <1>5. ASSUME f.kind = "msg1", sm.state \in {"PREAUTH", "GROUP_HS_READY"}
        PROVE  /\ sm'.state = "4WAY_2_SENT" /\ sm'.counter = f.c /\ sm'.anonce = f.nonce
               /\ sm'.ptk = <<f.nonce, sm.snonce + 1>>
               /\ toAp' = toAp \o <<Frame("msg2", f.c, sm.snonce + 1, sm'.ptk, 0)>>
    <2>1. o \in After1(f)
      BY <1>5, Zenon DEF Outcomes
    <2>. DEFINE s == [sm EXCEPT !.counter = f.c, !.answered = f.c, !.anonce = f.nonce,
                                !.snonce = @ + 1, !.ptk = <<f.nonce, sm.snonce + 1>>]
    <2>2. \/ o = <<[s EXCEPT !.state = "4WAY_2_SENT"],
                   <<Frame("msg2", f.c, s.snonce, s.ptk, 0)>>, "no">>
          \/ o = <<[s EXCEPT !.state = "4WAY_1_RCVD"], <<>>, "local">>
      BY <2>1, Zenon DEF After1
    <2>3. /\ s \in Supplicants /\ s.snonce = sm.snonce + 1 /\ s.ptk = <<f.nonce, sm.snonce + 1>>
          /\ s.counter = f.c /\ s.anonce = f.nonce
      <3>1. /\ f.c \in Nat /\ f.nonce \in Nat /\ sm.snonce + 1 \in Nat
            /\ <<f.nonce, sm.snonce + 1>> \in Keys
        BY DEF Typing, Supplicants, Frames, Keys
      <3>2. s \in Supplicants
        BY <3>1 DEF Typing, Supplicants
      <3>. QED
        BY <3>2 DEF Typing, Supplicants
    <2>. HIDE DEF s
    <2>4. o = <<[s EXCEPT !.state = "4WAY_2_SENT"],
                <<Frame("msg2", f.c, s.snonce, s.ptk, 0)>>, "no">>
      <3>1. o # <<[s EXCEPT !.state = "4WAY_1_RCVD"], <<>>, "local">>
        BY <1>2
      <3>. QED
        BY <2>2, <3>1
    <2>5. /\ sm' = [s EXCEPT !.state = "4WAY_2_SENT"]
          /\ toAp' = toAp \o <<Frame("msg2", f.c, s.snonce, s.ptk, 0)>>
      BY <1>1, <2>4
    <2>. QED
      BY <2>3, <2>5 DEF Supplicants
  <1>6. ASSUME f.kind = "msg1", sm.state = "4WAY_2_SENT"
        PROVE  Left
    <2>1. o \in {<<sm, <<>>, "no">>}
      BY <1>6, Zenon DEF Outcomes
    <2>. QED
      BY <1>4, <2>1
  <1>7. ASSUME f.kind = "msg3", sm.state = "4WAY_2_SENT", f.mic = sm.ptk,
               f.c > sm.counter, f.nonce = sm.anonce
        PROVE  /\ sm'.state = "GROUP_HS_READY"
               /\ toAp' = toAp \o <<Frame("msg4", f.c, 0, sm.ptk, 0)>>
    <2>1. o \in After3(f)
      BY <1>7, Zenon DEF Outcomes
    <2>. DEFINE r == [sm EXCEPT !.counter = f.c, !.answered = f.c, !.state = "4WAY_3_RCVD"]
                s == [r EXCEPT !.state = "4WAY_COMPLETE"]
                p == [s EXCEPT !.installed = sm.ptk, !.installs = @ + 1]
                d == [p EXCEPT !.gtk = f.gtk, !.port = TRUE, !.state = "GROUP_HS_READY"]
                msg4 == <<Frame("msg4", f.c, 0, sm.ptk, 0)>>
    <2>2. \/ o = <<d, msg4, "no">>
          \/ o = <<r, <<>>, "local">> \/ o = <<s, msg4, "local">> \/ o = <<p, msg4, "local">>
          \/ o = <<[p EXCEPT !.gtk = f.gtk], msg4, "local">>
      BY <2>1, Zenon DEF After3
    <2>3. o = <<d, msg4, "no">>
      <3>. HIDE DEF r, s, p, d, msg4
      <3>1. \A x, y : o # <<x, y, "local">>
        BY <1>2
      <3>. QED
        BY <2>2, <3>1, Zenon
    <2>4. sm' = d /\ toAp' = toAp \o msg4
      BY <1>1, <2>3
    <2>5. s \in Supplicants
      BY DEF Typing, Supplicants, Frames, States
    <2>. HIDE DEF s
    <2>6. p \in Supplicants
      BY <2>5, InstallingTyped DEF Typing, Supplicants
    <2>. HIDE DEF p
    <2>7. d.state = "GROUP_HS_READY"
      BY <2>6 DEF Supplicants
    <2>. QED
      BY <2>4, <2>7
  <1>8. ASSUME f.kind # "msg1", sm.state = "GROUP_HS_READY"
        PROVE  /\ sm'.state = "GROUP_HS_READY"
               /\ \/ toAp' = toAp
                  \/ /\ f.kind = "group1"
                     /\ toAp' = toAp \o <<Frame("group2", f.c, 0, sm.ptk, 0)>>
    <2>1. \/ f.kind = "group1" /\ o \in AfterG(f)
          \/ o \in RejectReplay(f)
          \/ o = <<sm, <<>>, "no">>
      <3>1. sm.state # "4WAY_2_SENT"
        BY <1>8
      <3>. QED
        BY <1>8, <3>1, Zenon DEF Outcomes
    <2>2. CASE o = <<sm, <<>>, "no">>
      BY <1>4, <1>8, <2>2 DEF Left
    <2>3. CASE f.kind = "group1" /\ o \in AfterG(f)
      <3>. DEFINE r == [sm EXCEPT !.counter = f.c, !.answered = f.c, !.state = "GROUP_HS_1_RCVD"]
                  g == [r EXCEPT !.gtk = f.gtk]
                  d == [g EXCEPT !.counter = @ + 1, !.state = "GROUP_HS_READY"]
                  msg2 == <<Frame("group2", f.c, 0, sm.ptk, 0)>>
      <3>1. \/ o = <<d, msg2, "no">>
            \/ o = <<r, <<>>, "local">> \/ o = <<g, <<>>, "local">> \/ o = <<g, msg2, "local">>
        BY <2>3, Zenon DEF AfterG
      <3>2. o = <<d, msg2, "no">>
        <4>. HIDE DEF r, g, d, msg2
        <4>1. \A x, y : o # <<x, y, "local">>
          BY <1>2
        <4>. QED
          BY <3>1, <4>1, Zenon
      <3>3. sm' = d /\ toAp' = toAp \o msg2
        BY <1>1, <3>2
      <3>4. g \in Supplicants
        BY DEF Typing, Supplicants, Frames, States
      <3>. HIDE DEF g
      <3>5. d.state = "GROUP_HS_READY"
        BY <3>4 DEF Supplicants
      <3>. QED
        BY <2>3, <3>3, <3>5
    <2>. QED
      BY <1>3, <2>1, <2>2, <2>3
  <1>. QED
    BY <1>5, <1>6, <1>7, <1>8

\* A reply joins the others on their way.
LEMMA Replied ==
  ASSUME Typing, NEW e \in Frames, toAp' = toAp \o <<e>>
  PROVE  In(toAp') = In(toAp) \cup {e}
  <1>1. toAp \in Seq(Frames)
    BY DEF Typing
  <1>. QED
    BY <1>1, InAppend

\* The numbers that the phases compare.
LEMMA NumbersTyped ==
  ASSUME Typing
  PROVE  /\ ap.c \in Nat /\ ap.from \in Nat /\ ap.tries \in Nat /\ ap.anonce \in Nat
         /\ ap.ptk \in Keys
         /\ sm.counter \in Nat /\ sm.snonce \in Nat /\ sm.anonce \in Nat /\ sm.ptk \in Keys
         /\ \A f \in In(toSta) \cup In(toAp) : f \in Frames /\ f.c \in Nat
  BY InTyped DEF Typing, AccessPoints, Supplicants, Frames

-----------------------------------------------------------------------------
\* The supplicant reads a frame; before the event of the association it ignores it.
LEMMA PhaseRead ==
  ASSUME Handshake, Phase, ended = "no", ended' = "no", faults \in Nat,
         toSta # <<>>, toSta' = Tail(toSta), UNCHANGED <<ap, faults, associated>>,
         associated => Process(Head(toSta)), ~associated => UNCHANGED <<sm, toAp>>
  PROVE  Phase'
  <1>0. PICK f \in In(toSta) : f = Head(toSta)
    BY InTail DEF Handshake, Typing
  <1>. USE DEF Handshake
  <1>1. /\ f \in Frames /\ f.c \in Nat /\ Sorted(toSta') /\ In(toSta') \subseteq In(toSta)
        /\ In(toSta) = {f} \cup In(toSta')
        /\ \A g \in In(toSta') : f.c <= g.c /\ g.c \in Nat
        /\ sm.snonce + 1 \in Nat
    BY <1>0, SortedTail, NumbersTyped DEF Typing, Phase
  <1>2. CASE ~associated
    <2>1. Beginning /\ UNCHANGED <<sm, toAp>>
      BY <1>2 DEF Phase, Answering, Confirming, Secured
    <2>2. ap.state = "wait2" /\ ap.tries <= faults + 1
      BY <1>2, <2>1 DEF Beginning
    <2>3. Beginning'
      BY <1>1, <1>2, <2>1, <2>2 DEF Beginning
    <2>. QED
      BY <1>1, <2>3 DEF Phase
  <1>3. CASE associated
    <2>0. Process(f)
      BY <1>0, <1>3
    <2>1. ASSUME f.kind = "msg1", sm.state \in {"PREAUTH", "GROUP_HS_READY"}
          PROVE  LET e == Frame("msg2", f.c, sm.snonce + 1, sm'.ptk, 0)
                 IN  /\ sm'.state = "4WAY_2_SENT" /\ sm'.counter = f.c /\ sm'.anonce = f.nonce
                     /\ sm'.ptk = <<f.nonce, sm.snonce + 1>> /\ In(toAp') = In(toAp) \cup {e}
                     /\ e.kind = "msg2" /\ e.c = f.c /\ e.mic = sm'.ptk
                     /\ e.nonce = sm.snonce + 1
      <3>. DEFINE e == Frame("msg2", f.c, sm.snonce + 1, sm'.ptk, 0)
      <3>1. /\ sm'.state = "4WAY_2_SENT" /\ sm'.counter = f.c /\ sm'.anonce = f.nonce
            /\ sm'.ptk = <<f.nonce, sm.snonce + 1>> /\ toAp' = toAp \o <<e>>
        BY <1>1, <2>0, <2>1, ProcessGoesOn
      <3>2. sm'.ptk \in Keys
        BY <1>1, <3>1 DEF Frames, Keys
      <3>3. e \in Frames
        BY <1>1, <3>2 DEF Frame, Frames, ToAp
      <3>4. In(toAp') = In(toAp) \cup {e}
        BY <3>1, <3>3, Replied
      <3>5. e.kind = "msg2" /\ e.c = f.c /\ e.mic = sm'.ptk /\ e.nonce = sm.snonce + 1
        BY DEF Frame
      <3>. HIDE DEF e
      <3>6. QED
        BY <3>1, <3>4, <3>5 DEF e
    <2>9. PICK e : e = Frame("msg2", f.c, sm.snonce + 1, sm'.ptk, 0)
      OBVIOUS
    <2>2. e.kind = "msg2" /\ e.c = f.c /\ e.mic = sm'.ptk /\ e.nonce = sm.snonce + 1
      BY <2>9 DEF Frame
    <2>3. CASE Beginning
      <3>1. f.kind = "msg1" /\ f.c >= ap.from /\ f.nonce = ap.anonce /\ sm.state = "PREAUTH"
        BY <2>3 DEF Beginning
      <3>2. ap.state = "wait2" /\ In(toAp) = {} /\ f.c <= ap.c
        BY <2>3 DEF Beginning, In, Downstream
      <3>3. In(toAp') = {e} /\ sm'.ptk = <<ap.anonce, e.nonce>>
        BY <2>1, <2>2, <2>9, <3>1, <3>2
      <3>4. Answering'
        BY <1>1, <1>3, <2>1, <2>2, <2>3, <3>1, <3>2, <3>3 DEF Answering, Beginning
      <3>. QED
        BY <1>1, <3>4 DEF Phase
    <2>4. CASE Answering
      <3>1. Left
        BY <1>1, <2>0, <2>4, ProcessGoesOn DEF Answering
      <3>2. Answering'
        BY <1>1, <2>4, <3>1 DEF Answering, Left
      <3>. QED
        BY <1>1, <3>2 DEF Phase
    <2>5. CASE Confirming /\ f.kind = "msg1"
      <3>1. Left
        BY <1>1, <2>0, <2>5, ProcessGoesOn DEF Confirming
      <3>2. (\E g \in In(toSta) : g.kind = "msg3") <=> (\E g \in In(toSta') : g.kind = "msg3")
        BY <1>1, <2>5
      <3>3. Confirming'
        BY <1>1, <2>5, <3>1, <3>2 DEF Confirming, Left
      <3>. QED
        BY <1>1, <3>3 DEF Phase
    <2>6. CASE Confirming /\ f.kind # "msg1"
      <3>1. f.kind = "msg3" /\ f.c >= ap.from /\ f.nonce = sm.anonce /\ sm.state = "4WAY_2_SENT"
        BY <2>6 DEF Confirming
      <3>2. f.mic = sm.ptk /\ f.c > sm.counter
        BY <1>1, <2>6, <3>1, NumbersTyped DEF Confirming, Downstream, Keyed
      <3>3. sm'.state = "GROUP_HS_READY"
        BY <1>1, <2>0, <3>1, <3>2, ProcessGoesOn
      <3>4. \A g \in In(toSta') : g.kind # "msg1"
        <4>. SUFFICES ASSUME NEW g \in In(toSta'), g.c < ap.from
                      PROVE  FALSE
          BY <1>1, <2>6 DEF Confirming
        <4>1. f.c <= g.c /\ f.c >= ap.from /\ f.c \in Nat /\ g.c \in Nat /\ ap.from \in Nat
          BY <1>1, <3>1, NumbersTyped
        <4>. QED
          BY <4>1
      <3>5. Secured'
        BY <1>3, <2>6, <3>3, <3>4 DEF Secured, Confirming
      <3>. QED
        BY <1>1, <3>5 DEF Phase
    <2>7. CASE Secured /\ f.kind = "msg1"
      <3>1. /\ f.kind = "msg1" /\ f.c >= ap.from /\ f.nonce = ap.anonce /\ ap.state = "wait2"
            /\ sm.state = "GROUP_HS_READY" /\ f.c <= ap.c
        BY <2>7 DEF Secured, Downstream
      <3>2. \A g \in In(toSta') : g.kind = "msg1"
        <4>. SUFFICES ASSUME NEW g \in In(toSta')
                      PROVE  g.c >= ap.from
          BY <1>1, <2>7, <3>1 DEF Secured
        <4>1. f.c <= g.c /\ f.c >= ap.from /\ f.c \in Nat /\ g.c \in Nat /\ ap.from \in Nat
          BY <1>1, <3>1, NumbersTyped
        <4>. QED
          BY <4>1
      <3>3. \A g \in In(toAp) : ~(g.c >= ap.from)
        BY <2>7, <3>1, NumbersTyped DEF Secured
      <3>4. In(toAp') = In(toAp) \cup {e} /\ sm'.ptk = <<ap.anonce, e.nonce>>
        BY <2>1, <2>2, <2>9, <3>1
      <3>5. Answering'
        BY <1>3, <2>1, <2>2, <3>1, <3>2, <3>3, <3>4 DEF Answering
      <3>. QED
        BY <1>1, <3>5 DEF Phase
    <2>8. CASE Secured /\ f.kind # "msg1"
      <3>. DEFINE r == Frame("group2", f.c, 0, sm.ptk, 0)
      <3>1. /\ sm'.state = "GROUP_HS_READY"
            /\ toAp' = toAp \/ (f.kind = "group1" /\ toAp' = toAp \o <<r>>)
        BY <1>1, <2>0, <2>8, ProcessGoesOn DEF Secured
      <3>2. r \in Frames /\ r.c = f.c
        BY <1>1, NumbersTyped DEF Frame, Frames, ToAp
      <3>. HIDE DEF r
      <3>3. ap.state = "wait2" => f.c < ap.from
        BY <1>1, <2>8, NumbersTyped DEF Secured
      <3>4. In(toAp') \subseteq In(toAp) \cup {r}
        BY <3>1, <3>2, Replied
      <3>5. Secured'
        BY <1>1, <1>3, <2>8, <3>1, <3>2, <3>3, <3>4 DEF Secured
      <3>. QED
        BY <1>1, <3>5 DEF Phase
    <2>. QED
      BY <2>3, <2>4, <2>5, <2>6, <2>7, <2>8 DEF Phase
  <1>. QED
    BY <1>2, <1>3

\* What the access point sends.
LEMMA Asked ==
  ASSUME Typing, Downstream, Sorted(toSta), NEW a \in AccessPoints, NEW kind \in ToSta,
         Send(kind, a)
  PROVE  \E e \in Frames :
           /\ In(toSta') = In(toSta) \cup {e} /\ Sorted(toSta') /\ toSta' # <<>>
           /\ e.kind = kind /\ e.c = ap.c + 1 /\ (kind # "group1" => e.nonce = a.anonce)
           /\ ap'.state = a.state /\ ap'.from = a.from /\ ap'.tries = a.tries
           /\ ap'.anonce = a.anonce /\ ap'.ptk = a.ptk /\ ap'.c = ap.c + 1
  <1>. DEFINE nonce == IF kind = "group1" THEN 0 ELSE a.anonce
              mic == IF kind = "msg1" THEN NoKey ELSE a.ptk
              gtk == IF kind = "msg1" THEN 0 ELSE a.gtk
              e == Frame(kind, ap.c + 1, nonce, mic, gtk)
  <1>1. toSta' = Append(toSta, e) /\ ap' = [a EXCEPT !.c = ap.c + 1]
    BY DEF Send
  <1>2. /\ ap.c + 1 \in Nat /\ nonce \in Nat /\ mic \in Keys /\ gtk \in Nat
        /\ (kind # "group1" => nonce = a.anonce)
    BY DEF Typing, AccessPoints, NoKey, Keys
  <1>3. e \in Frames /\ e.kind = kind /\ e.c = ap.c + 1 /\ (kind # "group1" => e.nonce = a.anonce)
    <2>. HIDE DEF nonce, mic, gtk
    <2>. QED
      BY <1>2 DEF Frame, Frames
  <1>4. /\ ap'.state = a.state /\ ap'.from = a.from /\ ap'.tries = a.tries
        /\ ap'.anonce = a.anonce /\ ap'.ptk = a.ptk /\ ap'.c = ap.c + 1
    BY <1>1 DEF AccessPoints
  <1>. HIDE DEF e
  <1>5. toSta \in Seq(Frames) /\ \A f \in In(toSta) : f.c <= e.c
    <2>1. \A f \in In(toSta) : f.c \in Nat /\ f.c <= ap.c /\ ap.c \in Nat
      BY NumbersTyped DEF Downstream
    <2>. QED
      BY <1>3, <2>1 DEF Typing
  <1>6. In(toSta') = In(toSta) \cup {e} /\ Sorted(toSta')
    BY <1>1, <1>3, <1>5, InAppend, SortedAppend
  <1>7. toSta' # <<>>
    BY <1>6 DEF In
  <1>. QED
    BY <1>3, <1>4, <1>6, <1>7

\* A frame is repeated: too early, or because nothing is on its way any more.
LEMMA PhaseRepeat ==
  ASSUME Handshake, Phase, faults \in Nat, Repeat, associated' = associated,
         \/ faults' = faults + 1
         \/ faults' = faults /\ associated /\ toSta = <<>>
  PROVE  Phase'
  <1>. USE DEF Handshake
  <1>. DEFINE n == ap.tries + 1
              a == [ap EXCEPT !.tries = n]
              kind == Asks[ap.state]
  <1>1. n \in Nat /\ ap.state \in {"wait2", "wait4", "waitGroup"}
    BY DEF Typing, AccessPoints, Repeat, Asks
  <1>2. a = [ap EXCEPT !.tries = @ + 1]
    BY DEF Typing, AccessPoints
  <1>3. n = ap.tries + 1
    OBVIOUS
  <1>. HIDE DEF n
  <1>4. /\ a \in AccessPoints /\ a.from = ap.from /\ a.state = ap.state /\ a.ptk = ap.ptk
        /\ a.anonce = ap.anonce /\ a.tries = n
    BY <1>1 DEF Typing, AccessPoints
  <1>5. /\ kind \in ToSta
        /\ ap.state = "wait2" => kind = "msg1"
        /\ ap.state = "wait4" => kind = "msg3"
        /\ ap.state = "waitGroup" => kind = "group1"
    BY <1>1 DEF Asks, ToSta
  <1>6. Send(kind, a) /\ UNCHANGED <<sm, toAp>>
    BY <1>2 DEF Repeat
  <1>. HIDE DEF a, kind
  <1>7. PICK e \in Frames :
           /\ In(toSta') = In(toSta) \cup {e} /\ Sorted(toSta') /\ toSta' # <<>>
           /\ e.kind = kind /\ e.c = ap.c + 1 /\ (kind # "group1" => e.nonce = a.anonce)
           /\ ap'.state = a.state /\ ap'.from = a.from /\ ap'.tries = a.tries
           /\ ap'.anonce = a.anonce /\ ap'.ptk = a.ptk /\ ap'.c = ap.c + 1
    BY <1>4, <1>5, <1>6, Asked DEF Phase
  <1>8. /\ ap'.state = ap.state /\ ap'.from = ap.from /\ ap'.tries = ap.tries + 1
        /\ ap'.anonce = ap.anonce /\ ap'.ptk = ap.ptk /\ ap'.c = ap.c + 1
    BY <1>3, <1>4, <1>7
  <1>9. ap'.from <= ap'.c + 1
    <2>1. ap.from <= ap.c + 1 /\ ap.from \in Nat /\ ap.c \in Nat
      BY NumbersTyped DEF Phase
    <2>. QED
      BY <1>8, <2>1
  <1>10. QED
    <2>0. e.c >= ap.from /\ ap.c \in Nat /\ ap.tries \in Nat /\ sm.counter \in Nat
      BY <1>7, NumbersTyped DEF Phase
    <2>1. CASE Beginning
      <3>1. ap.state = "wait2" /\ ap.tries <= faults + IF associated /\ toSta # <<>> THEN 2 ELSE 1
        BY <1>1, <2>1 DEF Beginning
      <3>2. ap.tries + 1 <= faults' + IF associated' /\ toSta' # <<>> THEN 2 ELSE 1
        BY <1>7, <2>0, <3>1
      <3>3. Beginning'
        BY <1>4, <1>5, <1>6, <1>7, <1>8, <2>0, <2>1, <3>1, <3>2 DEF Beginning
      <3>. QED
        BY <1>7, <1>9, <3>3 DEF Phase
    <2>2. CASE Answering
      <3>1. sm.counter <= ap.c + 1
        BY <2>0, <2>2 DEF Answering
      <3>2. Answering'
        BY <1>5, <1>6, <1>7, <1>8, <2>2, <3>1 DEF Answering
      <3>. QED
        BY <1>7, <1>9, <3>2 DEF Phase
    <2>3. CASE Confirming
      <3>1. e.kind = "msg3" /\ e.nonce = ap.anonce
        BY <1>4, <1>5, <1>7, <2>3 DEF Confirming
      <3>2. ap.tries <= faults + IF \E f \in In(toSta) : f.kind = "msg3" THEN 1 ELSE 0
        BY <2>3 DEF Confirming
      <3>3. toSta = <<>> => ~\E f \in In(toSta) : f.kind = "msg3"
        BY DEF In
      <3>4. ap.tries + 1 <= faults' + 1
        BY <2>0, <3>2, <3>3
      <3>5. \E f \in In(toSta') : f.kind = "msg3"
        BY <1>7, <3>1
      <3>6. Confirming'
        BY <1>6, <1>7, <1>8, <2>0, <2>3, <3>1, <3>4, <3>5 DEF Confirming
      <3>. QED
        BY <1>7, <1>9, <3>6 DEF Phase
    <2>4. CASE Secured
      <3>1. Secured'
        BY <1>1, <1>4, <1>5, <1>6, <1>7, <1>8, <2>0, <2>4 DEF Secured
      <3>. QED
        BY <1>7, <1>9, <3>1 DEF Phase
    <2>. QED
      BY <2>1, <2>2, <2>3, <2>4 DEF Phase

\* A four-way handshake begins, the first one or a later one.
LEMMA PhaseHandshake ==
  ASSUME Handshake, Phase, faults \in Nat,
         StartHandshake, UNCHANGED <<sm, toAp, faults, associated>>,
         ap.state \in {"idle", "done"}
  PROVE  Phase'
  <1>. USE DEF Handshake
  <1>. DEFINE n == ap.anonce + 1
              m == ap.c + 1
              b == [ap EXCEPT !.anonce = n]
              a == [b EXCEPT !.state = "wait2", !.from = m, !.tries = 1]
  <1>1. n \in Nat /\ m \in Nat /\ b = [ap EXCEPT !.anonce = @ + 1]
    BY DEF Typing, AccessPoints
  <1>2. Send("msg1", a) /\ "msg1" \in ToSta
    BY <1>1 DEF StartHandshake, Begin, Asks, ToSta
  <1>3. m = ap.c + 1
    OBVIOUS
  <1>. HIDE DEF n, m
  <1>4. a \in AccessPoints /\ a.from = m /\ a.state = "wait2" /\ a.tries = 1
    BY <1>1 DEF Typing, AccessPoints
  <1>. HIDE DEF a, b
  <1>5. PICK e \in Frames :
           /\ In(toSta') = In(toSta) \cup {e} /\ Sorted(toSta') /\ toSta' # <<>>
           /\ e.kind = "msg1" /\ e.c = ap.c + 1 /\ ("msg1" # "group1" => e.nonce = a.anonce)
           /\ ap'.state = a.state /\ ap'.from = a.from /\ ap'.tries = a.tries
           /\ ap'.anonce = a.anonce /\ ap'.ptk = a.ptk /\ ap'.c = ap.c + 1
    BY <1>2, <1>4, Asked DEF Phase
  <1>6. /\ ap'.state = "wait2" /\ ap'.from = ap.c + 1 /\ ap'.tries = 1 /\ ap'.c = ap.c + 1
        /\ e.nonce = ap'.anonce /\ e.c = ap'.from
    BY <1>3, <1>4, <1>5
  <1>7. /\ ap.c \in Nat /\ e.c >= ap'.from /\ ap'.from <= ap'.c + 1
        /\ \A f \in In(toSta) \cup In(toAp) : f.c < ap'.from
    <2>1. \A f \in In(toSta) \cup In(toAp) : f.c \in Nat /\ f.c <= ap.c
      BY NumbersTyped DEF Downstream, Upstream
    <2>. QED
      BY <1>6, <2>1, NumbersTyped
  <1>8. CASE Beginning
    <2>1. In(toSta) = {} /\ ap'.tries <= faults' + IF associated' /\ toSta' # <<>> THEN 2 ELSE 1
      BY <1>6, <1>8 DEF Beginning, In
    <2>2. Beginning'
      BY <1>5, <1>6, <1>7, <1>8, <2>1 DEF Beginning
    <2>. QED
      BY <1>5, <1>7, <2>2 DEF Phase
  <1>9. CASE Secured
    <2>1. \A f \in In(toSta) : f.kind # "msg1"
      BY <1>9 DEF Secured
    <2>2. \A f \in In(toSta') : f.c >= ap'.from => f = e
      <3>1. \A f \in In(toSta) : ~(f.c >= ap'.from)
        BY <1>6, <1>7, NumbersTyped
      <3>. QED
        BY <1>5, <3>1
    <2>3. Secured'
      BY <1>5, <1>6, <1>7, <1>9, <2>1, <2>2 DEF Secured
    <2>. QED
      BY <1>5, <1>7, <2>3 DEF Phase
  <1>. QED
    BY <1>8, <1>9 DEF Phase, Answering, Confirming

\* A group handshake begins.
LEMMA PhaseGroup ==
  ASSUME Handshake, Phase, StartGroup, associated' = associated
  PROVE  Phase'
  <1>. USE DEF Handshake
  <1>. DEFINE n == ap.gtk + 1
              m == ap.c + 1
              b == [ap EXCEPT !.gtk = n]
              a == [b EXCEPT !.state = "waitGroup", !.from = m, !.tries = 1]
  <1>1. n \in Nat /\ m \in Nat /\ b = [ap EXCEPT !.gtk = @ + 1]
    BY DEF Typing, AccessPoints
  <1>2. Send("group1", a) /\ "group1" \in ToSta
    BY <1>1 DEF StartGroup, Begin, Asks, ToSta
  <1>3. m = ap.c + 1 /\ UNCHANGED <<sm, toAp>> /\ ap.state = "done"
    BY DEF StartGroup
  <1>. HIDE DEF n, m
  <1>4. a \in AccessPoints /\ a.from = m /\ a.state = "waitGroup"
    BY <1>1 DEF Typing, AccessPoints
  <1>. HIDE DEF a, b
  <1>5. PICK e \in Frames :
           /\ In(toSta') = In(toSta) \cup {e} /\ Sorted(toSta') /\ toSta' # <<>>
           /\ e.kind = "group1" /\ e.c = ap.c + 1
           /\ ap'.state = a.state /\ ap'.from = a.from /\ ap'.c = ap.c + 1
    BY <1>2, <1>4, Asked DEF Phase
  <1>6. ap'.state = "waitGroup" /\ ap'.from <= ap'.c + 1
    BY <1>3, <1>4, <1>5, NumbersTyped
  <1>7. Secured
    BY <1>3 DEF Phase, Beginning, Answering, Confirming
  <1>8. Secured'
    BY <1>3, <1>5, <1>6, <1>7 DEF Secured
  <1>. QED
    BY <1>5, <1>6, <1>8 DEF Phase

\* An answer reaches the access point; message 2 of the present exchange is one.
LEMMA PhaseReceive ==
  ASSUME Handshake, Phase, faults \in Nat, ApReceive, UNCHANGED <<faults, associated>>
  PROVE  Phase'
  <1>. USE DEF Handshake
  <1>. DEFINE f == Head(toAp)
  <1>1. /\ f \in In(toAp) /\ f \in Frames /\ In(toAp') \subseteq In(toAp) /\ f.c \in Nat
        /\ toAp # <<>> /\ UNCHANGED sm
    BY InTail, NumbersTyped DEF ApReceive, Typing
  <1>2. In(toAp) \subseteq {f} \cup In(toAp')
    BY <1>1, InRest DEF ApReceive, Typing
  <1>3. \/ ~Answers(f) /\ UNCHANGED <<ap, toSta>>
        \/ Answers(f) /\ f.kind = "msg2" /\ Begin("wait4", [ap EXCEPT !.ptk = f.mic])
        \/ /\ Answers(f) /\ f.kind # "msg2"
           /\ ap' = [ap EXCEPT !.state = "done"] /\ UNCHANGED toSta
    BY Zenon DEF ApReceive
  <1>. HIDE DEF f
  <1>4. Answers(f) => f.c >= ap.from /\ ap.state \in {"wait2", "wait4", "waitGroup"}
    BY <1>1, NumbersTyped DEF Answers
  <1>5. CASE ~Answers(f) /\ UNCHANGED <<ap, toSta>>
    <2>1. CASE Beginning
      BY <1>1, <2>1 DEF Beginning
    <2>2. CASE Answering
      <3>1. ~(f.c >= ap.from)
        <4>. SUFFICES ASSUME f.c >= ap.from
                      PROVE  FALSE
          OBVIOUS
        <4>1. f.kind = "msg2" /\ f.mic = <<ap.anonce, f.nonce>> /\ ap.state = "wait2"
          BY <1>1, <2>2 DEF Answering
        <4>2. f.c \in ap.from..ap.c
          BY <1>1, NumbersTyped DEF Upstream
        <4>. QED
          BY <1>5, <4>1, <4>2 DEF Answers
      <3>2. Answering'
        BY <1>1, <1>2, <1>5, <2>2, <3>1 DEF Answering
      <3>. QED
        BY <1>5, <3>2 DEF Phase
    <2>3. CASE Confirming
      <3>1. Confirming'
        BY <1>1, <1>5, <2>3 DEF Confirming
      <3>. QED
        BY <1>5, <3>1 DEF Phase
    <2>4. CASE Secured
      <3>1. Secured'
        BY <1>1, <1>5, <2>4 DEF Secured
      <3>. QED
        BY <1>5, <3>1 DEF Phase
    <2>. QED
      BY <2>1, <2>2, <2>3, <2>4 DEF Phase
  <1>6. CASE Answers(f) /\ f.kind = "msg2" /\ Begin("wait4", [ap EXCEPT !.ptk = f.mic])
    <2>1. ap.state = "wait2" /\ Answering
      <3>1. ap.state = "wait2"
        BY <1>6 DEF Answers
      <3>2. ~Beginning
        BY <1>1 DEF Beginning
      <3>3. ~Secured /\ ~Confirming
        BY <1>1, <1>4, <1>6, <3>1, NumbersTyped DEF Secured, Confirming
      <3>. QED
        BY <3>1, <3>2, <3>3 DEF Phase
    <2>. DEFINE m == ap.c + 1
                b == [ap EXCEPT !.ptk = f.mic]
                a == [b EXCEPT !.state = "wait4", !.from = m, !.tries = 1]
    <2>2. Send("msg3", a) /\ m = ap.c + 1 /\ m \in Nat /\ "msg3" \in ToSta
      BY <1>6 DEF Begin, Asks, Typing, AccessPoints, ToSta
    <2>. HIDE DEF m
    <2>3. /\ a \in AccessPoints /\ a.from = m /\ a.state = "wait4" /\ a.tries = 1
          /\ a.ptk = f.mic /\ a.anonce = ap.anonce
      BY <1>1, <2>2 DEF Typing, AccessPoints, Frames
    <2>. HIDE DEF a, b
    <2>4. PICK e \in Frames :
             /\ In(toSta') = In(toSta) \cup {e} /\ Sorted(toSta') /\ toSta' # <<>>
             /\ e.kind = "msg3" /\ e.c = ap.c + 1 /\ ("msg3" # "group1" => e.nonce = a.anonce)
             /\ ap'.state = a.state /\ ap'.from = a.from /\ ap'.tries = a.tries
             /\ ap'.anonce = a.anonce /\ ap'.ptk = a.ptk /\ ap'.c = ap.c + 1
      BY <2>2, <2>3, Asked DEF Phase
    <2>5. /\ ap'.state = "wait4" /\ ap'.from = ap.c + 1 /\ ap'.tries = 1 /\ ap'.c = ap.c + 1
          /\ ap'.anonce = ap.anonce /\ ap'.ptk = f.mic /\ e.nonce = ap.anonce /\ e.c = ap'.from
      BY <2>2, <2>3, <2>4
    <2>6. /\ ap.c \in Nat /\ e.c >= ap'.from /\ ap'.from <= ap'.c + 1
          /\ \A g \in In(toSta) \cup In(toAp) : g.c < ap'.from
      <3>1. \A g \in In(toSta) \cup In(toAp) : g.c \in Nat /\ g.c <= ap.c
        BY NumbersTyped DEF Downstream, Upstream
      <3>. QED
        BY <2>5, <3>1, NumbersTyped
    <2>7. sm.ptk = ap'.ptk /\ sm.counter < ap'.from /\ sm.anonce = ap'.anonce
      <3>1. f.mic = sm.ptk /\ sm.counter <= ap.c /\ sm.anonce = ap.anonce
        BY <1>1, <1>4, <1>6, <2>1 DEF Answering
      <3>. QED
        BY <2>5, <3>1, NumbersTyped
    <2>8. ap'.tries <= faults' + IF \E g \in In(toSta') : g.kind = "msg3" THEN 1 ELSE 0
      BY <2>4, <2>5
    <2>9. Confirming'
      BY <1>1, <2>1, <2>4, <2>5, <2>6, <2>7, <2>8 DEF Confirming, Answering
    <2>. QED
      BY <2>4, <2>6, <2>9 DEF Phase
  <1>7. CASE Answers(f) /\ f.kind # "msg2" /\ ap' = [ap EXCEPT !.state = "done"] /\ UNCHANGED toSta
    <2>1. Secured /\ ap.state # "wait2"
      <3>1. ap.state # "wait2"
        BY <1>7 DEF Answers
      <3>2. ~Beginning /\ ~Answering
        BY <1>1, <3>1 DEF Beginning, Answering, In
      <3>3. ~Confirming
        BY <1>1, <1>4, <1>7, NumbersTyped DEF Confirming
      <3>. QED
        BY <3>1, <3>2, <3>3 DEF Phase
    <2>2. ap'.state = "done" /\ ap'.from = ap.from /\ ap'.c = ap.c
      BY <1>7 DEF Typing, AccessPoints
    <2>3. Secured'
      BY <1>1, <1>7, <2>1, <2>2 DEF Secured
    <2>. QED
      BY <1>7, <2>2, <2>3 DEF Phase
  <1>. QED
    BY <1>3, <1>5, <1>6, <1>7

\* The access point gives up when it has repeated its frame more often than the network
\* fails: the supplicant has had it, and is READY.
LEMMA PhaseGiveUp ==
  ASSUME Patient, Handshake, Phase, faults \in 0..MaxFaults, GiveUp,
         toSta = <<>>, toAp = <<>>, associated' = associated
  PROVE  Phase'
  <1>1. /\ ap.tries = MaxTries /\ ap.state \in {"wait2", "wait4", "waitGroup"}
        /\ ap' = [ap EXCEPT !.state = "gaveUp"] /\ UNCHANGED <<sm, toSta, toAp>>
    BY DEF GiveUp, Asks
  <1>2. ap'.state = "gaveUp" /\ ap'.from = ap.from /\ ap'.c = ap.c
    BY <1>1 DEF Handshake, Typing, AccessPoints
  <1>3. faults \in Nat /\ MaxFaults \in Nat /\ MaxTries \in Nat /\ faults + 1 < MaxTries
    BY BoundsAssumption DEF Patient
  <1>4. In(toSta) = {} /\ In(toAp) = {}
    BY DEF In
  <1>5. ~Beginning
    <2>1. Beginning => ap.tries <= faults + 1
      BY <1>1 DEF Beginning
    <2>. QED
      BY <1>1, <1>3, <2>1
  <1>6. ~Confirming
    <2>1. Confirming => ap.tries <= faults
      BY <1>3, <1>4 DEF Confirming
    <2>. QED
      BY <1>1, <1>3, <2>1
  <1>7. Secured
    BY <1>4, <1>5, <1>6 DEF Phase, Answering
  <1>8. Secured'
    BY <1>1, <1>2, <1>4, <1>7 DEF Secured
  <1>. QED
    BY <1>1, <1>2, <1>8 DEF Phase

\* A frame is lost, but not message 2, or comes twice.
LEMMA PhaseLoss ==
  ASSUME Handshake, Phase, faults \in Nat, Lose \/ Duplicate, "msg2" \notin lost',
         associated' = associated
  PROVE  Phase'
  <1>. USE DEF Handshake
  <1>1. faults' = faults + 1 /\ UNCHANGED <<sm, ap>>
    BY DEF Lose, Duplicate, Fault
  <1>2. toSta \in Seq(Frames) /\ toAp \in Seq(Frames) /\ Sorted(toSta) /\ ap.tries \in Nat
    BY NumbersTyped DEF Typing, Phase
  <1>3. CASE toSta # <<>> /\ toAp' = toAp /\ toSta' \in {Tail(toSta), <<Head(toSta)>> \o toSta}
    <2>1. Sorted(toSta') /\ In(toSta') \subseteq In(toSta)
      BY <1>2, <1>3, SortedTail, SortedAgain, InTail
    <2>2. CASE Beginning
      <3>1. Beginning'
        BY <1>1, <1>2, <1>3, <2>1, <2>2 DEF Beginning
      <3>. QED
        BY <1>1, <2>1, <3>1 DEF Phase
    <2>3. CASE Answering
      <3>1. Answering'
        BY <1>1, <1>3, <2>1, <2>3 DEF Answering
      <3>. QED
        BY <1>1, <2>1, <3>1 DEF Phase
    <2>4. CASE Confirming
      <3>1. ap'.tries <= faults' + IF \E f \in In(toSta') : f.kind = "msg3" THEN 1 ELSE 0
        BY <1>1, <1>2, <2>4 DEF Confirming
      <3>2. Confirming'
        BY <1>1, <1>3, <2>1, <2>4, <3>1 DEF Confirming
      <3>. QED
        BY <1>1, <2>1, <3>2 DEF Phase
    <2>5. CASE Secured
      <3>1. Secured'
        BY <1>1, <1>3, <2>1, <2>5 DEF Secured
      <3>. QED
        BY <1>1, <2>1, <3>1 DEF Phase
    <2>. QED
      BY <2>2, <2>3, <2>4, <2>5 DEF Phase
  <1>4. CASE /\ toAp # <<>> /\ toSta' = toSta /\ toAp' = Tail(toAp)
             /\ lost' = lost \cup {Head(toAp).kind}
    <2>1. Head(toAp).kind # "msg2"
      BY <1>4
    <2>2. In(toAp') \subseteq In(toAp) /\ In(toAp) \subseteq {Head(toAp)} \cup In(toAp')
      BY <1>2, <1>4, InRest
    <2>3. CASE Beginning
      BY <1>4, <2>3 DEF Beginning
    <2>4. CASE Answering
      <3>1. Answering'
        BY <1>1, <1>4, <2>1, <2>2, <2>4 DEF Answering
      <3>. QED
        BY <1>1, <1>4, <3>1 DEF Phase
    <2>5. CASE Confirming
      <3>1. ap'.tries <= faults' + IF \E f \in In(toSta') : f.kind = "msg3" THEN 1 ELSE 0
        BY <1>1, <1>2, <1>4, <2>5 DEF Confirming
      <3>2. Confirming'
        BY <1>1, <1>4, <2>2, <2>5, <3>1 DEF Confirming
      <3>. QED
        BY <1>1, <1>4, <3>2 DEF Phase
    <2>6. CASE Secured
      <3>1. Secured'
        BY <1>1, <1>4, <2>2, <2>6 DEF Secured
      <3>. QED
        BY <1>1, <1>4, <3>1 DEF Phase
    <2>. QED
      BY <2>3, <2>4, <2>5, <2>6 DEF Phase
  <1>. QED
    BY <1>3, <1>4, Zenon DEF Lose, Duplicate

-----------------------------------------------------------------------------
\* What steps cannot undo: a loss, the end of the thread, its start.
LEMMA Lasting ==
  ASSUME Context, Handshake, Ground, [Next]_vars
  PROVE  /\ lost \subseteq lost'
         /\ ended' = "no" => ended = "no"
         /\ tpc' # "none" => tpc # "none" \/ mpc = "run"
         /\ mpc' \in {"associated", "wait"} => mpc \in Waits
         /\ result' = "timeout" => result = "timeout" \/ WaitTimeout
  <1>. USE DEF MGoto, TGoto, FailTo, mainVars, hsVars, apVars, Waits
  <1>1. CASE Main
    <2>1. CASE Prepare \/ LoopRun \/ Associate \/ SetAssociated
      BY <2>1 DEF Prepare, LoopRun, Associate, SetAssociated
    <2>2. CASE WaitReady \/ WaitTimeout \/ Dhcp
      BY <2>2 DEF WaitReady, WaitTimeout, Dhcp
    <2>3. CASE LoopUnref \/ Join \/ Leave
      BY <2>3 DEF LoopUnref, Join, Leave
    <2>. QED
      BY <1>1, <2>1, <2>2, <2>3 DEF Main
  <1>2. CASE Thread
    <2>1. tpc # "none"
      BY <1>2 DEF Thread, PrepareSelect, Select, Cancelled, ReadForeign, ReadFrame, ThreadFails,
         ThreadExit
    <2>2. UNCHANGED <<mpc, result, lost>>
      BY <1>2 DEF Thread, PrepareSelect, Select, Cancelled, ReadForeign, ReadFrame, ThreadFails,
         ThreadExit
    <2>3. ended' = "no" => ended = "no"
      <3>1. CASE ReadFrame
        BY <3>1 DEF ReadFrame, Handshake, Running
      <3>2. CASE ThreadFails
        BY <3>2 DEF ThreadFails
      <3>. QED
        BY <1>2, <3>1, <3>2 DEF Thread, PrepareSelect, Select, Cancelled, ReadForeign, ThreadExit
    <2>. QED
      BY <2>1, <2>2, <2>3
  <1>3. CASE Answered \/ ApTimeout \/ ApTooEarly \/ ApRekey \/ Network
    <2>1. UNCHANGED <<mpc, tpc, result>>
      BY <1>3 DEF Answered, ApTimeout, ApTooEarly, ApRekey, Network
    <2>2. UNCHANGED ended /\ lost \subseteq lost'
      BY <1>3 DEF Answered, ApTimeout, ApTooEarly, ApRekey, Network, ApReceive, Repeat, GiveUp,
         StartGroup, Lose, Duplicate
    <2>. QED
      BY <2>1, <2>2
  <1>4. CASE UNCHANGED vars
    BY <1>4 DEF vars
  <1>. QED
    BY <1>1, <1>2, <1>3, <1>4 DEF Next

LEMMA GroundStep ==
  ASSUME Context, Handshake, Ground, [Next]_vars
  PROVE  Ground'
  <1>. USE DEF MGoto, TGoto, FailTo, mainVars, hsVars, apVars, Ground
  <1>1. CASE Main
    <2>1. CASE Prepare
      BY <2>1 DEF Prepare
    <2>2. CASE LoopRun
      BY <2>2 DEF LoopRun
    <2>3. CASE Associate
      BY <2>3 DEF Associate
    <2>4. CASE SetAssociated
      BY <2>4 DEF SetAssociated
    <2>5. CASE WaitReady \/ WaitTimeout \/ Dhcp
      BY <2>5 DEF WaitReady, WaitTimeout, Dhcp
    <2>6. CASE LoopUnref
      BY <2>6 DEF LoopUnref
    <2>7. CASE Join
      BY <2>7 DEF Join
    <2>8. CASE Leave
      BY <2>8 DEF Leave
    <2>. QED
      BY <1>1, <2>1, <2>2, <2>3, <2>4, <2>5, <2>6, <2>7, <2>8 DEF Main
  <1>2. CASE Thread
    <2>1. CASE PrepareSelect \/ Select \/ ReadForeign
      BY <2>1 DEF PrepareSelect, Select, ReadForeign
    <2>2. CASE Cancelled
      BY <2>2 DEF Cancelled
    <2>3. CASE ReadFrame
      BY <2>3 DEF ReadFrame
    <2>4. CASE ThreadFails
      BY <2>4 DEF ThreadFails
    <2>5. CASE ThreadExit
      BY <2>5 DEF ThreadExit
    <2>. QED
      BY <1>2, <2>1, <2>2, <2>3, <2>4, <2>5 DEF Thread
  <1>3. CASE Answered \/ ApTimeout \/ ApTooEarly \/ ApRekey \/ Network
    <2>1. UNCHANGED <<mpc, tpc, ref, associated, result>>
      BY <1>3 DEF Answered, ApTimeout, ApTooEarly, ApRekey, Network
    <2>2. UNCHANGED ended
      BY <1>3 DEF Answered, ApTimeout, ApTooEarly, ApRekey, Network, ApReceive, Repeat, GiveUp,
         StartGroup, Lose, Duplicate
    <2>3. mpc \notin {"start", "run", "associating"}
      <3>1. ap.state # "idle" \/ toSta # <<>> \/ toAp # <<>>
        BY <1>3 DEF Answered, ApTimeout, ApTooEarly, ApRekey, Network, ApReceive, Repeat, GiveUp,
           Asks, Lose, Duplicate
      <3>. QED
        BY <3>1
    <2>4. faults' \in 0..MaxFaults
      <3>1. CASE UNCHANGED faults
        BY <3>1
      <3>2. CASE Fault
        BY <3>2, BoundsAssumption DEF Fault
      <3>. QED
        BY <1>3, <3>1, <3>2 DEF Answered, ApTimeout, ApTooEarly, ApRekey, Network, ApReceive,
           StartGroup, Lose, Duplicate
    <2>. QED
      BY <2>1, <2>2, <2>3, <2>4
  <1>4. CASE UNCHANGED vars
    BY <1>4 DEF vars
  <1>. QED
    BY <1>1, <1>2, <1>3, <1>4 DEF Next

\* Nothing that a phase is about has changed.
LEMMA PhaseKept ==
  ASSUME Phase, UNCHANGED hsVars, associated' = associated
  PROVE  Phase'
  <1>1. UNCHANGED <<sm, ap, toSta, toAp, faults>>
    BY DEF hsVars, apVars
  <1>. QED
    BY <1>1 DEF Phase, Beginning, Answering, Confirming, Secured

LEMMA ProgressStep ==
  ASSUME Patient, Context, Handshake, Ground, Ground', Going => Phase, [Next]_vars, Going'
  PROVE  Phase'
  <1>1. CASE mpc' = "associating"
    <2>1. Beginning'
      BY <1>1 DEF Ground, Beginning, In
    <2>2. Sorted(toSta') /\ ap'.from <= ap'.c + 1
      BY <1>1 DEF Ground, Sorted
    <2>. QED
      BY <2>1, <2>2 DEF Phase
  <1>2. CASE mpc' # "associating"
    <2>0. mpc' \in {"associated", "wait"}
      BY <1>2 DEF Going, Waits
    <2>1. Going /\ Phase /\ faults \in Nat /\ ended = "no" /\ ended' = "no"
      <3>1. mpc \in Waits /\ tpc # "none" /\ ended = "no" /\ "msg2" \notin lost
        BY <2>0, Lasting DEF Going, Waits
      <3>. QED
        BY <3>1, BoundsAssumption DEF Going, Ground
    <2>2. tpc \notin {"none", "exiting", "gone"}
      BY <2>1 DEF Going, Waits, Ground
    <2>. USE DEF MGoto, TGoto, FailTo, mainVars
    <2>3. CASE Main
      <3>1. CASE Associate
        <4>1. /\ StartHandshake /\ UNCHANGED <<sm, toAp, faults, associated>>
              /\ ap.state = "idle"
          BY <2>0, <3>1 DEF Associate, Ground
        <4>. QED
          BY <2>1, <4>1, PhaseHandshake
      <3>2. CASE SetAssociated
        <4>1. /\ UNCHANGED <<sm, ap, toSta, toAp, faults>> /\ associated' /\ ~associated
          BY <2>0, <3>2 DEF SetAssociated, Ground, hsVars, apVars
        <4>2. Beginning
          BY <2>1, <4>1 DEF Phase, Answering, Confirming, Secured
        <4>3. ap.tries \in Nat
          BY NumbersTyped DEF Handshake
        <4>4. Beginning'
          BY <2>1, <4>1, <4>2, <4>3 DEF Beginning
        <4>. QED
          BY <2>1, <4>1, <4>4 DEF Phase
      <3>. QED
        BY <2>0, <2>3, <3>1, <3>2 DEF Main, Prepare, LoopRun, WaitReady, WaitTimeout, Dhcp,
           LoopUnref, Join, Leave
    <2>4. CASE Thread
      <3>1. CASE ReadFrame
        <4>1. /\ toSta # <<>> /\ toSta' = Tail(toSta) /\ UNCHANGED <<ap, faults, associated>>
              /\ associated => Process(Head(toSta))
              /\ ~associated => UNCHANGED <<sm, toAp>>
          BY <3>1 DEF ReadFrame
        <4>. QED
          BY <2>1, <4>1, PhaseRead
      <3>2. CASE ThreadFails
        BY <2>1, <3>2 DEF ThreadFails
      <3>3. CASE PrepareSelect \/ Select \/ Cancelled \/ ReadForeign \/ ThreadExit
        <4>1. UNCHANGED hsVars /\ associated' = associated
          BY <3>3 DEF PrepareSelect, Select, Cancelled, ReadForeign, ThreadExit
        <4>. QED
          BY <2>1, <4>1, PhaseKept
      <3>. QED
        BY <2>4, <3>1, <3>2, <3>3 DEF Thread
    <2>5. CASE Answered
      <3>1. ApReceive /\ UNCHANGED <<faults, associated>>
        BY <2>5 DEF Answered, ApReceive
      <3>. QED
        BY <2>1, <3>1, PhaseReceive
    <2>6. CASE ApTimeout
      <3>1. /\ UNCHANGED <<faults, associated, mpc>> /\ toSta = <<>> /\ toAp = <<>>
            /\ mpc # "associated"
            /\ Repeat \/ GiveUp
        BY <2>2, <2>6 DEF ApTimeout, Quiet
      <3>2. mpc = "wait" /\ associated
        BY <2>0, <3>1 DEF Ground
      <3>3. CASE Repeat
        BY <2>1, <3>1, <3>2, <3>3, PhaseRepeat
      <3>4. CASE GiveUp
        BY <2>1, <3>1, <3>4, PhaseGiveUp DEF Ground
      <3>. QED
        BY <3>1, <3>3, <3>4
    <2>7. CASE ApTooEarly
      <3>1. Repeat /\ faults' = faults + 1 /\ associated' = associated
        BY <2>7 DEF ApTooEarly, Fault
      <3>. QED
        BY <2>1, <3>1, PhaseRepeat
    <2>8. CASE ApRekey
      <3>1. /\ ap.state = "done" /\ associated' = associated
            /\ \/ StartHandshake /\ UNCHANGED <<sm, toAp, faults>>
               \/ StartGroup
        BY <2>8 DEF ApRekey
      <3>. QED
        BY <2>1, <3>1, PhaseHandshake, PhaseGroup
    <2>9. CASE Network
      <3>1. (Lose \/ Duplicate) /\ associated' = associated /\ "msg2" \notin lost'
        BY <2>9 DEF Network, Going
      <3>. QED
        BY <2>1, <3>1, PhaseLoss
    <2>10. CASE UNCHANGED vars
      <3>1. UNCHANGED hsVars /\ associated' = associated
        BY <2>10 DEF vars
      <3>. QED
        BY <2>1, <3>1, PhaseKept
    <2>. QED
      BY <2>3, <2>4, <2>5, <2>6, <2>7, <2>8, <2>9, <2>10 DEF Next
  <1>. QED
    BY <1>1, <1>2

\* The phases hold while the test may still become READY.
LEMMA ProgressHolds ==
  ASSUME Patient
  PROVE  Spec => []Progress
  <1>1. ASSUME Init
        PROVE  Progress
    <2>1. Ground
      BY <1>1, BoundsAssumption DEF Init, InitHandshake, Ground
    <2>2. ~Going
      BY <1>1 DEF Init, Going, Waits
    <2>. QED
      BY <2>1, <2>2 DEF Progress
  <1>2. ASSUME Context, Handshake, Progress, [Next]_vars
        PROVE  Progress'
    <2>1. Ground'
      BY <1>2, GroundStep DEF Progress
    <2>2. Going' => Phase'
      BY <1>2, <2>1, ProgressStep DEF Progress
    <2>. QED
      BY <2>1, <2>2 DEF Progress
  <1>. QED
    BY <1>1, <1>2, ContextHolds, HandshakeHolds, PTL DEF Spec

LEMMA CauseStep ==
  ASSUME Context, Handshake, Progress, TimeoutHasCause, [Next]_vars
  PROVE  TimeoutHasCause'
  <1>. SUFFICES ASSUME result' = "timeout", "msg2" \notin lost', ended' = "no", tpc' # "none"
                PROVE  FALSE
    BY DEF TimeoutHasCause
  <1>1. /\ "msg2" \notin lost /\ ended = "no"
        /\ tpc # "none" \/ mpc = "run"
        /\ result = "timeout" \/ WaitTimeout
    BY Lasting DEF Progress
  <1>2. CASE result = "timeout"
    BY <1>1, <1>2 DEF TimeoutHasCause, Progress, Ground
  <1>3. CASE WaitTimeout
    <2>1. mpc = "wait" /\ sm.state # "GROUP_HS_READY" /\ ap.state \in {"done", "gaveUp"}
      BY <1>3 DEF WaitTimeout, MGoto
    <2>2. Phase
      BY <1>1, <2>1 DEF Progress, Going, Waits
    <2>. QED
      BY <2>1, <2>2 DEF Phase, Beginning, Answering, Confirming, Secured
  <1>. QED
    BY <1>1, <1>2, <1>3

\* The wait for READY (wlan-core-wpa.c:180) ends without it only after a local failure, or
\* the loss of message 2, which is not sent again (wlan-core-eapol.c:1030-1036): an access
\* point that asks often enough is answered, whatever else is lost, repeated or early.
THEOREM TimeoutsExplained ==
  ASSUME Patient
  PROVE  Spec => []TimeoutHasCause
  <1>1. Init => TimeoutHasCause
    BY DEF Init, TimeoutHasCause
  <1>. QED
    BY <1>1, CauseStep, ContextHolds, HandshakeHolds, ProgressHolds, PTL DEF Spec
=============================================================================
