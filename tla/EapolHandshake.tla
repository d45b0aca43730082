---------------------------- MODULE EapolHandshake ----------------------------
(***************************************************************************)
(* The supplicant's state machine of the WLAN tests                        *)
(* (blts-wlan-core/src/wlan-core-eapol.c): the four-way and the group-key  *)
(* handshake with an access point.                                         *)
(*                                                                         *)
(* process_eapol_frame() handles a frame under loop_state_lock; it is one  *)
(* action here, with a choice for each call in it that may fail.  Nonces   *)
(* are numbered, a PTK is the pair of the nonces it is derived from, a MIC *)
(* is the PTK it is made with, group keys are numbered.                    *)
(*                                                                         *)
(* The access point is external, and behaves like hostapd: each frame it   *)
(* sends, repeated ones too, has the next replay counter; it takes a reply *)
(* to any frame of the current exchange; it repeats a frame after a second *)
(* without a reply, and gives up in the end.                               *)
(***************************************************************************)
EXTENDS Naturals, Sequences

CONSTANTS
  MaxTries,      \* how often the access point sends a frame
  MaxHandshakes, \* bound: four-way handshakes
  MaxGroupKeys,  \* bound: group keys of the access point
  MaxFaults,     \* bound: frames lost or repeated, untimely repetitions
  MayFailLocal   \* TRUE: calls of the supplicant may fail

ASSUME BoundsAssumption ==
  /\ MaxTries \in Nat \ {0} /\ MaxHandshakes \in Nat /\ MaxGroupKeys \in Nat
  /\ MaxFaults \in Nat
ASSUME LocalAssumption == MayFailLocal \in BOOLEAN

VARIABLES
  sm,      \* the supplicant: loop_state.sm, eapol_auth_state and what the driver was told
  ap,      \* the access point
  toSta,   \* frames on their way to the supplicant
  toAp,    \* frames on their way to the access point
  faults,  \* faults there have been
  lost,    \* for the properties: kinds of the frames that have been lost
  ended    \* why the supplicant has told its thread to end: "no", "local", or the
           \* replay counter of a frame that was "stale" or "fresh"

apVars == <<ap, toSta, toAp, faults, lost>>
hsVars == <<sm, apVars, ended>>

NoKey == <<0, 0>>

\* enum of wlan-core-eapol.h, as far as states are reached.
States == {"PREAUTH", "4WAY_1_RCVD", "4WAY_2_SENT", "4WAY_3_RCVD", "4WAY_COMPLETE",
           "GROUP_HS_READY", "GROUP_HS_1_RCVD"}

ToSta == {"msg1", "msg3", "group1"}
ToAp == {"msg2", "msg4", "group2"}
Frame(kind, c, nonce, mic, gtk) ==
  [kind |-> kind, c |-> c, nonce |-> nonce, mic |-> mic, gtk |-> gtk]

\* eapol_sm_init(); loop_state is zeroed.
InitHandshake ==
  /\ sm = [state |-> "PREAUTH", counter |-> 0, answered |-> 0, anonce |-> 0, snonce |-> 0,
           ptk |-> NoKey, installed |-> NoKey, installs |-> 0, gtk |-> 0, port |-> FALSE]
  /\ ap = [state |-> "idle", c |-> 0, from |-> 1, tries |-> 0, anonce |-> 0,
           ptk |-> NoKey, gtk |-> 1]
  /\ toSta = <<>> /\ toAp = <<>>
  /\ faults = 0 /\ lost = {} /\ ended = "no"

-----------------------------------------------------------------------------
\* Mutated form of the next one: the state stays behind when message 2 has been sent.
After1_Unsent(f) ==
  LET s == [sm EXCEPT !.counter = f.c, !.answered = f.c, !.anonce = f.nonce,
                      !.snonce = @ + 1, !.ptk = <<f.nonce, sm.snonce + 1>>]
  IN  {<<[s EXCEPT !.state = "4WAY_1_RCVD"],
         <<Frame("msg2", f.c, s.snonce, s.ptk, 0)>>, "no">>}

\* process_eapol_4way_msg_1(): counter and ANonce are saved, a new SNonce and PTK made,
\* and message 2 sent, unless that fails.  What follows is <<sm, reply, end>>.
After1(f) ==
  LET s == [sm EXCEPT !.counter = f.c, !.answered = f.c, !.anonce = f.nonce,
                      !.snonce = @ + 1, !.ptk = <<f.nonce, sm.snonce + 1>>]
  IN  {<<[s EXCEPT !.state = "4WAY_2_SENT"],
         <<Frame("msg2", f.c, s.snonce, s.ptk, 0)>>, "no">>,
       <<[s EXCEPT !.state = "4WAY_1_RCVD"], <<>>, "local">>}

\* Mutated form of the next one: READY is announced before the keys are installed.
After3_Early(f) ==
  LET r == [sm EXCEPT !.counter = f.c, !.answered = f.c, !.state = "4WAY_3_RCVD"]
      s == [r EXCEPT !.state = "GROUP_HS_READY"]
      p == [s EXCEPT !.installed = sm.ptk, !.installs = @ + 1]
      msg4 == <<Frame("msg4", f.c, 0, sm.ptk, 0)>>
  IN  {<<[p EXCEPT !.gtk = f.gtk, !.port = TRUE], msg4, "no">>,
       <<r, <<>>, "local">>, <<s, msg4, "local">>, <<p, msg4, "local">>,
       <<[p EXCEPT !.gtk = f.gtk], msg4, "local">>}

\* process_eapol_4way_msg_3(): message 4 is sent, then PTK and GTK are installed and the
\* port is opened; each of these may fail.
After3(f) ==
  LET r == [sm EXCEPT !.counter = f.c, !.answered = f.c, !.state = "4WAY_3_RCVD"]
      s == [r EXCEPT !.state = "4WAY_COMPLETE"]
      p == [s EXCEPT !.installed = sm.ptk, !.installs = @ + 1]
      msg4 == <<Frame("msg4", f.c, 0, sm.ptk, 0)>>
  IN  {<<[p EXCEPT !.gtk = f.gtk, !.port = TRUE, !.state = "GROUP_HS_READY"], msg4, "no">>,
       <<r, <<>>, "local">>, <<s, msg4, "local">>, <<p, msg4, "local">>,
       <<[p EXCEPT !.gtk = f.gtk], msg4, "local">>}

\* process_eapol_group_hs_msg1(), behind eapol_group_hs_security_ok(), which sets the
\* counter: the key is installed, message 2 sent, and the counter is incremented again.
AfterG(f) ==
  LET r == [sm EXCEPT !.counter = f.c, !.answered = f.c, !.state = "GROUP_HS_1_RCVD"]
      g == [r EXCEPT !.gtk = f.gtk]
      msg2 == <<Frame("group2", f.c, 0, sm.ptk, 0)>>
  IN  {<<[g EXCEPT !.counter = @ + 1, !.state = "GROUP_HS_READY"], msg2, "no">>,
       <<r, <<>>, "local">>, <<g, <<>>, "local">>, <<g, msg2, "local">>}

\* A frame whose counter is not above the supplicant's ends the thread, whether the
\* access point had sent it before the last one that was answered or has just sent it.
RejectReplay(f) == {<<sm, <<>>, IF f.c > sm.answered THEN "fresh" ELSE "stale">>}

\* Mutated form of the next one: a repeated message 3 is processed again.
Outcomes_Reinstall(f) ==
  CASE f.kind = "msg1" /\ sm.state \in {"PREAUTH", "GROUP_HS_READY"} -> After1(f)
    [] f.kind = "msg3" /\ sm.state \in {"4WAY_2_SENT", "GROUP_HS_READY"} /\ f.mic = sm.ptk ->
         IF f.c > sm.counter /\ f.nonce = sm.anonce THEN After3(f) ELSE RejectReplay(f)
    [] f.kind = "group1" /\ sm.state = "GROUP_HS_READY" /\ f.mic = sm.ptk ->
         IF f.c > sm.counter THEN AfterG(f) ELSE RejectReplay(f)
    [] OTHER -> {<<sm, <<>>, "no">>}

\* process_eapol_frame(): what each state takes; anything else is ignored, a frame with a
\* bad MIC too.
Outcomes(f) ==
  CASE f.kind = "msg1" /\ sm.state \in {"PREAUTH", "GROUP_HS_READY"} -> After1(f)
    [] f.kind = "msg3" /\ sm.state = "4WAY_2_SENT" /\ f.mic = sm.ptk ->
         IF f.c > sm.counter /\ f.nonce = sm.anonce THEN After3(f) ELSE RejectReplay(f)
    [] f.kind = "group1" /\ sm.state = "GROUP_HS_READY" /\ f.mic = sm.ptk ->
         IF f.c > sm.counter THEN AfterG(f) ELSE RejectReplay(f)
    [] OTHER -> {<<sm, <<>>, "no">>}

\* The supplicant's part of handling frame f.
Process(f) ==
  \E o \in Outcomes(f) :
    /\ o[3] = "local" => MayFailLocal
    /\ sm' = o[1]
    /\ toAp' = toAp \o o[2]
    /\ ended' = o[3]

-----------------------------------------------------------------------------
\* The access point's next frame of the given kind, which asks for an answer.
Send(kind, a) ==
  LET nonce == IF kind = "group1" THEN 0 ELSE a.anonce
      mic == IF kind = "msg1" THEN NoKey ELSE a.ptk
      gtk == IF kind = "msg1" THEN 0 ELSE a.gtk
  IN  /\ toSta' = Append(toSta, Frame(kind, ap.c + 1, nonce, mic, gtk))
      /\ ap' = [a EXCEPT !.c = ap.c + 1]

\* The frame the access point sends, and repeats, in each of its waiting states.
Asks == [wait2 |-> "msg1", wait4 |-> "msg3", waitGroup |-> "group1"]
Begin(st, a) ==
  Send(Asks[st], [a EXCEPT !.state = st, !.from = ap.c + 1, !.tries = 1])

\* A four-way handshake, when the station has associated or to change the PTK.
StartHandshake == /\ ap.anonce < MaxHandshakes
                  /\ Begin("wait2", [ap EXCEPT !.anonce = @ + 1])

\* A new group key.
StartGroup == /\ ap.state = "done"
              /\ ap.gtk < MaxGroupKeys
              /\ Begin("waitGroup", [ap EXCEPT !.gtk = @ + 1])
              /\ UNCHANGED <<sm, toAp, faults, lost, ended>>

\* The answer to a frame of the current exchange.
Answers(f) == /\ f.c \in ap.from..ap.c
              /\ \/ ap.state = "wait2" /\ f.kind = "msg2" /\ f.mic = <<ap.anonce, f.nonce>>
                 \/ ap.state = "wait4" /\ f.kind = "msg4" /\ f.mic = ap.ptk
                 \/ ap.state = "waitGroup" /\ f.kind = "group2" /\ f.mic = ap.ptk

ApReceive ==
  /\ toAp # <<>>
  /\ toAp' = Tail(toAp)
  /\ LET f == Head(toAp) IN
       CASE ~Answers(f)                   -> UNCHANGED <<ap, toSta>>
         [] Answers(f) /\ f.kind = "msg2" -> Begin("wait4", [ap EXCEPT !.ptk = f.mic])
         [] OTHER -> ap' = [ap EXCEPT !.state = "done"] /\ UNCHANGED toSta
  /\ UNCHANGED <<sm, faults, lost, ended>>

\* No answer: the frame once more, or the end.
Repeat == /\ ap.state \in DOMAIN Asks
          /\ ap.tries < MaxTries
          /\ Send(Asks[ap.state], [ap EXCEPT !.tries = @ + 1])
          /\ UNCHANGED <<sm, toAp, lost, ended>>

GiveUp == /\ ap.state \in DOMAIN Asks
          /\ ap.tries = MaxTries
          /\ ap' = [ap EXCEPT !.state = "gaveUp"]
          /\ UNCHANGED <<sm, toSta, toAp, lost, ended>>

\* What the network does: frames are lost in either direction, and the one that comes
\* next may come twice.
Fault == faults < MaxFaults /\ faults' = faults + 1
Lose == /\ Fault
        /\ \/ /\ toSta # <<>>
              /\ toSta' = Tail(toSta)
              /\ lost' = lost \cup {Head(toSta).kind}
              /\ UNCHANGED toAp
           \/ /\ toAp # <<>>
              /\ toAp' = Tail(toAp)
              /\ lost' = lost \cup {Head(toAp).kind}
              /\ UNCHANGED toSta
        /\ UNCHANGED <<sm, ap, ended>>
Duplicate == /\ Fault
             /\ toSta # <<>>
             /\ toSta' = <<Head(toSta)>> \o toSta
             /\ UNCHANGED <<sm, ap, toAp, lost, ended>>

-----------------------------------------------------------------------------
\* The access point has completed a handshake only with a supplicant that has installed
\* the same keys, or has failed to and ended; and the supplicant is READY only with the
\* keys it has derived and been given installed, and its port open.
KeysAgree ==
  /\ ap.state = "done" /\ ended # "local" =>
       sm.installed = ap.ptk /\ sm.gtk = ap.gtk
  /\ sm.state = "GROUP_HS_READY" => sm.installed = sm.ptk /\ sm.gtk # 0 /\ sm.port

\* A pairwise key is installed once, however often message 3 comes: installing it anew
\* would set its packet number back.
PairwiseKeyInstalledOnce == sm.installs <= sm.snonce

\* A frame the access point has sent after all that the supplicant has answered is not
\* taken for a replay ("Any retries from AP will do the same if the frame we sent was
\* lost", wlan-core-eapol.c:974-976).
FreshFramesAccepted == ended # "fresh"
=============================================================================
