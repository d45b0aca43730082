---------------------------- MODULE CliRunnerProofs ----------------------------
(***************************************************************************)
(* Proofs about CliRunner and CliVariations, for any tests, timeouts and   *)
(* configurations.                                                         *)
(*                                                                         *)
(* The verdict on a variant is that of its child as long as the child can  *)
(* be waited for, which it can because SIGCHLD has its default action      *)
(* whenever one runs; the failed variants are those in failed, and a test  *)
(* is over when all its variants are.  That the number a test function     *)
(* returns fits into an exit status is assumed: 256 is a pass for the CLI. *)
(*                                                                         *)
(* That the variants are all combinations is shown column by column: with  *)
(* one column more, the table goes through the permutations of the others  *)
(* once for each of its values, because the carry passes exactly at their  *)
(* last one.  Inductions are on a least counterexample.                    *)
(***************************************************************************)
EXTENDS CliVariations, FiniteSetTheorems, WellFoundedInduction, TLAPS

Ends == {"passed", "failed", "killed", "overdue"}
Verdicts == [written : BOOLEAN, ret : 0..1, steps : Seq(Nat)]

Shape ==
  /\ pc \in Steps /\ t \in 1..(Len(Tests) + 1) /\ n \in Nat /\ ret \in 0..1
  /\ returned \in Returns /\ failed \in Seq(Nat)
  /\ report \in Seq(Verdicts) /\ Len(report) = t - 1
  /\ fates \in Seq(Seq(Ends)) /\ Len(fates) = IF pc = "next" THEN t - 1 ELSE t
  /\ pc # "next" => t <= Len(Tests) /\ Now.exists

\* SIGCHLD is not ignored from fork() to restore_sigchld().
Waitable == /\ sigchld \in {"default", "ignored"} /\ saved \in {"none", "default", "ignored"}
            /\ saved # "none" => sigchld = "default"
            /\ pc \in {"poll", "sleep", "done"} => saved # "none"

\* What is known of the child, and of ret.
ChildKnown ==
  /\ pc \in {"next", "fork", "write"} => child = "none"
  /\ pc \in {"poll", "sleep"} =>
       \/ child \in {"running", "zombie"} /\ ret = 0
       \/ child = "reaped" /\ ret = Verdict
  /\ pc = "done" =>
       \/ child = "reaped" /\ ret = Verdict
       \/ child \in {"killed", "overdue"} /\ ret = 1

\* The variants of the present test that have ended, and those of them that failed.
NotIn(s) == {v \in DOMAIN s : s[v] # "passed"}
Variants ==
  /\ pc = "fork" => Len(fates[t]) = n /\ n < Runs(Now)
  /\ pc \in {"poll", "sleep", "done"} => Len(fates[t]) + 1 = n /\ n <= Runs(Now)
  /\ pc = "write" => /\ Len(fates[t]) = n /\ n = Runs(Now)
                     /\ ret = 0 <=> fates[t][n] = "passed"
  /\ pc # "next" => IF Now.variants > 0 THEN ToSet(failed) = NotIn(fates[t])
                                        ELSE failed = <<>>

\* The tests that are over.
Judged == \A k \in Concluded : report[k].written =>
            /\ Len(fates[k]) = Runs(Tests[k])
            /\ report[k].ret = 0 => AllPassed(k)
            /\ Tests[k].variants > 0 => NotPassed(k) = ToSet(report[k].steps)
Counted == result = Cardinality({k \in Concluded : ~AllPassed(k)})

Inv == Shape /\ Waitable /\ ChildKnown /\ Variants /\ Judged /\ Counted

-----------------------------------------------------------------------------
\* The tests asked for.
LEMMA NowTyped ==
  ASSUME t \in 1..Len(Tests)
  PROVE  Now.variants \in Nat /\ Now.exists \in BOOLEAN /\ Runs(Now) \in Nat \ {0}
  <1>. DEFINE Case == [exists : BOOLEAN, variants : Nat, timeout : Nat]
  <1>1. Tests \in Seq(Case)
    BY TestsAssumption
  <1>. HIDE DEF Case
  <1>2. Tests[t] \in Case
    BY <1>1
  <1>. QED
    BY <1>2 DEF Case, Now, Runs

\* A failed variant noted.
LEMMA Noted ==
  ASSUME NEW s \in Seq(Nat), NEW k \in Nat
  PROVE  /\ <<k>> \o s \in Seq(Nat) /\ <<k>> \o s # <<>>
         /\ ToSet(<<k>> \o s) = {k} \cup ToSet(s)
  <1>. DEFINE q == <<k>> \o s
  <1>1. q \in Seq(Nat) /\ Len(q) = Len(s) + 1 /\ Len(s) \in Nat
        /\ DOMAIN q = 1..Len(s) + 1 /\ DOMAIN s = 1..Len(s)
    OBVIOUS
  <1>2. q[1] = k /\ \A j \in 1..Len(s) : q[j + 1] = s[j]
    OBVIOUS
  <1>3. ToSet(q) \subseteq {k} \cup ToSet(s)
    <2>. SUFFICES ASSUME NEW j \in DOMAIN q
                  PROVE  q[j] \in {k} \cup ToSet(s)
      BY DEF ToSet
    <2>1. CASE j = 1
      BY <1>2, <2>1
    <2>2. CASE j # 1
      <3>1. j - 1 \in DOMAIN s /\ (j - 1) + 1 = j
        BY <1>1, <2>2
      <3>2. q[j] = s[j - 1]
        BY <1>1, <1>2, <3>1
      <3>. QED
        BY <3>1, <3>2 DEF ToSet
    <2>. QED
      BY <2>1, <2>2
  <1>4. {k} \cup ToSet(s) \subseteq ToSet(q)
    <2>1. k \in ToSet(q)
      BY <1>1, <1>2 DEF ToSet
    <2>2. ASSUME NEW j \in DOMAIN s
          PROVE  s[j] \in ToSet(q)
      <3>1. j + 1 \in DOMAIN q /\ q[j + 1] = s[j]
        BY <1>1, <1>2
      <3>. QED
        BY <3>1 DEF ToSet
    <2>. QED
      BY <2>1, <2>2 DEF ToSet
  <1>. QED
    BY <1>1, <1>3, <1>4

\* The end of one more variant.
LEMMA Ended ==
  ASSUME NEW s \in Seq(Ends), NEW e \in Ends
  PROVE  /\ Append(s, e) \in Seq(Ends) /\ Len(Append(s, e)) = Len(s) + 1
         /\ Append(s, e)[Len(s) + 1] = e
         /\ NotIn(Append(s, e)) = NotIn(s) \cup (IF e = "passed" THEN {} ELSE {Len(s) + 1})
  <1>1. /\ Append(s, e) \in Seq(Ends) /\ Len(Append(s, e)) = Len(s) + 1 /\ Len(s) \in Nat
        /\ Append(s, e)[Len(s) + 1] = e /\ \A j \in 1..Len(s) : Append(s, e)[j] = s[j]
        /\ DOMAIN s = 1..Len(s) /\ DOMAIN Append(s, e) = 1..Len(s) + 1
    OBVIOUS
  <1>2. 1..Len(s) + 1 = (1..Len(s)) \cup {Len(s) + 1} /\ Len(s) + 1 \notin 1..Len(s)
    BY <1>1
  <1>. QED
    BY <1>1, <1>2 DEF NotIn

\* A test has passed if all its variants have ended and none of them otherwise.
LEMMA PassedAll ==
  ASSUME NEW s \in Seq(Ends), NEW m \in Nat
  PROVE  s = [v \in 1..m |-> "passed"] <=> Len(s) = m /\ NotIn(s) = {}
  <1>1. DOMAIN s = 1..Len(s) /\ Len(s) \in Nat /\ s = [v \in 1..Len(s) |-> s[v]]
    OBVIOUS
  <1>2. ASSUME s = [v \in 1..m |-> "passed"]
        PROVE  Len(s) = m /\ NotIn(s) = {}
    <2>1. 1..m = 1..Len(s)
      BY <1>1, <1>2
    <2>2. m = Len(s)
      BY <1>1, <2>1
    <2>. QED
      BY <1>2, <2>2 DEF NotIn
  <1>3. ASSUME Len(s) = m, NotIn(s) = {}
        PROVE  s = [v \in 1..m |-> "passed"]
    BY <1>1, <1>3 DEF NotIn
  <1>. QED
    BY <1>2, <1>3

-----------------------------------------------------------------------------
\* What has been reported does not change as long as no test ends.
LEMMA PastKept ==
  ASSUME Inv, UNCHANGED caseVars, \A k \in 1..Len(report) : fates'[k] = fates[k]
  PROVE  Judged' /\ Counted'
  <1>1. UNCHANGED <<result, report>>
    BY DEF caseVars
  <1>2. Concluded' = Concluded
    BY <1>1 DEF Concluded
  <1>3. \A k \in Concluded : (AllPassed(k)' <=> AllPassed(k)) /\ NotPassed(k)' = NotPassed(k)
    BY DEF Concluded, AllPassed, NotPassed
  <1>4. Judged'
    <2>. SUFFICES ASSUME NEW k \in Concluded, report[k].written
                  PROVE  /\ Len(fates'[k]) = Runs(Tests[k])
                         /\ report[k].ret = 0 => AllPassed(k)'
                         /\ Tests[k].variants > 0 => NotPassed(k)' = ToSet(report[k].steps)
      BY <1>1, <1>2 DEF Judged
    <2>1. fates'[k] = fates[k]
      BY DEF Concluded
    <2>. QED
      BY <1>3, <2>1 DEF Inv, Judged
  <1>5. {k \in Concluded : ~AllPassed(k)}' = {k \in Concluded : ~AllPassed(k)}
    BY <1>2, <1>3
  <1>. QED
    BY <1>1, <1>4, <1>5 DEF Inv, Counted

\* A test that ends is counted if one of its variants did not pass.
LEMMA Concluding ==
  ASSUME Inv, NEW m \in Nat, m = t, NEW r \in 0..1, NEW w \in Verdicts, Conclude(r, w),
         \A k \in 1..Len(report) : fates'[k] = fates[k],
         r = 0 <=> AllPassed(m)',
         w.written => /\ Len(fates'[m]) = Runs(Tests[m])
                      /\ w.ret = 0 => r = 0
                      /\ Tests[m].variants > 0 => NotPassed(m)' = ToSet(w.steps)
  PROVE  report' \in Seq(Verdicts) /\ Len(report') = t /\ Judged' /\ Counted'
  <1>1. /\ report \in Seq(Verdicts) /\ Len(report) = t - 1 /\ report' = Append(report, w)
        /\ result' = result + r /\ t \in Nat /\ t >= 1
    BY DEF Inv, Shape, Conclude
  <1>2. /\ report' \in Seq(Verdicts) /\ Len(report') = m /\ report'[m] = w
        /\ \A k \in 1..Len(report) : report'[k] = report[k]
    BY <1>1
  <1>3. Concluded' = Concluded \cup {m} /\ m \notin Concluded
    BY <1>1, <1>2 DEF Concluded
  <1>4. \A k \in Concluded : (AllPassed(k)' <=> AllPassed(k)) /\ NotPassed(k)' = NotPassed(k)
    BY DEF Concluded, AllPassed, NotPassed
  <1>5. Judged'
    <2>. SUFFICES ASSUME NEW k \in Concluded', report'[k].written
                  PROVE  /\ Len(fates'[k]) = Runs(Tests[k])
                         /\ report'[k].ret = 0 => AllPassed(k)'
                         /\ Tests[k].variants > 0 => NotPassed(k)' = ToSet(report'[k].steps)
      BY DEF Judged
    <2>1. CASE k = m
      BY <1>2, <2>1
    <2>2. CASE k \in Concluded
      BY <1>2, <1>4, <2>2 DEF Inv, Judged, Concluded
    <2>. QED
      BY <1>3, <2>1, <2>2
  <1>6. Counted'
    <2>. DEFINE Bad == {k \in Concluded : ~AllPassed(k)}
    <2>1. IsFiniteSet(Bad)
      <3>1. IsFiniteSet(Concluded)
        BY <1>1, FS_Interval DEF Concluded
      <3>. QED
        BY <3>1, FS_Subset
    <2>2. Cardinality(Bad) = result /\ m \notin Bad /\ result \in Nat
      BY <1>3, <2>1, FS_CardinalityType DEF Inv, Counted
    <2>3. CASE r = 0
      <3>1. {k \in Concluded' : ~AllPassed(k)'} = Bad
        BY <1>3, <1>4, <2>3
      <3>2. result' = result
        BY <1>1, <2>2, <2>3
      <3>. QED
        BY <2>2, <3>1, <3>2 DEF Counted
    <2>4. CASE r = 1
      <3>1. {k \in Concluded' : ~AllPassed(k)'} = Bad \cup {m}
        BY <1>3, <1>4, <2>4
      <3>2. Cardinality(Bad \cup {m}) = Cardinality(Bad) + 1
        BY <2>1, <2>2, FS_AddElement
      <3>3. result' = Cardinality(Bad \cup {m})
        BY <1>1, <2>2, <2>4, <3>2
      <3>. QED
        BY <3>1, <3>3 DEF Counted
    <2>. QED
      BY <2>3, <2>4
  <1>. QED
    BY <1>2, <1>5, <1>6

-----------------------------------------------------------------------------
\* Nothing has been asked yet.
LEMMA InvInit == Init => Inv
  <1>. SUFFICES ASSUME Init
                PROVE  Inv
    OBVIOUS
  <1>. USE DEF Init
  <1>1. Shape
    BY TestsAssumption DEF Shape, Steps
  <1>2. Waitable /\ ChildKnown /\ Variants
    BY DEF Waitable, ChildKnown, Variants
  <1>3. Concluded = {}
    BY DEF Concluded
  <1>4. Judged /\ Counted
    BY <1>3, FS_EmptySet DEF Judged, Counted
  <1>. QED
    BY <1>1, <1>2, <1>4 DEF Inv

\* A missing test counts as one that failed.
LEMMA SkipStep ==
  ASSUME Inv, Skip
  PROVE  Inv'
  <1>1. PICK m \in Nat : m = t /\ m \in 1..Len(Tests)
    BY TestsAssumption DEF Inv, Shape, Skip, InTests
  <1>2. /\ pc = "next" /\ Conclude(1, Nothing) /\ ~Now.exists /\ fates' = Append(fates, <<>>)
        /\ UNCHANGED <<n, ret, elapsed, failed, signalVars, child, returned>>
    BY DEF Skip
  <1>3. Nothing \in Verdicts /\ ~Nothing.written
    BY DEF Nothing, Verdicts
  <1>4. /\ fates \in Seq(Seq(Ends)) /\ Len(fates) = t - 1 /\ Len(report) = t - 1
        /\ t \in Nat /\ t >= 1
    BY <1>2, TestsAssumption DEF Inv, Shape
  <1>5. /\ fates' \in Seq(Seq(Ends)) /\ Len(fates') = t
        /\ \A k \in 1..Len(report) : fates'[k] = fates[k]
    BY <1>2, <1>4
  <1>6. 1 \in 0..1 /\ (1 = 0 <=> AllPassed(m)')
    BY <1>1, <1>2 DEF AllPassed, Now
  <1>7. report' \in Seq(Verdicts) /\ Len(report') = t /\ Judged' /\ Counted'
    BY <1>1, <1>2, <1>3, <1>5, <1>6, Concluding
  <1>8. pc' = "next" /\ t' = t + 1
    BY <1>2 DEF Conclude
  <1>9. Shape'
    BY <1>1, <1>2, <1>4, <1>5, <1>7, <1>8, TestsAssumption DEF Inv, Shape, Steps
  <1>10. Waitable' /\ ChildKnown' /\ Variants'
    BY <1>2, <1>8 DEF Inv, Waitable, ChildKnown, Variants, signalVars
  <1>. QED
    BY <1>7, <1>9, <1>10 DEF Inv

\* A test begins without a variant.
LEMMA StartStep ==
  ASSUME Inv, Start
  PROVE  Inv'
  <1>1. /\ pc = "next" /\ pc' = "fork" /\ t \in 1..Len(Tests) /\ Now.exists
        /\ n' = 0 /\ ret' = 0 /\ failed' = <<>> /\ fates' = Append(fates, <<>>)
        /\ UNCHANGED <<caseVars, elapsed, signalVars, child, returned>>
    BY TestsAssumption DEF Start, Inv, Shape, InTests
  <1>2. /\ fates \in Seq(Seq(Ends)) /\ Len(fates) = t - 1 /\ Len(report) = t - 1 /\ t \in Nat
    BY <1>1, TestsAssumption DEF Inv, Shape
  <1>3. /\ fates' \in Seq(Seq(Ends)) /\ Len(fates') = t /\ fates'[t] = <<>>
        /\ \A k \in 1..Len(report) : fates'[k] = fates[k]
    BY <1>1, <1>2
  <1>4. t' = t /\ report' = report
    BY <1>1 DEF caseVars
  <1>5. Shape'
    BY <1>1, <1>3, <1>4 DEF Inv, Shape, Steps, Now
  <1>6. Waitable' /\ ChildKnown'
    BY <1>1 DEF Inv, Waitable, ChildKnown, signalVars
  <1>7. Variants'
    <2>1. ToSet(failed') = {} /\ NotIn(fates'[t]) = {} /\ Len(fates'[t]) = 0
      BY <1>1, <1>3 DEF ToSet, NotIn
    <2>2. Runs(Now)' = Runs(Now) /\ Now' = Now /\ Runs(Now) \in Nat \ {0}
      BY <1>1, <1>4, NowTyped DEF Runs, Now
    <2>4. 0 < Runs(Now)
      BY <2>2
    <2>3. Len(fates'[t']) = n' /\ n' < Runs(Now)' /\ ToSet(failed') = NotIn(fates'[t'])
          /\ failed' = <<>>
      BY <1>1, <1>4, <2>1, <2>2, <2>4, Zenon
    <2>. QED
      BY <1>1, <2>3 DEF Variants
  <1>8. Judged' /\ Counted'
    BY <1>1, <1>3, PastKept
  <1>. QED
    BY <1>5, <1>6, <1>7, <1>8 DEF Inv

\* A variant begins, with SIGCHLD at its default.
LEMMA ForkStep ==
  ASSUME Inv, Fork
  PROVE  Inv'
  <1>1. /\ pc = "fork" /\ pc' = "poll" /\ n' = n + 1 /\ ret' = 0 /\ child' = "running"
        /\ SaveAndClear /\ UNCHANGED <<caseVars, failed, returned, fates>>
    BY DEF Fork
  <1>2. UNCHANGED <<t, report>> /\ n \in Nat /\ Runs(Now) \in Nat
    BY <1>1, NowTyped DEF caseVars, Inv, Shape
  <1>3. Shape'
    BY <1>1, <1>2 DEF Inv, Shape, Steps, Now
  <1>4. Waitable'
    <2>1. saved' = "none" => FALSE
      BY <1>1 DEF Inv, SaveAndClear, signalVars, Waitable
    <2>. QED
      BY <1>1, <2>1 DEF Inv, SaveAndClear, signalVars, Waitable
  <1>5. ChildKnown'
    BY <1>1 DEF ChildKnown
  <1>6. Variants'
    BY <1>1, <1>2 DEF Inv, Variants, Now, Runs
  <1>7. Judged' /\ Counted'
    BY <1>1, PastKept
  <1>. QED
    BY <1>3, <1>4, <1>5, <1>6, <1>7 DEF Inv

\* fork() has failed: the variants are not complete, and the test counts as failed.
LEMMA ForkFailsStep ==
  ASSUME Inv, ForkFails
  PROVE  Inv'
  <1>1. PICK m \in Nat : m = t /\ m \in 1..Len(Tests)
    BY TestsAssumption DEF Inv, Shape, ForkFails
  <1>2. /\ pc = "fork" /\ SaveAndClear /\ Conclude(1, Nothing)
        /\ ret' = 1 /\ failed' = <<>> /\ n' = 0
        /\ UNCHANGED <<elapsed, child, returned, fates>>
    BY DEF ForkFails
  <1>3. Nothing \in Verdicts /\ ~Nothing.written
    BY DEF Nothing, Verdicts
  <1>4. /\ fates \in Seq(Seq(Ends)) /\ Len(fates) = t /\ fates[m] \in Seq(Ends)
        /\ Len(fates[m]) < Runs(Tests[m]) /\ Runs(Tests[m]) \in Nat
    BY <1>1, <1>2, NowTyped DEF Inv, Shape, Variants, Now
  <1>5. 1 \in 0..1 /\ (1 = 0 <=> AllPassed(m)')
    <2>1. fates[m] # [v \in 1..Runs(Tests[m]) |-> "passed"]
      <3>1. Len(fates[m]) # Runs(Tests[m])
        BY <1>4
      <3>. QED
        BY <1>4, <3>1, PassedAll
    <2>. QED
      BY <1>2, <2>1 DEF AllPassed
  <1>6. report' \in Seq(Verdicts) /\ Len(report') = t /\ Judged' /\ Counted'
    BY <1>1, <1>2, <1>3, <1>5, Concluding
  <1>7. pc' = "next" /\ t' = t + 1
    BY <1>2 DEF Conclude
  <1>8. Shape'
    BY <1>1, <1>2, <1>4, <1>6, <1>7, TestsAssumption DEF Inv, Shape, Steps
  <1>9. Waitable' /\ ChildKnown' /\ Variants'
    BY <1>2, <1>7 DEF Inv, Waitable, ChildKnown, Variants, SaveAndClear, signalVars
  <1>. QED
    BY <1>6, <1>8, <1>9 DEF Inv

\* The child's end, the poll that sees it, the time that passes.
LEMMA WaitStep ==
  ASSUME Inv, Poll \/ Sleep \/ Timeout \/ (\E r \in Returns : ChildEnds(r))
  PROVE  Inv'
  <1>1. UNCHANGED <<n, failed, signalVars, caseVars, fates>>
    BY DEF Poll, Sleep, Timeout, ChildEnds
  <1>2. UNCHANGED <<t, report>>
    BY <1>1 DEF caseVars
  <1>3. Verdict \in 0..1
    BY DEF Verdict
  <1>4. /\ pc' \in Steps /\ ret' \in 0..1 /\ returned' \in Returns
        /\ \/ pc \in {"poll", "sleep"} /\ pc' \in {"poll", "sleep", "done"}
           \/ pc' = pc
    BY <1>3 DEF Poll, Sleep, Timeout, ChildEnds, Inv, Shape, Steps
  <1>5. Shape'
    BY <1>1, <1>2, <1>4 DEF Inv, Shape, Now
  <1>6. Waitable'
    BY <1>1, <1>4 DEF Inv, Waitable, signalVars
  <1>7. Variants'
    <2>1. Now' = Now /\ Runs(Now)' = Runs(Now)
      BY <1>2 DEF Now, Runs
    <2>2. CASE pc \in {"poll", "sleep"} /\ pc' \in {"poll", "sleep", "done"}
      BY <1>1, <1>2, <2>1, <2>2 DEF Inv, Variants
    <2>3. CASE pc' = pc /\ ret' = ret
      BY <1>1, <1>2, <2>1, <2>3 DEF Inv, Variants
    <2>4. pc' = pc => ret' = ret
      BY DEF Poll, Sleep, Timeout, ChildEnds
    <2>. QED
      BY <1>4, <2>2, <2>3, <2>4
  <1>8. ChildKnown'
    <2>1. CASE Poll
      <3>1. returned' = returned /\ Verdict' = Verdict
        BY <2>1 DEF Poll, Verdict, Status
      <3>. QED
        BY <2>1, <3>1 DEF Inv, ChildKnown, Poll
    <2>2. CASE Sleep
      <3>1. returned' = returned /\ Verdict' = Verdict
        BY <2>2 DEF Sleep, Verdict, Status
      <3>. QED
        BY <2>2, <3>1 DEF Inv, ChildKnown, Sleep
    <2>3. CASE Timeout
      BY <2>3 DEF Inv, ChildKnown, Timeout
    <2>4. CASE \E r \in Returns : ChildEnds(r)
      <3>1. /\ child = "running" /\ UNCHANGED <<pc, ret>>
            /\ child' = IF sigchld = "default" THEN "zombie" ELSE "reaped"
        BY <2>4 DEF ChildEnds
      <3>2. pc \in {"poll", "sleep"} /\ sigchld = "default"
        BY <3>1 DEF Inv, ChildKnown, Waitable, Shape, Steps
      <3>. QED
        BY <3>1, <3>2 DEF Inv, ChildKnown
    <2>. QED
      BY <2>1, <2>2, <2>3, <2>4
  <1>9. Judged' /\ Counted'
    BY <1>1, PastKept
  <1>. QED
    BY <1>5, <1>6, <1>7, <1>8, <1>9 DEF Inv

-----------------------------------------------------------------------------
\* What an exit status can tell.
OneByte == Returns \subseteq 0..255

\* The verdict on a variant that is over is 0 if it passed, and only then.
LEMMA FateOfVerdict ==
  ASSUME OneByte, Inv, pc = "done"
  PROVE  Fate \in Ends /\ (ret = 0 <=> Fate = "passed") /\ ret \in {0, 1}
  <1>1. returned \in 0..255 /\ ret \in {0, 1}
    BY DEF OneByte, Inv, Shape
  <1>2. Status = 0 <=> returned = 0
    BY <1>1 DEF Status
  <1>3. \/ child = "reaped" /\ ret = Verdict
        \/ child \in {"killed", "overdue"} /\ ret = 1
    BY DEF Inv, ChildKnown
  <1>4. CASE child = "reaped" /\ ret = Verdict
    <2>1. ret = 0 <=> returned = 0
      BY <1>2, <1>4 DEF Verdict
    <2>2. Fate = IF returned # 0 THEN "failed" ELSE "passed"
      BY <1>4 DEF Fate
    <2>. QED
      BY <1>1, <2>1, <2>2 DEF Ends
  <1>5. CASE child \in {"killed", "overdue"} /\ ret = 1
    <2>1. Fate \in {"failed", "killed", "overdue"}
      BY <1>5, Zenon DEF Fate
    <2>. QED
      BY <1>5, <2>1 DEF Ends
  <1>. QED
    BY <1>3, <1>4, <1>5

\* The end of a variant: it is in failed if it did not pass.
LEMMA EndVariantStep ==
  ASSUME OneByte, Inv, EndVariant
  PROVE  Inv'
  <1>1. /\ pc = "done" /\ pc' = IF n < Now.variants THEN "fork" ELSE "write"
        /\ failed' = IF Now.variants > 0 /\ ret # 0 THEN <<n>> \o failed ELSE failed
        /\ Restore /\ child' = "none" /\ fates' = [fates EXCEPT ![t] = Append(@, Fate)]
        /\ UNCHANGED <<n, ret, elapsed, returned, caseVars>>
    BY DEF EndVariant
  <1>2. /\ UNCHANGED <<t, report>> /\ Now' = Now /\ Runs(Now)' = Runs(Now)
    BY <1>1 DEF caseVars, Now, Runs
  <1>3. /\ Fate \in Ends /\ (ret = 0 <=> Fate = "passed") /\ ret \in {0, 1}
    BY <1>1, FateOfVerdict
  <1>4. /\ fates \in Seq(Seq(Ends)) /\ Len(fates) = t /\ t \in Nat /\ t >= 1
        /\ Len(report) = t - 1 /\ n \in Nat /\ failed \in Seq(Nat)
    BY <1>1, TestsAssumption DEF Inv, Shape
  <1>5. /\ fates[t] \in Seq(Ends) /\ Len(fates[t]) + 1 = n /\ n <= Runs(Now)
        /\ IF Now.variants > 0 THEN ToSet(failed) = NotIn(fates[t]) ELSE failed = <<>>
    BY <1>1, <1>4 DEF Inv, Variants
  <1>6. Now.variants \in Nat /\ Runs(Now) = IF Now.variants = 0 THEN 1 ELSE Now.variants
    <2>1. t \in 1..Len(Tests)
      BY <1>1 DEF Inv, Shape
    <2>. QED
      BY <2>1, NowTyped DEF Runs
  <1>7. /\ fates'[t] \in Seq(Ends) /\ Len(fates'[t]) = n /\ fates'[t][n] = Fate
        /\ NotIn(fates'[t]) = NotIn(fates[t]) \cup (IF Fate = "passed" THEN {} ELSE {n})
    <2>1. fates'[t] = Append(fates[t], Fate)
      BY <1>1, <1>4
    <2>. QED
      BY <1>3, <1>5, <2>1, Ended
  <1>8. /\ fates' \in Seq(Seq(Ends)) /\ Len(fates') = t
        /\ \A k \in 1..Len(report) : fates'[k] = fates[k]
    <2>. DEFINE q == Append(fates[t], Fate)
    <2>1. q \in Seq(Ends)
      BY <1>3, <1>5, Ended
    <2>2. fates' = [fates EXCEPT ![t] = q]
      BY <1>1
    <2>. HIDE DEF q
    <2>. QED
      BY <1>4, <2>1, <2>2
  <1>9. <<n>> \o failed \in Seq(Nat) /\ ToSet(<<n>> \o failed) = {n} \cup ToSet(failed)
    BY <1>4, Noted
  <1>10. Shape'
    <2>1. failed' \in Seq(Nat) /\ pc' \in Steps /\ pc' # "next"
      BY <1>1, <1>4, <1>9 DEF Steps
    <2>. QED
      BY <1>1, <1>2, <1>8, <2>1 DEF Inv, Shape
  <1>11. Waitable' /\ ChildKnown'
    BY <1>1 DEF Inv, Waitable, ChildKnown, Restore
  <1>12. Variants'
    <2>1. IF Now.variants > 0 THEN ToSet(failed') = NotIn(fates'[t]) ELSE failed' = <<>>
      <3>1. CASE Now.variants > 0 /\ ret # 0
        BY <1>1, <1>3, <1>5, <1>7, <1>9, <3>1
      <3>2. CASE ~(Now.variants > 0 /\ ret # 0)
        BY <1>1, <1>3, <1>5, <1>7, <3>2
      <3>. QED
        BY <3>1, <3>2
    <2>2. CASE n < Now.variants
      <3>1. n < Runs(Now)
        BY <1>4, <1>6, <2>2
      <3>. QED
        BY <1>1, <1>2, <1>7, <2>1, <2>2, <3>1 DEF Variants
    <2>3. CASE ~(n < Now.variants)
      <3>1. n = Runs(Now)
        BY <1>4, <1>5, <1>6, <2>3
      <3>2. pc' = "write" /\ (ret' = 0 <=> fates'[t][n] = "passed")
        BY <1>1, <1>3, <1>7, <2>3
      <3>. QED
        BY <1>1, <1>2, <1>7, <2>1, <3>1, <3>2 DEF Variants
    <2>. QED
      BY <2>2, <2>3
  <1>13. Judged' /\ Counted'
    BY <1>1, <1>8, PastKept
  <1>. QED
    BY <1>10, <1>11, <1>12, <1>13 DEF Inv

\* The report: 0 if no variant has failed, with all of them run.
LEMMA WriteCaseStep ==
  ASSUME Inv, WriteCase
  PROVE  Inv'
  <1>. DEFINE w == [written |-> TRUE, ret |-> ret', steps |-> failed]
  <1>1. PICK m \in Nat : m = t /\ m \in 1..Len(Tests)
    BY TestsAssumption DEF Inv, Shape, WriteCase
  <1>2. /\ pc = "write" /\ ret' = (IF failed # <<>> THEN 1 ELSE ret) /\ failed' = <<>>
        /\ Conclude(ret', w)
        /\ UNCHANGED <<n, elapsed, signalVars, child, returned, fates>>
    BY DEF WriteCase
  <1>3. /\ ret \in 0..1 /\ ret' \in 0..1 /\ failed \in Seq(Nat) /\ w \in Verdicts
        /\ w.ret = ret' /\ w.steps = failed
    BY <1>2 DEF Inv, Shape, Verdicts
  <1>4. /\ fates \in Seq(Seq(Ends)) /\ Len(fates) = t /\ fates[m] \in Seq(Ends)
        /\ Len(fates[m]) = n /\ n = Runs(Tests[m]) /\ n \in Nat \ {0}
        /\ ret = 0 <=> fates[m][n] = "passed"
        /\ IF Tests[m].variants > 0 THEN ToSet(failed) = NotIn(fates[m]) ELSE failed = <<>>
        /\ Tests[m].exists /\ Tests[m].variants \in Nat
    BY <1>1, <1>2, NowTyped DEF Inv, Shape, Variants, Now
  <1>5. ret' = 0 <=> NotIn(fates[m]) = {}
    <2>1. n \in DOMAIN fates[m] /\ DOMAIN fates[m] = 1..n
      BY <1>4
    <2>2. failed # <<>> => ToSet(failed) # {}
      <3>1. failed # <<>> => 1 \in DOMAIN failed
        BY <1>3
      <3>. QED
        BY <3>1 DEF ToSet
    <2>3. failed = <<>> => ToSet(failed) = {}
      BY DEF ToSet
    <2>4. ret # 0 => n \in NotIn(fates[m])
      BY <1>4, <2>1 DEF NotIn
    <2>5. CASE Tests[m].variants > 0
      <3>1. ToSet(failed) = NotIn(fates[m])
        BY <1>4, <2>5
      <3>2. CASE failed # <<>>
        BY <1>2, <2>2, <3>1, <3>2
      <3>3. CASE failed = <<>>
        <4>1. NotIn(fates[m]) = {} /\ ret = 0 /\ ret' = ret
          BY <1>2, <2>3, <2>4, <3>1, <3>3
        <4>. QED
          BY <4>1
      <3>. QED
        BY <3>2, <3>3
    <2>6. CASE ~(Tests[m].variants > 0)
      <3>1. failed = <<>> /\ n = 1 /\ ret' = ret
        BY <1>2, <1>4, <2>6 DEF Runs
      <3>2. NotIn(fates[m]) = {} <=> fates[m][1] = "passed"
        BY <2>1, <3>1 DEF NotIn
      <3>. QED
        BY <1>4, <3>1, <3>2
    <2>. QED
      BY <2>5, <2>6
  <1>6. ret' = 0 <=> AllPassed(m)'
    <2>1. fates[m] = [v \in 1..Runs(Tests[m]) |-> "passed"] <=> NotIn(fates[m]) = {}
      BY <1>4, PassedAll
    <2>. QED
      BY <1>2, <1>4, <1>5, <2>1 DEF AllPassed
  <1>7. Tests[m].variants > 0 => NotPassed(m)' = ToSet(failed)
    BY <1>2, <1>4 DEF NotPassed, NotIn
  <1>8. report' \in Seq(Verdicts) /\ Len(report') = t /\ Judged' /\ Counted'
    <2>. HIDE DEF w
    <2>1. PICK r \in 0..1 : r = ret'
      BY <1>3
    <2>2. /\ Conclude(r, w) /\ (r = 0 <=> AllPassed(m)') /\ (w.ret = 0 => r = 0)
          /\ (Tests[m].variants > 0 => NotPassed(m)' = ToSet(w.steps))
          /\ Len(fates'[m]) = Runs(Tests[m])
          /\ \A k \in 1..Len(report) : fates'[k] = fates[k]
      BY <1>2, <1>3, <1>4, <1>6, <1>7, <2>1
    <2>. QED
      BY <1>1, <1>3, <2>2, Concluding
  <1>9. pc' = "next" /\ t' = t + 1
    BY <1>2 DEF Conclude
  <1>10. Shape'
    BY <1>1, <1>2, <1>3, <1>4, <1>8, <1>9, TestsAssumption DEF Inv, Shape, Steps
  <1>11. Waitable' /\ ChildKnown' /\ Variants'
    BY <1>2, <1>9 DEF Inv, Waitable, ChildKnown, Variants, signalVars
  <1>. QED
    BY <1>8, <1>10, <1>11 DEF Inv

\* The invariant holds in every state.
LEMMA InvHolds ==
  ASSUME OneByte
  PROVE  Spec => []Inv
  <1>1. Inv /\ [Next]_vars => Inv'
    <2>. SUFFICES ASSUME Inv, [Next]_vars
                  PROVE  Inv'
      OBVIOUS
    <2>1. CASE UNCHANGED vars
      <3>1. UNCHANGED <<Now, Runs(Now), Verdict, Concluded>>
        BY <2>1 DEF vars, Now, Runs, Verdict, Status, Concluded
      <3>2. Shape' /\ Waitable' /\ ChildKnown' /\ Variants'
        BY <2>1, <3>1 DEF Inv, Shape, Waitable, ChildKnown, Variants, vars
      <3>3. Judged' /\ Counted'
        BY <2>1, PastKept DEF vars, caseVars
      <3>. QED
        BY <3>2, <3>3 DEF Inv
    <2>. QED
      BY <2>1, SkipStep, StartStep, ForkStep, ForkFailsStep, WaitStep, EndVariantStep, WriteCaseStep
      DEF Next, Runner, Terminated
  <1>. QED
    BY <1>1, InvInit, PTL DEF Spec

-----------------------------------------------------------------------------
\* No test is reported passed unless each of its variants has run and returned 0, and a
\* report names every variant that has not (run_test()).
THEOREM FailuresReported ==
  ASSUME OneByte
  PROVE  Spec => []NoFailureLost
  <1>1. Inv => NoFailureLost
    BY DEF Inv, Judged, NoFailureLost
  <1>. QED
    BY <1>1, InvHolds, PTL

\* The number blts_cli_main() returns is that of the tests that did not pass.
THEOREM FailuresCounted ==
  ASSUME OneByte
  PROVE  Spec => []ResultCountsFailures
  <1>1. Inv => ResultCountsFailures
    BY DEF Inv, Counted, ResultCountsFailures
  <1>. QED
    BY <1>1, InvHolds, PTL

-----------------------------------------------------------------------------
\* The permutations of the first k columns, and the first and the last of them.
FirstSizes(limits, k) == [j \in 1..k |-> limits[j]]
Digits(limits, k) == {f \in [1..k -> Nat] : \A j \in 1..k : f[j] < limits[j]}
Zeros(k) == [j \in 1..k |-> 0]
Tops(limits, k) == [j \in 1..k |-> limits[j] - 1]

\* p permutations in a row are all there are, each of them once.
Enumerates(row, p, limits, k) ==
  /\ row \in [0..(p - 1) -> Digits(limits, k)]
  /\ row[0] = Zeros(k) /\ row[p - 1] = Tops(limits, k)
  /\ \A r \in 0..(p - 2) : row[r + 1] = NextPermutation(row[r], FirstSizes(limits, k))
  /\ \A f \in Digits(limits, k) : \E r \in 0..(p - 1) : row[r] = f
  /\ \A q, r \in 0..(p - 1) : row[q] = row[r] => q = r

\* The permutations of one column more.
Wide(f, q, k) == [j \in 1..(k + 1) |-> IF j = k + 1 THEN q ELSE f[j]]

\* The least of some numbers.
LEMMA LeastOf ==
  ASSUME NEW S, S \subseteq Nat, S # {}
  PROVE  \E x \in S : \A y \in S : x <= y
  <1>1. PICK x \in S : \A y \in S : ~(<<y, x>> \in OpToRel(<, Nat))
    BY NatLessThanWellFounded, WFMin, Zenon
  <1>2. \A y \in S : ~(y < x)
    BY <1>1, Zenon DEF OpToRel
  <1>. QED
    BY <1>2

\* The full indices of a permutation that is not the last one.
LEMMA FullDigits ==
  ASSUME NEW limits \in Seq(Nat \ {0}), NEW k \in 0..Len(limits), NEW f \in Digits(limits, k)
  PROVE  f = Tops(limits, k) <=> \A h \in 1..k : f[h] + 1 >= limits[h]
  <1>1. \A h \in 1..k : f[h] \in Nat /\ f[h] < limits[h] /\ limits[h] \in Nat
    BY DEF Digits
  <1>2. f = Tops(limits, k) <=> \A h \in 1..k : f[h] = limits[h] - 1
    BY DEF Digits, Tops
  <1>3. \A h \in 1..k : f[h] = limits[h] - 1 <=> f[h] + 1 >= limits[h]
    BY <1>1
  <1>. QED
    BY <1>2, <1>3, Zenon

LEMMA NextWide ==
  ASSUME NEW limits \in Seq(Nat \ {0}), NEW k \in Nat, k < Len(limits),
         NEW f \in Digits(limits, k), NEW q \in Nat, q < limits[k + 1]
  PROVE  LET next == NextPermutation(Wide(f, q, k), FirstSizes(limits, k + 1))
         IN  /\ f # Tops(limits, k) =>
                  next = Wide(NextPermutation(f, FirstSizes(limits, k)), q, k)
             /\ f = Tops(limits, k) /\ q + 1 < limits[k + 1] =>
                  next = Wide(Zeros(k), q + 1, k)
  <1>. DEFINE w == Wide(f, q, k)
              ends(j) == \A h \in 1..j : f[h] + 1 >= limits[h]
              Full == {j \in 1..k : ends(j)}
              FullW == {j \in 1..(k + 1) : \A h \in 1..j : w[h] + 1 >= limits[h]}
              next == [j \in 1..(k + 1) |-> IF j \in FullW THEN 0
                                            ELSE IF j - 1 \in FullW \cup {0} THEN w[j] + 1
                                            ELSE w[j]]
              nextF == [j \in 1..k |-> IF j \in Full THEN 0
                                       ELSE IF j - 1 \in Full \cup {0} THEN f[j] + 1
                                       ELSE f[j]]
  <1>1. /\ DOMAIN w = 1..(k + 1) /\ w[k + 1] = q /\ \A j \in 1..k : w[j] = f[j]
        /\ DOMAIN f = 1..k /\ \A j \in 1..k : f[j] \in Nat /\ f[j] < limits[j]
        /\ \A j \in 1..(k + 1) : limits[j] \in Nat
    BY DEF Wide, Digits
  <1>2. NextPermutation(w, FirstSizes(limits, k + 1)) = next
    <2>1. \A j \in 1..(k + 1) : \A h \in 1..j : FirstSizes(limits, k + 1)[h] = limits[h]
      BY DEF FirstSizes
    <2>2. FullW = {j \in 1..(k + 1) : \A h \in 1..j : w[h] + 1 >= FirstSizes(limits, k + 1)[h]}
      BY <2>1
    <2>. QED
      BY <1>1, <2>2, Zenon DEF NextPermutation
  <1>3. NextPermutation(f, FirstSizes(limits, k)) = nextF
    <2>1. \A j \in 1..k : \A h \in 1..j : FirstSizes(limits, k)[h] = limits[h]
      BY DEF FirstSizes
    <2>2. Full = {j \in 1..k : \A h \in 1..j : f[h] + 1 >= FirstSizes(limits, k)[h]}
      BY <2>1
    <2>. QED
      BY <1>1, <2>2, Zenon DEF NextPermutation
  <1>4. \A j \in 1..k : j \in FullW <=> j \in Full
    <2>1. \A j \in 1..k : \A h \in 1..j : w[h] = f[h]
      BY <1>1
    <2>2. \A j \in 1..k : j \in 1..(k + 1)
      OBVIOUS
    <2>. QED
      BY <2>1, <2>2
  <1>5. k \in Full \cup {0} <=> f = Tops(limits, k)
    BY FullDigits
  <1>6. k + 1 \in FullW <=> f = Tops(limits, k) /\ q + 1 >= limits[k + 1]
    <2>1. k + 1 \in FullW <=> (\A h \in 1..k : f[h] + 1 >= limits[h]) /\ q + 1 >= limits[k + 1]
      <3>1. w[k + 1] = q /\ \A h \in 1..k : w[h] = f[h]
        BY <1>1
      <3>2. 1..(k + 1) = (1..k) \cup {k + 1}
        OBVIOUS
      <3>3. k + 1 \in FullW <=> \A h \in 1..(k + 1) : w[h] + 1 >= limits[h]
        <4>. HIDE DEF w
        <4>. QED
          BY <3>2
      <3>. HIDE DEF w, FullW
      <3>. QED
        BY <3>1, <3>2, <3>3, Zenon
    <2>. QED
      BY <2>1, FullDigits
  <1>7. f = Tops(limits, k) => \A j \in 1..k : j \in FullW
    <2>1. f = Tops(limits, k) => \A j \in 1..k : j \in Full
      BY FullDigits
    <2>. QED
      BY <1>4, <2>1
  <1>8. 0 \notin Full /\ 0 \notin FullW
    OBVIOUS
  <1>. HIDE DEF Full, FullW, w
  <1>9. ASSUME f # Tops(limits, k)
        PROVE  next = Wide(nextF, q, k)
    <2>1. ASSUME NEW j \in 1..(k + 1)
          PROVE  next[j] = IF j = k + 1 THEN q ELSE nextF[j]
      <3>1. CASE j = k + 1
        <4>1. j \notin FullW /\ j - 1 = k /\ k \notin FullW \cup {0}
          <5>1. k = 0 \/ k \in 1..k
            OBVIOUS
          <5>. QED
            BY <1>4, <1>5, <1>6, <1>9, <3>1, <5>1
        <4>. QED
          BY <1>1, <3>1, <4>1
      <3>2. CASE j \in 1..k
        <4>1. j \in FullW <=> j \in Full
          BY <1>4, <3>2
        <4>2. j - 1 \in FullW \cup {0} <=> j - 1 \in Full \cup {0}
          <5>1. j - 1 = 0 \/ j - 1 \in 1..k
            BY <3>2
          <5>. QED
            BY <1>4, <5>1
        <4>3. w[j] = f[j] /\ j # k + 1
          BY <1>1, <3>2
        <4>. QED
          BY <3>2, <4>1, <4>2, <4>3
      <3>. QED
        BY <3>1, <3>2
    <2>. HIDE DEF nextF
    <2>. QED
      BY <2>1 DEF Wide
  <1>10. ASSUME f = Tops(limits, k), q + 1 < limits[k + 1]
         PROVE  next = Wide(Zeros(k), q + 1, k)
    <2>1. ASSUME NEW j \in 1..(k + 1)
          PROVE  next[j] = IF j = k + 1 THEN q + 1 ELSE 0
      <3>1. CASE j = k + 1
        <4>1. j \notin FullW /\ j - 1 = k /\ k \in FullW \cup {0}
          <5>1. ~(q + 1 >= limits[k + 1])
            BY <1>1, <1>10
          <5>2. k = 0 \/ k \in 1..k
            OBVIOUS
          <5>. QED
            BY <1>6, <1>7, <1>10, <3>1, <5>1, <5>2
        <4>. QED
          BY <1>1, <3>1, <4>1
      <3>2. CASE j \in 1..k
        <4>1. j \in FullW /\ j # k + 1
          BY <1>7, <1>10, <3>2
        <4>. QED
          BY <4>1
      <3>. QED
        BY <3>1, <3>2
    <2>. QED
      BY <2>1 DEF Wide, Zeros
  <1>. QED
    BY <1>2, <1>3, <1>9, <1>10 DEF w

-----------------------------------------------------------------------------
\* Division with a rest.
LEMMA LessTimes ==
  ASSUME NEW p \in Nat, NEW a \in Nat, NEW b \in Nat, a <= b
  PROVE  a * p <= b * p /\ a * p \in Nat /\ b * p \in Nat
  OBVIOUS

LEMMA PlusTimes ==
  ASSUME NEW p \in Nat, NEW a \in Nat
  PROVE  (a + 1) * p = a * p + p
  OBVIOUS

LEMMA OneQuotient ==
  ASSUME NEW p \in Nat \ {0}, NEW a \in Nat, NEW b \in Nat,
         NEW s \in 0..(p - 1), NEW u \in 0..(p - 1), a * p + s = b * p + u
  PROVE  a = b /\ s = u
  <1>1. ASSUME NEW c \in Nat, NEW d \in Nat, c < d
        PROVE  c * p + p <= d * p /\ c * p \in Nat
    <2>1. (c + 1) * p <= d * p
      BY <1>1, LessTimes
    <2>. QED
      BY <2>1, PlusTimes, LessTimes
  <1>2. ~(a < b)
    <2>. SUFFICES ASSUME a < b PROVE FALSE
      OBVIOUS
    <2>1. a * p + p <= b * p /\ a * p \in Nat /\ b * p \in Nat
      BY <1>1, LessTimes
    <2>. QED
      BY <2>1
  <1>3. ~(b < a)
    <2>. SUFFICES ASSUME b < a PROVE FALSE
      OBVIOUS
    <2>1. b * p + p <= a * p /\ a * p \in Nat /\ b * p \in Nat
      BY <1>1, LessTimes
    <2>. QED
      BY <2>1
  <1>4. a = b
    BY <1>2, <1>3
  <1>5. a * p \in Nat
    BY LessTimes
  <1>. QED
    BY <1>4, <1>5

LEMMA Divided ==
  ASSUME NEW p \in Nat \ {0}, NEW l \in Nat \ {0}, NEW r \in 0..(p * l - 1)
  PROVE  /\ r % p \in 0..(p - 1) /\ r \div p \in Nat /\ r \div p < l
         /\ r = (r \div p) * p + (r % p)
  <1>1. /\ r \in Nat /\ r % p \in 0..(p - 1) /\ r \div p \in Nat
        /\ r = (r \div p) * p + (r % p)
    OBVIOUS
  <1>2. PICK q \in Nat : q = r \div p
    BY <1>1
  <1>3. q * p <= r /\ r < l * p
    BY <1>1, <1>2
  <1>4. ~(l <= q)
    BY <1>3, LessTimes
  <1>. QED
    BY <1>1, <1>2, <1>4

LEMMA WideEqual ==
  ASSUME NEW k \in Nat, NEW f \in [1..k -> Nat], NEW g \in [1..k -> Nat], NEW a, NEW b,
         Wide(f, a, k) = Wide(g, b, k)
  PROVE  f = g /\ a = b
  <1>1. \A j \in 1..(k + 1) : Wide(f, a, k)[j] = Wide(g, b, k)[j]
    OBVIOUS
  <1>2. \A j \in 1..(k + 1) : (IF j = k + 1 THEN a ELSE f[j]) = (IF j = k + 1 THEN b ELSE g[j])
    BY <1>1 DEF Wide
  <1>3. a = b
    BY <1>2
  <1>4. \A j \in 1..k : f[j] = g[j]
    BY <1>2
  <1>. QED
    BY <1>3, <1>4

\* All permutations of one column more: those of the others for each of its indices.
LEMMA OneColumnMore ==
  ASSUME NEW limits \in Seq(Nat \ {0}), NEW k \in Nat, k < Len(limits),
         NEW p \in Nat \ {0}, NEW row, Enumerates(row, p, limits, k)
  PROVE  /\ p * limits[k + 1] \in Nat \ {0}
         /\ \E all : Enumerates(all, p * limits[k + 1], limits, k + 1)
  <1>1. PICK l \in Nat \ {0} : l = limits[k + 1]
    OBVIOUS
  <1>. DEFINE total == p * l
              all == [r \in 0..(total - 1) |-> Wide(row[r % p], r \div p, k)]
  <1>2. PICK m \in Nat \ {0} : m = total
    OBVIOUS
  <1>3. /\ row \in [0..(p - 1) -> Digits(limits, k)]
        /\ row[0] = Zeros(k) /\ row[p - 1] = Tops(limits, k)
        /\ \A r \in 0..(p - 2) : row[r + 1] = NextPermutation(row[r], FirstSizes(limits, k))
        /\ \A f \in Digits(limits, k) : \E r \in 0..(p - 1) : row[r] = f
        /\ \A q, r \in 0..(p - 1) : row[q] = row[r] => q = r
    BY DEF Enumerates
  <1>4. ASSUME NEW r \in 0..(m - 1)
        PROVE  \E a \in Nat, u \in 0..(p - 1) :
                 a < l /\ r = a * p + u /\ all[r] = Wide(row[u], a, k)
    <2>1. /\ r % p \in 0..(p - 1) /\ r \div p \in Nat /\ r \div p < l
          /\ r = (r \div p) * p + (r % p)
      BY <1>2, Divided
    <2>2. all[r] = Wide(row[r % p], r \div p, k)
      BY <1>2
    <2>. HIDE DEF all
    <2>. QED
      BY <2>1, <2>2
  <1>5. DOMAIN all = 0..(m - 1)
    BY <1>2
  <1>6. m = l * p
    BY <1>2
  <1>. HIDE DEF all, total
  <1>7. ASSUME NEW a \in Nat, a < l, NEW u \in 0..(p - 1), NEW r, r = a * p + u
        PROVE  r \in 0..(m - 1) /\ all[r] = Wide(row[u], a, k)
    <2>1. a * p + p <= m /\ a * p \in Nat
      <3>1. (a + 1) * p <= l * p
        BY <1>7, LessTimes
      <3>. QED
        BY <1>6, <3>1, PlusTimes, LessTimes
    <2>2. r \in 0..(m - 1)
      <3>1. PICK w \in Nat : w = a * p
        BY <2>1
      <3>. QED
        BY <1>7, <2>1, <3>1
    <2>3. PICK b \in Nat, v \in 0..(p - 1) : r = b * p + v /\ all[r] = Wide(row[v], b, k)
      BY <1>4, <2>2
    <2>4. a = b /\ u = v
      BY <1>7, <2>3, OneQuotient
    <2>. QED
      BY <2>2, <2>3, <2>4
  <1>8. ASSUME NEW f \in Digits(limits, k), NEW q \in Nat, q < l
        PROVE  Wide(f, q, k) \in Digits(limits, k + 1)
    BY <1>1, <1>8 DEF Wide, Digits
  <1>9. all \in [0..(m - 1) -> Digits(limits, k + 1)]
    <2>1. ASSUME NEW r \in 0..(m - 1)
          PROVE  all[r] \in Digits(limits, k + 1)
      <3>1. PICK a \in Nat, u \in 0..(p - 1) : a < l /\ all[r] = Wide(row[u], a, k)
        BY <1>4
      <3>. QED
        BY <1>3, <1>8, <3>1
    <2>2. all = [r \in 0..(m - 1) |-> all[r]]
      BY <1>5 DEF all
    <2>. QED
      BY <2>1, <2>2
  <1>10. all[0] = Zeros(k + 1)
    <2>1. 0 = 0 * p + 0 /\ 0 \in 0..(p - 1)
      OBVIOUS
    <2>2. all[0] = Wide(Zeros(k), 0, k)
      BY <1>3, <1>7, <2>1
    <2>. QED
      BY <2>2 DEF Wide, Zeros
  <1>11. all[m - 1] = Tops(limits, k + 1)
    <2>1. PICK b \in Nat : b + 1 = l
      <3>1. l - 1 \in Nat /\ (l - 1) + 1 = l
        OBVIOUS
      <3>. QED
        BY <3>1
    <2>2. m - 1 = b * p + (p - 1) /\ p - 1 \in 0..(p - 1)
      <3>1. l * p = b * p + p /\ b * p \in Nat
        BY <2>1, PlusTimes, LessTimes
      <3>. QED
        BY <1>6, <3>1
    <2>3. all[m - 1] = Wide(Tops(limits, k), b, k)
      <3>1. b < l
        BY <2>1
      <3>2. all[m - 1] = Wide(row[p - 1], b, k)
        BY <1>7, <2>2, <3>1
      <3>. QED
        BY <1>3, <3>2
    <2>. QED
      BY <1>1, <2>1, <2>3 DEF Wide, Tops
  <1>12. ASSUME NEW r \in 0..(m - 2)
         PROVE  all[r + 1] = NextPermutation(all[r], FirstSizes(limits, k + 1))
    <2>1. r \in 0..(m - 1)
      OBVIOUS
    <2>2. PICK a \in Nat, u \in 0..(p - 1) :
            a < l /\ r = a * p + u /\ all[r] = Wide(row[u], a, k)
      BY <1>4, <2>1
    <2>3. row[u] \in Digits(limits, k) /\ a < limits[k + 1] /\ a * p \in Nat
      BY <1>1, <1>3, <2>2, LessTimes
    <2>4. row[u] = Tops(limits, k) <=> u = p - 1
      <3>1. p - 1 \in 0..(p - 1)
        OBVIOUS
      <3>. QED
        BY <1>3, <3>1
    <2>5. CASE u # p - 1
      <3>1. u + 1 \in 0..(p - 1) /\ u \in 0..(p - 2)
        BY <2>5
      <3>2. r + 1 = a * p + (u + 1)
        BY <2>2, <2>3
      <3>3. all[r + 1] = Wide(row[u + 1], a, k)
        BY <1>7, <2>2, <3>1, <3>2
      <3>4. row[u + 1] = NextPermutation(row[u], FirstSizes(limits, k))
        BY <1>3, <3>1
      <3>5. NextPermutation(Wide(row[u], a, k), FirstSizes(limits, k + 1))
              = Wide(NextPermutation(row[u], FirstSizes(limits, k)), a, k)
        BY <2>3, <2>4, <2>5, NextWide
      <3>. QED
        BY <2>2, <3>3, <3>4, <3>5
    <2>6. CASE u = p - 1
      <3>1. r + 1 = (a + 1) * p + 0
        BY <2>2, <2>3, <2>6, PlusTimes
      <3>2. a + 1 < l
        <4>1. ~(l <= a + 1)
          <5>. SUFFICES ASSUME l <= a + 1 PROVE FALSE
            OBVIOUS
          <5>1. l * p <= (a + 1) * p
            BY LessTimes
          <5>. QED
            BY <1>6, <3>1, <5>1
        <4>. QED
          BY <4>1
      <3>3. all[r + 1] = Wide(Zeros(k), a + 1, k)
        <4>1. PICK c \in Nat : c = a + 1
          OBVIOUS
        <4>2. 0 \in 0..(p - 1)
          OBVIOUS
        <4>3. all[r + 1] = Wide(row[0], c, k)
          BY <1>7, <3>1, <3>2, <4>1, <4>2
        <4>. QED
          BY <1>3, <4>1, <4>3
      <3>4. NextPermutation(Wide(row[u], a, k), FirstSizes(limits, k + 1))
              = Wide(Zeros(k), a + 1, k)
        BY <1>1, <2>3, <2>4, <2>6, <3>2, NextWide
      <3>. QED
        BY <2>2, <3>3, <3>4
    <2>. QED
      BY <2>5, <2>6
  <1>13. ASSUME NEW f \in Digits(limits, k + 1)
         PROVE  \E r \in 0..(m - 1) : all[r] = f
    <2>. DEFINE g == [j \in 1..k |-> f[j]]
    <2>1. PICK a \in Nat : a = f[k + 1] /\ a < l
      BY <1>1 DEF Digits
    <2>2. g \in Digits(limits, k)
      BY DEF Digits
    <2>3. Wide(g, a, k) = f
      BY <2>1 DEF Wide, Digits
    <2>. HIDE DEF g
    <2>4. PICK u \in 0..(p - 1) : row[u] = g
      BY <1>3, <2>2
    <2>5. a * p + u \in 0..(m - 1) /\ all[a * p + u] = Wide(g, a, k)
      BY <1>7, <2>1, <2>4
    <2>. QED
      BY <2>3, <2>5
  <1>14. ASSUME NEW q \in 0..(m - 1), NEW r \in 0..(m - 1), all[q] = all[r]
         PROVE  q = r
    <2>1. PICK a \in Nat, u \in 0..(p - 1) : q = a * p + u /\ all[q] = Wide(row[u], a, k)
      BY <1>4
    <2>2. PICK b \in Nat, v \in 0..(p - 1) : r = b * p + v /\ all[r] = Wide(row[v], b, k)
      BY <1>4
    <2>3. row[u] \in [1..k -> Nat] /\ row[v] \in [1..k -> Nat]
      BY <1>3 DEF Digits
    <2>4. row[u] = row[v] /\ a = b
      <3>1. Wide(row[u], a, k) = Wide(row[v], b, k)
        BY <1>14, <2>1, <2>2
      <3>2. PICK f \in [1..k -> Nat] : f = row[u]
        BY <2>3
      <3>3. PICK g \in [1..k -> Nat] : g = row[v]
        BY <2>3
      <3>4. Wide(f, a, k) = Wide(g, b, k)
        BY <3>1, <3>2, <3>3
      <3>5. f = g /\ a = b
        BY <3>4, WideEqual
      <3>. QED
        BY <3>2, <3>3, <3>5
    <2>5. u = v
      BY <1>3, <2>4
    <2>. QED
      BY <2>1, <2>2, <2>4, <2>5
  <1>15. Enumerates(all, m, limits, k + 1)
    BY <1>9, <1>10, <1>11, <1>12, <1>13, <1>14 DEF Enumerates
  <1>. QED
    BY <1>1, <1>2, <1>15 DEF total

\* The number of permutations is the product of the columns' sizes.
LEMMA ProductOfSizes ==
  ASSUME NEW limits \in Seq(Nat \ {0})
  PROVE  \E P : /\ P[0] = 1 /\ P[Len(limits)] = NPermutations(limits)
                /\ \A j \in 1..Len(limits) : P[j] = P[j - 1] * limits[j]
  <1>. DEFINE K == Len(limits)
              Size(j) == IF limits[j] = 0 THEN 1 ELSE limits[j]
              Is(P, m) == P = [j \in 0..m |-> IF j = 0 THEN 1 ELSE P[j - 1] * Size(j)]
              P == CHOOSE P : Is(P, K)
              Bad == {m \in 0..K : ~ \E Q : Is(Q, m)}
  <1>1. NPermutations(limits) = P[K]
    BY DEF NPermutations
  <1>2. \E Q : Is(Q, 0)
    <2>1. Is([j \in 0..0 |-> 1], 0)
      OBVIOUS
    <2>. QED
      BY <2>1
  <1>3. ASSUME NEW m \in Nat, NEW Q, Is(Q, m)
        PROVE  \E R : Is(R, m + 1)
    <2>. DEFINE R == [j \in 0..(m + 1) |-> IF j = m + 1 THEN Q[m] * Size(m + 1) ELSE Q[j]]
    <2>1. ASSUME NEW j \in 0..(m + 1)
          PROVE  R[j] = IF j = 0 THEN 1 ELSE R[j - 1] * Size(j)
      <3>. HIDE DEF Size
      <3>1. CASE j = m + 1
        BY <3>1
      <3>2. CASE j \in 0..m
        <4>1. R[j] = Q[j] /\ (j # 0 => R[j - 1] = Q[j - 1])
          BY <3>2
        <4>2. Q[j] = IF j = 0 THEN 1 ELSE Q[j - 1] * Size(j)
          BY <1>3, <3>2
        <4>. QED
          BY <4>1, <4>2
      <3>. QED
        BY <3>1, <3>2
    <2>2. Is(R, m + 1)
      BY <2>1
    <2>. QED
      BY <2>2
  <1>4. Bad = {}
    <2>. SUFFICES ASSUME Bad # {} PROVE FALSE
      OBVIOUS
    <2>1. Bad \subseteq Nat
      OBVIOUS
    <2>2. PICK x \in Bad : \A y \in Bad : x <= y
      BY <2>1, LeastOf
    <2>3. x # 0
      BY <1>2
    <2>4. PICK w \in Nat : w + 1 = x /\ w \in 0..K
      <3>1. x - 1 \in Nat /\ (x - 1) + 1 = x /\ x - 1 \in 0..K
        BY <2>3
      <3>. QED
        BY <3>1
    <2>5. w \notin Bad
      BY <2>2, <2>4
    <2>. QED
      BY <1>3, <2>4, <2>5
  <1>5. Is(P, K)
    <2>1. \E Q : Is(Q, K)
      BY <1>4
    <2>. HIDE DEF Is
    <2>. QED
      BY <2>1
  <1>. HIDE DEF P
  <1>6. P[0] = 1 /\ \A j \in 1..K : P[j] = P[j - 1] * Size(j)
    BY <1>5
  <1>7. \A j \in 1..K : Size(j) = limits[j]
    OBVIOUS
  <1>. QED
    BY <1>1, <1>6, <1>7

\* There are as many permutations as the columns' sizes multiply to.
LEMMA AllEnumerated ==
  ASSUME NEW limits \in Seq(Nat \ {0})
  PROVE  /\ NPermutations(limits) \in Nat \ {0}
         /\ \E row : Enumerates(row, NPermutations(limits), limits, Len(limits))
  <1>. DEFINE K == Len(limits)
  <1>1. PICK P : /\ P[0] = 1 /\ P[K] = NPermutations(limits)
                 /\ \A j \in 1..K : P[j] = P[j - 1] * limits[j]
    BY ProductOfSizes
  <1>. DEFINE Holds(k) == P[k] \in Nat \ {0} /\ \E row : Enumerates(row, P[k], limits, k)
              Bad == {k \in 0..K : ~Holds(k)}
  <1>2. Holds(0)
    <2>. DEFINE row == [r \in 0..0 |-> Zeros(0)]
    <2>1. Zeros(0) = Tops(limits, 0) /\ \A f \in Digits(limits, 0) : f = Zeros(0)
      BY DEF Zeros, Tops, Digits
    <2>2. Zeros(0) \in Digits(limits, 0)
      BY DEF Zeros, Digits
    <2>3. row \in [0..(1 - 1) -> Digits(limits, 0)] /\ row[0] = Zeros(0) /\ row[1 - 1] = Zeros(0)
      BY <2>2
    <2>4. Enumerates(row, 1, limits, 0)
      BY <2>1, <2>2, <2>3 DEF Enumerates
    <2>. QED
      BY <1>1, <2>4
  <1>3. ASSUME NEW k \in Nat, k < K, Holds(k)
        PROVE  Holds(k + 1)
    <2>1. PICK p \in Nat \ {0} : p = P[k]
      BY <1>3
    <2>2. PICK row : Enumerates(row, p, limits, k)
      BY <1>3, <2>1
    <2>3. k + 1 \in 1..K /\ (k + 1) - 1 = k
      BY <1>3
    <2>4. P[k + 1] = p * limits[k + 1]
      BY <1>1, <2>1, <2>3
    <2>. QED
      BY <1>3, <2>2, <2>4, OneColumnMore
  <1>4. Bad = {}
    <2>. SUFFICES ASSUME Bad # {} PROVE FALSE
      OBVIOUS
    <2>1. Bad \subseteq Nat /\ K \in Nat
      OBVIOUS
    <2>2. PICK x \in Bad : \A y \in Bad : x <= y
      BY <2>1, LeastOf
    <2>. HIDE DEF Holds
    <2>3. x # 0 /\ x \in 0..K /\ ~Holds(x)
      BY <1>2
    <2>4. PICK w \in Nat : w + 1 = x /\ w \in 0..K /\ w < K
      <3>1. x - 1 \in Nat /\ (x - 1) + 1 = x /\ x - 1 \in 0..K /\ x - 1 < K
        BY <2>1, <2>3
      <3>. QED
        BY <3>1
    <2>5. Holds(w)
      BY <2>1, <2>2, <2>4
    <2>. QED
      BY <1>3, <2>3, <2>4, <2>5
  <1>5. Holds(K)
    <2>. HIDE DEF Holds
    <2>1. K \in 0..K
      OBVIOUS
    <2>. QED
      BY <1>4, <2>1
  <1>. QED
    BY <1>1, <1>5

\* The table has all permutations in that order.
LEMMA TableRows ==
  ASSUME NEW limits \in Seq(Nat \ {0})
  PROVE  \E row : /\ Enumerates(row, NPermutations(limits), limits, Len(limits))
                  /\ PermutationTable(limits)
                       = [r \in 1..NPermutations(limits) |-> row[r - 1]]
  <1>. DEFINE K == Len(limits)
              Is(T, p) == T = [r \in 1..p |-> IF r = 1 THEN [j \in DOMAIN limits |-> 0]
                                              ELSE NextPermutation(T[r - 1], limits)]
              Table(p) == CHOOSE T : Is(T, p)
  <1>1. PICK row : Enumerates(row, NPermutations(limits), limits, K)
    BY AllEnumerated
  <1>2. PICK p \in Nat \ {0} : p = NPermutations(limits)
    BY AllEnumerated
  <1>3. PermutationTable(limits) = Table(p)
    BY <1>2 DEF PermutationTable
  <1>4. FirstSizes(limits, K) = limits /\ [j \in DOMAIN limits |-> 0] = Zeros(K)
    BY DEF FirstSizes, Zeros
  <1>5. row[0] = Zeros(K)
        /\ \A r \in 0..(p - 2) : row[r + 1] = NextPermutation(row[r], limits)
    BY <1>1, <1>2, <1>4 DEF Enumerates
  <1>. DEFINE rows == [r \in 1..p |-> row[r - 1]]
  <1>6. Is(rows, p)
    <2>1. ASSUME NEW r \in 1..p
          PROVE  row[r - 1] = IF r = 1 THEN [j \in DOMAIN limits |-> 0]
                              ELSE NextPermutation(rows[r - 1], limits)
      <3>1. CASE r = 1
        BY <1>4, <1>5, <3>1
      <3>2. CASE r # 1
        <4>1. PICK q \in 0..(p - 2) : q + 1 = r - 1
          <5>1. r - 2 \in 0..(p - 2) /\ (r - 2) + 1 = r - 1
            BY <3>2
          <5>. QED
            BY <5>1
        <4>2. rows[r - 1] = row[q]
          <5>1. r - 1 \in 1..p /\ (r - 1) - 1 = q
            BY <3>2, <4>1
          <5>. QED
            BY <5>1
        <4>. QED
          BY <1>5, <3>2, <4>1, <4>2
      <3>. QED
        BY <3>1, <3>2
    <2>. QED
      BY <2>1
  <1>7. Is(Table(p), p)
    <2>. HIDE DEF Is
    <2>. QED
      BY <1>6
  <1>. HIDE DEF Table, Is, rows
  <1>. PICK T : T = Table(p) /\ Is(T, p)
    BY <1>7
  <1>8. T = [r \in 1..p |-> T[r]] /\ \A r \in 1..p :
          T[r] = IF r = 1 THEN Zeros(K) ELSE NextPermutation(T[r - 1], limits)
    <2>1. T = [r \in 1..p |-> IF r = 1 THEN Zeros(K) ELSE NextPermutation(T[r - 1], limits)]
      BY <1>4 DEF Is
    <2>. QED
      BY <2>1
  <1>. DEFINE Bad == {r \in 1..p : T[r] # row[r - 1]}
  <1>9. Bad = {}
    <2>. SUFFICES ASSUME Bad # {} PROVE FALSE
      OBVIOUS
    <2>1. Bad \subseteq Nat
      OBVIOUS
    <2>2. PICK x \in Bad : \A y \in Bad : x <= y
      BY <2>1, LeastOf
    <2>3. x # 1
      <3>1. 1 \in 1..p /\ 1 - 1 = 0
        OBVIOUS
      <3>2. T[1] = row[1 - 1]
        BY <1>5, <1>8, <3>1
      <3>. QED
        BY <3>2
    <2>4. PICK w \in 1..p : w + 1 = x
      <3>1. x - 1 \in 1..p /\ (x - 1) + 1 = x
        BY <2>3
      <3>. QED
        BY <3>1
    <2>5. T[w] = row[w - 1]
      BY <2>2, <2>4
    <2>6. w - 1 \in 0..(p - 2) /\ (w - 1) + 1 = w /\ x - 1 = w
      BY <2>4
    <2>7. T[x] = row[x - 1]
      <3>1. T[x] = NextPermutation(T[w], limits)
        BY <1>8, <2>3, <2>6
      <3>2. row[w] = NextPermutation(row[w - 1], limits)
        BY <1>5, <2>6
      <3>. QED
        BY <2>5, <2>6, <3>1, <3>2
    <2>. QED
      BY <2>7
  <1>10. T = [r \in 1..p |-> row[r - 1]]
    BY <1>8, <1>9
  <1>. QED
    BY <1>1, <1>2, <1>3, <1>10

-----------------------------------------------------------------------------
\* A column has values, and none of them twice.
Column(s) == s \in Seq(Range(s)) /\ s # <<>> /\ IsInjective(s)
Tabular(columns, m) == columns = [j \in 1..m |-> columns[j]] /\ \A j \in 1..m : Column(columns[j])

\* The variants of a test are all choices of a value from each column, each of them once.
LEMMA AllChosen ==
  ASSUME NEW m \in Nat, NEW columns, Tabular(columns, m)
  PROVE  LET given == PermutationVariants(columns)
         IN  \E p \in Nat \ {0} :
               /\ given = [r \in 1..p |-> given[r]]
               /\ IsInjective(given)
               /\ {given[r] : r \in 1..p} = ChoicesOf(columns)
               /\ Cardinality(IndexChoices(columns)) = p
  <1>. DEFINE limits == [j \in DOMAIN columns |-> Len(columns[j])]
              given == PermutationVariants(columns)
  <1>1. /\ DOMAIN columns = 1..m
        /\ \A j \in 1..m : /\ Len(columns[j]) \in Nat \ {0} /\ IsInjective(columns[j])
                            /\ DOMAIN columns[j] = 1..Len(columns[j])
    BY DEF Tabular, Column
  <1>2. limits \in Seq(Nat \ {0}) /\ Len(limits) = m /\ \A j \in 1..m : limits[j] = Len(columns[j])
    BY <1>1
  <1>3. PICK p \in Nat \ {0} : p = NPermutations(limits)
    BY <1>2, AllEnumerated
  <1>4. PICK row : /\ Enumerates(row, p, limits, m)
                   /\ PermutationTable(limits) = [r \in 1..p |-> row[r - 1]]
    BY <1>2, <1>3, TableRows
  <1>5. given = [r \in 1..p |-> [j \in 1..m |-> columns[j][row[r - 1][j] + 1]]]
    BY <1>1, <1>4 DEF PermutationVariants
  <1>. HIDE DEF limits, given
  <1>6. /\ row \in [0..(p - 1) -> Digits(limits, m)]
        /\ \A f \in Digits(limits, m) : \E r \in 0..(p - 1) : row[r] = f
        /\ \A q, r \in 0..(p - 1) : row[q] = row[r] => q = r
    BY <1>4 DEF Enumerates
  <1>. DEFINE index == [r \in 1..p |-> [j \in 1..m |-> row[r - 1][j] + 1]]
  <1>7. ASSUME NEW r \in 1..p
        PROVE  row[r - 1] \in Digits(limits, m)
    <2>1. r - 1 \in 0..(p - 1)
      OBVIOUS
    <2>. QED
      BY <1>6, <2>1
  <1>8. ASSUME NEW f
        PROVE  f \in IndexChoices(columns) <=>
                 /\ f = [j \in 1..m |-> f[j]]
                 /\ \A j \in 1..m : f[j] \in 1..Len(columns[j])
    BY <1>1 DEF IndexChoices
  <1>9. ASSUME NEW r \in 1..p
        PROVE  index[r] \in IndexChoices(columns)
    <2>1. \A j \in 1..m : row[r - 1][j] \in Nat /\ row[r - 1][j] < Len(columns[j])
      BY <1>2, <1>7 DEF Digits
    <2>2. \A j \in 1..m : row[r - 1][j] + 1 \in 1..Len(columns[j])
      BY <1>1, <2>1
    <2>. QED
      BY <1>8, <2>2
  <1>10. ASSUME NEW f \in IndexChoices(columns)
         PROVE  \E r \in 1..p : index[r] = f
    <2>. DEFINE g == [j \in 1..m |-> f[j] - 1]
    <2>1. f = [j \in 1..m |-> f[j]] /\ \A j \in 1..m : f[j] \in 1..Len(columns[j])
      BY <1>8
    <2>2. \A j \in 1..m : f[j] - 1 \in Nat /\ f[j] - 1 < limits[j] /\ (f[j] - 1) + 1 = f[j]
      BY <1>1, <1>2, <2>1
    <2>3. g \in Digits(limits, m)
      BY <2>2 DEF Digits
    <2>4. PICK q \in 0..(p - 1) : row[q] = g
      BY <1>6, <2>3
    <2>5. PICK r \in 1..p : r - 1 = q
      <3>1. q + 1 \in 1..p /\ (q + 1) - 1 = q
        OBVIOUS
      <3>. QED
        BY <3>1
    <2>6. index[r] = [j \in 1..m |-> g[j] + 1]
      BY <2>4, <2>5
    <2>. QED
      BY <2>1, <2>2, <2>6
  <1>11. ASSUME NEW q \in 1..p, NEW r \in 1..p, index[q] = index[r]
         PROVE  q = r
    <2>1. \A j \in 1..m : row[q - 1][j] + 1 = row[r - 1][j] + 1
      <3>1. \A j \in 1..m : index[q][j] = index[r][j]
        BY <1>11
      <3>. QED
        BY <3>1
    <2>2. \A j \in 1..m : row[q - 1][j] = row[r - 1][j]
      <3>1. \A j \in 1..m : row[q - 1][j] \in Nat /\ row[r - 1][j] \in Nat
        BY <1>7 DEF Digits
      <3>. QED
        BY <2>1, <3>1
    <2>3. row[q - 1] = row[r - 1]
      BY <1>7, <2>2 DEF Digits
    <2>4. q - 1 \in 0..(p - 1) /\ r - 1 \in 0..(p - 1)
      OBVIOUS
    <2>5. q - 1 = r - 1
      BY <1>6, <2>3, <2>4
    <2>. QED
      BY <2>5
  <1>12. \A r \in 1..p : given[r] = [j \in 1..m |-> columns[j][index[r][j]]]
    BY <1>5
  <1>13. index \in [1..p -> IndexChoices(columns)]
    BY <1>9
  <1>. HIDE DEF index
  <1>14. given = [r \in 1..p |-> given[r]]
    BY <1>5
  <1>15. ASSUME NEW q \in 1..p, NEW r \in 1..p, given[q] = given[r]
         PROVE  q = r
    <2>1. ASSUME NEW j \in 1..m
          PROVE  index[q][j] = index[r][j]
      <3>1. columns[j][index[q][j]] = columns[j][index[r][j]]
        <4>1. given[q][j] = given[r][j]
          BY <1>15
        <4>. QED
          BY <1>12, <4>1
      <3>2. index[q][j] \in DOMAIN columns[j] /\ index[r][j] \in DOMAIN columns[j]
        BY <1>1, <1>8, <1>9
      <3>. QED
        BY <1>1, <3>1, <3>2 DEF IsInjective
    <2>2. index[q] = index[r]
      BY <1>8, <1>9, <2>1
    <2>. QED
      BY <1>11, <2>2
  <1>16. {given[r] : r \in 1..p} = ChoicesOf(columns)
    <2>1. ChoicesOf(columns)
            = {[j \in 1..m |-> columns[j][f[j]]] : f \in IndexChoices(columns)}
      BY <1>1 DEF ChoicesOf
    <2>2. \A r \in 1..p : given[r] \in ChoicesOf(columns)
      BY <1>9, <1>12, <2>1
    <2>3. ASSUME NEW c \in ChoicesOf(columns)
          PROVE  \E r \in 1..p : given[r] = c
      <3>1. PICK f \in IndexChoices(columns) : c = [j \in 1..m |-> columns[j][f[j]]]
        BY <2>1
      <3>2. PICK r \in 1..p : index[r] = f
        BY <1>10
      <3>. QED
        BY <1>12, <3>1, <3>2
    <2>. QED
      BY <2>2, <2>3
  <1>17. Cardinality(IndexChoices(columns)) = p
    <2>1. index \in Bijection(1..p, IndexChoices(columns))
      BY <1>10, <1>11, <1>13 DEF Bijection, Injection, Surjection, IsInjective
    <2>2. ExistsBijection(1..p, IndexChoices(columns))
      BY <2>1 DEF ExistsBijection
    <2>3. IsFiniteSet(1..p) /\ Cardinality(1..p) = p
      BY FS_Interval
    <2>. QED
      BY <2>2, <2>3, FS_Bijection
  <1>18. IsInjective(given)
    BY <1>14, <1>15 DEF IsInjective
  <1>. QED
    BY <1>14, <1>16, <1>17, <1>18 DEF given

-----------------------------------------------------------------------------
\* A configuration that makes sense: parameters that are generated from others are not
\* generated from themselves, all have values and none of them twice, and tests name
\* parameters that are there.
Ranked(rank) == \A p \in DOMAIN Defs : Defs[p].mode = "generate" =>
  \A j \in DOMAIN Defs[p].from : rank[Defs[p].from[j]] < rank[p]
Acyclic == \E m \in Nat : \E rank \in [DOMAIN Defs -> 0..m] : Ranked(rank)
Defined == \A p \in DOMAIN Defs :
  \/ Defs[p].mode = "const" /\ Column(Defs[p].values)
  \/ Defs[p].mode = "range" /\ Defs[p].low # Defs[p].high
  \/ Defs[p].mode = "generate" /\ Defs[p].from \in Seq(DOMAIN Defs)
Known == \A k \in Variable :
  /\ Settings[k] \in Seq(Range(Settings[k]))
  /\ \A s \in DOMAIN Settings[k] :
       Settings[k][s].kind = "params" => Settings[k][s].names \in Seq(DOMAIN Defs)
Configured == Acyclic /\ Defined /\ Known

\* What generates parameters comes to an end.
LEMMA ValuesDefined ==
  ASSUME Acyclic, Defined
  PROVE  \A p \in DOMAIN Defs : Values[p] = ValuesWith(Values, p)
  <1>0. PICK m \in Nat : \E rank \in [DOMAIN Defs -> 0..m] : Ranked(rank)
    BY DEF Acyclic
  <1>. PICK rank \in [DOMAIN Defs -> 0..m] : Ranked(rank)
    BY <1>0
  <1>1. \A p \in DOMAIN Defs : Defs[p].mode = "generate" =>
          \A j \in DOMAIN Defs[p].from : rank[Defs[p].from[j]] < rank[p]
    BY DEF Ranked
  <1>. DEFINE Low(k) == {p \in DOMAIN Defs : rank[p] < k}
              Is(F, S) == F = [p \in S |-> ValuesWith(F, p)]
  <1>2. ASSUME NEW p \in DOMAIN Defs, NEW F, NEW G,
               \A q \in DOMAIN Defs : rank[q] < rank[p] => F[q] = G[q]
        PROVE  ValuesWith(F, p) = ValuesWith(G, p)
    <2>1. CASE Defs[p].mode = "generate"
      <3>1. \A j \in DOMAIN Defs[p].from :
              Defs[p].from[j] \in DOMAIN Defs /\ rank[Defs[p].from[j]] < rank[p]
        BY <1>1, <2>1 DEF Defined
      <3>2. [j \in DOMAIN Defs[p].from |-> F[Defs[p].from[j]]]
              = [j \in DOMAIN Defs[p].from |-> G[Defs[p].from[j]]]
        BY <1>2, <3>1
      <3>. QED
        BY <2>1, <3>2 DEF ValuesWith
    <2>2. CASE Defs[p].mode \in {"const", "range"}
      BY <2>2 DEF ValuesWith
    <2>. QED
      BY <2>1, <2>2 DEF Defined
  <1>3. \E F : Is(F, Low(0))
    <2>1. Low(0) = {}
      BY <1>1
    <2>2. Is([p \in {} |-> 0], {})
      OBVIOUS
    <2>. QED
      BY <2>1, <2>2
  <1>4. ASSUME NEW k \in Nat, NEW F, Is(F, Low(k))
        PROVE  \E G : Is(G, Low(k + 1))
    <2>. DEFINE G == [p \in Low(k + 1) |-> IF p \in Low(k) THEN F[p] ELSE ValuesWith(F, p)]
    <2>1. ASSUME NEW p \in Low(k + 1)
          PROVE  G[p] = ValuesWith(F, p)
      <3>1. p \in Low(k) => F[p] = ValuesWith(F, p)
        <4>. HIDE DEF Low
        <4>. QED
          BY <1>4
      <3>. QED
        BY <3>1
    <2>2. \A p \in DOMAIN Defs : rank[p] \in Nat
      BY <1>1
    <2>3. \A q \in Low(k) : G[q] = F[q]
      BY <2>2
    <2>4. ASSUME NEW p \in Low(k + 1)
          PROVE  ValuesWith(F, p) = ValuesWith(G, p)
      <3>1. \A q \in DOMAIN Defs : rank[q] < rank[p] => q \in Low(k)
        BY <2>2
      <3>2. \A q \in DOMAIN Defs : rank[q] < rank[p] => F[q] = G[q]
        BY <2>3, <3>1
      <3>. HIDE DEF G
      <3>. QED
        BY <1>2, <3>2
    <2>5. \A p \in Low(k + 1) : G[p] = ValuesWith(G, p)
      BY <2>1, <2>4
    <2>6. G = [p \in Low(k + 1) |-> G[p]]
      OBVIOUS
    <2>. HIDE DEF G, Low
    <2>7. Is(G, Low(k + 1))
      BY <2>5, <2>6
    <2>. QED
      BY <2>7
  <1>. DEFINE Bad == {k \in Nat : ~ \E F : Is(F, Low(k))}
  <1>5. Bad = {}
    <2>. HIDE DEF Is, Low
    <2>. SUFFICES ASSUME Bad # {} PROVE FALSE
      OBVIOUS
    <2>1. PICK x \in Bad : \A y \in Bad : x <= y
      <3>1. Bad \subseteq Nat
        OBVIOUS
      <3>. QED
        BY <3>1, LeastOf
    <2>2. x # 0
      BY <1>3
    <2>3. PICK w \in Nat : w + 1 = x
      <3>1. x - 1 \in Nat /\ (x - 1) + 1 = x
        BY <2>2
      <3>. QED
        BY <3>1
    <2>4. w \notin Bad
      BY <2>1, <2>3
    <2>. QED
      BY <1>4, <2>3, <2>4
  <1>6. Low(m + 1) = DOMAIN Defs
    BY <1>1
  <1>7. \E F : Is(F, DOMAIN Defs)
    <2>. HIDE DEF Is, Low
    <2>. QED
      BY <1>5, <1>6
  <1>8. Values = CHOOSE F : Is(F, DOMAIN Defs)
    BY DEF Values
  <1>9. Is(Values, DOMAIN Defs)
    <2>. HIDE DEF Is
    <2>. QED
      BY <1>7, <1>8
  <1>. QED
    BY <1>9

\* A parameter that is generated has all choices of the others' values for its own.
LEMMA ValuesColumn ==
  ASSUME Acyclic, Defined
  PROVE  \A p \in DOMAIN Defs : Column(Values[p])
  <1>0. PICK m \in Nat : \E rank \in [DOMAIN Defs -> 0..m] : Ranked(rank)
    BY DEF Acyclic
  <1>. PICK rank \in [DOMAIN Defs -> 0..m] : Ranked(rank)
    BY <1>0
  <1>1. \A p \in DOMAIN Defs : Defs[p].mode = "generate" =>
          \A j \in DOMAIN Defs[p].from : rank[Defs[p].from[j]] < rank[p]
    BY DEF Ranked
  <1>2. ASSUME NEW p \in DOMAIN Defs,
               \A q \in DOMAIN Defs : rank[q] < rank[p] => Column(Values[q])
        PROVE  Column(Values[p])
    <2>1. Values[p] = ValuesWith(Values, p)
      BY ValuesDefined
    <2>2. CASE Defs[p].mode = "const" /\ Column(Defs[p].values)
      BY <2>1, <2>2 DEF ValuesWith
    <2>3. CASE Defs[p].mode = "range" /\ Defs[p].low # Defs[p].high
      <3>1. Values[p] = <<Defs[p].low, Defs[p].high>>
        BY <2>1, <2>3 DEF ValuesWith
      <3>. QED
        BY <2>3, <3>1 DEF Column, Range, IsInjective
    <2>4. CASE Defs[p].mode = "generate" /\ Defs[p].from \in Seq(DOMAIN Defs)
      <3>. DEFINE columns == [j \in DOMAIN Defs[p].from |-> Values[Defs[p].from[j]]]
                  given == PermutationVariants(columns)
      <3>1. Values[p] = given
        BY <2>1, <2>4 DEF ValuesWith
      <3>2. PICK l \in Nat : DOMAIN Defs[p].from = 1..l
        BY <2>4
      <3>3. \A j \in 1..l : Defs[p].from[j] \in DOMAIN Defs /\ rank[Defs[p].from[j]] < rank[p]
        BY <1>1, <2>4, <3>2
      <3>4. columns = [j \in 1..l |-> columns[j]] /\ \A j \in 1..l : Column(columns[j])
        BY <1>2, <3>2, <3>3
      <3>. HIDE DEF columns
      <3>5. Tabular(columns, l)
        BY <3>4 DEF Tabular
      <3>6. PICK n1 \in Nat \ {0} :
              given = [r \in 1..n1 |-> given[r]] /\ IsInjective(given)
        BY <3>5, AllChosen
      <3>. HIDE DEF given
      <3>. QED
        BY <3>1, <3>6 DEF Column, Range
    <2>. QED
      BY <2>2, <2>3, <2>4 DEF Defined
  <1>. DEFINE Bad == {rank[p] : p \in {q \in DOMAIN Defs : ~Column(Values[q])}}
  <1>. SUFFICES ASSUME Bad # {} PROVE FALSE
    OBVIOUS
  <1>3. Bad \subseteq Nat
    BY <1>1
  <1>4. PICK x \in Bad : \A y \in Bad : x <= y
    BY <1>3, LeastOf
  <1>5. PICK p \in DOMAIN Defs : rank[p] = x /\ ~Column(Values[p])
    OBVIOUS
  <1>6. \A q \in DOMAIN Defs : rank[q] < rank[p] => Column(Values[q])
    <2>. SUFFICES ASSUME NEW q \in DOMAIN Defs, rank[q] < rank[p], ~Column(Values[q])
                  PROVE  FALSE
      OBVIOUS
    <2>1. rank[q] \in Bad /\ rank[q] \in Nat /\ rank[p] \in Nat
      BY <1>1
    <2>. QED
      BY <1>4, <1>5, <2>1
  <1>. QED
    BY <1>2, <1>5, <1>6

\* The parameters that the settings of a test name.
LEMMA Flattened ==
  ASSUME NEW S, NEW seqs \in Seq(Seq(S))
  PROVE  FlattenSeq(seqs) \in Seq(S)
  <1>. DEFINE K == Len(seqs)
              Is(F, k) == F = [i \in 1..k |-> IF i = 1 THEN seqs[i] ELSE F[i - 1] \o seqs[i]]
              flatten == CHOOSE F : Is(F, K)
              Bad == {k \in 1..K : ~ \E F : Is(F, k)}
  <1>1. CASE K = 0
    BY <1>1 DEF FlattenSeq
  <1>2. CASE K # 0
    <2>1. FlattenSeq(seqs) = flatten[K]
      BY <1>2 DEF FlattenSeq
    <2>2. ASSUME Bad # {}
          PROVE  FALSE
      <3>1. PICK x \in Bad : \A y \in Bad : x <= y
        <4>. HIDE DEF Is
        <4>1. Bad \subseteq Nat
          OBVIOUS
        <4>. QED
          BY <2>2, <4>1, LeastOf
      <3>2. CASE x = 1
        <4>. DEFINE F == [i \in 1..1 |-> seqs[1]]
        <4>1. Is(F, 1)
          OBVIOUS
        <4>. QED
          BY <3>2, <4>1
      <3>3. CASE x # 1
        <4>1. PICK w \in 1..K : w + 1 = x
          <5>1. x - 1 \in 1..K /\ (x - 1) + 1 = x
            BY <3>3
          <5>. QED
            BY <5>1
        <4>2. w \notin Bad
          <5>. HIDE DEF Is
          <5>1. w \in Nat /\ x \in Nat /\ ~(x <= w)
            BY <4>1
          <5>. QED
            BY <3>1, <5>1
        <4>3. PICK F : Is(F, w)
          BY <4>2
        <4>. DEFINE G == [i \in 1..x |-> IF i = x THEN F[w] \o seqs[x] ELSE F[i]]
        <4>4. ASSUME NEW i \in 1..x
              PROVE  G[i] = IF i = 1 THEN seqs[i] ELSE G[i - 1] \o seqs[i]
          <5>1. CASE i = x
            <6>1. i # 1 /\ i - 1 = w /\ w \in 1..x /\ w # x
              BY <3>3, <4>1, <5>1
            <6>2. G[i] = F[w] \o seqs[x] /\ G[i - 1] = F[w]
              BY <5>1, <6>1
            <6>. QED
              BY <5>1, <6>1, <6>2
          <5>2. CASE i # x
            <6>1. i \in 1..w /\ G[i] = F[i] /\ (i # 1 => G[i - 1] = F[i - 1])
              BY <4>1, <5>2
            <6>2. F[i] = IF i = 1 THEN seqs[i] ELSE F[i - 1] \o seqs[i]
              BY <4>3, <6>1
            <6>. QED
              BY <6>1, <6>2
          <5>. QED
            BY <5>1, <5>2
        <4>5. Is(G, x)
          BY <4>4
        <4>. QED
          BY <4>5
      <3>. QED
        BY <3>2, <3>3
    <2>3. K \in 1..K /\ K \notin Bad
      <3>. HIDE DEF Is
      <3>1. Len(seqs) \in 1..Len(seqs)
        BY <1>2
      <3>2. Bad = {}
        BY <2>2
      <3>. HIDE DEF Bad
      <3>. QED
        BY <3>1, <3>2
    <2>4. PICK F : Is(F, K)
      BY <2>3
    <2>5. Is(flatten, K)
      <3>. HIDE DEF Is
      <3>. QED
        BY <2>4
    <2>6. \A i \in 1..K : flatten[i] = IF i = 1 THEN seqs[i] ELSE flatten[i - 1] \o seqs[i]
      <3>. HIDE DEF flatten
      <3>. QED
        BY <2>5
    <2>. HIDE DEF flatten
    <2>. DEFINE Wrong == {k \in 1..K : flatten[k] \notin Seq(S)}
    <2>7. ASSUME Wrong # {}
          PROVE  FALSE
      <3>1. PICK x \in Wrong : \A y \in Wrong : x <= y
        <4>1. Wrong \subseteq Nat
          OBVIOUS
        <4>. QED
          BY <2>7, <4>1, LeastOf
      <3>2. seqs[x] \in Seq(S)
        OBVIOUS
      <3>3. x # 1
        BY <2>6, <3>2
      <3>4. x - 1 \in 1..K /\ x - 1 \notin Wrong
        BY <3>1, <3>3
      <3>5. flatten[x] = flatten[x - 1] \o seqs[x] /\ flatten[x - 1] \in Seq(S)
        BY <2>6, <3>3, <3>4
      <3>6. flatten[x - 1] \o seqs[x] \in Seq(S)
        <4>1. \A a, b \in Seq(S) : a \o b \in Seq(S)
          OBVIOUS
        <4>. QED
          BY <3>2, <3>5, <4>1
      <3>. QED
        BY <3>5, <3>6
    <2>. QED
      BY <1>2, <2>1, <2>7
  <1>. QED
    BY <1>1, <1>2

\* What varies in a test are columns of values.
LEMMA ColumnsTabular ==
  ASSUME Configured, NEW k \in Variable
  PROVE  \E m \in Nat : Tabular(Columns(Settings[k]), m)
  <1>. DEFINE settings == Settings[k]
              named == [s \in DOMAIN settings |->
                          IF settings[s].kind = "params" THEN settings[s].names ELSE <<>>]
              params == TestParams(settings)
              columns == Columns(settings)
  <1>1. params \in Seq(DOMAIN Defs)
    <2>1. PICK l \in Nat : DOMAIN settings = 1..l
      BY DEF Configured, Known
    <2>2. \A s \in 1..l : named[s] \in Seq(DOMAIN Defs)
      <3>. TAKE s \in 1..l
      <3>1. settings[s].kind = "params" => settings[s].names \in Seq(DOMAIN Defs)
        BY <2>1 DEF Configured, Known
      <3>2. <<>> \in Seq(DOMAIN Defs)
        OBVIOUS
      <3>3. named[s] = IF settings[s].kind = "params" THEN settings[s].names ELSE <<>>
        BY <2>1
      <3>. HIDE DEF named, settings
      <3>. QED
        BY <3>1, <3>2, <3>3
    <2>3. named \in Seq(Seq(DOMAIN Defs))
      BY <2>1, <2>2
    <2>. HIDE DEF named
    <2>4. FlattenSeq(named) \in Seq(DOMAIN Defs)
      BY <2>3, Flattened
    <2>. QED
      BY <2>4 DEF TestParams, named
  <1>2. PICK m \in Nat : DOMAIN params = 1..m /\ \A j \in 1..m : params[j] \in DOMAIN Defs
    BY <1>1
  <1>3. ASSUME NEW p
        PROVE  FixedValue(settings, p) # <<>> => Column(FixedValue(settings, p))
    <2>1. \A v : Column(<<v>>)
      BY DEF Column, Range, IsInjective
    <2>. QED
      BY <2>1 DEF FixedValue
  <1>4. ASSUME NEW j \in 1..m
        PROVE  Column(columns[j])
    <2>1. columns[j] = IF FixedValue(settings, params[j]) # <<>>
                       THEN FixedValue(settings, params[j]) ELSE Values[params[j]]
      BY <1>2 DEF Columns
    <2>2. Column(Values[params[j]])
      BY <1>2, ValuesColumn DEF Configured
    <2>. QED
      BY <1>3, <2>1, <2>2
  <1>5. columns = [j \in 1..m |-> columns[j]]
    BY <1>2 DEF Columns
  <1>. QED
    BY <1>4, <1>5 DEF Tabular

\* As many variants as choices have ended, and each was given another one.
LEMMA TriedAll ==
  ASSUME Configured, Inv
  PROVE  EveryCombinationTried
  <1>. SUFFICES ASSUME NEW k \in Concluded, k \in Variable, report[k].written
                PROVE  /\ Len(fates[k]) = NChoices[k]
                       /\ {Given[k][v] : v \in DOMAIN fates[k]} = Choosable[k]
                       /\ {Given[k][v] : v \in DOMAIN fates[k] \ NotPassed(k)}
                            = Choosable[k] \ {Given[k][v] : v \in ToSet(report[k].steps)}
    BY Zenon DEF EveryCombinationTried
  <1>. DEFINE columns == Columns(Settings[k])
              given == PermutationVariants(columns)
  <1>1. PICK m \in Nat : Tabular(columns, m)
    BY ColumnsTabular
  <1>2. PICK p \in Nat \ {0} :
          /\ given = [r \in 1..p |-> given[r]]
          /\ IsInjective(given)
          /\ {given[r] : r \in 1..p} = ChoicesOf(columns)
          /\ Cardinality(IndexChoices(columns)) = p
    <2>. HIDE DEF columns
    <2>. QED
      BY <1>1, AllChosen
  <1>3. k \in DOMAIN Settings /\ k \in DOMAIN Tests /\ TestParams(Settings[k]) # <<>>
    BY SettingsAssumption DEF Variable
  <1>4. Given[k] = given /\ NChoices[k] = p /\ Choosable[k] = ChoicesOf(columns)
    BY <1>2, <1>3 DEF Given, Variations, NChoices, Choosable
  <1>. HIDE DEF given
  <1>5. Tests[k].variants = p
    <2>1. Len(given) = p
      BY <1>2
    <2>2. Tests[k].variants = NVariants(Settings[k])
      BY <1>3, SettingsAssumption
    <2>. QED
      BY <1>3, <2>1, <2>2 DEF NVariants, Variations, given
  <1>6. Len(fates[k]) = p /\ NotPassed(k) = ToSet(report[k].steps)
    BY <1>5 DEF Inv, Judged, Runs
  <1>7. DOMAIN fates[k] = 1..p
    <2>1. fates[k] \in Seq(Ends)
      BY DEF Inv, Shape, Concluded
    <2>. QED
      BY <1>6, <2>1
  <1>8. NotPassed(k) \subseteq 1..p
    BY <1>7 DEF NotPassed
  <1>9. \A q, r \in 1..p : given[q] = given[r] => q = r
    <2>1. DOMAIN given = 1..p
      BY <1>2
    <2>. QED
      BY <1>2, <2>1 DEF IsInjective
  <1>10. {given[v] : v \in (1..p) \ NotPassed(k)}
           = {given[v] : v \in 1..p} \ {given[v] : v \in NotPassed(k)}
    BY <1>8, <1>9
  <1>11. {given[v] : v \in 1..p} = Choosable[k]
    BY <1>2, <1>4
  <1>. HIDE DEF columns
  <1>12. Len(fates[k]) = NChoices[k]
    BY <1>4, <1>6
  <1>13. {Given[k][v] : v \in DOMAIN fates[k]} = Choosable[k]
    BY <1>4, <1>7, <1>11, Zenon
  <1>14. {Given[k][v] : v \in DOMAIN fates[k] \ NotPassed(k)}
           = Choosable[k] \ {Given[k][v] : v \in ToSet(report[k].steps)}
    <2>1. {Given[k][v] : v \in DOMAIN fates[k] \ NotPassed(k)}
            = {given[v] : v \in (1..p) \ NotPassed(k)}
      BY <1>4, <1>7, Zenon
    <2>2. {Given[k][v] : v \in ToSet(report[k].steps)} = {given[v] : v \in NotPassed(k)}
      BY <1>4, <1>6, Zenon
    <2>. QED
      BY <1>10, <1>11, <2>1, <2>2, Zenon
  <1>. QED
    BY <1>12, <1>13, <1>14

\* A test that is reported has run with every choice of its parameters' values, each of
\* them once, and those it is not reported to have failed with have passed
\* (README.ParameterVariation:7-8, generate_permutation_table()).
THEOREM CombinationsTried ==
  ASSUME OneByte, Configured
  PROVE  Spec => []EveryCombinationTried
  <1>1. Inv => EveryCombinationTried
    BY TriedAll
  <1>. QED
    BY <1>1, InvHolds, PTL
=============================================================================
