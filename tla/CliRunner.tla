----------------------------- MODULE CliRunner -----------------------------
(***************************************************************************)
(* The test loop of blts_cli_main() and run_test() of                      *)
(* blts-common/src/blts_cli_frontend.c: each variant of each test case     *)
(* runs in a forked child, which the CLI polls with waitpid() every 100 ms *)
(* and kills when its time is up; the verdicts go to the result file.      *)
(*                                                                         *)
(* Time is counted in polls.  A child may end at any moment, or hang.      *)
(***************************************************************************)
EXTENDS Naturals, SequencesExt

CONSTANTS
  Tests,           \* the tests asked for, [exists |-> e, variants |-> n, timeout |-> t];
                   \* n = 0 for a test without parameter variations, t in polls
                   \* of 100 ms, 0 for none
  Override,        \* timout_override, in polls; 0 for none
  Returns,         \* what test functions return, 0 for success
  CallerIgnores,   \* the CLI was started with SIGCHLD ignored
  ForksMayFail     \* fork() may fail

ASSUME TestsAssumption ==
  /\ Tests \in Seq([exists : BOOLEAN, variants : Nat, timeout : Nat])
  /\ Override \in Nat
  /\ Returns \subseteq Nat /\ 0 \in Returns
  /\ {CallerIgnores, ForksMayFail} \subseteq BOOLEAN

VARIABLES
  pc,       \* where run_test is, or "next" between tests
  t,        \* index of the test in Tests
  n,        \* n_variations
  ret,      \* verdict: 0 for passed
  elapsed,  \* time_elapsed, in polls (counted only if there is a timeout)
  failed,   \* failed_variants, the latest first
  sigchld,  \* the action for SIGCHLD: "default" or "ignored"
  saved,    \* saved_sigchld_action, or "none"
  child,    \* the child: "none", "running", "zombie", "reaped", "killed", or
            \* "overdue" if it was reaped already when its pid was killed
  returned, \* what its test function has returned
  result,   \* the number blts_cli_main returns
  report,   \* report[k]: what has been written about test k
  fates     \* for the properties: fates[k][v], how variant v of test k ended

vars == <<pc, t, n, ret, elapsed, failed, sigchld, saved, child, returned, result,
          report, fates>>
caseVars == <<t, result, report>>
signalVars == <<sigchld, saved>>

Now == Tests[t]
RealTimeout == IF Override # 0 THEN Override ELSE Now.timeout
Runs(test) == IF test.variants = 0 THEN 1 ELSE test.variants

Steps == {"next", "fork", "poll", "sleep", "done", "write"}
Nothing == [written |-> FALSE, ret |-> 0, steps |-> <<>>]

TypeOK == /\ pc \in Steps
          /\ t \in 1..(Len(Tests) + 1)
          /\ n \in Nat
          /\ ret \in 0..1
          /\ elapsed \in Nat
          /\ failed \in Seq(Nat)
          /\ sigchld \in {"default", "ignored"}
          /\ saved \in {"none", "default", "ignored"}
          /\ child \in {"none", "running", "zombie", "reaped", "killed", "overdue"}
          /\ returned \in Returns
          /\ result \in 0..Len(Tests)
          /\ report \in Seq([written : BOOLEAN, ret : 0..1, steps : Seq(Nat)])
          /\ Len(report) = t - 1
          /\ fates \in Seq(Seq({"passed", "failed", "killed", "overdue"}))

Init == /\ pc = "next" /\ t = 1 /\ n = 0 /\ ret = 0 /\ elapsed = 0
        /\ failed = <<>>
        /\ sigchld = IF CallerIgnores THEN "ignored" ELSE "default"
        /\ saved = "none"
        /\ child = "none" /\ returned = 0
        /\ result = 0
        /\ report = <<>>
        /\ fates = <<>>

InTests == t <= Len(Tests)

\* The end of a test: its verdict is added to the result.
Conclude(r, written) == /\ pc' = "next"
                        /\ t' = t + 1
                        /\ result' = result + r
                        /\ report' = Append(report, written)

-----------------------------------------------------------------------------
\* "Test case does not exist. Skipping."
Skip == /\ pc = "next" /\ InTests
        /\ ~Now.exists
        /\ Conclude(1, Nothing)
        /\ fates' = Append(fates, <<>>)
        /\ UNCHANGED <<n, ret, elapsed, failed, signalVars, child, returned>>

\* run_test() is called.
Start == /\ pc = "next" /\ InTests
         /\ Now.exists
         /\ pc' = "fork"
         /\ n' = 0 /\ ret' = 0
         /\ failed' = <<>>
         /\ fates' = Append(fates, <<>>)
         /\ UNCHANGED <<caseVars, elapsed, signalVars, child, returned>>

\* Mutated form of the next one: the action is saved and not cleared.
SaveAndClear_Kept == saved' = sigchld /\ UNCHANGED sigchld

\* save_and_clear_sigchld(): does nothing if an action is saved already.
SaveAndClear == IF saved = "none" THEN saved' = sigchld /\ sigchld' = "default"
                                  ELSE UNCHANGED signalVars

\* restore_sigchld().
Restore == sigchld' = saved /\ saved' = "none"

\* A variant begins: n_variations++, fork().
Fork == /\ pc = "fork"
        /\ pc' = "poll"
        /\ n' = n + 1
        /\ SaveAndClear
        /\ elapsed' = 0 /\ ret' = 0
        /\ child' = "running"
        /\ UNCHANGED <<caseVars, failed, returned, fates>>

\* goto cleanup: the test has failed, its other variants do not run, nothing is
\* written about it, and the SIGCHLD action is not restored.
ForkFails == /\ pc = "fork"
             /\ ForksMayFail
             /\ SaveAndClear
             /\ Conclude(1, Nothing)
             /\ ret' = 1 /\ failed' = <<>> /\ n' = 0
             /\ UNCHANGED <<elapsed, child, returned, fates>>

\* exit(case_func()) in the child; a signal of its own is as good as a return of 1.
\* With SIGCHLD ignored there is nothing to wait for any more.
ChildEnds(r) == /\ child = "running"
                /\ child' = IF sigchld = "default" THEN "zombie" ELSE "reaped"
                /\ returned' = r
                /\ UNCHANGED <<pc, n, ret, elapsed, failed, signalVars, caseVars, fates>>

\* The exit status has the low eight bits of what was returned.
Status == returned % 256
Verdict == IF Status = 0 THEN 0 ELSE 1

\* waitpid(WNOHANG) returns 0 for a running child, collects one that has ended
\* (and the loop goes on), and fails when there is none any more.
Poll == /\ pc = "poll"
        /\ pc' = IF child = "reaped" THEN "done" ELSE "sleep"
        /\ IF child = "zombie"
             THEN child' = "reaped" /\ ret' = Verdict
             ELSE UNCHANGED <<child, ret>>
        /\ UNCHANGED <<n, elapsed, failed, signalVars, returned, caseVars, fates>>

\* The time is up at the end of the current sleep.
TimeUp == RealTimeout # 0 /\ elapsed + 1 > RealTimeout

\* Mutated form of the next one: the time is not counted.
Sleep_Uncounted == /\ pc = "sleep"
                   /\ ~TimeUp
                   /\ pc' = "poll"
                   /\ UNCHANGED <<n, ret, elapsed, failed, signalVars, child, returned,
                                  caseVars, fates>>

\* usleep(), and the time is not up.
Sleep == /\ pc = "sleep"
         /\ ~TimeUp
         /\ pc' = "poll"
         /\ elapsed' = IF RealTimeout = 0 THEN elapsed ELSE elapsed + 1
         /\ UNCHANGED <<n, ret, failed, signalVars, child, returned, caseVars, fates>>

\* usleep(), and the time is up: kill(), whatever has been collected meanwhile.
Timeout == /\ pc = "sleep"
           /\ TimeUp
           /\ pc' = "done"
           /\ ret' = 1
           /\ child' = IF child = "reaped" THEN "overdue" ELSE "killed"
           /\ UNCHANGED <<n, elapsed, failed, signalVars, returned, caseVars, fates>>

\* What became of a variant, whatever its verdict.
Fate == CASE child = "killed" -> "killed"
          [] returned # 0 -> "failed"
          [] child = "overdue" -> "overdue"
          [] OTHER -> "passed"

\* The end of a variant: restore_sigchld(), note a failed variant, on to the next.
EndVariant ==
  /\ pc = "done"
  /\ Restore
  /\ failed' = IF Now.variants > 0 /\ ret # 0 THEN <<n>> \o failed ELSE failed
  /\ pc' = IF n < Now.variants THEN "fork" ELSE "write"
  /\ child' = "none"
  /\ fates' = [fates EXCEPT ![t] = Append(@, Fate)]
  /\ UNCHANGED <<n, ret, elapsed, returned, caseVars>>

\* Mutated form of the next one: the last variant decides.
WriteCase_Last ==
  /\ pc = "write"
  /\ Conclude(ret, [written |-> TRUE, ret |-> ret, steps |-> failed])
  /\ failed' = <<>>
  /\ UNCHANGED <<n, ret, elapsed, signalVars, child, returned, fates>>

\* "The test case should fail if any of the variants fail": the case with a step
\* per failed variant, or one step.
WriteCase ==
  /\ pc = "write"
  /\ ret' = IF failed # <<>> THEN 1 ELSE ret
  /\ Conclude(ret', [written |-> TRUE, ret |-> ret', steps |-> failed])
  /\ failed' = <<>>
  /\ UNCHANGED <<n, elapsed, signalVars, child, returned, fates>>

Runner == \/ Skip
          \/ Start
          \/ Fork
          \/ ForkFails
          \/ Poll
          \/ Sleep
          \/ Timeout
          \/ EndVariant
          \/ WriteCase

Finished == pc = "next" /\ ~InTests
Terminated == Finished /\ UNCHANGED vars

Next == Runner \/ (\E r \in Returns : ChildEnds(r)) \/ Terminated

\* The CLI keeps being scheduled.  A test without a timeout ends by itself; others
\* may hang.
UntimedEnds == \E r \in Returns : ChildEnds(r) /\ RealTimeout = 0
Fairness == WF_vars(Runner) /\ WF_vars(UntimedEnds)

Spec == Init /\ [][Next]_vars /\ Fairness

-----------------------------------------------------------------------------
\* The tests reported so far, and those all of whose variants ran and passed.
Concluded == 1..Len(report)
AllPassed(k) == /\ Tests[k].exists
                /\ fates[k] = [v \in 1..Runs(Tests[k]) |-> "passed"]
NotPassed(k) == {v \in DOMAIN fates[k] : fates[k][v] # "passed"}

\* "The test case should fail if any of the variants fail" (blts_cli_frontend.c:376),
\* and one that did not run is no better: no test is reported passed unless each of
\* its variants has run and returned 0, and a report names every variant that has not.
NoFailureLost ==
  \A k \in Concluded : report[k].written =>
    /\ report[k].ret = 0 => AllPassed(k)
    /\ Tests[k].variants > 0 => NotPassed(k) = ToSet(report[k].steps)

\* "Returns number of failed test cases" (:526): the tests that are missing, that
\* could not be started or that have a variant which failed or took too long, each
\* of them once.
ResultCountsFailures ==
  result = Cardinality({k \in Concluded : ~AllPassed(k)})

\* "Timeout for the test case in ms" (blts_cli_frontend.h:33): a test that has been
\* seen to return 0 before its time was up has not failed.
InTimeIsPassed ==
  \A k \in DOMAIN fates : \A v \in DOMAIN fates[k] : fates[k][v] # "overdue"

\* The run ends, with a report on every test, however the children that have a
\* timeout behave ("Zero timeout = infinity", blts_cli_example_module.c:328).
RunEnds == <>Finished
=============================================================================
