# TLA+ specifications of the MeeGo core test suite's concurrent parts

The repository is the MeeGo Core Test Suite: test programs for devices and
middleware. Most of it is scripts and thin test cases that call a device and compare
what comes back. Four parts have a logic of their own, and threads, processes or
callbacks that meet in it; these specifications model them:

* `blts-common`, the library every BLTS test program links: a test runner with a
  command line (`blts_cli_frontend.c`) that generates parameter variations
  (`blts_params.c`), and a facility to synchronise test processes with each other
  (`blts_sync.c`);
* the USB host test driver, a kernel module (`blts-usb/host-driver/hostdrv.c`);
* the USB gadget test driver, the kernel module at the other end of the cable
  (`blts-usb/peripheral-driver/gadgetdrv.c`);
* the WPA2 supplicant of the WLAN tests (`blts-wlan-core/src/wlan-core-eapol.c`,
  `wlan-core-wpa.c`).

Paths below are under `src/mcts-blts/`.

## Inventory

| Component | State | Operations | Interacts with |
|---|---|---|---|
| Barriers, `blts-common/src/blts_sync.c` | shared memory: `sync_mutex`, a table of barriers, each with a mutex, a reference count, a flag `active`, two counting semaphores, a tag | `blts_sync_anon`, `_tagged`, timed forms, `_add_tag`, `_del_tag` | test processes, through semaphores only |
| Shared area and daemon, `blts_sync.c` | the shm name, `completion_signal` | `blts_sync_master_init`, `_client_init`, `_client_cleanup` | created by `-syncprep`, attached by `-sync` processes, signalled when they end |
| Test runner, `blts-common/src/blts_cli_frontend.c` | list of tests, current child, saved SIGCHLD action, failed variants, result count | `blts_cli_main`, `run_test`, `wait_for_test_case_completion` | fork/waitpid/kill; report files; calls the two above and the next |
| Parameter variation, `blts_params.c` and grammar | symbol table, lists of parameter values | load configuration, generate variants | runner: one child per variant |
| Logs, timing, CSV and XML results | open files | formatting | runner, tests |
| USB host driver, `hostdrv.c` | per endpoint a buffer with flags and an URB; `dirty`, `open_count`; one lock, two wait queues | open, release, read, write; probe, disconnect, suspend; URB completion | user processes, USB core |
| USB gadget driver, `gadgetdrv.c` | per endpoint a request, `busy`, `usb_busy`; one lock, two wait queues | read, write, release, START and STOP ioctls, completion | user processes, device controller |
| USB transfer tests, `blts-usb/src` | per call | read and write through the drivers | the drivers |
| WLAN EAPOL and WPA test | handshake state, keys, replay counter, loop thread, its lock and reference count | frames received, loop ref and unref, associate, wait, disassociate | monitor socket, event loop, kernel, access point |
| WLAN event loop and queue, `wlan-core-eloop.c`, `-cmdqueue.c` | lists of handlers and commands | register, dispatch | EAPOL |
| ALSA dispatcher, `blts-alsa-core/src/alsa_async.c` | handler list | add, delete, dispatch | ALSA |
| oFono, Bluetooth, V4L2, display, sensor, input, watchdog tests; MWTS (Qt); script suites | per call | device and middleware calls | kernel and services |

### Where it is hard, and what makes it correct

* Barriers: the order of semaphore operations of several processes, tokens of one
  round met by a process in the next, locks given back and retaken for the caller,
  time-outs that reset what others use, refcounts and slots that change while
  somebody waits. Correct: nobody passes before all have come; nobody waits once
  all have come; locks have one holder; slots belong to their tag; failures are
  reported.
* Daemon: it is detached before the area is ready, clients may be early, killed, or
  directed by a second daemon. Correct: it goes behind the last client, and it
  goes.
* Runner: child end, poll and deadline race; `fork` may fail half-way; the caller's
  SIGCHLD action decides whether statuses exist; what the children run with must be
  every combination of the parameters. Correct: no failure is lost, the count is
  right, each combination is tried once, the run ends.
* Host driver: a transfer runs without the lock, while a disconnect marks, stops and
  frees what it uses, a signal ends its wait, and files outlive the connection.
  Correct: one call per buffer, no call returns over an URB in flight, no freed URB
  is used, the teardown ends and ends the transfers.
* Gadget driver: the lock is given back in the wait and retaken, on some paths by
  whoever comes by; closes dequeue what another file has queued; STOP takes the
  endpoints away. Correct: one transfer at a time, a call sees its own outcome, no
  wake-up is lost.
* EAPOL: frames are lost, repeated and late; the replay counter must stay in step;
  main and the loop thread share a state, a lock and the thread's life. Correct: both
  ends have the same keys, a key is installed once, the test fails only for a reason,
  the thread is gone behind the last reference and the test ends.

`PROJECT.json` lists the hazards with their lines.

## Modules

| Module | Models | Composes |
|---|---|---|
| `Barrier` | what a sequence of barriers promises (abstract) | |
| `BltsSync` | `barrier_sync()` and the shared table, one semaphore operation per action | |
| `BarrierSync` | processes that call a fixed schedule of barriers, all registered | `BltsSync`; refines `Barrier` |
| `TimedSync` | `barrier_sync_to()` beside untimed calls | `BltsSync` |
| `TagTable` | tags, slots, registration | `BltsSync` |
| `SyncMaster` | the daemon, the area, clients | |
| `CliRunner` | the loop over tests and their children | |
| `CliVariations` | the variations of parameters the children run with | `CliRunner` |
| `HostDriver` | user processes, USB core callbacks and URBs of the host driver | |
| `GadgetDriver` | user processes and the controller at one endpoint of the gadget | |
| `EapolHandshake` | the four-way and group handshakes, the channel, the access point (external) | |
| `WpaTest` | a WPA2 test: main thread and EAPOL thread | `EapolHandshake` |
| `*Proofs` | theorems about `BarrierSync`, `TimedSync`, `TagTable`, `SyncMaster`, `CliRunner` with `CliVariations`, `HostDriver`, `GadgetDriver`, `WpaTest` | the module named; `TagTableProofs` refines `BarrierSync` |
| `MC*` | values for TLC | |

### How the models correspond to the code

**Semaphores.** A `sem_t` is a natural number. `sem_wait` is a guarded decrement,
`sem_post` an increment; memory accesses made under a lock belong to the action that
takes or gives back the lock. `sem_wait`'s result is looked at where the code looks
at it. It does not fail with EINTR here: the models are of test processes that handle no
signals while they wait. (In one that does, `sync_mutex_lock()` and `barrier_sync()` go
on as if they had the semaphore, and no property holds.)

**`BltsSync`.** A process is at one of the labels of `Labels`; "first" labels belong
to the process that found `active` clear. `visit[p]` counts completed calls.
`Call` is the API function's `sync_mutex_lock()`, `Return` its
`sync_mutex_unlock()`; between them lies `barrier_sync()`.

**`BarrierSync`.** Every process is in the table from the start, as `barrier_init(0,
client_count, "default")` does it for the anonymous barrier and as the README's
practice (register first, meet anonymously) does it for tags; `Schedule` is the
common order of calls the API asks for. `Entered` and `Passed` map a process to the
abstract barrier.

**`TimedSync`.** Time is not measured: a wait that would block may be given up at any
moment. The mapping of failures to `out` and the drain and reset are single steps, so
others act between any two of them. Any deadline may be one that `sem_timedwait()`
rejects because `tv_nsec` is out of range: `FailToArrive` is that too, and `rejected` keeps
who it happened to. Such a process goes to `out` with `sync_mutex` and waits for it there.
What a timed call returns is left out.

**`TagTable`.** A slot is a barrier; it is free while its refcount is zero. A tag is a
model value; `Prefixed` says which tags begin with which, which is all that the
16-character `strncmp` tells apart. `reg` is what the test programs have registered,
kept to compare with the counts. A registration is `sync_mutex_lock()`, then its work;
the barrier's mutex is a guard of the increment only, because it is taken and given
back with nothing in between that another process could see.

**`SyncMaster`.** Barriers are left out; a test is a number of sections under
`sync_mutex`. `sections[c]` is chosen at the start and counts down. Overwriting a
semaphore (`memset`, `sem_init`) may lose the processes that sleep on it: `lost` grows
by any subset of them. An access to an area without a size kills the accessor. Clients
start at any moment and tests are killed at any moment; `irregular` remembers the
clients that attached before the semaphores were ready and those killed in a section,
which the code does not cope with, so that the properties can say what holds of the
others.

**`CliRunner`.** Time is counted in polls of 100 ms. A child is running, a zombie,
reaped or killed; it may return anything in `Returns`, or hang. `fates` keeps what
really happened to each variant, so that the report can be compared with it.

**`CliVariations`.** Values are opaque and lists are sequences. `NextPermutation` is the
carry of `generate_next_permutation()`, where the first index varies fastest (the
comment above it, `blts_params.c:1388`, says "lexicographically next"); a column per
parameter, fixed or generated, is flattened, permuted and reversed as in
`blts_config_generate_test_variations()`. A generating function is known by its
arguments; the code permutes those as it permutes a test's parameters, which is why
`ValuesWith` calls `PermutationVariants`. An assumption ties the number of children in
`Tests` to what is generated from `Settings`.

**`HostDriver`.** A section under `hostdrv_lock` is one action, but
`usb_stop_all_active()` holds the lock through its whole loop (`held`) and waits with it.
What a transfer does without the lock is one action per access: submit, set
`URB_ACTIVE`, look at `DISCONNECTING`, unlink, wait, settle. An URB is the number of
the connection it was allocated in, so a stale one can be told from a new one. `xfer`
is what became of the URB of a call: the completion (`GiveBack`) comes at any moment
or, without an unlink, never. `EPIPE` with a halt that could be cleared and
`EREMOTEIO` count as success. The 2 s of the teardown's waits are taken to be enough for a call that
can go on, so a wait runs out only when its call still hangs (`freed` notes a call that ended).
`late` are the calls a wait ran out for and those that took a buffer behind the
callback's back. A probe may fail half-way at any time (`failed`), which leaves some
endpoints set up. The teardown frees the URBs of the buffers before the one at which its
`BUG_ON` strikes.

**`GadgetDriver`.** One buffer; `lock` is who holds `gadgetdrv_lock`. What is done
under it is one action unless somebody without the lock can disturb it there.
The controller gives a request back when it is done, when it is dequeued, from
within `usb_ep_dequeue()` as the musb controller does, and when the gadget stops; it
refuses one while the endpoint is not enabled, and `usb_busy` stays set. A START whose
registration fails leaves `ep[]` as its `bind` has it, since nothing unbinds (`started`
and `ep` are two variables for that). A close that has something to dequeue and no endpoint
follows a null pointer with the lock (`OopsRelease`), as a call does to queue or to
dequeue. `cutOff` are the calls during which the endpoint went.
`disturbed` is set when a call gives back a lock or a claim that is not its own, which
`gadgetdrv.c:311-314` does after a signal (`mutex_is_locked()` then `mutex_unlock()`),
and after ENOMEM and EFAULT before the transfer; most properties are of runs without that.
`gadgetdrv_open()` changes nothing. `busy` and `usb_busy` are bit fields of one word (`gadgetdrv.h:30-31`);
a lost update between them is not modelled.

**`EapolHandshake`.** `process_eapol_frame()` runs under `loop_state_lock`, so a frame
is one action, with a choice for each call that may fail (`Outcomes`). Nonces and group keys are
numbered, a PTK is a pair of nonces, a MIC is the PTK it is made with: all that the
checks compare. The access point is outside the repository and is modelled after
hostapd: each frame it sends, a repeated one too, takes the next counter, a reply to
any frame of the present exchange will do, and it gives up after `MaxTries`. Channels keep
order; `MaxFaults` bounds losses in both directions, duplicates next to their
originals, and retries the access point makes too early. `eapol_auth_state` and
`wpa_wait_state` are the supplicant's state (the callback copies it).

**`WpaTest`.** Main follows `associate_with_wpa2psk_ap()` and its callers from
the first loop reference to the last; the thread follows `eapol_loop_run()`: lock,
select, read, handle. Frames before `cmd->associated` are ignored (`:1001`). The 30 s main waits are taken to
be enough for whatever can still come. `mpc = "join"` is `pthread_join()` with
`loop_state_lock` held.

Definitions named `X_Y` beside an action `X` are the deliberately wrong forms that show
each property can fail.

## Runs

Fairness is that the kernel keeps scheduling what can run, and nothing more. In
`sync`, `timed`, `tags`, `life` and `cli` it is weak fairness of one process's (the
daemon's, the CLI's) next step: a `sem_wait` whose semaphore stays positive returns. No
fairness between processes for one semaphore is assumed, and none is needed since
programs are finite. Of a test's child it is assumed that it ends if the test has no
timeout; others may hang, and a kill by the CLI is never assumed. In `host` a call
goes on as far as its URB lets it, an unlinked URB comes back and a callback that has
begun goes on; a device need not answer, and a signal need not come. In `gadget` a call
goes on, with strong fairness because a kernel mutex serves its waiters in turn and the
lock is given and taken for ever; the host need not let a request complete. In `wpa` both
threads go on, the access point answers and its timer runs; strong fairness of the
thread's `recv` says that a frame that has come is read in the end whatever else the
monitor interface sees.

| Run | Bounds | Shows |
|---|---|---|
| `sync` | 3 processes, 3 calls, no barrier twice running | the calls implement `Barrier`; locks and leadership are exclusive; tokens are used up; everybody gets through |
| `sync_reuse` (violation) | 3 processes, 2 calls of one barrier | a process passes the second round early |
| `timed` | 3 processes, one timed call, one untimed at another barrier; deadlines may run out or be rejected | `sync_mutex` has one holder, and leaves a failed call only with an invalid deadline; calls return unless there was one; who passes had everybody there |
| `tags` | 3 processes, 3 tags for 2 slots, 12 calls each | slots and counts agree, nobody is abandoned, full table and unknown tags included |
| `life` | 2 daemons, 2 clients of up to 2 sections, kills, early starts | semaphores outlive their clients; regular clients are counted and served; the daemon goes |
| `cli` | 4 tests: one whose only setting is a fixed parameter, one missing, one with 4 variants and a timeout of 1 poll, one with 2 and none; all three kinds of parameter and a fixed one; forks fail, children hang | verdicts and count are right, every combination is tried once, the run ends |
| `host` | 2 users, 2 buffers, 2 connections, failing probes, suspends, signals, devices that never answer | one call per buffer; old files can only be closed; no return over an URB in flight and no missing URB but for calls that were not waited for and failed probes; callbacks end and end the transfers |
| `host_probe` (violation) | 1 user, probes that fail half-way | left-over URBs |
| `gadget` | 3 processes, any number of calls, refused requests, signals, closes, starts, failed ones too, and stops | one transfer at a time, own outcomes, no lost wake-up, three causes of a null pointer and no other, and calls whose transfer is over return |
| `wpa` | a whole test, 2 handshakes, 3 group keys, 4 tries, 2 faults, any call failing | keys agree, none is installed twice, time-outs have a cause, no thread is left behind, only the join can hang |
| `eapol_retry` (violation) | 2 tries, 1 fault | a fresh frame is taken for a replay |
| `wpa_unref` (violation) | no faults | the last unref does not end the loop |

Why the bounds are enough. Three processes are the first number at which a token can
go to the wrong one of two waiters (with two there is one waiter), and the shortest
schedules with and without a reuse show either side. Three tags and two slots let a
slot be freed and taken again while another is in use. Two daemons and two clients let
one daemon take the other's name away between the clients' starts. Timeouts of one and
three polls put a child's end before, at and behind the deadline; columns of one and
two values make the carry stop, pass on and wrap. Two users and two connections of
the host driver let a call wait for a buffer another has, and a file of the first
connection live in the second; two buffers let the teardown be before, at and behind a
call's buffer. Three processes at the gadget are one with the transfer, one that
waits for it and one that closes, stops or steals the lock. Four tries and two faults
let a frame be lost and its repetition be repeated, and two handshakes let an old frame
meet a new exchange. The theorems cover every number for the properties they state.

Deadlock checking is off in `timed` (a process whose deadline is rejected waits for itself,
and everybody for it), in `life` (there the daemon may really stop for ever), in
`host` and `gadget` (a `BUG()` or an oops with the lock held stops everybody) and in
`wpa` and its violation runs (the test is over, or hangs in the join).

### Divergences and where the properties end

The four violation runs are findings in `PROJECT.json`. Other disagreements are read
from the code; for some of them an instance is kept in an MC module, with which TLC shows
the disagreement:

* `tv_nsec` may exceed 10^9 (`blts_sync.c:241-247`); `sem_timedwait()` then fails at once
  with EINVAL, and the call is on its way out with `sync_mutex`, where "no locks are held"
  (`blts_sync.c:293`): it waits for itself at `:301`, and everybody else for it. `timed`
  has this: `OnlyRejectedKeepLock` says that it happens to such a process only, and
  `EveryCallReturns` excepts it.
* `blts_sync_tagged_to()` drops the result of `barrier_sync_to()` and reports success for a
  time-out (`blts_sync.c:452`; its comment, `:438`, says "<0 on fail").
* A tag that begins with another one is taken for it. `TagTable` with `Overlapping` and
  `Nested`: `AtOwnBarrier` fails.
* A child that passed within its time is reported as timed out when the poll that
  notices both is the last one (`blts_cli_frontend.c:272-277`). `CliRunner` with
  `OneCase`, `Plain` and `Override = 2`: `InTimeIsPassed` fails.
* A barrier at which somebody has given up is not usable at once: the reset may clear
  `active` under another leader, and both wait. `timed` therefore goes on at another barrier.
* A deregistration while others wait at the tag strands the leader, which has counted
  the process already; a registration then leaves a token over. `tags` deregisters behind
  a call of the tag.
* The daemon does not survive clients that attach early (their completion is wiped) or
  are killed in a section (`irregular`), and a second `-syncprep` removes the first
  one's name.
* A test function that returns a multiple of 256 passes; `cli` has returns of 0 and 1.
* When `fork` fails, the test is counted as failed but the result file has no entry
  for it (`written`).
* `README.ParameterVariation:34-37` says that parameters without a definition get
  defaults; with a configuration loaded, one that lacks a parameter makes the declaration
  of the test fail. A column without values counts as one and is then read at index 0
  (`blts_params.c:1425`, `:1455`). `fix` does not reach the arguments of generating functions.
* Host driver: nothing wakes `userq` in a teardown, so its waits run out whenever a call
  is waiting for the buffer (`hostdrv.c:744`); a suspend may leave an URB in flight; a
  call that took a buffer late meets the `BUG_ON` or the freed URB
  (`OnlyLateCallsCrash`), and a call after a failed probe may find none. A call looks
  at `dirty` once, without the lock (`:377`): one that waits for the lock or the buffer
  through a disconnect and the next connection gets the new URB, where `host-driver/README:37-42`
  says EBADF (`StaleFilesRefused` is about the calls that begin afterwards). `release`
  has `mutex_lock_interruptible()` inside `BUG_ON`, which a pending signal triggers
  (`hostdrv.c:515`, `gadgetdrv.c:417`; the models let the lock be taken).
* Gadget driver: after a signal, and after ENOMEM and EFAULT, a call may give back
  another's lock and claim (`disturbed`); STOP, and a START that fails, take the endpoint
  away from calls under way; a refused request leaves `usb_busy` set (`:200-203`), by which a
  close after STOP dequeues from an endpoint that is not there (`:421-424`, `:430-433`),
  with the lock (`CrashesExplained`).
* WPA: message 2 is never repeated, so its loss ends in a time-out (`TimeoutHasCause`); a
  repeated message 3 in READY is not answered, so an access point that missed message 4
  gives up; `wpa_wait_for_state()` may report a time-out when the state is reached at
  the last moment; a delayed message 1 in READY starts the handshake anew;
  `eapol_loop_run()` returns 0 whatever has happened (`:1303`).

## Proofs

Eight modules prove, for every value of the constants that satisfies the named
assumptions of the models:

| Module | Theorem | States | Under |
|---|---|---|---|
| `BarrierSyncProofs` | `TypeCorrect` | `TypeOK` | |
| | `BarrierSafe`, `TokensBalance` | `NobodyPassesEarly`, `NoTokenLeftOver` | `Alternating` |
| | `MutexesSafe`, `OneLeader` | `MutexInv`, `LeaderInv` | `Alternating` |
| | `RefinesBarrier` | initial states and steps are those of `Barrier`, or stutter | `Alternating` |
| `TimedSyncProofs` | `PassesTogether` | `NobodyPassesAlone` | `Once`, `Common`, `Registered` |
| | `NoLocksHeld`, `TypeCorrect` | `OnlyRejectedKeepLock`, `TypeOK` | `Once`, `Registered` |
| | `NobodyLeftWaiting` | `NobodyAbandoned` | `Once`, `Exact` (of `TimedSyncProofs`) |
| `TagTableProofs` | `SlotsCount`, `OwnBarrier`, `TypeCorrect` | `RegistrationsCounted`, `AtOwnBarrier`, `TypeOK` | `Exact`, `[]Disciplined` |
| | `RulesSuffice` | all three | `Exact`, `Rules`, `Enough` |
| | `ImplementsBarriers`, `ImplementsAbstract` | initial states and steps are those of `BarrierSync`, and of `Barrier`, or stutter | `Practised` |
| | `NobodyUnregarded`, `NobodyLeftWaiting` | `NobodyPassesUnregarded`, `NobodyAbandoned` | `Practised` |
| `SyncMasterProofs` | `CompletionsCounted` | `EveryCompletionCounted` | |
| | `MasterOutlives` | `MasterOutlivesClients` | no more clients than `ClientCount` |
| `CliRunnerProofs` | `FailuresReported`, `FailuresCounted` | `NoFailureLost`, `ResultCountsFailures` | `OneByte` |
| | `CombinationsTried` | `EveryCombinationTried` | `OneByte`, `Configured` |
| `HostDriverProofs` | `TypeCorrect`, `OneCall`, `StaleRefused` | `TypeOK`, `OneCallPerBuffer`, `StaleFilesRefused` | |
| | `Settles`, `OnlyLate` | `TransferSettled`, `OnlyLateCallsCrash` | |
| `GadgetDriverProofs` | `TypeCorrect`, `OneAtATime`, `SettlesItsOwn`, `WakeupsArrive`, `EveryCrash` | `TypeOK`, `OneTransfer`, `SettlesOwn`, `NoLostWakeup`, `CrashesExplained` | |
| `WpaTestProofs` | `NoThreadLeft`, `KeyOnce`, `KeysAlwaysAgree` | `NoThreadBehindUnref`, `PairwiseKeyInstalledOnce`, `KeysAgree` | |
| | `TimeoutsExplained` | `TimeoutHasCause` | `Patient` |

`Alternating`: no barrier is called twice running. `Once`: no process calls a barrier
twice. `Common`: all call the same barriers in the same order. `Registered`: the users of
a barrier are counted as no fewer than the processes. `Exact`, for timed calls: each
barrier counts just the processes for its users; for tags: no tag begins with another one. `Rules`: a program
registers for a tag before it uses it, not twice, and deregisters only for what it has
registered; `Disciplined` says the same of states. `Enough`: there are more slots than
tags. `Practised`: besides `Exact`, `Rules` and `Enough`, all processes run one program,
which meets between the registration for a tag and each use of it, and does not meet twice
running at one barrier (the first two are what `blts-common/README:149-152` and
`blts_sync.c:408-409` ask of test programs). `OneByte`: test functions return 0..255. `Configured`:
the definitions of parameters are not circular, every parameter has values and none of them
twice, and tests name parameters that are defined. `Patient`: the access point asks at
least two times more than the network fails. The type invariants of these modules are proved or part of the inductive
invariants, so no run repeats them.

**Barriers.** `NobodyPassesEarly` is not inductive: that all have come must follow from
the tokens. The inductive invariant `IInv` has these parts:

* `Typing`, and `Leader`: `active` is set exactly while a process leads, and two
  processes do not lead at the same barrier;
* `Skew`: whoever is past a round has everybody else in it or beyond. With
  `Alternating` it follows that processes at one barrier at the same time are in the
  same round (`SameRound`), which is what a reuse breaks;
* `Gathering`, `Releasing`, `Joining`, `Awaiting`: the leader's counter, the tokens in
  `arrive` and `depart` and the processes still to arrive or still asleep add up to the
  number of processes less one, in each phase of a round;
* `Quiet`: a barrier nobody leads has no arrival tokens, and a departure token for each
  process that still waits there.

A leader has counted to zero only when nobody is missing from the sum, which is
`BeginRelease`'s case; a waiter finds a departure token only in a round that is being
released, which is `Depart`'s. One lemma per action shows that it keeps `IInv`;
`SkewSuffices` and `RefinementStep` draw the conclusions. `MutexesSafe` and `OneLeader`
need a second induction, in which each semaphore and its holders add up to one.

**Timed calls.** Processes that give up and reset a barrier spoil every balance of tokens:
a barrier may be led twice, and arrivals may be drained. What survives is one-sided. An
arrival token is posted by a process that, with `Once`, does not come back, so the tokens
and what any leader has collected are no more than the processes past their signal
(`Collected`); a leader that needs no more knows that all others are among them
(`Released`), departure tokens come from such a leader only (`Tokens`), and draining only
takes tokens away. For `OnlyRejectedKeepLock` a second induction counts the holders of each
semaphore (`Locks`). Its crux is `FirstLockIsFree`: a process that finds the barrier's
mutex taken at its first lock has `sync_mutex`, so the holder is a leader that
releases, and by `Released` the process would be past its signal; hence that lock fails
only for a rejected deadline (`OnlyRejectionFails`). For `NobodyAbandoned` the
one-sided bounds do not do, but only barriers in question are those at which all
processes sleep in calls without a deadline, and with `Once` nobody ever calls such a
barrier with one (`Untimed`). Nothing is taken away there, so the sums are exact
(`Order`): one process leads, what it has collected and what the semaphore holds are the
processes past their signal, and a round that is being released has everybody in it.

**Tags.** What makes the unlocked use of a slot index safe is the count: with the rules,
a slot's `refcount` is the number of processes registered for its tag (`Counted`),
slots in use have different tags (`Unique`), and every registered tag has one (`Present`).
A process at a slot is registered for its tag, hence counted there, so no deregistration
of another process takes the count to zero (`SlotKept`) and no registration picks the slot
(`TheFree`). The theorems assume `Disciplined` of the states, which also programs
that run into a full table may satisfy, as those of the `tags` run do. For `RulesSuffice` a second
induction (`Tracked`, `Placed`) follows what each program has registered so far, and
`NeverFull` counts slots: a table full of distinct tags, without the one asked for, would have
no more slots than there are tags. Type correctness needs the holders of the mutexes once more
(`Locks`): a slot is wiped only when nobody is at it.

The interface promises named barriers, and a table of slots with counts implements them
only if the count a leader reads is that of all who will come. The refinement says so:
seen by name instead of by slot (`View`), with registrations left out (`Place`, `Turn`) and
only the meetings of a program counted (`Visits`), every step of `TagTable` is a step of
`BarrierSync` with all processes registered, or a stutter, under `Practised`. The meeting
before the first use is what makes it true: `BarrierSync`'s own invariant, which
holds of the view so far, gives that whoever is past a meeting has everybody else past the
registration before it, so the leader's `refcount` is the number of processes. What is proved of
`BarrierSync` and `Barrier` then holds for tags. The program of the `tags` run has a tag that finds no room
at first, which is outside `Enough`; with four slots instead of three it satisfies `Practised`.

**Daemon.** `Balanced`: what the semaphore holds and what the daemon has counted off
never exceed what clients have signalled, and equal it while all were regular. With no
more clients than `ClientCount`, a daemon that has counted them all has seen each of them
go.

**Runner.** `Waitable`: while a child is waited for, SIGCHLD has its default action,
so its status is not lost. `ChildKnown` and `Variants` tie `ret`, `failed` and `n` to the fates of the
variants so far; `Judged` and `Counted` are the two theorems for the tests concluded so
far. A status of eight bits is zero only for a return of zero because of `OneByte`.

**Variations.** What the recursive functions of `CliVariations` compute is proved for any
number and size of columns. `Enumerates` says that a list of permutations starts with zeros,
ends with the greatest indices, goes on by `NextPermutation` and has each permutation once; `OneColumnMore`
gets it for one column more: the list of the others is gone through once for each index
of the new one, since the carry gets there only from their last permutation
(`NextWide`). `TableRows` shows that the table is that list, `AllChosen` that the variants
are all choices of values, `ValuesColumn` that generated parameters are columns again, by
their distance from the constants. The library's induction theorems cannot be used here;
the inductions take the least counterexample (`LeastOf`), and that a recursive function
exists is shown the same way, by extending it one argument at a time. `CombinationsTried` joins this to the runner:
a reported test has as many fates as variants. Values that are in a column twice are tried
twice, which the last part of the property does not tell apart; hence `Configured`.

**Host driver.** Three invariants, one on top of the other: `Housekeeping` (who is in a
transfer has claimed its buffer, and nobody else has), `Files` (`open_count` counts the
files, old ones are among them, and `dirty` is set while there are any), `Transfers` (where
a call is, which URB it uses, which flags are set, and what the teardown has passed
already). A failed probe leaves endpoints without an URB or with one too many; in that
state (`HalfProbed`) `Transfers` does not ask that an endpoint has one.

**Gadget driver.** Until `disturbed`, who is between taking the lock and giving it back has
it (`Locked`), one call has the claim (`Claimed`), and what the controller has is that
call's own request (`Own`). `Standing` has no such condition: the endpoint is there
while the gadget is registered, only then has the controller a request, and a call that
is not in `cutOff` has its endpoint. `EveryCrash` follows from it and from `Claimed`.

**WPA.** `Context` follows the thread, the reference and `loop_tid` for
`NoThreadBehindUnref`. `Handshake` is about frames: those on their way carry counters,
nonces and MICs of the past or the present exchange (`Downstream`, `Upstream`), a
supplicant draws its nonce before it installs with it, so installations are no more
than nonces (`Nonces`, `Installs`), and a message 4 or group message 2 that the access point
will still accept was sent by a supplicant that had installed the access point's
keys (`Completion`).

`TimeoutHasCause` needs to know how far the two are. As long as nothing local has failed and message
2 is not lost, a waiting test is in one of four phases (`Phase`): the access point has not been answered
yet, an acceptable message 2 is on its way, message 3 is asked for with the
supplicant's keys, or message 3 has come. `Beginning` and `Confirming` bound the tries so far by
the faults so far (`tries <= faults + 1`, or 2), so a `Patient` access point does not give up in
them; while message 2 is on its way it waits; and in the last phase the test is
READY. Frames overtake nothing, so an old one is dropped by its counter (`Sorted`). The
condition is tight: with 3 tries and 2 faults TLC finds the time-out.
The `wpa` run, with 4 tries and 2 faults, is at the limit.

**Only model-checked.** Liveness and what rests on fairness, which is out of the
provers' reach: `EveryoneGetsThrough`, `EveryCallReturns`, `ProgramsFinish`, the fairness part of `ImplementsBarrier`,
`MasterDies`, `NobodyLeftAsleep`, `RunEnds`, `CallbackEnds`, `DisconnectEndsTransfers`,
`EndedTransfersReturn`, `OnlyJoinHangs`. `InTimeIsPassed` and the other instances under
"Divergences" are there to fail. Every invariant of a passing run is stated by a theorem.

## Not modelled

Within the modelled files: failures of `sem_init`, `mmap`, `ftruncate` and `malloc`; the
synchronisation calls when `init_done` is 0 (they return at once); argument parsing, help, the
SIGSEGV handler; the grammar of configurations, typed values and their conversions, the
variation styles the CLI does not ask for; the configuration ioctls of both USB drivers
(`hostdrv.c:551-603`), descriptors and the memory behind the buffers; the event callbacks, DHCP
and cryptography of the WLAN tests; the unlocked registration of the state callback
(`wlan-core-eapol.c:1633-1646`).

Whole components, with the reason in `PROJECT.json`. Most of the repository's lines are
sequential test code (a call to a device or library, a comparison, a log line), language
bindings, and vendored libraries (the pixel-format tests carry libav and libswscale); they
keep no state between calls, and a specification of them would repeat them. That is why
the definitions of these modules stand for a small part of the lines although they cover
the parts in which several threads, processes or callbacks meet.

Left for later, in this order:

1. The WLAN event loop (`wlan-core-eloop.c:329`: handlers are removed while their list is
   walked; what is missed is seen by the next `select`) and the command queue.
2. The ALSA dispatcher, whose walk does not advance past a handler without a device
   (`alsa_async.c:93`).
3. The oFono call cases: retries and time-outs over a GLib main loop.
4. Theorems for repeated barriers with two processes, where there is one waiter and
   the condition `Alternating` should not be needed.
