----------------------------- MODULE MCTimedSync -----------------------------
(* Instances of TimedSync for TLC.                                          *)
EXTENDS TimedSync

Plain(b) == [bar |-> b, timed |-> FALSE]
To(b) == [bar |-> b, timed |-> TRUE]

\* Everybody calls the anonymous barrier with a timeout, as the example module does
\* (blts_cli_example_module.c:270-278), then a tagged one without.
TimedThenPlain == [p \in Procs |-> <<To(0), Plain(1)>>]

Everybody == [b \in Barriers |-> Cardinality(Procs)]
=============================================================================
