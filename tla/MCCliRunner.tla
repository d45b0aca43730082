---------------------------- MODULE MCCliRunner ----------------------------
(* Instances of CliRunner and CliVariations for TLC.                        *)
EXTENDS CliVariations

\* Parameters and tests much as in README.ParameterVariation:116-159.
Example ==
  [foo |-> [mode |-> "const", values |-> <<"1", "2">>],
   bar |-> [mode |-> "range", low |-> "4.0", high |-> "6.0"],
   baz |-> [mode |-> "const", values |-> <<"kissa">>],
   zzz |-> [mode |-> "generate", from |-> <<"baz", "foo">>]]

ParamsOf(s) == [kind |-> "params", names |-> s]
Fix(p, v) == [kind |-> "fix", name |-> p, value |-> v]

Case(v, timeout) == [exists |-> TRUE, variants |-> v, timeout |-> timeout]
Missing == [exists |-> FALSE, variants |-> 0, timeout |-> 0]

\* -e with a case that only fixes a parameter, so has no variations, one that does not
\* exist, one with four variants and one with two that has no timeout.
MixedSettings == <<<<Fix("foo", "1")>>, <<>>,
                   <<ParamsOf(<<"foo">>), Fix("baz", "koira"), ParamsOf(<<"bar", "baz">>)>>,
                   <<ParamsOf(<<"zzz">>)>>>>
Mixed == <<Case(0, 3), Missing, Case(4, 1), Case(2, 0)>>

\* One case with time for five polls, or for what an override says.
OneCase == <<Case(0, 5)>>
Plain == <<<<>>>>
=============================================================================
