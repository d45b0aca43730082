---------------------------- MODULE CliVariations ----------------------------
(***************************************************************************)
(* What the variants of CliRunner run with: the parameter variation of     *)
(* blts-common/src/blts_params.c.  run_test() generates the variations of  *)
(* a test before its first fork(), and gives each child the next of them.  *)
(*                                                                         *)
(* Values are opaque; the value of a generating function of a test module  *)
(* is known by the function's arguments.  The variation style is           *)
(* CONFIG_VARIATION_COMBINATIONS, the only one the CLI asks for.  Columns  *)
(* are taken to have values, and the number of permutations to fit into an *)
(* unsigned: the code checks neither.                                      *)
(***************************************************************************)
EXTENDS CliRunner

CONSTANTS
  Defs,      \* Defs[p]: how parameter p is defined in the configuration,
             \* [mode |-> "const", values |-> s], [mode |-> "range", low |-> l,
             \* high |-> h] or [mode |-> "generate", from |-> s]
  Settings   \* Settings[k]: the settings of test k in the order of the file,
             \* [kind |-> "params", names |-> s] (params and pgroup) or
             \* [kind |-> "fix", name |-> p, value |-> v]; <<>> if the test declares none

\* Mutated form of the next one: the indices before the incremented one are not set back.
NextPermutation_NoReset(perm, limits) ==
  LET Full == {j \in DOMAIN perm : \A h \in 1..j : perm[h] + 1 >= limits[h]}
  IN  [j \in DOMAIN perm |->
         IF j \notin Full /\ j - 1 \in Full \cup {0} THEN perm[j] + 1 ELSE perm[j]]

\* generate_next_permutation(): the first index that has room is incremented and those
\* before it start again, all of them if none has.
NextPermutation(perm, limits) ==
  LET Full == {j \in DOMAIN perm : \A h \in 1..j : perm[h] + 1 >= limits[h]}
  IN  [j \in DOMAIN perm |-> IF j \in Full THEN 0
                             ELSE IF j - 1 \in Full \cup {0} THEN perm[j] + 1
                             ELSE perm[j]]

\* generate_permutation_table(): from all zeros, as many as the columns' sizes multiply to.
NPermutations(limits) ==
  LET product[j \in 0..Len(limits)] ==
        IF j = 0 THEN 1 ELSE product[j - 1] * IF limits[j] = 0 THEN 1 ELSE limits[j]
  IN  product[Len(limits)]
PermutationTable(limits) ==
  LET table[row \in 1..NPermutations(limits)] ==
        IF row = 1 THEN [j \in DOMAIN limits |-> 0]
                   ELSE NextPermutation(table[row - 1], limits)
  IN  table

\* test_param_list_flatten(), generate_permutation_variants() and variant_list_reverse():
\* the values at each permutation's indices, in the order of the table.
PermutationVariants(columns) ==
  LET table == PermutationTable([j \in DOMAIN columns |-> Len(columns[j])])
  IN  [row \in DOMAIN table |->
         [j \in DOMAIN columns |-> columns[j][table[row][j] + 1]]]

\* generate_variations(): a parameter's column, from those of the others.
ValuesWith(values, p) ==
  CASE Defs[p].mode = "const"    -> Defs[p].values
    [] Defs[p].mode = "range"    -> <<Defs[p].low, Defs[p].high>>
    [] Defs[p].mode = "generate" ->
         PermutationVariants([j \in DOMAIN Defs[p].from |-> values[Defs[p].from[j]]])
Values ==
  LET values[p \in DOMAIN Defs] == ValuesWith(values, p)
  IN  values

\* collect_test_params(): the parameters a test takes, in the order of its settings.
TestParams(settings) ==
  FlattenSeq([s \in DOMAIN settings |->
                IF settings[s].kind = "params" THEN settings[s].names ELSE <<>>])

\* get_fixed_param_value(): the first setting that fixes the parameter.
FixedValue(settings, p) ==
  LET S == {s \in DOMAIN settings : settings[s].kind = "fix" /\ settings[s].name = p}
  IN  IF S = {} THEN <<>>
      ELSE <<settings[CHOOSE s \in S : \A r \in S : s <= r].value>>

Columns(settings) ==
  LET params == TestParams(settings)
  IN  [j \in DOMAIN params |->
         LET fixed == FixedValue(settings, params[j])
         IN  IF fixed # <<>> THEN fixed ELSE Values[params[j]]]

\* blts_config_generate_test_variations().
Variations(settings) == PermutationVariants(Columns(settings))

\* blts_config_test_is_variable(): a test with parameters (one that only fixes some has
\* none); and the number of children run_test() starts for it.
NVariants(settings) == IF TestParams(settings) = <<>> THEN 0 ELSE Len(Variations(settings))

\* What the children of each test are given, in turn.
Given == [k \in DOMAIN Settings |-> Variations(Settings[k])]

ASSUME SettingsAssumption ==
  /\ DOMAIN Settings = DOMAIN Tests
  /\ \A k \in DOMAIN Tests : Tests[k].variants = NVariants(Settings[k])

-----------------------------------------------------------------------------
\* All choices of one value for each parameter: by index, and the values.
IndexChoices(columns) ==
  {f \in [DOMAIN columns -> UNION {DOMAIN columns[j] : j \in DOMAIN columns}] :
     \A j \in DOMAIN columns : f[j] \in DOMAIN columns[j]}
ChoicesOf(columns) == {[j \in DOMAIN columns |-> columns[j][f[j]]] : f \in IndexChoices(columns)}

Variable == {k \in DOMAIN Settings : TestParams(Settings[k]) # <<>>}
NChoices == [k \in Variable |-> Cardinality(IndexChoices(Columns(Settings[k])))]
Choosable == [k \in Variable |-> ChoicesOf(Columns(Settings[k]))]

\* "runs test cases with each permutation of parameters as defined in the configuration"
\* (README.ParameterVariation:7-8): a test that is reported has run with every choice of
\* values, with each once, and those that are not named as failed have passed.
EveryCombinationTried ==
  \A k \in Concluded \cap Variable : report[k].written =>
    LET ran(V) == {Given[k][v] : v \in V}
    IN  /\ Len(fates[k]) = NChoices[k]
        /\ ran(DOMAIN fates[k]) = Choosable[k]
        /\ ran(DOMAIN fates[k] \ NotPassed(k)) = Choosable[k] \ ran(ToSet(report[k].steps))
=============================================================================
