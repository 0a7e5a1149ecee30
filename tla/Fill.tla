-------------------------------- MODULE Fill --------------------------------
(***************************************************************************)
(* devutils' fill (fill.cpp): the placeholders of a template are filled in *)
(* with every combination of their values, or a number of them, in order   *)
(* or at random.  A template is a sequence of pieces: a name that has      *)
(* values, or text.                                                        *)
(***************************************************************************)
EXTENDS Integers, SequencesExt, FiniteSetsExt

CONSTANTS
  Templates,         \* templates considered
  Names,             \* names of placeholders
  FillValues,        \* lists of values of a placeholder, texts as sequences of pieces
  FillCounts,        \* -a: numbers, 0 for "forall"
  MaxCombinations    \* MAX_COMBINATIONS

\* parse_values: never an empty list.
ASSUME FillAssumption ==
  /\ MaxCombinations \in Nat \ {0} /\ FillCounts \subseteq Nat
  /\ \A template \in Templates : template \in Seq(ToSet(template))
  /\ \A values \in FillValues : values \in Seq(ToSet(values)) \ {<<>>}

VARIABLE fill   \* the program: see FillStart

-----------------------------------------------------------------------------
\* parse_arguments: a definition for each of some names.
FillOptions ==
  [template : Templates, fills : UNION {[N -> FillValues] : N \in SUBSET Names \ {{}}},
   count : FillCounts, randomize : BOOLEAN]

\* The elements of s that are in S, each once, in the order of first appearance: what is
\* appended when its insertion into a set finds it new.
Distinct(s, S) ==
  LET seen[i \in 0 .. Len(s)] ==
        IF i = 0 THEN <<>>
        ELSE IF s[i] \in S /\ ~Contains(seen[i - 1], s[i]) THEN Append(seen[i - 1], s[i])
        ELSE seen[i - 1]
  IN  seen[Len(s)]

\* parse_template_names.
TemplateNames(template) == Distinct(template, Names)

\* expand_template: a value is put in for its name and not looked into again.
Expand(template, value) ==
  FlattenSeq([i \in DOMAIN template |->
    IF template[i] \in Names THEN value[template[i]] ELSE <<template[i]>>])

\* The products of the numbers of values of the first names.
Products(names, fills) ==
  LET raw[n \in 0 .. Len(names)] ==
        IF n = 0 THEN 1 ELSE raw[n - 1] * Len(fills[names[n]])
  IN  raw

\* Mutant: the product is made before it is compared.
TooManyAfterwards(names, fills) == Products(names, fills)[Len(names)] >= MaxCombinations

\* The product of the numbers of values goes over the limit; each factor is looked at
\* before it is multiplied.
TooMany(names, fills) ==
  \E n \in 1 .. Len(names) :
    Products(names, fills)[n - 1] > MaxCombinations \div Len(fills[names[n]])

\* The lists of values chosen for the first n names: loops within loops, the last name's
\* innermost.
Selections(names, fills) ==
  LET choices[n \in 0 .. Len(names)] ==
        IF n = 0 THEN <<<<>>>>
        ELSE FlattenSeq([i \in DOMAIN choices[n - 1] |->
               [v \in DOMAIN fills[names[n]] |-> Append(choices[n - 1][i], fills[names[n]][v])]])
  IN  choices

\* The value chosen for each name.
ValueOf(names, choice) ==
  [name \in ToSet(names) |-> choice[CHOOSE n \in DOMAIN names : names[n] = name]]

\* generate: a result that is there already is dropped.
Generate(template, names, fills) ==
  LET all == Selections(names, fills)[Len(names)]
      expansions == [i \in DOMAIN all |-> Expand(template, ValueOf(names, all[i]))]
  IN  Distinct(expansions, ToSet(expansions))

-----------------------------------------------------------------------------
\* opt, pc, the results so far, what is printed, the exit status.
FillStart(opt) == [opt |-> opt, pc |-> "check", results |-> <<>>, exit |-> -1]

FillInit == fill \in {FillStart(opt) : opt \in FillOptions}

\* Whether the definitions are those of the template's names, at least one.
FillsMatch(opt) ==
  /\ TemplateNames(opt.template) # <<>>
  /\ ToSet(TemplateNames(opt.template)) = DOMAIN opt.fills

Refuse ==
  /\ fill.pc = "check"
  /\ FillsMatch(fill.opt) => TooMany(TemplateNames(fill.opt.template), fill.opt.fills)
  /\ fill' = [fill EXCEPT !.pc = "done", !.exit = 2]

GenerateAll ==
  /\ fill.pc = "check"
  /\ FillsMatch(fill.opt)
  /\ ~TooMany(TemplateNames(fill.opt.template), fill.opt.fills)
  /\ LET results == Generate(fill.opt.template, TemplateNames(fill.opt.template), fill.opt.fills)
     IN  fill' = IF fill.opt.count > Len(results)
                 THEN [fill EXCEPT !.pc = "done", !.exit = 2]
                 ELSE [fill EXCEPT !.pc = "choose", !.results = results]

\* No memory for the results.
FillFails == fill.pc = "check" /\ fill' = [fill EXCEPT !.pc = "done", !.exit = 1]

\* shuffle with -r, and the first -a of them.
Choose ==
  /\ fill.pc = "choose"
  /\ \E order \in IF fill.opt.randomize THEN Bijection(DOMAIN fill.results, DOMAIN fill.results)
                  ELSE {[i \in DOMAIN fill.results |-> i]} :
       LET shuffled == [i \in DOMAIN fill.results |-> fill.results[order[i]]]
           n == IF fill.opt.count = 0 THEN Len(shuffled) ELSE fill.opt.count
       IN  fill' = [fill EXCEPT !.pc = "done", !.exit = 0, !.results = SubSeq(shuffled, 1, n)]

FillStep == Refuse \/ GenerateAll \/ FillFails \/ Choose

-----------------------------------------------------------------------------
(* Reference: the expansions as a set.                                     *)

Assignments(fills) ==
  {f \in [DOMAIN fills -> UNION {ToSet(fills[n]) : n \in DOMAIN fills}] :
     \A n \in DOMAIN fills : f[n] \in ToSet(fills[n])}

Expansions(opt) == {Expand(opt.template, f) : f \in Assignments(opt.fills)}

Combinations(opt) ==
  Products(TemplateNames(opt.template), opt.fills)[Len(TemplateNames(opt.template))]

\* What is printed are different expansions of the template, as many as asked for, and
\* all of them by default; a call is refused exactly if its definitions are not the
\* template's, the combinations are more than the limit, or the different expansions
\* fewer than -a asks for.
FillComplete ==
  /\ fill.exit = 0 =>
       /\ IsInjective(fill.results)
       /\ ToSet(fill.results) \subseteq Expansions(fill.opt)
       /\ Len(fill.results) = IF fill.opt.count = 0 THEN Cardinality(Expansions(fill.opt))
                              ELSE fill.opt.count
  /\ fill.exit = 2 =>
       \/ ~FillsMatch(fill.opt)
       \/ Combinations(fill.opt) > MaxCombinations
       \/ Cardinality(Expansions(fill.opt)) < fill.opt.count
  /\ fill.pc = "choose" => FillsMatch(fill.opt) /\ Combinations(fill.opt) <= MaxCombinations
=============================================================================
