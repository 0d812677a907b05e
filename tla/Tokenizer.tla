------------------------------- MODULE Tokenizer -------------------------------
(***************************************************************************)
(* nr.parsing.core: Tokenizer, which splits a text by an ordered set of    *)
(* rules, the configuration of what it skips and ignores, and checkpoints. *)
(* A rule has a type, whether it is skipped, whether its values are        *)
(* strings, and how much it takes at each place of the text.               *)
(***************************************************************************)
EXTENDS Naturals, Sequences, SequencesExt, FiniteSets, FiniteSetsExt, Functions

CONSTANTS RuleSets, Size,   \* sequences of rules, and the length of the text
  MaxRecursion,             \* bound: the recursion limit
  MaxScopes,                \* bound on the `with' blocks that are open
  None

VARIABLES
  rules,
  pos, current, once,   \* _skip_rule_once, the number of a rule
  config,    \* the objects with what is skipped and ignored; they are copied together
  ref,       \* which of them the tokenizer uses
  saved,     \* a checkpoint, or None
  scopes,    \* the open `with' blocks of set()
  still,     \* history: tokens, up to 2, since the tokenizer last moved
  outcome,   \* of the last call of next(), or "none"
  loaded     \* history: the checkpoint was loaded

\* A rule takes some of the text, at most the rest of it, and the limit suffices for a skip
\* of each character and of something empty before it.
RulesAreRules ==
  /\ Size \in Nat /\ MaxRecursion \in Nat /\ MaxRecursion >= 2 * Size
  /\ \A r \in RuleSets :
       /\ IsFiniteSet(DOMAIN r) /\ DOMAIN r \subseteq Nat
       /\ \A i \in DOMAIN r, p \in 1 .. Size : r[i].takes[p] # None => r[i].takes[p] \in 0 .. Size - p + 1

tokenVars == <<pos, current, once, still, outcome>>
vars == <<rules, pos, current, once, config, ref, saved, scopes, still, outcome, loaded>>

Types == {rules[i].type : i \in DOMAIN rules}
Kinds == {"skipped", "ignored"}
Unset == [kind \in Kinds |-> [t \in Types |-> None]]

Init ==
  /\ rules \in RuleSets /\ pos = 0 /\ current = None /\ once = None
  /\ config = <<Unset>> /\ ref = 1 /\ saved = None /\ scopes = <<>>
  /\ still = 0 /\ outcome = "none" /\ loaded = FALSE

Get(kind, type, default) ==
  IF config[ref][kind][type] = None THEN default ELSE config[ref][kind][type]

-------------------------------------------------------------------------------
\* _extract_token(): the sentinel at the end, else the first rule that takes something.
\* An empty string keeps its rule from being taken at once again.
Eof(p) == [type |-> "eof", from |-> p, to |-> p]

Extract(p, skipOnce, types) ==
  LET taking == {i \in DOMAIN rules :
                   rules[i].type \in types /\ i # skipOnce /\ rules[i].takes[p + 1] # None}
      i == Min(taking)
      n == rules[i].takes[p + 1]
  IN  IF p >= Size THEN [token |-> Eof(p), skip |-> FALSE, pos |-> p, once |-> skipOnce]
      ELSE IF taking = {} THEN [token |-> None, skip |-> FALSE, pos |-> p, once |-> skipOnce]
      ELSE [token |-> [type |-> rules[i].type, from |-> p, to |-> p + n],
            skip |-> Get("skipped", rules[i].type, rules[i].skip),
            pos |-> p + n, once |-> IF n = 0 /\ rules[i].strings THEN i ELSE None]

\* _do_next(): of the selected types; failing that, of the others, to be skipped only.
Attempt(p, skipOnce, select, expect) ==
  LET active == {t \in Types : ~Get("ignored", t, FALSE)}
      first == Extract(p, skipOnce, IF select = None THEN active ELSE select)
      second == Extract(p, skipOnce, active \ select)
      Expected(x) == expect = None \/ x.token.type \in expect
      Result(x) == [x |-> x, outcome |-> IF x.token = None THEN "TokenizationError"
                                         ELSE IF Expected(x) THEN "token" ELSE "UnexpectedTokenError"]
      Again(x) == [x |-> x, outcome |-> "again"]
  IN  IF first.token = None /\ select # None
      THEN IF second.token # None /\ second.skip THEN Again(second) ELSE Result(second)
      ELSE IF first.token # None /\ first.skip /\ (expect = None \/ ~Expected(first)) THEN Again(first)
      ELSE Result(first)

\* It calls itself after a token that it skips.
Goes(r, select, expect) == IF r.outcome = "again" THEN Attempt(r.x.pos, r.x.once, select, expect) ELSE r
Begin == [x |-> [token |-> None, skip |-> FALSE, pos |-> pos, once |-> once], outcome |-> "again"]
Attempts(select, expect) ==
  LET r[n \in 0 .. MaxRecursion + 1] == IF n = 0 THEN Begin ELSE Goes(r[n - 1], select, expect) IN r
DoNext(select, expect) ==
  LET r == Attempts(select, expect)[MaxRecursion + 1] IN
  IF r.outcome = "again" THEN [r EXCEPT !.outcome = "RecursionError"] ELSE r

\* next(): what is not unselected is selected, and what is selected is expected.  The
\* scanner stays where an exception leaves it.
NextToken(select, unselect, expect) ==
  LET sel == IF unselect # None THEN Types \ unselect ELSE select
      exp == IF sel = None THEN expect ELSE IF expect = None THEN sel ELSE expect \cup sel
      r == DoNext(sel, exp)
  IN  /\ select = None \/ unselect = None
      /\ pos' = r.x.pos /\ once' = r.x.once /\ outcome' = r.outcome
      /\ current' = IF r.outcome = "token" THEN r.x.token ELSE current
      /\ still' = IF r.x.pos > pos \/ r.outcome # "token" \/ r.x.token.type = "eof" THEN 0 ELSE Min({still + 1, 2})
      /\ UNCHANGED <<rules, config, ref, saved, scopes, loaded>>

-------------------------------------------------------------------------------
\* RuleConfigSet.set(), as a statement of its own or of a `with'.
SetConfig(kind, type, value) ==
  /\ Len(scopes) < MaxScopes
  /\ config' = [config EXCEPT ![ref][kind][type] = value]
  /\ scopes' = Append(scopes, [ref |-> ref, kind |-> kind, type |-> type,
                               old |-> config[ref][kind][type]])
  /\ UNCHANGED <<rules, tokenVars, ref, saved, loaded>>

\* The block ends: what was there before, in the object in which it was set.
Revert ==
  /\ scopes # <<>>
  /\ LET s == Last(scopes) IN config' = [config EXCEPT ![s.ref][s.kind][s.type] = s.old]
  /\ scopes' = Front(scopes)
  /\ UNCHANGED <<rules, tokenVars, ref, saved, loaded>>

Checkpoint(object) ==
  [pos |-> pos, current |-> current, once |-> once, ref |-> object, config |-> config[ref]]

\* Mutant: the configuration is not copied.
SaveShared ==
  /\ saved = None /\ saved' = Checkpoint(ref)
  /\ UNCHANGED <<rules, tokenVars, config, ref, scopes, loaded>>

\* The property `state', read: with a copy, and set: without.
Save ==
  /\ saved = None /\ saved' = Checkpoint(Len(config) + 1)
  /\ config' = Append(config, config[ref])
  /\ UNCHANGED <<rules, tokenVars, ref, scopes, loaded>>

Load ==
  /\ saved # None /\ pos' = saved.pos /\ current' = saved.current /\ once' = saved.once
  /\ ref' = saved.ref /\ loaded' = TRUE /\ still' = 0
  /\ UNCHANGED <<rules, config, saved, scopes, outcome>>

\* Bound: one type, and `expect' beside `select' only.
TypeSets == {{t} : t \in Types} \cup {None}
Next ==
  \/ \E select, expect \in TypeSets : NextToken(select, None, expect)
  \/ \E unselect \in TypeSets \ {None} : NextToken(None, unselect, None)
  \/ \E t \in Types : SetConfig("ignored", t, TRUE) \/ \E v \in BOOLEAN : SetConfig("skipped", t, v)
  \/ Revert \/ Save \/ Load

Spec == Init /\ [][Next]_vars

-------------------------------------------------------------------------------
\* A loop over the tokens comes to an end: where one rule can be empty, and gives strings,
\* there is never a second token without the text moving on (tokenizer.py:320-330).
EmptyRules == {i \in DOMAIN rules : 0 \in {rules[i].takes[p] : p \in 1 .. Size}}
OneEmpty == Cardinality(EmptyRules) <= 1 /\ \A i \in EmptyRules : rules[i].strings
TokensMoveOn == OneEmpty => still <= 1 /\ outcome # "RecursionError"

\* A checkpoint is what was saved, whatever is set afterwards, until it is loaded: from
\* then on the tokenizer changes it, and a second load gets the changes
\* (tokenizer.py:181-196).
CheckpointIsKept == saved # None /\ ~loaded => config[saved.ref] = saved.config

\* `with' blocks leave nothing behind, unless a checkpoint is loaded in one.
ScopesLeaveNothing == scopes = <<>> /\ ~loaded => config[ref] = Unset

\* The inductive invariant.  After one empty token the rule is not taken again; until a
\* checkpoint is loaded only the first object is used, and what no open block has set is
\* not set: the first block to set something found nothing.
Flags == {TRUE, FALSE, None}
Scopes == [ref : Nat, kind : Kinds, type : Types, old : Flags]
MovesOn ==
  /\ pos \in 0 .. Size /\ (saved # None => saved.pos \in 0 .. Size)
  /\ still \in 0 .. 1 /\ (still = 1 => once \in EmptyRules)
  /\ outcome # "RecursionError"
Sets(i, kind, type) == scopes[i].kind = kind /\ scopes[i].type = type
First(i, kind, type) == Sets(i, kind, type) /\ \A j \in 1 .. i - 1 : ~Sets(j, kind, type)
FoundNothing ==
  \A kind \in Kinds, type \in Types :
    /\ (\A i \in DOMAIN scopes : ~Sets(i, kind, type)) => config[1][kind][type] = None
    /\ \A i \in DOMAIN scopes : First(i, kind, type) => scopes[i].old = None
IInv ==
  /\ rules \in RuleSets /\ config \in Seq([Kinds -> [Types -> Flags]]) /\ scopes \in Seq(Scopes)
  /\ 1 \in DOMAIN config /\ ref \in DOMAIN config
  /\ (saved # None => saved.ref \in DOMAIN config) /\ \A i \in DOMAIN scopes : scopes[i].ref \in DOMAIN config
  /\ OneEmpty => MovesOn
  /\ ~loaded => /\ ref = 1 /\ \A i \in DOMAIN scopes : scopes[i].ref = 1
                /\ saved # None => saved.ref # 1 /\ config[saved.ref] = saved.config
                /\ FoundNothing
===============================================================================
