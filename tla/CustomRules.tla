----------------------------- MODULE CustomRules -----------------------------
(***************************************************************************)
(* Sigma rules written by analysts: saveCustom and deleteCustom of          *)
(* src/src/workbench.js, the cache and the hit counters of CustomRules in   *)
(* src/src/engine/customrules.js, and their run over every ingested batch   *)
(* (runSigma of src/src/routes.js, scanWith of src/src/engine/sigma.js).    *)
(***************************************************************************)
EXTENDS Requests, Functions, SigmaConditions

CONSTANTS
  RuleIds,    \* ids of rules (a bound)
  Sources,    \* what analysts write: [cond, target]
  Lines,      \* log lines: [satisfies, targets]
  MaxHits     \* bound on the lines a rule has matched

Set == "custom_rules"

ASSUME CustomRulesAssumption ==
  /\ None \notin RuleIds \cup {Set} \cup Nat
  /\ Set \notin RuleIds
  /\ \A s \in Sources : s.cond \in Seq(Tokens)
  /\ IsFiniteSet(Lines)

VARIABLES
  rules,      \* the collection custom_rules: id -> [source, enabled, hits], absent ones not in its domain
  compiled,   \* CustomRules.cache: id -> source with whether it is fresh (under 30 s), or None
  used,       \* history: ids drawn so far
  fired       \* history: lines each rule has matched, as far as counted

customVars == <<rules, compiled, used, fired, requestVars>>

\* lintRule: what does not compile is not stored.
Lints(source) == Compile(source.cond).ok

\* saveCustom of a new rule ...
StartCreate(w) ==
  /\ Idle(w)
  /\ \E r \in RuleIds \ used, s \in Sources, b \in BOOLEAN :
       /\ Lints(s)
       /\ used' = used \cup {r}
       /\ Continue(w, Job("write_rule", Set, [rule |-> r, patch |-> [source |-> s, enabled |-> b, hits |-> 0], new |-> TRUE]))
  /\ UNCHANGED <<rules, compiled, fired>>

\* ... or of one there is: with a new source or the one just read, and switched or as it is.
StartEdit(w) ==
  /\ Idle(w)
  /\ \E r \in DOMAIN rules, b \in BOOLEAN :
       \E s \in {s \in Sources : Lints(s)} :
         \E patch \in {[source |-> s], [source |-> s, enabled |-> b], [source |-> rules[r].source, enabled |-> b]} :
           Continue(w, Job("write_rule", Set, [rule |-> r, patch |-> patch, new |-> FALSE]))
  /\ UNCHANGED <<rules, compiled, used, fired>>

\* The row is written, if it is new or still there ...
WriteRule(w) ==
  LET j == job[w] IN
  /\ At(w, "write_rule")
  /\ rules' = IF j.new THEN Patched(rules, [x \in {j.rule} |-> j.patch])
              ELSE IF j.rule \in DOMAIN rules THEN [rules EXCEPT ![j.rule] = Patched(@, j.patch)] ELSE rules
  /\ Continue(w, [j EXCEPT !.pc = "invalidate"])
  /\ UNCHANGED <<compiled, used, fired>>

\* ... and, once it is on record, the cache dropped.
Invalidate(w) ==
  /\ At(w, "invalidate")
  /\ compiled' = None
  /\ Done(w)
  /\ UNCHANGED <<rules, used, fired>>

\* deleteCustom reads the rule ...
StartDeleteRule(w) ==
  /\ Idle(w)
  /\ \E r \in DOMAIN rules : Continue(w, Job("remove_rule", Set, [rule |-> r, patch |-> <<>>, new |-> FALSE]))
  /\ UNCHANGED <<rules, compiled, used, fired>>

\* Seeded fault: a rule that is removed stays in the cache.
RemoveRule_KeepsCache(w) ==
  /\ At(w, "remove_rule")
  /\ rules' = Restrict(rules, DOMAIN rules \ {job[w].rule})
  /\ Done(w)
  /\ UNCHANGED <<compiled, used, fired>>

\* ... and removes it.
RemoveRule(w) ==
  /\ At(w, "remove_rule")
  /\ rules' = Restrict(rules, DOMAIN rules \ {job[w].rule})
  /\ Continue(w, [job[w] EXCEPT !.pc = "invalidate"])
  /\ UNCHANGED <<compiled, used, fired>>

-----------------------------------------------------------------------------
(* Running them. *)

Enabled == [r \in {r \in DOMAIN rules : rules[r].enabled} |-> rules[r].source]

\* scanWith: the lines a rule matches.
MatchedBy(source, batch) ==
  LET sat == Compile(source.cond).sat IN
  {l \in batch : source.target \in l.targets /\ l.satisfies \in sat}

\* runSigma after the scan: alerts are landed (Intake), then the hits are counted rule by rule.  A hunt
\* or a dry run, which are scans of no new line, are done.
CountNext(w, hits) ==
  IF DOMAIN hits = {} THEN Done(w)
  ELSE \E r \in DOMAIN hits : Continue(w, Job("read_hits", r, [hits |-> hits]))

Scanned(w, set, batch) ==
  CountNext(w, [r \in {r \in DOMAIN set : MatchedBy(set[r], batch) # {}} |-> MatchedBy(set[r], batch)])

Cached == IF compiled = None THEN FALSE ELSE compiled.fresh

\* CustomRules.compiled with a cache ...
ScanCached(w) ==
  /\ Idle(w)
  /\ Cached
  /\ \E batch \in SUBSET Lines : Scanned(w, compiled.set, batch)
  /\ UNCHANGED <<rules, compiled, used, fired>>

\* ... and without one: the enabled rules are listed ...
ListRules(w) ==
  /\ Idle(w)
  /\ ~Cached
  /\ \E batch \in SUBSET Lines : Continue(w, Job("compile", Set, [set |-> Enabled, batch |-> batch]))
  /\ UNCHANGED <<rules, compiled, used, fired>>

\* ... compiled and cached.
CompileRules(w) ==
  /\ At(w, "compile")
  /\ compiled' = [set |-> job[w].set, fresh |-> TRUE]
  /\ Scanned(w, job[w].set, job[w].batch)
  /\ UNCHANGED <<rules, used, fired>>

\* Thirty seconds pass.
CacheAges ==
  /\ Cached
  /\ compiled' = [compiled EXCEPT !.fresh = FALSE]
  /\ UNCHANGED <<rules, used, fired, requestVars>>

\* recordHits reads the row ...
ReadHits(w) ==
  LET j == job[w] IN
  /\ At(w, "read_hits")
  /\ Continue(w, Job("write_hits", j.on, [hits |-> j.hits, was |-> IF j.on \in DOMAIN rules THEN rules[j.on].hits ELSE None]))
  /\ UNCHANGED <<rules, compiled, used, fired>>

\* ... and writes its count plus the lines that matched, then goes on with the next rule.
WriteHits(w) ==
  LET j == job[w]
      rest == DOMAIN j.hits \ {j.on}
      n == Cardinality(j.hits[j.on]) IN
  /\ At(w, "write_hits") /\ fired[j.on] + n =< MaxHits
  /\ rules' = IF j.was # None /\ j.on \in DOMAIN rules THEN [rules EXCEPT ![j.on].hits = j.was + n] ELSE rules
  /\ fired' = [fired EXCEPT ![j.on] = @ + n]
  /\ CountNext(w, Restrict(j.hits, rest))
  /\ UNCHANGED <<compiled, used>>

CustomInit ==
  /\ rules = <<>> /\ compiled = None
  /\ used = {}
  /\ fired = [r \in RuleIds |-> 0]

CustomNext ==
  \/ CacheAges
  \/ \E w \in Workers :
       \/ StartCreate(w) \/ StartEdit(w) \/ WriteRule(w) \/ Invalidate(w) \/ StartDeleteRule(w) \/ RemoveRule(w)
       \/ ScanCached(w) \/ ListRules(w) \/ CompileRules(w) \/ ReadHits(w) \/ WriteHits(w)

CustomSpec == RequestsInit /\ CustomInit /\ [][CustomNext]_customVars

-----------------------------------------------------------------------------
\* The rules that run are the enabled ones as they are stored: no scan uses an edit, a switch or a removal
\* too late, from the moment its request is answered (invalidate); and a rule counts every line it has
\* matched, also while it is edited (recordHits).  Excepted are caches filled and rows counted by two requests
\* that met on them.
RulesRunAsStored ==
  /\ Cached /\ Set \notin crowded /\ ~Served(Set) => compiled.set = Enabled
  /\ \A r \in DOMAIN rules : r \notin crowded /\ ~Served(r) => rules[r].hits = fired[r]
=============================================================================
