--------------------------- MODULE SigmaConditions ---------------------------
(***************************************************************************)
(* The condition of a Sigma rule: compileCondition of                       *)
(* src/src/engine/sigma.js, a parser by recursive descent that returns a    *)
(* matcher or refuses the rule.  A matcher is the set of events it accepts, *)
(* and an event the set of selections it satisfies.  `text` is what an      *)
(* analyst has typed into the rule editor, which lints it as it grows.      *)
(***************************************************************************)
EXTENDS Integers, Sequences

CONSTANTS
  Selections,   \* names of the rule's selections
  Private,      \* those that begin with an underscore
  Patterns,     \* a wildcard -> the selections it matches
  Inherited,    \* names every JavaScript object answers to
  MaxTokens     \* bound on the length of a text

ASSUME ConditionsAssumption ==
  /\ Private \subseteq Selections
  /\ \A p \in DOMAIN Patterns : Patterns[p] \subseteq Selections
  /\ "end" \notin Selections \cup DOMAIN Patterns \cup Inherited  \* stands for undefined

VARIABLE text

Events == SUBSET Selections
Operators == {"(", ")", "and", "or", "not", "1", "any", "all", "of", "them"}
Quantifiers == {"1", "any", "all"}
Sorts == {"or", "and", "not", "primary"}
Tokens == Operators \cup Selections \cup DOMAIN Patterns \cup Inherited

\* pick: what a quantifier ranges over.
Pick(pat) ==
  IF pat = "them" THEN Selections \ Private
  ELSE IF pat \in DOMAIN Patterns THEN Patterns[pat] ELSE {pat} \cap Selections

Satisfying(name) == {e \in Events : name \in e}
Quantified(q, S) == {e \in Events : IF q = "all" THEN S \subseteq e ELSE S \cap e # {}}

-----------------------------------------------------------------------------
(* The parser. *)

\* What a parse function returns: the matcher and the next token, or that it threw Unsupported.
Parsed(sat, next) == [ok |-> TRUE, sat |-> sat, next |-> next]
Unsupported == [ok |-> FALSE, sat |-> {}, next |-> 0]

TokenAt(toks, i) == IF i \in DOMAIN toks THEN toks[i] ELSE "end"

\* Seeded fault: "and" and "or" bind alike, from the left.
Descend_OneLevel(toks) ==
  LET parse[f \in {"or", "primary"}, i \in 1 .. Len(toks) + 2] ==
        IF f = "primary"
        THEN CASE TokenAt(toks, i) = "(" ->
                    LET inner == parse["or", i + 1] IN
                    IF inner.ok /\ TokenAt(toks, inner.next) = ")"
                    THEN Parsed(inner.sat, inner.next + 1) ELSE Unsupported
               [] TokenAt(toks, i) = "not" ->
                    LET inner == parse["primary", i + 1] IN
                    IF inner.ok THEN Parsed(Events \ inner.sat, inner.next) ELSE Unsupported
               [] TokenAt(toks, i) \in Selections -> Parsed(Satisfying(toks[i]), i + 1)
               [] OTHER -> Unsupported
        ELSE LET left == parse["primary", i]
                 right == IF left.ok /\ TokenAt(toks, left.next) \in {"or", "and"}
                          THEN parse["or", left.next + 1] ELSE Unsupported IN
             IF ~left.ok \/ TokenAt(toks, left.next) \notin {"or", "and"} THEN left
             ELSE IF ~right.ok THEN Unsupported
             ELSE Parsed(IF toks[left.next] = "or" THEN left.sat \cup right.sat ELSE left.sat \cap right.sat, right.next)
  IN parse["or", 1]

\* orExpr and andExpr, whose loops are the recursion to the right.
Chain(toks, parse, op, sub, i) ==
  LET left == parse[<<sub, i>>]
      right == IF left.ok /\ TokenAt(toks, left.next) = op THEN parse[<<op, left.next + 1>>] ELSE Unsupported IN
  IF ~left.ok \/ TokenAt(toks, left.next) # op THEN left
  ELSE IF right.ok
  THEN Parsed(IF op = "or" THEN left.sat \cup right.sat ELSE left.sat \cap right.sat, right.next)
  ELSE Unsupported

NotExpr(toks, parse, i) ==
  IF TokenAt(toks, i) # "not" THEN parse[<<"primary", i>>]
  ELSE LET inner == parse[<<"not", i + 1>>] IN
       IF inner.ok THEN Parsed(Events \ inner.sat, inner.next) ELSE Unsupported

Primary(toks, parse, i) ==
  LET t == TokenAt(toks, i) IN
  IF t = "("
  THEN LET inner == parse[<<"or", i + 1>>] IN
       IF inner.ok /\ TokenAt(toks, inner.next) = ")" THEN Parsed(inner.sat, inner.next + 1) ELSE Unsupported
  ELSE IF t \in Quantifiers /\ TokenAt(toks, i + 1) = "of"
  THEN LET S == Pick(TokenAt(toks, i + 2)) IN
       IF S # {} THEN Parsed(Quantified(t, S), i + 3) ELSE Unsupported
  ELSE IF t \in Selections THEN Parsed(Satisfying(t), i + 1)
  \* sels[t] finds what the object inherits, a function that accepts any event
  ELSE IF t \in Inherited THEN Parsed(Events, i + 1) ELSE Unsupported

\* What parse function d[1] returns from token d[2].
Descent(toks, parse, d) ==
  CASE d[1] = "or" -> Chain(toks, parse, "or", "and", d[2])
    [] d[1] = "and" -> Chain(toks, parse, "and", "not", d[2])
    [] d[1] = "not" -> NotExpr(toks, parse, d[2])
    [] d[1] = "primary" -> Primary(toks, parse, d[2])

ParseCalls(toks) == Sorts \X (1 .. Len(toks) + 2)

Descend(toks) ==
  LET parse[d \in ParseCalls(toks)] == Descent(toks, parse, d)
  IN parse[<<"or", 1>>]

\* compileCondition: the parser, which must have used every token.
Compile(toks) ==
  LET p == Descend(toks) IN
  IF p.ok /\ p.next = Len(toks) + 1 THEN p ELSE Unsupported

-----------------------------------------------------------------------------
(* The language, as a grammar: the meanings of the tokens from i to j. *)

Rule(toks, means, sort, i, j) ==
  CASE sort = "or" ->
         means[<<"and", i, j>>] \cup
         UNION {{l \cup r : l \in means[<<"or", i, k - 1>>], r \in means[<<"and", k + 1, j>>]} :
                k \in {k \in i + 1 .. j - 1 : toks[k] = "or"}}
    [] sort = "and" ->
         means[<<"not", i, j>>] \cup
         UNION {{l \cap r : l \in means[<<"and", i, k - 1>>], r \in means[<<"not", k + 1, j>>]} :
                k \in {k \in i + 1 .. j - 1 : toks[k] = "and"}}
    [] sort = "not" ->
         means[<<"primary", i, j>>] \cup
         (IF toks[i] = "not" /\ i < j THEN {Events \ m : m \in means[<<"not", i + 1, j>>]} ELSE {})
    [] sort = "primary" ->
         IF i = j /\ toks[i] \in Selections THEN {Satisfying(toks[i])}
         ELSE IF j > i + 1 /\ toks[i] = "(" /\ toks[j] = ")" THEN means[<<"or", i + 1, j - 1>>]
         ELSE IF j = i + 2 /\ toks[i] \in Quantifiers /\ toks[i + 1] = "of" /\ Pick(toks[j]) # {}
         THEN {Quantified(toks[i], Pick(toks[j]))} ELSE {}

Phrases(toks) == Sorts \X (1 .. Len(toks)) \X (1 .. Len(toks))

Meanings(toks) ==
  LET means[d \in Phrases(toks)] == IF d[2] =< d[3] THEN Rule(toks, means, d[1], d[2], d[3]) ELSE {}
  IN IF toks = <<>> THEN {} ELSE means[<<"or", 1, Len(toks)>>]

-----------------------------------------------------------------------------
(* The editor. *)

Ends == Selections \cup DOMAIN Patterns \cup Inherited \cup {")", "them"}
MayFollow(t) ==
  CASE t \in Quantifiers -> {"of"}
    [] t = "of" -> DOMAIN Patterns \cup {"them"}
    [] t \in Ends -> {")", "and", "or"}
    [] OTHER -> {"(", "not"} \cup Quantifiers \cup Selections \cup Inherited

\* One more token (bound: a text that has gone wrong is not continued).
TypeToken ==
  /\ Len(text) < MaxTokens
  /\ \A i \in DOMAIN text : i > 1 => text[i] \in MayFollow(text[i - 1])
  /\ \E t \in Tokens : text' = Append(text, t)

ConditionsInit == text = <<>>

ConditionsSpec == ConditionsInit /\ [][TypeToken]_text

-----------------------------------------------------------------------------
\* A condition that the language gives a meaning compiles to that meaning, the only one it has, and any
\* other is refused, "not guessed at" (sigma.js, lines 11-14).  Excepted are texts that name what every
\* object inherits.
ConditionIsMeant ==
  LET p == Compile(text) IN
  {text[i] : i \in DOMAIN text} \cap Inherited = {} =>
    Meanings(text) = IF p.ok THEN {p.sat} ELSE {}
=============================================================================
