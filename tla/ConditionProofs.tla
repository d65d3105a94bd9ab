--------------------------- MODULE ConditionProofs ---------------------------
(***************************************************************************)
(* The conditions of Sigma rules, for every rule and texts of every length: *)
(* what compileCondition makes of a text is what the text means.  A         *)
(* definition by recursion is first shown to have a solution; then the      *)
(* grammar, which joins operands to the left, is shown to mean the same     *)
(* when they are joined to the right, as the parser does; and then, down    *)
(* from the end of the text, every parse function to return a meaning of    *)
(* what it has read (Sound) and the only one (Full).                        *)
(***************************************************************************)
EXTENDS SigmaConditions, WellFoundedInduction, TLAPS

-----------------------------------------------------------------------------
(* Definitions by recursion. *)

LEMMA LeastNatural ==
  ASSUME NEW S \in SUBSET Nat, S # {}
  PROVE  \E x \in S : \A y \in S : x <= y
<1>1. PICK x \in S : \A y \in S : ~(<<y, x>> \in OpToRel(<, Nat))
  BY NatLessThanWellFounded, WFMin
<1>2. \A y \in S : ~(y < x)
  BY <1>1 DEF OpToRel
<1> QED BY <1>2

LEMMA Predecessor ==
  \A i \in Nat : i # 0 => i - 1 \in Nat /\ ~(i =< i - 1) /\ i - 1 + 1 = i
  OBVIOUS

\* A definition by recursion, whose every call goes down in rank: step makes of a function p the function
\* of the same calls that p's values determine.
Recursion(D, rank, top, P, first, step) ==
  /\ rank \in [D -> Nat] /\ top \in Nat /\ \A d \in D : rank[d] =< top
  /\ first \in P /\ \A p \in P : DOMAIN p = D /\ p = [d \in D |-> p[d]]
  /\ step \in [P -> P]
  /\ \A p, q \in P, d \in D : (\A e \in D : rank[e] < rank[d] => p[e] = q[e]) => step[p][d] = step[q][d]
Determined(D, rank, p, q) ==
  /\ rank \in [D -> Nat]
  /\ \A d \in D : (\A e \in D : rank[e] < rank[d] => p[e] = q[e]) => p[d] = q[d]

\* A definition by recursion whose every call goes down in rank has a solution: step what is right up to a
\* rank is right one rank higher.
LEMMA RecursionEnds ==
  ASSUME NEW D, NEW rank, NEW top, NEW P, NEW first, NEW step, Recursion(D, rank, top, P, first, step)
  PROVE  \E p \in P : p = step[p]
<1> USE DEF Recursion
<1> DEFINE Right(m, p) == \A d \in D : rank[d] < m => p[d] = step[p][d]
           Wrong == {m \in Nat : \A p \in P : ~Right(m, p)}
<1>0. \A i \in Nat : i # 0 => i - 1 \in Nat /\ ~(i =< i - 1) /\ i - 1 + 1 = i
  BY Predecessor
<1>1. \A p \in P : Right(0, p)
  OBVIOUS
<1>2. ASSUME NEW m \in Nat, NEW p \in P, Right(m, p) PROVE Right(m + 1, step[p])
  <2>1. PICK q : q = step[p] /\ q \in P
    OBVIOUS
  <2>2. ASSUME NEW d \in D, rank[d] < m + 1 PROVE q[d] = step[q][d]
    <3>1. ASSUME NEW e \in D, rank[e] < rank[d] PROVE p[e] = q[e]
      <4>1. rank[e] < m
        BY <2>2, <3>1
      <4> QED BY <1>2, <2>1, <4>1
    <3>2. step[p][d] = step[q][d]
      BY <2>1, <3>1
    <3> QED BY <2>1, <3>2
  <2> QED BY <2>1, <2>2
<1> HIDE DEF Right
<1>3. ASSUME Wrong # {} PROVE FALSE
  <2>1. PICK m \in Wrong : \A x \in Wrong : m =< x
    <3>1. Wrong \in SUBSET Nat
      OBVIOUS
    <3> HIDE DEF Wrong
    <3> QED BY <1>3, <3>1, LeastNatural
  <2>1a. m \in Nat
    BY <2>1
  <2>2. m # 0
    BY <1>1, <2>1
  <2>3. m - 1 \in Nat /\ ~(m =< m - 1) /\ m - 1 + 1 = m
    BY <1>0, <2>1a, <2>2
  <2>4. PICK p \in P : Right(m - 1, p)
    BY <2>1, <2>3
  <2>5. Right(m, step[p])
    BY <1>2, <2>3, <2>4
  <2> QED BY <2>5
<1>4. PICK p \in P : Right(top + 1, p)
  <2>1. top + 1 \in Nat
    OBVIOUS
  <2> QED BY <1>3, <2>1
<1>5. \A d \in D : p[d] = step[p][d]
  BY <1>4 DEF Right
<1>6. step[p] \in P
  OBVIOUS
<1>7. p = step[p]
  <2>1. p = [d \in D |-> p[d]] /\ step[p] = [d \in D |-> step[p][d]]
    BY <1>6
  <2> QED BY <1>5, <2>1
<1> QED BY <1>7

\* And no other.
LEMMA RecursionAgrees ==
  ASSUME NEW D, NEW rank, NEW p, NEW q, Determined(D, rank, p, q)
  PROVE  \A d \in D : p[d] = q[d]
<1> USE DEF Determined
<1> DEFINE Ranks == {rank[d] : d \in {d \in D : p[d] # q[d]}}
<1>1. ASSUME Ranks # {} PROVE FALSE
  <2>1. Ranks \in SUBSET Nat
    OBVIOUS
  <2>2. PICK r \in Ranks : \A x \in Ranks : r =< x
    <3> HIDE DEF Ranks
    <3> QED BY <1>1, <2>1, LeastNatural
  <2>3. PICK d \in D : p[d] # q[d] /\ rank[d] = r
    BY <2>2
  <2>4. ASSUME NEW e \in D, rank[e] < rank[d], p[e] # q[e] PROVE FALSE
    <3>1. rank[e] \in Ranks
      BY <2>4
    <3>2. r =< rank[e] /\ rank[e] \in Nat /\ rank[d] \in Nat
      BY <2>2, <3>1
    <3> HIDE DEF Ranks
    <3> QED BY <2>3, <2>4, <3>2
  <2> HIDE DEF Ranks
  <2> QED BY <2>3, <2>4
<1> QED BY <1>1

\* Induction on a number up to n.
LEMMA UpTo ==
  ASSUME NEW n \in Nat, NEW Good, \A m \in 0 .. n : (\A k \in 0 .. n : k < m => k \in Good) => m \in Good
  PROVE  \A m \in 0 .. n : m \in Good
<1> DEFINE Bad == {m \in 0 .. n : m \notin Good}
<1>1. ASSUME Bad # {} PROVE FALSE
  <2>1. Bad \in SUBSET Nat
    OBVIOUS
  <2>2. PICK m \in Bad : \A x \in Bad : m =< x
    <3> HIDE DEF Bad
    <3> QED BY <1>1, <2>1, LeastNatural
  <2>3. m \in 0 .. n /\ m \notin Good
    BY <2>2
  <2>4. ASSUME NEW k \in 0 .. n, k < m, k \notin Good PROVE FALSE
    <3>1. k \in Bad
      BY <2>4
    <3>2. m =< k
      BY <2>2, <3>1
    <3> QED BY <2>3, <2>4, <3>2
  <2> QED BY <2>3, <2>4
<1> QED BY <1>1

-----------------------------------------------------------------------------
(* The conditions of Sigma rules: the parser. *)

\* What a parse function may return, the functions that return it beyond the token they start from, and how
\* far from the end of the descent a call is.
Outcome == [ok : BOOLEAN, sat : SUBSET Events, next : Nat]
Parsings(toks) == {p \in [ParseCalls(toks) -> Outcome] : \A d \in ParseCalls(toks) : p[d].ok => d[2] < p[d].next}
Level(f) == CASE f = "or" -> 3 [] f = "and" -> 2 [] f = "not" -> 1 [] f = "primary" -> 0
Depth(toks, d) == 4 * (Len(toks) + 2 - d[2]) + Level(d[1])

LEMMA TokenIsThere ==
  ASSUME NEW toks \in Seq(Tokens), NEW i \in Nat
  PROVE  /\ TokenAt(toks, i) # "end" => i \in 1 .. Len(toks)
         /\ i \in 1 .. Len(toks) => TokenAt(toks, i) = toks[i]
         /\ i \notin 1 .. Len(toks) => TokenAt(toks, i) = "end"
  BY DEF TokenAt

LEMMA ParsedFields ==
  ASSUME NEW sat, NEW next
  PROVE  Parsed(sat, next).ok /\ Parsed(sat, next).sat = sat /\ Parsed(sat, next).next = next
  BY DEF Parsed

LEMMA ParsedIsOutcome ==
  /\ \A sat \in SUBSET Events, next \in Nat : Parsed(sat, next) \in Outcome
  /\ Unsupported \in Outcome /\ ~Unsupported.ok
  BY DEF Parsed, Unsupported, Outcome

LEMMA MatchersAreSets ==
  /\ \A t : Satisfying(t) \in SUBSET Events
  /\ \A q, S : Quantified(q, S) \in SUBSET Events
  BY DEF Satisfying, Quantified

\* A call of a parser, and what it returns.
LEMMA CallReturns ==
  ASSUME NEW toks \in Seq(Tokens), NEW p \in Parsings(toks), NEW f \in Sorts, NEW i \in 1 .. Len(toks) + 2
  PROVE  /\ <<f, i>> \in ParseCalls(toks)
         /\ p[<<f, i>>] \in Outcome
         /\ p[<<f, i>>].sat \in SUBSET Events
         /\ p[<<f, i>>].next \in Nat
         /\ p[<<f, i>>].ok => i < p[<<f, i>>].next
<1>1. <<f, i>> \in ParseCalls(toks)
  BY DEF ParseCalls
<1>2. p[<<f, i>>] \in Outcome
  BY <1>1 DEF Parsings
<1>3. p[<<f, i>>].ok => i < p[<<f, i>>].next
  <2>1. PICK d : d = <<f, i>>
    OBVIOUS
  <2>2. p[d].ok => d[2] < p[d].next
    BY <1>1, <2>1 DEF Parsings
  <2>3. d[2] = i
    BY <2>1
  <2> QED BY <2>1, <2>2, <2>3
<1>4. p[<<f, i>>].sat \in SUBSET Events /\ p[<<f, i>>].next \in Nat
  BY <1>2 DEF Outcome
<1> QED BY <1>1, <1>2, <1>3, <1>4

LEMMA ChainReturns ==
  ASSUME NEW toks \in Seq(Tokens), NEW p \in Parsings(toks), NEW op \in {"or", "and"}, NEW sub \in Sorts,
         NEW i \in 1 .. Len(toks) + 2
  PROVE  /\ Chain(toks, p, op, sub, i) \in Outcome
         /\ Chain(toks, p, op, sub, i).ok => i < Chain(toks, p, op, sub, i).next
<1>1. PICK left : left = p[<<sub, i>>]
  OBVIOUS
<1>2. left \in Outcome /\ left.sat \in SUBSET Events /\ left.next \in Nat /\ (left.ok => i < left.next)
  BY <1>1, CallReturns
<1>3. CASE ~left.ok \/ TokenAt(toks, left.next) # op
  <2>1. Chain(toks, p, op, sub, i) = left
    BY <1>1, <1>3 DEF Chain
  <2> QED BY <1>2, <2>1
<1>4. CASE left.ok /\ TokenAt(toks, left.next) = op
  <2>1. op # "end" /\ op \in Sorts
    BY DEF Sorts
  <2>2. left.next \in 1 .. Len(toks)
    BY <1>2, <1>4, <2>1, TokenIsThere
  <2>3. left.next + 1 \in 1 .. Len(toks) + 2 /\ i < left.next + 1
    BY <1>2, <1>4, <2>2
  <2>4. PICK right : right = p[<<op, left.next + 1>>]
    OBVIOUS
  <2>5. right \in Outcome /\ right.sat \in SUBSET Events /\ right.next \in Nat /\ (right.ok => left.next + 1 < right.next)
    BY <2>1, <2>3, <2>4, CallReturns
  <2>6. Chain(toks, p, op, sub, i) =
          IF right.ok
          THEN Parsed(IF op = "or" THEN left.sat \cup right.sat ELSE left.sat \cap right.sat, right.next)
          ELSE Unsupported
    BY <1>1, <1>4, <2>4 DEF Chain
  <2>7. (IF op = "or" THEN left.sat \cup right.sat ELSE left.sat \cap right.sat) \in SUBSET Events
    BY <1>2, <2>5
  <2>8. CASE right.ok
    <3>1. i < right.next
      BY <2>3, <2>5, <2>8
    <3>2. PICK sat \in SUBSET Events : Chain(toks, p, op, sub, i) = Parsed(sat, right.next)
      BY <2>6, <2>7, <2>8
    <3> QED BY <2>5, <3>1, <3>2, ParsedIsOutcome, ParsedFields
  <2>9. CASE ~right.ok
    BY <2>6, <2>9, ParsedIsOutcome
  <2> QED BY <2>8, <2>9
<1> QED BY <1>3, <1>4

LEMMA NotReturns ==
  ASSUME NEW toks \in Seq(Tokens), NEW p \in Parsings(toks), NEW i \in 1 .. Len(toks) + 2
  PROVE  NotExpr(toks, p, i) \in Outcome /\ (NotExpr(toks, p, i).ok => i < NotExpr(toks, p, i).next)
<1>1. CASE TokenAt(toks, i) # "not"
  <2>1. NotExpr(toks, p, i) = p[<<"primary", i>>] /\ "primary" \in Sorts
    BY <1>1 DEF NotExpr, Sorts
  <2> QED BY <2>1, CallReturns
<1>2. CASE TokenAt(toks, i) = "not"
  <2>1. i + 1 \in 1 .. Len(toks) + 2 /\ "not" \in Sorts /\ i < i + 1
    BY <1>2, TokenIsThere DEF Sorts
  <2>2. PICK inner : inner = p[<<"not", i + 1>>]
    OBVIOUS
  <2>3. inner.next \in Nat /\ (inner.ok => i < inner.next)
    BY <2>1, <2>2, CallReturns
  <2>4. NotExpr(toks, p, i) = IF inner.ok THEN Parsed(Events \ inner.sat, inner.next) ELSE Unsupported
    BY <1>2, <2>2 DEF NotExpr
  <2>5. Events \ inner.sat \in SUBSET Events
    OBVIOUS
  <2> QED BY <2>3, <2>4, <2>5, ParsedIsOutcome, ParsedFields
<1> QED BY <1>1, <1>2

LEMMA PrimaryReturns ==
  ASSUME NEW toks \in Seq(Tokens), NEW p \in Parsings(toks), NEW i \in 1 .. Len(toks) + 2
  PROVE  Primary(toks, p, i) \in Outcome /\ (Primary(toks, p, i).ok => i < Primary(toks, p, i).next)
<1>1. i + 1 \in Nat /\ i + 3 \in Nat /\ i < i + 1 /\ i < i + 3
  OBVIOUS
<1>2. CASE TokenAt(toks, i) = "("
  <2>1. i + 1 \in 1 .. Len(toks) + 2 /\ "or" \in Sorts /\ i < i + 1
    BY <1>2, TokenIsThere DEF Sorts
  <2>2. PICK inner : inner = p[<<"or", i + 1>>]
    OBVIOUS
  <2>3a. inner.next \in Nat /\ (inner.ok => i + 1 < inner.next) /\ inner.sat \in SUBSET Events
    BY <2>1, <2>2, CallReturns
  <2>3. (inner.ok => i < inner.next + 1) /\ inner.next + 1 \in Nat
    BY <2>3a
  <2>4. Primary(toks, p, i) = Unsupported \/ (inner.ok /\ Primary(toks, p, i) = Parsed(inner.sat, inner.next + 1))
    BY <1>2, <2>2 DEF Primary
  <2> QED BY <2>3a, <2>3, <2>4, ParsedIsOutcome, ParsedFields
<1>3. CASE TokenAt(toks, i) # "("
  <2>1. \/ Primary(toks, p, i) = Unsupported
        \/ \E q, S : Primary(toks, p, i) = Parsed(Quantified(q, S), i + 3)
        \/ \E t : Primary(toks, p, i) = Parsed(Satisfying(t), i + 1)
        \/ Primary(toks, p, i) = Parsed(Events, i + 1)
    BY <1>3, Zenon DEF Primary
  <2>2. ASSUME NEW sat \in SUBSET Events, NEW next \in Nat, i < next, Primary(toks, p, i) = Parsed(sat, next)
        PROVE  Primary(toks, p, i) \in Outcome /\ i < Primary(toks, p, i).next
    BY <2>2, ParsedIsOutcome, ParsedFields
  <2>3. Events \in SUBSET Events
    OBVIOUS
  <2>4. CASE Primary(toks, p, i) = Unsupported
    BY <2>4, ParsedIsOutcome
  <2>5. CASE \E q, S : Primary(toks, p, i) = Parsed(Quantified(q, S), i + 3)
    BY <1>1, <2>2, <2>5, MatchersAreSets, Zenon
  <2>6. CASE \E t : Primary(toks, p, i) = Parsed(Satisfying(t), i + 1)
    BY <1>1, <2>2, <2>6, MatchersAreSets, Zenon
  <2>7. CASE Primary(toks, p, i) = Parsed(Events, i + 1)
    BY <1>1, <2>2, <2>3, <2>7, Zenon
  <2> QED BY <2>1, <2>4, <2>5, <2>6, <2>7, Zenon
<1> QED BY <1>2, <1>3

LEMMA DescentReturns ==
  ASSUME NEW toks \in Seq(Tokens), NEW p \in Parsings(toks), NEW d \in ParseCalls(toks)
  PROVE  Descent(toks, p, d) \in Outcome /\ (Descent(toks, p, d).ok => d[2] < Descent(toks, p, d).next)
<1>1. d[1] \in Sorts /\ d[2] \in 1 .. Len(toks) + 2
  BY DEF ParseCalls
<1>2. CASE d[1] = "or"
  <2>1. Descent(toks, p, d) = Chain(toks, p, "or", "and", d[2]) /\ "and" \in Sorts
    BY <1>2 DEF Descent, Sorts
  <2> QED BY <1>1, <2>1, ChainReturns
<1>3. CASE d[1] = "and"
  <2>1. Descent(toks, p, d) = Chain(toks, p, "and", "not", d[2]) /\ "not" \in Sorts
    BY <1>3 DEF Descent, Sorts
  <2> QED BY <1>1, <2>1, ChainReturns
<1>4. CASE d[1] = "not"
  <2>1. Descent(toks, p, d) = NotExpr(toks, p, d[2])
    BY <1>4 DEF Descent
  <2> QED BY <1>1, <2>1, NotReturns
<1>5. CASE d[1] = "primary"
  <2>1. Descent(toks, p, d) = Primary(toks, p, d[2])
    BY <1>5 DEF Descent
  <2> QED BY <1>1, <2>1, PrimaryReturns
<1> QED BY <1>1, <1>2, <1>3, <1>4, <1>5 DEF Sorts

LEMMA LevelsAre ==
  /\ Level("or") = 3 /\ Level("and") = 2 /\ Level("not") = 1 /\ Level("primary") = 0
  /\ \A f \in Sorts : Level(f) \in 0 .. 3
  BY DEF Level, Sorts

\* A call is nearer the end than another if it starts later, or at the same token on a lower level.
LEMMA DepthFalls ==
  ASSUME NEW toks \in Seq(Tokens), NEW f \in Sorts, NEW g \in Sorts,
         NEW i \in 1 .. Len(toks) + 2, NEW j \in 1 .. Len(toks) + 2
  PROVE  /\ Depth(toks, <<f, i>>) \in 0 .. 4 * Len(toks) + 8
         /\ i < j => Depth(toks, <<g, j>>) < Depth(toks, <<f, i>>)
         /\ i = j /\ Level(g) < Level(f) => Depth(toks, <<g, j>>) < Depth(toks, <<f, i>>)
<1>1. PICK n \in Nat : n = Len(toks)
  OBVIOUS
<1>2. PICK a \in 0 .. 3 : a = Level(f)
  BY LevelsAre
<1>3. PICK b \in 0 .. 3 : b = Level(g)
  BY LevelsAre
<1>4. Depth(toks, <<f, i>>) = 4 * (n + 2 - i) + a /\ Depth(toks, <<g, j>>) = 4 * (n + 2 - j) + b
  BY <1>1, <1>2, <1>3 DEF Depth
<1>5. i \in 1 .. n + 2 /\ j \in 1 .. n + 2
  BY <1>1
<1> QED BY <1>1, <1>2, <1>3, <1>4, <1>5

\* Two functions that return the same nearer the end.
AgreeBelow(toks, p, q, d) == \A e \in ParseCalls(toks) : Depth(toks, e) < Depth(toks, d) => p[e] = q[e]

Same(p, q, f, i) == p[<<f, i>>] = q[<<f, i>>]
AgreeAfter(toks, p, q, f, i) ==
  /\ \A g \in Sorts : \A j \in 1 .. Len(toks) + 2 : i < j => Same(p, q, g, j)
  /\ \A g \in Sorts : Level(g) < Level(f) => Same(p, q, g, i)

LEMMA AgreeLater ==
  ASSUME NEW toks \in Seq(Tokens), NEW p, NEW q, NEW f \in Sorts, NEW i \in 1 .. Len(toks) + 2,
         AgreeBelow(toks, p, q, <<f, i>>)
  PROVE  AgreeAfter(toks, p, q, f, i)
<1>1. \A g \in Sorts, j \in 1 .. Len(toks) + 2 : <<g, j>> \in ParseCalls(toks)
  BY DEF ParseCalls
<1>2. ASSUME NEW g \in Sorts, NEW j \in 1 .. Len(toks) + 2, i < j \/ (i = j /\ Level(g) < Level(f))
      PROVE  p[<<g, j>>] = q[<<g, j>>]
  <2>1. Depth(toks, <<g, j>>) < Depth(toks, <<f, i>>)
    BY <1>2, DepthFalls
  <2> QED BY <1>1, <2>1 DEF AgreeBelow
<1> QED BY <1>2 DEF AgreeAfter, Same

LEMMA ChainDepends ==
  ASSUME NEW toks \in Seq(Tokens), NEW p \in Parsings(toks), NEW q, NEW op \in {"or", "and"},
         NEW sub \in Sorts, Level(sub) < Level(op), NEW i \in 1 .. Len(toks) + 2, AgreeAfter(toks, p, q, op, i)
  PROVE  Chain(toks, p, op, sub, i) = Chain(toks, q, op, sub, i)
<1>1. op # "end" /\ op \in Sorts
  BY DEF Sorts
<1>2. p[<<sub, i>>] = q[<<sub, i>>]
  BY <1>1 DEF AgreeAfter, Same
<1>3. PICK left : left = p[<<sub, i>>]
  OBVIOUS
<1>4. CASE left.ok /\ TokenAt(toks, left.next) = op
  <2>1. left.next \in Nat /\ i < left.next
    BY <1>3, <1>4, CallReturns
  <2>2. left.next \in 1 .. Len(toks)
    BY <1>1, <1>4, <2>1, TokenIsThere
  <2>3. left.next + 1 \in 1 .. Len(toks) + 2 /\ i < left.next + 1
    BY <2>1, <2>2
  <2>4. p[<<op, left.next + 1>>] = q[<<op, left.next + 1>>]
    BY <1>1, <2>3 DEF AgreeAfter, Same
  <2> QED BY <1>2, <1>3, <2>4 DEF Chain
<1>5. CASE ~left.ok \/ TokenAt(toks, left.next) # op
  BY <1>2, <1>3, <1>5 DEF Chain
<1> QED BY <1>4, <1>5

LEMMA DescentDepends ==
  ASSUME NEW toks \in Seq(Tokens), NEW p \in Parsings(toks), NEW q, NEW d \in ParseCalls(toks),
         AgreeBelow(toks, p, q, d)
  PROVE  Descent(toks, p, d) = Descent(toks, q, d)
<1>1. PICK f \in Sorts, i \in 1 .. Len(toks) + 2 : d = <<f, i>> /\ d[1] = f /\ d[2] = i
  BY DEF ParseCalls
<1>2. AgreeAfter(toks, p, q, f, i)
  <2>1. AgreeBelow(toks, p, q, <<f, i>>)
    BY <1>1
  <2> QED BY <2>1, AgreeLater, Zenon
<1>3. CASE f = "or"
  <2>1. Descent(toks, p, d) = Chain(toks, p, "or", "and", i) /\ Descent(toks, q, d) = Chain(toks, q, "or", "and", i)
    BY <1>1, <1>3 DEF Descent
  <2>2. "and" \in Sorts /\ Level("and") < Level("or")
    BY LevelsAre DEF Sorts
  <2> QED BY <1>2, <1>3, <2>1, <2>2, ChainDepends
<1>4. CASE f = "and"
  <2>1. Descent(toks, p, d) = Chain(toks, p, "and", "not", i) /\ Descent(toks, q, d) = Chain(toks, q, "and", "not", i)
    BY <1>1, <1>4 DEF Descent
  <2>2. "not" \in Sorts /\ Level("not") < Level("and")
    BY LevelsAre DEF Sorts
  <2> QED BY <1>2, <1>4, <2>1, <2>2, ChainDepends
<1>5. CASE f = "not"
  <2>1. Descent(toks, p, d) = NotExpr(toks, p, i) /\ Descent(toks, q, d) = NotExpr(toks, q, i)
    BY <1>1, <1>5 DEF Descent
  <2>2. CASE TokenAt(toks, i) = "not"
    <3>1. i + 1 \in 1 .. Len(toks) + 2 /\ i < i + 1
      BY <2>2, TokenIsThere
    <3>2. p[<<"not", i + 1>>] = q[<<"not", i + 1>>]
      BY <1>2, <1>5, <3>1 DEF AgreeAfter, Same
    <3> QED BY <2>1, <2>2, <3>2 DEF NotExpr
  <2>3. CASE TokenAt(toks, i) # "not"
    <3>1. "primary" \in Sorts /\ Level("primary") < Level("not")
      BY LevelsAre DEF Sorts
    <3>2. p[<<"primary", i>>] = q[<<"primary", i>>]
      BY <1>2, <1>5, <3>1 DEF AgreeAfter, Same
    <3> QED BY <2>1, <2>3, <3>2 DEF NotExpr
  <2> QED BY <2>2, <2>3
<1>6. CASE f = "primary"
  <2>1. Descent(toks, p, d) = Primary(toks, p, i) /\ Descent(toks, q, d) = Primary(toks, q, i)
    BY <1>1, <1>6 DEF Descent
  <2>2. CASE TokenAt(toks, i) = "("
    <3>1. i + 1 \in 1 .. Len(toks) + 2 /\ i < i + 1 /\ "or" \in Sorts
      BY <2>2, TokenIsThere DEF Sorts
    <3>2. p[<<"or", i + 1>>] = q[<<"or", i + 1>>]
      BY <1>2, <1>6, <3>1 DEF AgreeAfter, Same
    <3> QED BY <2>1, <2>2, <3>2 DEF Primary
  <2>3. CASE TokenAt(toks, i) # "("
    BY <2>1, <2>3 DEF Primary
  <2> QED BY <2>2, <2>3
<1> QED BY <1>3, <1>4, <1>5, <1>6 DEF Sorts

\* The parser the descent defines.
Parser(toks) == CHOOSE p : p = [d \in ParseCalls(toks) |-> Descent(toks, p, d)]

LEMMA ParserIsDefined ==
  ASSUME NEW toks \in Seq(Tokens)
  PROVE  /\ Parser(toks) \in Parsings(toks)
         /\ \A d \in ParseCalls(toks) : Parser(toks)[d] = Descent(toks, Parser(toks), d)
<1> DEFINE D == ParseCalls(toks)
           P == Parsings(toks)
           Body(p) == [d \in D |-> Descent(toks, p, d)]
           step == [p \in P |-> Body(p)]
           rank == [d \in D |-> Depth(toks, d)]
           first == [d \in D |-> Unsupported]
           top == 4 * Len(toks) + 8
<1>1. rank \in [D -> Nat] /\ top \in Nat /\ \A d \in D : rank[d] =< top
  <2>1. top \in Nat /\ \A i \in 0 .. top : i \in Nat /\ i =< top
    OBVIOUS
  <2>2. ASSUME NEW d \in D PROVE Depth(toks, d) \in 0 .. top
    <3>1. PICK f \in Sorts, i \in 1 .. Len(toks) + 2 : d = <<f, i>>
      BY DEF ParseCalls
    <3> QED BY <3>1, DepthFalls
  <2> HIDE DEF D, top
  <2> QED BY <2>1, <2>2
<1>2. first \in P
  BY ParsedIsOutcome DEF Parsings
<1>3. \A p \in P : DOMAIN p = D /\ p = [d \in D |-> p[d]]
  BY DEF Parsings
<1>4. ASSUME NEW p \in P PROVE Body(p) \in P
  <2>1. \A d \in D : Body(p)[d] = Descent(toks, p, d)
    OBVIOUS
  <2>2. \A d \in D : Body(p)[d] \in Outcome /\ (Body(p)[d].ok => d[2] < Body(p)[d].next)
    BY <2>1, DescentReturns, Zenon
  <2>3. Body(p) \in [D -> Outcome]
    BY <2>1, <2>2
  <2> QED BY <2>2, <2>3, Zenon DEF Parsings
<1>5. step \in [P -> P]
  BY <1>4
<1>6. \A p \in P : step[p] = Body(p)
  OBVIOUS
<1>7. \A p, q \in P, d \in D : (\A e \in D : rank[e] < rank[d] => p[e] = q[e]) => step[p][d] = step[q][d]
  <2>1. ASSUME NEW p \in P, NEW q \in P, NEW d \in D, \A e \in D : rank[e] < rank[d] => p[e] = q[e]
        PROVE  step[p][d] = step[q][d]
    <3>1. AgreeBelow(toks, p, q, d)
      BY <2>1 DEF AgreeBelow
    <3>2. Descent(toks, p, d) = Descent(toks, q, d)
      BY <3>1, DescentDepends
    <3> QED BY <3>2
  <2> QED BY <2>1
<1>8. \E p \in P : p = step[p]
  <2> HIDE DEF D, P, step, rank, first, top
  <2>1. Recursion(D, rank, top, P, first, step)
    BY <1>1, <1>2, <1>3, <1>5, <1>7, Zenon DEF Recursion
  <2> QED BY <2>1, RecursionEnds
<1>9. PICK p \in P : p = Body(p)
  BY <1>6, <1>8
<1>10. Parser(toks) = CHOOSE h : h = Body(h)
  BY Zenon DEF Parser
<1>11. \A q : DOMAIN Body(q) = D /\ Body(q) = [d \in D |-> Body(q)[d]] /\ \A d \in D : Body(q)[d] = Descent(toks, q, d)
  OBVIOUS
<1> HIDE DEF Body
<1>12. PICK q : q = Parser(toks) /\ q = Body(q)
  BY <1>9, <1>10, Zenon
<1>13. \A d \in D : p[d] = Descent(toks, p, d) /\ q[d] = Descent(toks, q, d)
  BY <1>9, <1>11, <1>12, Zenon
<1>14. \A d \in D : p[d] = q[d]
  <2>1. ASSUME NEW d \in D, \A e \in D : rank[e] < rank[d] => p[e] = q[e]
        PROVE  p[d] = q[d]
    <3>1. AgreeBelow(toks, p, q, d)
      BY <2>1 DEF AgreeBelow
    <3>2. Descent(toks, p, d) = Descent(toks, q, d)
      BY <3>1, DescentDepends
    <3> QED BY <1>13, <3>2, Zenon
  <2>2. \A d \in D : (\A e \in D : rank[e] < rank[d] => p[e] = q[e]) => p[d] = q[d]
    BY <2>1
  <2> HIDE DEF D, rank
  <2>3. Determined(D, rank, p, q)
    BY <1>1, <2>2, Zenon DEF Determined
  <2> QED BY <2>3, RecursionAgrees
<1>15. p = q
  <2>1. p = [d \in D |-> p[d]] /\ q = [d \in D |-> q[d]]
    BY <1>9, <1>11, <1>12, Zenon
  <2> HIDE DEF D
  <2> QED BY <1>14, <2>1
<1> QED BY <1>12, <1>13, <1>15, Zenon

LEMMA DescendIsParser ==
  ASSUME NEW toks
  PROVE  Descend(toks) = Parser(toks)[<<"or", 1>>]
  BY Zenon DEF Descend, Parser

-----------------------------------------------------------------------------
(* The conditions of Sigma rules: the grammar. *)

\* The members of a rule's set of meanings, sort by sort.
Join(op, l, r) == IF op = "or" THEN l \cup r ELSE l \cap r
Joins(toks, means, op, sub, i, j, x) ==
  \E k \in i + 1 .. j - 1 : \E l \in means[<<op, i, k - 1>>], r \in means[<<sub, k + 1, j>>] :
    toks[k] = op /\ x = Join(op, l, r)

Negates(toks, means, i, j, x) == toks[i] = "not" /\ i < j /\ \E m \in means[<<"not", i + 1, j>>] : x = Events \ m

LEMMA RuleMembers ==
  ASSUME NEW toks, NEW means, NEW i, NEW j, NEW x
  PROVE  /\ x \in Rule(toks, means, "or", i, j) <=>
              x \in means[<<"and", i, j>>] \/ Joins(toks, means, "or", "and", i, j, x)
         /\ x \in Rule(toks, means, "and", i, j) <=>
              x \in means[<<"not", i, j>>] \/ Joins(toks, means, "and", "not", i, j, x)
         /\ x \in Rule(toks, means, "not", i, j) <=>
              x \in means[<<"primary", i, j>>] \/ Negates(toks, means, i, j, x)
<1>1. x \in Rule(toks, means, "or", i, j) <=>
        x \in means[<<"and", i, j>>] \/ Joins(toks, means, "or", "and", i, j, x)
  <2> DEFINE K == {k \in i + 1 .. j - 1 : toks[k] = "or"}
             S(k) == {l \cup r : l \in means[<<"or", i, k - 1>>], r \in means[<<"and", k + 1, j>>]}
  <2>1. Rule(toks, means, "or", i, j) = means[<<"and", i, j>>] \cup UNION {S(k) : k \in K}
    BY DEF Rule
  <2>2. Joins(toks, means, "or", "and", i, j, x) <=>
          \E k \in K : \E l \in means[<<"or", i, k - 1>>], r \in means[<<"and", k + 1, j>>] : x = l \cup r
    BY DEF Joins, Join
  <2>3. \A k : x \in S(k) <=> \E l \in means[<<"or", i, k - 1>>], r \in means[<<"and", k + 1, j>>] : x = l \cup r
    OBVIOUS
  <2>4. x \in UNION {S(k) : k \in K} <=> \E k \in K : x \in S(k)
    <3> HIDE DEF S, K
    <3> QED OBVIOUS
  <2> HIDE DEF S, K
  <2> QED BY <2>1, <2>2, <2>3, <2>4, Zenon
<1>2. x \in Rule(toks, means, "and", i, j) <=>
        x \in means[<<"not", i, j>>] \/ Joins(toks, means, "and", "not", i, j, x)
  <2> DEFINE K == {k \in i + 1 .. j - 1 : toks[k] = "and"}
             S(k) == {l \cap r : l \in means[<<"and", i, k - 1>>], r \in means[<<"not", k + 1, j>>]}
  <2>1. Rule(toks, means, "and", i, j) = means[<<"not", i, j>>] \cup UNION {S(k) : k \in K}
    BY DEF Rule
  <2>2. Joins(toks, means, "and", "not", i, j, x) <=>
          \E k \in K : \E l \in means[<<"and", i, k - 1>>], r \in means[<<"not", k + 1, j>>] : x = l \cap r
    BY DEF Joins, Join
  <2>3. \A k : x \in S(k) <=> \E l \in means[<<"and", i, k - 1>>], r \in means[<<"not", k + 1, j>>] : x = l \cap r
    OBVIOUS
  <2>4. x \in UNION {S(k) : k \in K} <=> \E k \in K : x \in S(k)
    <3> HIDE DEF S, K
    <3> QED OBVIOUS
  <2> HIDE DEF S, K
  <2> QED BY <2>1, <2>2, <2>3, <2>4, Zenon
<1>3. x \in Rule(toks, means, "not", i, j) <=>
        x \in means[<<"primary", i, j>>] \/ Negates(toks, means, i, j, x)
  <2>1. Rule(toks, means, "not", i, j) =
          means[<<"primary", i, j>>] \cup
           (IF toks[i] = "not" /\ i < j THEN {Events \ m : m \in means[<<"not", i + 1, j>>]} ELSE {})
    BY DEF Rule
  <2> QED BY <2>1 DEF Negates
<1> QED BY <1>1, <1>2, <1>3

\* How much a phrase still says.
Span(d) == IF d[2] =< d[3] THEN 4 * (d[3] - d[2]) + Level(d[1]) ELSE 0
AgreeWithin(toks, p, q, d) == \A e \in Phrases(toks) : Span(e) < Span(d) => p[e] = q[e]
SameMeanings(p, q, f, i, j) == p[<<f, i, j>>] = q[<<f, i, j>>]
AgreeInside(toks, p, q, f, i, j) ==
  /\ \A g \in Sorts, a, b \in 1 .. Len(toks) : i =< a /\ a =< b /\ b =< j /\ b - a < j - i => SameMeanings(p, q, g, a, b)
  /\ \A g \in Sorts : Level(g) < Level(f) => SameMeanings(p, q, g, i, j)

LEMMA SpanFalls ==
  ASSUME NEW f \in Sorts, NEW g \in Sorts, NEW i \in Nat, NEW j \in Nat, NEW a \in Nat, NEW b \in Nat, i =< j, a =< b
  PROVE  /\ Span(<<f, i, j>>) \in 0 .. 4 * (j - i) + 3
         /\ b - a < j - i \/ (a = i /\ b = j /\ Level(g) < Level(f)) => Span(<<g, a, b>>) < Span(<<f, i, j>>)
<1>1. PICK m \in 0 .. 3 : m = Level(f)
  BY LevelsAre
<1>2. PICK n \in 0 .. 3 : n = Level(g)
  BY LevelsAre
<1>3. Span(<<f, i, j>>) = 4 * (j - i) + m /\ Span(<<g, a, b>>) = 4 * (b - a) + n
  BY <1>1, <1>2 DEF Span
<1> QED BY <1>1, <1>2, <1>3

LEMMA AgreeInner ==
  ASSUME NEW toks \in Seq(Tokens), NEW p, NEW q, NEW f \in Sorts, NEW i \in 1 .. Len(toks), NEW j \in 1 .. Len(toks),
         i =< j, AgreeWithin(toks, p, q, <<f, i, j>>)
  PROVE  AgreeInside(toks, p, q, f, i, j)
<1>1. \A g \in Sorts, a, b \in 1 .. Len(toks) : <<g, a, b>> \in Phrases(toks)
  BY DEF Phrases
<1>2. ASSUME NEW g \in Sorts, NEW a \in 1 .. Len(toks), NEW b \in 1 .. Len(toks), a =< b,
             b - a < j - i \/ (a = i /\ b = j /\ Level(g) < Level(f))
      PROVE  SameMeanings(p, q, g, a, b)
  <2>1. Span(<<g, a, b>>) < Span(<<f, i, j>>)
    BY <1>2, SpanFalls
  <2> QED BY <1>1, <2>1 DEF AgreeWithin, SameMeanings
<1> QED BY <1>2 DEF AgreeInside

LEMMA JoinsDepend ==
  ASSUME NEW toks \in Seq(Tokens), NEW p, NEW q, NEW f \in Sorts, NEW sub \in Sorts, NEW x,
         NEW i \in 1 .. Len(toks), NEW j \in 1 .. Len(toks), i =< j, AgreeInside(toks, p, q, f, i, j)
  PROVE  Joins(toks, p, f, sub, i, j, x) <=> Joins(toks, q, f, sub, i, j, x)
<1>1. ASSUME NEW k \in i + 1 .. j - 1
      PROVE  SameMeanings(p, q, f, i, k - 1) /\ SameMeanings(p, q, sub, k + 1, j)
  <2>1. k - 1 \in 1 .. Len(toks) /\ i =< k - 1 /\ k - 1 =< j /\ k - 1 - i < j - i
    OBVIOUS
  <2>2. k + 1 \in 1 .. Len(toks) /\ i =< k + 1 /\ k + 1 =< j /\ j - (k + 1) < j - i
    OBVIOUS
  <2>3. SameMeanings(p, q, f, i, k - 1)
    BY <2>1 DEF AgreeInside
  <2>4. SameMeanings(p, q, sub, k + 1, j)
    BY <2>2 DEF AgreeInside
  <2> QED BY <2>3, <2>4
<1> QED BY <1>1, Zenon DEF Joins, SameMeanings

LEMMA RuleDepends ==
  ASSUME NEW toks \in Seq(Tokens), NEW p, NEW q, NEW f \in Sorts, NEW i \in 1 .. Len(toks), NEW j \in 1 .. Len(toks),
         i =< j, AgreeInside(toks, p, q, f, i, j)
  PROVE  Rule(toks, p, f, i, j) = Rule(toks, q, f, i, j)
<1>1. CASE f = "or"
  <2>1. p[<<"and", i, j>>] = q[<<"and", i, j>>]
    BY <1>1, LevelsAre DEF AgreeInside, SameMeanings, Sorts
  <2>2. \A x : Joins(toks, p, "or", "and", i, j, x) <=> Joins(toks, q, "or", "and", i, j, x)
    BY <1>1, JoinsDepend DEF Sorts
  <2>3. \A x : x \in Rule(toks, p, "or", i, j) <=> x \in Rule(toks, q, "or", i, j)
    BY <2>1, <2>2, RuleMembers, Zenon
  <2>4. Rule(toks, p, "or", i, j) = Rule(toks, q, "or", i, j)
    BY <2>3, Zenon
  <2> QED BY <1>1, <2>4, Zenon
<1>2. CASE f = "and"
  <2>1. p[<<"not", i, j>>] = q[<<"not", i, j>>]
    BY <1>2, LevelsAre DEF AgreeInside, SameMeanings, Sorts
  <2>2. \A x : Joins(toks, p, "and", "not", i, j, x) <=> Joins(toks, q, "and", "not", i, j, x)
    BY <1>2, JoinsDepend DEF Sorts
  <2>3. \A x : x \in Rule(toks, p, "and", i, j) <=> x \in Rule(toks, q, "and", i, j)
    BY <2>1, <2>2, RuleMembers, Zenon
  <2>4. Rule(toks, p, "and", i, j) = Rule(toks, q, "and", i, j)
    BY <2>3, Zenon
  <2> QED BY <1>2, <2>4, Zenon
<1>3. CASE f = "not"
  <2>1. p[<<"primary", i, j>>] = q[<<"primary", i, j>>]
    BY <1>3, LevelsAre DEF AgreeInside, SameMeanings, Sorts
  <2>2. i < j => p[<<"not", i + 1, j>>] = q[<<"not", i + 1, j>>]
    <3>1. i < j => i + 1 \in 1 .. Len(toks) /\ i =< i + 1 /\ i + 1 =< j /\ j =< j /\ j - (i + 1) < j - i
      OBVIOUS
    <3> QED BY <3>1 DEF AgreeInside, SameMeanings, Sorts
  <2>3. \A x : x \in Rule(toks, p, "not", i, j) <=> x \in Rule(toks, q, "not", i, j)
    <3>1. \A x : Negates(toks, p, i, j, x) <=> Negates(toks, q, i, j, x)
      BY <2>2 DEF Negates
    <3> QED BY <2>1, <3>1, RuleMembers, Zenon
  <2>4. Rule(toks, p, "not", i, j) = Rule(toks, q, "not", i, j)
    BY <2>3, Zenon
  <2> QED BY <1>3, <2>4, Zenon
<1>4. CASE f = "primary"
  <2>1. j > i + 1 => p[<<"or", i + 1, j - 1>>] = q[<<"or", i + 1, j - 1>>]
    <3>1. j > i + 1 => /\ i + 1 \in 1 .. Len(toks) /\ j - 1 \in 1 .. Len(toks)
                       /\ i =< i + 1 /\ i + 1 =< j - 1 /\ j - 1 =< j /\ j - 1 - (i + 1) < j - i
      OBVIOUS
    <3> QED BY <3>1 DEF AgreeInside, SameMeanings, Sorts
  <2> QED BY <1>4, <2>1 DEF Rule
<1> QED BY <1>1, <1>2, <1>3, <1>4 DEF Sorts

\* What a grammar may assign to the phrases.
Assignments(toks) == [Phrases(toks) -> SUBSET (SUBSET Events)]

LEMMA AssignmentsOf ==
  ASSUME NEW toks, NEW p \in Assignments(toks), NEW f \in Sorts, NEW i \in 1 .. Len(toks), NEW j \in 1 .. Len(toks)
  PROVE  p[<<f, i, j>>] \in SUBSET (SUBSET Events)
<1>1. <<f, i, j>> \in Phrases(toks)
  BY DEF Phrases
<1> QED BY <1>1 DEF Assignments

LEMMA JoinsAreMatchers ==
  ASSUME NEW toks \in Seq(Tokens), NEW p \in Assignments(toks), NEW f \in Sorts, NEW sub \in Sorts, NEW x,
         NEW i \in 1 .. Len(toks), NEW j \in 1 .. Len(toks), Joins(toks, p, f, sub, i, j, x)
  PROVE  x \in SUBSET Events
<1>1. PICK k \in i + 1 .. j - 1 : \E l \in p[<<f, i, k - 1>>], r \in p[<<sub, k + 1, j>>] :
        x = Join(f, l, r)
  BY DEF Joins
<1>2. k - 1 \in 1 .. Len(toks) /\ k + 1 \in 1 .. Len(toks)
  OBVIOUS
<1>3. PICK l, r : l \in p[<<f, i, k - 1>>] /\ r \in p[<<sub, k + 1, j>>] /\ x = Join(f, l, r)
  BY <1>1
<1>4. l \in SUBSET Events /\ r \in SUBSET Events
  <2> DEFINE All == \A g \in Sorts, a, b \in 1 .. Len(toks) : p[<<g, a, b>>] \in SUBSET (SUBSET Events)
  <2>0. All
    BY AssignmentsOf
  <2>1. p[<<f, i, k - 1>>] \in SUBSET (SUBSET Events)
    BY <1>2, <2>0
  <2>2. p[<<sub, k + 1, j>>] \in SUBSET (SUBSET Events)
    BY <1>2, <2>0
  <2> QED BY <1>3, <2>1, <2>2
<1>5. x = l \cup r \/ x = l \cap r
  BY <1>3 DEF Join
<1> QED BY <1>4, <1>5

LEMMA RulesAreAssignments ==
  ASSUME NEW toks \in Seq(Tokens), NEW p \in Assignments(toks), NEW f \in Sorts,
         NEW i \in 1 .. Len(toks), NEW j \in 1 .. Len(toks), i =< j
  PROVE  Rule(toks, p, f, i, j) \in SUBSET (SUBSET Events)
<1>1. CASE f = "or"
  <2>1. p[<<"and", i, j>>] \in SUBSET (SUBSET Events)
    BY AssignmentsOf DEF Sorts
  <2>2. \A x : Joins(toks, p, "or", "and", i, j, x) => x \in SUBSET Events
    BY JoinsAreMatchers DEF Sorts
  <2>3. \A x : x \in Rule(toks, p, "or", i, j) => x \in SUBSET Events
    BY <2>1, <2>2, RuleMembers
  <2>4. Rule(toks, p, "or", i, j) \in SUBSET (SUBSET Events)
    BY <2>3, Zenon
  <2> QED BY <1>1, <2>4
<1>2. CASE f = "and"
  <2>1. p[<<"not", i, j>>] \in SUBSET (SUBSET Events)
    BY AssignmentsOf DEF Sorts
  <2>2. \A x : Joins(toks, p, "and", "not", i, j, x) => x \in SUBSET Events
    BY JoinsAreMatchers DEF Sorts
  <2>3. \A x : x \in Rule(toks, p, "and", i, j) => x \in SUBSET Events
    BY <2>1, <2>2, RuleMembers
  <2>4. Rule(toks, p, "and", i, j) \in SUBSET (SUBSET Events)
    BY <2>3, Zenon
  <2> QED BY <1>2, <2>4
<1>3. CASE f = "not"
  <2>1. p[<<"primary", i, j>>] \in SUBSET (SUBSET Events)
    BY AssignmentsOf DEF Sorts
  <2>2. \A x : Negates(toks, p, i, j, x) => x \in SUBSET Events
    BY DEF Negates
  <2>3. \A x : x \in Rule(toks, p, "not", i, j) => x \in SUBSET Events
    BY <2>1, <2>2, RuleMembers
  <2>4. Rule(toks, p, "not", i, j) \in SUBSET (SUBSET Events)
    BY <2>3, Zenon
  <2> QED BY <1>3, <2>4
<1>4. CASE f = "primary"
  <2>1. j > i + 1 => p[<<"or", i + 1, j - 1>>] \in SUBSET (SUBSET Events)
    <3>1. j > i + 1 => i + 1 \in 1 .. Len(toks) /\ j - 1 \in 1 .. Len(toks) /\ "or" \in Sorts
      BY DEF Sorts
    <3> QED BY <3>1, AssignmentsOf
  <2>2. \A t : {Satisfying(t)} \in SUBSET (SUBSET Events)
    BY MatchersAreSets
  <2>3. \A q, S : {Quantified(q, S)} \in SUBSET (SUBSET Events)
    BY MatchersAreSets
  <2>4. \/ Rule(toks, p, "primary", i, j) = {Satisfying(toks[i])}
        \/ j > i + 1 /\ Rule(toks, p, "primary", i, j) = p[<<"or", i + 1, j - 1>>]
        \/ Rule(toks, p, "primary", i, j) = {Quantified(toks[i], Pick(toks[j]))}
        \/ Rule(toks, p, "primary", i, j) = {}
    BY DEF Rule
  <2>5. {} \in SUBSET (SUBSET Events)
    OBVIOUS
  <2>6. Rule(toks, p, "primary", i, j) \in SUBSET (SUBSET Events)
    <3>1. CASE Rule(toks, p, "primary", i, j) = {Satisfying(toks[i])}
      <4>1. {Satisfying(toks[i])} \in SUBSET (SUBSET Events)
        BY <2>2
      <4> QED BY <3>1, <4>1, Zenon
    <3>2. CASE j > i + 1 /\ Rule(toks, p, "primary", i, j) = p[<<"or", i + 1, j - 1>>]
      <4>1. p[<<"or", i + 1, j - 1>>] \in SUBSET (SUBSET Events)
        BY <2>1, <3>2
      <4> QED BY <3>2, <4>1, Zenon
    <3>3. CASE Rule(toks, p, "primary", i, j) = {Quantified(toks[i], Pick(toks[j]))}
      <4>1. {Quantified(toks[i], Pick(toks[j]))} \in SUBSET (SUBSET Events)
        BY <2>3
      <4> QED BY <3>3, <4>1, Zenon
    <3>4. CASE Rule(toks, p, "primary", i, j) = {}
      BY <2>5, <3>4
    <3> QED BY <2>4, <3>1, <3>2, <3>3, <3>4, Zenon
  <2> QED BY <1>4, <2>6
<1> QED BY <1>1, <1>2, <1>3, <1>4 DEF Sorts

\* The grammar's meanings of every phrase.
Reading(toks, means, d) == IF d[2] =< d[3] THEN Rule(toks, means, d[1], d[2], d[3]) ELSE {}
Grammar(toks) == CHOOSE m : m = [d \in Phrases(toks) |-> Reading(toks, m, d)]

LEMMA MeaningsAreGrammar ==
  ASSUME NEW toks
  PROVE  Meanings(toks) = IF toks = <<>> THEN {} ELSE Grammar(toks)[<<"or", 1, Len(toks)>>]
  BY Zenon DEF Meanings, Grammar, Reading

LEMMA GrammarIsDefined ==
  ASSUME NEW toks \in Seq(Tokens)
  PROVE  \A f \in Sorts, i, j \in 1 .. Len(toks) :
           i =< j => Grammar(toks)[<<f, i, j>>] = Rule(toks, Grammar(toks), f, i, j)
<1> DEFINE D == Phrases(toks)
           P == Assignments(toks)
           Body(p) == [d \in D |-> Reading(toks, p, d)]
           step == [p \in P |-> Body(p)]
           rank == [d \in D |-> Span(d)]
           first == [d \in D |-> {}]
           top == 4 * Len(toks) + 8
<1>0. \A d \in D : \E f \in Sorts, i, j \in 1 .. Len(toks) : d = <<f, i, j>> /\ d[1] = f /\ d[2] = i /\ d[3] = j
  BY DEF Phrases
<1>1. rank \in [D -> Nat] /\ top \in Nat /\ \A d \in D : rank[d] =< top
  <2>1. top \in Nat /\ \A i \in 0 .. top : i \in Nat /\ i =< top
    OBVIOUS
  <2>2. ASSUME NEW d \in D PROVE Span(d) \in 0 .. top
    <3>1. PICK f \in Sorts, i \in 1 .. Len(toks), j \in 1 .. Len(toks) :
            d = <<f, i, j>> /\ d[1] = f /\ d[2] = i /\ d[3] = j
      BY <1>0
    <3>2. CASE i =< j
      <4>1. Span(<<f, i, j>>) \in 0 .. 4 * (j - i) + 3
        BY <3>2, SpanFalls
      <4>2. PICK s : s = Span(<<f, i, j>>)
        OBVIOUS
      <4>3. s \in 0 .. 4 * (j - i) + 3 => s \in 0 .. 4 * Len(toks) + 8
        BY <3>2
      <4> QED BY <3>1, <4>1, <4>2, <4>3
    <3>3. CASE ~(i =< j)
      <4>1. Span(d) = 0
        BY <3>1, <3>3 DEF Span
      <4> QED BY <4>1
    <3> QED BY <3>2, <3>3
  <2> HIDE DEF D, top
  <2> QED BY <2>1, <2>2
<1>2. first \in P
  BY DEF Assignments
<1>3. \A p \in P : DOMAIN p = D /\ p = [d \in D |-> p[d]]
  BY DEF Assignments
<1>4. ASSUME NEW p \in P PROVE Body(p) \in P
  <2>1. ASSUME NEW d \in D PROVE Reading(toks, p, d) \in SUBSET (SUBSET Events)
    <3>1. PICK f \in Sorts, i \in 1 .. Len(toks), j \in 1 .. Len(toks) :
            d = <<f, i, j>> /\ d[1] = f /\ d[2] = i /\ d[3] = j
      BY <1>0
    <3>2. i =< j => Rule(toks, p, f, i, j) \in SUBSET (SUBSET Events)
      BY RulesAreAssignments
    <3>3. {} \in SUBSET (SUBSET Events)
      OBVIOUS
    <3> QED BY <3>1, <3>2, <3>3, Zenon DEF Reading
  <2> QED BY <2>1, Zenon DEF Assignments
<1>5. step \in [P -> P]
  BY <1>4
<1>6. \A p \in P : step[p] = Body(p)
  OBVIOUS
<1>7. \A p, q \in P, d \in D : (\A e \in D : rank[e] < rank[d] => p[e] = q[e]) => step[p][d] = step[q][d]
  <2>1. ASSUME NEW p \in P, NEW q \in P, NEW d \in D, \A e \in D : rank[e] < rank[d] => p[e] = q[e]
        PROVE  step[p][d] = step[q][d]
    <3>1. AgreeWithin(toks, p, q, d)
      BY <2>1 DEF AgreeWithin
    <3>2. PICK f \in Sorts, i \in 1 .. Len(toks), j \in 1 .. Len(toks) :
            d = <<f, i, j>> /\ d[1] = f /\ d[2] = i /\ d[3] = j
      BY <1>0
    <3>3. i =< j => Rule(toks, p, f, i, j) = Rule(toks, q, f, i, j)
      <4>1. AgreeWithin(toks, p, q, <<f, i, j>>)
        BY <3>1, <3>2, Zenon
      <4>2. i =< j => AgreeInside(toks, p, q, f, i, j)
        BY <4>1, AgreeInner
      <4> QED BY <4>2, RuleDepends
    <3>4. Reading(toks, p, d) = Reading(toks, q, d)
      BY <3>2, <3>3, Zenon DEF Reading
    <3> QED BY <3>4
  <2> QED BY <2>1
<1>8. \E p \in P : p = step[p]
  <2> HIDE DEF D, P, step, rank, first, top
  <2>1. Recursion(D, rank, top, P, first, step)
    BY <1>1, <1>2, <1>3, <1>5, <1>7, Zenon DEF Recursion
  <2> QED BY <2>1, RecursionEnds
<1>9. PICK p \in P : p = Body(p)
  BY <1>6, <1>8
<1>10. Grammar(toks) = CHOOSE h : h = Body(h)
  BY Zenon DEF Grammar
<1>11. \A q : \A d \in D : Body(q)[d] = Reading(toks, q, d)
  OBVIOUS
<1> HIDE DEF Body
<1>12. PICK q : q = Grammar(toks) /\ q = Body(q)
  BY <1>9, <1>10, Zenon
<1>13. ASSUME NEW f \in Sorts, NEW i \in 1 .. Len(toks), NEW j \in 1 .. Len(toks), i =< j
       PROVE  q[<<f, i, j>>] = Rule(toks, q, f, i, j)
  <2>0. PICK d : d = <<f, i, j>>
    OBVIOUS
  <2>1. d = <<f, i, j>> /\ d \in D /\ d[1] = f /\ d[2] = i /\ d[3] = j
    BY <2>0 DEF Phrases
  <2>2. q[d] = Reading(toks, q, d)
    BY <1>11, <1>12, <2>1, Zenon
  <2>3. Reading(toks, q, d) = Rule(toks, q, f, i, j)
    BY <1>13, <2>1, Zenon DEF Reading
  <2> QED BY <2>1, <2>2, <2>3, Zenon
<1> QED BY <1>12, <1>13, Zenon

\* The sets of meanings of the operands of an operator that joins to the left.
LeftRule(toks, means, op, sub) ==
  \A i, j \in 1 .. Len(toks) : \A x : i =< j =>
    (x \in means[<<op, i, j>>] <=> x \in means[<<sub, i, j>>] \/ Joins(toks, means, op, sub, i, j, x))
\* The same, joined to the right.
RightJoins(toks, means, op, sub, i, j, x) ==
  \E k \in i + 1 .. j - 1 : \E l \in means[<<sub, i, k - 1>>], r \in means[<<op, k + 1, j>>] :
    toks[k] = op /\ x = Join(op, l, r)

LEMMA JoinAssociates ==
  \A op, a, b, c : Join(op, Join(op, a, b), c) = Join(op, a, Join(op, b, c))
  BY DEF Join

LEMMA LeftJoin ==
  ASSUME NEW toks, NEW means, NEW op, NEW sub, LeftRule(toks, means, op, sub),
         NEW i \in 1 .. Len(toks), NEW j \in 1 .. Len(toks), NEW k \in i + 1 .. j - 1, toks[k] = op,
         NEW l \in means[<<op, i, k - 1>>], NEW r \in means[<<sub, k + 1, j>>]
  PROVE  Join(op, l, r) \in means[<<op, i, j>>]
<1>1. Joins(toks, means, op, sub, i, j, Join(op, l, r))
  BY DEF Joins
<1>2. i =< j
  OBVIOUS
<1> QED BY <1>1, <1>2 DEF LeftRule

LEMMA SubIsOp ==
  ASSUME NEW toks, NEW means, NEW op, NEW sub, LeftRule(toks, means, op, sub),
         NEW i \in 1 .. Len(toks), NEW j \in 1 .. Len(toks), i =< j, NEW x \in means[<<sub, i, j>>]
  PROVE  x \in means[<<op, i, j>>]
  BY DEF LeftRule

LEMMA LeftIsRight ==
  ASSUME NEW toks \in Seq(Tokens), NEW means, NEW op, NEW sub, LeftRule(toks, means, op, sub)
  PROVE  \A i, j \in 1 .. Len(toks) : \A x : i =< j /\ x \in means[<<op, i, j>>] =>
           x \in means[<<sub, i, j>>] \/ RightJoins(toks, means, op, sub, i, j, x)
<1> DEFINE Holds(i, j) == \A x \in means[<<op, i, j>>] : x \in means[<<sub, i, j>>] \/ RightJoins(toks, means, op, sub, i, j, x)
           Good == {m \in 0 .. Len(toks) : \A i, j \in 1 .. Len(toks) : i =< j /\ j - i = m => Holds(i, j)}
<1>1. ASSUME NEW i \in 1 .. Len(toks), NEW j \in 1 .. Len(toks), i =< j,
             \A b \in i .. j - 1 : Holds(i, b)
      PROVE  Holds(i, j)
  <2>1. ASSUME NEW x, Joins(toks, means, op, sub, i, j, x) PROVE RightJoins(toks, means, op, sub, i, j, x)
    <3>1. PICK k \in i + 1 .. j - 1 : toks[k] = op /\ \E l \in means[<<op, i, k - 1>>], r \in means[<<sub, k + 1, j>>] :
            x = Join(op, l, r)
      BY <2>1 DEF Joins
    <3>2. PICK l \in means[<<op, i, k - 1>>], r \in means[<<sub, k + 1, j>>] : x = Join(op, l, r)
      BY <3>1
    <3>3. k - 1 \in i .. j - 1 /\ k + 1 \in 1 .. Len(toks) /\ k + 1 =< j /\ k - 1 \in 1 .. Len(toks)
      OBVIOUS
    <3>4. CASE l \in means[<<sub, i, k - 1>>]
      <4>1. r \in means[<<op, k + 1, j>>]
        BY <3>3, SubIsOp
      <4> QED BY <3>1, <3>2, <3>4, <4>1 DEF RightJoins
    <3>5. CASE RightJoins(toks, means, op, sub, i, k - 1, l)
      <4>1. PICK h \in i + 1 .. (k - 1) - 1 : toks[h] = op /\ \E a \in means[<<sub, i, h - 1>>], b \in means[<<op, h + 1, k - 1>>] :
              l = Join(op, a, b)
        BY <3>5 DEF RightJoins
      <4>2. PICK a \in means[<<sub, i, h - 1>>], b \in means[<<op, h + 1, k - 1>>] : l = Join(op, a, b)
        BY <4>1
      <4>3. h + 1 \in 1 .. Len(toks) /\ k \in (h + 1) + 1 .. j - 1 /\ h \in i + 1 .. j - 1
        OBVIOUS
      <4>4. Join(op, b, r) \in means[<<op, h + 1, j>>]
        BY <3>1, <4>3, LeftJoin
      <4>5. x = Join(op, a, Join(op, b, r))
        BY <3>2, <4>2, JoinAssociates
      <4> QED BY <4>1, <4>3, <4>4, <4>5 DEF RightJoins
    <3>6. Holds(i, k - 1)
      BY <1>1, <3>3
    <3> QED BY <3>4, <3>5, <3>6
  <2> QED BY <1>1, <2>1 DEF LeftRule
<1> HIDE DEF Holds
<1>2. ASSUME NEW m \in 0 .. Len(toks), \A k \in 0 .. Len(toks) : k < m => k \in Good
      PROVE  m \in Good
  <2>1. ASSUME NEW i \in 1 .. Len(toks), NEW j \in 1 .. Len(toks), i =< j, j - i = m
        PROVE  Holds(i, j)
    <3>1. ASSUME NEW b \in i .. j - 1 PROVE Holds(i, b)
      <4>1. b \in 1 .. Len(toks) /\ i =< b /\ b - i \in 0 .. Len(toks) /\ b - i < m
        BY <2>1
      <4>2. b - i \in Good
        BY <1>2, <4>1
      <4> QED BY <4>1, <4>2
    <3> QED BY <1>1, <2>1, <3>1
  <2> QED BY <2>1
<1>3. \A m \in 0 .. Len(toks) : m \in Good
  <2>1. Len(toks) \in Nat
    OBVIOUS
  <2> HIDE DEF Good
  <2> QED BY <1>2, <2>1, UpTo, Zenon
<1>4. ASSUME NEW i \in 1 .. Len(toks), NEW j \in 1 .. Len(toks), i =< j PROVE Holds(i, j)
  <2>1. j - i \in 0 .. Len(toks)
    BY <1>4
  <2>2. j - i \in Good
    BY <1>3, <2>1
  <2> QED BY <1>4, <2>2
<1> QED BY <1>4 DEF Holds

LEMMA RightIsLeft ==
  ASSUME NEW toks \in Seq(Tokens), NEW means, NEW op, NEW sub, LeftRule(toks, means, op, sub)
  PROVE  \A i, j \in 1 .. Len(toks) : \A x : RightJoins(toks, means, op, sub, i, j, x) => x \in means[<<op, i, j>>]
<1> DEFINE Holds(i, j) == \A x : RightJoins(toks, means, op, sub, i, j, x) => x \in means[<<op, i, j>>]
           Good == {m \in 0 .. Len(toks) : \A i, j \in 1 .. Len(toks) : i =< j /\ j - i = m => Holds(i, j)}
<1>1. ASSUME NEW i \in 1 .. Len(toks), NEW j \in 1 .. Len(toks), i =< j,
             \A b \in i .. j - 1 : Holds(i, b)
      PROVE  Holds(i, j)
  <2>1. ASSUME NEW x, RightJoins(toks, means, op, sub, i, j, x) PROVE x \in means[<<op, i, j>>]
    <3>1. PICK k \in i + 1 .. j - 1 : toks[k] = op /\ \E l \in means[<<sub, i, k - 1>>], r \in means[<<op, k + 1, j>>] :
            x = Join(op, l, r)
      BY <2>1 DEF RightJoins
    <3>2. PICK l \in means[<<sub, i, k - 1>>], r \in means[<<op, k + 1, j>>] : x = Join(op, l, r)
      BY <3>1
    <3>3. k - 1 \in 1 .. Len(toks) /\ i =< k - 1 /\ k + 1 \in 1 .. Len(toks) /\ k + 1 =< j
      OBVIOUS
    <3>4. CASE r \in means[<<sub, k + 1, j>>]
      <4>1. l \in means[<<op, i, k - 1>>]
        BY <3>3, SubIsOp
      <4> QED BY <3>1, <3>2, <3>4, <4>1, LeftJoin
    <3>5. CASE Joins(toks, means, op, sub, k + 1, j, r)
      <4>1. PICK h \in (k + 1) + 1 .. j - 1 : toks[h] = op /\ \E a \in means[<<op, k + 1, h - 1>>], b \in means[<<sub, h + 1, j>>] :
              r = Join(op, a, b)
        BY <3>5 DEF Joins
      <4>2. PICK a \in means[<<op, k + 1, h - 1>>], b \in means[<<sub, h + 1, j>>] : r = Join(op, a, b)
        BY <4>1
      <4>3. h - 1 \in i .. j - 1 /\ h \in i + 1 .. j - 1 /\ k \in i + 1 .. (h - 1) - 1
        OBVIOUS
      <4>4. RightJoins(toks, means, op, sub, i, h - 1, Join(op, l, a))
        BY <3>1, <4>3 DEF RightJoins
      <4>5. Join(op, l, a) \in means[<<op, i, h - 1>>]
        BY <1>1, <4>3, <4>4
      <4>6. x = Join(op, Join(op, l, a), b)
        BY <3>2, <4>2, JoinAssociates
      <4> QED BY <4>1, <4>3, <4>5, <4>6, LeftJoin
    <3>6. r \in means[<<sub, k + 1, j>>] \/ Joins(toks, means, op, sub, k + 1, j, r)
      BY <3>3 DEF LeftRule
    <3> QED BY <3>4, <3>5, <3>6
  <2> QED BY <2>1
<1> HIDE DEF Holds
<1>2. ASSUME NEW m \in 0 .. Len(toks), \A k \in 0 .. Len(toks) : k < m => k \in Good
      PROVE  m \in Good
  <2>1. ASSUME NEW i \in 1 .. Len(toks), NEW j \in 1 .. Len(toks), i =< j, j - i = m
        PROVE  Holds(i, j)
    <3>1. ASSUME NEW b \in i .. j - 1 PROVE Holds(i, b)
      <4>1. b \in 1 .. Len(toks) /\ i =< b /\ b - i \in 0 .. Len(toks) /\ b - i < m
        BY <2>1
      <4>2. b - i \in Good
        BY <1>2, <4>1
      <4> QED BY <4>1, <4>2
    <3> QED BY <1>1, <2>1, <3>1
  <2> QED BY <2>1
<1>3. \A m \in 0 .. Len(toks) : m \in Good
  <2>1. Len(toks) \in Nat
    OBVIOUS
  <2> HIDE DEF Good
  <2> QED BY <1>2, <2>1, UpTo, Zenon
<1>4. ASSUME NEW i \in 1 .. Len(toks), NEW j \in 1 .. Len(toks), NEW x, RightJoins(toks, means, op, sub, i, j, x)
      PROVE  x \in means[<<op, i, j>>]
  <2>1. i =< j
    BY <1>4 DEF RightJoins
  <2>2. j - i \in 0 .. Len(toks)
    BY <2>1
  <2>3. j - i \in Good
    BY <1>3, <2>2
  <2>4. Holds(i, j)
    BY <2>1, <2>3
  <2> QED BY <1>4, <2>4 DEF Holds
<1> QED BY <1>4

-----------------------------------------------------------------------------
(* The conditions of Sigma rules: what is parsed is what is meant. *)

\* A text that names no more than the rule's selections, how it is parsed and what its phrases mean.
Setting(toks, p, means) ==
  /\ toks \in Seq(Tokens)
  /\ \A i \in DOMAIN toks : toks[i] \notin Inherited
  /\ p \in Parsings(toks) /\ \A d \in ParseCalls(toks) : p[d] = Descent(toks, p, d)
  /\ \A f \in Sorts, i, j \in 1 .. Len(toks) : i =< j => means[<<f, i, j>>] = Rule(toks, means, f, i, j)

\* A parse that succeeds returns one of the meanings of what it has read.
Sound(toks, p, means, f, i) ==
  p[<<f, i>>].ok =>
    /\ p[<<f, i>>].next - 1 \in i .. Len(toks)
    /\ p[<<f, i>>].sat \in means[<<f, i, p[<<f, i>>].next - 1>>]

\* Every meaning of a phrase that no operator of its sort follows is what the parse returns.
Follow(f) == CASE f = "or" -> {"or", "and"} [] f = "and" -> {"and"} [] OTHER -> {}
Full(toks, p, means, f, i) ==
  \A j \in i .. Len(toks) : \A m \in means[<<f, i, j>>] :
    TokenAt(toks, j + 1) \notin Follow(f) => p[<<f, i>>] = Parsed(m, j + 1)

LEMMA ParsesAre ==
  ASSUME NEW toks, NEW p, NEW means, Setting(toks, p, means), NEW i \in 1 .. Len(toks) + 2
  PROVE  /\ p[<<"or", i>>] = Chain(toks, p, "or", "and", i)
         /\ p[<<"and", i>>] = Chain(toks, p, "and", "not", i)
         /\ p[<<"not", i>>] = NotExpr(toks, p, i)
         /\ p[<<"primary", i>>] = Primary(toks, p, i)
<1>1. ASSUME NEW f \in Sorts PROVE p[<<f, i>>] = Descent(toks, p, <<f, i>>)
  <2>1. <<f, i>> \in ParseCalls(toks)
    BY DEF ParseCalls
  <2> QED BY <2>1 DEF Setting
<1>2. /\ Descent(toks, p, <<"or", i>>) = Chain(toks, p, "or", "and", i)
      /\ Descent(toks, p, <<"and", i>>) = Chain(toks, p, "and", "not", i)
      /\ Descent(toks, p, <<"not", i>>) = NotExpr(toks, p, i)
      /\ Descent(toks, p, <<"primary", i>>) = Primary(toks, p, i)
  BY DEF Descent
<1>3. "or" \in Sorts /\ "and" \in Sorts /\ "not" \in Sorts /\ "primary" \in Sorts
  BY DEF Sorts
<1> QED BY <1>1, <1>2, <1>3, Zenon

LEMMA MeaningsAre ==
  ASSUME NEW toks, NEW p, NEW means, Setting(toks, p, means)
  PROVE  /\ LeftRule(toks, means, "or", "and") /\ LeftRule(toks, means, "and", "not")
         /\ \A i, j \in 1 .. Len(toks) : \A x : i =< j =>
              (x \in means[<<"not", i, j>>] <=> x \in means[<<"primary", i, j>>] \/ Negates(toks, means, i, j, x))
         /\ \A i, j \in 1 .. Len(toks) : i =< j => means[<<"primary", i, j>>] = Rule(toks, means, "primary", i, j)
<1>1. ASSUME NEW f \in Sorts, NEW i \in 1 .. Len(toks), NEW j \in 1 .. Len(toks), i =< j
      PROVE  means[<<f, i, j>>] = Rule(toks, means, f, i, j)
  BY <1>1 DEF Setting
<1>2. "or" \in Sorts /\ "and" \in Sorts /\ "not" \in Sorts /\ "primary" \in Sorts
  BY DEF Sorts
<1>3. LeftRule(toks, means, "or", "and")
  <2>1. ASSUME NEW i \in 1 .. Len(toks), NEW j \in 1 .. Len(toks), NEW x, i =< j
        PROVE  x \in means[<<"or", i, j>>] <=> x \in means[<<"and", i, j>>] \/ Joins(toks, means, "or", "and", i, j, x)
    <3>1. means[<<"or", i, j>>] = Rule(toks, means, "or", i, j)
      BY <1>1, <1>2, <2>1
    <3> QED BY <3>1, RuleMembers, Zenon
  <2> QED BY <2>1, Zenon DEF LeftRule
<1>4. LeftRule(toks, means, "and", "not")
  <2>1. ASSUME NEW i \in 1 .. Len(toks), NEW j \in 1 .. Len(toks), NEW x, i =< j
        PROVE  x \in means[<<"and", i, j>>] <=> x \in means[<<"not", i, j>>] \/ Joins(toks, means, "and", "not", i, j, x)
    <3>1. means[<<"and", i, j>>] = Rule(toks, means, "and", i, j)
      BY <1>1, <1>2, <2>1
    <3> QED BY <3>1, RuleMembers, Zenon
  <2> QED BY <2>1, Zenon DEF LeftRule
<1>5. \A i, j \in 1 .. Len(toks) : \A x : i =< j =>
        (x \in means[<<"not", i, j>>] <=> x \in means[<<"primary", i, j>>] \/ Negates(toks, means, i, j, x))
  <2>1. ASSUME NEW i \in 1 .. Len(toks), NEW j \in 1 .. Len(toks), NEW x, i =< j
        PROVE  x \in means[<<"not", i, j>>] <=> x \in means[<<"primary", i, j>>] \/ Negates(toks, means, i, j, x)
    <3>1. means[<<"not", i, j>>] = Rule(toks, means, "not", i, j)
      BY <1>1, <1>2, <2>1
    <3> QED BY <3>1, RuleMembers, Zenon
  <2> QED BY <2>1
<1> QED BY <1>1, <1>2, <1>3, <1>4, <1>5

LEMMA ChainIsSound ==
  ASSUME NEW toks, NEW p, NEW means, Setting(toks, p, means), NEW op \in {"or", "and"}, NEW sub \in Sorts,
         LeftRule(toks, means, op, sub), NEW i \in 1 .. Len(toks) + 2,
         p[<<op, i>>] = Chain(toks, p, op, sub, i), Sound(toks, p, means, sub, i),
         \A j \in i + 1 .. Len(toks) + 2 : Sound(toks, p, means, op, j)
  PROVE  Sound(toks, p, means, op, i)
<1>0. toks \in Seq(Tokens) /\ p \in Parsings(toks) /\ op \in Sorts /\ op # "end"
  BY DEF Setting, Sorts
<1>1. PICK left : left = p[<<sub, i>>]
  OBVIOUS
<1>2. left.ok => left.next \in Nat /\ left.next - 1 \in i .. Len(toks) /\ left.sat \in means[<<sub, i, left.next - 1>>]
  BY <1>0, <1>1, CallReturns DEF Sound
<1>3. CASE ~left.ok \/ TokenAt(toks, left.next) # op
  <2>1. p[<<op, i>>] = left
    BY <1>1, <1>3 DEF Chain
  <2>2. left.ok => left.sat \in means[<<op, i, left.next - 1>>]
    <3>1. left.ok => i \in 1 .. Len(toks) /\ left.next - 1 \in 1 .. Len(toks) /\ i =< left.next - 1
      BY <1>2
    <3> QED BY <1>2, <3>1, SubIsOp
  <2> QED BY <1>2, <2>1, <2>2 DEF Sound
<1>4. CASE left.ok /\ TokenAt(toks, left.next) = op
  <2>1. PICK k : k = left.next
    OBVIOUS
  <2>2. k \in 1 .. Len(toks) /\ toks[k] = op
    BY <1>0, <1>2, <1>4, <2>1, TokenIsThere
  <2>3. k + 1 \in i + 1 .. Len(toks) + 2 /\ i \in 1 .. Len(toks) /\ k - 1 \in i .. Len(toks)
    BY <1>2, <1>4, <2>1, <2>2
  <2>4. PICK right : right = p[<<op, k + 1>>]
    OBVIOUS
  <2>5. CASE ~right.ok
    <3>1. p[<<op, i>>] = Unsupported
      BY <1>1, <1>4, <2>1, <2>4, <2>5 DEF Chain
    <3> QED BY <3>1, ParsedIsOutcome DEF Sound
  <2>6. CASE right.ok
    <3>1. p[<<op, i>>] = Parsed(Join(op, left.sat, right.sat), right.next)
      BY <1>1, <1>4, <2>1, <2>4, <2>6 DEF Chain, Join
    <3>2. Sound(toks, p, means, op, k + 1)
      BY <2>3
    <3>3. right.next \in Nat /\ right.next - 1 \in k + 1 .. Len(toks) /\ right.sat \in means[<<op, k + 1, right.next - 1>>]
      <4>1. k + 1 \in 1 .. Len(toks) + 2
        BY <2>2
      <4>2. right.next \in Nat
        BY <1>0, <2>4, <4>1, CallReturns
      <4> QED BY <2>4, <2>6, <3>2, <4>2 DEF Sound
    <3>4. PICK j : j = right.next - 1
      OBVIOUS
    <3>5. j \in i .. Len(toks) /\ j \in 1 .. Len(toks) /\ k \in i + 1 .. j - 1
      BY <2>2, <2>3, <3>3, <3>4
    <3>6. left.sat \in means[<<sub, i, k - 1>>] /\ right.sat \in means[<<op, k + 1, j>>]
      BY <1>2, <1>4, <2>1, <3>3, <3>4
    <3>7. RightJoins(toks, means, op, sub, i, j, Join(op, left.sat, right.sat))
      BY <2>2, <3>5, <3>6 DEF RightJoins
    <3>8. Join(op, left.sat, right.sat) \in means[<<op, i, j>>]
      BY <1>0, <2>3, <3>5, <3>7, RightIsLeft
    <3> QED BY <3>1, <3>4, <3>5, <3>8, ParsedFields DEF Sound
  <2> QED BY <2>5, <2>6
<1> QED BY <1>3, <1>4

LEMMA NotIsSound ==
  ASSUME NEW toks, NEW p, NEW means, Setting(toks, p, means), NEW i \in 1 .. Len(toks) + 2,
         Sound(toks, p, means, "primary", i), \A j \in i + 1 .. Len(toks) + 2 : Sound(toks, p, means, "not", j)
  PROVE  Sound(toks, p, means, "not", i)
<1>0. toks \in Seq(Tokens) /\ p \in Parsings(toks) /\ "not" \in Sorts /\ "primary" \in Sorts
  BY DEF Setting, Sorts
<1>1. p[<<"not", i>>] = NotExpr(toks, p, i)
  BY ParsesAre
<1>2. CASE TokenAt(toks, i) # "not"
  <2>1. p[<<"not", i>>] = p[<<"primary", i>>]
    BY <1>1, <1>2 DEF NotExpr
  <2>2. PICK inner : inner = p[<<"primary", i>>]
    OBVIOUS
  <2>3. inner.ok => inner.next - 1 \in i .. Len(toks) /\ inner.sat \in means[<<"primary", i, inner.next - 1>>]
    BY <2>2 DEF Sound
  <2>4. inner.ok => i \in 1 .. Len(toks) /\ inner.next - 1 \in 1 .. Len(toks) /\ i =< inner.next - 1
    BY <2>3
  <2>5. inner.ok => inner.sat \in means[<<"not", i, inner.next - 1>>]
    BY <2>3, <2>4, MeaningsAre
  <2> QED BY <2>1, <2>2, <2>3, <2>5 DEF Sound
<1>3. CASE TokenAt(toks, i) = "not"
  <2>1. i \in 1 .. Len(toks) /\ toks[i] = "not"
    BY <1>0, <1>3, TokenIsThere
  <2>2. PICK inner : inner = p[<<"not", i + 1>>]
    OBVIOUS
  <2>3. i + 1 \in i + 1 .. Len(toks) + 2 /\ i + 1 \in 1 .. Len(toks) + 2
    BY <2>1
  <2>4. inner.next \in Nat
    BY <1>0, <2>2, <2>3, CallReturns
  <2>5. inner.ok => inner.next - 1 \in i + 1 .. Len(toks) /\ inner.sat \in means[<<"not", i + 1, inner.next - 1>>]
    BY <2>2, <2>3 DEF Sound
  <2>6. p[<<"not", i>>] = IF inner.ok THEN Parsed(Events \ inner.sat, inner.next) ELSE Unsupported
    BY <1>1, <1>3, <2>2 DEF NotExpr
  <2>7. CASE ~inner.ok
    BY <2>6, <2>7, ParsedIsOutcome DEF Sound
  <2>8. CASE inner.ok
    <3>1. PICK j : j = inner.next - 1
      OBVIOUS
    <3>2. j \in 1 .. Len(toks) /\ i < j /\ j \in i .. Len(toks) /\ i =< j
      BY <2>1, <2>5, <2>8, <3>1
    <3>3. Negates(toks, means, i, j, Events \ inner.sat)
      BY <2>1, <2>5, <2>8, <3>1, <3>2 DEF Negates
    <3>4. Events \ inner.sat \in means[<<"not", i, j>>]
      BY <2>1, <3>2, <3>3, MeaningsAre
    <3> QED BY <2>6, <2>8, <3>1, <3>2, <3>4, ParsedFields DEF Sound
  <2> QED BY <2>7, <2>8
<1> QED BY <1>2, <1>3

LEMMA TokensOfKinds ==
  ASSUME Selections \cap Operators = {}
  PROVE  /\ \A t \in Selections : t # "(" /\ t # "not" /\ t \notin Quantifiers
         /\ \A t \in Quantifiers : t # "(" /\ t # "not"
         /\ "end" \notin Selections /\ "end" \notin Quantifiers /\ "end" \notin Inherited /\ Pick("end") = {}
<1>1. {"(", "not"} \cup Quantifiers \subseteq Operators
  BY DEF Quantifiers, Operators
<1>2. \A t \in Quantifiers : t # "(" /\ t # "not" /\ t # "end"
  BY DEF Quantifiers
<1>3. "end" \notin Selections /\ "end" \notin DOMAIN Patterns /\ "end" \notin Inherited
  BY ConditionsAssumption
<1>4. Pick("end") = {}
  BY <1>3 DEF Pick
<1> QED BY <1>1, <1>2, <1>3, <1>4

\* What a phrase that no operator joins is.
PrimaryIs(toks, means, i, j, S) ==
  /\ i = j /\ toks[i] \in Selections => S = {Satisfying(toks[i])}
  /\ j > i + 1 /\ toks[i] = "(" /\ toks[j] = ")" => S = means[<<"or", i + 1, j - 1>>]
  /\ j = i + 2 /\ toks[i] \in Quantifiers /\ toks[i + 1] = "of" /\ Pick(toks[j]) # {} =>
       S = {Quantified(toks[i], Pick(toks[j]))}
  /\ S # {} =>
       \/ i = j /\ toks[i] \in Selections
       \/ j > i + 1 /\ toks[i] = "(" /\ toks[j] = ")"
       \/ j = i + 2 /\ toks[i] \in Quantifiers /\ toks[i + 1] = "of" /\ Pick(toks[j]) # {}

LEMMA PrimaryPhrases ==
  ASSUME NEW toks, NEW p, NEW means, Setting(toks, p, means)
  PROVE  \A i, j \in 1 .. Len(toks) : i =< j => PrimaryIs(toks, means, i, j, means[<<"primary", i, j>>])
<1> TAKE i \in 1 .. Len(toks), j \in 1 .. Len(toks)
<1>1. Rule(toks, means, "primary", i, j) =
        IF i = j /\ toks[i] \in Selections THEN {Satisfying(toks[i])}
        ELSE IF j > i + 1 /\ toks[i] = "(" /\ toks[j] = ")" THEN means[<<"or", i + 1, j - 1>>]
        ELSE IF j = i + 2 /\ toks[i] \in Quantifiers /\ toks[i + 1] = "of" /\ Pick(toks[j]) # {}
        THEN {Quantified(toks[i], Pick(toks[j]))} ELSE {}
  BY DEF Rule
<1>2. toks[i] \in Quantifiers => toks[i] # "("
  BY DEF Quantifiers
<1>3. i =< j => means[<<"primary", i, j>>] = Rule(toks, means, "primary", i, j)
  BY MeaningsAre
<1>4. PrimaryIs(toks, means, i, j, Rule(toks, means, "primary", i, j))
  BY <1>1, <1>2 DEF PrimaryIs
<1> QED BY <1>3, <1>4

LEMMA PrimaryIsSound ==
  ASSUME NEW toks, NEW p, NEW means, Setting(toks, p, means), Selections \cap Operators = {},
         NEW i \in 1 .. Len(toks) + 2, \A j \in i + 1 .. Len(toks) + 2 : Sound(toks, p, means, "or", j)
  PROVE  Sound(toks, p, means, "primary", i)
<1>0. toks \in Seq(Tokens) /\ p \in Parsings(toks) /\ "or" \in Sorts
  BY DEF Setting, Sorts
<1>1. p[<<"primary", i>>] = Primary(toks, p, i)
  BY ParsesAre
<1>2. PICK t : t = TokenAt(toks, i)
  OBVIOUS
<1>3. t # "end" => i \in 1 .. Len(toks) /\ toks[i] = t
  BY <1>0, <1>2, TokenIsThere
<1>4. t \notin Inherited
  <2>1. CASE t = "end"
    BY <2>1, TokensOfKinds
  <2>2. CASE t # "end"
    BY <1>0, <1>3, <2>2 DEF Setting
  <2> QED BY <2>1, <2>2
<1>5. CASE t = "("
  <2>1. i \in 1 .. Len(toks) /\ toks[i] = "("
    BY <1>3, <1>5
  <2>2. PICK inner : inner = p[<<"or", i + 1>>]
    OBVIOUS
  <2>3. i + 1 \in i + 1 .. Len(toks) + 2 /\ i + 1 \in 1 .. Len(toks) + 2
    BY <2>1
  <2>4. inner.next \in Nat
    BY <1>0, <2>2, <2>3, CallReturns
  <2>5. inner.ok => inner.next - 1 \in i + 1 .. Len(toks) /\ inner.sat \in means[<<"or", i + 1, inner.next - 1>>]
    BY <2>2, <2>3 DEF Sound
  <2>6. CASE ~(inner.ok /\ TokenAt(toks, inner.next) = ")")
    <3>1. p[<<"primary", i>>] = Unsupported
      BY <1>1, <1>2, <1>5, <2>2, <2>6 DEF Primary
    <3> QED BY <3>1, ParsedIsOutcome DEF Sound
  <2>7. CASE inner.ok /\ TokenAt(toks, inner.next) = ")"
    <3>1. p[<<"primary", i>>] = Parsed(inner.sat, inner.next + 1)
      BY <1>1, <1>2, <1>5, <2>2, <2>7 DEF Primary
    <3>2. PICK j : j = inner.next
      OBVIOUS
    <3>3. j \in 1 .. Len(toks) /\ toks[j] = ")"
      BY <1>0, <2>4, <2>7, <3>2, TokenIsThere
    <3>4. j > i + 1 /\ i =< j /\ j \in i .. Len(toks) /\ j + 1 - 1 = j
      BY <2>1, <2>5, <2>7, <3>2, <3>3
    <3>5. means[<<"primary", i, j>>] = means[<<"or", i + 1, j - 1>>]
      <4>1. PrimaryIs(toks, means, i, j, means[<<"primary", i, j>>])
        BY <2>1, <3>3, <3>4, PrimaryPhrases
      <4> QED BY <2>1, <3>3, <3>4, <4>1 DEF PrimaryIs
    <3>6. inner.sat \in means[<<"primary", i, j>>]
      BY <2>5, <2>7, <3>2, <3>5
    <3>7. p[<<"primary", i>>].sat = inner.sat /\ p[<<"primary", i>>].next = j + 1
      BY <3>1, <3>2, ParsedFields
    <3> QED BY <3>4, <3>6, <3>7 DEF Sound
  <2> QED BY <2>6, <2>7
<1>6. CASE t # "(" /\ t \in Quantifiers /\ TokenAt(toks, i + 1) = "of"
  <2>1. PICK S : S = Pick(TokenAt(toks, i + 2))
    OBVIOUS
  <2>2. p[<<"primary", i>>] = IF S # {} THEN Parsed(Quantified(t, S), i + 3) ELSE Unsupported
    BY <1>1, <1>2, <1>6, <2>1 DEF Primary
  <2>3. CASE S = {}
    BY <2>2, <2>3, ParsedIsOutcome DEF Sound
  <2>4. CASE S # {}
    <3>1. TokenAt(toks, i + 2) # "end"
      BY <2>1, <2>4, TokensOfKinds
    <3>2. i + 2 \in 1 .. Len(toks) /\ TokenAt(toks, i + 2) = toks[i + 2]
      <4>1. i + 2 \in Nat
        OBVIOUS
      <4> QED BY <1>0, <3>1, <4>1, TokenIsThere
    <3>3. PICK j : j = i + 2
      OBVIOUS
    <3>4. i \in 1 .. Len(toks) /\ j \in 1 .. Len(toks) /\ i =< j /\ j \in i .. Len(toks) /\ i + 3 - 1 = j /\ i + 1 \in Nat
          /\ i + 1 \in 1 .. Len(toks)
      BY <3>2, <3>3
    <3>5. toks[i] = t /\ toks[i + 1] = "of" /\ S = Pick(toks[j])
      BY <1>0, <1>2, <1>6, <2>1, <3>2, <3>3, <3>4, TokenIsThere
    <3>6. means[<<"primary", i, j>>] = {Quantified(t, S)}
      <4>1. toks[i] \in Quantifiers /\ toks[i + 1] = "of" /\ Pick(toks[j]) # {}
        BY <1>6, <2>4, <3>5
      <4>2. means[<<"primary", i, j>>] = {Quantified(toks[i], Pick(toks[j]))}
        <5>1. PrimaryIs(toks, means, i, j, means[<<"primary", i, j>>])
          BY <3>4, PrimaryPhrases
        <5> QED BY <3>3, <4>1, <5>1 DEF PrimaryIs
      <4> QED BY <3>5, <4>2
    <3>7. p[<<"primary", i>>] = Parsed(Quantified(t, S), i + 3)
      BY <2>2, <2>4
    <3>8. p[<<"primary", i>>].sat = Quantified(t, S) /\ p[<<"primary", i>>].next = i + 3
      BY <3>7, ParsedFields
    <3> QED BY <3>4, <3>6, <3>8 DEF Sound
  <2> QED BY <2>3, <2>4
<1>7. CASE t # "(" /\ ~(t \in Quantifiers /\ TokenAt(toks, i + 1) = "of")
  <2>1. p[<<"primary", i>>] = IF t \in Selections THEN Parsed(Satisfying(t), i + 1) ELSE Unsupported
    BY <1>1, <1>2, <1>4, <1>7 DEF Primary
  <2>2. CASE t \notin Selections
    BY <2>1, <2>2, ParsedIsOutcome DEF Sound
  <2>3. CASE t \in Selections
    <3>1. i \in 1 .. Len(toks) /\ toks[i] = t /\ i =< i /\ i \in i .. Len(toks) /\ i + 1 - 1 = i
      BY <1>3, <2>3, TokensOfKinds
    <3>2. means[<<"primary", i, i>>] = {Satisfying(t)}
      <4>1. PICK j \in 1 .. Len(toks) : j = i /\ i =< j
        BY <3>1
      <4>2. toks[i] \in Selections
        BY <2>3, <3>1
      <4>3. means[<<"primary", i, j>>] = {Satisfying(toks[i])}
        <5>1. PrimaryIs(toks, means, i, j, means[<<"primary", i, j>>])
          BY <3>1, <4>1, PrimaryPhrases
        <5> QED BY <4>1, <4>2, <5>1 DEF PrimaryIs
      <4> QED BY <3>1, <4>1, <4>3
    <3>3. p[<<"primary", i>>] = Parsed(Satisfying(t), i + 1)
      BY <2>1, <2>3
    <3>4. p[<<"primary", i>>].sat = Satisfying(t) /\ p[<<"primary", i>>].next = i + 1
      BY <3>3, ParsedFields
    <3> QED BY <3>1, <3>2, <3>4 DEF Sound
  <2> QED BY <2>2, <2>3
<1> QED BY <1>5, <1>6, <1>7

LEMMA ChainIsFull ==
  ASSUME NEW toks, NEW p, NEW means, Setting(toks, p, means), NEW op \in {"or", "and"}, NEW sub \in Sorts,
         LeftRule(toks, means, op, sub), Follow(sub) \subseteq Follow(op), op \in Follow(op), op \notin Follow(sub),
         NEW i \in 1 .. Len(toks) + 2, p[<<op, i>>] = Chain(toks, p, op, sub, i), Full(toks, p, means, sub, i),
         \A j \in i + 1 .. Len(toks) + 2 : Full(toks, p, means, op, j)
  PROVE  Full(toks, p, means, op, i)
<1>1. SUFFICES ASSUME NEW j \in i .. Len(toks), NEW m \in means[<<op, i, j>>], TokenAt(toks, j + 1) \notin Follow(op)
               PROVE  p[<<op, i>>] = Parsed(m, j + 1)
  BY DEF Full
<1>2. toks \in Seq(Tokens) /\ i \in 1 .. Len(toks) /\ j \in 1 .. Len(toks) /\ i =< j
  BY DEF Setting
<1>3. m \in means[<<sub, i, j>>] \/ RightJoins(toks, means, op, sub, i, j, m)
  BY <1>2, LeftIsRight
<1>4. PICK left : left = p[<<sub, i>>]
  OBVIOUS
<1>5. CASE m \in means[<<sub, i, j>>]
  <2>1. TokenAt(toks, j + 1) \notin Follow(sub) /\ TokenAt(toks, j + 1) # op
    BY <1>1
  <2>2. left = Parsed(m, j + 1)
    BY <1>4, <1>5, <2>1 DEF Full
  <2>3. left.next = j + 1
    BY <2>2, ParsedFields
  <2>4. Chain(toks, p, op, sub, i) = left
    BY <1>4, <2>1, <2>3 DEF Chain
  <2> QED BY <2>2, <2>4
<1>6. CASE RightJoins(toks, means, op, sub, i, j, m)
  <2>1. PICK k \in i + 1 .. j - 1 : toks[k] = op /\ \E l \in means[<<sub, i, k - 1>>], r \in means[<<op, k + 1, j>>] :
          m = Join(op, l, r)
    BY <1>6 DEF RightJoins
  <2>2. PICK l \in means[<<sub, i, k - 1>>], r \in means[<<op, k + 1, j>>] : m = Join(op, l, r)
    BY <2>1
  <2>3. k - 1 \in i .. Len(toks) /\ k - 1 + 1 = k /\ k \in 1 .. Len(toks)
        /\ k + 1 \in i + 1 .. Len(toks) + 2 /\ j \in k + 1 .. Len(toks)
    BY <1>2
  <2>4. TokenAt(toks, k) = op
    BY <1>2, <2>1, <2>3, TokenIsThere
  <2>5. left = Parsed(l, k)
    BY <1>4, <2>3, <2>4 DEF Full
  <2>6. left.ok /\ left.sat = l /\ left.next = k
    BY <2>5, ParsedFields
  <2>7. PICK right : right = p[<<op, k + 1>>]
    OBVIOUS
  <2>8. right = Parsed(r, j + 1)
    <3>1. Full(toks, p, means, op, k + 1)
      BY <2>3
    <3> QED BY <1>1, <2>3, <2>7, <3>1 DEF Full
  <2>9. right.ok /\ right.sat = r /\ right.next = j + 1
    BY <2>8, ParsedFields
  <2>10. Chain(toks, p, op, sub, i) = Parsed(Join(op, l, r), j + 1)
    BY <1>4, <2>4, <2>6, <2>7, <2>9 DEF Chain, Join
  <2> QED BY <2>2, <2>10
<1> QED BY <1>3, <1>5, <1>6

LEMMA NotIsFull ==
  ASSUME NEW toks, NEW p, NEW means, Setting(toks, p, means), Selections \cap Operators = {},
         NEW i \in 1 .. Len(toks) + 2, Full(toks, p, means, "primary", i),
         \A j \in i + 1 .. Len(toks) + 2 : Full(toks, p, means, "not", j)
  PROVE  Full(toks, p, means, "not", i)
<1>1. SUFFICES ASSUME NEW j \in i .. Len(toks), NEW m \in means[<<"not", i, j>>] PROVE p[<<"not", i>>] = Parsed(m, j + 1)
  BY DEF Full
<1>2. toks \in Seq(Tokens) /\ i \in 1 .. Len(toks) /\ j \in 1 .. Len(toks) /\ i =< j /\ TokenAt(toks, i) = toks[i]
  BY TokenIsThere DEF Setting
<1>3. p[<<"not", i>>] = NotExpr(toks, p, i)
  BY ParsesAre
<1>4. m \in means[<<"primary", i, j>>] \/ Negates(toks, means, i, j, m)
  BY <1>2, MeaningsAre
<1>5. Follow("not") = {} /\ Follow("primary") = {}
  BY DEF Follow
<1>6. CASE m \in means[<<"primary", i, j>>]
  <2>1. toks[i] # "not"
    <3>1. toks[i] \in Selections \/ toks[i] = "(" \/ toks[i] \in Quantifiers
      <4>1. PrimaryIs(toks, means, i, j, means[<<"primary", i, j>>])
        BY <1>2, PrimaryPhrases
      <4> QED BY <1>6, <4>1 DEF PrimaryIs
    <3> QED BY <3>1, TokensOfKinds
  <2>2. p[<<"primary", i>>] = Parsed(m, j + 1)
    BY <1>5, <1>6 DEF Full
  <2> QED BY <1>2, <1>3, <2>1, <2>2 DEF NotExpr
<1>7. CASE Negates(toks, means, i, j, m)
  <2>1. PICK a \in means[<<"not", i + 1, j>>] : m = Events \ a
    BY <1>7 DEF Negates
  <2>2. toks[i] = "not" /\ i < j
    BY <1>7 DEF Negates
  <2>3. i + 1 \in i + 1 .. Len(toks) + 2 /\ j \in i + 1 .. Len(toks)
    BY <1>2, <2>2
  <2>4. p[<<"not", i + 1>>] = Parsed(a, j + 1)
    <3>1. Full(toks, p, means, "not", i + 1)
      BY <2>3
    <3> QED BY <1>5, <2>3, <3>1 DEF Full
  <2>5. PICK inner : inner = p[<<"not", i + 1>>]
    OBVIOUS
  <2>6. inner.ok /\ inner.sat = a /\ inner.next = j + 1
    BY <2>4, <2>5, ParsedFields
  <2>7. NotExpr(toks, p, i) = Parsed(Events \ a, j + 1)
    BY <1>2, <2>2, <2>5, <2>6 DEF NotExpr
  <2> QED BY <1>3, <2>1, <2>7
<1> QED BY <1>4, <1>6, <1>7

LEMMA PrimaryIsFull ==
  ASSUME NEW toks, NEW p, NEW means, Setting(toks, p, means), Selections \cap Operators = {},
         NEW i \in 1 .. Len(toks) + 2, \A j \in i + 1 .. Len(toks) + 2 : Full(toks, p, means, "or", j)
  PROVE  Full(toks, p, means, "primary", i)
<1>1. SUFFICES ASSUME NEW j \in i .. Len(toks), NEW m \in means[<<"primary", i, j>>]
               PROVE  p[<<"primary", i>>] = Parsed(m, j + 1)
  BY DEF Full
<1>2. toks \in Seq(Tokens) /\ i \in 1 .. Len(toks) /\ j \in 1 .. Len(toks) /\ i =< j /\ TokenAt(toks, i) = toks[i]
  BY TokenIsThere DEF Setting
<1>3. p[<<"primary", i>>] = Primary(toks, p, i)
  BY ParsesAre
<1>3a. PrimaryIs(toks, means, i, j, means[<<"primary", i, j>>])
  BY <1>2, PrimaryPhrases
<1>4. CASE i = j /\ toks[i] \in Selections
  <2>1. m = Satisfying(toks[i])
    BY <1>1, <1>2, <1>3a, <1>4 DEF PrimaryIs
  <2>2. toks[i] # "(" /\ toks[i] \notin Quantifiers
    BY <1>4, TokensOfKinds
  <2>3. Primary(toks, p, i) = Parsed(Satisfying(toks[i]), i + 1)
    BY <1>2, <1>4, <2>2 DEF Primary
  <2> QED BY <1>3, <1>4, <2>1, <2>3
<1>5. CASE j > i + 1 /\ toks[i] = "(" /\ toks[j] = ")"
  <2>1. m \in means[<<"or", i + 1, j - 1>>]
    BY <1>1, <1>2, <1>3a, <1>5 DEF PrimaryIs
  <2>2. i + 1 \in i + 1 .. Len(toks) + 2 /\ j - 1 \in i + 1 .. Len(toks) /\ j - 1 + 1 = j
    BY <1>2, <1>5
  <2>3. TokenAt(toks, j) = ")" /\ ")" \notin Follow("or")
    BY <1>2, <1>5, TokenIsThere DEF Follow
  <2>4. p[<<"or", i + 1>>] = Parsed(m, j)
    <3>1. Full(toks, p, means, "or", i + 1)
      BY <2>2
    <3> QED BY <2>1, <2>2, <2>3, <3>1 DEF Full
  <2>5. PICK inner : inner = p[<<"or", i + 1>>]
    OBVIOUS
  <2>6. inner.ok /\ inner.sat = m /\ inner.next = j
    BY <2>4, <2>5, ParsedFields
  <2>7. Primary(toks, p, i) = Parsed(m, j + 1)
    BY <1>2, <1>5, <2>3, <2>5, <2>6 DEF Primary
  <2> QED BY <1>3, <2>7
<1>6. CASE j = i + 2 /\ toks[i] \in Quantifiers /\ toks[i + 1] = "of" /\ Pick(toks[j]) # {}
  <2>1. m = Quantified(toks[i], Pick(toks[j]))
    BY <1>1, <1>2, <1>3a, <1>6 DEF PrimaryIs
  <2>2. toks[i] # "("
    BY <1>6, TokensOfKinds
  <2>3. i + 1 \in 1 .. Len(toks) /\ i + 3 = j + 1
    BY <1>2, <1>6
  <2>4. TokenAt(toks, i + 1) = "of" /\ TokenAt(toks, i + 2) = toks[j]
    BY <1>2, <1>6, <2>3, TokenIsThere
  <2>5. Primary(toks, p, i) = Parsed(Quantified(toks[i], Pick(toks[j])), i + 3)
    BY <1>2, <1>6, <2>2, <2>4 DEF Primary
  <2> QED BY <1>3, <2>1, <2>3, <2>5
<1> QED BY <1>1, <1>2, <1>3a, <1>4, <1>5, <1>6 DEF PrimaryIs

\* Downwards from the end of the text.
Right(toks, p, means, i) == \A f \in Sorts : Sound(toks, p, means, f, i) /\ Full(toks, p, means, f, i)

LEMMA ParserIsRight ==
  ASSUME NEW toks, NEW p, NEW means, Setting(toks, p, means), Selections \cap Operators = {}
  PROVE  \A i \in 1 .. Len(toks) + 2 : Right(toks, p, means, i)
<1> DEFINE n == Len(toks) + 1
           Good == {m \in 0 .. n : Right(toks, p, means, Len(toks) + 2 - m)}
<1>0. Len(toks) \in Nat
  BY DEF Setting
<1>1. ASSUME NEW i \in 1 .. Len(toks) + 2, \A j \in i + 1 .. Len(toks) + 2 : Right(toks, p, means, j)
      PROVE  Right(toks, p, means, i)
  <2>0. "or" \in Sorts /\ "and" \in Sorts /\ "not" \in Sorts /\ "primary" \in Sorts
    BY DEF Sorts
  <2>1. \A f \in Sorts : \A j \in i + 1 .. Len(toks) + 2 : Sound(toks, p, means, f, j) /\ Full(toks, p, means, f, j)
    BY <1>1 DEF Right
  <2>2. Sound(toks, p, means, "primary", i) /\ Full(toks, p, means, "primary", i)
    BY <2>0, <2>1, PrimaryIsSound, PrimaryIsFull
  <2>3. Sound(toks, p, means, "not", i) /\ Full(toks, p, means, "not", i)
    BY <2>0, <2>1, <2>2, NotIsSound, NotIsFull
  <2>4. Sound(toks, p, means, "and", i) /\ Full(toks, p, means, "and", i)
    <3>1. LeftRule(toks, means, "and", "not") /\ p[<<"and", i>>] = Chain(toks, p, "and", "not", i)
      BY MeaningsAre, ParsesAre
    <3>2. Follow("not") \subseteq Follow("and") /\ "and" \in Follow("and") /\ "and" \notin Follow("not")
      BY DEF Follow
    <3> QED BY <2>0, <2>1, <2>3, <3>1, <3>2, ChainIsSound, ChainIsFull
  <2>5. Sound(toks, p, means, "or", i) /\ Full(toks, p, means, "or", i)
    <3>1. LeftRule(toks, means, "or", "and") /\ p[<<"or", i>>] = Chain(toks, p, "or", "and", i)
      BY MeaningsAre, ParsesAre
    <3>2. Follow("and") \subseteq Follow("or") /\ "or" \in Follow("or") /\ "or" \notin Follow("and")
      BY DEF Follow
    <3> QED BY <2>0, <2>1, <2>4, <3>1, <3>2, ChainIsSound, ChainIsFull
  <2> QED BY <2>2, <2>3, <2>4, <2>5 DEF Right, Sorts
<1>2. ASSUME NEW m \in 0 .. n, \A k \in 0 .. n : k < m => k \in Good PROVE m \in Good
  <2>0. PICK i : i = Len(toks) + 2 - m
    OBVIOUS
  <2>1. i \in 1 .. Len(toks) + 2 /\ i = Len(toks) + 2 - m
    BY <1>0, <2>0
  <2>2. ASSUME NEW j \in i + 1 .. Len(toks) + 2 PROVE Right(toks, p, means, j)
    <3>1. PICK k : k = Len(toks) + 2 - j
      OBVIOUS
    <3>2. k \in 0 .. n /\ k < m /\ Len(toks) + 2 - k = j
      BY <1>0, <2>1, <3>1
    <3>3. k \in Good
      BY <1>2, <3>2
    <3> QED BY <3>2, <3>3
  <2>3. Right(toks, p, means, i)
    BY <1>1, <2>1, <2>2
  <2> QED BY <2>1, <2>3
<1>3. \A m \in 0 .. n : m \in Good
  <2>1. n \in Nat
    BY <1>0
  <2> HIDE DEF Good, n
  <2> QED BY <1>2, <2>1, UpTo, Zenon
<1>4. ASSUME NEW i \in 1 .. Len(toks) + 2 PROVE Right(toks, p, means, i)
  <2>1. PICK m : m = Len(toks) + 2 - i
    OBVIOUS
  <2>2. m \in 0 .. n /\ Len(toks) + 2 - m = i
    BY <1>0, <2>1
  <2>3. m \in Good
    BY <1>3, <2>2
  <2> QED BY <2>2, <2>3
<1> QED BY <1>4

TextOK == text \in Seq(Tokens)

LEMMA TheTextIsTokens ==
  ConditionsSpec => []TextOK
<1>1. ConditionsInit => TextOK
  BY DEF ConditionsInit, TextOK
<1>2. TextOK /\ [TypeToken]_text => TextOK'
  <2>1. ASSUME NEW t \in Tokens, TextOK, text' = Append(text, t) PROVE TextOK'
    BY <2>1 DEF TextOK
  <2> QED BY <2>1 DEF TypeToken, TextOK
<1> QED BY <1>1, <1>2, PTL DEF ConditionsSpec

LEMMA WhatCompiles ==
  ASSUME NEW toks \in Seq(Tokens), Selections \cap Operators = {}, \A i \in DOMAIN toks : toks[i] \notin Inherited
  PROVE  Meanings(toks) = IF Compile(toks).ok THEN {Compile(toks).sat} ELSE {}
<1> DEFINE n == Len(toks)
<1>1. PICK p, means : p = Parser(toks) /\ means = Grammar(toks)
  OBVIOUS
<1>2. Setting(toks, p, means)
  BY <1>1, ParserIsDefined, GrammarIsDefined, Zenon DEF Setting
<1>3. PICK d : d = p[<<"or", 1>>]
  OBVIOUS
<1>4. Compile(toks) = IF d.ok /\ d.next = Len(toks) + 1 THEN d ELSE Unsupported
  BY <1>1, <1>3, DescendIsParser DEF Compile
<1>5. Meanings(toks) = IF toks = <<>> THEN {} ELSE means[<<"or", 1, Len(toks)>>]
  BY <1>1, MeaningsAreGrammar
<1>6. Sound(toks, p, means, "or", 1) /\ Full(toks, p, means, "or", 1)
  <2>1. 1 \in 1 .. Len(toks) + 2 /\ "or" \in Sorts
    BY DEF Sorts
  <2> QED BY <1>2, <2>1, ParserIsRight DEF Right
<1>7. d.ok /\ d.next = Len(toks) + 1 => toks # <<>> /\ d.sat \in means[<<"or", 1, Len(toks)>>]
  <2>1. d.ok => d.next - 1 \in 1 .. Len(toks) /\ d.sat \in means[<<"or", 1, d.next - 1>>]
    BY <1>3, <1>6 DEF Sound
  <2>2. d.next = Len(toks) + 1 => d.next - 1 = Len(toks)
    OBVIOUS
  <2>3. toks = <<>> => Len(toks) = 0
    OBVIOUS
  <2> QED BY <2>1, <2>2, <2>3
<1>8. ASSUME NEW m \in means[<<"or", 1, Len(toks)>>], toks # <<>>
      PROVE  d.ok /\ d.next = Len(toks) + 1 /\ d.sat = m
  <2>1. Len(toks) \in 1 .. Len(toks) /\ Len(toks) + 1 \in Nat /\ Len(toks) + 1 \notin 1 .. Len(toks)
    BY <1>8
  <2>2. TokenAt(toks, Len(toks) + 1) = "end"
    BY <2>1, TokenIsThere
  <2>3. TokenAt(toks, Len(toks) + 1) \notin Follow("or")
    BY <2>2 DEF Follow
  <2>4. d = Parsed(m, Len(toks) + 1)
    BY <1>3, <1>6, <1>8, <2>1, <2>3 DEF Full
  <2> QED BY <2>4, ParsedFields
<1>9. CASE d.ok /\ d.next = Len(toks) + 1
  <2>1. Compile(toks) = d /\ toks # <<>> /\ d.sat \in Meanings(toks)
    BY <1>4, <1>5, <1>7, <1>9
  <2>2. \A m \in Meanings(toks) : m = d.sat
    BY <1>5, <1>8, <2>1
  <2> QED BY <1>9, <2>1, <2>2
<1>10. CASE ~(d.ok /\ d.next = Len(toks) + 1)
  <2>1. ~Compile(toks).ok
    BY <1>4, <1>10, ParsedIsOutcome
  <2>2. Meanings(toks) = {}
    BY <1>5, <1>8, <1>10
  <2> QED BY <2>1, <2>2
<1> QED BY <1>9, <1>10

THEOREM ConditionsMeanWhatTheyCompileTo ==
  Selections \cap Operators = {} => (ConditionsSpec => []ConditionIsMeant)
<1>1. SUFFICES ASSUME Selections \cap Operators = {} PROVE ConditionsSpec => []ConditionIsMeant
  OBVIOUS
<1>2. TextOK => ConditionIsMeant
  <2>1. SUFFICES ASSUME TextOK, {text[i] : i \in DOMAIN text} \cap Inherited = {}
                 PROVE  Meanings(text) = IF Compile(text).ok THEN {Compile(text).sat} ELSE {}
    BY Zenon DEF ConditionIsMeant
  <2>2. \A i \in DOMAIN text : text[i] \notin Inherited
    BY <2>1
  <2> QED BY <1>1, <2>1, <2>2, WhatCompiles DEF TextOK
<1>3. ConditionsSpec => []TextOK
  BY TheTextIsTokens
<1> QED BY <1>2, <1>3, PTL
=============================================================================
