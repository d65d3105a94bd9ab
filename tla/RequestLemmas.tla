---------------------------- MODULE RequestLemmas -----------------------------
(***************************************************************************)
(* What the proofs about the services of the console have in common: what a *)
(* request is made of, and what a step of one leaves of the others.         *)
(***************************************************************************)
EXTENDS Requests, FiniteSetsExt, FiniteSetTheorems, TLAPS

\* What a job is made of can be read back from it.
LEMMA JobFields ==
  ASSUME NEW pc, NEW on, NEW fields
  PROVE  /\ DOMAIN fields \cup {"pc", "on"} \subseteq DOMAIN Job(pc, on, fields)
         /\ Job(pc, on, fields).pc = pc
         /\ Job(pc, on, fields).on = on
         /\ \A x \in DOMAIN fields : x \notin {"pc", "on"} => Job(pc, on, fields)[x] = fields[x]
<1>1. DOMAIN [pc |-> pc, on |-> on] = {"pc", "on"}
  OBVIOUS
<1>2. Job(pc, on, fields) = [x \in DOMAIN fields \cup {"pc", "on"} |->
          IF x \in {"pc", "on"} THEN [pc |-> pc, on |-> on][x] ELSE fields[x]]
  BY <1>1 DEF Job, Patched
<1> QED BY <1>2

\* A step of the request of w leaves the other requests where they are.
LEMMA ContinueJob ==
  ASSUME NEW w \in Workers, NEW j, Continue(w, j), DOMAIN job = Workers
  PROVE  DOMAIN job' = Workers /\ job'[w] = j /\ \A v \in Workers \ {w} : job'[v] = job[v]
  BY DEF Continue

\* An object that is not crowded after a step was not before, and if the step works on it nobody else does.
LEMMA ContinueAlone ==
  ASSUME NEW w \in Workers, NEW j, Continue(w, j), NEW x, x # None, x \notin crowded'
  PROVE  x \notin crowded /\ (j.on = x => \A v \in Workers \ {w} : job[v].on # x)
  BY DEF Continue

\* A set of naturals that is not empty has a least element, and a greatest if it is bounded.
LEMMA LeastNatural ==
  ASSUME NEW S \in SUBSET Nat, S # {}
  PROVE  \E x \in S : \A y \in S : x <= y
<1>1. PICK x \in S : \A y \in S : ~(<<y, x>> \in OpToRel(<, Nat))
  BY NatLessThanWellFounded, WFMin
<1>2. \A y \in S : ~(y < x)
  BY <1>1 DEF OpToRel
<1> QED BY <1>2

LEMMA GreatestNatural ==
  ASSUME NEW n \in Nat, NEW S \in SUBSET (0 .. n), S # {}
  PROVE  Max(S) \in S /\ \A i \in S : i <= Max(S)
<1>1. PICK d \in Nat : n - d \in S /\ \A e \in Nat : n - e \in S => d <= e
  <2> DEFINE T == {d \in Nat : n - d \in S}
  <2>1. PICK i \in S : i \in 0 .. n
    OBVIOUS
  <2>2. n - i \in Nat /\ n - (n - i) = i
    BY <2>1
  <2>3. T # {} /\ T \in SUBSET Nat
    BY <2>2
  <2>4. \E d \in T : \A e \in T : d <= e
    <3> HIDE DEF T
    <3> QED BY <2>3, LeastNatural
  <2> QED BY <2>4
<1>2. \A k \in S : n - k \in Nat /\ n - (n - k) = k
  OBVIOUS
<1>3. ASSUME NEW k \in S PROVE n - d >= k
  <2>1. d <= n - k
    BY <1>1, <1>2
  <2> QED BY <2>1
<1> QED BY <1>1, <1>3 DEF Max

=============================================================================
