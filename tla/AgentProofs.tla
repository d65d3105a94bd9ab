----------------------------- MODULE AgentProofs -----------------------------
(***************************************************************************)
(* The log shipper of the sensor agent: its invariant, what a clean end    *)
(* leaves behind, that it implements LineDelivery, and that the lines of a *)
(* source arrive in the order they were written.                           *)
(***************************************************************************)
EXTENDS Agent, TLAPS, SequenceTheorems

-----------------------------------------------------------------------------
(* Lines of a queue. *)

\* What Lines holds.
LEMMA LinesOf ==
  ASSUME NEW S, NEW q \in Seq(S), NEW l
  PROVE  l \in Lines(q) <=> \E i \in 1 .. Len(q) : q[i] = l
BY DEF Lines, ToSet

\* The lines of a sequence over S are in S.
LEMMA LinesIn ==
  ASSUME NEW S, NEW q \in Seq(S)
  PROVE  Lines(q) \subseteq S
BY DEF Lines, ToSet

LEMMA NoLines == Lines(<<>>) = {}
BY DEF Lines, ToSet

\* A queue is a batch in front and what its splice leaves.
LEMMA BatchOfQueue ==
  ASSUME NEW S, NEW q \in Seq(S)
  PROVE  /\ Batch(q) \in Seq(S)
         /\ Lines(Batch(q)) \subseteq Lines(q)
         /\ Lines(q) \subseteq Lines(Batch(q)) \cup Lines(Splice(q, Batch(q)))
<1> DEFINE n == IF Len(q) < BATCH_LINES THEN Len(q) ELSE BATCH_LINES
<1>0. BATCH_LINES \in Nat \ {0} /\ Len(q) \in Nat
  BY ShippingAssumption
<1>1. n \in 0 .. Len(q)
  BY <1>0
<1>2. Batch(q) = SubSeq(q, 1, n)
  BY DEF Batch
<1> HIDE DEF n
<1>3. /\ Batch(q) \in Seq(S) /\ Len(Batch(q)) = n
      /\ \A i \in 1 .. n : Batch(q)[i] = q[i]
  BY <1>0, <1>1, <1>2
<1>4. Lines(Batch(q)) \subseteq Lines(q)
  BY <1>0, <1>1, <1>3 DEF Lines, ToSet
<1>5. ASSUME NEW l \in Lines(q), l \notin Lines(Batch(q))
      PROVE  l \in Lines(Splice(q, Batch(q)))
  <2>1. PICK i \in 1 .. Len(q) : q[i] = l
    BY LinesOf
  <2>2. i \notin 1 .. n
    BY <1>3, <1>5, <2>1, LinesOf
  <2>3. Splice(q, Batch(q)) = SubSeq(q, n + 1, Len(q))
    BY <1>0, <1>1, <1>3 DEF Splice
  <2>4. /\ Len(SubSeq(q, n + 1, Len(q))) = Len(q) - n
        /\ i - n \in 1 .. Len(q) - n
        /\ SubSeq(q, n + 1, Len(q))[i - n] = q[i]
        /\ SubSeq(q, n + 1, Len(q)) \in Seq(S)
    BY <1>0, <1>1, <2>1, <2>2
  <2> QED
    BY <2>1, <2>3, <2>4, LinesOf
<1> QED
  BY <1>3, <1>4, <1>5

\* A splice keeps a part of the queue.
LEMMA SpliceOfQueue ==
  ASSUME NEW S, NEW q \in Seq(S), NEW b \in Seq(S)
  PROVE  Splice(q, b) \in Seq(S) /\ Lines(Splice(q, b)) \subseteq Lines(q)
<1>1. CASE Len(q) < Len(b)
  BY <1>1, NoLines DEF Splice
<1>2. CASE ~(Len(q) < Len(b))
  <2> DEFINE r == SubSeq(q, Len(b) + 1, Len(q))
  <2>1. Len(b) \in Nat /\ Len(q) \in Nat /\ Len(b) <= Len(q)
    BY <1>2
  <2>2. /\ r \in Seq(S) /\ Len(r) = Len(q) - Len(b)
        /\ \A i \in 1 .. Len(q) - Len(b) : r[i] = q[i + Len(b)] /\ i + Len(b) \in 1 .. Len(q)
    BY <2>1
  <2> QED
    BY <1>2, <2>1, <2>2 DEF Splice, Lines, ToSet
<1> QED
  BY <1>1, <1>2

\* enqueue cuts a queue in two: the lines that stay and those counted as dropped.
LEMMA TrimOfQueue ==
  ASSUME NEW S, NEW q \in Seq(S)
  PROVE  /\ Trim(q) \in Seq(S)
         /\ Lines(q) = Lines(Trim(q)) \cup Trimmed(q)
<1> DEFINE n == Excess(q)
<1>0. Len(q) \in Nat /\ n \in 0 .. Len(q)
  BY ShippingAssumption DEF Excess
<1>1. Trim(q) = SubSeq(q, n + 1, Len(q)) /\ Trimmed(q) = Lines(SubSeq(q, 1, n))
  BY DEF Trim, Trimmed, Lines
<1> HIDE DEF n
<1>2. /\ Trim(q) \in Seq(S) /\ Len(Trim(q)) = Len(q) - n
      /\ \A i \in 1 .. Len(q) - n : Trim(q)[i] = q[i + n]
  BY <1>0, <1>1
<1>3. /\ SubSeq(q, 1, n) \in Seq(S) /\ Len(SubSeq(q, 1, n)) = n
      /\ \A i \in 1 .. n : SubSeq(q, 1, n)[i] = q[i]
  BY <1>0
<1>4. ASSUME NEW l \in Lines(q), l \notin Trimmed(q)
      PROVE  l \in Lines(Trim(q))
  <2>1. PICK i \in 1 .. Len(q) : q[i] = l
    BY LinesOf
  <2>2. i \notin 1 .. n
    BY <1>1, <1>3, <1>4, <2>1, LinesOf
  <2>3. i - n \in 1 .. Len(q) - n /\ (i - n) + n = i
    BY <1>0, <2>2
  <2>4. Trim(q)[i - n] = l
    BY <1>2, <2>1, <2>3
  <2> QED
    BY <1>2, <2>3, <2>4, LinesOf
<1>5. Lines(Trim(q)) \subseteq Lines(q)
  <2>1. \A i \in 1 .. Len(q) - n : i + n \in 1 .. Len(q)
    BY <1>0
  <2> QED
    BY <1>2, <2>1, LinesOf
<1>6. Trimmed(q) \subseteq Lines(q)
  BY <1>0, <1>1, <1>3 DEF Lines, ToSet
<1> QED
  BY <1>2, <1>4, <1>5, <1>6

LEMMA LinesOfConcat ==
  ASSUME NEW S, NEW q \in Seq(S), NEW r \in Seq(S)
  PROVE  q \o r \in Seq(S) /\ Lines(q \o r) = Lines(q) \cup Lines(r)
<1>1. /\ q \o r \in Seq(S) /\ Len(q \o r) = Len(q) + Len(r)
      /\ \A i \in 1 .. Len(q) : (q \o r)[i] = q[i]
      /\ \A i \in 1 .. Len(r) : (q \o r)[i + Len(q)] = r[i]
      /\ Len(q) \in Nat /\ Len(r) \in Nat
  OBVIOUS
<1>2. Lines(q) \cup Lines(r) \subseteq Lines(q \o r)
  <2>1. \A i \in 1 .. Len(q) : i \in 1 .. Len(q \o r)
    BY <1>1
  <2>2. \A i \in 1 .. Len(r) : i + Len(q) \in 1 .. Len(q \o r)
    BY <1>1
  <2>3. ASSUME NEW l \in Lines(q)
        PROVE  l \in Lines(q \o r)
    <3>1. PICK i \in 1 .. Len(q) : q[i] = l
      BY LinesOf
    <3> QED
      BY <1>1, <2>1, <3>1, LinesOf
  <2>4. ASSUME NEW l \in Lines(r)
        PROVE  l \in Lines(q \o r)
    <3>1. PICK i \in 1 .. Len(r) : r[i] = l
      BY LinesOf
    <3> QED
      BY <1>1, <2>2, <3>1, LinesOf
  <2> QED
    BY <2>3, <2>4
<1>3. ASSUME NEW i \in 1 .. Len(q) + Len(r)
      PROVE  (q \o r)[i] \in Lines(q) \cup Lines(r)
  <2>1. CASE i <= Len(q)
    BY <1>1, <2>1, LinesOf
  <2>2. CASE i > Len(q)
    <3>1. i - Len(q) \in 1 .. Len(r) /\ (i - Len(q)) + Len(q) = i
      BY <1>1, <2>2
    <3>2. (q \o r)[(i - Len(q)) + Len(q)] = r[i - Len(q)]
      BY <1>1, <3>1
    <3>3. (q \o r)[i] = r[i - Len(q)]
      BY <3>1, <3>2
    <3> QED
      BY <3>1, <3>3, LinesOf
  <2> QED
    BY <1>1, <2>1, <2>2
<1>4. ASSUME NEW l \in Lines(q \o r)
      PROVE  l \in Lines(q) \cup Lines(r)
  <2>1. PICK i \in 1 .. Len(q \o r) : (q \o r)[i] = l
    BY <1>1, LinesOf
  <2> QED
    BY <1>1, <1>3, <2>1
<1> QED
  BY <1>1, <1>2, <1>4

-----------------------------------------------------------------------------
(* What the helpers of the shipper return. *)

FlusherRecord == [pc : {"idle", "post"}, key : Queues \cup {None}, todo : SUBSET Queues,
                  batch : Seq(Line), attempt : Nat]

\* enqueue keeps every line in its queue or among the dropped.
LEMMA EnqueueKeeps ==
  ASSUME queues \in [Queues -> Seq(Line)], NEW new \in [Queues -> Seq(Line)], Enqueue(new)
  PROVE  /\ queues' \in [Queues -> Seq(Line)]
         /\ dropped \subseteq dropped'
         /\ \A k \in Queues : Lines(queues[k]) \cup Lines(new[k]) \subseteq Lines(queues'[k]) \cup dropped'
<1> DEFINE all == [k \in Queues |-> queues[k] \o new[k]]
<1>1. all \in [Queues -> Seq(Line)]
  BY LinesOfConcat
<1>2. /\ queues' = [k \in Queues |-> Trim(all[k])]
      /\ dropped' = dropped \cup UNION {Trimmed(all[k]) : k \in Queues}
  BY DEF Enqueue
<1>3. \A k \in Queues : Lines(all[k]) = Lines(queues[k]) \cup Lines(new[k])
  BY LinesOfConcat
<1> HIDE DEF all
<1>4. \A k \in Queues : Trim(all[k]) \in Seq(Line) /\ Lines(all[k]) = Lines(Trim(all[k])) \cup Trimmed(all[k])
  BY <1>1, TrimOfQueue
<1>5. queues' \in [Queues -> Seq(Line)]
  BY <1>2, <1>4
<1>6. ASSUME NEW k \in Queues
      PROVE  Lines(queues[k]) \cup Lines(new[k]) \subseteq Lines(queues'[k]) \cup dropped'
  <2>1. queues'[k] = Trim(all[k]) /\ Trimmed(all[k]) \subseteq dropped'
    BY <1>2
  <2> QED
    BY <1>3, <1>4, <2>1
<1> QED
  BY <1>2, <1>5, <1>6

\* A flush that goes on posts the front of a queue and has left empty queues behind; one that ends
\* has emptied all it was to send, unless the key was refused.
LEMMA ResumeKeeps ==
  ASSUME NEW q \in [Queues -> Seq(Line)], NEW key \in Queues \cup {None}, NEW todo \in SUBSET Queues,
         NEW y \in Resume(q, key, todo)
  PROVE  /\ y \in FlusherRecord
         /\ y.pc = "idle" => y = Idle
         /\ y = Idle => fatal \/ \A k \in Queues : k \in todo \/ k = key => q[k] = <<>>
         /\ y.pc = "post" => AtFront(y, q, Queues \cap (todo \cup {key}))
         /\ Lines(y.batch) \subseteq UNION {Lines(q[k]) : k \in Queues}
<1> DEFINE keys == IF key \in Queues /\ q[key] # <<>> THEN {key} ELSE {k \in todo : q[k] # <<>>}
           post(k) == [pc |-> "post", key |-> k, todo |-> todo \ {k}, batch |-> Batch(q[k]), attempt |-> 1]
<1>1. CASE keys = {} \/ fatal
  <2>1. y = Idle
    BY <1>1 DEF Resume
  <2> QED
    BY <1>1, <2>1, NoLines DEF Idle, FlusherRecord
<1>2. CASE ~(keys = {} \/ fatal)
  <2>1. PICK k \in keys : y = post(k)
    BY <1>2 DEF Resume
  <2>2. k \in Queues /\ Batch(q[k]) \in Seq(Line) /\ Lines(Batch(q[k])) \subseteq Lines(q[k])
    BY BatchOfQueue
  <2>3. y # Idle /\ y.pc = "post" /\ y.key = k /\ y.todo = todo \ {k} /\ y.batch = Batch(q[k])
    BY <2>1 DEF Idle
  <2>4. y \in FlusherRecord
    BY <2>1, <2>2 DEF FlusherRecord
  <2>5. Lines(y.batch) \subseteq UNION {Lines(q[j]) : j \in Queues}
    BY <2>2, <2>3
  <2>6. AtFront(y, q, Queues \cap (todo \cup {key}))
    BY <2>1, <2>2, <2>3 DEF AtFront
  <2> QED
    BY <2>3, <2>4, <2>5, <2>6
<1> QED
  BY <1>1, <1>2

LEMMA ResumeIdle ==
  ASSUME NEW q \in [Queues -> Seq(Line)], NEW key \in Queues \cup {None}, NEW todo \in SUBSET Queues,
         NEW y \in Resume(q, key, todo), y.pc = "idle"
  PROVE  y = Idle
BY ResumeKeeps

LEMMA ResumePosts ==
  ASSUME NEW q \in [Queues -> Seq(Line)], NEW key \in Queues \cup {None}, NEW todo \in SUBSET Queues,
         NEW y \in Resume(q, key, todo), y.pc = "post"
  PROVE  AtFront(y, q, Queues \cap (todo \cup {key}))
BY ResumeKeeps

LEMMA ResumeEnds ==
  ASSUME NEW q \in [Queues -> Seq(Line)], NEW key \in Queues \cup {None}, NEW todo \in SUBSET Queues,
         Idle \in Resume(q, key, todo), ~fatal
  PROVE  \A k \in Queues : k \in todo \/ k = key => q[k] = <<>>
BY ResumeKeeps

\* Of two units the later is in the same line or a later one.
LEMMA LineOfUnit ==
  ASSUME NEW p \in Nat, NEW t \in Nat, NEW n \in Nat, p <= t, t <= 2 * n
  PROVE  /\ p \div 2 \in Nat /\ t \div 2 \in Nat /\ p \div 2 <= t \div 2 /\ t \div 2 <= n
         /\ t % 2 \in {0, 1} /\ t = 2 * (t \div 2) + (t % 2)
         /\ t % 2 # 0 => (t + 1) \div 2 = (t \div 2) + 1 /\ (t + 1) \div 2 \in 1 .. n
<1>1. /\ p \div 2 \in Nat /\ t \div 2 \in Nat /\ t % 2 \in {0, 1} /\ p % 2 \in {0, 1}
      /\ t = 2 * (t \div 2) + (t % 2) /\ p = 2 * (p \div 2) + (p % 2)
  <2>1. ASSUME NEW m \in Nat
        PROVE  m \div 2 \in Nat /\ m % 2 \in {0, 1} /\ m = 2 * (m \div 2) + (m % 2)
    <3>1. m \div 2 \in Int /\ m % 2 \in 0 .. 1
      OBVIOUS
    <3>2. m = 2 * (m \div 2) + (m % 2)
      OBVIOUS
    <3> QED
      BY <3>1, <3>2
  <2> QED
    BY <2>1
<1>2. p \div 2 <= t \div 2 /\ t \div 2 <= n
  BY <1>1
<1>3. t % 2 # 0 => (t + 1) \div 2 = (t \div 2) + 1
  BY <1>1
<1>4. t % 2 # 0 => (t + 1) \div 2 \in 1 .. n
  BY <1>1, <1>3
<1> QED
  BY <1>1, <1>2, <1>3, <1>4

\* A read starts and ends inside the file.
LEMMA ReadBounds ==
  ASSUME ShippingTypes, NEW f \in Files
  PROVE  /\ Size(f) \in Nat
         /\ ReadFrom(f) \in [pos : Nat, ino : Position, partial : Position \cup {Garbled}]
         /\ ReadFrom(f).pos <= Size(f)
         /\ ReadTo(f) \in Nat /\ ReadFrom(f).pos <= ReadTo(f) /\ ReadTo(f) <= Size(f)
<1> USE ShippingAssumption
<1>1. /\ file[f].lines \in Seq(Nat) /\ file[f].half \in BOOLEAN /\ file[f].ino \in Nat
      /\ file[f].half => file[f].lines # <<>>
  BY DEF ShippingTypes
<1>2. Size(f) \in Nat
  <2>1. Len(file[f].lines) \in Nat /\ (file[f].lines # <<>> => Len(file[f].lines) # 0)
    BY <1>1
  <2> QED
    BY <1>1, <2>1 DEF Size
<1>3. tail[f] \in [pos : Position, ino : Position, partial : Position \cup {Garbled}]
  BY DEF ShippingTypes
<1>4. /\ ReadFrom(f) \in [pos : Nat, ino : Position, partial : Position \cup {Garbled}]
      /\ ReadFrom(f).pos <= Size(f)
  <2> DEFINE first == IF opts.fromStart THEN 0 ELSE Size(f)
             seen == IF tail[f].pos = None THEN [tail[f] EXCEPT !.pos = first, !.ino = file[f].ino] ELSE tail[f]
             start == [pos |-> 0, ino |-> file[f].ino, partial |-> None]
  <2>1. first \in Nat
    BY <1>2
  <2>2. seen \in [pos : Nat, ino : Position, partial : Position \cup {Garbled}]
    BY <1>1, <1>3, <2>1 DEF Position
  <2>3. start \in [pos : Nat, ino : Position, partial : Position \cup {Garbled}] /\ start.pos = 0
    BY <1>1 DEF Position
  <2>4. ReadFrom(f) = IF seen.ino # file[f].ino \/ Size(f) < seen.pos THEN start ELSE seen
    BY DEF ReadFrom
  <2> HIDE DEF seen, start
  <2> QED
    BY <1>2, <2>2, <2>3, <2>4
<1> QED
  BY <1>2, <1>4 DEF ReadTo

\* What a read returns are lines of the file.
LEMMA ReadLinesType ==
  ASSUME ShippingTypes, NEW f \in Files
  PROVE  /\ ReadLines(f) \in Seq(Line)
         /\ TailAfter(f) \in [pos : Position, ino : Position, partial : Position \cup {Garbled}]
<1> DEFINE from == ReadFrom(f).pos \div 2
           to == ReadTo(f) \div 2
           p == ReadFrom(f).pos
           t == ReadTo(f)
           L == file[f].lines
<1>1. /\ p \in Nat /\ t \in Nat /\ p <= t /\ t <= Size(f)
      /\ ReadFrom(f) \in [pos : Nat, ino : Position, partial : Position \cup {Garbled}]
  BY ReadBounds
<1>2. L \in Seq(Nat) /\ Len(L) \in Nat /\ Size(f) <= 2 * Len(L)
  <2>1. L \in Seq(Nat) /\ file[f].half \in BOOLEAN
    BY DEF ShippingTypes
  <2>2. Len(L) \in Nat
    BY <2>1
  <2> HIDE DEF L
  <2>3. Size(f) = 2 * Len(L) - IF file[f].half THEN 1 ELSE 0
    BY DEF Size, L
  <2> QED
    BY <2>1, <2>2, <2>3
<1>3. from \in Nat /\ to \in Nat /\ from <= to /\ to <= Len(L)
  <2> HIDE DEF p, t, L
  <2>1. t <= 2 * Len(L)
    BY <1>1, <1>2, ReadBounds
  <2> QED
    BY <1>1, <1>2, <2>1, LineOfUnit DEF p, t
<1>4. \A i \in 1 .. to - from : L[from + i] \in Nat
  <2>1. \A i \in 1 .. to - from : from + i \in 1 .. Len(L)
    BY <1>2, <1>3
  <2> QED
    BY <1>2, <2>1
<1>5. \A i \in 1 .. to - from : IsWhole(f, from + i) \in BOOLEAN
  BY DEF IsWhole
<1>6. ReadLines(f) = [i \in 1 .. to - from |-> [source |-> f, id |-> L[from + i], whole |-> IsWhole(f, from + i)]]
  BY DEF ReadLines
<1>7. to - from \in Nat
  BY <1>3
<1>8. Partial(f) \in Position \cup {Garbled}
  <2> DEFINE k == (t + 1) \div 2
  <2>1. t # p /\ t % 2 # 0 => k \in 1 .. Len(L)
    <3> HIDE DEF p, t, L
    <3>1. t <= 2 * Len(L)
      BY <1>1, <1>2, ReadBounds
    <3> QED
      BY <1>1, <1>2, <3>1, LineOfUnit
  <2>2. t # p /\ t % 2 # 0 => L[k] \in Nat
    BY <1>2, <2>1
  <2>3. Partial(f) = CASE t = p -> ReadFrom(f).partial
                       [] t # p /\ t % 2 = 0 -> None
                       [] OTHER -> IF ReadFrom(f).partial = None \/ p \div 2 # t \div 2 THEN L[k] ELSE Garbled
    BY DEF Partial
  <2> HIDE DEF k, L
  <2>4. CASE t = p
    BY <1>1, <2>3, <2>4
  <2>5. CASE t # p /\ t % 2 = 0
    BY <2>3, <2>5 DEF Position
  <2>6. CASE t # p /\ t % 2 # 0
    BY <2>2, <2>3, <2>6 DEF Position
  <2> QED
    BY <2>4, <2>5, <2>6
<1> HIDE DEF from, to, L, p, t
<1>9. ReadLines(f) \in Seq(Line)
  <2>1. \A i \in 1 .. to - from : [source |-> f, id |-> L[from + i], whole |-> IsWhole(f, from + i)] \in Line
    BY <1>4, <1>5 DEF Line
  <2> QED
    BY <1>6, <1>7, <2>1
<1> QED
  BY <1>1, <1>8, <1>9 DEF TailAfter, Position, t

-----------------------------------------------------------------------------
(* Types. *)

\* The two ways tick() ends: it flushes, or it saves and may leave; --once leaves with empty queues only.
LEMMA TickEnds ==
  ASSUME FlushOrSave
  PROVE  \/ /\ ~fatal /\ ticking' = "flush" /\ UNCHANGED <<saved, up, lost>>
            /\ \E y \in Resume(queues', None, Queues) : flusher' = [flusher EXCEPT !["tick"] = y]
         \/ /\ SaveState /\ ticking' = "idle" /\ UNCHANGED flusher
            /\ \/ Exit /\ (~fatal => \A k \in Queues : queues'[k] = <<>>)
               \/ UNCHANGED <<up, lost>>
BY DEF FlushOrSave

\* A process that ends keeps nothing but what it saved.
LEMMA ExitGives ==
  ASSUME Exit
  PROVE  up' = FALSE /\ Held' = {} /\ lost \subseteq lost'
BY DEF Exit, Held

LEMMA FlushEnds ==
  ASSUME NEW f \in Flushers, AfterFlush(f), ticking \in {"idle", "win", "flush"}
  PROVE  \/ flusher'[f] # Idle /\ UNCHANGED <<up, saved, ticking, lost>>
         \/ /\ flusher'[f] = Idle /\ SaveState
            /\ ticking' = IF f = "tick" THEN "idle" ELSE ticking
            /\ Exit \/ (f = "tick" /\ UNCHANGED <<up, lost>>)
BY DEF AfterFlush, Flushers

LEMMA SaveKeepsType ==
  ASSUME SaveState, NEW T, state' \in T, saved \in T
  PROVE  saved' \in T
BY DEF SaveState

LEMMA SourcesKeepTypes ==
  ASSUME ShippingTypes, NEW f \in Files, NEW newInode \in BOOLEAN,
         WriteText(f) \/ WriteNewline(f) \/ Rotate(f, newInode)
  PROVE  ShippingTypes'
<1>0. /\ file[f] \in [ino : Nat, first : Nat, lines : Seq(Nat), half : BOOLEAN]
      /\ file[f].lines \in Seq(Nat) /\ file[f].ino \in Nat
  BY DEF ShippingTypes
<1>1. NextId(f) \in Nat
  BY <1>0 DEF NextId
<1>2. /\ file' \in [Files -> [ino : Nat, first : Nat, lines : Seq(Nat), half : BOOLEAN]]
      /\ \A g \in Files : file'[g].half => file'[g].lines # <<>>
      /\ faults' \in Nat
  <2>1. CASE WriteText(f)
    <3>1. Append(file[f].lines, NextId(f)) \in Seq(Nat) /\ Append(file[f].lines, NextId(f)) # <<>>
      BY <1>0, <1>1
    <3> DEFINE new == [file[f] EXCEPT !.lines = Append(@, NextId(f)), !.half = TRUE]
    <3>2. new \in [ino : Nat, first : Nat, lines : Seq(Nat), half : BOOLEAN] /\ new.lines # <<>>
      BY <1>0, <3>1
    <3>3. file' = [file EXCEPT ![f] = new] /\ faults' = faults
      BY <2>1 DEF WriteText, ShippingTypes
    <3> HIDE DEF new
    <3> QED
      BY <3>2, <3>3 DEF ShippingTypes
  <2>2. CASE WriteNewline(f)
    <3> DEFINE new == [file[f] EXCEPT !.half = FALSE]
    <3>1. new \in [ino : Nat, first : Nat, lines : Seq(Nat), half : BOOLEAN] /\ ~new.half
      BY <1>0
    <3>2. file' = [file EXCEPT ![f] = new] /\ faults' = faults
      BY <2>2 DEF WriteNewline, ShippingTypes
    <3> HIDE DEF new
    <3> QED
      BY <3>1, <3>2 DEF ShippingTypes
  <2>3. CASE Rotate(f, newInode)
    <3> DEFINE new == [ino |-> IF newInode THEN file[f].ino + 1 ELSE file[f].ino,
                       first |-> NextId(f), lines |-> <<>>, half |-> FALSE]
    <3>1. new \in [ino : Nat, first : Nat, lines : Seq(Nat), half : BOOLEAN] /\ ~new.half
      BY <1>0, <1>1
    <3>2. file' = [file EXCEPT ![f] = new] /\ faults' = faults + 1
      BY <2>3 DEF Rotate
    <3> HIDE DEF new
    <3> QED
      BY <3>1, <3>2 DEF ShippingTypes
  <2> QED
    BY <2>1, <2>2, <2>3
<1>3. UNCHANGED events /\ SourceFrame
  BY DEF WriteText, WriteNewline, Rotate
<1> QED
  BY <1>2, <1>3 DEF ShippingTypes, SourceFrame, reading, totals, history

\* The events read from a channel are lines.
LEMMA EventsType ==
  ASSUME ShippingTypes, NEW c \in Channels
  PROVE  NewEvents(c) \in Seq(Line)
<1> DEFINE after == IF state[c].pos = None THEN 0 ELSE state[c].pos
           first == IF events[c] - after > MaxEvents THEN events[c] - MaxEvents ELSE after
<1>1. state[c].pos \in Position /\ events[c] \in Nat /\ MaxEvents \in Nat
  BY ShippingAssumption DEF ShippingTypes
<1>2. after \in Nat
  BY <1>1 DEF Position
<1> HIDE DEF after
<1>3. first \in Nat
  BY <1>1, <1>2
<1>4. NewEvents(c) = [i \in 1 .. events[c] - first |-> [source |-> c, id |-> first + i, whole |-> TRUE]]
  BY DEF NewEvents, after
<1> HIDE DEF first
<1>5. \A i \in 1 .. events[c] - first : [source |-> c, id |-> first + i, whole |-> TRUE] \in Line
  BY <1>3 DEF Line
<1>6. CASE events[c] - first \in Nat
  BY <1>4, <1>5, <1>6
<1>7. CASE events[c] - first \notin Nat
  <2>1. 1 .. events[c] - first = 1 .. 0
    BY <1>1, <1>3, <1>7
  <2> DEFINE e(i) == [source |-> c, id |-> first + i, whole |-> TRUE]
  <2>2. [i \in 1 .. 0 |-> e(i)] \in Seq(Line)
    OBVIOUS
  <2> QED
    BY <1>4, <2>1, <2>2
<1> QED
  BY <1>6, <1>7

LEMMA PostsKeepTypes ==
  ASSUME ShippingTypes, NEW f \in Flushers, Answered(f)
  PROVE  ShippingTypes'
<1> DEFINE x == flusher[f]
<1>0. /\ x \in FlusherRecord /\ x.batch \in Seq(Line) /\ Lines(x.batch) \subseteq Line
      /\ x.key \in Queues \cup {None} /\ x.todo \in SUBSET Queues
  BY LinesIn DEF ShippingTypes, FlusherRecord
<1>1. FlushFrame /\ AfterFlush(f)
  BY DEF Answered, PostAccepted, PostRejected, PostRefused, PostFailed, Spliced
<1>2. state' = state /\ received' \subseteq Line /\ refused' \in BOOLEAN
  BY <1>0, <1>1 DEF Answered, PostAccepted, PostRejected, PostRefused, PostFailed, FlushFrame, reading,
                    ShippingTypes
<1>3. /\ up' \in BOOLEAN /\ ticking' \in {"idle", "win", "flush"}
      /\ saved' \in [Files \cup Channels -> [pos : Position, ino : Position]]
  <2>1. ticking \in {"idle", "win", "flush"} /\ up \in BOOLEAN
    BY DEF ShippingTypes
  <2>2. up' \in BOOLEAN /\ ticking' \in {"idle", "win", "flush"}
    BY <1>1, <2>1, FlushEnds, ExitGives
  <2>3. SaveState \/ saved' = saved
    BY <1>1, <2>1, FlushEnds
  <2> QED
    BY <1>2, <2>2, <2>3, SaveKeepsType DEF ShippingTypes
<1>4. /\ queues' \in [Queues -> Seq(Line)] /\ fatal' \in BOOLEAN
      /\ flusher' \in [Flushers -> FlusherRecord]
  <2>1. CASE Spliced(f)
    <3>1. Splice(queues[x.key], x.batch) \in Seq(Line) \/ x.key \notin Queues
      BY <1>0, SpliceOfQueue DEF ShippingTypes
    <3>2. queues' \in [Queues -> Seq(Line)]
      BY <2>1, <3>1 DEF Spliced, ShippingTypes
    <3>3. PICK y \in Resume(queues', x.key, x.todo) : flusher' = [flusher EXCEPT ![f] = y]
      BY <2>1 DEF Spliced
    <3>4. y \in FlusherRecord
      BY <1>0, <3>2, <3>3, ResumeKeeps
    <3> QED
      BY <2>1, <3>2, <3>3, <3>4 DEF Spliced, ShippingTypes, FlusherRecord
  <2>2. CASE PostRefused(f)
    <3>1. Idle \in FlusherRecord
      BY DEF Idle, FlusherRecord
    <3> QED
      BY <2>2, <3>1 DEF PostRefused, ShippingTypes, FlusherRecord
  <2>3. CASE PostFailed(f)
    <3> DEFINE y == IF x.attempt < Attempts THEN [x EXCEPT !.attempt = x.attempt + 1] ELSE Idle
    <3>1. y \in FlusherRecord
      BY <1>0 DEF Idle, FlusherRecord
    <3>2. flusher' = [flusher EXCEPT ![f] = y]
      BY <2>3 DEF PostFailed
    <3>3. UNCHANGED <<queues, fatal>>
      BY <2>3 DEF PostFailed
    <3> HIDE DEF y
    <3> QED
      BY <3>1, <3>2, <3>3 DEF ShippingTypes, FlusherRecord
  <2> QED
    BY <2>1, <2>2, <2>3 DEF Answered, PostAccepted, PostRejected
<1> QED
  BY <1>1, <1>2, <1>3, <1>4 DEF ShippingTypes, FlushFrame, source, reading, FlusherRecord

\* Both ways tick() ends keep the types, whatever it queued.
LEMMA TickEndsTypes ==
  ASSUME ShippingTypes, FlushOrSave, queues' \in [Queues -> Seq(Line)],
         state' \in [Files \cup Channels -> [pos : Position, ino : Position]]
  PROVE  /\ up' \in BOOLEAN /\ ticking' \in {"idle", "win", "flush"}
         /\ saved' \in [Files \cup Channels -> [pos : Position, ino : Position]]
         /\ flusher' \in [Flushers -> FlusherRecord]
<1>1. CASE \E y \in Resume(queues', None, Queues) : flusher' = [flusher EXCEPT !["tick"] = y]
  <2>1. PICK y \in Resume(queues', None, Queues) : flusher' = [flusher EXCEPT !["tick"] = y]
    BY <1>1
  <2>2. y \in FlusherRecord
    BY <2>1, ResumeKeeps
  <2> QED
    BY <2>1, <2>2, TickEnds, SaveKeepsType, ExitGives DEF ShippingTypes, FlusherRecord
<1>2. CASE UNCHANGED flusher
  BY <1>2, TickEnds, SaveKeepsType, ExitGives DEF ShippingTypes, FlusherRecord
<1> QED
  BY <1>1, <1>2, TickEnds

LEMMA TickKeepsTypes ==
  ASSUME ShippingTypes, Tick
  PROVE  /\ ShippingTypes'
         /\ [k \in Queues |-> IF k \in opts.files THEN ReadLines(k) ELSE <<>>] \in [Queues -> Seq(Line)]
<1> DEFINE new == [k \in Queues |-> IF k \in opts.files THEN ReadLines(k) ELSE <<>>]
<1>0. opts.files \subseteq Files
  BY DEF ShippingTypes, OptionRecord
<1>1. new \in [Queues -> Seq(Line)]
  BY <1>0, ReadLinesType
<1>2. queues' \in [Queues -> Seq(Line)]
  BY <1>1, EnqueueKeeps DEF Tick, ShippingTypes
<1>3. tail' \in [Files -> [pos : Position, ino : Position, partial : Position \cup {Garbled}]]
  BY ReadLinesType DEF Tick, ShippingTypes
<1>4. state' \in [Files \cup Channels -> [pos : Position, ino : Position]]
  <2>1. state' = StateAfter
    BY DEF Tick
  <2>2. ASSUME NEW f \in Files
        PROVE  [pos |-> ReadTo(f), ino |-> ReadFrom(f).ino] \in [pos : Position, ino : Position]
    BY ReadBounds DEF Position
  <2>3. ASSUME NEW f \in Files \cup Channels
        PROVE  state[f] \in [pos : Position, ino : Position]
    BY DEF ShippingTypes
  <2> QED
    BY <1>0, <2>1, <2>2, <2>3 DEF StateAfter
<1>5. taken' \subseteq Line
  <2>1. \A f \in Files : Lines(ReadLines(f)) \subseteq Line
    BY ReadLinesType, LinesIn
  <2> QED
    BY <1>0, <2>1 DEF Tick, ShippingTypes
<1>6. /\ up' \in BOOLEAN /\ ticking' \in {"idle", "win", "flush"}
      /\ saved' \in [Files \cup Channels -> [pos : Position, ino : Position]]
      /\ flusher' \in [Flushers -> FlusherRecord]
      /\ win' \in [todo : SUBSET Channels, lines : Seq(Line)]
  <2>1. CASE UNCHANGED win /\ FlushOrSave
    BY <1>2, <1>4, <2>1, TickEndsTypes DEF ShippingTypes
  <2>2. CASE /\ win' = [todo |-> Channels, lines |-> <<>>] /\ ticking' = "win"
             /\ UNCHANGED <<up, saved, flusher, lost>>
    BY <2>2 DEF ShippingTypes, FlusherRecord
  <2> QED
    BY <2>1, <2>2 DEF Tick
<1>7. UNCHANGED <<opts, source, stopping, fatal, received, rejected, overlap, refused, restarted, faults>>
  BY DEF Tick
<1> QED
  BY <1>1, <1>2, <1>3, <1>4, <1>5, <1>6, <1>7 DEF ShippingTypes, source, FlusherRecord

LEMMA WindowsKeepsTypes ==
  ASSUME ShippingTypes, WinDone \/ \E c \in Channels : WinRead(c)
  PROVE  ShippingTypes'
<1>1. CASE WinDone
  <2> DEFINE new == [k \in Queues |-> IF k = WinEvents THEN win.lines ELSE <<>>]
  <2>1. new \in [Queues -> Seq(Line)]
    BY DEF ShippingTypes
  <2>2. queues' \in [Queues -> Seq(Line)]
    BY <1>1, <2>1, EnqueueKeeps DEF WinDone, ShippingTypes
  <2>3. /\ state' \in [Files \cup Channels -> [pos : Position, ino : Position]] /\ FlushOrSave
        /\ win' = NoWin
    BY <1>1 DEF WinDone, ShippingTypes, reading
  <2>4. /\ up' \in BOOLEAN /\ ticking' \in {"idle", "win", "flush"}
        /\ saved' \in [Files \cup Channels -> [pos : Position, ino : Position]]
        /\ flusher' \in [Flushers -> FlusherRecord]
    BY <2>2, <2>3, TickEndsTypes
  <2>5. win' \in [todo : SUBSET Channels, lines : Seq(Line)]
    BY <2>3 DEF NoWin
  <2>6. UNCHANGED <<opts, source, reading, stopping, fatal, received, rejected, taken, overlap,
                    refused, restarted, faults>>
    BY <1>1 DEF WinDone
  <2> QED
    BY <2>2, <2>4, <2>5, <2>6 DEF ShippingTypes, source, reading, FlusherRecord
<1>2. CASE \E c \in Channels : WinRead(c)
  <2>1. PICK c \in Channels : WinRead(c)
    BY <1>2
  <2>2. PICK new \in {NewEvents(c), <<>>} :
          /\ win' = [todo |-> win.todo \ {c}, lines |-> win.lines \o new]
          /\ state' = [state EXCEPT ![c].pos = IF new # <<>> THEN events[c] ELSE @]
          /\ taken' = taken \cup Lines(new)
    BY <2>1 DEF WinRead
  <2>3. new \in Seq(Line) /\ Lines(new) \subseteq Line
    <3>1. NewEvents(c) \in Seq(Line) /\ <<>> \in Seq(Line)
      BY EventsType
    <3>2. new \in Seq(Line)
      BY <3>1
    <3> QED
      BY <3>2, LinesIn
  <2>4. win' \in [todo : SUBSET Channels, lines : Seq(Line)]
    BY <2>2, <2>3, LinesOfConcat DEF ShippingTypes
  <2>5. state' \in [Files \cup Channels -> [pos : Position, ino : Position]]
    <3>1. state[c] \in [pos : Position, ino : Position] /\ events[c] \in Position
      BY DEF ShippingTypes, Position
    <3> DEFINE here == [state[c] EXCEPT !.pos = IF new # <<>> THEN events[c] ELSE @]
    <3>2. here \in [pos : Position, ino : Position]
      BY <3>1
    <3>3. state' = [state EXCEPT ![c] = here]
      BY <2>2
    <3> HIDE DEF here
    <3> QED
      BY <3>2, <3>3 DEF ShippingTypes
  <2>6. UNCHANGED <<opts, up, source, tail, saved, queues, flusher, ticking, stopping, fatal,
                    received, totals, lost, overlap, refused, restarted, faults>>
    BY <2>1 DEF WinRead
  <2> QED
    BY <2>2, <2>3, <2>4, <2>5, <2>6 DEF ShippingTypes, source
<1> QED
  BY <1>1, <1>2

LEMMA StopKeepsTypes ==
  ASSUME ShippingTypes, Stop
  PROVE  ShippingTypes'
<1>1. PICK y \in Resume(queues, None, Queues) : flusher' = [flusher EXCEPT !["stop"] = y]
  BY DEF Stop
<1>2. y \in FlusherRecord
  BY ResumeKeeps DEF ShippingTypes
<1>3. flusher' \in [Flushers -> FlusherRecord]
  BY <1>1, <1>2 DEF ShippingTypes, FlusherRecord
<1>4. /\ up' \in BOOLEAN /\ overlap' \in BOOLEAN /\ stopping' \in BOOLEAN
      /\ saved' \in [Files \cup Channels -> [pos : Position, ino : Position]]
  BY SaveKeepsType, ExitGives DEF Stop, ShippingTypes
<1>5. UNCHANGED <<opts, source, tail, received, totals, taken, refused, restarted, faults>>
      /\ UNCHANGED <<queues, state, win, fatal, ticking>>
  BY DEF Stop
<1> QED
  BY <1>3, <1>4, <1>5 DEF ShippingTypes, source, FlusherRecord

LEMMA RestKeepsTypes ==
  ASSUME ShippingTypes, (\E c \in Channels : LogEvent(c)) \/ InventoryRefused \/ Crash \/ Start
  PROVE  ShippingTypes'
<1>1. CASE \E c \in Channels : LogEvent(c)
  <2>1. PICK c \in Channels : LogEvent(c)
    BY <1>1
  <2>2. events' \in [Channels -> Nat]
    BY <2>1 DEF LogEvent, ShippingTypes
  <2> QED
    BY <2>1, <2>2 DEF LogEvent, ShippingTypes, SourceFrame, reading, totals, history
<1>2. CASE InventoryRefused
  BY <1>2 DEF InventoryRefused, ShippingTypes, source, reading
<1>3. CASE Crash
  BY <1>3, ExitGives DEF Crash, ShippingTypes, source, reading
<1>4. CASE Start
  <2>1. tail' \in [Files -> [pos : Position, ino : Position, partial : Position \cup {Garbled}]]
    BY <1>4 DEF Start, ShippingTypes, Tails, NewTail, Position
  <2>2. /\ queues' \in [Queues -> Seq(Line)] /\ flusher' \in [Flushers -> FlusherRecord]
        /\ win' \in [todo : SUBSET Channels, lines : Seq(Line)]
    BY <1>4 DEF Start, NoQueues, Idlers, NoWin, Idle, FlusherRecord
  <2> QED
    BY <1>4, <2>1, <2>2 DEF Start, ShippingTypes, source, FlusherRecord
<1> QED
  BY <1>1, <1>2, <1>3, <1>4

LEMMA TypesKept ==
  ASSUME ShippingTypes, ShippingNext
  PROVE  ShippingTypes'
BY SourcesKeepTypes, PostsKeepTypes, TickKeepsTypes, WindowsKeepsTypes, StopKeepsTypes, RestKeepsTypes
   DEF ShippingNext

-----------------------------------------------------------------------------
(* Who is at work, and what is posted. *)

Calls == <<flusher, ticking, win, stopping, overlap>>

LEMMA SourceSteps ==
  ASSUME \/ \E f \in Files : WriteText(f) \/ WriteNewline(f) \/ \E newInode \in BOOLEAN : Rotate(f, newInode)
         \/ \E c \in Channels : LogEvent(c)
  PROVE  SourceFrame
BY DEF WriteText, WriteNewline, Rotate, LogEvent

LEMMA CallersKept ==
  ASSUME ShippingTypes, Callers, ShippingNext
  PROVE  Callers'
<1>1. CASE UNCHANGED Calls
  BY <1>1 DEF Calls, Callers
<1>2. ASSUME NEW f \in Flushers, Answered(f)
      PROVE  Callers'
  <2>1. FlushFrame /\ AfterFlush(f) /\ flusher[f] # Idle /\ ticking \in {"idle", "win", "flush"}
    BY <1>2 DEF Answered, PostAccepted, PostRejected, PostRefused, PostFailed, Spliced, Posting, Idle,
                ShippingTypes
  <2>2. PICK y : (y.pc = "idle" => y = Idle) /\ flusher' = [flusher EXCEPT ![f] = y]
    <3>1. CASE Spliced(f)
      <4>1. queues' \in [Queues -> Seq(Line)] /\ flusher[f].key \in Queues \cup {None}
            /\ flusher[f].todo \in SUBSET Queues
        BY <1>2, PostsKeepTypes DEF ShippingTypes
      <4> QED
        BY <3>1, <4>1, ResumeIdle DEF Spliced
    <3>2. CASE PostRefused(f)
      BY <3>2 DEF PostRefused
    <3>3. CASE PostFailed(f)
      <4> DEFINE x == flusher[f]
                 y == IF x.attempt < Attempts THEN [x EXCEPT !.attempt = x.attempt + 1] ELSE Idle
      <4>1. flusher' = [flusher EXCEPT ![f] = y]
        BY <3>3 DEF PostFailed
      <4>2. x \in FlusherRecord /\ x.pc = "post"
        BY <3>3 DEF PostFailed, Posting, ShippingTypes, FlusherRecord
      <4>3. y.pc = "idle" => y = Idle
        BY <4>2 DEF FlusherRecord
      <4> QED
        BY <4>1, <4>3
    <3> QED
      BY <1>2, <3>1, <3>2, <3>3 DEF Answered, PostAccepted, PostRejected
  <2>3. flusher' \in [Flushers -> FlusherRecord] /\ flusher \in [Flushers -> FlusherRecord]
    BY <1>2, PostsKeepTypes DEF ShippingTypes, FlusherRecord
  <2>4. \A g \in Flushers : flusher'[g].pc = "idle" => flusher'[g] = Idle
    BY <2>2, <2>3 DEF Callers
  <2>5. /\ flusher'["tick"] # Idle => ticking' = "flush"
        /\ flusher'["stop"] # Idle => stopping
        /\ ticking' = ticking \/ (ticking' = "idle" /\ win = NoWin)
    <3>1. CASE f = "tick"
      BY <2>1, <2>2, <2>3, <3>1, FlushEnds DEF Callers, Flushers
    <3>2. CASE f = "stop"
      BY <2>1, <2>2, <2>3, <3>2, FlushEnds DEF Callers, Flushers
    <3> QED
      BY <3>1, <3>2 DEF Flushers
  <2> QED
    BY <2>1, <2>4, <2>5 DEF Callers, FlushFrame
<1>3. ASSUME ticking # "flush", FlushOrSave, queues' \in [Queues -> Seq(Line)], win' = NoWin,
             UNCHANGED <<stopping, overlap>>, stopping => overlap
      PROVE  Callers'
  <2>1. flusher \in [Flushers -> FlusherRecord]
    BY DEF ShippingTypes, FlusherRecord
  <2>2. CASE \E y \in Resume(queues', None, Queues) : flusher' = [flusher EXCEPT !["tick"] = y] /\ ticking' = "flush"
    <3>1. PICK y \in Resume(queues', None, Queues) : flusher' = [flusher EXCEPT !["tick"] = y] /\ ticking' = "flush"
      BY <2>2
    <3>2. y.pc = "idle" => y = Idle
      BY <1>3, <3>1, ResumeIdle
    <3> QED
      BY <1>3, <2>1, <3>1, <3>2 DEF Callers, Flushers
  <2>3. CASE ticking' = "idle" /\ UNCHANGED flusher
    BY <1>3, <2>3 DEF Callers
  <2> QED
    BY <1>3, <2>2, <2>3, TickEnds
<1>4. CASE Tick
  <2>1. queues' \in [Queues -> Seq(Line)]
    BY <1>4, TickKeepsTypes DEF ShippingTypes
  <2>2. CASE FlushOrSave /\ UNCHANGED win
    <3>1. win' = NoWin /\ ticking # "flush" /\ ~stopping /\ UNCHANGED <<stopping, overlap>>
      BY <1>4, <2>2 DEF Tick, Callers
    <3> QED
      BY <1>3, <2>1, <2>2, <3>1
  <2>3. CASE ticking' = "win" /\ UNCHANGED flusher
    BY <1>4, <2>3 DEF Tick, Callers
  <2> QED
    BY <1>4, <2>2, <2>3 DEF Tick
<1>5. CASE WinDone
  <2>1. queues' \in [Queues -> Seq(Line)]
    BY <1>5, WindowsKeepsTypes DEF ShippingTypes
  <2>2. /\ win' = NoWin /\ ticking # "flush" /\ FlushOrSave /\ UNCHANGED <<stopping, overlap>>
        /\ stopping => overlap
    BY <1>5 DEF WinDone, Callers, ShippingTypes
  <2> QED
    BY <1>3, <2>1, <2>2
<1>6. CASE Stop
  <2>1. PICK y \in Resume(queues, None, Queues) : flusher' = [flusher EXCEPT !["stop"] = y]
    BY <1>6 DEF Stop
  <2>2. (y.pc = "idle" => y = Idle) /\ flusher \in [Flushers -> FlusherRecord]
    BY <2>1, ResumeIdle DEF ShippingTypes, FlusherRecord
  <2>3. stopping' = TRUE /\ overlap' = (overlap \/ ticking # "idle") /\ UNCHANGED <<win, ticking>>
    BY <1>6 DEF Stop
  <2> QED
    BY <2>1, <2>2, <2>3 DEF Callers, Flushers
<1>7. CASE \E c \in Channels : WinRead(c)
  BY <1>7 DEF WinRead, Callers
<1>8. CASE Start
  BY <1>8 DEF Start, Callers, Idlers, Idle, Flushers
<1>9. CASE SourceFrame \/ InventoryRefused \/ Crash
  BY <1>1, <1>9 DEF SourceFrame, InventoryRefused, Crash, Calls, history
<1> QED
  BY <1>2, <1>4, <1>5, <1>6, <1>7, <1>8, <1>9, SourceSteps DEF ShippingNext

Fronts == overlap \/ \A f \in Flushers : PostsTheFront(f)

\* Of two callers one is at work only, unless stop() came in between.
LEMMA OneFlusher ==
  ASSUME ShippingTypes, Callers, ~overlap, NEW f \in Flushers, NEW g \in Flushers,
         flusher[f].pc = "post", g # f
  PROVE  flusher[g] = Idle
<1>1. flusher[f] # Idle
  BY DEF Idle
<1>2. CASE f = "tick"
  BY <1>1, <1>2 DEF Callers, Flushers
<1>3. CASE f = "stop"
  BY <1>1, <1>3 DEF Callers, Flushers
<1> QED
  BY <1>2, <1>3 DEF Flushers

\* Nobody posts while tick() reads or has not begun.
LEMMA NobodyPosts ==
  ASSUME ShippingTypes, Callers, ~overlap, ticking # "flush", ~stopping \/ ticking = "win"
  PROVE  \A f \in Flushers : flusher[f] = Idle
BY DEF Callers, Flushers

\* A batch that starts all over is the front, and no queue is left out.
LEMMA FreshFlush ==
  ASSUME ShippingTypes, Callers, NEW f \in Flushers, \A g \in Flushers \ {f} : flusher[g] = Idle,
         queues' \in [Queues -> Seq(Line)],
         NEW y \in Resume(queues', None, Queues), flusher' = [flusher EXCEPT ![f] = y]
  PROVE  \A g \in Flushers : PostsTheFront(g)'
<1>1. flusher'[f] = y /\ \A g \in Flushers \ {f} : flusher'[g] = Idle
  BY DEF ShippingTypes
<1>2. y.pc = "post" => AtFront(y, queues', Queues)
  <2>1. Queues \cap (Queues \cup {None}) = Queues
    OBVIOUS
  <2>2. None \in Queues \cup {None} /\ Queues \in SUBSET Queues
    OBVIOUS
  <2>3. y.pc = "post" => AtFront(y, queues', Queues \cap (Queues \cup {None}))
    BY <2>2, ResumePosts
  <2> QED
    BY <2>1, <2>3, Zenon
<1> QED
  BY <1>1, <1>2 DEF PostsTheFront, Idle

LEMMA FrontsKept ==
  ASSUME ShippingTypes, Callers, Fronts, ShippingNext
  PROVE  Fronts'
<1>0. SUFFICES ASSUME ~overlap'
               PROVE  \A f \in Flushers : PostsTheFront(f)'
  BY DEF Fronts
<1>1. CASE UNCHANGED <<queues, flusher, overlap>>
  BY <1>0, <1>1 DEF Fronts, PostsTheFront
<1>2. ASSUME NEW f \in Flushers, Answered(f)
      PROVE  \A g \in Flushers : PostsTheFront(g)'
  <2> DEFINE x == flusher[f]
  <2>1. /\ ~overlap /\ x.pc = "post"
    BY <1>0, <1>2 DEF Answered, PostAccepted, PostRejected, PostRefused, PostFailed, Posting, FlushFrame
  <2>2. \A g \in Flushers \ {f} : flusher[g] = Idle
    BY <2>1, OneFlusher
  <2>3. x \in FlusherRecord /\ AtFront(x, queues, Queues)
    BY <2>1 DEF Fronts, PostsTheFront, ShippingTypes, FlusherRecord
  <2>4. queues' \in [Queues -> Seq(Line)] /\ flusher \in [Flushers -> FlusherRecord]
    BY <1>2, PostsKeepTypes DEF ShippingTypes, FlusherRecord
  <2>5. ASSUME NEW y, flusher' = [flusher EXCEPT ![f] = y],
               y.pc = "post" => AtFront(y, queues', Queues)
        PROVE  \A g \in Flushers : PostsTheFront(g)'
    <3>1. flusher'[f] = y /\ \A g \in Flushers \ {f} : flusher'[g] = Idle
      BY <2>2, <2>4, <2>5
    <3> QED
      BY <2>5, <3>1 DEF PostsTheFront, Idle
  <2>6. CASE Spliced(f)
    <3>1. queues' = [queues EXCEPT ![x.key] = Splice(@, x.batch)]
      BY <2>6 DEF Spliced
    <3>2. \A k \in Queues : k \in x.todo \/ k = x.key \/ queues'[k] = <<>>
      BY <2>3, <3>1 DEF ShippingTypes, AtFront
    <3>3. PICK y \in Resume(queues', x.key, x.todo) : flusher' = [flusher EXCEPT ![f] = y]
      BY <2>6 DEF Spliced
    <3>4. x.key \in Queues \cup {None} /\ x.todo \in SUBSET Queues
      BY <2>3 DEF FlusherRecord, AtFront
    <3>5. y.pc = "post" => AtFront(y, queues', Queues \cap (x.todo \cup {x.key}))
      BY <2>4, <3>3, <3>4, ResumePosts
    <3>6. y.pc = "post" => AtFront(y, queues', Queues)
      BY <3>2, <3>5 DEF AtFront
    <3> QED
      BY <2>5, <3>3, <3>6
  <2>7. CASE PostRefused(f)
    BY <2>5, <2>7 DEF PostRefused, Idle
  <2>8. CASE PostFailed(f)
    <3> DEFINE y == IF x.attempt < Attempts THEN [x EXCEPT !.attempt = x.attempt + 1] ELSE Idle
    <3>1. flusher' = [flusher EXCEPT ![f] = y] /\ queues' = queues
      BY <2>8 DEF PostFailed
    <3>2. y.pc = "post" => y.key = x.key /\ y.todo = x.todo /\ y.batch = x.batch
      BY <2>3 DEF FlusherRecord, Idle
    <3> HIDE DEF y
    <3>3. y.pc = "post" => AtFront(y, queues', Queues)
      BY <2>3, <3>1, <3>2 DEF AtFront
    <3> QED
      BY <2>5, <3>1, <3>3
  <2> QED
    BY <1>2, <2>6, <2>7, <2>8 DEF Answered, PostAccepted, PostRejected
<1>3. ASSUME FlushOrSave, queues' \in [Queues -> Seq(Line)], \A f \in Flushers : flusher[f] = Idle
      PROVE  \A f \in Flushers : PostsTheFront(f)'
  <2>1. CASE UNCHANGED flusher
    BY <1>3, <2>1 DEF PostsTheFront, Idle
  <2>2. CASE \E y \in Resume(queues', None, Queues) : flusher' = [flusher EXCEPT !["tick"] = y]
    BY <1>3, <2>2, FreshFlush DEF Flushers
  <2> QED
    BY <1>3, <2>1, <2>2, TickEnds
<1>4. CASE Tick
  <2>1. queues' \in [Queues -> Seq(Line)]
    BY <1>4, TickKeepsTypes DEF ShippingTypes
  <2>2. \A f \in Flushers : flusher[f] = Idle
    BY <1>0, <1>4, NobodyPosts DEF Tick
  <2>3. CASE FlushOrSave
    BY <1>3, <2>1, <2>2, <2>3
  <2>4. CASE UNCHANGED flusher
    BY <2>2, <2>4 DEF PostsTheFront, Idle
  <2> QED
    BY <1>4, <2>3, <2>4 DEF Tick
<1>5. CASE WinDone
  <2>1. queues' \in [Queues -> Seq(Line)]
    BY <1>5, WindowsKeepsTypes DEF ShippingTypes
  <2>2. \A f \in Flushers : flusher[f] = Idle
    BY <1>0, <1>5, NobodyPosts DEF WinDone
  <2> QED
    BY <1>3, <1>5, <2>1, <2>2 DEF WinDone
<1>6. CASE Stop
  <2>1. ~overlap /\ ticking = "idle" /\ ~stopping /\ queues' = queues
    BY <1>0, <1>6 DEF Stop
  <2>2. \A f \in Flushers : flusher[f] = Idle
    BY <2>1, NobodyPosts
  <2> QED
    BY <1>6, <2>1, <2>2, FreshFlush DEF Stop, Flushers, ShippingTypes
<1>7. CASE Start
  BY <1>7 DEF Start, PostsTheFront, Idlers, Idle
<1>8. CASE SourceFrame \/ InventoryRefused \/ Crash \/ \E c \in Channels : WinRead(c)
  BY <1>1, <1>8 DEF SourceFrame, InventoryRefused, Crash, WinRead, history
<1> QED
  BY <1>2, <1>4, <1>5, <1>6, <1>7, <1>8, SourceSteps DEF ShippingNext

-----------------------------------------------------------------------------
(* Where the lines are. *)

Queued == UNION {Lines(queues[k]) : k \in Queues}
Stored == Queued \cup Lines(win.lines)

\* What a lone flush posts is still in its queue.
LEMMA HeldIsStored ==
  ASSUME ShippingTypes, Callers, Fronts, ~overlap
  PROVE  /\ Held = IF up THEN Stored ELSE {}
         /\ \A f \in Flushers : Lines(flusher[f].batch) \subseteq Stored
<1>1. ASSUME NEW f \in Flushers
      PROVE  Lines(flusher[f].batch) \subseteq Stored
  <2>1. CASE flusher[f] = Idle
    BY <2>1, NoLines DEF Idle
  <2>2. CASE flusher[f] # Idle
    <3>1. AtFront(flusher[f], queues, Queues)
      BY <2>2 DEF Fronts, PostsTheFront, Callers, ShippingTypes
    <3>2. PICK k \in Queues : flusher[f].batch = Batch(queues[k])
      BY <3>1 DEF AtFront
    <3>3. Lines(flusher[f].batch) \subseteq Lines(queues[k])
      BY <3>2, BatchOfQueue DEF ShippingTypes
    <3> QED
      BY <3>3 DEF Stored, Queued
  <2> QED
    BY <2>1, <2>2
<1>2. UNION {Lines(flusher[f].batch) : f \in Flushers} \subseteq Stored
  BY <1>1
<1>3. Held = IF up THEN Queued \cup (UNION {Lines(flusher[f].batch) : f \in Flushers}) \cup Lines(win.lines) ELSE {}
  <2>1. up \in BOOLEAN
    BY DEF ShippingTypes
  <2> QED
    BY <2>1 DEF Held, Queued
<1>4. Queued \cup Lines(win.lines) = Stored
  BY DEF Stored
<1> QED
  BY <1>1, <1>2, <1>3, <1>4

\* A post that settles its batch takes these lines out of the queues and no others.
LEMMA SplicedStored ==
  ASSUME ShippingTypes, Callers, Fronts, ~overlap, NEW f \in Flushers, flusher[f].pc = "post",
         Spliced(f), UNCHANGED win
  PROVE  /\ Stored' \subseteq Stored
         /\ Stored \subseteq Stored' \cup Lines(flusher[f].batch)
<1> DEFINE x == flusher[f]
<1>1. AtFront(x, queues, Queues)
  BY DEF Fronts, PostsTheFront
<1>2. queues' = [queues EXCEPT ![x.key] = Splice(@, x.batch)]
  BY DEF Spliced
<1>3. x.key \in Queues /\ x.batch = Batch(queues[x.key]) /\ queues[x.key] \in Seq(Line)
  BY <1>1 DEF AtFront, ShippingTypes
<1>4. /\ x.batch \in Seq(Line)
      /\ Lines(queues[x.key]) \subseteq Lines(x.batch) \cup Lines(Splice(queues[x.key], x.batch))
  BY <1>3, BatchOfQueue
<1>5. Lines(Splice(queues[x.key], x.batch)) \subseteq Lines(queues[x.key])
  BY <1>3, <1>4, SpliceOfQueue
<1>6. \A k \in Queues : queues'[k] = IF k = x.key THEN Splice(queues[x.key], x.batch) ELSE queues[k]
  BY <1>2, <1>3 DEF ShippingTypes
<1>7. Stored' \subseteq Stored
  BY <1>3, <1>5, <1>6 DEF Stored, Queued
<1>8. Stored \subseteq Stored' \cup Lines(x.batch)
  BY <1>3, <1>4, <1>6 DEF Stored, Queued
<1> QED
  BY <1>7, <1>8

\* When a flush that was not refused ends nothing is stored.
LEMMA FlushedAll ==
  ASSUME ShippingTypes, Callers, Fronts, ~overlap, ~fatal, NEW f \in Flushers, flusher[f].pc = "post",
         Spliced(f), UNCHANGED win, flusher'[f] = Idle, queues' \in [Queues -> Seq(Line)]
  PROVE  Stored' = {}
<1> DEFINE x == flusher[f]
<1>1. AtFront(x, queues, Queues)
  BY DEF Fronts, PostsTheFront
<1>2. queues' = [queues EXCEPT ![x.key] = Splice(@, x.batch)]
  BY DEF Spliced
<1>3. PICK y \in Resume(queues', x.key, x.todo) : flusher' = [flusher EXCEPT ![f] = y]
  BY DEF Spliced
<1>4. y = Idle
  BY <1>3 DEF ShippingTypes
<1>5. x.key \in Queues \cup {None} /\ x.todo \in SUBSET Queues
  BY DEF ShippingTypes
<1>6. \A k \in Queues : k \in x.todo \/ k = x.key => queues'[k] = <<>>
  <2>1. Idle \in Resume(queues', x.key, x.todo)
    BY <1>3, <1>4
  <2> HIDE DEF x
  <2> QED
    BY <1>5, <2>1, ResumeEnds
<1>7. \A k \in Queues : queues'[k] = <<>>
  BY <1>1, <1>2, <1>6 DEF AtFront, ShippingTypes
<1>8. win = NoWin
  BY DEF Callers, Idle, Flushers
<1> QED
  BY <1>7, <1>8, NoLines DEF Stored, NoWin, Queued

\* What tick() does with the lines it has read: they are queued, or dropped for older ones of a full queue.
LEMMA EnqueueStored ==
  ASSUME ShippingTypes, NEW new \in [Queues -> Seq(Line)], Enqueue(new)
  PROVE  UNION {Lines(queues[k]) \cup Lines(new[k]) : k \in Queues}
           \subseteq Queued' \cup dropped'
<1>1. \A k \in Queues : Lines(queues[k]) \cup Lines(new[k]) \subseteq Lines(queues'[k]) \cup dropped'
  BY EnqueueKeeps DEF ShippingTypes
<1>2. \A k \in Queues : Lines(queues'[k]) \subseteq Queued'
  BY DEF Queued
<1> QED
  BY <1>1, <1>2

LEMMA TickStored ==
  ASSUME ShippingTypes, Callers, Tick
  PROVE  /\ Stored \cup (taken' \ taken) \subseteq Stored' \cup dropped'
         /\ dropped \subseteq dropped'
<1> DEFINE new == [k \in Queues |-> IF k \in opts.files THEN ReadLines(k) ELSE <<>>]
<1>1. new \in [Queues -> Seq(Line)] /\ Enqueue(new) /\ opts.files \subseteq Files
  BY TickKeepsTypes DEF Tick, ShippingTypes, OptionRecord
<1>2. UNION {Lines(queues[k]) \cup Lines(new[k]) : k \in Queues}
        \subseteq Queued' \cup dropped'
  BY <1>1, EnqueueStored
<1>3. taken' \ taken \subseteq UNION {Lines(new[k]) : k \in Queues}
  <2>1. taken' = taken \cup UNION {Lines(ReadLines(f)) : f \in opts.files}
    BY DEF Tick
  <2>2. \A f \in opts.files : f \in Queues /\ new[f] = ReadLines(f)
    BY <1>1 DEF Queues
  <2> QED
    BY <2>1, <2>2
<1>4. win = NoWin
  BY DEF Tick, Callers
<1>5. dropped \subseteq dropped'
  BY <1>1, EnqueueKeeps DEF ShippingTypes
<1> HIDE DEF new
<1>6. Stored \subseteq UNION {Lines(queues[k]) \cup Lines(new[k]) : k \in Queues}
  BY <1>4, NoLines DEF Stored, NoWin, Queued
<1>7. taken' \ taken \subseteq UNION {Lines(queues[k]) \cup Lines(new[k]) : k \in Queues}
  BY <1>3
<1> QED
  BY <1>2, <1>5, <1>6, <1>7 DEF Stored

LEMMA WinDoneStored ==
  ASSUME ShippingTypes, WinDone
  PROVE  Stored \subseteq Stored' \cup dropped' /\ dropped \subseteq dropped'
<1> DEFINE new == [k \in Queues |-> IF k = WinEvents THEN win.lines ELSE <<>>]
<1>1. new \in [Queues -> Seq(Line)] /\ Enqueue(new)
  BY DEF ShippingTypes, WinDone
<1>2. UNION {Lines(queues[k]) \cup Lines(new[k]) : k \in Queues}
        \subseteq Queued' \cup dropped'
  BY <1>1, EnqueueStored
<1>3. WinEvents \in Queues /\ new[WinEvents] = win.lines
  BY DEF Queues
<1>4. dropped \subseteq dropped'
  BY <1>1, EnqueueKeeps DEF ShippingTypes
<1> HIDE DEF new
<1>5. Stored \subseteq UNION {Lines(queues[k]) \cup Lines(new[k]) : k \in Queues}
  BY <1>3 DEF Stored, Queued
<1> QED
  BY <1>2, <1>4, <1>5 DEF Stored

\* A read of a channel only adds lines.
LEMMA WinReadStored ==
  ASSUME ShippingTypes, NEW c \in Channels, WinRead(c)
  PROVE  Stored \cup (taken' \ taken) \subseteq Stored'
<1>1. PICK new \in {NewEvents(c), <<>>} :
        /\ win' = [todo |-> win.todo \ {c}, lines |-> win.lines \o new]
        /\ taken' = taken \cup Lines(new)
  BY DEF WinRead
<1>2. new \in Seq(Line)
  <2>1. NewEvents(c) \in Seq(Line) /\ <<>> \in Seq(Line)
    BY EventsType
  <2> QED
    BY <2>1
<1>3. Lines(win'.lines) = Lines(win.lines) \cup Lines(new) /\ queues' = queues
  BY <1>1, <1>2, LinesOfConcat DEF ShippingTypes, WinRead
<1>4. Queued' = Queued
  BY <1>3 DEF Queued
<1> QED
  BY <1>1, <1>3, <1>4 DEF Stored

-----------------------------------------------------------------------------
(* Every line is accounted for. *)

InPlace == ShippingTypes /\ Callers /\ Fronts

\* What the end of the process, or of tick(), means for the lines.
LEMMA HeldAfter ==
  ASSUME InPlace', ~overlap'
  PROVE  Held' = IF up' THEN Stored' ELSE {}
<1>1. ShippingTypes' /\ Callers' /\ Fronts' /\ ~overlap'
  BY DEF InPlace
<1>2. (Held = IF up THEN Stored ELSE {})'
  BY <1>1, HeldIsStored, PTL
<1> QED
  BY <1>2

\* The end of tick(): in memory stays what is stored, but when the process ends with a refused key.
LEMMA TickEndsHeld ==
  ASSUME FlushOrSave, up, InPlace', ~overlap', win' = NoWin
  PROVE  Held' = Stored' \/ (Held' = {} /\ up' = FALSE /\ Exit /\ (~fatal => Stored' = {}))
<1>1. Held' = IF up' THEN Stored' ELSE {}
  BY HeldAfter
<1>2. CASE UNCHANGED <<up, lost>>
  BY <1>1, <1>2
<1>3. CASE Exit /\ (~fatal => \A k \in Queues : queues'[k] = <<>>)
  <2>1. ~fatal => Stored' = {}
    BY <1>3, NoLines DEF Stored, Queued, NoWin
  <2> QED
    BY <1>3, <2>1, ExitGives
<1> QED
  BY <1>2, <1>3, TickEnds

LEMMA AccountedKept ==
  ASSUME InPlace, InPlace', Accounted, ShippingNext
  PROVE  Accounted'
<1>0. ShippingTypes /\ Callers /\ Fronts
  BY DEF InPlace
<1>1. CASE UNCHANGED <<up, queues, flusher, win, received, dropped, rejected, taken, overlap>>
           /\ (refused' \/ UNCHANGED <<refused, fatal>>) /\ (faults' = faults \/ faults' # 0)
  <2>1. refused \in BOOLEAN /\ refused' \in BOOLEAN
    BY DEF InPlace, ShippingTypes
  <2>2. Held' = Held
    BY <1>1 DEF Held
  <2> QED
    BY <1>1, <2>1, <2>2 DEF Accounted
<1>2. ASSUME NEW f \in Flushers, Answered(f)
      PROVE  Accounted'
  <2>1. CASE PostRejected(f) \/ PostRefused(f) \/ PostFailed(f)
    BY <2>1 DEF PostRejected, PostRefused, PostFailed, Accounted
  <2>2. CASE PostAccepted(f)
    <3>1. /\ up /\ flusher[f].pc = "post" /\ Spliced(f) /\ fatal' = fatal /\ FlushFrame /\ AfterFlush(f)
          /\ received' = received \cup Lines(flusher[f].batch) /\ UNCHANGED <<rejected, refused>>
      BY <2>2 DEF PostAccepted, Posting, Spliced
    <3>2. SUFFICES ASSUME ~refused, ~overlap, faults = 0
                   PROVE  taken' \subseteq received' \cup dropped' \cup Held'
      BY <3>1 DEF Accounted, FlushFrame
    <3>3. taken \subseteq received \cup dropped \cup Stored /\ ~fatal
      BY <1>0, <3>1, <3>2, HeldIsStored DEF Accounted
    <3>4. Stored \subseteq Stored' \cup Lines(flusher[f].batch)
      BY <1>0, <3>1, <3>2, SplicedStored DEF FlushFrame
    <3>5. Held' = IF up' THEN Stored' ELSE {}
      BY <3>1, <3>2, HeldAfter DEF FlushFrame
    <3>6. up' \/ Stored' = {}
      <4>1. CASE flusher'[f] # Idle
        BY <3>1, <4>1 DEF AfterFlush
      <4>2. CASE flusher'[f] = Idle
        BY <1>0, <3>1, <3>2, <3>3, <4>2, FlushedAll DEF FlushFrame, InPlace, ShippingTypes
      <4> QED
        BY <4>1, <4>2
    <3> QED
      BY <3>1, <3>3, <3>4, <3>5, <3>6 DEF FlushFrame
  <2> QED
    BY <1>2, <2>1, <2>2 DEF Answered
<1>3. CASE Tick
  <2>1. UNCHANGED <<fatal, received, rejected, overlap, refused, faults>> /\ up
    BY <1>3 DEF Tick
  <2>2. SUFFICES ASSUME ~refused, ~overlap, faults = 0
                 PROVE  taken' \subseteq received' \cup dropped' \cup Held'
    BY <2>1 DEF Accounted
  <2>3. taken \subseteq received \cup dropped \cup Stored /\ ~fatal
    BY <1>0, <2>1, <2>2, HeldIsStored DEF Accounted
  <2>4. Stored \cup (taken' \ taken) \subseteq Stored' \cup dropped' /\ dropped \subseteq dropped'
    BY <1>0, <1>3, TickStored
  <2>5. Stored' \subseteq Held'
    <3>1. CASE FlushOrSave /\ UNCHANGED win
      <4>1. win' = NoWin
        BY <1>0, <1>3, <3>1 DEF Tick, Callers
      <4> QED
        BY <2>1, <2>2, <2>3, <3>1, <4>1, TickEndsHeld
    <3>2. CASE UNCHANGED up
      BY <2>1, <2>2, <3>2, HeldAfter
    <3> QED
      BY <1>3, <3>1, <3>2 DEF Tick
  <2> QED
    BY <2>1, <2>3, <2>4, <2>5
<1>4. CASE WinDone
  <2>1. UNCHANGED <<fatal, received, rejected, taken, overlap, refused, faults>> /\ up /\ FlushOrSave /\ win' = NoWin
    BY <1>4 DEF WinDone
  <2>2. SUFFICES ASSUME ~refused, ~overlap, faults = 0
                 PROVE  taken' \subseteq received' \cup dropped' \cup Held'
    BY <2>1 DEF Accounted
  <2>3. taken \subseteq received \cup dropped \cup Stored /\ ~fatal
    BY <1>0, <2>1, <2>2, HeldIsStored DEF Accounted
  <2>4. Stored \subseteq Stored' \cup dropped' /\ dropped \subseteq dropped'
    BY <1>0, <1>4, WinDoneStored
  <2>5. Stored' \subseteq Held'
    BY <2>1, <2>2, <2>3, TickEndsHeld
  <2> QED
    BY <2>1, <2>3, <2>4, <2>5
<1>5. ASSUME NEW c \in Channels, WinRead(c)
      PROVE  Accounted'
  <2>1. UNCHANGED <<up, fatal, received, dropped, rejected, overlap, refused, faults>> /\ up
    BY <1>5 DEF WinRead, totals
  <2>2. SUFFICES ASSUME ~refused, ~overlap, faults = 0
                 PROVE  taken' \subseteq received' \cup dropped' \cup Held'
    BY <2>1 DEF Accounted
  <2>3. taken \subseteq received \cup dropped \cup Stored
    BY <1>0, <2>1, <2>2, HeldIsStored DEF Accounted
  <2>4. Stored \cup (taken' \ taken) \subseteq Stored'
    BY <1>0, <1>5, WinReadStored
  <2>5. Held' = Stored'
    BY <2>1, <2>2, HeldAfter
  <2> QED
    BY <2>1, <2>3, <2>4, <2>5
<1>6. CASE Stop
  <2>1. /\ UNCHANGED <<received, dropped, rejected, taken, refused, faults>> /\ up
        /\ UNCHANGED <<queues, win, fatal>> /\ (overlap \/ ticking # "idle" => overlap')
    BY <1>6 DEF Stop, totals
  <2>2. SUFFICES ASSUME ~refused, ~overlap', faults = 0
                 PROVE  taken' \subseteq received' \cup dropped' \cup Held'
    BY <2>1 DEF Accounted
  <2>3. taken \subseteq received \cup dropped \cup Stored /\ ~fatal
    BY <1>0, <2>1, <2>2, HeldIsStored DEF Accounted
  <2>4. Stored' = Stored
    BY <2>1 DEF Stored, Queued
  <2>5. up' \/ Stored = {}
    <3>1. CASE flusher'["stop"] # Idle
      BY <1>6, <2>1, <3>1 DEF Stop
    <3>2. CASE flusher'["stop"] = Idle
      <4>1. Idle \in Resume(queues, None, Queues)
        BY <1>0, <1>6, <3>2 DEF Stop, ShippingTypes, Flushers
      <4>2. None \in Queues \cup {None} /\ Queues \in SUBSET Queues /\ queues \in [Queues -> Seq(Line)]
        BY <1>0 DEF ShippingTypes
      <4>3. \A k \in Queues : queues[k] = <<>>
        BY <2>3, <4>1, <4>2, ResumeEnds
      <4>4. win = NoWin
        BY <1>0, <2>1, <2>2 DEF Callers
      <4> QED
        BY <4>3, <4>4, NoLines DEF Stored, Queued, NoWin
    <3> QED
      BY <3>1, <3>2
  <2>6. Held' = IF up' THEN Stored' ELSE {}
    BY <2>2, HeldAfter
  <2> QED
    BY <2>1, <2>3, <2>4, <2>5, <2>6
<1>7. CASE Start
  <2>1. Held = {} /\ UNCHANGED <<received, dropped, rejected, taken, overlap, refused, faults>> /\ fatal' = FALSE
    BY <1>7 DEF Start, Held, totals
  <2> QED
    BY <2>1 DEF Accounted
<1>8. CASE Crash
  <2>1. faults' = faults + 1 /\ faults \in Nat /\ UNCHANGED <<fatal, refused, rejected>>
    BY <1>0, <1>8 DEF Crash, ShippingTypes, totals
  <2>2. faults' # 0
    BY <2>1
  <2> QED
    BY <2>1, <2>2 DEF Accounted
<1>9. CASE InventoryRefused
  BY <1>1, <1>9 DEF InventoryRefused, totals
<1>10. ASSUME NEW f \in Files, NEW newInode \in BOOLEAN, WriteText(f) \/ WriteNewline(f) \/ Rotate(f, newInode)
       PROVE  Accounted'
  <2>1. faults' = faults \/ faults' # 0
    BY <1>0, <1>10 DEF WriteText, WriteNewline, Rotate, ShippingTypes
  <2>2. SourceFrame
    BY <1>10 DEF WriteText, WriteNewline, Rotate
  <2> QED
    BY <1>1, <2>1, <2>2 DEF SourceFrame, totals, history
<1>11. ASSUME NEW c \in Channels, LogEvent(c)
       PROVE  Accounted'
  BY <1>1, <1>11 DEF LogEvent, SourceFrame, totals, history
<1> QED
  BY <1>2, <1>3, <1>4, <1>5, <1>6, <1>7, <1>8, <1>9, <1>10, <1>11 DEF ShippingNext

-----------------------------------------------------------------------------
(* The tail never reads past the file, and puts torn lines together. *)

\* Where a read of a file that only grew starts.
LEMMA GrownFile ==
  ASSUME ShippingTypes, NEW f \in Files, opts.fromStart, KeepsTheText(f)
  PROVE  /\ ReadFrom(f).ino = file[f].ino
         /\ ReadFrom(f).partial = IF ReadFrom(f).pos % 2 = 0 THEN None
                                   ELSE file[f].lines[(ReadFrom(f).pos + 1) \div 2]
<1> DEFINE t == tail[f]
           seen == IF t.pos = None THEN [t EXCEPT !.pos = 0, !.ino = file[f].ino] ELSE t
<1>1. t \in [pos : Position, ino : Position, partial : Position \cup {Garbled}] /\ Size(f) \in Nat
  BY ReadBounds DEF ShippingTypes
<1>2. ReadFrom(f) = IF seen.ino # file[f].ino \/ Size(f) < seen.pos
                    THEN [pos |-> 0, ino |-> file[f].ino, partial |-> None] ELSE seen
  BY DEF ReadFrom
<1>3. CASE t.pos = None
  <2>1. seen.ino = file[f].ino /\ seen.pos = 0 /\ seen.partial = None
    BY <1>1, <1>3 DEF KeepsTheText
  <2>2. ReadFrom(f) = seen
    BY <1>1, <1>2, <2>1
  <2> QED
    BY <2>1, <2>2
<1>4. CASE t.pos # None
  <2>1. seen = t /\ t.ino = file[f].ino /\ t.pos <= Size(f) /\ t.pos \in Nat /\ Size(f) \in Nat
    BY <1>1, <1>4 DEF KeepsTheText, Position
  <2>2. ~(Size(f) < t.pos)
    BY <2>1
  <2>3. ReadFrom(f) = t
    BY <1>2, <2>1, <2>2
  <2> QED
    BY <1>4, <2>1, <2>3 DEF KeepsTheText
<1> QED
  BY <1>3, <1>4

\* Every line of such a read is whole.
LEMMA WholeLinesRead ==
  ASSUME ShippingTypes, NEW f \in Files, opts.fromStart, KeepsTheText(f)
  PROVE  \A l \in Lines(ReadLines(f)) : l.whole
<1> DEFINE p == ReadFrom(f).pos
           from == p \div 2
           to == ReadTo(f) \div 2
<1>1. p \in Nat /\ ReadTo(f) \in Nat
  BY ReadBounds
<1>2. p % 2 \in {0, 1} /\ p = 2 * from + (p % 2) /\ from \in Nat /\ to \in Nat
  <2>1. \A m \in Nat : m % 2 \in {0, 1} /\ m = 2 * (m \div 2) + (m % 2) /\ m \div 2 \in Nat
    OBVIOUS
  <2> QED
    BY <1>1, <2>1
<1>3. ReadFrom(f).partial = IF p % 2 = 0 THEN None ELSE file[f].lines[(p + 1) \div 2]
  BY GrownFile
<1>4. ReadLines(f) = [i \in 1 .. to - from |->
                       [source |-> f, id |-> file[f].lines[from + i], whole |-> IsWhole(f, from + i)]]
  BY DEF ReadLines
<1>5. ASSUME NEW i \in 1 .. to - from
      PROVE  IsWhole(f, from + i)
  <2> DEFINE k == from + i
  <2>1. k \in Nat /\ k >= from + 1
    BY <1>2
  <2>2. IsWhole(f, k) = IF 2 * k - 1 <= p THEN ReadFrom(f).partial = file[f].lines[k]
                        ELSE 2 * k - 2 # p \/ ReadFrom(f).partial = None
    BY DEF IsWhole
  <2> HIDE DEF k, from, p
  <2>3. CASE p % 2 = 0
    <3>1. ~(2 * k - 1 <= p) /\ ReadFrom(f).partial = None
      BY <1>1, <1>2, <1>3, <2>1, <2>3
    <3> QED
      BY <2>2, <3>1 DEF k
  <2>4. CASE p % 2 = 1
    <3>1. (p + 1) \div 2 = from + 1
      BY <1>1, <1>2, <2>4
    <3>2. CASE 2 * k - 1 <= p
      <4>1. k = from + 1
        BY <1>1, <1>2, <2>1, <2>4, <3>2
      <4>2. ReadFrom(f).partial = file[f].lines[k]
        BY <1>3, <2>4, <3>1, <4>1
      <4>3. IsWhole(f, k)
        BY <2>2, <3>2, <4>2
      <4> QED
        BY <4>3 DEF k
    <3>3. CASE ~(2 * k - 1 <= p)
      <4>1. 2 * k - 2 # p
        BY <1>1, <1>2, <2>1, <2>4
      <4> QED
        BY <2>2, <3>3, <4>1 DEF k
    <3> QED
      BY <3>2, <3>3
  <2> QED
    BY <1>2, <2>3, <2>4
<1> QED
  BY <1>4, <1>5 DEF Lines, ToSet

\* After the read the tail keeps the text of the line it ended in.
LEMMA KeepsAfterRead ==
  ASSUME ShippingTypes, NEW f \in Files, opts.fromStart, KeepsTheText(f)
  PROVE  LET t == TailAfter(f) IN
         /\ t.pos \in Nat /\ t.ino = file[f].ino /\ t.pos <= Size(f)
         /\ t.partial = IF t.pos % 2 = 0 THEN None ELSE file[f].lines[(t.pos + 1) \div 2]
<1> DEFINE p == ReadFrom(f).pos
           t == ReadTo(f)
<1>1. p \in Nat /\ t \in Nat /\ p <= t /\ t <= Size(f) /\ ReadFrom(f).ino = file[f].ino
  BY ReadBounds, GrownFile
<1>2. ReadFrom(f).partial = IF p % 2 = 0 THEN None ELSE file[f].lines[(p + 1) \div 2]
  BY GrownFile
<1>3. ASSUME t % 2 # 0, p % 2 # 0, p \div 2 = t \div 2
      PROVE  t = p
  <2> HIDE DEF p, t
  <2>1. p = 2 * (p \div 2) + 1 /\ t = 2 * (t \div 2) + 1
    BY <1>1, <1>3
  <2> QED
    BY <1>3, <2>1
<1>4. Partial(f) = CASE t = p -> ReadFrom(f).partial
                     [] t # p /\ t % 2 = 0 -> None
                     [] OTHER -> IF ReadFrom(f).partial = None \/ p \div 2 # t \div 2
                                 THEN file[f].lines[(t + 1) \div 2] ELSE Garbled
  BY DEF Partial
<1>5. TailAfter(f) = [pos |-> t, ino |-> ReadFrom(f).ino, partial |-> Partial(f)]
  BY DEF TailAfter
<1> HIDE DEF p, t
<1>6. Partial(f) = IF t % 2 = 0 THEN None ELSE file[f].lines[(t + 1) \div 2]
  <2>1. CASE t = p
    BY <1>2, <1>4, <2>1
  <2>2. CASE t # p /\ t % 2 = 0
    BY <1>4, <2>2
  <2>3. CASE t # p /\ t % 2 # 0
    <3>1. ReadFrom(f).partial = None \/ p \div 2 # t \div 2
      BY <1>2, <1>3, <2>3
    <3> QED
      BY <1>4, <2>3, <3>1
  <2> QED
    BY <2>1, <2>2, <2>3
<1> QED
  BY <1>1, <1>5, <1>6

\* A file that grows keeps what was read of it.
LEMMA KeepsWhileGrowing ==
  ASSUME ShippingTypes, NEW f \in Files, NEW g \in Files, WriteText(g) \/ WriteNewline(g), KeepsTheText(f)
  PROVE  KeepsTheText(f)'
<1> DEFINE t == tail[f]
           L == file[f].lines
<1>1. tail' = tail
  BY DEF WriteText, WriteNewline, SourceFrame, reading
<1>2. L \in Seq(Nat) /\ file[f].half \in BOOLEAN /\ t.pos \in Position /\ (file[f].half => L # <<>>)
  BY DEF ShippingTypes
<1>3. CASE f # g
  <2>1. file'[f] = file[f]
    BY <1>3 DEF WriteText, WriteNewline, ShippingTypes
  <2> QED
    BY <1>1, <2>1 DEF KeepsTheText, Size
<1>4. CASE f = g /\ t.pos = None
  BY <1>1, <1>4 DEF KeepsTheText
<1>5. CASE f = g /\ t.pos # None
  <2>1. t.pos \in Nat /\ t.ino = file[f].ino /\ t.pos <= Size(f)
        /\ t.partial = IF t.pos % 2 = 0 THEN None ELSE L[(t.pos + 1) \div 2]
    BY <1>2, <1>5 DEF KeepsTheText, Position
  <2>2. Len(L) \in Nat /\ Size(f) = (IF file[f].half THEN 2 * Len(L) - 1 ELSE 2 * Len(L))
    BY <1>2 DEF Size
  <2>3. t.pos % 2 # 0 => (t.pos + 1) \div 2 \in 1 .. Len(L)
    <3>1. t.pos <= 2 * Len(L)
      BY <1>2, <2>1, <2>2
    <3> HIDE DEF t, L
    <3> QED
      BY <2>1, <2>2, <3>1, LineOfUnit
  <2>4. CASE WriteText(g)
    <3>1. file'[f].lines = Append(L, NextId(f)) /\ file'[f].half = TRUE /\ file'[f].ino = file[f].ino
          /\ ~file[f].half
      BY <1>5, <2>4 DEF WriteText, ShippingTypes
    <3>2. Len(Append(L, NextId(f))) = Len(L) + 1 /\ \A i \in 1 .. Len(L) : Append(L, NextId(f))[i] = L[i]
      BY <1>2
    <3>3. Size(f)' = 2 * (Len(L) + 1) - 1
      BY <3>1, <3>2 DEF Size
    <3>4. t.pos <= Size(f)'
      BY <2>1, <2>2, <3>1, <3>3
    <3>5. t.pos % 2 # 0 => file'[f].lines[(t.pos + 1) \div 2] = L[(t.pos + 1) \div 2]
      BY <2>3, <3>1, <3>2
    <3> HIDE DEF t, L
    <3> QED
      BY <1>1, <1>5, <2>1, <3>1, <3>4, <3>5 DEF KeepsTheText, t
  <2>5. CASE WriteNewline(g)
    <3>1. file'[f].lines = L /\ file'[f].half = FALSE /\ file'[f].ino = file[f].ino
      BY <1>5, <2>5 DEF WriteNewline, ShippingTypes
    <3>2. Size(f)' = 2 * Len(L)
      <4> HIDE DEF L
      <4>1. Size(f)' = 2 * Len(file'[f].lines) - IF file'[f].half THEN 1 ELSE 0
        BY DEF Size
      <4> QED
        BY <2>2, <3>1, <4>1
    <3>3. t.pos <= Size(f)'
      BY <1>2, <2>1, <2>2, <3>2
    <3> QED
      BY <1>1, <1>5, <2>1, <3>1, <3>3 DEF KeepsTheText
  <2> QED
    BY <2>4, <2>5
<1> QED
  BY <1>3, <1>4, <1>5

LEMMA WholeKept ==
  ASSUME ShippingTypes, WholeSoFar, ShippingNext
  PROVE  WholeSoFar'
<1>0. SUFFICES ASSUME opts'.fromStart, ~restarted', faults' = 0
               PROVE  (\A l \in taken' : l.whole) /\ \A f \in Files : KeepsTheText(f)'
  BY DEF WholeSoFar
<1>1. CASE UNCHANGED <<opts, file, tail, taken, restarted, faults>>
  BY <1>0, <1>1 DEF WholeSoFar, KeepsTheText, Size
<1>2. ASSUME NEW f \in Files, NEW newInode \in BOOLEAN, WriteText(f) \/ WriteNewline(f) \/ Rotate(f, newInode)
      PROVE  (\A l \in taken' : l.whole) /\ \A g \in Files : KeepsTheText(g)'
  <2>1. SourceFrame
    BY <1>2 DEF WriteText, WriteNewline, Rotate
  <2>2. ~Rotate(f, newInode)
    BY <1>0 DEF Rotate, ShippingTypes
  <2>3. faults' = faults
    BY <1>2, <2>2 DEF WriteText, WriteNewline
  <2>4. (\A l \in taken : l.whole) /\ \A g \in Files : KeepsTheText(g)
    BY <1>0, <2>1, <2>3 DEF WholeSoFar, SourceFrame, history
  <2> QED
    BY <1>2, <2>1, <2>2, <2>4, KeepsWhileGrowing DEF SourceFrame, history
<1>3. CASE Tick
  <2>1. UNCHANGED <<opts, file, restarted, faults>> /\ opts.files \subseteq Files
    BY <1>3 DEF Tick, source, ShippingTypes, OptionRecord
  <2>2. opts.fromStart /\ (\A l \in taken : l.whole) /\ \A f \in Files : KeepsTheText(f)
    BY <1>0, <2>1 DEF WholeSoFar
  <2>3. taken' = taken \cup UNION {Lines(ReadLines(f)) : f \in opts.files}
    BY <1>3 DEF Tick
  <2>4. \A l \in taken' : l.whole
    BY <2>1, <2>2, <2>3, WholeLinesRead
  <2>5. ASSUME NEW f \in Files
        PROVE  KeepsTheText(f)'
    <3>1. tail'[f] = IF f \in opts.files THEN TailAfter(f) ELSE tail[f]
      BY <1>3 DEF Tick
    <3>2. Size(f)' = Size(f) /\ file' = file
      BY <2>1 DEF Size
    <3>3. CASE f \in opts.files
      <4> DEFINE t == TailAfter(f)
      <4>1. /\ t.pos \in Nat /\ t.ino = file[f].ino /\ t.pos <= Size(f)
            /\ t.partial = IF t.pos % 2 = 0 THEN None ELSE file[f].lines[(t.pos + 1) \div 2]
        BY <2>2, KeepsAfterRead
      <4>2. t.pos # None
        BY <4>1, ShippingAssumption
      <4> HIDE DEF t
      <4>3. tail'[f] = t
        BY <3>1, <3>3 DEF t
      <4> QED
        BY <3>2, <4>1, <4>2, <4>3 DEF KeepsTheText
    <3>4. CASE f \notin opts.files
      BY <2>2, <3>1, <3>2, <3>4 DEF KeepsTheText
    <3> QED
      BY <3>3, <3>4
  <2> QED
    BY <2>4, <2>5
<1>4. ASSUME NEW c \in Channels, WinRead(c)
      PROVE  (\A l \in taken' : l.whole) /\ \A g \in Files : KeepsTheText(g)'
  <2>1. UNCHANGED <<opts, file, tail, restarted, faults>>
    BY <1>4 DEF WinRead, source
  <2>2. (\A l \in taken : l.whole) /\ \A g \in Files : KeepsTheText(g)
    BY <1>0, <2>1 DEF WholeSoFar
  <2>3. PICK new \in {NewEvents(c), <<>>} : taken' = taken \cup Lines(new)
    BY <1>4 DEF WinRead
  <2>4. \A l \in Lines(new) : l.whole
    <3>1. CASE new = <<>>
      BY <3>1, NoLines
    <3>2. CASE new = NewEvents(c)
      <4>1. \A i \in DOMAIN NewEvents(c) : NewEvents(c)[i].whole
        BY DEF NewEvents
      <4> QED
        BY <3>2, <4>1 DEF Lines, ToSet
    <3> QED
      BY <3>1, <3>2
  <2> QED
    BY <2>1, <2>2, <2>3, <2>4 DEF KeepsTheText, Size
<1>5. CASE Crash
  BY <1>0, <1>5 DEF Crash, ShippingTypes
<1>6. CASE Start
  BY <1>0, <1>6 DEF Start
<1>7. CASE \/ WinDone \/ Stop \/ InventoryRefused \/ (\E c \in Channels : LogEvent(c))
           \/ \E f \in Flushers : Answered(f)
  BY <1>1, <1>7 DEF WinDone, Stop, InventoryRefused, LogEvent, SourceFrame, Answered, PostAccepted, PostRejected,
                    PostRefused, PostFailed, FlushFrame, source, reading, history
<1> QED
  BY <1>2, <1>3, <1>4, <1>5, <1>6, <1>7 DEF ShippingNext

-----------------------------------------------------------------------------
(* The shipper implements LineDelivery. *)

LinesAbove == <<Held, received, dropped, rejected, lost>>

\* Lines read, and lines given up because the process ends.
LEMMA ReadsDelivery ==
  ASSUME InPlace, InPlace', ~overlap', Tick \/ WinDone \/ (\E c \in Channels : WinRead(c)) \/ Stop \/ Crash
  PROVE  Delivery!Read
<1>0. ShippingTypes /\ Callers /\ Fronts /\ up
  BY DEF InPlace, Tick, WinDone, WinRead, Stop, Crash
<1>1. UNCHANGED <<received, rejected>> /\ ~overlap
  <2>1. CASE Tick
    BY <2>1 DEF Tick
  <2>2. CASE WinDone
    BY <2>2 DEF WinDone
  <2>3. CASE \E c \in Channels : WinRead(c)
    BY <2>3 DEF WinRead, totals
  <2>4. CASE Stop
    BY <2>4 DEF Stop, totals
  <2>5. CASE Crash
    BY <2>5 DEF Crash, totals
  <2> QED
    BY <2>1, <2>2, <2>3, <2>4, <2>5
<1>2. Held = Stored /\ Held' = IF up' THEN Stored' ELSE {}
  BY <1>0, <1>1, HeldIsStored, HeldAfter
<1>3. Stored \subseteq Stored' \cup dropped' /\ dropped \subseteq dropped'
  BY <1>0, TickStored, WinDoneStored, WinReadStored DEF Stop, Crash, WinRead, totals, Stored, Queued
<1>4. Exit \/ UNCHANGED <<up, lost>>
  BY TickEnds DEF Tick, WinDone, WinRead, Stop, Crash
<1>5. lost \subseteq lost' /\ (up' \/ Held \subseteq lost' \cup received \cup rejected' \cup dropped')
  BY <1>0, <1>1, <1>4 DEF Exit
<1>6. up \in BOOLEAN /\ up' \in BOOLEAN
  BY DEF InPlace, ShippingTypes
<1>7. Held \subseteq Held' \cup received \cup (dropped \cup rejected \cup lost)'
  BY <1>2, <1>3, <1>5, <1>6
<1>8. dropped \cup rejected \cup lost \subseteq (dropped \cup rejected \cup lost)'
  BY <1>1, <1>3, <1>5
<1> QED
  BY <1>1, <1>7, <1>8 DEF Delivery!Read

\* An answer of the console settles the batch; when the process ends with it the rest is given up.
LEMMA AnswersDelivery ==
  ASSUME InPlace, InPlace', ~overlap', NEW f \in Flushers, Answered(f)
  PROVE  Delivery!Settle
<1> DEFINE batch == Lines(flusher[f].batch)
<1>0. /\ ShippingTypes /\ Callers /\ Fronts /\ up /\ ~overlap /\ flusher[f].pc = "post"
      /\ UNCHANGED <<win, dropped>> /\ AfterFlush(f)
  BY DEF InPlace, Answered, PostAccepted, PostRejected, PostRefused, PostFailed, Posting, FlushFrame, Spliced
<1>1. Held = Stored /\ (Held' = IF up' THEN Stored' ELSE {}) /\ batch \subseteq Stored
  BY <1>0, HeldIsStored, HeldAfter
<1>2. /\ received' \in {received, received \cup batch} /\ rejected' \in {rejected, rejected \cup batch}
      /\ Stored' \subseteq Stored
      /\ Stored \subseteq Stored' \cup received' \cup rejected'
      /\ Queued' \subseteq Stored
  <2>1. CASE PostAccepted(f) \/ PostRejected(f)
    <3>1. /\ Spliced(f) /\ batch \subseteq received' \cup rejected'
          /\ received' \in {received, received \cup batch} /\ rejected' \in {rejected, rejected \cup batch}
      BY <2>1 DEF PostAccepted, PostRejected
    <3>2. Stored' \subseteq Stored /\ Stored \subseteq Stored' \cup batch
      BY <1>0, <3>1, SplicedStored
    <3>3. Queued' \subseteq Stored'
      BY DEF Stored
    <3> QED
      BY <3>1, <3>2, <3>3
  <2>2. CASE PostRefused(f) \/ PostFailed(f)
    <3>1. /\ queues' = queues /\ rejected' = rejected /\ received' \in {received, received \cup batch}
      BY <2>2 DEF PostRefused, PostFailed
    <3>2. Stored' = Stored /\ Queued' = Queued
      BY <1>0, <3>1 DEF Stored, Queued
    <3> QED
      BY <3>1, <3>2 DEF Stored
  <2> QED
    BY <2>1, <2>2 DEF Answered
<1>3. UNCHANGED <<up, lost>> \/ Exit
  BY <1>0, FlushEnds DEF ShippingTypes
<1>4. /\ lost \subseteq lost' /\ lost' \subseteq lost \cup Held \cup Queued'
      /\ up' \/ Held \subseteq lost' \cup received' \cup rejected' \cup dropped'
  <2>1. CASE Exit
    <3>1. lost' = lost \cup ((Held \cup Queued') \ (received' \cup rejected' \cup dropped'))
      BY <2>1 DEF Exit, Queued
    <3> QED
      BY <3>1
  <2> QED
    BY <1>0, <1>3, <2>1
<1>5. up \in BOOLEAN /\ up' \in BOOLEAN
  BY DEF InPlace, ShippingTypes
<1> HIDE DEF batch
<1>6. Held' \subseteq Held
  BY <1>1, <1>2
<1>7. Held \subseteq Held' \cup received' \cup (dropped \cup rejected \cup lost)'
  BY <1>1, <1>2, <1>4, <1>5
<1>8. received \subseteq received' /\ received' \subseteq received \cup Held
  BY <1>1, <1>2
<1>9. /\ dropped \cup rejected \cup lost \subseteq (dropped \cup rejected \cup lost)'
      /\ (dropped \cup rejected \cup lost)' \subseteq (dropped \cup rejected \cup lost) \cup Held
  BY <1>0, <1>1, <1>2, <1>4
<1> QED
  BY <1>6, <1>7, <1>8, <1>9 DEF Delivery!Settle

LEMMA StepDelivers ==
  ASSUME InPlace, InPlace', Next
  PROVE  overlap' \/ Delivery!Next \/ UNCHANGED LinesAbove
<1>0. SUFFICES ASSUME ~overlap'
               PROVE  Delivery!Next \/ UNCHANGED LinesAbove
  OBVIOUS
<1>1. CASE UNCHANGED <<up, queues, flusher, win, received, dropped, rejected, lost>>
  BY <1>1 DEF LinesAbove, Held
<1>2. CASE UNCHANGED shipVars
  BY <1>1, <1>2 DEF shipVars, totals, history
<1>3. CASE SourceFrame \/ InventoryRefused
  BY <1>1, <1>3 DEF SourceFrame, InventoryRefused, totals, history
<1>4. CASE Start
  <2>1. Held = {} /\ Held' = {}
    <3>1. /\ ~up /\ up' = TRUE
          /\ \A k \in Queues : queues'[k] = <<>>
          /\ \A f \in Flushers : flusher'[f].batch = <<>>
          /\ win'.lines = <<>>
      BY <1>4 DEF Start, NoQueues, Idlers, Idle, NoWin
    <3>2. Stored' = {}
      BY <3>1, NoLines DEF Stored, Queued
    <3>3. Held' = {}
      BY <1>0, <3>1, <3>2, HeldAfter
    <3> QED
      BY <3>1, <3>3 DEF Held
  <2> QED
    BY <1>4, <2>1 DEF Start, LinesAbove, totals
<1>5. CASE Tick \/ WinDone \/ (\E c \in Channels : WinRead(c)) \/ Stop \/ Crash
  BY <1>0, <1>5, ReadsDelivery DEF Delivery!Next
<1>6. CASE \E f \in Flushers : Answered(f)
  BY <1>0, <1>6, AnswersDelivery DEF Delivery!Next
<1> QED
  BY <1>2, <1>3, <1>4, <1>5, <1>6, SourceSteps DEF Next, ShippingNext

-----------------------------------------------------------------------------
(* The theorems. *)

LEMMA InitShippingInv ==
  ASSUME Init
  PROVE  ShippingInv
<1>1. /\ opts \in OptionRecord /\ up = TRUE /\ stopping = FALSE /\ fatal = FALSE /\ overlap = FALSE
      /\ refused = FALSE /\ restarted = FALSE /\ faults = 0 /\ taken = {} /\ received = {} /\ rejected = {}
      /\ file = [f \in Files |-> [ino |-> 0, first |-> 1, lines |-> <<>>, half |-> FALSE]]
      /\ events = [c \in Channels |-> 0] /\ tail = Tails(NoState) /\ state = NoState /\ saved = NoState
      /\ queues = NoQueues /\ flusher = Idlers /\ ticking = "idle" /\ win = NoWin
  BY OptionAssumption DEF Init, ShippingInit
<1>2. state \in [Files \cup Channels -> [pos : Position, ino : Position]]
  BY <1>1 DEF NoState, Position
<1>3. \A f \in Files : tail[f] = [pos |-> None, ino |-> None, partial |-> None]
  BY <1>1 DEF Tails, NewTail, NoState
<1>4. tail \in [Files -> [pos : Position, ino : Position, partial : Position \cup {Garbled}]]
  BY <1>1, <1>3 DEF Tails, Position
<1>5. file \in [Files -> [ino : Nat, first : Nat, lines : Seq(Nat), half : BOOLEAN]]
  BY <1>1
<1>6. /\ queues \in [Queues -> Seq(Line)] /\ win \in [todo : SUBSET Channels, lines : Seq(Line)]
      /\ flusher \in [Flushers -> FlusherRecord]
  BY <1>1 DEF NoQueues, NoWin, Idlers, Idle, FlusherRecord
<1>7. ShippingTypes
  BY <1>1, <1>2, <1>4, <1>5, <1>6 DEF ShippingTypes, FlusherRecord
<1>8. Callers /\ Accounted /\ (~overlap => \A f \in Flushers : PostsTheFront(f))
  BY <1>1 DEF Callers, Accounted, PostsTheFront, Idlers, Idle, Flushers
<1>9. WholeSoFar
  BY <1>1, <1>3 DEF WholeSoFar, KeepsTheText
<1> QED
  BY <1>7, <1>8, <1>9 DEF ShippingInv

\* The invariant of the shipper: what it keeps in memory is well formed, who posts what, and where the
\* lines are (main, tick, flush, stop and Tail.read).
THEOREM ShippingInvariant == Spec => []ShippingInv
<1>1. Init => ShippingInv
  BY InitShippingInv
<1>2. ShippingInv /\ [Next]_vars => ShippingInv'
  <2>1. CASE UNCHANGED shipVars
    <3>1. ShippingTypes => ShippingTypes'
      BY <2>1 DEF ShippingTypes, shipVars, source, reading, totals, history
    <3>2. Callers => Callers'
      BY <2>1 DEF Callers, shipVars, history
    <3>3. Held' = Held
      BY <2>1 DEF Held, shipVars
    <3>4. Accounted => Accounted'
      BY <2>1, <3>3 DEF Accounted, shipVars, totals, history
    <3>5. WholeSoFar => WholeSoFar'
      BY <2>1 DEF WholeSoFar, KeepsTheText, Size, shipVars, source, reading, history
    <3>6. (\A f \in Flushers : PostsTheFront(f)) => \A f \in Flushers : PostsTheFront(f)'
      BY <2>1 DEF PostsTheFront, AtFront, shipVars
    <3>7. overlap' = overlap
      BY <2>1 DEF shipVars, history
    <3> QED
      BY <3>1, <3>2, <3>4, <3>5, <3>6, <3>7 DEF ShippingInv
  <2>2. CASE ShippingNext
    <3>1. ASSUME ShippingInv
          PROVE  ShippingInv'
      <4>1. InPlace /\ Accounted /\ WholeSoFar
        BY <3>1 DEF ShippingInv, InPlace, Fronts
      <4>2. InPlace'
        BY <2>2, <4>1, TypesKept, CallersKept, FrontsKept DEF InPlace
      <4>3. Accounted' /\ WholeSoFar'
        BY <2>2, <4>1, <4>2, AccountedKept, WholeKept DEF InPlace
      <4> QED
        BY <4>2, <4>3 DEF ShippingInv, InPlace, Fronts
    <3> QED
      BY <3>1
  <2> QED
    BY <2>1, <2>2 DEF Next, vars
<1> QED
  BY <1>1, <1>2, PTL DEF Spec

\* "Stopping; sending what is queued": when the agent ends in order and every post was accepted, no line
\* it read is missing at the console, but those a full queue cut (stop, flush and the pass of --once).
THEOREM CleanExit == Spec => []CleanExitLosesNothing
<1>1. ShippingInv => CleanExitLosesNothing
  BY DEF ShippingInv, Accounted, CleanExitLosesNothing, Held
<1> QED
  BY <1>1, ShippingInvariant, PTL

\* Read with --from-start and until something fails, no line reaches the queues torn (Tail.read).
THEOREM ReadsWholeLines ==
  Spec => [](opts.fromStart /\ ~restarted /\ faults = 0 => \A l \in taken : l.whole)
<1>1. ShippingInv => (opts.fromStart /\ ~restarted /\ faults = 0 => \A l \in taken : l.whole)
  BY DEF ShippingInv, WholeSoFar
<1> QED
  BY <1>1, ShippingInvariant, PTL

\* The shipper implements LineDelivery, whatever fails, until stop() meets a tick at work: a line it has
\* read is in memory, at the console, or on record as dropped, rejected or lost with the process.
THEOREM ShipperDelivers == Spec => DeliverySpec
<1>1. Init => Delivery!Init
  <2>1. ASSUME Init
        PROVE  Held = {}
    <3>1. /\ \A k \in Queues : queues[k] = <<>>
          /\ \A f \in Flushers : flusher[f].batch = <<>>
          /\ win.lines = <<>>
      BY <2>1 DEF Init, ShippingInit, NoQueues, Idlers, Idle, NoWin
    <3>2. UNION {Lines(queues[k]) : k \in Queues} = {} /\ UNION {Lines(flusher[f].batch) : f \in Flushers} = {}
      BY <3>1, NoLines
    <3> QED
      BY <3>1, <3>2, NoLines DEF Held
  <2> QED
    BY <2>1 DEF Init, ShippingInit, Delivery!Init
<1>2. ShippingInv /\ ShippingInv' /\ [Next]_vars => [overlap' \/ Delivery!Next]_LinesAbove
  <2>1. ShippingInv => InPlace
    BY DEF ShippingInv, InPlace, Fronts
  <2>2. ShippingInv' => InPlace'
    BY DEF ShippingInv, InPlace, Fronts
  <2>3. CASE UNCHANGED vars
    BY <2>3 DEF vars, shipVars, totals, history, LinesAbove, Held
  <2> QED
    BY <2>1, <2>2, <2>3, StepDelivers
<1>3. LinesAbove = <<Held, received, dropped, rejected, lost>>
  BY DEF LinesAbove
<1> QED
  BY <1>1, <1>2, <1>3, ShippingInvariant, PTL DEF Spec, DeliverySpec, LinesAbove

-----------------------------------------------------------------------------
(* The order of lines: what sequences of waiting lines keep. *)

\* The marks of the first n lines of W.
FrontPassed(W, n, P) == \A m \in 1 .. n : <<W[m].source, W[m].id>> \in P

\* Taking settled lines off the front keeps the order of the rest.
LEMMA ShiftKeeps ==
  ASSUME NEW W, NEW V, NEW n \in Nat, DOMAIN W = 1 .. Len(V) + n, Len(W) = Len(V) + n,
         Len(V) \in Nat, DOMAIN V = 1 .. Len(V), \A m \in 1 .. Len(V) : V[m] = W[m + n],
         NEW P, NEW P2, P \subseteq P2, FrontPassed(W, n, P2), NEW R, NEW T, NEW s, NEW c \in Nat
  PROVE  /\ Ascending(W) => Ascending(V)
         /\ Waits(W, P, R, s, c) => Waits(V, P2, R, s, c)
         /\ \A b \in Nat : Resumes(W, P, R, T, s, b, c) => Resumes(V, P2, R, T, s, b, c)
<1>0. PICK v, w : /\ v \in Nat /\ w \in Nat /\ w = v + n /\ DOMAIN W = 1 .. w /\ Len(W) = w
                  /\ DOMAIN V = 1 .. v /\ Len(V) = v /\ \A m \in 1 .. v : V[m] = W[m + n]
  <2>1. PICK v, w : v = Len(V) /\ w = v + n
    OBVIOUS
  <2>2. /\ v \in Nat /\ w \in Nat /\ w = v + n /\ DOMAIN W = 1 .. w /\ Len(W) = w
        /\ DOMAIN V = 1 .. v /\ Len(V) = v /\ \A m \in 1 .. v : V[m] = W[m + n]
    BY <2>1
  <2> QED BY <2>2
<1>1. \A m \in DOMAIN V : m \in Nat /\ m + n \in DOMAIN W /\ V[m] = W[m + n]
  BY <1>0
<1>2. ASSUME Ascending(W), NEW k \in DOMAIN V, NEW m \in DOMAIN V, k < m, V[k].source = V[m].source
      PROVE  V[k].id < V[m].id
  <2>1. k + n < m + n
    BY <1>1, <1>2
  <2> QED BY <1>1, <1>2, <2>1 DEF Ascending
<1>3. Waits(W, P, R, s, c) => Waits(V, P2, R, s, c)
  BY <1>1 DEF Waits
<1>4. ASSUME NEW i, NEW k \in Nat, k <= v, InQueue(W, s, i, k + n)
      PROVE  <<s, i>> \in P2 \/ InQueue(V, s, i, k)
  <2>1. PICK m \in 1 .. k + n : W[m].source = s /\ W[m].id = i
    BY <1>0, <1>4 DEF InQueue
  <2>2. CASE m <= n
    <3>1. m \in 1 .. n
      BY <2>2
    <3> QED BY <2>1, <3>1 DEF FrontPassed
  <2>3. CASE m > n
    <3>1. PICK j \in 1 .. k : j + n = m
      <4>1. m - n \in 1 .. k /\ (m - n) + n = m
        BY <1>0, <1>4, <2>3
      <4> QED BY <4>1
    <3>2. V[j] = W[m]
      <4>1. j \in 1 .. v
        BY <1>0, <1>4
      <4> QED BY <1>0, <3>1, <4>1
    <3> QED BY <2>1, <3>1, <3>2 DEF InQueue
  <2> QED BY <2>2, <2>3
<1>5. ASSUME NEW b \in Nat, Resumes(W, P, R, T, s, b, c)
      PROVE  Resumes(V, P2, R, T, s, b, c)
  <2>1. \A r \in R : r.source = s => \A i \in b .. r.id : <<s, i>> \in P2
    BY <1>5 DEF Resumes
  <2>2. ASSUME NEW m \in DOMAIN V, V[m].source = s, NEW i \in b .. V[m].id - 1
        PROVE  <<s, i>> \in P2 \/ InQueue(V, s, i, m - 1)
    <3>1. m + n \in DOMAIN W /\ W[m + n] = V[m] /\ m - 1 \in Nat /\ m - 1 <= v /\ (m + n) - 1 = (m - 1) + n
      BY <1>0, <1>1
    <3>2. <<s, i>> \in P \/ InQueue(W, s, i, (m + n) - 1)
      BY <1>5, <2>2, <3>1 DEF Resumes
    <3> QED BY <1>0, <1>4, <3>1, <3>2
  <2>3. ASSUME NEW i \in b .. c - 1, s \in Files => <<s, i>> \in T
        PROVE  <<s, i>> \in P2 \/ InQueue(V, s, i, Len(V))
    <3>1. <<s, i>> \in P \/ InQueue(W, s, i, Len(W))
      BY <1>0, <1>5, <2>3 DEF Resumes
    <3> QED BY <1>0, <1>4, <3>1
  <2> QED BY <2>1, <2>2, <2>3 DEF Resumes
<1> QED BY <1>2, <1>3, <1>5 DEF Ascending

\* So does a suffix of a queue.
LEMMA BeheadKeeps ==
  ASSUME NEW W \in Seq(Line), NEW n \in 0 .. Len(W), NEW P, NEW P2, P \subseteq P2, FrontPassed(W, n, P2),
         NEW R, NEW T, NEW s, NEW c \in Nat
  PROVE  LET V == SubSeq(W, n + 1, Len(W))
         IN /\ V \in Seq(Line) /\ \A m \in DOMAIN V : m + n \in DOMAIN W /\ V[m] = W[m + n]
            /\ Ascending(W) => Ascending(V)
            /\ Waits(W, P, R, s, c) => Waits(V, P2, R, s, c)
            /\ \A b \in Nat : Resumes(W, P, R, T, s, b, c) => Resumes(V, P2, R, T, s, b, c)
<1>1. PICK w, v : /\ w \in Nat /\ v \in Nat /\ n \in Nat /\ w = v + n
                  /\ DOMAIN W = 1 .. w /\ Len(W) = w
  <2>1. Len(W) \in Nat /\ Len(W) - n \in Nat /\ n \in Nat /\ Len(W) = (Len(W) - n) + n /\ DOMAIN W = 1 .. Len(W)
    OBVIOUS
  <2> QED BY <2>1
<1>2. PICK V : /\ V = SubSeq(W, n + 1, Len(W))
               /\ V \in Seq(Line) /\ DOMAIN V = 1 .. v /\ Len(V) = v /\ \A m \in 1 .. v : V[m] = W[m + n]
  <2> DEFINE U == SubSeq(W, n + 1, Len(W))
  <2>1. U \in Seq(Line) /\ DOMAIN U = 1 .. v /\ Len(U) = v /\ \A m \in 1 .. v : U[m] = W[m + n]
    BY <1>1
  <2>2. U = SubSeq(W, n + 1, Len(W))
    OBVIOUS
  <2> HIDE DEF U
  <2> QED BY <2>1, <2>2
<1>3. V \in Seq(Line) /\ DOMAIN V = 1 .. v /\ Len(V) = v /\ \A m \in 1 .. v : V[m] = W[m + n]
  BY <1>2
<1>4. \A m \in DOMAIN V : m + n \in DOMAIN W /\ V[m] = W[m + n]
  BY <1>1, <1>3
<1>5. /\ Ascending(W) => Ascending(V)
      /\ Waits(W, P, R, s, c) => Waits(V, P2, R, s, c)
      /\ \A b \in Nat : Resumes(W, P, R, T, s, b, c) => Resumes(V, P2, R, T, s, b, c)
  <2>1. n \in Nat /\ DOMAIN W = 1 .. Len(V) + n /\ Len(W) = Len(V) + n
    BY <1>1, <1>3
  <2>2. Len(V) \in Nat /\ DOMAIN V = 1 .. Len(V) /\ \A m \in 1 .. Len(V) : V[m] = W[m + n]
    BY <1>1, <1>3
  <2> QED BY <2>1, <2>2, ShiftKeeps
<1> QED BY <1>2, <1>3, <1>4, <1>5

\* Lines at the front reach the console.
LEMMA DeliverKeeps ==
  ASSUME NEW W \in Seq(Line), NEW n \in 0 .. Len(W), NEW P, NEW P2, P \subseteq P2, FrontPassed(W, n, P2),
         NEW R, NEW R2, \A r \in R2 : r \in R \/ \E m \in 1 .. n : r = W[m],
         Ascending(W), NEW T, NEW s, NEW c \in Nat
  PROVE  /\ Waits(W, P, R, s, c) => Waits(W, P2, R2, s, c)
         /\ \A b \in Nat : Resumes(W, P, R, T, s, b, c) => Resumes(W, P2, R2, T, s, b, c)
<1>0. \A m \in 1 .. Len(W) : W[m] \in Line
  OBVIOUS
<1>1. /\ Len(W) \in Nat /\ DOMAIN W = 1 .. Len(W) /\ n \in Nat /\ n <= Len(W)
      /\ \A m \in 1 .. Len(W) : W[m].id \in Nat
  BY <1>0 DEF Line
<1>2. ASSUME Waits(W, P, R, s, c)
      PROVE  Waits(W, P2, R2, s, c)
  <2>1. ASSUME NEW k \in DOMAIN W, W[k].source = s, NEW r \in R2, r.source = s, W[k].id <= r.id
        PROVE  <<s, W[k].id>> \in P2
    <3>1. CASE r \in R
      BY <1>2, <2>1, <3>1 DEF Waits
    <3>2. ASSUME NEW m \in 1 .. n, r = W[m] PROVE <<s, W[k].id>> \in P2
      <4>1. ~(m < k)
        BY <1>1, <2>1, <3>2 DEF Ascending
      <4>2. k \in 1 .. n
        BY <1>1, <4>1
      <4> QED BY <2>1, <4>2 DEF FrontPassed
    <3> QED BY <3>1, <3>2
  <2> QED BY <1>2, <2>1 DEF Waits
<1>3. ASSUME NEW b \in Nat, Resumes(W, P, R, T, s, b, c)
      PROVE  Resumes(W, P2, R2, T, s, b, c)
  <2>1. ASSUME NEW r \in R2, r.source = s, NEW i \in b .. r.id
        PROVE  <<s, i>> \in P2
    <3>1. CASE r \in R
      BY <1>3, <2>1, <3>1 DEF Resumes
    <3>2. ASSUME NEW m \in 1 .. n, r = W[m] PROVE <<s, i>> \in P2
      <4>1. CASE i = W[m].id
        BY <2>1, <3>2, <4>1 DEF FrontPassed
      <4>2. CASE i # W[m].id
        <5>1. m \in DOMAIN W /\ i \in b .. W[m].id - 1
          BY <1>1, <2>1, <3>2, <4>2
        <5>2. <<s, i>> \in P \/ InQueue(W, s, i, m - 1)
          BY <1>3, <2>1, <3>2, <5>1 DEF Resumes
        <5>3. ASSUME InQueue(W, s, i, m - 1) PROVE <<s, i>> \in P2
          <6>1. PICK k \in 1 .. m - 1 : W[k].source = s /\ W[k].id = i
            BY <5>3 DEF InQueue
          <6> QED BY <1>1, <6>1 DEF FrontPassed
        <5> QED BY <5>2, <5>3
      <4> QED BY <4>1, <4>2
    <3> QED BY <3>1, <3>2
  <2> QED BY <1>3, <2>1 DEF Resumes
<1> QED BY <1>2, <1>3

\* What another source does.
LEMMA OthersKeep ==
  ASSUME NEW W, NEW P, NEW P2, P \subseteq P2, NEW s,
         NEW R, NEW R2, \A r \in R2 : r.source = s => r \in R,
         NEW T, NEW T2, \A i \in Nat : <<s, i>> \in T2 => <<s, i>> \in T, NEW c \in Nat
  PROVE  /\ Waits(W, P, R, s, c) => Waits(W, P2, R2, s, c)
         /\ \A b \in Nat : Resumes(W, P, R, T, s, b, c) => Resumes(W, P2, R2, T2, s, b, c)
<1>1. Waits(W, P, R, s, c) => Waits(W, P2, R2, s, c)
  BY DEF Waits
<1>2. ASSUME NEW b \in Nat, Resumes(W, P, R, T, s, b, c) PROVE Resumes(W, P2, R2, T2, s, b, c)
  <2>1. \A i \in b .. c - 1 : (s \in Files => <<s, i>> \in T2) => <<s, i>> \in P2 \/ InQueue(W, s, i, Len(W))
    BY <1>2 DEF Resumes
  <2> QED BY <1>2, <2>1 DEF Resumes
<1> QED BY <1>1, <1>2

\* What a sequence put behind another looks like.
LEMMA Concatenation ==
  ASSUME NEW W \in Seq(Line), NEW new \in Seq(Line)
  PROVE  /\ Len(W) \in Nat /\ Len(new) \in Nat /\ DOMAIN W = 1 .. Len(W) /\ DOMAIN new = 1 .. Len(new)
         /\ DOMAIN (W \o new) = 1 .. Len(W) + Len(new) /\ Len(W \o new) = Len(W) + Len(new)
         /\ W \o new \in Seq(Line)
         /\ \A m \in 1 .. Len(W) : (W \o new)[m] = W[m] /\ (W \o new)[m].id \in Nat
         /\ \A j \in 1 .. Len(new) : (W \o new)[Len(W) + j] = new[j] /\ new[j].id \in Nat
<1> DEFINE V == W \o new
<1>1. /\ V \in Seq(Line) /\ Len(V) = Len(W) + Len(new) /\ DOMAIN V = 1 .. Len(W) + Len(new)
      /\ \A m \in 1 .. Len(W) : V[m] = W[m]
      /\ \A j \in 1 .. Len(new) : V[Len(W) + j] = new[j]
      /\ Len(W) \in Nat /\ Len(new) \in Nat /\ DOMAIN W = 1 .. Len(W) /\ DOMAIN new = 1 .. Len(new)
  OBVIOUS
<1>2. /\ \A m \in 1 .. Len(W) : W[m] \in Line
      /\ \A j \in 1 .. Len(new) : new[j] \in Line
  OBVIOUS
<1>3. \A l \in Line : l.id \in Nat
  BY DEF Line
<1>4. V = W \o new
  OBVIOUS
<1> HIDE DEF V
<1>5. \A m \in 1 .. Len(W) : V[m] = W[m] /\ V[m].id \in Nat
  BY <1>1, <1>2, <1>3
<1>6. \A j \in 1 .. Len(new) : V[Len(W) + j] = new[j] /\ new[j].id \in Nat
  BY <1>1, <1>2, <1>3
<1> QED BY <1>1, <1>4, <1>5, <1>6

\* Lines of another source are put behind.
LEMMA AppendOthers ==
  ASSUME NEW W \in Seq(Line), NEW new \in Seq(Line), NEW s, \A j \in DOMAIN new : new[j].source # s,
         NEW P, NEW R, NEW T, NEW c \in Nat
  PROVE  /\ Waits(W, P, R, s, c) => Waits(W \o new, P, R, s, c)
         /\ \A b \in Nat : Resumes(W, P, R, T, s, b, c) => Resumes(W \o new, P, R, T, s, b, c)
<1>a. PICK V, w, n : V = W \o new /\ w = Len(W) /\ n = Len(new)
  OBVIOUS
<1>b. /\ w \in Nat /\ n \in Nat /\ DOMAIN W = 1 .. w /\ DOMAIN new = 1 .. n
      /\ DOMAIN V = 1 .. w + n /\ Len(V) = w + n /\ V \in Seq(Line)
      /\ \A m \in 1 .. w : V[m] = W[m] /\ V[m].id \in Nat
      /\ \A j \in 1 .. n : V[w + j] = new[j] /\ new[j].id \in Nat
  BY <1>a, Concatenation
<1>1. /\ w \in Nat /\ n \in Nat
      /\ DOMAIN W = 1 .. w /\ Len(W) = w /\ DOMAIN new = 1 .. n /\ Len(new) = n
      /\ DOMAIN V = 1 .. w + n /\ Len(V) = w + n /\ V \in Seq(Line)
      /\ \A m \in 1 .. w : V[m] = W[m] /\ V[m].id \in Nat
      /\ \A j \in 1 .. n : V[w + j] = new[j] /\ new[j].id \in Nat
  BY <1>a, <1>b
<1>2. ASSUME NEW m \in DOMAIN V, V[m].source = s
      PROVE  m \in DOMAIN W /\ V[m] = W[m]
  <2>1. CASE m <= w
    BY <1>1, <2>1
  <2>2. CASE m > w
    <3>1. m - w \in 1 .. n /\ w + (m - w) = m
      BY <1>1, <2>2
    <3>2. V[m] = new[m - w]
      BY <1>1, <3>1
    <3> QED BY <1>1, <1>2, <3>1, <3>2
  <2> QED BY <1>1, <2>1, <2>2
<1>3. \A i, k : k \in 0 .. w /\ InQueue(W, s, i, k) => InQueue(V, s, i, k)
  BY <1>1 DEF InQueue
<1>4. Waits(W, P, R, s, c) => Waits(V, P, R, s, c)
  BY <1>2 DEF Waits
<1>5. ASSUME NEW b \in Nat, Resumes(W, P, R, T, s, b, c) PROVE Resumes(V, P, R, T, s, b, c)
  <2>1. ASSUME NEW m \in DOMAIN V, V[m].source = s, NEW i \in b .. V[m].id - 1
        PROVE  <<s, i>> \in P \/ InQueue(V, s, i, m - 1)
    <3>1. m \in DOMAIN W /\ V[m] = W[m]
      BY <1>2, <2>1
    <3>2. m - 1 \in 0 .. w
      BY <1>1, <3>1
    <3>3. <<s, i>> \in P \/ InQueue(W, s, i, m - 1)
      BY <1>5, <2>1, <3>1 DEF Resumes
    <3> QED BY <1>3, <3>2, <3>3
  <2>2. ASSUME NEW i, InQueue(W, s, i, Len(W)) PROVE InQueue(V, s, i, Len(V))
    BY <1>1, <2>2 DEF InQueue
  <2> QED BY <1>5, <2>1, <2>2 DEF Resumes
<1> QED BY <1>a, <1>4, <1>5

\* The lines of a source from c on are put behind.
LEMMA AppendKeeps ==
  ASSUME NEW W \in Seq(Line), NEW new \in Seq(Line), NEW s, NEW c \in Nat, NEW P, NEW P2, P \subseteq P2, NEW R,
         NEW T, NEW T2, NEW d \in Nat, d = c + Len(new),
         \A j \in DOMAIN new : new[j].source = s /\ new[j].id = c + j - 1,
         \A i \in Nat : <<s, i>> \in T2 => <<s, i>> \in T \/ i \in c .. d - 1,
         Ascending(W), Waits(W, P, R, s, c), Resumes(W, P, R, T, s, c, c)
  PROVE  /\ Ascending(W \o new)
         /\ Waits(W \o new, P2, R, s, d)
         /\ Resumes(W \o new, P2, R, T2, s, d, d)
         /\ \A b \in Nat : /\ Resumes(W, P, R, T, s, b, c)
                           /\ s \in Files => \A i \in b .. c - 1 : <<s, i>> \in T \cup P2
                           => Resumes(W \o new, P2, R, T2, s, b, d)
<1>a. PICK V, w, n : V = W \o new /\ w = Len(W) /\ n = Len(new)
  OBVIOUS
<1>b. /\ w \in Nat /\ n \in Nat /\ DOMAIN W = 1 .. w /\ DOMAIN new = 1 .. n
      /\ DOMAIN V = 1 .. w + n /\ Len(V) = w + n /\ V \in Seq(Line)
      /\ \A m \in 1 .. w : V[m] = W[m] /\ V[m].id \in Nat
      /\ \A j \in 1 .. n : V[w + j] = new[j] /\ new[j].id \in Nat
  BY <1>a, Concatenation
<1>0. /\ w \in Nat /\ n \in Nat
      /\ DOMAIN W = 1 .. w /\ Len(W) = w /\ DOMAIN new = 1 .. n /\ Len(new) = n
      /\ DOMAIN V = 1 .. w + n /\ Len(V) = w + n /\ V \in Seq(Line)
      /\ \A m \in 1 .. w : V[m] = W[m] /\ V[m].id \in Nat
      /\ \A j \in 1 .. n : V[w + j] = new[j] /\ new[j].id \in Nat
  BY <1>a, <1>b
<1>1. d = c + n /\ Len(V) \in Nat /\ w \in Nat /\ n \in Nat
  BY <1>0
<1>2. ASSUME NEW m \in DOMAIN V, m > w
      PROVE  V[m].source = s /\ V[m].id = c + (m - w) - 1
  <2>1. m - w \in 1 .. n /\ w + (m - w) = m
    BY <1>0, <1>2
  <2>2. V[m] = new[m - w]
    BY <1>0, <2>1
  <2> QED BY <1>0, <2>1, <2>2
<1>3. \A m \in 1 .. w : V[m].source = s => V[m].id < c
  BY <1>0 DEF Waits
<1>5. ASSUME NEW m \in DOMAIN V, NEW k \in DOMAIN V, m < k, V[m].source = V[k].source
      PROVE  V[m].id < V[k].id
  <2>1. CASE k <= w
    <3>1. m \in DOMAIN W /\ k \in DOMAIN W /\ V[m] = W[m] /\ V[k] = W[k]
      BY <1>0, <1>5, <2>1
    <3> QED BY <1>5, <3>1 DEF Ascending
  <2>2. CASE k > w /\ m <= w
    <3>1. V[k].source = s /\ V[k].id = c + (k - w) - 1
      BY <1>2, <2>2
    <3>2. m \in 1 .. w
      BY <1>0, <2>2
    <3>3. V[m].id < c /\ V[m].id \in Nat
      BY <1>0, <1>3, <1>5, <3>1, <3>2
    <3> QED BY <1>0, <2>2, <3>1, <3>3
  <2>3. CASE m > w
    <3>1. V[m].id = c + (m - w) - 1 /\ V[k].id = c + (k - w) - 1
      BY <1>0, <1>2, <1>5, <2>3
    <3> QED BY <1>0, <1>5, <2>3, <3>1
  <2> QED BY <1>0, <2>1, <2>2, <2>3
<1>6. ASSUME NEW i \in c .. d - 1
      PROVE  \E m \in 1 .. w + n : m = i - c + 1 + w /\ V[m].source = s /\ V[m].id = i
  <2>1. i - c + 1 + w \in DOMAIN V /\ i - c + 1 + w > w /\ c + ((i - c + 1 + w) - w) - 1 = i
    BY <1>0, <1>1
  <2>2. V[i - c + 1 + w].source = s /\ V[i - c + 1 + w].id = i
    BY <1>2, <2>1
  <2> QED BY <1>0, <2>1, <2>2
<1>7. \A i, k : k \in 0 .. w /\ InQueue(W, s, i, k) => InQueue(V, s, i, k) /\ InQueue(V, s, i, Len(V))
  BY <1>0 DEF InQueue
<1>8. \A i \in c .. d - 1 : InQueue(V, s, i, Len(V))
  BY <1>0, <1>6 DEF InQueue
<1>9. Waits(V, P2, R, s, d)
  <2>1. ASSUME NEW m \in DOMAIN V, V[m].source = s
        PROVE  V[m].id < d /\ \A r \in R : r.source = s /\ V[m].id <= r.id => <<s, V[m].id>> \in P2
    <3>1. CASE m <= w
      <4>1. m \in DOMAIN W /\ V[m] = W[m] /\ V[m].id \in Nat
        BY <1>0, <3>1
      <4>2. V[m].id < c
        BY <2>1, <4>1 DEF Waits
      <4> QED BY <1>1, <2>1, <4>1, <4>2 DEF Waits
    <3>2. CASE m > w
      <4>1. V[m].id = c + (m - w) - 1 /\ m - w \in 1 .. n
        BY <1>0, <1>2, <3>2
      <4>2. V[m].id \in c .. d - 1
        BY <1>1, <4>1
      <4>3. ASSUME NEW r \in R, r.source = s, V[m].id <= r.id PROVE <<s, V[m].id>> \in P
        <5>1. V[m].id \in c .. r.id
          BY <4>2, <4>3
        <5> QED BY <4>3, <5>1 DEF Resumes
      <4>4. V[m].id < d
        BY <1>1, <4>2
      <4> QED BY <4>3, <4>4
    <3>3. m <= w \/ m > w
      BY <1>0, <2>1
    <3> QED BY <3>1, <3>2, <3>3
  <2> QED BY <2>1 DEF Waits
<1>10. ASSUME NEW b \in Nat, Resumes(W, P, R, T, s, b, c), s \in Files => \A i \in b .. c - 1 : <<s, i>> \in T \cup P2
       PROVE  Resumes(V, P2, R, T2, s, b, d)
  <2>1. \A r \in R : r.source = s => \A i \in b .. r.id : <<s, i>> \in P2
    BY <1>10 DEF Resumes
  <2>2. ASSUME NEW i \in b .. c - 1
        PROVE  <<s, i>> \in P2 \/ InQueue(W, s, i, w)
    BY <1>0, <1>10, <2>2 DEF Resumes
  <2>3. ASSUME NEW m \in DOMAIN V, V[m].source = s, NEW i \in b .. V[m].id - 1
        PROVE  <<s, i>> \in P2 \/ InQueue(V, s, i, m - 1)
    <3>1. CASE m <= w
      <4>1. m \in DOMAIN W /\ V[m] = W[m] /\ m - 1 \in 0 .. w
        BY <1>0, <3>1
      <4>2. <<s, i>> \in P \/ InQueue(W, s, i, m - 1)
        BY <1>10, <2>3, <4>1 DEF Resumes
      <4> QED BY <1>7, <4>1, <4>2
    <3>2. CASE m > w /\ i < c
      <4>1. i \in b .. c - 1
        BY <3>2
      <4>2. InQueue(W, s, i, w) => InQueue(V, s, i, m - 1)
        BY <1>0, <3>2 DEF InQueue
      <4> QED BY <2>2, <4>1, <4>2
    <3>3. CASE m > w /\ i >= c
      <4>1. V[m].id = c + (m - w) - 1 /\ m \in 1 .. w + n
        BY <1>0, <1>2, <3>3
      <4>2. i \in c .. d - 1 /\ i - c + 1 + w \in 1 .. m - 1
        <5>0. c \in Int /\ w \in Int /\ n \in Int /\ m \in Int /\ b \in Int /\ d \in Int
          BY <1>0, <1>1, <4>1
        <5>a. PICK v : v = V[m].id
          OBVIOUS
        <5>b. v = c + (m - w) - 1 /\ v \in Int /\ i \in b .. v - 1
          BY <2>3, <4>1, <5>0, <5>a
        <5>1. i \in Int /\ i <= c + (m - w) - 2
          BY <5>0, <5>b
        <5>2. m \in Int /\ m <= w + n /\ w \in Int /\ n \in Int /\ d = c + n /\ i >= c
          <6>1. m <= w + n
            BY <4>1, <5>0
          <6>2. d = c + n /\ i >= c
            BY <1>1, <3>3
          <6> QED BY <5>0, <6>1, <6>2
        <5>3. i <= d - 1 /\ i - c + 1 + w <= m - 1 /\ 1 <= i - c + 1 + w
          BY <1>1, <5>1, <5>2
        <5>4. i \in c .. d - 1
          BY <5>0, <5>1, <5>2, <5>3
        <5>5. i - c + 1 + w \in 1 .. m - 1
          BY <5>0, <5>1, <5>3
        <5> QED BY <5>4, <5>5
      <4>3. PICK k \in 1 .. w + n : k = i - c + 1 + w /\ V[k].source = s /\ V[k].id = i
        BY <1>6, <4>2
      <4> QED BY <4>2, <4>3 DEF InQueue
    <3>4. m \in Nat /\ i \in Nat
      <4>1. V[m].id \in Nat
        <5>1. V[m] \in Line
          BY <1>0
        <5> QED BY <5>1 DEF Line
      <4> QED BY <1>0, <2>3, <4>1
    <3> QED BY <1>0, <3>1, <3>2, <3>3, <3>4
  <2>4. ASSUME NEW i \in b .. d - 1
        PROVE  <<s, i>> \in P2 \/ InQueue(V, s, i, Len(V))
    <3>1. CASE i \in b .. c - 1
      <4>1. w \in 0 .. w
        BY <1>0
      <4> QED BY <1>7, <2>2, <3>1, <4>1
    <3>2. CASE i \in c .. d - 1
      BY <1>8, <3>2
    <3> QED BY <3>1, <3>2
  <2> QED BY <2>1, <2>3, <2>4 DEF Resumes
<1>11. Resumes(V, P2, R, T2, s, d, d)
  <2>1. Resumes(V, P2, R, T2, s, c, d)
    <3>1. \A i \in c .. c - 1 : FALSE
      OBVIOUS
    <3> QED BY <1>10, <3>1
  <2>2. c <= d
    BY <1>1
  <2>3. \A r \in R : r.source = s => \A i \in d .. r.id : i \in c .. r.id
    BY <2>2
  <2>4. ASSUME NEW m \in DOMAIN V, V[m].source = s, NEW i \in d .. V[m].id - 1 PROVE FALSE
    <3>1. V[m].id < d
      BY <1>9, <2>4 DEF Waits
    <3>2. V[m].id \in Nat
      <4>1. V[m] \in Line
        BY <1>0
      <4> QED BY <4>1 DEF Line
    <3> QED BY <2>4, <3>1, <3>2
  <2>5. \A i \in d .. d - 1 : FALSE
    OBVIOUS
  <2> QED BY <2>1, <2>3, <2>4, <2>5 DEF Resumes
<1> QED BY <1>a, <1>5, <1>9, <1>10, <1>11 DEF Ascending

-----------------------------------------------------------------------------
(* The lines of one source: in its queue in order, and as the parts of InOrder say. *)

Starts(s) == {NextLine(s, t) : t \in Positions(s)}
Ordered(W, P, R, T, s, B, c) ==
  /\ Ascending(W) /\ Waits(W, P, R, s, c)
  /\ \A b \in B : Resumes(W, P, R, T, s, b, c)
SourceOrdered(s) ==
  Ordered(Waiting(QueueOf(s)), Passed, received, Marks(taken), s, Starts(s), NextLine(s, Cursor(s)))

\* A source whose queue is in order is InOrder when its lines are.
LEMMA OrderedParts ==
  ASSUME NEW s \in Sources, Ascending(Waiting(QueueOf(s)))
  PROVE  SourceOrdered(s) <=> InOrder(s)
BY DEF InOrder, SourceOrdered, Ordered, Starts

\* Nothing happens to the source.
LEMMA OrderedSame ==
  ASSUME NEW W, NEW P, NEW P2, P \subseteq P2, NEW s, NEW R, NEW R2, \A r \in R2 : r.source = s => r \in R,
         NEW T, NEW T2, \A i \in Nat : <<s, i>> \in T2 => <<s, i>> \in T, NEW c \in Nat,
         NEW B, NEW B2, B2 \subseteq B, B \subseteq Nat, Ordered(W, P, R, T, s, B, c)
  PROVE  Ordered(W, P2, R2, T2, s, B2, c)
<1>1. Waits(W, P2, R2, s, c)
  BY OthersKeep DEF Ordered
<1>2. ASSUME NEW b \in B2 PROVE Resumes(W, P2, R2, T2, s, b, c)
  <2>1. b \in Nat /\ Resumes(W, P, R, T, s, b, c)
    BY DEF Ordered
  <2> QED BY <2>1, OthersKeep
<1> QED BY <1>1, <1>2 DEF Ordered

\* Lines at the front are settled, some of them because they reach the console.
LEMMA OrderedFront ==
  ASSUME NEW W \in Seq(Line), NEW n \in 0 .. Len(W), NEW P, NEW P2, P \subseteq P2, FrontPassed(W, n, P2),
         NEW R, NEW R2, \A r \in R2 : r \in R \/ \E m \in 1 .. n : r = W[m],
         NEW T, NEW s, NEW c \in Nat, NEW B, B \subseteq Nat, Ordered(W, P, R, T, s, B, c)
  PROVE  /\ Ordered(W, P2, R2, T, s, B, c)
         /\ Ordered(SubSeq(W, n + 1, Len(W)), P2, R2, T, s, B, c)
<1>1. Ascending(W) /\ Waits(W, P, R, s, c)
  BY DEF Ordered
<1>2. Waits(W, P2, R2, s, c) /\ \A b \in Nat : Resumes(W, P, R, T, s, b, c) => Resumes(W, P2, R2, T, s, b, c)
  BY <1>1, DeliverKeeps
<1>3. \A b \in B : b \in Nat /\ Resumes(W, P2, R2, T, s, b, c)
  BY <1>2 DEF Ordered
<1>4. Ordered(W, P2, R2, T, s, B, c)
  BY <1>1, <1>2, <1>3 DEF Ordered
<1> DEFINE V == SubSeq(W, n + 1, Len(W))
<1>5. /\ Ascending(W) => Ascending(V)
      /\ Waits(W, P2, R2, s, c) => Waits(V, P2, R2, s, c)
      /\ \A b \in Nat : Resumes(W, P2, R2, T, s, b, c) => Resumes(V, P2, R2, T, s, b, c)
  BY BeheadKeeps
<1>6. V = SubSeq(W, n + 1, Len(W))
  OBVIOUS
<1> HIDE DEF V
<1>7. Ordered(V, P2, R2, T, s, B, c)
  BY <1>1, <1>2, <1>3, <1>5 DEF Ordered
<1> QED BY <1>4, <1>6, <1>7

\* Lines read are put behind.
LEMMA OrderedRead ==
  ASSUME NEW W \in Seq(Line), NEW new \in Seq(Line), NEW s, NEW c \in Nat, NEW P, NEW P2, P \subseteq P2, NEW R,
         NEW T, NEW T2, NEW d \in Nat, d = c + Len(new),
         \A j \in DOMAIN new : new[j].source = s /\ new[j].id = c + j - 1,
         \A i \in Nat : <<s, i>> \in T2 => <<s, i>> \in T \/ i \in c .. d - 1,
         NEW B, B \subseteq Nat, c \in B, Ordered(W, P, R, T, s, B, c),
         s \in Files => \A b \in B : \A i \in b .. c - 1 : <<s, i>> \in T \cup P2,
         NEW B2, B2 \subseteq B \cup {d}
  PROVE  Ordered(W \o new, P2, R, T2, s, B2, d)
<1>1. Ascending(W) /\ Waits(W, P, R, s, c) /\ Resumes(W, P, R, T, s, c, c)
  BY DEF Ordered
<1>2. /\ Ascending(W \o new)
      /\ Waits(W \o new, P2, R, s, d)
      /\ Resumes(W \o new, P2, R, T2, s, d, d)
      /\ \A b \in Nat : /\ Resumes(W, P, R, T, s, b, c)
                        /\ s \in Files => \A i \in b .. c - 1 : <<s, i>> \in T \cup P2
                        => Resumes(W \o new, P2, R, T2, s, b, d)
  BY <1>1, AppendKeeps
<1>3. ASSUME NEW b \in B2 PROVE Resumes(W \o new, P2, R, T2, s, b, d)
  <2>1. CASE b = d
    BY <1>2, <2>1
  <2>2. CASE b \in B
    <3>1. b \in Nat /\ Resumes(W, P, R, T, s, b, c)
      BY <2>2 DEF Ordered
    <3> QED BY <1>2, <2>2, <3>1
  <2> QED BY <2>1, <2>2
<1> QED BY <1>2, <1>3 DEF Ordered

\* So are lines of another source.
LEMMA OrderedBehind ==
  ASSUME NEW W \in Seq(Line), NEW new \in Seq(Line), NEW s, \A j \in DOMAIN new : new[j].source # s,
         Ascending(W \o new),
         NEW P, NEW R, NEW T, NEW c \in Nat, NEW B, B \subseteq Nat, Ordered(W, P, R, T, s, B, c)
  PROVE  Ordered(W \o new, P, R, T, s, B, c)
<1>1. /\ Waits(W \o new, P, R, s, c)
      /\ \A b \in Nat : Resumes(W, P, R, T, s, b, c) => Resumes(W \o new, P, R, T, s, b, c)
  BY AppendOthers DEF Ordered
<1> QED BY <1>1 DEF Ordered

\* The source moves on.
LEMMA OrderedLater ==
  ASSUME NEW W \in Seq(Line), NEW P, NEW R, NEW T, NEW s, NEW B, B \subseteq Nat, NEW c \in Nat,
         Ordered(W, P, R, T, s, B, c), NEW c2 \in Nat, c <= c2,
         NEW B2, \A b2 \in B2 : /\ b2 \in Nat
                                /\ \E b \in B : b <= b2
                                /\ \/ c2 <= b2 \/ c2 = c
                                   \/ s \in Files /\ \A i \in Nat : b2 <= i /\ c <= i => <<s, i>> \notin T
  PROVE  Ordered(W, P, R, T, s, B2, c2)
<1>1. \A m \in DOMAIN W : W[m].id \in Nat
  <2>1. \A m \in DOMAIN W : W[m] \in Line
    OBVIOUS
  <2> QED BY <2>1 DEF Line
<1>2. Waits(W, P, R, s, c2)
  BY <1>1 DEF Ordered, Waits
<1>3. ASSUME NEW b2 \in B2 PROVE Resumes(W, P, R, T, s, b2, c2)
  <2>1. PICK b \in B : b <= b2
    OBVIOUS
  <2>2. b \in Nat /\ b2 \in Nat /\ Resumes(W, P, R, T, s, b, c)
    BY DEF Ordered
  <2>3. \A k : \A i \in b2 .. k : i \in b .. k
    BY <2>1, <2>2
  <2>4. \A r \in R : r.source = s => \A i \in b2 .. r.id : <<s, i>> \in P
    BY <2>2, <2>3 DEF Resumes
  <2>5. \A n \in DOMAIN W : W[n].source = s =>
          \A i \in b2 .. W[n].id - 1 : <<s, i>> \in P \/ InQueue(W, s, i, n - 1)
    BY <2>2, <2>3 DEF Resumes
  <2>6. ASSUME NEW i \in b2 .. c2 - 1, s \in Files => <<s, i>> \in T
        PROVE  <<s, i>> \in P \/ InQueue(W, s, i, Len(W))
    <3>1. i \in Nat /\ b2 <= i /\ i < c2
      BY <2>2
    <3>2. c2 = c \/ (s \in Files /\ \A j \in Nat : b2 <= j /\ c <= j => <<s, j>> \notin T)
      BY <2>2, <3>1
    <3>3. i < c
      BY <2>6, <3>1, <3>2
    <3>4. i \in b .. c - 1
      BY <2>1, <2>2, <3>1, <3>3
    <3> QED BY <2>2, <2>6, <3>4 DEF Resumes
  <2> QED BY <2>4, <2>5, <2>6 DEF Resumes
<1> QED BY <1>2, <1>3 DEF Ordered

-----------------------------------------------------------------------------
(* Where reads start. *)

Place == [pos : Position, ino : Position]

\* Positions are positions, and every source has a queue.
LEMMA PlacesOf ==
  ASSUME ShippingTypes, NEW s \in Sources
  PROVE  /\ Cursor(s) \in Place /\ Cursor(s) \in Positions(s) /\ Positions(s) \subseteq Place
         /\ QueueOf(s) \in Queues
<1>1. state[s] \in Place /\ saved[s] \in Place
  BY DEF ShippingTypes, Sources, Place
<1>2. s \in Files => [pos |-> tail[s].pos, ino |-> tail[s].ino] \in Place
  BY DEF ShippingTypes, Place
<1> QED BY <1>1, <1>2 DEF Cursor, Positions, QueueOf, Queues

\* The size of a file, and the number of its next line.
LEMMA FileShape ==
  ASSUME ShippingTypes, NEW f \in Files
  PROVE  /\ file[f].first \in Nat /\ file[f].ino \in Nat /\ Len(file[f].lines) \in Nat
         /\ DOMAIN file[f].lines = 1 .. Len(file[f].lines)
         /\ NextId(f) \in Nat /\ NextId(f) = file[f].first + Len(file[f].lines)
         /\ Size(f) \in Nat /\ Size(f) <= 2 * Len(file[f].lines)
<1>1. /\ file[f].lines \in Seq(Nat) /\ file[f].first \in Nat /\ file[f].ino \in Nat /\ file[f].half \in BOOLEAN
  BY DEF ShippingTypes
<1>2. Size(f) \in Nat
  BY ReadBounds
<1>3. Len(file[f].lines) \in Nat /\ DOMAIN file[f].lines = 1 .. Len(file[f].lines)
  BY <1>1
<1>4. PICK n \in Nat : n = Len(file[f].lines)
  BY <1>3
<1>5. Size(f) = 2 * n - IF file[f].half THEN 1 ELSE 0
  BY <1>4 DEF Size
<1>6. Size(f) <= 2 * n
  BY <1>1, <1>5
<1> QED BY <1>1, <1>2, <1>3, <1>4, <1>6 DEF NextId

\* A start is a unit of the file.
LEMMA StartInFile ==
  ASSUME ShippingTypes, NEW f \in Files, NEW t \in Place
  PROVE  StartOf(t, f) \in Nat /\ StartOf(t, f) <= Size(f)
<1>1. t.pos \in Nat \cup {None} /\ Size(f) \in Nat
  BY ReadBounds DEF Place, Position
<1> QED BY <1>1 DEF StartOf

\* Of two units of a file the earlier is in the earlier line.
LEMMA HalfOf ==
  ASSUME NEW p \in Nat, NEW q \in Nat, NEW n \in Nat, p <= q, q <= 2 * n
  PROVE  p \div 2 \in Nat /\ q \div 2 \in Nat /\ p \div 2 <= q \div 2 /\ q \div 2 <= n
BY LineOfUnit

\* A read starts at a line of the file.
LEMMA NextLineType ==
  ASSUME ShippingTypes, NEW s \in Sources, NEW t \in Place
  PROVE  /\ NextLine(s, t) \in Nat
         /\ s \in Files => file[s].first <= NextLine(s, t) /\ NextLine(s, t) <= NextId(s)
<1>1. CASE s \in Files
  <2>1. StartOf(t, s) \in Nat /\ StartOf(t, s) <= Size(s)
    BY <1>1, StartInFile
  <2>2. /\ file[s].first \in Nat /\ Len(file[s].lines) \in Nat /\ NextId(s) = file[s].first + Len(file[s].lines)
        /\ Size(s) \in Nat /\ Size(s) <= 2 * Len(file[s].lines)
    BY <1>1, FileShape
  <2>3. StartOf(t, s) \div 2 \in Nat /\ StartOf(t, s) \div 2 <= Len(file[s].lines)
    <3>1. StartOf(t, s) <= StartOf(t, s) /\ StartOf(t, s) <= 2 * Len(file[s].lines)
      BY <2>1, <2>2
    <3> QED BY <2>1, <2>2, <3>1, HalfOf
  <2>4. NextLine(s, t) = file[s].first + StartOf(t, s) \div 2
    BY <1>1 DEF NextLine
  <2> QED BY <2>2, <2>3, <2>4
<1>2. CASE s \notin Files
  <2>1. events[s] \in Nat /\ t.pos \in Nat \cup {None} /\ MaxEvents \in Nat
    BY <1>2, ShippingAssumption DEF ShippingTypes, Sources, Place, Position
  <2>2. After(t, s) \in Nat
    BY <2>1 DEF After
  <2> QED BY <1>2, <2>2 DEF NextLine
<1> QED BY <1>1, <1>2

\* The starts of a source are line numbers.
LEMMA StartsOf ==
  ASSUME ShippingTypes, NEW s \in Sources
  PROVE  /\ Starts(s) \subseteq Nat /\ NextLine(s, Cursor(s)) \in Nat /\ NextLine(s, Cursor(s)) \in Starts(s)
BY PlacesOf, NextLineType DEF Starts

\* A read returns the lines from there on.
LEMMA CursorReads ==
  ASSUME ShippingTypes, NEW f \in Files
  PROVE  ReadFrom(f).pos = StartOf(Cursor(f), f) /\ ReadFrom(f).ino = file[f].ino
<1>1. tail[f] \in [pos : Position, ino : Position, partial : Position \cup {Garbled}] /\ Size(f) \in Nat
  BY ReadBounds DEF ShippingTypes
<1>2. Cursor(f) = [pos |-> tail[f].pos, ino |-> tail[f].ino]
  BY DEF Cursor
<1>3. CASE tail[f].pos = None
  <2> DEFINE first == IF opts.fromStart THEN 0 ELSE Size(f)
             seen == [tail[f] EXCEPT !.pos = first, !.ino = file[f].ino]
  <2>1. first \in Nat /\ ~(Size(f) < first)
    BY <1>1
  <2>2. seen.pos = first /\ seen.ino = file[f].ino
    BY <1>1
  <2>3. ReadFrom(f) = IF seen.ino # file[f].ino \/ Size(f) < seen.pos
                      THEN [pos |-> 0, ino |-> file[f].ino, partial |-> None] ELSE seen
    BY <1>3 DEF ReadFrom
  <2>4. StartOf(Cursor(f), f) = first
    BY <1>2, <1>3 DEF StartOf
  <2> HIDE DEF first, seen
  <2> QED BY <2>1, <2>2, <2>3, <2>4
<1>4. CASE tail[f].pos # None
  <2>1. ReadFrom(f) = IF tail[f].ino # file[f].ino \/ Size(f) < tail[f].pos
                      THEN [pos |-> 0, ino |-> file[f].ino, partial |-> None] ELSE tail[f]
    BY <1>4 DEF ReadFrom
  <2> QED BY <1>2, <1>4, <2>1 DEF StartOf
<1> QED BY <1>3, <1>4

\* The lines a read of a file returns are those from the cursor on, in order.
LEMMA ReadsFromCursor ==
  ASSUME ShippingTypes, NEW f \in Files, Numbered(f), NEW c, c = NextLine(f, Cursor(f)),
         NEW new, new = ReadLines(f), NEW d, d = file[f].first + ReadTo(f) \div 2
  PROVE  /\ new \in Seq(Line) /\ c \in Nat /\ d \in Nat /\ d = c + Len(new) /\ d <= NextId(f)
         /\ \A j \in DOMAIN new : new[j].source = f /\ new[j].id = c + j - 1
         /\ c = file[f].first + ReadFrom(f).pos \div 2
<1> DEFINE from == ReadFrom(f).pos \div 2
           to == ReadTo(f) \div 2
           L == file[f].lines
           a == file[f].first
<1>1. c = a + from
  BY CursorReads DEF NextLine
<1>2. /\ ReadFrom(f).pos \in Nat /\ ReadTo(f) \in Nat /\ ReadFrom(f).pos <= ReadTo(f) /\ ReadTo(f) <= Size(f)
  BY ReadBounds
<1>3. a \in Nat /\ Len(L) \in Nat /\ NextId(f) = a + Len(L) /\ DOMAIN L = 1 .. Len(L)
      /\ Size(f) \in Nat /\ Size(f) <= 2 * Len(L)
  BY FileShape
<1>4. from \in Nat /\ to \in Nat /\ from <= to /\ to <= Len(L)
  <2>1. ReadTo(f) <= 2 * Len(L)
    BY <1>2, <1>3
  <2> QED BY <1>2, <1>3, <2>1, HalfOf
<1>5. new = [i \in 1 .. to - from |-> [source |-> f, id |-> L[from + i], whole |-> IsWhole(f, from + i)]]
  BY DEF ReadLines
<1>6. \A k \in DOMAIN L : L[k] = a + k - 1
  BY DEF Numbered
<1>7. new \in Seq(Line)
  BY ReadLinesType
<1> HIDE DEF from, to, L, a
<1>8. DOMAIN new = 1 .. to - from /\ to - from \in Nat
  BY <1>4, <1>5
<1>9. Len(new) = to - from
  <2>1. Len(new) \in Nat /\ DOMAIN new = 1 .. Len(new)
    BY <1>7
  <2> QED BY <1>4, <1>5
<1>10. ASSUME NEW j \in DOMAIN new PROVE new[j].source = f /\ new[j].id = c + j - 1
  <2>1. j \in 1 .. to - from /\ from + j \in DOMAIN L
    BY <1>3, <1>4, <1>8
  <2>2. new[j].source = f /\ new[j].id = L[from + j]
    BY <1>5, <2>1
  <2>3. L[from + j] = a + (from + j) - 1
    BY <1>6, <2>1
  <2> QED BY <1>1, <1>3, <1>4, <2>1, <2>2, <2>3
<1>11. d = a + to
  BY DEF a, to
<1> QED BY <1>1, <1>3, <1>4, <1>7, <1>9, <1>10, <1>11 DEF a, from

-----------------------------------------------------------------------------
(* The order invariant, and the steps of the sources. *)

QueueSorted(k) ==
  Ascending(Waiting(k)) /\ \A n \in DOMAIN Waiting(k) : QueueOf(Waiting(k)[n].source) = k
OrderParts ==
  /\ \A k \in Queues : QueueSorted(k)
  /\ \A s \in Sources : SourceOrdered(s)
  /\ \A f \in Files : Numbered(f)

\* The parts are what OrderInv says.
LEMMA OrderInvParts ==
  ASSUME ShippingTypes
  PROVE  OrderInv <=> (~overlap => OrderParts)
<1>1. \A s \in Sources : QueueOf(s) \in Queues
  BY PlacesOf
<1>2. (\A k \in Queues : QueueSorted(k)) => ((\A s \in Sources : SourceOrdered(s)) <=> \A s \in Sources : InOrder(s))
  BY <1>1, OrderedParts DEF QueueSorted
<1> QED BY <1>2 DEF OrderInv, OrderParts, QueueSorted

\* What waits is a sequence of lines.
LEMMA WaitingType ==
  ASSUME ShippingTypes, NEW k \in Queues
  PROVE  Waiting(k) \in Seq(Line)
<1>1. queues[k] \in Seq(Line) /\ win.lines \in Seq(Line)
  BY DEF ShippingTypes
<1>2. queues[k] \o win.lines \in Seq(Line)
  BY <1>1, LinesOfConcat
<1> QED BY <1>1, <1>2 DEF Waiting

\* What a file step does to the file.
LEMMA FileStep ==
  ASSUME ShippingTypes, NEW f \in Files, NEW newInode \in BOOLEAN, WriteText(f) \/ WriteNewline(f) \/ Rotate(f, newInode)
  PROVE  /\ SourceFrame /\ events' = events /\ \A g \in Files \ {f} : file'[g] = file[g]
         /\ \/ Rotate(f, newInode) /\ file'[f].first = NextId(f) /\ file'[f].lines = <<>>
            \/ /\ file'[f].first = file[f].first /\ file'[f].ino = file[f].ino /\ Size(f) <= Size(f)'
               /\ file'[f].lines \in {file[f].lines, Append(file[f].lines, NextId(f))}
<1>1. /\ file[f] \in [ino : Nat, first : Nat, lines : Seq(Nat), half : BOOLEAN] /\ file[f].lines \in Seq(Nat)
      /\ file \in [Files -> [ino : Nat, first : Nat, lines : Seq(Nat), half : BOOLEAN]]
      /\ file[f].half \in BOOLEAN
  BY DEF ShippingTypes
<1>2. SourceFrame /\ events' = events
  BY DEF WriteText, WriteNewline, Rotate
<1>3. CASE WriteText(f)
  <2>1. /\ file'[f].lines = Append(file[f].lines, NextId(f)) /\ file'[f].half = TRUE /\ ~file[f].half
        /\ file'[f].first = file[f].first /\ file'[f].ino = file[f].ino /\ \A g \in Files \ {f} : file'[g] = file[g]
    BY <1>1, <1>3 DEF WriteText
  <2>2. Len(Append(file[f].lines, NextId(f))) = Len(file[f].lines) + 1 /\ Len(file[f].lines) \in Nat
    BY <1>1
  <2>3. PICK n \in Nat : n = Len(file[f].lines)
    BY <2>2
  <2>4. Size(f) = 2 * n /\ Size(f)' = 2 * (n + 1) - 1
    <3>1. /\ Size(f) = 2 * Len(file[f].lines) - IF file[f].half THEN 1 ELSE 0
          /\ Size(f)' = 2 * Len(file'[f].lines) - IF file'[f].half THEN 1 ELSE 0
      BY DEF Size
    <3>2. Len(file'[f].lines) = n + 1
      BY <2>1, <2>2, <2>3
    <3>3. Size(f) = 2 * n - 0
      BY <2>1, <2>3, <3>1
    <3>4. Size(f)' = 2 * (n + 1) - 1
      BY <2>1, <3>1, <3>2
    <3> QED BY <3>3, <3>4
  <2>5. Size(f) <= Size(f)'
    BY <2>4
  <2> QED BY <1>2, <2>1, <2>5
<1>4. CASE WriteNewline(f)
  <2>1. /\ file'[f].lines = file[f].lines /\ file'[f].half = FALSE /\ file[f].half
        /\ file'[f].first = file[f].first /\ file'[f].ino = file[f].ino /\ \A g \in Files \ {f} : file'[g] = file[g]
    BY <1>1, <1>4 DEF WriteNewline
  <2>3. PICK n \in Nat : n = Len(file[f].lines)
    BY <1>1
  <2>4. Size(f) = 2 * n - 1 /\ Size(f)' = 2 * n
    <3>1. /\ Size(f) = 2 * Len(file[f].lines) - IF file[f].half THEN 1 ELSE 0
          /\ Size(f)' = 2 * Len(file'[f].lines) - IF file'[f].half THEN 1 ELSE 0
      BY DEF Size
    <3>2. Len(file'[f].lines) = n
      BY <2>1, <2>3
    <3>3. Size(f) = 2 * n - 1
      BY <2>1, <2>3, <3>1
    <3>4. Size(f)' = 2 * n - 0
      BY <2>1, <3>1, <3>2
    <3> QED BY <3>3, <3>4
  <2>5. Size(f) <= Size(f)'
    BY <2>4
  <2> QED BY <1>2, <2>1, <2>5
<1>5. CASE Rotate(f, newInode)
  <2>1. file'[f].first = NextId(f) /\ file'[f].lines = <<>> /\ \A g \in Files \ {f} : file'[g] = file[g]
    BY <1>1, <1>5 DEF Rotate
  <2> QED BY <1>2, <1>5, <2>1
<1> QED BY <1>3, <1>4, <1>5

\* The size of a file after a step.
LEMMA SizeNext ==
  ASSUME ShippingTypes', NEW f \in Files
  PROVE  Size(f)' \in Nat
<1>1. Size(f)' = 2 * Len(file'[f].lines) - IF file'[f].half THEN 1 ELSE 0
  BY DEF Size
<1>2. file'[f].lines \in Seq(Nat) /\ file'[f].half \in BOOLEAN /\ (file'[f].half => file'[f].lines # <<>>)
  BY DEF ShippingTypes
<1>3. PICK n \in Nat : n = Len(file'[f].lines)
  BY <1>2
<1>4. file'[f].half => n # 0
  BY <1>2, <1>3
<1> QED BY <1>1, <1>2, <1>3, <1>4

\* The line a read may start at after a step.
LEMMA NextLineNext ==
  ASSUME ShippingTypes', NEW s \in Sources, NEW t \in Place
  PROVE  NextLine(s, t)' \in Nat /\ (s \in Files => file'[s].first \in Nat /\ file'[s].first <= NextLine(s, t)')
<1>1. CASE s \in Files
  <2>1. t.pos \in Nat \cup {None} /\ Size(s)' \in Nat
    BY <1>1, SizeNext DEF Place, Position
  <2>2. PICK p \in Nat : p = StartOf(t, s)'
    BY <2>1 DEF StartOf
  <2>3. p \div 2 \in Nat
    BY HalfOf
  <2>4. NextLine(s, t)' = file'[s].first + p \div 2 /\ file'[s].first \in Nat
    BY <1>1, <2>2 DEF NextLine, ShippingTypes
  <2> QED BY <2>3, <2>4
<1>2. CASE s \notin Files
  <2>1. events'[s] \in Nat /\ t.pos \in Nat \cup {None} /\ MaxEvents \in Nat
    BY <1>2, ShippingAssumption DEF ShippingTypes, Sources, Place, Position
  <2>2. After(t, s)' \in Nat
    BY <2>1 DEF After
  <2> QED BY <1>2, <2>2 DEF NextLine
<1> QED BY <1>1, <1>2

\* Reads of the file move forward; where the tail has yet to see a truncation, over lines nobody read.
LEMMA FileMoves ==
  ASSUME ShippingTypes, ShippingTypes', NEW f \in Files, Numbered(f), NEW newInode \in BOOLEAN,
         WriteText(f) \/ WriteNewline(f) \/ Rotate(f, newInode), NEW t \in Positions(f)
  PROVE  /\ Cursor(f)' = Cursor(f) /\ Positions(f)' = Positions(f)
         /\ NextLine(f, t) <= NextLine(f, t)'
         /\ \/ NextLine(f, Cursor(f))' = NextLine(f, Cursor(f))
            \/ NextLine(f, Cursor(f))' <= NextLine(f, t)'
            \/ \A i \in Nat : NextLine(f, t)' <= i => <<f, i>> \notin Marks(taken)
<1>1. /\ SourceFrame
      /\ \/ file'[f].first = NextId(f)
         \/ file'[f].first = file[f].first /\ file'[f].ino = file[f].ino /\ Size(f) <= Size(f)'
  BY FileStep
<1>2. UNCHANGED <<tail, state, saved, opts, taken>>
  BY <1>1 DEF SourceFrame, reading, history
<1>3. Cursor(f)' = Cursor(f) /\ Positions(f)' = Positions(f)
  BY <1>2 DEF Cursor, Positions
<1>4. f \in Sources /\ Cursor(f) \in Place /\ t \in Place
  BY PlacesOf DEF Sources
<1>5. \A l \in taken : l.source = f => l.id < NextId(f)
  BY DEF Numbered
<1>6. \A i : <<f, i>> \in Marks(taken) => \E l \in taken : l.source = f /\ l.id = i
  BY DEF Marks
<1>7. \A x \in Place : /\ NextLine(f, x) \in Nat /\ file[f].first <= NextLine(f, x) /\ NextLine(f, x) <= NextId(f)
  BY <1>4, NextLineType
<1>8. \A x \in Place : NextLine(f, x)' \in Nat /\ file'[f].first <= NextLine(f, x)'
  BY <1>4, NextLineNext
<1>9. CASE file'[f].first = NextId(f)
  <2>1. NextLine(f, t) <= NextLine(f, t)'
    BY <1>4, <1>7, <1>8, <1>9, FileShape
  <2>2. ASSUME NEW i \in Nat, NextLine(f, t)' <= i PROVE <<f, i>> \notin Marks(taken)
    <3>1. NextId(f) <= i
      BY <1>4, <1>8, <1>9, <2>2, FileShape
    <3>2. NextId(f) \in Nat
      BY FileShape
    <3> QED BY <1>5, <1>6, <3>1, <3>2
  <2> QED BY <1>3, <2>1, <2>2
<1>10. CASE file'[f].first = file[f].first /\ file'[f].ino = file[f].ino /\ Size(f) <= Size(f)'
  <2> DEFINE z == Size(f)
             z2 == Size(f)'
  <2>1. z \in Nat /\ z2 \in Nat /\ z <= z2 /\ file[f].first \in Nat
    BY <1>10, FileShape, SizeNext
  <2>2. ASSUME NEW x \in Place
        PROVE  /\ StartOf(x, f) = IF x.pos = None THEN IF opts.fromStart THEN 0 ELSE z
                                  ELSE IF x.ino # file[f].ino \/ z < x.pos THEN 0 ELSE x.pos
               /\ StartOf(x, f)' = IF x.pos = None THEN IF opts.fromStart THEN 0 ELSE z2
                                   ELSE IF x.ino # file[f].ino \/ z2 < x.pos THEN 0 ELSE x.pos
               /\ x.pos \in Nat \cup {None}
    BY <1>2, <1>10 DEF StartOf, Place, Position
  <2>3. ASSUME NEW x \in Place
        PROVE  /\ NextLine(f, x) = file[f].first + StartOf(x, f) \div 2
               /\ NextLine(f, x)' = file[f].first + StartOf(x, f)' \div 2
    BY <1>10 DEF NextLine
  <2> HIDE DEF z, z2
  <2>4. ASSUME NEW x \in Place PROVE NextLine(f, x) <= NextLine(f, x)'
    <3>1. PICK p, q : p = StartOf(x, f) /\ q = StartOf(x, f)'
      OBVIOUS
    <3>2. p \in Nat /\ q \in Nat /\ p <= q
      BY <2>1, <2>2, <3>1
    <3>3. q <= 2 * q
      BY <3>2
    <3>4. p \div 2 \in Nat /\ q \div 2 \in Nat /\ p \div 2 <= q \div 2
      BY <3>2, <3>3, HalfOf
    <3> QED BY <2>1, <2>3, <3>1, <3>4
  <2>5. CASE ~(tail[f].pos = None \/ (tail[f].ino = file[f].ino /\ z < tail[f].pos))
    <3>1. Cursor(f).pos = tail[f].pos /\ Cursor(f).ino = tail[f].ino
      BY DEF Cursor
    <3>2. StartOf(Cursor(f), f)' = StartOf(Cursor(f), f)
      BY <1>3, <1>4, <2>1, <2>2, <2>5, <3>1
    <3>3. NextLine(f, Cursor(f))' = NextLine(f, Cursor(f))
      BY <1>3, <1>4, <2>3, <3>2
    <3> QED BY <1>3, <1>4, <2>4, <3>3
  <2>6. CASE tail[f].pos = None \/ (tail[f].ino = file[f].ino /\ z < tail[f].pos)
    <3>1. Positions(f) = {Cursor(f)} \/ \A l \in taken : l.source = f => l.id < file[f].first
      BY <2>6 DEF Numbered, z
    <3>2. CASE Positions(f) = {Cursor(f)}
      <4>1. t = Cursor(f)
        BY <3>2
      <4>2. NextLine(f, Cursor(f))' = NextLine(f, t)'
        BY <1>3, <4>1
      <4> QED BY <1>3, <1>4, <1>8, <2>4, <4>2
    <3>3. CASE \A l \in taken : l.source = f => l.id < file[f].first
      <4>1. ASSUME NEW i \in Nat, NextLine(f, t)' <= i PROVE <<f, i>> \notin Marks(taken)
        <5>1. file[f].first <= i
          BY <1>4, <1>8, <1>10, <2>1, <4>1
        <5> QED BY <1>6, <2>1, <3>3, <5>1
      <4> QED BY <1>3, <1>4, <2>4, <4>1
    <3> QED BY <3>1, <3>2, <3>3
  <2> QED BY <2>5, <2>6
<1> QED BY <1>1, <1>9, <1>10

\* The lines of a file stay numbered, and no line is taken before it is written.
LEMMA FileStepNumbers ==
  ASSUME ShippingTypes, ShippingTypes', NEW f \in Files, \A g \in Files : Numbered(g), NEW newInode \in BOOLEAN,
         WriteText(f) \/ WriteNewline(f) \/ Rotate(f, newInode)
  PROVE  \A g \in Files : Numbered(g)'
<1>1. /\ SourceFrame /\ events' = events /\ \A g \in Files \ {f} : file'[g] = file[g]
      /\ \/ file'[f].first = NextId(f) /\ file'[f].lines = <<>>
         \/ /\ file'[f].first = file[f].first /\ file'[f].ino = file[f].ino /\ Size(f) <= Size(f)'
            /\ file'[f].lines \in {file[f].lines, Append(file[f].lines, NextId(f))}
  BY FileStep
<1>2. UNCHANGED <<tail, state, saved, taken, received>>
  BY <1>1 DEF SourceFrame, reading, history
<1>3. \A g \in Files : Cursor(g)' = Cursor(g) /\ Positions(g)' = Positions(g)
  BY <1>2 DEF Cursor, Positions
<1>4. ASSUME NEW g \in Files, g # f PROVE Numbered(g)'
  <2>1. file'[g] = file[g]
    BY <1>1, <1>4
  <2>2. Size(g)' = Size(g) /\ NextId(g)' = NextId(g)
    BY <2>1 DEF Size, NextId
  <2>3. Numbered(g)
    OBVIOUS
  <2> QED BY <1>2, <1>3, <2>1, <2>2, <2>3 DEF Numbered
<1>5. Numbered(f)'
  <2> DEFINE L == file[f].lines
             a == file[f].first
  <2>1. /\ \A k \in DOMAIN L : L[k] = a + k - 1
        /\ \A l \in taken \cup received : l.source = f => l.id < a + Len(L)
        /\ tail[f].pos = None \/ (tail[f].ino = file[f].ino /\ Size(f) < tail[f].pos) =>
             Positions(f) = {Cursor(f)} \/ \A l \in taken : l.source = f => l.id < a
    BY DEF Numbered, NextId
  <2>2. a \in Nat /\ L \in Seq(Nat) /\ Len(L) \in Nat /\ NextId(f) = a + Len(L) /\ DOMAIN L = 1 .. Len(L)
    BY FileShape DEF ShippingTypes
  <2>3. \A l \in taken \cup received : l.id \in Nat
    BY DEF ShippingTypes, Line
  <2> HIDE DEF L, a
  <2>4. CASE file'[f].first = NextId(f) /\ file'[f].lines = <<>>
    <3>1. NextId(f)' = NextId(f)
      <4>1. NextId(f)' = file'[f].first + Len(file'[f].lines)
        BY DEF NextId
      <4> QED BY <2>2, <2>4, <4>1
    <3>2. \A k \in DOMAIN file'[f].lines : FALSE
      BY <2>4
    <3>3. \A l \in taken \cup received : l.source = f => l.id < NextId(f)
      BY <2>1, <2>2
    <3> QED BY <1>2, <2>4, <3>1, <3>2, <3>3 DEF Numbered
  <2>5. CASE /\ file'[f].first = a /\ file'[f].ino = file[f].ino /\ Size(f) <= Size(f)'
             /\ file'[f].lines \in {L, Append(L, NextId(f))}
    <3> DEFINE M == file'[f].lines
    <3>1. /\ \A k \in DOMAIN M : M[k] = a + k - 1
          /\ Len(M) \in Nat /\ Len(L) <= Len(M)
      <4>1. CASE M = L
        BY <2>1, <2>2, <4>1
      <4>2. CASE M = Append(L, NextId(f))
        <5>1. /\ Len(M) = Len(L) + 1 /\ DOMAIN M = 1 .. Len(L) + 1
              /\ \A k \in 1 .. Len(L) : M[k] = L[k]
              /\ M[Len(L) + 1] = a + Len(L)
          BY <2>2, <4>2
        <5>2. \A k \in DOMAIN M : k \in 1 .. Len(L) \/ k = Len(L) + 1
          BY <2>2, <5>1
        <5> HIDE DEF M
        <5> QED BY <2>1, <2>2, <5>1, <5>2
      <4> QED BY <2>5, <4>1, <4>2
    <3>2. NextId(f)' = a + Len(M)
      BY <2>5 DEF NextId
    <3>3. tail[f].pos = None \/ (tail[f].ino = file[f].ino /\ Size(f)' < tail[f].pos) =>
            Positions(f) = {Cursor(f)} \/ \A l \in taken : l.source = f => l.id < a
      <4>1. Size(f) \in Nat /\ Size(f)' \in Nat /\ tail[f].pos \in Nat \cup {None}
        BY FileShape, SizeNext DEF ShippingTypes, Position
      <4> QED BY <2>1, <2>5, <4>1
    <3>4. \A l \in taken \cup received : l.source = f => l.id < a + Len(M)
      BY <2>1, <2>2, <2>3, <3>1
    <3>5. M = file'[f].lines
      OBVIOUS
    <3> HIDE DEF M
    <3> QED BY <1>2, <1>3, <2>5, <3>1, <3>2, <3>3, <3>4, <3>5 DEF Numbered
  <2> QED BY <1>1, <2>4, <2>5 DEF L, a
<1> QED BY <1>4, <1>5

\* A step that touches neither lines nor positions.
LEMMA QueuesSame ==
  ASSUME UNCHANGED <<queues, win>>, NEW k, QueueSorted(k)
  PROVE  QueueSorted(k)'
BY DEF QueueSorted, Waiting

\* A step of a file keeps the order: reads only move forward.
LEMMA FileStepOrders ==
  ASSUME ShippingTypes, ShippingTypes', OrderParts, NEW f \in Files, NEW newInode \in BOOLEAN,
         WriteText(f) \/ WriteNewline(f) \/ Rotate(f, newInode)
  PROVE  OrderParts'
<1>1. SourceFrame /\ events' = events /\ \A g \in Files \ {f} : file'[g] = file[g]
  BY FileStep
<1>2. UNCHANGED <<opts, tail, state, saved, queues, win, taken, received, dropped, rejected, skipped>>
  BY <1>1 DEF SourceFrame, reading, totals, history
<1>3. \A k \in Queues : QueueSorted(k)'
  BY <1>2, QueuesSame DEF OrderParts
<1>4. \A g \in Files : Numbered(g)'
  BY FileStepNumbers DEF OrderParts
<1>5. ASSUME NEW s \in Sources PROVE SourceOrdered(s)'
  <2>1. SourceOrdered(s)
    BY DEF OrderParts
  <2>2. Passed' = Passed /\ Waiting(QueueOf(s))' = Waiting(QueueOf(s)) /\ Marks(taken)' = Marks(taken)
    BY <1>2 DEF Passed, Marks, Waiting
  <2>3. Cursor(s)' = Cursor(s) /\ Positions(s)' = Positions(s)
    BY <1>2 DEF Cursor, Positions
  <2>4. CASE s # f
    <3>1. \A t : NextLine(s, t)' = NextLine(s, t)
      <4>1. s \in Files => file'[s] = file[s]
        BY <1>1, <2>4
      <4> QED BY <1>1, <1>2, <4>1 DEF NextLine, StartOf, After, Size
    <3>2. Starts(s)' = Starts(s)
      BY <2>3, <3>1 DEF Starts
    <3> QED BY <1>2, <2>1, <2>2, <2>3, <3>1, <3>2 DEF SourceOrdered
  <2>5. CASE s = f
    <3>1. PICK W, P, R, T, B, c : /\ W = Waiting(QueueOf(s)) /\ P = Passed /\ R = received /\ T = Marks(taken)
                                  /\ B = Starts(s) /\ c = NextLine(s, Cursor(s))
      OBVIOUS
    <3>2. PICK B2, c2 : B2 = Starts(s)' /\ c2 = NextLine(s, Cursor(s))'
      OBVIOUS
    <3>3. Ordered(W, P, R, T, s, B, c)
      BY <2>1, <3>1 DEF SourceOrdered
    <3>4. B \subseteq Nat /\ c \in Nat /\ c \in B /\ W \in Seq(Line)
      BY <3>1, StartsOf, WaitingType, PlacesOf
    <3>5. \A t \in Place : NextLine(s, t)' \in Nat
      BY NextLineNext
    <3>6. Cursor(s) \in Place /\ Positions(s) \subseteq Place /\ Cursor(s) \in Positions(s)
      BY PlacesOf
    <3>7. \A t \in Positions(s) :
            /\ NextLine(s, t) <= NextLine(s, t)'
            /\ \/ NextLine(s, Cursor(s))' = NextLine(s, Cursor(s))
               \/ NextLine(s, Cursor(s))' <= NextLine(s, t)'
               \/ \A i \in Nat : NextLine(s, t)' <= i => <<s, i>> \notin Marks(taken)
      BY <2>5, FileMoves DEF OrderParts
    <3>8. c2 \in Nat /\ c <= c2 /\ c2 = NextLine(s, Cursor(s))'
      BY <2>3, <3>1, <3>2, <3>5, <3>6, <3>7
    <3>9. ASSUME NEW b2 \in B2
          PROVE  /\ b2 \in Nat
                 /\ \E b \in B : b <= b2
                 /\ \/ c2 <= b2 \/ c2 = c
                    \/ s \in Files /\ \A i \in Nat : b2 <= i /\ c <= i => <<s, i>> \notin T
      <4>1. PICK t \in Positions(s) : b2 = NextLine(s, t)'
        BY <2>3, <3>2 DEF Starts
      <4>2. NextLine(s, t) \in B
        BY <3>1 DEF Starts
      <4> QED BY <2>5, <3>1, <3>5, <3>6, <3>7, <3>8, <4>1, <4>2
    <3>10. Ordered(W, P, R, T, s, B2, c2)
      BY <3>3, <3>4, <3>8, <3>9, OrderedLater
    <3> QED BY <1>2, <2>2, <3>1, <3>2, <3>10 DEF SourceOrdered
  <2> QED BY <2>4, <2>5
<1> QED BY <1>3, <1>4, <1>5 DEF OrderParts

\* Of a channel too: the events a read can no longer return are behind every position.
LEMMA EventStepOrders ==
  ASSUME ShippingTypes, ShippingTypes', OrderParts, NEW d \in Channels, LogEvent(d)
  PROVE  OrderParts'
<1>1. /\ UNCHANGED <<opts, file, tail, state, saved, queues, win, taken, received, dropped, rejected, skipped>>
      /\ events' = [events EXCEPT ![d] = @ + 1]
  BY DEF LogEvent, SourceFrame, reading, totals, history
<1>2. \A k \in Queues : QueueSorted(k)'
  BY <1>1, QueuesSame DEF OrderParts
<1>3. ASSUME NEW g \in Files PROVE Numbered(g)'
  <2>1. Numbered(g)
    BY DEF OrderParts
  <2> QED BY <1>1, <2>1 DEF Numbered, NextId, Size, Cursor, Positions
<1>4. events \in [Channels -> Nat] /\ Files \cap Channels = {} /\ MaxEvents \in Nat
  BY ShippingAssumption DEF ShippingTypes
<1>5. ASSUME NEW s \in Sources PROVE SourceOrdered(s)'
  <2>1. SourceOrdered(s)
    BY DEF OrderParts
  <2>2. Passed' = Passed /\ Waiting(QueueOf(s))' = Waiting(QueueOf(s)) /\ Marks(taken)' = Marks(taken)
    BY <1>1 DEF Passed, Marks, Waiting
  <2>3. Cursor(s)' = Cursor(s) /\ Positions(s)' = Positions(s)
    BY <1>1 DEF Cursor, Positions
  <2>4. CASE s # d
    <3>1. \A t : NextLine(s, t)' = NextLine(s, t)
      <4>1. s \notin Files => events'[s] = events[s]
        BY <1>1, <1>4, <2>4 DEF Sources
      <4>2. CASE s \in Files
        BY <1>1, <4>2 DEF NextLine, StartOf, Size
      <4>3. CASE s \notin Files
        BY <4>1, <4>3 DEF NextLine, After
      <4> QED BY <4>2, <4>3
    <3>2. Starts(s)' = Starts(s)
      BY <2>3, <3>1 DEF Starts
    <3> QED BY <1>1, <2>1, <2>2, <2>3, <3>1, <3>2 DEF SourceOrdered
  <2>5. CASE s = d
    <3>1. PICK W, P, R, T, B, c : /\ W = Waiting(QueueOf(s)) /\ P = Passed /\ R = received /\ T = Marks(taken)
                                  /\ B = Starts(s) /\ c = NextLine(s, Cursor(s))
      OBVIOUS
    <3>2. PICK B2, c2 : B2 = Starts(s)' /\ c2 = NextLine(s, Cursor(s))'
      OBVIOUS
    <3>3. Ordered(W, P, R, T, s, B, c)
      BY <2>1, <3>1 DEF SourceOrdered
    <3>4. B \subseteq Nat /\ c \in Nat /\ c \in B /\ W \in Seq(Line)
      BY <3>1, StartsOf, WaitingType, PlacesOf
    <3>5. \A t \in Place : NextLine(s, t)' \in Nat
      BY NextLineNext
    <3>6. Cursor(s) \in Place /\ Positions(s) \subseteq Place /\ Cursor(s) \in Positions(s)
      BY PlacesOf
    <3>7. PICK e \in Nat : e = events[s]
      BY <1>4, <2>5
    <3>8. s \notin Files /\ events'[s] = e + 1
      BY <1>1, <1>4, <2>5, <3>7
    <3>9. ASSUME NEW t \in Place
          PROVE  \E x \in Nat : /\ NextLine(s, t) = (IF e - x > MaxEvents THEN e - MaxEvents ELSE x) + 1
                                /\ NextLine(s, t)' = (IF (e + 1) - x > MaxEvents THEN (e + 1) - MaxEvents ELSE x) + 1
      <4> DEFINE x == IF t.pos = None THEN 0 ELSE t.pos
      <4>1. x \in Nat
        BY DEF Place, Position
      <4>2. /\ NextLine(s, t) = (IF e - x > MaxEvents THEN e - MaxEvents ELSE x) + 1
            /\ NextLine(s, t)' = (IF (e + 1) - x > MaxEvents THEN (e + 1) - MaxEvents ELSE x) + 1
        BY <3>7, <3>8 DEF NextLine, After
      <4> QED BY <4>1, <4>2
    <3>10. ASSUME NEW t \in Place
           PROVE  /\ NextLine(s, t) <= NextLine(s, t)'
                  /\ NextLine(s, Cursor(s))' = NextLine(s, Cursor(s)) \/ NextLine(s, Cursor(s))' <= NextLine(s, t)'
      <4>1. PICK x \in Nat :
              /\ NextLine(s, t) = (IF e - x > MaxEvents THEN e - MaxEvents ELSE x) + 1
              /\ NextLine(s, t)' = (IF (e + 1) - x > MaxEvents THEN (e + 1) - MaxEvents ELSE x) + 1
        BY <3>9
      <4>2. PICK t2 \in Place : t2 = Cursor(s)
        BY <3>6
      <4>3. PICK y \in Nat :
              /\ NextLine(s, t2) = (IF e - y > MaxEvents THEN e - MaxEvents ELSE y) + 1
              /\ NextLine(s, t2)' = (IF (e + 1) - y > MaxEvents THEN (e + 1) - MaxEvents ELSE y) + 1
        BY <3>9
      <4>4. NextLine(s, t) <= NextLine(s, t)'
        BY <1>4, <4>1
      <4>5. NextLine(s, t2)' = NextLine(s, t2) \/ NextLine(s, t2)' <= NextLine(s, t)'
        BY <1>4, <4>1, <4>3
      <4> QED BY <2>3, <4>2, <4>4, <4>5
    <3>11. c2 \in Nat /\ c <= c2
      BY <2>3, <3>1, <3>2, <3>5, <3>6, <3>10
    <3>12. ASSUME NEW b2 \in B2
           PROVE  b2 \in Nat /\ (\E b \in B : b <= b2) /\ (c2 <= b2 \/ c2 = c)
      <4>1. PICK t \in Positions(s) : b2 = NextLine(s, t)'
        BY <2>3, <3>2 DEF Starts
      <4>2. NextLine(s, t) \in B
        BY <3>1 DEF Starts
      <4> QED BY <3>1, <3>2, <3>5, <3>6, <3>10, <4>1, <4>2
    <3>13. Ordered(W, P, R, T, s, B2, c2)
      BY <3>3, <3>4, <3>11, <3>12, OrderedLater
    <3> QED BY <1>1, <2>2, <3>1, <3>2, <3>13 DEF SourceOrdered
  <2> QED BY <2>4, <2>5
<1> QED BY <1>2, <1>3, <1>5 DEF OrderParts

-----------------------------------------------------------------------------
(* Steps that settle lines at the front of the queues. *)

\* While the host writes nothing, a read from a position starts where it did.
LEMMA SameSources ==
  ASSUME UNCHANGED <<opts, file, events>>, NEW s
  PROVE  \A t : NextLine(s, t)' = NextLine(s, t)
<1>1. CASE s \in Files
  BY <1>1 DEF NextLine, StartOf, Size
<1>2. CASE s \notin Files
  BY <1>2 DEF NextLine, After
<1> QED BY <1>1, <1>2

\* Writing the state file adds no start.
LEMMA ColdSame ==
  ASSUME UNCHANGED <<opts, file, events, tail, state>>, saved' \in {saved, state}, NEW s \in Sources
  PROVE  /\ \A t : NextLine(s, t)' = NextLine(s, t)
         /\ Cursor(s)' = Cursor(s) /\ Positions(s)' \subseteq Positions(s) /\ Starts(s)' \subseteq Starts(s)
<1>1. \A t : NextLine(s, t)' = NextLine(s, t)
  BY SameSources
<1>2. Cursor(s)' = Cursor(s)
  BY DEF Cursor
<1>3. saved'[s] \in {saved[s], state[s]}
  OBVIOUS
<1>4. Positions(s)' \subseteq Positions(s)
  BY <1>2, <1>3 DEF Positions
<1>5. Starts(s)' \subseteq Starts(s)
  BY <1>1, <1>4 DEF Starts
<1> QED BY <1>1, <1>2, <1>4, <1>5

\* The lines of a source that wait are of its file.
LEMMA WaitingIds ==
  ASSUME ShippingTypes, OrderParts, NEW f \in Files, NEW k \in Queues, NEW m \in DOMAIN Waiting(k),
         Waiting(k)[m].source = f
  PROVE  Waiting(k)[m].id < NextId(f) /\ k = QueueOf(f)
<1>1. f \in Sources /\ QueueOf(f) = k
  BY DEF OrderParts, QueueSorted, Sources
<1>2. Waits(Waiting(k), Passed, received, f, NextLine(f, Cursor(f)))
  BY <1>1 DEF OrderParts, SourceOrdered, Ordered
<1>3. NextLine(f, Cursor(f)) \in Nat /\ NextLine(f, Cursor(f)) <= NextId(f)
  BY <1>1, PlacesOf, NextLineType
<1>4. Waiting(k)[m].id < NextLine(f, Cursor(f))
  BY <1>2 DEF Waits
<1>5. Waiting(k)[m].id \in Nat
  <2>1. Waiting(k)[m] \in Line
    BY WaitingType
  <2> QED BY <2>1 DEF Line
<1> QED BY <1>1, <1>3, <1>4, <1>5, FileShape

\* Steps that settle lines at the fronts of the queues, and may write the state file.
LEMMA FrontsSettled ==
  ASSUME ShippingTypes, OrderParts, UNCHANGED <<opts, file, events, tail, state, taken>>, saved' \in {saved, state},
         NEW n \in [Queues -> Nat], \A k \in Queues : n[k] <= Len(Waiting(k)),
         \A k \in Queues : FrontPassed(Waiting(k), n[k], Passed'), Passed \subseteq Passed',
         \A r \in received' : r \in received \/ \E k \in Queues : \E m \in 1 .. n[k] : r = Waiting(k)[m],
         \A k \in Queues : Waiting(k)' \in {Waiting(k), SubSeq(Waiting(k), n[k] + 1, Len(Waiting(k)))}
  PROVE  OrderParts'
<1>1. \A k \in Queues : Waiting(k) \in Seq(Line) /\ Len(Waiting(k)) \in Nat /\ DOMAIN Waiting(k) = 1 .. Len(Waiting(k))
  BY WaitingType
<1>2. ASSUME NEW k \in Queues, NEW m \in 1 .. n[k]
      PROVE  m \in DOMAIN Waiting(k) /\ QueueOf(Waiting(k)[m].source) = k
  <2>1. n[k] \in Nat /\ n[k] <= Len(Waiting(k))
    OBVIOUS
  <2>2. m \in DOMAIN Waiting(k)
    BY <1>1, <2>1
  <2> QED BY <2>2 DEF OrderParts, QueueSorted
<1>3. ASSUME NEW k \in Queues PROVE QueueSorted(k)'
  <2>1. CASE Waiting(k)' = Waiting(k)
    BY <2>1 DEF QueueSorted, OrderParts
  <2>2. CASE Waiting(k)' = SubSeq(Waiting(k), n[k] + 1, Len(Waiting(k)))
    <3>1. PICK W \in Seq(Line) : W = Waiting(k)
      BY <1>1
    <3>2. Ascending(W) /\ \A m \in DOMAIN W : QueueOf(W[m].source) = k
      BY <3>1 DEF OrderParts, QueueSorted
    <3>3. n[k] \in 0 .. Len(W) /\ FrontPassed(W, n[k], Passed')
      BY <1>1, <3>1
    <3>4. PICK V : V = SubSeq(W, n[k] + 1, Len(W))
      OBVIOUS
    <3>5. Ascending(V) /\ \A m \in DOMAIN V : m + n[k] \in DOMAIN W /\ V[m] = W[m + n[k]]
      <4>1. 0 \in Nat
        OBVIOUS
      <4> QED BY <3>2, <3>3, <3>4, <4>1, BeheadKeeps
    <3>6. Waiting(k)' = V
      BY <2>2, <3>1, <3>4
    <3> QED BY <3>2, <3>5, <3>6 DEF QueueSorted
  <2> QED BY <2>1, <2>2
<1>4. ASSUME NEW f \in Files PROVE Numbered(f)'
  <2>1. f \in Sources /\ Numbered(f)
    BY DEF OrderParts, Sources
  <2>2. NextId(f)' = NextId(f) /\ Size(f)' = Size(f)
    BY DEF NextId, Size
  <2>3. ASSUME NEW l \in received', l.source = f PROVE l.id < NextId(f)
    <3>1. CASE l \in received
      BY <2>1, <2>3, <3>1 DEF Numbered
    <3>2. ASSUME NEW k \in Queues, NEW m \in 1 .. n[k], l = Waiting(k)[m] PROVE l.id < NextId(f)
      BY <1>2, <2>3, <3>2, WaitingIds
    <3> QED BY <3>1, <3>2
  <2>4. Cursor(f)' = Cursor(f) /\ Positions(f)' \subseteq Positions(f) /\ Cursor(f)' \in Positions(f)'
    BY <2>1, ColdSame DEF Positions
  <2>5. Positions(f) = {Cursor(f)} => Positions(f)' = {Cursor(f)'}
    BY <2>4
  <2> QED BY <2>1, <2>2, <2>3, <2>5 DEF Numbered
<1>5. ASSUME NEW s \in Sources PROVE SourceOrdered(s)'
  <2>1. QueueOf(s) \in Queues
    BY PlacesOf
  <2>2. PICK W, P, R, T, B, c : /\ W = Waiting(QueueOf(s)) /\ P = Passed /\ R = received /\ T = Marks(taken)
                                /\ B = Starts(s) /\ c = NextLine(s, Cursor(s))
    OBVIOUS
  <2>3. Ordered(W, P, R, T, s, B, c)
    BY <2>2 DEF OrderParts, SourceOrdered
  <2>4. B \subseteq Nat /\ c \in Nat /\ W \in Seq(Line)
    BY <1>1, <2>1, <2>2, StartsOf
  <2>5. PICK i : i = n[QueueOf(s)]
    OBVIOUS
  <2>6. i \in 0 .. Len(W) /\ FrontPassed(W, i, Passed')
    BY <1>1, <2>1, <2>2, <2>5
  <2>7. PICK P2, R2, R3 : P2 = Passed' /\ R2 = received' /\ R3 = {r \in R2 : r.source = s}
    OBVIOUS
  <2>8. \A r \in R3 : r \in R \/ \E m \in 1 .. i : r = W[m]
    <3>1. ASSUME NEW r \in R3, NEW k \in Queues, NEW m \in 1 .. n[k], r = Waiting(k)[m]
          PROVE  \E j \in 1 .. i : r = W[j]
      <4>1. QueueOf(s) = k
        BY <1>2, <2>7, <3>1
      <4> QED BY <2>2, <2>5, <3>1, <4>1
    <3> QED BY <2>2, <2>7, <3>1
  <2>9. P \subseteq P2 /\ FrontPassed(W, i, P2)
    BY <2>2, <2>6, <2>7
  <2>10. PICK V : V = SubSeq(W, i + 1, Len(W))
    OBVIOUS
  <2>11. Ordered(W, P2, R3, T, s, B, c) /\ Ordered(V, P2, R3, T, s, B, c)
    BY <2>3, <2>4, <2>6, <2>8, <2>9, <2>10, OrderedFront
  <2>12. PICK U : U = Waiting(QueueOf(s))'
    OBVIOUS
  <2>13. U \in {W, V}
    BY <2>1, <2>2, <2>5, <2>10, <2>12
  <2>14. Ordered(U, P2, R3, T, s, B, c)
    BY <2>11, <2>13
  <2>15. PICK B2 : B2 = Starts(s)'
    OBVIOUS
  <2>16. B2 \subseteq B /\ c = NextLine(s, Cursor(s))' /\ T = Marks(taken)'
    BY <2>2, <2>15, ColdSame DEF Marks
  <2>17. \A r \in R2 : r.source = s => r \in R3
    BY <2>7
  <2>18. Ordered(U, P2, R2, T, s, B2, c)
    BY <2>4, <2>14, <2>16, <2>17, OrderedSame
  <2> QED BY <2>7, <2>12, <2>15, <2>16, <2>18 DEF SourceOrdered
<1> QED BY <1>3, <1>4, <1>5 DEF OrderParts

\* Nothing but the state file changes.
LEMMA SavedOrders ==
  ASSUME ShippingTypes, OrderParts, saved' \in {saved, state},
         UNCHANGED <<opts, file, events, tail, state, queues, win, taken, received, dropped, rejected, skipped>>
  PROVE  OrderParts'
<1> DEFINE n == [k \in Queues |-> 0]
<1>1. n \in [Queues -> Nat] /\ \A k \in Queues : n[k] = 0
  OBVIOUS
<1>2. \A k \in Queues : Waiting(k)' = Waiting(k) /\ Len(Waiting(k)) \in Nat
  <2>1. \A k \in Queues : Waiting(k)' = Waiting(k)
    BY DEF Waiting
  <2>2. \A k \in Queues : Waiting(k) \in Seq(Line)
    BY WaitingType
  <2>3. \A q \in Seq(Line) : Len(q) \in Nat
    OBVIOUS
  <2> QED BY <2>1, <2>2, <2>3
<1>3. Passed' = Passed
  BY DEF Passed, Marks
<1> HIDE DEF n
<1>4. \A k \in Queues : n[k] <= Len(Waiting(k)) /\ FrontPassed(Waiting(k), n[k], Passed')
  BY <1>1, <1>2 DEF FrontPassed
<1> QED BY <1>1, <1>2, <1>3, <1>4, FrontsSettled

\* A restart forgets what waited and goes back to the saved positions.
LEMMA StartOrders ==
  ASSUME ShippingTypes, OrderParts, Start
  PROVE  OrderParts'
<1>1. /\ UNCHANGED <<opts, file, events, saved, received, dropped, rejected, taken, skipped>>
      /\ state' = saved /\ tail' = Tails(saved)
      /\ \A k \in Queues : queues'[k] = <<>>
      /\ win'.lines = <<>>
  BY DEF Start, source, totals, NoQueues, NoWin
<1>2. \A k \in Queues : Waiting(k)' = <<>>
  BY <1>1 DEF Waiting
<1>3. Passed' = Passed /\ Marks(taken)' = Marks(taken)
  BY <1>1 DEF Passed, Marks
<1>4. ASSUME NEW k \in Queues PROVE QueueSorted(k)'
  BY <1>2 DEF QueueSorted, Ascending
<1>5. ASSUME NEW s \in Sources PROVE Cursor(s)' = saved[s] /\ Positions(s)' = {Cursor(s)'}
  <2>1. saved[s] \in Place
    BY DEF ShippingTypes, Sources, Place
  <2>2. Cursor(s)' = saved[s]
    <3>1. CASE s \in Files
      <4>1. tail'[s].pos = saved[s].pos /\ tail'[s].ino = saved[s].ino
        BY <1>1, <3>1 DEF Tails, NewTail
      <4>2. saved[s] = [pos |-> saved[s].pos, ino |-> saved[s].ino]
        BY <2>1 DEF Place
      <4> QED BY <3>1, <4>1, <4>2 DEF Cursor
    <3>2. CASE s \notin Files
      BY <1>1, <3>2 DEF Cursor
    <3> QED BY <3>1, <3>2
  <2> QED BY <1>1, <2>2 DEF Positions
<1>6. ASSUME NEW f \in Files PROVE Numbered(f)'
  <2>1. f \in Sources /\ Numbered(f)
    BY DEF OrderParts, Sources
  <2>2. NextId(f)' = NextId(f)
    BY <1>1 DEF NextId
  <2> QED BY <1>1, <1>5, <2>1, <2>2 DEF Numbered
<1>7. ASSUME NEW s \in Sources PROVE SourceOrdered(s)'
  <2>1. \A t : NextLine(s, t)' = NextLine(s, t)
    <3>1. CASE s \in Files
      BY <1>1, <3>1 DEF NextLine, StartOf, Size
    <3>2. CASE s \notin Files
      BY <1>1, <3>2 DEF NextLine, After
    <3> QED BY <3>1, <3>2
  <2>2. PICK P, R, T, c : P = Passed /\ R = received /\ T = Marks(taken) /\ c = NextLine(s, saved[s])
    OBVIOUS
  <2>3. PICK W, c0 : W = Waiting(QueueOf(s)) /\ c0 = NextLine(s, Cursor(s))
    OBVIOUS
  <2>4. Resumes(W, P, R, T, s, c, c0)
    <3>1. c \in Starts(s)
      BY <2>2 DEF Starts, Positions
    <3> QED BY <2>2, <2>3, <3>1 DEF OrderParts, SourceOrdered, Ordered
  <2>5. c \in Nat
    <3>1. saved[s] \in Place
      BY DEF ShippingTypes, Sources, Place
    <3> QED BY <2>2, <3>1, NextLineType
  <2>6. Resumes(<<>>, P, R, T, s, c, c)
    <3>1. \A i \in c .. c - 1 : FALSE
      BY <2>5
    <3> QED BY <2>4, <3>1 DEF Resumes
  <2>7. Ordered(<<>>, P, R, T, s, {c}, c)
    BY <2>6 DEF Ordered, Ascending, Waits
  <2>8. NextLine(s, Cursor(s))' = c /\ Starts(s)' = {c}
    BY <1>5, <2>1, <2>2 DEF Starts
  <2>9. Waiting(QueueOf(s))' = <<>>
    BY <1>2, PlacesOf
  <2> QED BY <1>1, <1>3, <2>2, <2>7, <2>8, <2>9 DEF SourceOrdered
<1> QED BY <1>4, <1>6, <1>7 DEF OrderParts

\* A batch is the front of its queue, and is what is spliced off.
LEMMA BatchFront ==
  ASSUME NEW q \in Seq(Line)
  PROVE  LET n == Len(Batch(q)) IN
         /\ n \in 0 .. Len(q) /\ \A m \in 1 .. n : Batch(q)[m] = q[m]
         /\ Lines(Batch(q)) = {q[m] : m \in 1 .. n}
         /\ Splice(q, Batch(q)) = SubSeq(q, n + 1, Len(q))
<1> DEFINE n == IF Len(q) < BATCH_LINES THEN Len(q) ELSE BATCH_LINES
<1>0. BATCH_LINES \in Nat \ {0} /\ Len(q) \in Nat
  BY ShippingAssumption
<1>1. n \in 0 .. Len(q)
  BY <1>0
<1>2. Batch(q) = SubSeq(q, 1, n)
  BY DEF Batch
<1> HIDE DEF n
<1>3. /\ Batch(q) \in Seq(Line) /\ Len(Batch(q)) = n
      /\ \A i \in 1 .. n : Batch(q)[i] = q[i]
  BY <1>0, <1>1, <1>2
<1>4. Lines(Batch(q)) = {q[m] : m \in 1 .. n}
  <2>1. \A l : l \in Lines(Batch(q)) <=> \E i \in 1 .. n : Batch(q)[i] = l
    BY <1>3, LinesOf
  <2> QED BY <1>3, <2>1
<1>5. ~(Len(q) < n)
  BY <1>0, <1>1
<1>6. Splice(q, Batch(q)) = SubSeq(q, n + 1, Len(q))
  BY <1>3, <1>5 DEF Splice
<1> QED BY <1>1, <1>3, <1>4, <1>6

\* One who posts is alone, and tick() awaits no channel.
LEMMA PostsAlone ==
  ASSUME InPlace, ~overlap, NEW f \in Flushers, flusher[f].pc = "post"
  PROVE  /\ AtFront(flusher[f], queues, Queues)
         /\ \A k \in Queues : Waiting(k) = queues[k] /\ queues[k] \in Seq(Line)
<1>1. flusher[f] # Idle /\ ShippingTypes /\ Callers /\ PostsTheFront(f)
  BY DEF Idle, InPlace, Fronts
<1>2. ticking # "win"
  BY <1>1 DEF Callers, Flushers
<1>3. win.lines = <<>>
  BY <1>1, <1>2 DEF Callers, NoWin
<1>4. \A k \in Queues : queues[k] \in Seq(Line)
  BY <1>1 DEF ShippingTypes
<1>5. \A q \in Seq(Line) : q \o <<>> = q
  OBVIOUS
<1> QED BY <1>1, <1>3, <1>4, <1>5 DEF PostsTheFront, Waiting

\* The answers to a post.
LEMMA PostOrders ==
  ASSUME InPlace, InPlace', OrderParts, ~overlap', NEW f \in Flushers, Answered(f)
  PROVE  OrderParts'
<1>0. /\ ~overlap /\ flusher[f].pc = "post" /\ AfterFlush(f) /\ ShippingTypes /\ ShippingTypes'
      /\ UNCHANGED <<opts, source, reading, win, dropped, taken, skipped>>
  BY DEF Answered, PostAccepted, PostRejected, PostRefused, PostFailed, Posting, FlushFrame, Spliced, InPlace
<1>1. UNCHANGED <<opts, file, events, tail, state, win, taken, dropped, skipped>>
  BY <1>0 DEF source, reading
<1>2. saved' \in {saved, state}
  BY <1>0, <1>1, FlushEnds DEF SaveState, ShippingTypes
<1>3. CASE UNCHANGED <<queues, received, rejected>>
  BY <1>0, <1>1, <1>2, <1>3, SavedOrders
<1>4. CASE ~UNCHANGED <<queues, received, rejected>>
  <2>0. PICK key, batch : key = flusher[f].key /\ batch = flusher[f].batch
    OBVIOUS
  <2> DEFINE m == [k \in Queues |-> IF k = key THEN Len(batch) ELSE 0]
  <2>1. /\ received' \in {received, received \cup Lines(batch)} /\ rejected' \in {rejected, rejected \cup Lines(batch)}
        /\ Lines(batch) \subseteq received' \cup rejected'
        /\ queues' \in {queues, [queues EXCEPT ![key] = Splice(@, batch)]}
    BY <1>4, <2>0 DEF Answered, PostAccepted, PostRejected, PostRefused, PostFailed, Spliced
  <2>2. /\ key \in Queues /\ batch = Batch(queues[key])
        /\ \A k \in Queues : Waiting(k) = queues[k] /\ queues[k] \in Seq(Line)
    BY <1>0, <2>0, PostsAlone DEF AtFront
  <2>3. \A k \in Queues : Waiting(k)' = queues'[k]
    <3>1. win.lines = <<>>
      <4>1. flusher[f] # Idle /\ Callers
        BY <1>0 DEF InPlace, Idle
      <4>2. ticking # "win"
        BY <1>0, <4>1 DEF Callers, Flushers
      <4> QED BY <4>1, <4>2 DEF Callers, NoWin
    <3>2. \A k \in Queues : queues'[k] \in Seq(Line)
      BY <1>0 DEF ShippingTypes
    <3>3. \A q \in Seq(Line) : q \o <<>> = q
      OBVIOUS
    <3> QED BY <1>1, <3>1, <3>2, <3>3 DEF Waiting
  <2>4. /\ Len(batch) \in 0 .. Len(queues[key])
        /\ \A i \in 1 .. Len(batch) : queues[key][i] \in Lines(batch)
        /\ \A l \in Lines(batch) : \E i \in 1 .. Len(batch) : l = queues[key][i]
        /\ Splice(queues[key], batch) = SubSeq(queues[key], Len(batch) + 1, Len(queues[key]))
    <3>1. PICK q \in Seq(Line) : q = queues[key]
      BY <2>2
    <3>2. PICK b : b = Batch(q)
      OBVIOUS
    <3>3. /\ Len(b) \in 0 .. Len(q)
          /\ Lines(b) = {q[i] : i \in 1 .. Len(b)}
          /\ Splice(q, b) = SubSeq(q, Len(b) + 1, Len(q))
      BY <3>2, BatchFront
    <3>4. b = batch
      BY <2>2, <3>1, <3>2
    <3> QED BY <3>1, <3>3, <3>4
  <2>5. /\ m \in [Queues -> Nat] /\ m[key] = Len(batch) /\ \A k \in Queues : k # key => m[k] = 0
    <3>1. Len(batch) \in Nat
      BY <2>4
    <3> QED BY <2>2, <3>1
  <2> HIDE DEF m
  <2>6. \A k \in Queues : m[k] <= Len(Waiting(k))
    <3>1. \A k \in Queues : Len(queues[k]) \in Nat
      BY <2>2
    <3>2. Len(batch) <= Len(queues[key])
      BY <2>2, <2>4, <3>1
    <3> QED BY <2>2, <2>5, <3>1, <3>2
  <2>7. Passed \subseteq Passed' /\ \A l \in Lines(batch) : <<l.source, l.id>> \in Passed'
    BY <1>1, <2>1 DEF Passed, Marks
  <2>8. \A k \in Queues : FrontPassed(Waiting(k), m[k], Passed')
    <3>1. FrontPassed(queues[key], Len(batch), Passed')
      BY <2>4, <2>7 DEF FrontPassed
    <3>2. \A q : FrontPassed(q, 0, Passed')
      BY DEF FrontPassed
    <3> QED BY <2>2, <2>5, <3>1, <3>2
  <2>9. \A r \in received' : r \in received \/ \E k \in Queues : \E i \in 1 .. m[k] : r = Waiting(k)[i]
    BY <2>1, <2>2, <2>4, <2>5
  <2>10. \A k \in Queues : Waiting(k)' \in {Waiting(k), SubSeq(Waiting(k), m[k] + 1, Len(Waiting(k)))}
    <3>1. CASE queues' = queues
      BY <2>2, <2>3, <3>1
    <3>2. CASE queues' = [queues EXCEPT ![key] = Splice(@, batch)]
      <4>1. queues'[key] = Splice(queues[key], batch) /\ \A k \in Queues \ {key} : queues'[k] = queues[k]
        BY <1>0, <2>2, <3>2 DEF ShippingTypes
      <4>2. Waiting(key)' = SubSeq(Waiting(key), m[key] + 1, Len(Waiting(key)))
        <5>1. Waiting(key)' = queues'[key] /\ Waiting(key) = queues[key] /\ m[key] = Len(batch)
          BY <2>2, <2>3, <2>5
        <5>2. queues'[key] = SubSeq(queues[key], Len(batch) + 1, Len(queues[key]))
          BY <2>4, <4>1
        <5> QED BY <5>1, <5>2, Zenon
      <4>3. \A k \in Queues \ {key} : Waiting(k)' = Waiting(k)
        BY <2>2, <2>3, <4>1
      <4> SUFFICES ASSUME NEW k \in Queues
                   PROVE  Waiting(k)' \in {Waiting(k), SubSeq(Waiting(k), m[k] + 1, Len(Waiting(k)))}
        OBVIOUS
      <4>4. CASE k = key
        BY <4>2, <4>4, Zenon
      <4>5. CASE k # key
        BY <4>3, <4>5
      <4> QED BY <4>4, <4>5
    <3> QED BY <2>1, <3>1, <3>2
  <2> QED BY <1>0, <1>1, <1>2, <2>5, <2>6, <2>7, <2>8, <2>9, <2>10, FrontsSettled
<1> QED BY <1>3, <1>4

\* What enqueue cuts off is counted as dropped.
LEMMA TrimFront ==
  ASSUME NEW q \in Seq(Line), NEW D, Trimmed(q) \subseteq D, NEW P, Marks(D) \subseteq P
  PROVE  Excess(q) \in 0 .. Len(q) /\ FrontPassed(q, Excess(q), P)
<1>1. Len(q) \in Nat /\ Excess(q) \in 0 .. Len(q)
  BY ShippingAssumption DEF Excess
<1>2. PICK n \in 0 .. Len(q) : n = Excess(q)
  BY <1>1
<1>3. Trimmed(q) = Lines(SubSeq(q, 1, n))
  BY <1>2 DEF Trimmed, Lines
<1>4. PICK F \in Seq(Line) : F = SubSeq(q, 1, n) /\ Len(F) = n /\ \A i \in 1 .. n : F[i] = q[i]
  <2> DEFINE G == SubSeq(q, 1, n)
  <2>1. G \in Seq(Line) /\ Len(G) = n /\ \A i \in 1 .. n : G[i] = q[i]
    BY <1>1
  <2>2. G = SubSeq(q, 1, n)
    OBVIOUS
  <2> HIDE DEF G
  <2> QED BY <2>1, <2>2
<1>5. \A i \in 1 .. n : q[i] \in Lines(F)
  BY <1>4, LinesOf
<1>6. \A i \in 1 .. n : <<q[i].source, q[i].id>> \in P
  BY <1>3, <1>4, <1>5 DEF Marks
<1> QED BY <1>1, <1>2, <1>6 DEF FrontPassed

\* The events read join their queue.
LEMMA WinDoneOrders ==
  ASSUME InPlace, InPlace', OrderParts, WinDone
  PROVE  OrderParts'
<1>0. /\ ticking = "win" /\ ShippingTypes /\ ShippingTypes' /\ FlushOrSave /\ win' = NoWin
      /\ UNCHANGED <<opts, file, events, tail, state, received, rejected, taken, skipped>>
  BY DEF InPlace, WinDone, source, reading
<1>1. saved' \in {saved, state}
  BY <1>0, TickEnds DEF SaveState
<1> DEFINE new == [k \in Queues |-> IF k = WinEvents THEN win.lines ELSE <<>>]
<1>2. Enqueue(new)
  BY DEF WinDone
<1>3. \A k \in Queues : queues[k] \o new[k] = Waiting(k)
  <2>1. \A k \in Queues : queues[k] \in Seq(Line)
    BY <1>0 DEF ShippingTypes
  <2>2. \A q \in Seq(Line) : q \o <<>> = q
    OBVIOUS
  <2> QED BY <2>1, <2>2 DEF Waiting
<1> HIDE DEF new
<1>4. /\ \A k \in Queues : queues'[k] = Trim(Waiting(k)) /\ Trimmed(Waiting(k)) \subseteq dropped'
      /\ dropped \subseteq dropped'
  BY <1>2, <1>3 DEF Enqueue
<1>5. \A k \in Queues : Waiting(k)' = queues'[k]
  <2>1. \A k \in Queues : queues'[k] \in Seq(Line)
    BY <1>0 DEF ShippingTypes
  <2>2. \A q \in Seq(Line) : q \o <<>> = q
    OBVIOUS
  <2> QED BY <1>0, <2>1, <2>2 DEF Waiting, NoWin
<1>6. \A k \in Queues : Waiting(k) \in Seq(Line)
  BY <1>0, WaitingType
<1>7. Passed \subseteq Passed' /\ Marks(dropped') \subseteq Passed'
  BY <1>0, <1>4 DEF Passed, Marks
<1> DEFINE m == [k \in Queues |-> Excess(Waiting(k))]
<1>8. \A k \in Queues : Excess(Waiting(k)) \in 0 .. Len(Waiting(k)) /\ FrontPassed(Waiting(k), Excess(Waiting(k)), Passed')
  BY <1>4, <1>6, <1>7, TrimFront
<1>9. \A k \in Queues : m[k] = Excess(Waiting(k))
  OBVIOUS
<1>10. m \in [Queues -> Nat]
  <2>1. \A k \in Queues : Excess(Waiting(k)) \in Nat
    BY <1>8
  <2> QED BY <2>1
<1> HIDE DEF m
<1>11. \A k \in Queues : m[k] <= Len(Waiting(k)) /\ FrontPassed(Waiting(k), m[k], Passed')
  <2>1. \A q \in Seq(Line) : Len(q) \in Nat
    OBVIOUS
  <2> QED BY <1>6, <1>8, <1>9, <2>1
<1>12. \A k \in Queues : Waiting(k)' = SubSeq(Waiting(k), m[k] + 1, Len(Waiting(k)))
  BY <1>4, <1>5, <1>9 DEF Trim
<1> QED BY <1>0, <1>1, <1>7, <1>10, <1>11, <1>12, FrontsSettled

\* Stop, the inventory's answer and a crash.
LEMMA RestOrders ==
  ASSUME InPlace, OrderParts, Stop \/ InventoryRefused \/ Crash
  PROVE  OrderParts'
<1>1. UNCHANGED <<opts, file, events, tail, state, queues, win, taken, received, dropped, rejected, skipped>>
  BY DEF Stop, InventoryRefused, Crash, source, reading, totals
<1>2. saved' \in {saved, state}
  <2>1. CASE Stop
    BY <1>1, <2>1 DEF Stop, SaveState
  <2>2. CASE InventoryRefused \/ Crash
    BY <2>2 DEF InventoryRefused, Crash
  <2> QED BY <2>1, <2>2
<1> QED BY <1>1, <1>2, SavedOrders DEF InPlace

-----------------------------------------------------------------------------
(* Steps that read. *)

\* The source that is read.
LEMMA SourceRead ==
  ASSUME ShippingTypes, OrderParts, UNCHANGED received, Passed \subseteq Passed',
         NEW s \in Sources, NEW W, W = Waiting(QueueOf(s)), NEW new \in Seq(Line),
         NEW c, c = NextLine(s, Cursor(s)), NEW d \in Nat, d = c + Len(new),
         \A j \in DOMAIN new : new[j].source = s /\ new[j].id = c + j - 1,
         \A i \in Nat : <<s, i>> \in Marks(taken)' => <<s, i>> \in Marks(taken) \/ i \in c .. d - 1,
         s \in Files => \A b \in Starts(s) : \A i \in b .. c - 1 : <<s, i>> \in Marks(taken) \cup Passed',
         Starts(s)' \subseteq Starts(s) \cup {d}, NextLine(s, Cursor(s))' = d,
         NEW n \in 0 .. Len(W \o new), FrontPassed(W \o new, n, Passed'),
         Waiting(QueueOf(s))' \in {W \o new, SubSeq(W \o new, n + 1, Len(W \o new))}
  PROVE  SourceOrdered(s)' /\ Ascending(W \o new)
<1>1. PICK P, P2, R, T, T2, B, B2 :
        /\ P = Passed /\ P2 = Passed' /\ R = received /\ T = Marks(taken) /\ T2 = Marks(taken)'
        /\ B = Starts(s) /\ B2 = Starts(s)'
  OBVIOUS
<1>2. B \subseteq Nat /\ c \in Nat /\ c \in B /\ W \in Seq(Line)
  BY <1>1, StartsOf, WaitingType, PlacesOf
<1>3. Ordered(W, P, R, T, s, B, c)
  BY <1>1 DEF OrderParts, SourceOrdered
<1>4. /\ \A i \in Nat : <<s, i>> \in T2 => <<s, i>> \in T \/ i \in c .. d - 1
      /\ s \in Files => \A b \in B : \A i \in b .. c - 1 : <<s, i>> \in T \cup P2
      /\ B2 \subseteq B \cup {d} /\ P \subseteq P2 /\ FrontPassed(W \o new, n, P2)
  BY <1>1
<1>5. PICK A : A = W \o new
  OBVIOUS
<1>6. A \in Seq(Line) /\ n \in 0 .. Len(A) /\ FrontPassed(A, n, P2)
  BY <1>2, <1>4, <1>5, LinesOfConcat
<1>7. Ordered(W \o new, P2, R, T2, s, B2, d)
  BY <1>2, <1>3, <1>4, OrderedRead
<1>8. Ordered(A, P2, R, T2, s, B2, d) /\ Ascending(A)
  BY <1>5, <1>7 DEF Ordered
<1>9. B2 \subseteq Nat
  BY <1>2, <1>4
<1>10. Ordered(SubSeq(A, n + 1, Len(A)), P2, R, T2, s, B2, d)
  BY <1>6, <1>8, <1>9, OrderedFront
<1>11. PICK U : U = Waiting(QueueOf(s))'
  OBVIOUS
<1>12. Ordered(U, P2, R, T2, s, B2, d)
  BY <1>5, <1>8, <1>10, <1>11
<1>13. received' = R /\ P2 = Passed' /\ T2 = Marks(taken)' /\ B2 = Starts(s)' /\ d = NextLine(s, Cursor(s))'
  BY <1>1
<1> QED BY <1>5, <1>8, <1>11, <1>12, <1>13 DEF SourceOrdered

\* One that is not.
LEMMA SourceBeside ==
  ASSUME ShippingTypes, OrderParts, UNCHANGED received, Passed \subseteq Passed',
         NEW s \in Sources, NEW W, W = Waiting(QueueOf(s)), NEW new \in Seq(Line),
         \A j \in DOMAIN new : new[j].source # s, Ascending(W \o new),
         \A i \in Nat : <<s, i>> \in Marks(taken)' => <<s, i>> \in Marks(taken),
         Starts(s)' \subseteq Starts(s), NextLine(s, Cursor(s))' = NextLine(s, Cursor(s)),
         NEW n \in 0 .. Len(W \o new), FrontPassed(W \o new, n, Passed'),
         Waiting(QueueOf(s))' \in {W \o new, SubSeq(W \o new, n + 1, Len(W \o new))}
  PROVE  SourceOrdered(s)'
<1>1. PICK P, P2, R, T, T2, B, B2, c :
        /\ P = Passed /\ P2 = Passed' /\ R = received /\ T = Marks(taken) /\ T2 = Marks(taken)'
        /\ B = Starts(s) /\ B2 = Starts(s)' /\ c = NextLine(s, Cursor(s))
  OBVIOUS
<1>2. B \subseteq Nat /\ c \in Nat /\ W \in Seq(Line)
  BY <1>1, StartsOf, WaitingType, PlacesOf
<1>3. Ordered(W, P, R, T, s, B, c)
  BY <1>1 DEF OrderParts, SourceOrdered
<1>4. /\ \A i \in Nat : <<s, i>> \in T2 => <<s, i>> \in T
      /\ B2 \subseteq B /\ P \subseteq P2 /\ FrontPassed(W \o new, n, P2)
  BY <1>1
<1>5. PICK A : A = W \o new
  OBVIOUS
<1>6. A \in Seq(Line) /\ n \in 0 .. Len(A) /\ FrontPassed(A, n, P2)
  BY <1>2, <1>4, <1>5, LinesOfConcat
<1>7. Ordered(W \o new, P, R, T, s, B, c)
  BY <1>2, <1>3, OrderedBehind
<1>8. Ordered(A, P, R, T, s, B, c)
  BY <1>5, <1>7
<1>9. \A r \in R : r.source = s => r \in R
  OBVIOUS
<1>10. Ordered(A, P2, R, T2, s, B2, c)
  BY <1>2, <1>4, <1>8, <1>9, OrderedSame
<1>11. B2 \subseteq Nat
  BY <1>2, <1>4
<1>12. Ordered(SubSeq(A, n + 1, Len(A)), P2, R, T2, s, B2, c)
  BY <1>2, <1>6, <1>10, <1>11, OrderedFront
<1>13. PICK U : U = Waiting(QueueOf(s))'
  OBVIOUS
<1>14. Ordered(U, P2, R, T2, s, B2, c)
  BY <1>5, <1>10, <1>12, <1>13
<1>15. received' = R /\ P2 = Passed' /\ T2 = Marks(taken)' /\ B2 = Starts(s)' /\ c = NextLine(s, Cursor(s))'
  BY <1>1
<1> QED BY <1>13, <1>14, <1>15 DEF SourceOrdered

\* The queue of both.
LEMMA QueueRead ==
  ASSUME NEW k \in Queues, NEW W \in Seq(Line), NEW new \in Seq(Line), QueueSorted(k), W = Waiting(k),
         \A j \in DOMAIN new : QueueOf(new[j].source) = k, Ascending(W \o new),
         NEW n \in 0 .. Len(W \o new),
         Waiting(k)' \in {W \o new, SubSeq(W \o new, n + 1, Len(W \o new))}
  PROVE  QueueSorted(k)'
<1>1. PICK A : A = W \o new
  OBVIOUS
<1>2. /\ Len(W) \in Nat /\ Len(new) \in Nat /\ DOMAIN W = 1 .. Len(W) /\ DOMAIN new = 1 .. Len(new)
      /\ DOMAIN A = 1 .. Len(W) + Len(new) /\ A \in Seq(Line)
      /\ \A m \in 1 .. Len(W) : A[m] = W[m]
      /\ \A j \in 1 .. Len(new) : A[Len(W) + j] = new[j]
  BY <1>1, Concatenation
<1>3. \A m \in DOMAIN W : QueueOf(W[m].source) = k
  BY DEF QueueSorted
<1>4. ASSUME NEW m \in DOMAIN A PROVE QueueOf(A[m].source) = k
  <2>1. CASE m <= Len(W)
    BY <1>2, <1>3, <2>1
  <2>2. CASE m > Len(W)
    <3>1. m - Len(W) \in 1 .. Len(new) /\ Len(W) + (m - Len(W)) = m
      BY <1>2, <2>2
    <3>2. A[m] = new[m - Len(W)]
      BY <1>2, <3>1
    <3> QED BY <1>2, <3>1, <3>2
  <2> QED BY <1>2, <2>1, <2>2
<1>5. Ascending(A) /\ n \in 0 .. Len(A)
  BY <1>1
<1>6. PICK V : V = SubSeq(A, n + 1, Len(A))
  OBVIOUS
<1>7. Ascending(V) /\ \A m \in DOMAIN V : m + n \in DOMAIN A /\ V[m] = A[m + n]
  <2>1. FrontPassed(A, n, {<<A[m].source, A[m].id>> : m \in 1 .. n}) /\ 0 \in Nat
    BY DEF FrontPassed
  <2> QED BY <1>2, <1>5, <1>6, <2>1, BeheadKeeps
<1>8. Waiting(k)' = A \/ Waiting(k)' = V
  BY <1>1, <1>6
<1> QED BY <1>4, <1>5, <1>7, <1>8 DEF QueueSorted

\* Nothing is put behind.
LEMMA EmptyBehind ==
  ASSUME NEW q \in Seq(Line)
  PROVE  q \o <<>> = q /\ <<>> \in Seq(Line) /\ DOMAIN <<>> = {} /\ 0 \in 0 .. Len(q)
OBVIOUS

\* What a read of s from line c returns.
Returned(new, s, c) ==
  /\ new \in Seq(Line) /\ c \in Nat /\ Len(new) \in Nat
  /\ \A j \in DOMAIN new : new[j].source = s /\ new[j].id = c + j - 1

\* The events a read of a channel returns, and where the next one starts.
LEMMA EventsRead ==
  ASSUME ShippingTypes, NEW d \in Channels, NEW new \in {NewEvents(d), <<>>},
         state'[d].pos = IF new # <<>> THEN events[d] ELSE state[d].pos, events' = events,
         NEW c, c = NextLine(d, Cursor(d))
  PROVE  Returned(new, d, c) /\ NextLine(d, Cursor(d))' = c + Len(new)
<1>1. d \in Sources /\ d \notin Files /\ state[d] \in Place /\ events[d] \in Nat /\ MaxEvents \in Nat \ {0}
  BY ShippingAssumption DEF Sources, ShippingTypes, Place
<1>2. c \in Nat /\ c = After(state[d], d) + 1
  BY <1>1, StartsOf DEF NextLine, Cursor
<1>3. PICK a, e : a = After(state[d], d) /\ e = events[d]
  OBVIOUS
<1>4. a \in Nat /\ e \in Nat /\ c = a + 1
  <2>1. PICK x \in Nat : x = IF state[d].pos = None THEN 0 ELSE state[d].pos
    BY <1>1 DEF Place, Position
  <2>2. a = IF e - x > MaxEvents THEN e - MaxEvents ELSE x
    BY <1>3, <2>1 DEF After
  <2>3. e \in Nat /\ MaxEvents \in Nat /\ c = a + 1
    BY <1>1, <1>2, <1>3
  <2> QED BY <2>2, <2>3
<1>5. NewEvents(d) = [i \in 1 .. e - a |-> [source |-> d, id |-> a + i, whole |-> TRUE]]
  BY <1>3 DEF NewEvents, After
<1>6. new \in Seq(Line)
  <2>1. <<>> \in Seq(Line)
    OBVIOUS
  <2> QED BY <2>1, EventsType
<1>7. \A j \in DOMAIN new : new[j].source = d /\ new[j].id = c + j - 1
  <2>1. CASE new = <<>>
    BY <2>1
  <2>2. CASE new = NewEvents(d)
    <3>1. DOMAIN new = 1 .. e - a
      BY <1>5, <2>2
    <3>2. \A j \in 1 .. e - a : new[j].source = d /\ new[j].id = a + j
      BY <1>5, <2>2
    <3>3. \A j \in 1 .. e - a : a + j = c + j - 1
      BY <1>4
    <3> QED BY <3>1, <3>2, <3>3
  <2> QED BY <2>1, <2>2
<1>8. NextLine(d, Cursor(d))' = c + Len(new)
  <2>1. CASE new = <<>>
    <3>1. state'[d].pos = state[d].pos
      BY <1>1, <2>1 DEF ShippingTypes, Sources
    <3>2. After(state[d], d)' = After(state[d], d)
      BY <1>1, <3>1 DEF After
    <3>3. NextLine(d, Cursor(d))' = a + 1
      BY <1>1, <1>3, <3>2 DEF NextLine, Cursor
    <3>4. Len(new) = 0
      BY <2>1
    <3> QED BY <1>4, <3>3, <3>4
  <2>2. CASE new # <<>>
    <3>1. state'[d].pos = e
      BY <1>1, <1>3, <2>2 DEF ShippingTypes, Sources
    <3>2. new = NewEvents(d) /\ Len(new) \in Nat /\ DOMAIN new = 1 .. Len(new) /\ Len(new) # 0
      BY <1>6, <2>2
    <3>3. e - a \in Nat /\ Len(new) = e - a
      <4>1. DOMAIN new = 1 .. e - a
        BY <1>5, <3>2
      <4>2. 1 \in 1 .. e - a
        <5>1. 1 \in 1 .. Len(new)
          BY <3>2
        <5> QED BY <3>2, <4>1, <5>1
      <4>3. e - a \in Nat
        BY <1>4, <4>2
      <4> QED BY <1>5, <3>2, <4>3
    <3>4. After(state[d], d)' = e
      <4>1. e # None
        BY <1>4, ShippingAssumption
      <4> QED BY <1>1, <1>3, <1>4, <3>1, <4>1 DEF After
    <3>5. NextLine(d, Cursor(d))' = e + 1
      BY <1>1, <3>4 DEF NextLine, Cursor
    <3> QED BY <1>4, <3>3, <3>5
  <2> QED BY <2>1, <2>2
<1>9. Len(new) \in Nat
  BY <1>6
<1> QED BY <1>2, <1>6, <1>7, <1>8, <1>9 DEF Returned

\* A channel is read.
LEMMA WinReadOrders ==
  ASSUME InPlace, InPlace', OrderParts, NEW d \in Channels, WinRead(d)
  PROVE  OrderParts'
<1>0. ShippingTypes /\ ShippingTypes'
  BY DEF InPlace
<1>1. UNCHANGED <<opts, file, events, tail, saved, queues, received, dropped, rejected, skipped>>
  BY DEF WinRead, source, totals
<1>2. PICK new \in {NewEvents(d), <<>>} :
        /\ win' = [todo |-> win.todo \ {d}, lines |-> win.lines \o new]
        /\ state' = [state EXCEPT ![d].pos = IF new # <<>> THEN events[d] ELSE @]
        /\ taken' = taken \cup Lines(new)
  BY DEF WinRead
<1>3. PICK c : c = NextLine(d, Cursor(d))
  OBVIOUS
<1>4. /\ new \in Seq(Line) /\ c \in Nat /\ Len(new) \in Nat
      /\ \A j \in DOMAIN new : new[j].source = d /\ new[j].id = c + j - 1
      /\ NextLine(d, Cursor(d))' = c + Len(new)
  <2>1. events' = events
    BY <1>1
  <2>2. state'[d].pos = IF new # <<>> THEN events[d] ELSE state[d].pos
    <3>1. d \in Files \cup Channels
      OBVIOUS
    <3>2. DOMAIN state = Files \cup Channels /\ DOMAIN state[d] = {"pos", "ino"}
      BY <1>0, <3>1 DEF ShippingTypes
    <3> QED BY <1>2, <3>1, <3>2
  <2>3. new \in {NewEvents(d), <<>>}
    OBVIOUS
  <2>4. Returned(new, d, c) /\ NextLine(d, Cursor(d))' = c + Len(new)
    BY <1>0, <1>3, <2>1, <2>2, <2>3, EventsRead
  <2> QED BY <2>4 DEF Returned
<1>5. d \in Sources /\ d \notin Files /\ QueueOf(d) = WinEvents /\ WinEvents \in Queues
  BY ShippingAssumption DEF Sources, QueueOf, Queues
<1>6. PICK W : W = Waiting(WinEvents)
  OBVIOUS
<1>7. W \in Seq(Line) /\ Waiting(WinEvents)' = W \o new
  <2>1. queues[WinEvents] \in Seq(Line) /\ win.lines \in Seq(Line)
    BY <1>0, <1>5 DEF ShippingTypes
  <2>2. (queues[WinEvents] \o win.lines) \o new = queues[WinEvents] \o (win.lines \o new)
    <3>1. PICK q \in Seq(Line), r \in Seq(Line) : q = queues[WinEvents] /\ r = win.lines
      BY <2>1
    <3>2. (q \o r) \o new = q \o (r \o new)
      BY <1>4, ConcatAssociative
    <3> QED BY <3>1, <3>2
  <2>3. Waiting(WinEvents)' = queues[WinEvents] \o (win.lines \o new)
    BY <1>1, <1>2 DEF Waiting
  <2>4. W = queues[WinEvents] \o win.lines
    BY <1>6 DEF Waiting
  <2> QED BY <1>0, <1>5, <1>6, <2>2, <2>3, <2>4, WaitingType
<1>8. \A k \in Queues \ {WinEvents} : Waiting(k)' = Waiting(k)
  BY <1>1 DEF Waiting
<1>9. Passed' = Passed
  BY <1>1 DEF Passed, Marks
<1>10. PICK A : A = W \o new
  OBVIOUS
<1>11. A \in Seq(Line) /\ 0 \in 0 .. Len(A) /\ FrontPassed(A, 0, Passed')
  <2>1. A \in Seq(Line)
    BY <1>4, <1>7, <1>10, LinesOfConcat
  <2> QED BY <2>1 DEF FrontPassed
<1>12. \A l \in Lines(new) : l.source = d /\ \E j \in DOMAIN new : l.id = c + j - 1
  BY <1>4 DEF Lines, ToSet
<1>13. ASSUME NEW s \in Sources, s # d
       PROVE  \A i \in Nat : <<s, i>> \in Marks(taken)' => <<s, i>> \in Marks(taken)
  BY <1>2, <1>12, <1>13 DEF Marks
<1>14. ASSUME NEW s \in Sources
       PROVE  /\ s # d => state'[s] = state[s] /\ Cursor(s)' = Cursor(s) /\ Positions(s)' = Positions(s)
              /\ \A t : NextLine(s, t)' = NextLine(s, t)
  <2>1. s # d => state'[s] = state[s]
    BY <1>0, <1>2 DEF ShippingTypes, Sources
  <2>2. s # d => Cursor(s)' = Cursor(s) /\ Positions(s)' = Positions(s)
    BY <1>1, <2>1 DEF Cursor, Positions
  <2>3. \A t : NextLine(s, t)' = NextLine(s, t)
    BY <1>1, SameSources
  <2> QED BY <2>1, <2>2, <2>3
<1>15. SourceOrdered(d)' /\ Ascending(W \o new)
  <2>1. PICK e : e = c + Len(new)
    OBVIOUS
  <2>2. \A i \in Nat : <<d, i>> \in Marks(taken)' => <<d, i>> \in Marks(taken) \/ i \in c .. e - 1
    <3>1. ASSUME NEW i \in Nat, <<d, i>> \in Marks(taken)', <<d, i>> \notin Marks(taken) PROVE i \in c .. e - 1
      <4>1. PICK l \in Lines(new) : l.id = i
        BY <1>2, <3>1 DEF Marks
      <4>2. PICK j \in DOMAIN new : i = c + j - 1
        BY <1>12, <4>1
      <4>3. j \in 1 .. Len(new)
        BY <1>4
      <4> QED BY <1>4, <2>1, <4>2, <4>3
    <3> QED BY <3>1
  <2>3. Starts(d)' \subseteq Starts(d) \cup {e}
    <3>1. \A t \in Positions(d)' : t = Cursor(d)' \/ t \in Positions(d)
      BY <1>1, <1>5 DEF Positions, Cursor
    <3>2. \A t : NextLine(d, t)' = NextLine(d, t)
      BY <1>5, <1>14
    <3>3. \A b \in Starts(d)' : \E t \in Positions(d)' : b = NextLine(d, t)'
      BY DEF Starts
    <3>4. ASSUME NEW b \in Starts(d)' PROVE b \in Starts(d) \cup {e}
      <4>1. PICK t \in Positions(d)' : b = NextLine(d, t)'
        BY <3>3
      <4>2. CASE t = Cursor(d)'
        BY <1>4, <2>1, <4>1, <4>2
      <4>3. CASE t \in Positions(d)
        BY <3>2, <4>1, <4>3 DEF Starts
      <4> QED BY <3>1, <4>2, <4>3
    <3> QED BY <3>4
  <2>4. W = Waiting(QueueOf(d)) /\ e \in Nat /\ NextLine(d, Cursor(d))' = e
    BY <1>4, <1>5, <1>6, <2>1
  <2>5. Waiting(QueueOf(d))' = W \o new
    BY <1>5, <1>7
  <2>6. 0 \in 0 .. Len(W \o new) /\ FrontPassed(W \o new, 0, Passed')
    BY <1>10, <1>11
  <2>7. Passed \subseteq Passed' /\ UNCHANGED received
    BY <1>1, <1>9
  <2> QED BY <1>0, <1>3, <1>4, <1>5, <2>1, <2>2, <2>3, <2>4, <2>5, <2>6, <2>7, SourceRead
<1>16. ASSUME NEW k \in Queues PROVE QueueSorted(k)'
  <2>1. QueueSorted(k)
    BY DEF OrderParts
  <2>2. CASE k = WinEvents
    <3>1. \A j \in DOMAIN new : QueueOf(new[j].source) = k
      BY <1>4, <1>5, <2>2
    <3> QED BY <1>4, <1>6, <1>7, <1>10, <1>11, <1>15, <2>1, <2>2, <3>1, QueueRead
  <2>3. CASE k # WinEvents
    BY <1>8, <2>1, <2>3 DEF QueueSorted
  <2> QED BY <2>2, <2>3
<1>17. ASSUME NEW s \in Sources, s # d PROVE SourceOrdered(s)'
  <2>1. Cursor(s)' = Cursor(s) /\ Positions(s)' = Positions(s) /\ \A t : NextLine(s, t)' = NextLine(s, t)
    BY <1>14, <1>17
  <2>2. Starts(s)' = Starts(s) /\ NextLine(s, Cursor(s))' = NextLine(s, Cursor(s))
    BY <2>1 DEF Starts
  <2>3. QueueOf(s) \in Queues
    BY <1>0, PlacesOf
  <2>4. PICK U : U = Waiting(QueueOf(s))
    OBVIOUS
  <2>5. CASE QueueOf(s) = WinEvents
    <3>1. U = W /\ Waiting(QueueOf(s))' = W \o new
      BY <1>6, <1>7, <2>4, <2>5
    <3>2. \A j \in DOMAIN new : new[j].source # s
      BY <1>4, <1>17
    <3>3. 0 \in 0 .. Len(W \o new) /\ FrontPassed(W \o new, 0, Passed')
      BY <1>10, <1>11
    <3> QED BY <1>0, <1>1, <1>4, <1>9, <1>13, <1>15, <1>17, <2>2, <2>4, <3>1, <3>2, <3>3, SourceBeside
  <2>6. CASE QueueOf(s) # WinEvents
    <3>1. U \in Seq(Line) /\ Waiting(QueueOf(s))' = U
      BY <1>0, <1>8, <2>3, <2>4, <2>6, WaitingType
    <3>2. Ascending(U) /\ FrontPassed(U, 0, Passed')
      BY <2>3, <2>4 DEF OrderParts, QueueSorted, FrontPassed
    <3>3. /\ <<>> \in Seq(Line) /\ (\A j \in DOMAIN <<>> : <<>>[j].source # s) /\ Ascending(U \o <<>>)
          /\ 0 \in 0 .. Len(U \o <<>>) /\ FrontPassed(U \o <<>>, 0, Passed')
          /\ Waiting(QueueOf(s))' = U \o <<>>
      BY <3>1, <3>2, EmptyBehind
    <3> QED BY <1>0, <1>1, <1>9, <1>13, <1>17, <2>2, <2>4, <3>3, SourceBeside
  <2> QED BY <2>5, <2>6
<1>18. ASSUME NEW f \in Files PROVE Numbered(f)'
  <2>1. f \in Sources /\ f # d /\ Numbered(f)
    BY <1>5 DEF OrderParts, Sources
  <2>2. Cursor(f)' = Cursor(f) /\ Positions(f)' = Positions(f)
    BY <1>14, <2>1
  <2>3. \A l \in taken' : l.source = f => l \in taken
    BY <1>2, <1>12, <2>1
  <2>4. NextId(f)' = NextId(f) /\ Size(f)' = Size(f)
    BY <1>1 DEF NextId, Size
  <2> QED BY <1>1, <2>1, <2>2, <2>3, <2>4 DEF Numbered
<1> QED BY <1>15, <1>16, <1>17, <1>18 DEF OrderParts

\* Reads of a tick.
LEMMA TickFrame ==
  ASSUME InPlace, Tick
  PROVE  /\ UNCHANGED <<opts, file, events, received, rejected>> /\ saved' \in {saved, state'}
         /\ state' = StateAfter
         /\ tail' = [f \in Files |-> IF f \in opts.files THEN TailAfter(f) ELSE tail[f]]
         /\ win.lines = <<>> /\ win'.lines = <<>>
         /\ taken' = taken \cup UNION {Lines(ReadLines(f)) : f \in opts.files}
         /\ skipped' = skipped \cup UNION {PassedOver(f) : f \in opts.files}
<1>1. ticking = "idle" /\ Callers
  BY DEF Tick, InPlace
<1>2. win = NoWin
  BY <1>1 DEF Callers
<1>3. /\ UNCHANGED <<opts, file, events, received, rejected>> /\ state' = StateAfter
      /\ tail' = [f \in Files |-> IF f \in opts.files THEN TailAfter(f) ELSE tail[f]]
      /\ taken' = taken \cup UNION {Lines(ReadLines(f)) : f \in opts.files}
      /\ skipped' = skipped \cup UNION {PassedOver(f) : f \in opts.files}
  BY DEF Tick, source
<1>4. CASE UNCHANGED win /\ FlushOrSave
  <2>1. saved' \in {saved, state'}
    BY <1>4, TickEnds DEF SaveState
  <2> QED BY <1>2, <1>3, <1>4, <2>1 DEF NoWin
<1>5. CASE win' = [todo |-> Channels, lines |-> <<>>] /\ UNCHANGED saved
  BY <1>2, <1>3, <1>5 DEF NoWin
<1>6. (UNCHANGED win /\ FlushOrSave) \/ (win' = [todo |-> Channels, lines |-> <<>>] /\ UNCHANGED saved)
  BY DEF Tick
<1> QED BY <1>4, <1>5, <1>6

\* A file that is read: from its cursor to line d, and what lies before is passed over.
LEMMA TickFile ==
  ASSUME InPlace, Tick, NEW f \in Files, f \in opts.files, Numbered(f),
         NEW c, c = NextLine(f, Cursor(f)), NEW d, d = file[f].first + ReadTo(f) \div 2
  PROVE  /\ Returned(ReadLines(f), f, c) /\ d \in Nat /\ d = c + Len(ReadLines(f)) /\ d <= NextId(f)
         /\ NextLine(f, Cursor(f))' = d /\ Starts(f)' \subseteq Starts(f) \cup {d}
         /\ \A b \in Starts(f) : \A i \in b .. c - 1 : <<f, i>> \in Marks(taken) \cup Passed'
<1>0. /\ ShippingTypes /\ f \in Sources /\ UNCHANGED <<opts, file, events>> /\ saved' \in {saved, state'}
      /\ state' = StateAfter /\ tail'[f] = TailAfter(f)
      /\ skipped' = skipped \cup UNION {PassedOver(g) : g \in opts.files}
  BY TickFrame DEF InPlace, Sources
<1>1. PICK new : new = ReadLines(f)
  OBVIOUS
<1>2. /\ new \in Seq(Line) /\ c \in Nat /\ d \in Nat /\ d = c + Len(new) /\ d <= NextId(f)
      /\ \A j \in DOMAIN new : new[j].source = f /\ new[j].id = c + j - 1
      /\ c = file[f].first + ReadFrom(f).pos \div 2
  BY <1>0, <1>1, ReadsFromCursor
<1>3. Returned(ReadLines(f), f, c)
  <2>1. Len(new) \in Nat
    BY <1>2
  <2> QED BY <1>1, <1>2, <2>1 DEF Returned
<1>4. \A t : NextLine(f, t)' = NextLine(f, t)
  BY <1>0, SameSources
<1>5. PICK p : p = [pos |-> ReadTo(f), ino |-> file[f].ino]
  OBVIOUS
<1>6. Cursor(f)' = p
  <2>1. tail'[f].pos = ReadTo(f) /\ tail'[f].ino = file[f].ino
    BY <1>0, CursorReads DEF TailAfter
  <2> QED BY <1>5, <2>1 DEF Cursor
<1>7. NextLine(f, p) = d
  <2>1. ReadTo(f) \in Nat /\ ReadTo(f) <= Size(f) /\ Size(f) \in Nat /\ ReadTo(f) # None
    BY <1>0, ReadBounds, ShippingAssumption
  <2>2. StartOf(p, f) = ReadTo(f)
    BY <1>5, <2>1 DEF StartOf
  <2> QED BY <2>2 DEF NextLine
<1>8. NextLine(f, Cursor(f))' = d
  <2>1. NextLine(f, Cursor(f))' = NextLine(f, p)'
    BY <1>6
  <2> QED BY <1>4, <1>7, <2>1
<1>9. Starts(f)' \subseteq Starts(f) \cup {d}
  <2>1. state'[f] \in {state[f], p}
    BY <1>0, <1>5, CursorReads DEF StateAfter
  <2>2. \A t \in Positions(f)' : t = p \/ t \in Positions(f)
    BY <1>0, <1>6, <2>1 DEF Positions
  <2>3. \A b \in Starts(f)' : \E t \in Positions(f)' : b = NextLine(f, t)'
    BY DEF Starts
  <2> QED BY <1>4, <1>7, <2>2, <2>3 DEF Starts
<1>10. ASSUME NEW b \in Starts(f), NEW i \in b .. c - 1 PROVE <<f, i>> \in Marks(taken) \cup Passed'
  <2>1. b \in Nat /\ file[f].first <= b
    <3>1. PICK t \in Positions(f) : b = NextLine(f, t)
      BY DEF Starts
    <3> QED BY <1>0, <3>1, PlacesOf, NextLineType
  <2>2. PICK n, a, k : n = ReadFrom(f).pos \div 2 /\ a = file[f].first /\ k = i - a + 1
    OBVIOUS
  <2>3. a \in Nat /\ n \in Nat /\ Len(file[f].lines) \in Nat /\ n <= Len(file[f].lines)
        /\ DOMAIN file[f].lines = 1 .. Len(file[f].lines)
    <3>1. ReadFrom(f).pos \in Nat /\ Size(f) \in Nat /\ ReadFrom(f).pos <= Size(f)
      BY <1>0, ReadBounds
    <3>2. /\ Len(file[f].lines) \in Nat /\ Size(f) <= 2 * Len(file[f].lines) /\ file[f].first \in Nat
          /\ DOMAIN file[f].lines = 1 .. Len(file[f].lines)
      BY <1>0, FileShape
    <3>3. ReadFrom(f).pos <= ReadFrom(f).pos /\ ReadFrom(f).pos <= 2 * Len(file[f].lines)
      BY <3>1, <3>2
    <3>4. n \in Nat /\ n <= Len(file[f].lines)
      BY <2>2, <3>1, <3>2, <3>3, HalfOf
    <3> QED BY <2>2, <3>2, <3>4
  <2>4. c = a + n
    BY <1>2, <2>2
  <2>5. k \in 1 .. n /\ a + k - 1 = i
    <3>1. b \in Nat /\ c \in Nat /\ a \in Nat /\ n \in Nat /\ a <= b /\ c = a + n /\ k = i - a + 1
      BY <1>2, <2>1, <2>2, <2>3, <2>4
    <3>2. i \in Nat /\ b <= i /\ i <= c - 1
      BY <3>1
    <3> QED BY <3>1, <3>2
  <2>6. file[f].lines[k] = i
    <3>1. k \in DOMAIN file[f].lines
      BY <2>3, <2>5
    <3>2. file[f].lines[k] = file[f].first + k - 1
      BY <3>1 DEF Numbered
    <3> QED BY <2>2, <2>5, <3>2
  <2>7. <<f, i>> \in {<<f, file[f].lines[m]>> : m \in 1 .. ReadFrom(f).pos \div 2}
    BY <2>2, <2>5, <2>6
  <2>8. <<f, i>> \in PassedOver(f) \/ <<f, i>> \in Marks(taken)
    BY <2>7 DEF PassedOver, Marks
  <2>9. PassedOver(f) \subseteq skipped'
    BY <1>0
  <2> QED BY <2>8, <2>9 DEF Passed
<1> QED BY <1>1, <1>2, <1>3, <1>8, <1>9, <1>10

\* A source that is not.
LEMMA TickBeside ==
  ASSUME InPlace, Tick, NEW s \in Sources, s \notin opts.files
  PROVE  /\ Cursor(s)' = Cursor(s) /\ Positions(s)' \subseteq Positions(s)
         /\ Starts(s)' \subseteq Starts(s) /\ NextLine(s, Cursor(s))' = NextLine(s, Cursor(s))
<1>1. /\ UNCHANGED <<opts, file, events>> /\ saved' \in {saved, state'} /\ state' = StateAfter
      /\ tail' = [f \in Files |-> IF f \in opts.files THEN TailAfter(f) ELSE tail[f]]
  BY TickFrame
<1>2. \A t : NextLine(s, t)' = NextLine(s, t)
  BY <1>1, SameSources
<1>3. state'[s] = state[s] /\ (s \in Files => tail'[s] = tail[s])
  BY <1>1 DEF StateAfter, Sources
<1>4. Cursor(s)' = Cursor(s)
  BY <1>3 DEF Cursor
<1>5. saved'[s] \in {saved[s], state[s]}
  BY <1>1, <1>3
<1>6. Positions(s)' \subseteq Positions(s)
  BY <1>3, <1>4, <1>5 DEF Positions
<1>7. Starts(s)' \subseteq Starts(s)
  BY <1>2, <1>6 DEF Starts
<1> QED BY <1>2, <1>4, <1>6, <1>7

\* What was taken of a source.
LEMMA TickTakes ==
  ASSUME InPlace, Tick, NEW s \in Sources, NEW l \in taken', l.source = s
  PROVE  l \in taken \/ (s \in opts.files /\ l \in Lines(ReadLines(s)))
<1>1. taken' = taken \cup UNION {Lines(ReadLines(f)) : f \in opts.files}
  BY TickFrame
<1>2. ASSUME NEW f \in opts.files, l \in Lines(ReadLines(f)) PROVE f = s
  <2>1. DOMAIN ReadLines(f) = 1 .. ReadTo(f) \div 2 - ReadFrom(f).pos \div 2
    BY DEF ReadLines
  <2>2. PICK j \in DOMAIN ReadLines(f) : l = ReadLines(f)[j]
    BY <1>2 DEF Lines, ToSet
  <2>3. ReadLines(f)[j].source = f
    BY <2>1, <2>2 DEF ReadLines
  <2> QED BY <2>2, <2>3
<1> QED BY <1>1, <1>2

\* The lines of files stay numbered.
LEMMA TickNumbers ==
  ASSUME InPlace, Tick, NEW f \in Files, Numbered(f)
  PROVE  Numbered(f)'
<1>0. /\ ShippingTypes /\ f \in Sources /\ UNCHANGED <<opts, file, received>>
      /\ tail' = [g \in Files |-> IF g \in opts.files THEN TailAfter(g) ELSE tail[g]]
  BY TickFrame DEF InPlace, Sources
<1>1. NextId(f)' = NextId(f) /\ Size(f)' = Size(f) /\ NextId(f) \in Nat
  BY <1>0, FileShape DEF NextId, Size
<1>2. \A k \in DOMAIN file'[f].lines : file'[f].lines[k] = file'[f].first + k - 1
  BY <1>0 DEF Numbered
<1>3. CASE f \in opts.files
  <2>1. PICK new, c, d : new = ReadLines(f) /\ c = NextLine(f, Cursor(f)) /\ d = file[f].first + ReadTo(f) \div 2
    OBVIOUS
  <2>2. Returned(new, f, c) /\ d \in Nat /\ d = c + Len(new) /\ d <= NextId(f)
    BY <1>3, <2>1, TickFile
  <2>3. \A l \in Lines(new) : l.id < NextId(f)
    <3>1. /\ c \in Nat /\ Len(new) \in Nat /\ DOMAIN new = 1 .. Len(new)
          /\ \A j \in DOMAIN new : new[j].id = c + j - 1
      BY <2>2 DEF Returned
    <3>2. \A j \in 1 .. Len(new) : c + j - 1 < NextId(f)
      BY <1>1, <2>2, <3>1
    <3> QED BY <3>1, <3>2 DEF Lines, ToSet
  <2>4. \A l \in taken' : l.source = f => l.id < NextId(f)'
    BY <1>0, <1>1, <2>1, <2>3, TickTakes DEF Numbered
  <2>5. ~(tail'[f].pos = None \/ (tail'[f].ino = file'[f].ino /\ Size(f)' < tail'[f].pos))
    <3>1. ReadTo(f) \in Nat /\ ReadTo(f) <= Size(f) /\ Size(f) \in Nat /\ ReadTo(f) # None
      BY <1>0, ReadBounds, ShippingAssumption
    <3>2. tail'[f].pos = ReadTo(f)
      BY <1>0, <1>3 DEF TailAfter
    <3> QED BY <1>1, <3>1, <3>2
  <2> QED BY <1>0, <1>1, <1>2, <2>4, <2>5 DEF Numbered
<1>4. CASE f \notin opts.files
  <2>1. Cursor(f)' = Cursor(f) /\ Positions(f)' \subseteq Positions(f) /\ tail'[f] = tail[f]
    BY <1>0, <1>4, TickBeside
  <2>2. \A l \in taken' : l.source = f => l \in taken
    BY <1>0, <1>4, TickTakes
  <2>3. Cursor(f)' \in Positions(f)'
    BY DEF Positions
  <2> QED BY <1>0, <1>1, <1>2, <2>1, <2>2, <2>3 DEF Numbered
<1> QED BY <1>3, <1>4

\* tick() reads its files and cuts full queues.
LEMMA TickOrders ==
  ASSUME InPlace, InPlace', OrderParts, Tick
  PROVE  OrderParts'
<1>0. /\ ShippingTypes /\ ShippingTypes' /\ UNCHANGED <<opts, file, events, received, rejected>>
      /\ win.lines = <<>> /\ win'.lines = <<>>
      /\ skipped \subseteq skipped' /\ opts.files \subseteq Files
  BY TickFrame DEF InPlace, ShippingTypes, OptionRecord
<1> DEFINE h == [k \in Queues |-> IF k \in opts.files THEN ReadLines(k) ELSE <<>>]
<1>1. Enqueue(h)
  BY DEF Tick
<1>2. \A k \in Queues : h[k] = IF k \in opts.files THEN ReadLines(k) ELSE <<>>
  OBVIOUS
<1> HIDE DEF h
<1>3. \A k \in Queues : h[k] \in Seq(Line)
  <2>1. <<>> \in Seq(Line)
    OBVIOUS
  <2>2. \A k \in opts.files : ReadLines(k) \in Seq(Line)
    BY <1>0, ReadLinesType
  <2> QED BY <1>2, <2>1, <2>2
<1>4. \A k \in Queues : Waiting(k) = queues[k] /\ queues[k] \in Seq(Line) /\ Waiting(k)' = queues'[k]
  <2>1. \A k \in Queues : queues[k] \in Seq(Line) /\ queues'[k] \in Seq(Line)
    BY <1>0 DEF ShippingTypes
  <2> QED BY <1>0, <2>1, EmptyBehind DEF Waiting
<1>5. /\ \A k \in Queues : /\ queues'[k] = Trim(Waiting(k) \o h[k])
                           /\ Trimmed(Waiting(k) \o h[k]) \subseteq dropped'
      /\ dropped \subseteq dropped'
  BY <1>1, <1>4 DEF Enqueue
<1>6. Passed \subseteq Passed' /\ Marks(dropped') \subseteq Passed'
  BY <1>0, <1>5 DEF Passed, Marks
<1>7. ASSUME NEW k \in Queues
      PROVE  /\ Excess(Waiting(k) \o h[k]) \in 0 .. Len(Waiting(k) \o h[k])
             /\ FrontPassed(Waiting(k) \o h[k], Excess(Waiting(k) \o h[k]), Passed')
             /\ Waiting(k)' = SubSeq(Waiting(k) \o h[k], Excess(Waiting(k) \o h[k]) + 1, Len(Waiting(k) \o h[k]))
  <2>1. PICK A : A = Waiting(k) \o h[k]
    OBVIOUS
  <2>2. A \in Seq(Line)
    BY <1>3, <1>4, <2>1, LinesOfConcat
  <2>3. Trimmed(A) \subseteq dropped' /\ Waiting(k)' = Trim(A)
    BY <1>4, <1>5, <2>1
  <2>4. Excess(A) \in 0 .. Len(A) /\ FrontPassed(A, Excess(A), Passed')
    BY <1>6, <2>2, <2>3, TrimFront
  <2>5. Waiting(k)' = SubSeq(A, Excess(A) + 1, Len(A))
    BY <2>3 DEF Trim
  <2> QED BY <2>1, <2>4, <2>5, Zenon
<1>8. ASSUME NEW f \in Files, f \in opts.files PROVE SourceOrdered(f)' /\ Ascending(Waiting(f) \o h[f])
  <2>0. f \in Sources /\ f \in Queues /\ QueueOf(f) = f
    BY DEF Sources, Queues, QueueOf
  <2>1. PICK W, new, c, d : W = Waiting(QueueOf(f)) /\ new = ReadLines(f) /\ c = NextLine(f, Cursor(f)) /\ d = file[f].first + ReadTo(f) \div 2
    OBVIOUS
  <2>2. PICK n : n = Excess(W \o new)
    OBVIOUS
  <2>3. Numbered(f)
    BY DEF OrderParts
  <2>4. Returned(new, f, c) /\ d \in Nat /\ d = c + Len(new)
    BY <1>8, <2>1, <2>3, TickFile
  <2>5. NextLine(f, Cursor(f))' = d /\ Starts(f)' \subseteq Starts(f) \cup {d}
    BY <1>8, <2>1, <2>3, TickFile
  <2>6. \A b \in Starts(f) : \A i \in b .. c - 1 : <<f, i>> \in Marks(taken) \cup Passed'
    BY <1>8, <2>1, <2>3, TickFile
  <2>7. new \in Seq(Line) /\ \A j \in DOMAIN new : new[j].source = f /\ new[j].id = c + j - 1
    BY <2>4 DEF Returned
  <2>8. \A i \in Nat : <<f, i>> \in Marks(taken)' => <<f, i>> \in Marks(taken) \/ i \in c .. d - 1
    <3>1. ASSUME NEW i \in Nat, <<f, i>> \in Marks(taken)', <<f, i>> \notin Marks(taken) PROVE i \in c .. d - 1
      <4>1. PICK l \in taken' : l.source = f /\ l.id = i
        BY <3>1 DEF Marks
      <4>2. l \notin taken
        BY <3>1, <4>1 DEF Marks
      <4>3. l \in Lines(new)
        BY <2>0, <2>1, <4>1, <4>2, TickTakes
      <4>4. PICK j \in DOMAIN new : i = c + j - 1
        BY <2>7, <4>1, <4>3 DEF Lines, ToSet
      <4>5. c \in Nat /\ Len(new) \in Nat /\ j \in 1 .. Len(new)
        BY <2>4 DEF Returned
      <4> QED BY <2>4, <4>4, <4>5
    <3> QED BY <3>1
  <2>9. h[f] = new /\ W = Waiting(f)
    BY <1>2, <1>8, <2>0, <2>1
  <2>10. /\ n \in 0 .. Len(W \o new) /\ FrontPassed(W \o new, n, Passed')
         /\ Waiting(QueueOf(f))' = SubSeq(W \o new, n + 1, Len(W \o new))
    BY <1>7, <2>0, <2>2, <2>9, Zenon
  <2>11. SourceOrdered(f)' /\ Ascending(W \o new)
    BY <1>0, <1>6, <2>0, <2>1, <2>4, <2>5, <2>6, <2>7, <2>8, <2>10, SourceRead
  <2> QED BY <2>9, <2>11, Zenon
<1>9. ASSUME NEW k \in Queues PROVE Ascending(Waiting(k) \o h[k]) /\ \A j \in DOMAIN h[k] : h[k][j].source = k /\ k \in Files
  <2>1. CASE k \in opts.files
    <3>1. k \in Files /\ h[k] = ReadLines(k)
      BY <1>0, <1>2, <2>1
    <3>2. Ascending(Waiting(k) \o h[k])
      BY <1>8, <2>1, <3>1
    <3>3. DOMAIN ReadLines(k) = 1 .. ReadTo(k) \div 2 - ReadFrom(k).pos \div 2
      BY DEF ReadLines
    <3>4. \A j \in DOMAIN ReadLines(k) : ReadLines(k)[j].source = k
      BY <3>3 DEF ReadLines
    <3> QED BY <3>1, <3>2, <3>4
  <2>2. CASE k \notin opts.files
    <3>1. h[k] = <<>>
      BY <1>2, <2>2
    <3>2. Waiting(k) \o h[k] = Waiting(k) /\ DOMAIN h[k] = {}
      BY <1>4, <3>1, EmptyBehind
    <3>3. Ascending(Waiting(k))
      BY DEF OrderParts, QueueSorted
    <3> QED BY <3>2, <3>3, Zenon
  <2> QED BY <2>1, <2>2
<1>10. ASSUME NEW s \in Sources, s \notin opts.files PROVE SourceOrdered(s)'
  <2>0. QueueOf(s) \in Queues /\ (s \in Files => QueueOf(s) = s)
    BY <1>0, PlacesOf DEF QueueOf
  <2>1. PICK k, W, new : k = QueueOf(s) /\ W = Waiting(k) /\ new = h[k]
    OBVIOUS
  <2>2. PICK n : n = Excess(W \o new)
    OBVIOUS
  <2>3. /\ n \in 0 .. Len(W \o new) /\ FrontPassed(W \o new, n, Passed')
        /\ Waiting(QueueOf(s))' = SubSeq(W \o new, n + 1, Len(W \o new))
    BY <1>7, <2>0, <2>1, <2>2, Zenon
  <2>4. Ascending(W \o new)
    BY <1>9, <2>0, <2>1
  <2>5. \A j \in DOMAIN new : new[j].source # s
    <3>1. k \in Queues /\ (s \in Files => k = s)
      BY <2>0, <2>1
    <3>2. DOMAIN new # {} => k \in opts.files
      <4>1. CASE k \notin opts.files
        <5>1. new = <<>>
          BY <1>2, <2>1, <3>1, <4>1
        <5> QED BY <5>1
      <4> QED BY <4>1
    <3>3. \A j \in DOMAIN new : new[j].source = k /\ k \in Files
      BY <1>9, <2>1, <3>1
    <3> QED BY <1>10, <3>2, <3>3
  <2>6. \A i \in Nat : <<s, i>> \in Marks(taken)' => <<s, i>> \in Marks(taken)
    <3>1. \A l \in taken' : l.source = s => l \in taken
      BY <1>10, TickTakes
    <3> QED BY <3>1 DEF Marks
  <2>7. new \in Seq(Line) /\ W = Waiting(QueueOf(s))
    BY <1>3, <2>0, <2>1
  <2>8. Starts(s)' \subseteq Starts(s) /\ NextLine(s, Cursor(s))' = NextLine(s, Cursor(s))
    BY <1>10, TickBeside
  <2> QED BY <1>0, <1>6, <2>3, <2>4, <2>5, <2>6, <2>7, <2>8, SourceBeside
<1>11. ASSUME NEW s \in Sources PROVE SourceOrdered(s)'
  BY <1>0, <1>8, <1>10
<1>12. ASSUME NEW k \in Queues PROVE QueueSorted(k)'
  <2>1. PICK W, new : W = Waiting(k) /\ new = h[k]
    OBVIOUS
  <2>2. PICK n : n = Excess(W \o new)
    OBVIOUS
  <2>3. /\ n \in 0 .. Len(W \o new)
        /\ Waiting(k)' = SubSeq(W \o new, n + 1, Len(W \o new))
    BY <1>7, <2>1, <2>2, Zenon
  <2>4. Ascending(W \o new) /\ \A j \in DOMAIN new : QueueOf(new[j].source) = k
    BY <1>9, <2>1 DEF QueueOf
  <2>5. QueueSorted(k) /\ W \in Seq(Line) /\ new \in Seq(Line)
    BY <1>3, <1>4, <2>1 DEF OrderParts
  <2> QED BY <2>1, <2>3, <2>4, <2>5, QueueRead
<1>13. ASSUME NEW f \in Files PROVE Numbered(f)'
  BY TickNumbers DEF OrderParts
<1> QED BY <1>11, <1>12, <1>13 DEF OrderParts

-----------------------------------------------------------------------------
(* The order of lines, in every reachable state. *)

\* That stop() met a tick at work is remembered.
LEMMA OverlapStays ==
  ASSUME ShippingNext, overlap
  PROVE  overlap'
<1>1. CASE \E f \in Files : WriteText(f) \/ WriteNewline(f) \/ \E newInode \in BOOLEAN : Rotate(f, newInode)
  BY <1>1, SourceSteps DEF SourceFrame, history
<1>2. CASE \E c \in Channels : LogEvent(c) \/ WinRead(c)
  BY <1>2 DEF LogEvent, WinRead, SourceFrame, history
<1>3. CASE \E f \in Flushers : Answered(f)
  BY <1>3 DEF Answered, PostAccepted, PostRejected, PostRefused, PostFailed, FlushFrame
<1>4. CASE Tick \/ WinDone \/ InventoryRefused \/ Crash \/ Start
  BY <1>4 DEF Tick, WinDone, InventoryRefused, Crash, Start
<1>5. CASE Stop
  BY <1>5 DEF Stop
<1> QED BY <1>1, <1>2, <1>3, <1>4, <1>5 DEF ShippingNext

OrderKeeps == ~overlap => OrderParts

\* Every step of the shipper keeps the order.
LEMMA OrderKept ==
  ASSUME InPlace, InPlace', OrderKeeps, ShippingNext
  PROVE  OrderKeeps'
<1> SUFFICES ASSUME ~overlap' PROVE OrderParts'
  BY DEF OrderKeeps
<1>1. ~overlap /\ OrderParts /\ ShippingTypes /\ ShippingTypes'
  BY OverlapStays DEF OrderKeeps, InPlace
<1>2. CASE \E f \in Files : WriteText(f) \/ WriteNewline(f) \/ \E newInode \in BOOLEAN : Rotate(f, newInode)
  BY <1>1, <1>2, FileStepOrders
<1>3. CASE \E d \in Channels : LogEvent(d) \/ WinRead(d)
  BY <1>1, <1>3, EventStepOrders, WinReadOrders
<1>4. CASE \E f \in Flushers : Answered(f)
  BY <1>1, <1>4, PostOrders
<1>5. CASE Tick \/ WinDone
  BY <1>1, <1>5, TickOrders, WinDoneOrders
<1>6. CASE Stop \/ InventoryRefused \/ Crash
  BY <1>1, <1>6, RestOrders
<1>7. CASE Start
  BY <1>1, <1>7, StartOrders
<1> QED BY <1>2, <1>3, <1>4, <1>5, <1>6, <1>7 DEF ShippingNext

\* It holds at the start.
LEMMA InitOrder ==
  ASSUME Init
  PROVE  OrderParts
<1>1. /\ ShippingTypes /\ taken = {} /\ received = {}
      /\ file = [f \in Files |-> [ino |-> 0, first |-> 1, lines |-> <<>>, half |-> FALSE]]
      /\ tail = Tails(NoState) /\ state = NoState /\ saved = NoState
      /\ queues = NoQueues /\ win = NoWin
  BY InitShippingInv DEF Init, ShippingInit, ShippingInv
<1>2. \A k \in Queues : Waiting(k) = <<>>
  <2>1. <<>> \in Seq(Line)
    OBVIOUS
  <2> QED BY <1>1, <2>1, EmptyBehind DEF Waiting, NoQueues, NoWin
<1>3. \A k \in Queues : QueueSorted(k)
  BY <1>2 DEF QueueSorted, Ascending
<1>4. ASSUME NEW s \in Sources PROVE Positions(s) = {Cursor(s)}
  <2>1. state[s] = [pos |-> None, ino |-> None] /\ saved[s] = [pos |-> None, ino |-> None]
    BY <1>1 DEF NoState, Sources
  <2>2. s \in Files => tail[s].pos = None /\ tail[s].ino = None
    BY <1>1 DEF Tails, NewTail, NoState
  <2>3. Cursor(s) = [pos |-> None, ino |-> None]
    BY <2>1, <2>2 DEF Cursor
  <2> QED BY <2>1, <2>3 DEF Positions
<1>5. ASSUME NEW s \in Sources PROVE SourceOrdered(s)
  <2>1. PICK c : c = NextLine(s, Cursor(s))
    OBVIOUS
  <2>2. Starts(s) = {c} /\ c \in Nat /\ Waiting(QueueOf(s)) = <<>>
    BY <1>1, <1>2, <1>4, <2>1, StartsOf, PlacesOf DEF Starts
  <2>3. c .. c - 1 = {}
    BY <2>2
  <2>4. PICK P, T : P = Passed /\ T = Marks(taken)
    OBVIOUS
  <2>5. Ordered(<<>>, P, {}, T, s, {c}, c)
    BY <2>3 DEF Ordered, Ascending, Waits, Resumes
  <2> QED BY <1>1, <2>1, <2>2, <2>4, <2>5 DEF SourceOrdered
<1>6. \A f \in Files : Numbered(f)
  BY <1>1, <1>4 DEF Numbered, Sources
<1> QED BY <1>3, <1>5, <1>6 DEF OrderParts

\* A step of the enforcer changes no line.
LEMMA OrderSame ==
  ASSUME UNCHANGED shipVars, ShippingTypes, OrderKeeps
  PROVE  OrderKeeps'
<1>1. UNCHANGED <<opts, file, events, tail, state, saved, queues, win, taken, received, dropped, rejected, skipped, overlap>>
  BY DEF shipVars, source, reading, totals, history
<1> SUFFICES ASSUME ~overlap' PROVE OrderParts'
  BY DEF OrderKeeps
<1> QED BY <1>1, SavedOrders DEF OrderKeeps

\* The lines of every source wait and arrive in order.
THEOREM OrderInvariant == Spec => []OrderInv
<1>1. Init => OrderKeeps
  BY InitOrder DEF OrderKeeps
<1>2. ShippingInv /\ ShippingInv' /\ OrderKeeps /\ [Next]_vars => OrderKeeps'
  <2>1. ShippingInv => InPlace /\ ShippingTypes
    BY DEF ShippingInv, InPlace, Fronts
  <2>2. ShippingInv' => InPlace'
    BY DEF ShippingInv, InPlace, Fronts
  <2>3. [Next]_vars => ShippingNext \/ UNCHANGED shipVars
    BY DEF Next, vars
  <2> QED BY <2>1, <2>2, <2>3, OrderKept, OrderSame
<1>3. ShippingInv /\ OrderKeeps => OrderInv
  BY OrderInvParts DEF ShippingInv, OrderKeeps
<1> QED BY <1>1, <1>2, <1>3, ShippingInvariant, PTL DEF Spec

\* What a post adds to what arrived is the front of its queue.
LEMMA ArrivesInOrder ==
  ASSUME InPlace, OrderInv, ShippingNext, ~overlap',
         NEW new \in received' \ received, NEW old \in received, new.source = old.source,
         ~Settled(new), <<new.source, new.id>> \notin skipped
  PROVE  old.id < new.id
<1>0. ~overlap /\ ShippingTypes /\ OrderParts
  BY OverlapStays, OrderInvParts DEF InPlace
<1>1. PICK f \in Flushers : Answered(f)
  <2>1. CASE \E f \in Files : WriteText(f) \/ WriteNewline(f) \/ \E newInode \in BOOLEAN : Rotate(f, newInode)
    BY <2>1, SourceSteps DEF SourceFrame
  <2>2. CASE \E c \in Channels : LogEvent(c) \/ WinRead(c)
    BY <2>2 DEF LogEvent, WinRead, SourceFrame
  <2>3. CASE Tick \/ WinDone \/ Stop \/ InventoryRefused \/ Crash \/ Start
    BY <2>3 DEF Tick, WinDone, Stop, InventoryRefused, Crash, Start
  <2> QED BY <2>1, <2>2, <2>3 DEF ShippingNext
<1>2. PICK x : x = flusher[f]
  OBVIOUS
<1>3. x.pc = "post" /\ received' \subseteq received \cup Lines(x.batch)
  BY <1>1, <1>2 DEF Answered, PostAccepted, PostRejected, PostRefused, PostFailed, Posting
<1>4. /\ x.key \in Queues /\ x.batch = Batch(queues[x.key])
      /\ Waiting(x.key) = queues[x.key] /\ queues[x.key] \in Seq(Line)
  BY <1>0, <1>2, <1>3, PostsAlone DEF AtFront
<1>5. PICK q \in Seq(Line) : q = Waiting(x.key)
  BY <1>4
<1>6. PICK n \in DOMAIN q : new = q[n]
  <2>1. PICK b : b = Batch(q)
    OBVIOUS
  <2>2. Len(b) \in 0 .. Len(q) /\ Lines(b) = {q[m] : m \in 1 .. Len(b)}
    BY <2>1, BatchFront
  <2>3. new \in Lines(b)
    BY <1>3, <1>4, <1>5, <2>1
  <2>4. PICK m \in 1 .. Len(b) : new = q[m]
    BY <2>2, <2>3
  <2>5. m \in DOMAIN q
    BY <2>2
  <2> QED BY <2>4, <2>5
<1>7. PICK s : s = new.source
  OBVIOUS
<1>8. s \in Sources /\ new \in Line /\ old \in Line
  <2>1. \A m \in DOMAIN q : q[m] \in Line
    OBVIOUS
  <2>2. new \in Line
    BY <1>6, <2>1
  <2>3. old \in Line
    BY <1>0 DEF ShippingTypes
  <2>4. new.source \in Files \cup Channels
    BY <2>2 DEF Line
  <2> QED BY <1>7, <2>2, <2>3, <2>4 DEF Sources
<1>9. x.key = QueueOf(s)
  BY <1>0, <1>4, <1>5, <1>6, <1>7 DEF OrderParts, QueueSorted
<1>10. Waits(q, Passed, received, s, NextLine(s, Cursor(s)))
  BY <1>0, <1>5, <1>8, <1>9 DEF OrderParts, SourceOrdered, Ordered
<1>11. new.id <= old.id => <<s, new.id>> \in Passed
  BY <1>6, <1>7, <1>10 DEF Waits
<1>12. <<s, new.id>> \notin Passed
  BY <1>7 DEF Passed, Marks, Settled
<1>13. new.id \in Nat /\ old.id \in Nat
  BY <1>8 DEF Line
<1> QED BY <1>11, <1>12, <1>13

\* What reaches the console is what was written, and in the order it was written.
THEOREM LinesArriveAsWritten == Spec => DeliveredAsWritten
<1> DEFINE A == /\ opts.fromStart /\ ~restarted' /\ faults' = 0 => \A l \in taken' : l.whole
                /\ overlap' \/ \A new \in received' \ received, old \in received :
                     new.source = old.source /\ ~Settled(new) /\ <<new.source, new.id>> \notin skipped => old.id < new.id
<1>1. ShippingInv /\ ShippingInv' /\ OrderInv /\ [Next]_vars => [A]_vars
  <2> SUFFICES ASSUME ShippingInv, ShippingInv', OrderInv, Next PROVE A
    OBVIOUS
  <2>1. InPlace
    BY DEF ShippingInv, InPlace, Fronts
  <2>2. opts' = opts
    BY DEF Next, ShippingNext, shipVars, Answered, PostAccepted, PostRejected, PostRefused, PostFailed, FlushFrame,
       WriteText, WriteNewline, Rotate, LogEvent, SourceFrame, WinRead, Tick, WinDone, Stop, InventoryRefused, Crash, Start
  <2>3. opts.fromStart /\ ~restarted' /\ faults' = 0 => \A l \in taken' : l.whole
    BY <2>2 DEF ShippingInv, WholeSoFar
  <2>4. ShippingNext \/ received' = received
    BY DEF Next, shipVars
  <2>5. ASSUME ~overlap', NEW new \in received' \ received, NEW old \in received, new.source = old.source,
               ~Settled(new), <<new.source, new.id>> \notin skipped
        PROVE  old.id < new.id
    BY <2>1, <2>4, <2>5, ArrivesInOrder
  <2> QED BY <2>3, <2>5
<1> QED BY <1>1, ShippingInvariant, OrderInvariant, PTL DEF Spec, DeliveredAsWritten

=============================================================================
