-------------------------------- MODULE Agent --------------------------------
(***************************************************************************)
(* The sensor agent as a whole: main() with its options, the shipper and   *)
(* the enforcer, and what the two promise.  The two halves share the       *)
(* process and nothing else; a command line here selects one of them.      *)
(***************************************************************************)
EXTENDS AgentShipping, AgentFirewall

CONSTANT Options  \* the command lines considered

OptionRecord == [files : SUBSET Files, enforceOnly : BOOLEAN, once : BOOLEAN, fromStart : BOOLEAN,
                 winEvents : BOOLEAN, inventory : BOOLEAN]

ASSUME OptionAssumption == Options \subseteq OptionRecord

vars == <<shipVars, fwVars>>

Init == opts \in Options /\ ShippingInit /\ FirewallInit

Next ==
  \/ ~opts.enforceOnly /\ ShippingNext /\ UNCHANGED fwVars
  \/ opts.enforceOnly /\ FirewallNext /\ UNCHANGED shipVars

Spec == Init /\ [][Next]_vars

(***************************************************************************)
(* Timers fire, commands end, and every post is answered or times out.     *)
(***************************************************************************)
Ship(A) == ~opts.enforceOnly /\ A /\ UNCHANGED fwVars
Enforce(A) == opts.enforceOnly /\ A /\ UNCHANGED shipVars

Fairness ==
  /\ WF_vars(Ship(Tick)) /\ WF_vars(Ship(WinDone))
  /\ \A c \in Channels : WF_vars(Ship(WinRead(c)))
  /\ \A f \in Flushers : WF_vars(Ship(Answered(f)))
  /\ \A p \in Passes : /\ WF_vars(Enforce(StartPass(p))) /\ WF_vars(Enforce(Pull(p)))
                       /\ WF_vars(Enforce(Protect(p, TRUE))) /\ WF_vars(Enforce(Run(p)))

FairSpec == Spec /\ Fairness

-----------------------------------------------------------------------------
(***************************************************************************)
(* "Stopping; sending what is queued" (stop, line 591) and the single pass *)
(* of --once: when the process ends and the console has accepted every     *)
(* post, nothing was interrupted and no tick was under way, no line read   *)
(* is missing at the console but those cut by a full queue.                *)
(***************************************************************************)
CleanExitLosesNothing ==
  ~up /\ faults = 0 /\ ~refused /\ ~overlap => taken \subseteq received \cup dropped

Settled(l) == \E x \in received \cup rejected \cup dropped : x.source = l.source /\ x.id = l.id

\* What reaches the console is what was written.  Tail.read puts a line together again that two reads
\* cut in two: a torn line reaches the queue only after a start in the middle of it, or a truncation the
\* tail could not see.  And one flush at a time sends the lines of a source in the order they were
\* written (enqueue, flush), also across restarts; a line that was sent, refused or dropped before and
\* is read again is no new one, and one that a read had passed over may come late, when a restart
\* reads it after all.
DeliveredAsWritten ==
  [][/\ opts.fromStart /\ ~restarted' /\ faults' = 0 => \A l \in taken' : l.whole
     /\ overlap' \/ \A new \in received' \ received, old \in received :
                       new.source = old.source /\ ~Settled(new) /\ <<new.source, new.id>> \notin skipped => old.id < new.id]_vars

\* stop() ends the process, however the console answers: flush gives up after `Attempts` tries.
StopEnds == (stopping /\ up) ~> ~up

\* The shipper implements the abstract one until stop() meets a tick at work: from then on two flushes
\* cut the same batch off a queue.
Delivery == INSTANCE LineDelivery WITH
  custody <- Held, delivered <- received, forfeited <- dropped \cup rejected \cup lost

DeliverySpec == Delivery!Init /\ [][overlap' \/ Delivery!Next]_<<Held, received, dropped, rejected, lost>>

-----------------------------------------------------------------------------
(***************************************************************************)
(* The invariant of the shipper that its theorems rest on.                 *)
(***************************************************************************)
Position == Nat \cup {None}

ShippingTypes ==
  /\ opts \in OptionRecord
  /\ file \in [Files -> [ino : Nat, first : Nat, lines : Seq(Nat), half : BOOLEAN]]
  /\ \A f \in Files : file[f].half => file[f].lines # <<>>
  /\ events \in [Channels -> Nat]
  /\ tail \in [Files -> [pos : Position, ino : Position, partial : Position \cup {Garbled}]]
  /\ state \in [Files \cup Channels -> [pos : Position, ino : Position]]
  /\ saved \in [Files \cup Channels -> [pos : Position, ino : Position]]
  /\ queues \in [Queues -> Seq(Line)]
  /\ flusher \in [Flushers -> [pc : {"idle", "post"}, key : Queues \cup {None}, todo : SUBSET Queues,
                              batch : Seq(Line), attempt : Nat]]
  /\ ticking \in {"idle", "win", "flush"}
  /\ win \in [todo : SUBSET Channels, lines : Seq(Line)]
  /\ up \in BOOLEAN /\ stopping \in BOOLEAN /\ fatal \in BOOLEAN /\ overlap \in BOOLEAN
  /\ refused \in BOOLEAN /\ restarted \in BOOLEAN /\ faults \in Nat
  /\ taken \subseteq Line /\ received \subseteq Line

\* Who may be at work: tick() while it flushes, stop() once it was called.
Callers ==
  /\ \A f \in Flushers : flusher[f].pc = "idle" => flusher[f] = Idle
  /\ flusher["tick"] # Idle => ticking = "flush"
  /\ flusher["stop"] # Idle => stopping
  /\ stopping /\ ~overlap => ticking = "idle"
  /\ ticking # "win" => win = NoWin

\* A flush that posts the front of a queue; of the queues `seen` those it is done with are empty.
AtFront(x, q, seen) ==
  /\ x.key \in Queues /\ x.key \notin x.todo
  /\ x.batch = Batch(q[x.key])
  /\ \A k \in seen : k \in x.todo \/ k = x.key \/ q[k] = <<>>

\* A lone flush posts the front of a queue, and has been at every queue.
PostsTheFront(f) == flusher[f].pc = "post" => AtFront(flusher[f], queues, Queues)

\* While all goes well every line read is in memory, at the console or cut by a full queue.
Accounted ==
  /\ fatal => refused
  /\ ~refused => rejected = {}
  /\ faults = 0 /\ ~refused /\ ~overlap => taken \subseteq received \cup dropped \cup Held

\* The text kept of an unfinished line is that line's, as long as the file only grows.
KeepsTheText(f) ==
  LET t == tail[f] IN
  IF t.pos = None THEN t.partial = None
  ELSE /\ t.ino = file[f].ino /\ t.pos <= Size(f)
       /\ t.partial = IF t.pos % 2 = 0 THEN None ELSE file[f].lines[(t.pos + 1) \div 2]

WholeSoFar ==
  opts.fromStart /\ ~restarted /\ faults = 0 =>
    (\A l \in taken : l.whole) /\ \A f \in Files : KeepsTheText(f)

ShippingInv ==
  /\ ShippingTypes /\ Callers /\ Accounted /\ WholeSoFar
  /\ ~overlap => \A f \in Flushers : PostsTheFront(f)

(***************************************************************************)
(* The order of lines.  A line at the console is never ahead of one of its *)
(* source that waits, or that a read may still return, but for those that  *)
(* are settled or were passed over.                                        *)
(***************************************************************************)
Marks(lines) == {<<l.source, l.id>> : l \in lines}
Passed == skipped \cup Marks(received \cup rejected \cup dropped)

Sources == Files \cup Channels
QueueOf(s) == IF s \in Files THEN s ELSE WinEvents
Waiting(k) == IF k = WinEvents THEN queues[k] \o win.lines ELSE queues[k]

\* The positions a read may start from: the one in memory, and those a restart goes back to.
Cursor(s) == IF s \in Files THEN [pos |-> tail[s].pos, ino |-> tail[s].ino] ELSE state[s]
Positions(s) == {Cursor(s), state[s], saved[s]}

\* The first line of s that a read from t can return.
StartOf(t, f) ==
  IF t.pos = None THEN IF opts.fromStart THEN 0 ELSE Size(f)
  ELSE IF t.ino # file[f].ino \/ Size(f) < t.pos THEN 0 ELSE t.pos
After(t, c) ==
  LET after == IF t.pos = None THEN 0 ELSE t.pos
  IN IF events[c] - after > MaxEvents THEN events[c] - MaxEvents ELSE after
NextLine(s, t) == IF s \in Files THEN file[s].first + StartOf(t, s) \div 2 ELSE After(t, s) + 1

\* W waits, P has passed, R is at the console, T was taken; of s, a read from a position continues at b,
\* and the next one of this process at c.
Ascending(W) == \A m, n \in DOMAIN W : m < n /\ W[m].source = W[n].source => W[m].id < W[n].id
InQueue(W, s, i, n) == \E m \in 1 .. n : W[m].source = s /\ W[m].id = i
Waits(W, P, R, s, c) ==
  \A n \in DOMAIN W : W[n].source = s =>
    /\ W[n].id < c
    /\ \A r \in R : r.source = s /\ W[n].id <= r.id => <<s, W[n].id>> \in P
Resumes(W, P, R, T, s, b, c) ==
  /\ \A r \in R : r.source = s => \A i \in b .. r.id : <<s, i>> \in P
  /\ \A n \in DOMAIN W : W[n].source = s =>
       \A i \in b .. W[n].id - 1 : <<s, i>> \in P \/ InQueue(W, s, i, n - 1)
  /\ \A i \in b .. c - 1 : (s \in Files => <<s, i>> \in T) => <<s, i>> \in P \/ InQueue(W, s, i, Len(W))

InOrder(s) ==
  LET W == Waiting(QueueOf(s))
      c == NextLine(s, Cursor(s))
  IN /\ Waits(W, Passed, received, s, c)
     /\ \A t \in Positions(s) : Resumes(W, Passed, received, Marks(taken), s, NextLine(s, t), c)

\* A tail that has yet to notice that its file was truncated is where the process began, or has read
\* nothing of what the file holds now.
Numbered(f) ==
  /\ \A k \in DOMAIN file[f].lines : file[f].lines[k] = file[f].first + k - 1
  /\ \A l \in taken \cup received : l.source = f => l.id < NextId(f)
  /\ tail[f].pos = None \/ (tail[f].ino = file[f].ino /\ Size(f) < tail[f].pos) =>
       Positions(f) = {Cursor(f)} \/ \A l \in taken : l.source = f => l.id < file[f].first

OrderInv ==
  ~overlap =>
    /\ \A k \in Queues : Ascending(Waiting(k)) /\ \A n \in DOMAIN Waiting(k) : QueueOf(Waiting(k)[n].source) = k
    /\ \A s \in Sources : InOrder(s)
    /\ \A f \in Files : Numbered(f)

Mirrored == chain = Both(feed \ Kept(TRUE))

\* "mirrors it into the host firewall, so a rule published in the console is actually dropped on this
\* machine" (lines 363-364): so it is in the end, unless the key is refused, passes cross or a
\* command fails.
FeedIsMirrored == <>[](opts.enforceOnly => Mirrored \/ enforceFatal \/ crossed \/ broken)
=============================================================================
