---------------------------- MODULE AgentShipping ----------------------------
(***************************************************************************)
(* The log shipper of the sensor agent (public/agent/aegis-agent.js): it   *)
(* polls files and Windows event channels, queues their lines in memory    *)
(* and posts them in batches, with retries, to the console.  Read          *)
(* positions survive a restart; the queues do not.                         *)
(*                                                                         *)
(* A line is two units of a file, its text and its newline, so that a read *)
(* can end in the middle of one.                                           *)
(***************************************************************************)
EXTENDS Integers, Sequences, FiniteSets, SequencesExt

CONSTANTS
  Files,        \* the files tailed (--eve, --access, --auth, --syslog)
  Channels,     \* the event channels read with --win-events
  BATCH_LINES,  \* most lines of one post
  MAX_QUEUE,    \* most lines of one queue
  MAX_READ,     \* most units of one read
  MaxEvents,    \* most events of a channel one read returns, the newest
  Attempts,     \* how often a post is tried
  MaxLines,     \* bound: lines a source writes
  MaxFaults,    \* bound: crashes, rotations and truncations
  None, Garbled

ASSUME ShippingAssumption ==
  /\ BATCH_LINES \in Nat \ {0} /\ MAX_QUEUE \in Nat \ {0} /\ MAX_READ \in Nat \ {0}
  /\ MaxEvents \in Nat \ {0} /\ Attempts \in Nat \ {0}
  /\ None \notin Nat /\ Garbled \notin Nat \cup {None}
  /\ Files \cap Channels = {}

VARIABLES
  opts,       \* the options main() was started with
  up,         \* the agent process runs
  file,       \* [Files -> [ino, lines, half]]: what the host wrote; the last line may be half written
  events,     \* [Channels -> number of events written]
  tail,       \* [Files -> Tail]: position, inode and the line cut off at the last read
  state,      \* read positions in memory
  saved,      \* the state file
  queues,     \* [Queue -> lines waiting to be sent]
  flusher,    \* the two callers of flush(): the timer's tick and stop()
  ticking,    \* where tick() is: "idle", "win" (awaiting an event channel), "flush"
  win,        \* the locals of readWinEvents: channels to go, lines read
  stopping, fatal,
  received,   \* lines the console has taken
  dropped,    \* lines cut by a full queue (totals.dropped)
  rejected,   \* lines of batches the console refused (totals.rejected)
  taken,      \* history: every line read into memory
  skipped,    \* history: lines no read has taken when one passed over them
  lost,       \* history: lines that were in memory only when the process ended
  overlap,    \* history: stop() was called while tick() was flushing or reading events
  refused,    \* history: some post was not accepted
  restarted,  \* history: the process was started again
  faults      \* crashes, rotations and truncations so far

source  == <<file, events>>
reading == <<tail, state>>
totals  == <<dropped, rejected>>
history == <<taken, skipped, lost, overlap, refused, restarted>>
shipVars == <<opts, up, source, reading, saved, queues, flusher, ticking, win, stopping,
              fatal, received, totals, history, faults>>

WinEvents == "win-events"
Queues == Files \cup {WinEvents}
Line == [source : Files \cup Channels, id : Nat, whole : BOOLEAN]
Lines(q) == ToSet(q)

-----------------------------------------------------------------------------
(* What the process remembers when it starts: the state file. *)

NoState == [f \in Files \cup Channels |-> [pos |-> None, ino |-> None]]
NewTail(s, f) == [pos |-> s[f].pos, ino |-> s[f].ino, partial |-> None]
Tails(s) == [f \in Files |-> NewTail(s, f)]
Idle == [pc |-> "idle", key |-> None, todo |-> {}, batch |-> <<>>, attempt |-> 0]
NoWin == [todo |-> {}, lines |-> <<>>]
Flushers == {"tick", "stop"}
NoQueues == [k \in Queues |-> <<>>]
Idlers == [f \in Flushers |-> Idle]

-----------------------------------------------------------------------------
(* The sources. *)

SourceFrame == UNCHANGED <<opts, up, reading, saved, queues, flusher, ticking, win, stopping, fatal,
                           received, totals, history>>

Size(f) == 2 * Len(file[f].lines) - IF file[f].half THEN 1 ELSE 0
NextId(f) == file[f].first + Len(file[f].lines)

\* The bounds: every fault takes the place of a line.
Room == MaxLines - faults
MayFail ==
  /\ faults < MaxFaults
  /\ \A f \in Files : NextId(f) <= Room
  /\ \A c \in Channels : events[c] < Room


\* The host starts or finishes a line; sources nobody reads are left out.
WriteText(f) ==
  /\ f \in opts.files /\ ~file[f].half /\ NextId(f) <= Room
  /\ file' = [file EXCEPT ![f].lines = Append(@, NextId(f)), ![f].half = TRUE]
  /\ UNCHANGED <<events, faults>> /\ SourceFrame

WriteNewline(f) ==
  /\ file[f].half
  /\ file' = [file EXCEPT ![f].half = FALSE]
  /\ UNCHANGED <<events, faults>> /\ SourceFrame

LogEvent(c) ==
  /\ opts.winEvents /\ events[c] < Room
  /\ events' = [events EXCEPT ![c] = @ + 1]
  /\ UNCHANGED <<file, faults>> /\ SourceFrame

\* logrotate with create (a new inode) or with copytruncate (the same one).
Rotate(f, newInode) ==
  /\ MayFail /\ file[f].lines # <<>> /\ ~file[f].half
  /\ file' = [file EXCEPT ![f] = [ino |-> IF newInode THEN @.ino + 1 ELSE @.ino,
                                  first |-> NextId(f), lines |-> <<>>, half |-> FALSE]]
  /\ faults' = faults + 1
  /\ UNCHANGED events /\ SourceFrame

-----------------------------------------------------------------------------
(* Tail.read *)

\* Where the read starts: at the end of a file seen for the first time unless --from-start, at the
\* beginning of one that was replaced or is shorter than the position.
ReadFrom(f) ==
  LET t == tail[f]
      first == IF opts.fromStart THEN 0 ELSE Size(f)
      seen == IF t.pos = None THEN [t EXCEPT !.pos = first, !.ino = file[f].ino] ELSE t
  IN IF seen.ino # file[f].ino \/ Size(f) < seen.pos
     THEN [pos |-> 0, ino |-> file[f].ino, partial |-> None]
     ELSE seen

ReadTo(f) == LET p == ReadFrom(f).pos IN IF Size(f) - p < MAX_READ THEN Size(f) ELSE p + MAX_READ

\* The line whose newline is unit 2k is whole unless its text was read earlier and forgotten, or the
\* text kept from the last read belongs to another file.
IsWhole(f, k) ==
  LET t == ReadFrom(f)
  IN IF 2 * k - 1 <= t.pos THEN t.partial = file[f].lines[k]
                           ELSE 2 * k - 2 # t.pos \/ t.partial = None

ReadLines(f) ==
  LET from == ReadFrom(f).pos \div 2
      to == ReadTo(f) \div 2
  IN [i \in 1 .. to - from |->
        [source |-> f, id |-> file[f].lines[from + i], whole |-> IsWhole(f, from + i)]]

\* What the read leaves out for good: lines before its start that were never taken, because the file was
\* there before the agent, or was truncated and had grown past the position again.
PassedOver(f) ==
  {<<f, file[f].lines[k]>> : k \in 1 .. ReadFrom(f).pos \div 2} \ {<<l.source, l.id>> : l \in taken}

\* The unfinished last line is kept for the next read.
Partial(f) ==
  LET t == ReadFrom(f)
      k == (ReadTo(f) + 1) \div 2
  IN CASE ReadTo(f) = t.pos -> t.partial
       [] ReadTo(f) # t.pos /\ ReadTo(f) % 2 = 0 -> None
       [] OTHER -> IF t.partial = None \/ t.pos \div 2 # ReadTo(f) \div 2
                   THEN file[f].lines[k] ELSE Garbled

TailAfter(f) == [pos |-> ReadTo(f), ino |-> ReadFrom(f).ino, partial |-> Partial(f)]

\* The position is remembered only when something was read.
StateAfter ==
  [f \in Files \cup Channels |->
     IF f \in opts.files /\ ReadTo(f) # ReadFrom(f).pos
     THEN [pos |-> ReadTo(f), ino |-> ReadFrom(f).ino] ELSE state[f]]

-----------------------------------------------------------------------------
(* enqueue: the oldest lines of a full queue go. *)

Excess(q) == IF Len(q) > MAX_QUEUE THEN Len(q) - MAX_QUEUE ELSE 0
Trim(q) == SubSeq(q, Excess(q) + 1, Len(q))
Trimmed(q) == ToSet(SubSeq(q, 1, Excess(q)))

Enqueue_Front(new) ==
  LET all == [k \in Queues |-> new[k] \o queues[k]]
  IN /\ queues' = [k \in Queues |-> Trim(all[k])]
     /\ dropped' = dropped \cup UNION {Trimmed(all[k]) : k \in Queues}

Enqueue(new) ==
  LET all == [k \in Queues |-> queues[k] \o new[k]]
  IN /\ queues' = [k \in Queues |-> Trim(all[k])]
     /\ dropped' = dropped \cup UNION {Trimmed(all[k]) : k \in Queues}

-----------------------------------------------------------------------------
(* saveState, process.exit and start.  Faulty says whether a write may fail. *)

CONSTANT Faulty

SaveState == saved' \in {state'} \cup (IF Faulty THEN {saved} ELSE {})

\* The lines in memory: queued, being posted, or read from a channel and not queued yet.
Held ==
  IF ~up THEN {}
  ELSE (UNION {Lines(queues[k]) : k \in Queues}) \cup (UNION {Lines(flusher[f].batch) : f \in Flushers})
       \cup Lines(win.lines)

Exit ==
  /\ up' = FALSE
  /\ lost' = lost \cup ((Held \cup UNION {Lines(queues'[k]) : k \in Queues})
                          \ (received' \cup rejected' \cup dropped'))

\* A restart reads the state file; the in-memory variables were reset when the process ended.
Start ==
  /\ ~up
  /\ up' = TRUE
  /\ state' = saved /\ tail' = Tails(saved)
  /\ queues' = NoQueues /\ flusher' = Idlers /\ ticking' = "idle" /\ win' = NoWin
  /\ stopping' = FALSE /\ fatal' = FALSE
  /\ restarted' = TRUE
  /\ UNCHANGED <<opts, source, saved, received, totals, taken, skipped, lost, overlap, refused, faults>>

Crash ==
  /\ up /\ MayFail
  /\ faults' = faults + 1
  /\ UNCHANGED <<opts, source, reading, saved, queues, flusher, ticking, win, stopping, fatal,
                 received, totals, taken, skipped, overlap, refused, restarted>>
  /\ Exit

-----------------------------------------------------------------------------
(* flush: the queues one after the other, batch by batch, until one post is not accepted. *)

Batch(q) == SubSeq(q, 1, IF Len(q) < BATCH_LINES THEN Len(q) ELSE BATCH_LINES)

Resume_OneBatch(q, key, todo) ==
  IF key # None \/ fatal \/ \A k \in todo : q[k] = <<>> THEN {Idle}
  ELSE {[pc |-> "post", key |-> k, todo |-> todo \ {k}, batch |-> Batch(q[k]), attempt |-> 1] :
          k \in {k \in todo : q[k] # <<>>}}

\* The states a flush may be in after synchronous code that leaves queues q: the next post, or the end.
Resume(q, key, todo) ==
  LET keys == IF key \in Queues /\ q[key] # <<>> THEN {key} ELSE {k \in todo : q[k] # <<>>}
  IN IF keys = {} \/ fatal THEN {Idle}
     ELSE {[pc |-> "post", key |-> k, todo |-> todo \ {k}, batch |-> Batch(q[k]), attempt |-> 1] :
             k \in keys}

\* What follows `await flush()` in tick() and in stop().
AfterFlush(f) ==
  IF flusher'[f] # Idle
  THEN UNCHANGED <<up, saved, ticking, lost>>
  ELSE /\ SaveState
       /\ ticking' = IF f = "tick" THEN "idle" ELSE ticking
       /\ IF f = "stop" \/ fatal' \/ opts.once THEN Exit ELSE UNCHANGED <<up, lost>>

FlushFrame == UNCHANGED <<opts, source, reading, win, stopping, dropped, taken, skipped, overlap, restarted, faults>>

Splice_All(q, batch) == <<>>

\* The batch leaves the front of the queue: as many lines as it has, whichever they are now.
Splice(q, batch) == IF Len(q) < Len(batch) THEN <<>> ELSE SubSeq(q, Len(batch) + 1, Len(q))

Spliced(f) ==
  LET x == flusher[f] IN
  /\ queues' = [queues EXCEPT ![x.key] = Splice(@, x.batch)]
  /\ \E y \in Resume(queues', x.key, x.todo) : flusher' = [flusher EXCEPT ![f] = y]
  /\ UNCHANGED fatal
  /\ AfterFlush(f)

Posting(f) == up /\ flusher[f].pc = "post"

PostAccepted(f) ==
  /\ Posting(f)
  /\ received' = received \cup Lines(flusher[f].batch)
  /\ UNCHANGED <<rejected, refused>> /\ FlushFrame
  /\ Spliced(f)

\* 400 and 413: the batch is given up.
PostRejected(f) ==
  /\ Posting(f)
  /\ rejected' = rejected \cup Lines(flusher[f].batch) /\ refused' = TRUE
  /\ UNCHANGED received /\ FlushFrame
  /\ Spliced(f)

\* 401 and 403: the key is refused and the flush ends.
PostRefused(f) ==
  /\ Posting(f)
  /\ fatal' = TRUE /\ refused' = TRUE
  /\ flusher' = [flusher EXCEPT ![f] = Idle]
  /\ UNCHANGED <<queues, received, rejected>> /\ FlushFrame /\ AfterFlush(f)

PostFailed_NeverGivesUp(f) ==
  /\ Posting(f)
  /\ refused' = TRUE /\ flusher' = [flusher EXCEPT ![f].attempt = (@ % Attempts) + 1]
  /\ UNCHANGED <<queues, received, rejected, fatal>> /\ FlushFrame /\ AfterFlush(f)

\* No answer in time, or a server error; the console may have taken the lines all the same.
PostFailed(f) ==
  /\ Posting(f)
  /\ received' \in {received, received \cup Lines(flusher[f].batch)}
  /\ refused' = TRUE
  /\ LET x == flusher[f]
     IN flusher' = [flusher EXCEPT ![f] =
          IF x.attempt < Attempts THEN [x EXCEPT !.attempt = x.attempt + 1] ELSE Idle]
  /\ UNCHANGED <<queues, rejected, fatal>> /\ FlushFrame /\ AfterFlush(f)

-----------------------------------------------------------------------------
(* tick and stop *)

Pending(q) == FoldFunction(LAMBDA lines, n : Len(lines) + n, 0, q)

\* The end of tick(): flush when there is enough, or FLUSH_MS passed since the last time, else save.
FlushOrSave ==
  LET some == \E k \in Queues : queues'[k] # <<>>
      full == Pending(queues') >= BATCH_LINES
      flush == /\ ~fatal
               /\ \E y \in Resume(queues', None, Queues) : flusher' = [flusher EXCEPT !["tick"] = y]
               /\ ticking' = "flush"
               /\ UNCHANGED <<saved, up, lost>>
      skip == /\ SaveState /\ ticking' = "idle" /\ UNCHANGED flusher
              /\ IF fatal \/ opts.once THEN Exit ELSE UNCHANGED <<up, lost>>
  IN IF some /\ ~fatal THEN flush \/ (~full /\ ~opts.once /\ skip) ELSE skip

Tick ==
  /\ up /\ ticking = "idle" /\ ~stopping
  /\ UNCHANGED <<opts, source, stopping, fatal, received, rejected, overlap, refused, restarted, faults>>
  /\ tail' = [f \in Files |-> IF f \in opts.files THEN TailAfter(f) ELSE tail[f]]
  /\ state' = StateAfter
  /\ Enqueue([k \in Queues |-> IF k \in opts.files THEN ReadLines(k) ELSE <<>>])
  /\ taken' = taken \cup UNION {Lines(ReadLines(f)) : f \in opts.files}
  /\ skipped' = skipped \cup UNION {PassedOver(f) : f \in opts.files}
  /\ \/ /\ ~(opts.winEvents /\ opts.once)
        /\ UNCHANGED win
        /\ FlushOrSave
     \/ /\ opts.winEvents
        /\ win' = [todo |-> Channels, lines |-> <<>>] /\ ticking' = "win"
        /\ UNCHANGED <<up, saved, flusher, lost>>

\* The events read from a channel: the newest of those behind the cursor.
NewEvents(c) ==
  LET after == IF state[c].pos = None THEN 0 ELSE state[c].pos
      first == IF events[c] - after > MaxEvents THEN events[c] - MaxEvents ELSE after
  IN [i \in 1 .. events[c] - first |-> [source |-> c, id |-> first + i, whole |-> TRUE]]

\* One channel after the other is awaited; the cursor of a channel is in the state from then on.
WinRead(c) ==
  /\ up /\ ticking = "win" /\ c \in win.todo
  /\ \E new \in {NewEvents(c), <<>>} :
       /\ win' = [todo |-> win.todo \ {c}, lines |-> win.lines \o new]
       /\ state' = [state EXCEPT ![c].pos = IF new # <<>> THEN events[c] ELSE @]
       /\ taken' = taken \cup Lines(new)
  /\ UNCHANGED <<opts, up, source, tail, saved, queues, flusher, ticking, stopping, fatal,
                 received, totals, skipped, lost, overlap, refused, restarted, faults>>

WinDone ==
  /\ up /\ ticking = "win" /\ win.todo = {}
  /\ UNCHANGED <<opts, source, reading, stopping, fatal, received, rejected, taken, skipped, overlap,
                 refused, restarted, faults>>
  /\ Enqueue([k \in Queues |-> IF k = WinEvents THEN win.lines ELSE <<>>])
  /\ win' = NoWin
  /\ FlushOrSave

\* SIGINT or SIGTERM: a flush of its own, beside the one tick() may be in.
Stop ==
  /\ up /\ ~stopping /\ ~opts.once
  /\ UNCHANGED <<opts, source, tail, received, totals, taken, skipped, refused, restarted, faults>>
  /\ stopping' = TRUE
  /\ overlap' = (overlap \/ ticking # "idle")
  /\ \E y \in Resume(queues, None, Queues) :
       flusher' = [flusher EXCEPT !["stop"] = y]
  /\ UNCHANGED <<queues, state, win, fatal, ticking>>
  /\ IF flusher'["stop"] = Idle THEN SaveState /\ Exit ELSE UNCHANGED <<saved, up, lost>>

\* The hourly inventory is refused: the next tick ends the process.
InventoryRefused ==
  /\ up /\ ~fatal /\ opts.inventory
  /\ fatal' = TRUE /\ refused' = TRUE
  /\ UNCHANGED <<opts, up, source, reading, saved, queues, flusher, ticking, win, stopping,
                 received, totals, taken, skipped, lost, overlap, restarted, faults>>

Answered(f) == PostAccepted(f) \/ PostRejected(f) \/ PostRefused(f) \/ PostFailed(f)

ShippingNext ==
  \/ \E f \in Files : WriteText(f) \/ WriteNewline(f) \/ \E newInode \in BOOLEAN : Rotate(f, newInode)
  \/ \E c \in Channels : LogEvent(c) \/ WinRead(c)
  \/ \E f \in Flushers : Answered(f)
  \/ Tick \/ WinDone \/ Stop \/ InventoryRefused \/ Crash \/ Start

ShippingInit ==
  /\ up = TRUE
  /\ file = [f \in Files |-> [ino |-> 0, first |-> 1, lines |-> <<>>, half |-> FALSE]]
  /\ events = [c \in Channels |-> 0]
  /\ tail = Tails(NoState) /\ state = NoState /\ saved = NoState
  /\ queues = NoQueues /\ flusher = Idlers /\ ticking = "idle" /\ win = NoWin
  /\ stopping = FALSE /\ fatal = FALSE
  /\ received = {} /\ dropped = {} /\ rejected = {}
  /\ taken = {} /\ skipped = {} /\ lost = {} /\ overlap = FALSE /\ refused = FALSE /\ restarted = FALSE
  /\ faults = 0
=============================================================================
