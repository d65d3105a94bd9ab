------------------------------ MODULE Activity -------------------------------
(***************************************************************************)
(* What assistants do over MCP, as the console shows it.  tools/call of     *)
(* src/src/mcp.js writes one row of the audit log before it runs the tool   *)
(* and one after; src/public/js/mcp-live.js polls the rows that are newer   *)
(* than the newest it has read, merges the two rows of a call, and pops up  *)
(* what is new.  Nothing keeps two polls from being under way at once.      *)
(***************************************************************************)
EXTENDS Requests, FiniteSetsExt

CONSTANTS
  Calls,       \* ids of tool calls (a bound)
  WriteCalls,  \* those of tools that change state
  Polls,       \* polls under way at once (a bound)
  LIMIT,       \* rows of one answer
  MAX_CALLS,   \* calls the page remembers
  KEEP_CALLS   \* calls it keeps of more

ASSUME ActivityAssumption == WriteCalls \subseteq Calls /\ KEEP_CALLS =< MAX_CALLS /\ Polls # {}

VARIABLES
  audit,      \* the rows of tool calls, oldest first: [call, status]
  page,       \* the page: the newest id read, the calls by key, and the keys announced
  poll,       \* the polls under way
  timers,     \* the time-out `timer` names, and those no handle names any more
  popped,     \* history: how often each call popped up when first seen, and with its outcome
  untold      \* history: calls of which the page was not given a row, or which it dropped

activityVars == <<audit, page, poll, timers, popped, untold, requestVars>>

NoPoll == [pc |-> "idle"]
PollAt(p, pc) == poll[p].pc = pc
RowsOf(c) == {i \in DOMAIN audit : audit[i].call = c}
NotStarted == Calls \ ({audit[i].call : i \in DOMAIN audit} \cup {job[w].on : w \in Workers})

\* store.audit.add; a write that fails is ignored.
AddRow(row) == audit' = Append(audit, row) \/ UNCHANGED audit

-----------------------------------------------------------------------------
(* The server. *)

\* tools/call of a known tool by a key that may use it ...
StartTool(w) ==
  /\ Idle(w)
  /\ \E c \in NotStarted :
       /\ AddRow([call |-> c, status |-> "running"])
       /\ Continue(w, Job("tool", c, <<>>))
  /\ UNCHANGED <<page, poll, timers, popped, untold>>

\* ... and its end.
FinishTool(w) ==
  /\ At(w, "tool")
  /\ \E s \in {"ok", "failed"} : AddRow([call |-> job[w].on, status |-> s])
  /\ Done(w)
  /\ UNCHANGED <<page, poll, timers, popped, untold>>

\* GET /api/mcp/activity: the newest LIMIT of the rows after `after`.
Newest(n, S) == {i \in S : Cardinality({k \in S : k > i}) < n}

AnswerPoll(p) ==
  LET after == {i \in DOMAIN audit : i > poll[p].after}
      rows == Newest(LIMIT, after) IN
  /\ PollAt(p, "asked")
  /\ poll' = [poll EXCEPT ![p] = [pc |-> "answered", after |-> @.after, fresh |-> @.fresh, rows |-> rows]]
  /\ untold' = untold \cup {audit[i].call : i \in after \ rows}
  /\ UNCHANGED <<audit, page, timers, popped, requestVars>>

-----------------------------------------------------------------------------
(* The page. *)

\* Seeded fault: a start row overrides what is known of the call.
Merged_StartWins(c, rows) ==
  LET mine == rows \cap RowsOf(c)
      starts == {i \in mine : audit[i].status = "running"} IN
  [status |-> IF starts # {} THEN "running" ELSE audit[CHOOSE i \in mine : TRUE].status,
   started |-> IF starts # {} THEN CHOOSE i \in starts : TRUE ELSE CHOOSE i \in mine : TRUE]

\* absorb: what is known of a call after these rows; a start row never hides an outcome.
Merged(c, rows) ==
  LET mine == rows \cap RowsOf(c)
      starts == {i \in mine : audit[i].status = "running"}
      ends == mine \ starts
      known == c \in DOMAIN page.calls IN
  [status |-> IF ends # {} THEN audit[CHOOSE i \in ends : TRUE].status
              ELSE IF known THEN page.calls[c].status ELSE "running",
   started |-> IF starts # {} THEN CHOOSE i \in starts : TRUE
               ELSE IF known THEN page.calls[c].started ELSE CHOOSE i \in ends : TRUE]

\* Above MAX_CALLS only the KEEP_CALLS started last stay.
Kept(calls) ==
  IF Cardinality(DOMAIN calls) =< MAX_CALLS THEN DOMAIN calls
  ELSE {c \in DOMAIN calls : Cardinality({d \in DOMAIN calls : calls[d].started > calls[c].started}) < KEEP_CALLS}

\* announce: which of these calls pop up, as new ones or with their outcome.  A call that is not
\* a finished read when it is first seen counts as told from then on.
FirstSeen(list) == list \ page.announced
WithOutcome(list, calls) ==
  {c \in list \cap page.announced :
     c \notin page.done /\ (calls[c].status = "failed" \/ (calls[c].status = "ok" /\ c \in WriteCalls))}
DoneAfter(list, calls) ==
  {c \in list : IF c \in page.announced THEN calls[c].status # "running"
                ELSE calls[c].status # "ok" \/ c \in WriteCalls}

\* absorb and announce of one answer.
Absorb(rows, fresh) ==
  LET touched == {audit[i].call : i \in rows}
      merged == [c \in DOMAIN page.calls \cup touched |->
                   IF c \in touched THEN Merged(c, rows) ELSE page.calls[c]]
      kept == Kept(merged)
      calls == [c \in kept |-> merged[c]]
      list == touched \cap kept IN
  /\ untold' = untold \cup (DOMAIN merged \ kept)
  /\ IF fresh
     THEN /\ page' = [last |-> Max({page.last} \cup rows), calls |-> calls,
                      announced |-> page.announced \cup list, done |-> page.done \cup DoneAfter(list, calls)]
          /\ popped' = [c \in Calls |-> [first |-> popped[c].first + (IF c \in FirstSeen(list) THEN 1 ELSE 0),
                                         outcome |-> popped[c].outcome + (IF c \in WithOutcome(list, calls) THEN 1 ELSE 0)]]
     ELSE \* startActivity: what is there already is told, without popping up
          /\ page' = [last |-> Max({page.last} \cup rows), calls |-> calls,
                      announced |-> page.announced \cup kept,
                      done |-> page.done \cup {c \in kept : calls[c].status # "running"}]
          /\ UNCHANGED popped

\* poll() is called: by a time-out, or by opening the drawer or coming back to the tab, which no
\* poll under way prevents.  It clears the time-out it knows of; a hidden tab only waits again.
Ask(p, orphans) ==
  \/ /\ timers' = [armed |-> FALSE, orphans |-> orphans]
     /\ poll' = [poll EXCEPT ![p] = [pc |-> "asked", after |-> page.last, fresh |-> TRUE]]
  \/ /\ timers' = [armed |-> TRUE, orphans |-> orphans]
     /\ UNCHANGED poll

StartPoll(p) ==
  /\ PollAt(p, "idle")
  /\ \/ timers.armed /\ Ask(p, timers.orphans)
     \/ timers.orphans > 0 /\ Ask(p, timers.orphans - 1)
     \/ timers.orphans + Cardinality({q \in Polls : ~PollAt(q, "idle")}) < Cardinality(Polls) /\ Ask(p, timers.orphans)
  /\ UNCHANGED <<audit, page, popped, untold, requestVars>>

\* The poll returns, with the rows or after an error, and sets the next time-out.
FinishPoll(p) ==
  /\ \/ PollAt(p, "answered") /\ Absorb(poll[p].rows, poll[p].fresh)
     \/ PollAt(p, "asked") /\ UNCHANGED <<page, popped, untold>>
  /\ timers' = [armed |-> TRUE, orphans |-> timers.orphans + (IF timers.armed THEN 1 ELSE 0)]
  /\ poll' = [poll EXCEPT ![p] = NoPoll]
  /\ UNCHANGED <<audit, requestVars>>

ActivityInit ==
  /\ audit = <<>>
  /\ page = [last |-> 0, calls |-> <<>>, announced |-> {}, done |-> {}]
  \* startActivity asks for the history, and the chip opens the drawer from then on
  /\ poll = [p \in Polls |-> IF p = CHOOSE q \in Polls : TRUE THEN [pc |-> "asked", after |-> 0, fresh |-> FALSE] ELSE NoPoll]
  /\ timers = [armed |-> FALSE, orphans |-> 0]
  /\ popped = [c \in Calls |-> [first |-> 0, outcome |-> 0]]
  /\ untold = {}

ActivityNext ==
  \/ \E w \in Workers : StartTool(w) \/ FinishTool(w)
  \/ \E p \in Polls : StartPoll(p) \/ AnswerPoll(p) \/ FinishPoll(p)

ActivitySpec == RequestsInit /\ ActivityInit /\ [][ActivityNext]_activityVars

-----------------------------------------------------------------------------
\* However polls overlap and whichever answer comes first (mcp-live.js, absorb and announce), a call the
\* page has read the end of is shown with that end and no other, it pops up once, and the page goes on
\* polling.  Excepted are calls of which a row was skipped, as more rows had come than one answer holds,
\* or which the page dropped.
FeedIsTrue ==
  /\ \A c \in DOMAIN page.calls \ untold :
       LET ends == {i \in RowsOf(c) : audit[i].status # "running" /\ i =< page.last} IN
       IF ends = {} THEN page.calls[c].status = "running"
       ELSE \E i \in ends : page.calls[c].status = audit[i].status
  /\ \A c \in Calls : popped[c].first =< 1 /\ popped[c].outcome =< 1
  /\ timers.armed \/ timers.orphans > 0 \/ \E p \in Polls : ~PollAt(p, "idle")
=============================================================================
