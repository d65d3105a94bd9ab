------------------------------ MODULE Assistant ------------------------------
(***************************************************************************)
(* A conversation with the AI assistant of src/src/workbench.js.  The model *)
(* answers or calls tools; tools that only read run at once, a call that    *)
(* changes state is proposed and runs when the analyst confirms.  A request *)
(* works on a copy of the thread and saves it whole at its end.             *)
(***************************************************************************)
EXTENDS Requests, SequencesExt

CONSTANTS
  Reads,         \* calls of tools that only read (a bound on their number)
  Writes,        \* calls of tools that change state
  MAX_ROUNDS,
  KEEP,          \* messages the model is shown
  MaxMessages,   \* bound: no request starts on a longer thread
  MaxRestarts    \* bound on crashes

ASSUME AssistantAssumption == IsFiniteSet(Reads \cup Writes) /\ KEEP \in Nat /\ None # "thread"

VARIABLES
  thread,    \* the stored thread: [messages, pending]
  screen,    \* the proposal each browser tab shows (one tab per worker)
  ran,       \* history: how often each call that changes state ran
  restarts

assistantVars == <<thread, screen, ran, restarts, requestVars>>

Thread == "thread"
Msg(role, calls) == [role |-> role, calls |-> calls]
Results(calls) == [i \in 1 .. Cardinality(calls) |-> Msg("tool", {SetToSeq(calls)[i]})]
Drawn == UNION ({thread.messages[i].calls : i \in DOMAIN thread.messages} \cup
                UNION {{m.calls : m \in Range(job[w].messages)} : w \in {v \in Workers : ~Idle(v)}})

\* The request goes on with these messages.
Converse(w, pc, messages, pending, round) ==
  Continue(w, Job(pc, Thread, [messages |-> messages, pending |-> pending, round |-> round]))

\* context(): the most recent messages, without a tool exchange cut at its start.
Context(messages) ==
  LET recent == SubSeq(messages, IF Len(messages) > KEEP THEN Len(messages) - KEEP + 1 ELSE 1, Len(messages))
      starts == {i \in DOMAIN recent : recent[i].role \in {"user", "answer"}} IN
  IF starts = {} THEN <<>> ELSE SubSeq(recent, CHOOSE i \in starts : \A k \in starts : i =< k, Len(recent))

\* Seeded fault: a new message drops the proposal without answering its calls.
StartSend_DropsPending(w) ==
  /\ Idle(w) /\ Len(thread.messages) < MaxMessages
  /\ Converse(w, "model", Append(thread.messages, Msg("user", {})), {}, 1)
  /\ UNCHANGED <<thread, screen, ran, restarts>>

\* sendMessage: a new message supersedes an unanswered proposal.
StartSend(w) ==
  /\ Idle(w) /\ Len(thread.messages) < MaxMessages
  /\ Converse(w, "model", Append(thread.messages \o Results(thread.pending), Msg("user", {})), {}, 1)
  /\ UNCHANGED <<thread, screen, ran, restarts>>

\* confirm: the analyst approves or declines what the tab shows; the request takes what is pending.
StartConfirm(w) ==
  /\ Idle(w) /\ screen[w] # {} /\ thread.pending # {}
  /\ \/ Converse(w, "call", thread.messages, thread.pending, 1)
     \/ Converse(w, "model", thread.messages \o Results(thread.pending), {}, 1)
  /\ UNCHANGED <<thread, screen, ran, restarts>>

\* The approved calls run one by one.
Call(w) ==
  LET j == job[w]
      c == CHOOSE x \in j.pending : TRUE IN
  /\ At(w, "call")
  /\ ran' = [ran EXCEPT ![c] = @ + 1]
  /\ Converse(w, IF j.pending = {c} THEN "model" ELSE "call", Append(j.messages, Msg("tool", {c})),
              j.pending \ {c}, 1)
  /\ UNCHANGED <<thread, screen, restarts>>

\* A round of converse: the model fails, answers, or calls tools; the calls that change state wait.
Model(w) ==
  LET j == job[w] IN
  /\ At(w, "model")
  /\ \/ Converse(w, "save", j.messages, {}, j.round)
     \/ Converse(w, "save", Append(j.messages, Msg("answer", {})), {}, j.round)
     \/ \E calls \in (SUBSET ((Reads \cup Writes) \ Drawn)) \ {{}} :
          Converse(w, IF calls \cap Writes # {} \/ j.round = MAX_ROUNDS THEN "save" ELSE "model",
                   Append(j.messages, Msg("calls", calls)) \o Results(calls \cap Reads),
                   calls \cap Writes, j.round + 1)
  /\ UNCHANGED <<thread, screen, ran, restarts>>

\* Seeded fault: saving merges, so that a proposal that was dealt with stays in the stored thread.
SaveThread_KeepsPending(w) ==
  /\ At(w, "save")
  /\ thread' = [messages |-> job[w].messages,
                pending |-> IF job[w].pending = {} THEN thread.pending ELSE job[w].pending]
  /\ screen' = [screen EXCEPT ![w] = job[w].pending]
  /\ Done(w)
  /\ UNCHANGED <<ran, restarts>>

\* saveThread, in any case; the tab shows the thread that was saved.
SaveThread(w) ==
  /\ At(w, "save")
  /\ thread' = [messages |-> job[w].messages, pending |-> job[w].pending]
  /\ screen' = [screen EXCEPT ![w] = job[w].pending]
  /\ Done(w)
  /\ UNCHANGED <<ran, restarts>>

\* A tab loads the thread.
Reload(w) ==
  /\ Idle(w) /\ screen' = [screen EXCEPT ![w] = thread.pending]
  /\ UNCHANGED <<thread, ran, restarts, requestVars>>

\* The server restarts: requests under way are gone, the stored thread is what it was.
Restart ==
  /\ restarts < MaxRestarts
  /\ restarts' = restarts + 1
  /\ job' = [w \in Workers |-> NoJob]
  /\ UNCHANGED <<thread, screen, ran, crowded>>

AssistantInit ==
  /\ thread = [messages |-> <<>>, pending |-> {}]
  /\ screen = [w \in Workers |-> {}]
  /\ ran = [c \in Writes |-> 0] /\ restarts = 0

AssistantNext ==
  \/ \E w \in Workers : StartSend(w) \/ StartConfirm(w) \/ Call(w) \/ Model(w) \/ SaveThread(w) \/ Reload(w)
  \/ Restart

AssistantSpec == RequestsInit /\ AssistantInit /\ [][AssistantNext]_assistantVars

-----------------------------------------------------------------------------
Answered(messages, i, c) == \E k \in i + 1 .. Len(messages) : messages[k] = Msg("tool", {c})

\* The model providers refuse a conversation in which a call has no answer or an answer no call: what
\* converse sends is whole, through supersedings, refusals, failures, overlapping requests and restarts.
RequestIsWhole ==
  \A w \in Workers : At(w, "model") =>
    LET ctx == Context(job[w].messages) IN
    \A i \in DOMAIN ctx :
      /\ ctx[i].role = "calls" => \A c \in ctx[i].calls : Answered(ctx, i, c)
      /\ ctx[i].role = "tool" => \E k \in 1 .. i - 1 : ctx[k].role = "calls" /\ ctx[i].calls \subseteq ctx[k].calls

\* A confirmed call runs once, unless two requests were at work on the thread or the server restarted.
CallRunsOnce == Thread \notin crowded /\ restarts = 0 => \A c \in Writes : ran[c] =< 1
=============================================================================
