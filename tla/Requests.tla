------------------------------ MODULE Requests -------------------------------
(***************************************************************************)
(* What the services of the console have in common: a request is served by  *)
(* an async function that runs from one await to the next, and at every     *)
(* await any other request may run.  job[w] is the request a worker serves: *)
(* pc names the call it makes next, on the object it is about, and the      *)
(* other fields what it has read so far.                                    *)
(***************************************************************************)
EXTENDS Integers, FiniteSets, Sequences, TLC

CONSTANTS
  Workers,  \* requests served at the same time (a bound)
  None      \* null

VARIABLES
  job,      \* the request each worker serves
  crowded   \* history: objects two requests were at work on at once

requestVars == <<job, crowded>>

NoJob == [pc |-> "idle", on |-> None]

\* An update of a record: the fields of patch, and the others of rec.
Patched(rec, patch) ==
  [x \in DOMAIN rec \cup DOMAIN patch |-> IF x \in DOMAIN patch THEN patch[x] ELSE rec[x]]

Job(pc, on, fields) == Patched(fields, [pc |-> pc, on |-> on])

At(w, pc) == job[w].pc = pc
Idle(w) == At(w, "idle")
Served(on) == \E w \in Workers : job[w].on = on

\* The request of w goes on as j.
Continue(w, j) ==
  /\ job' = [job EXCEPT ![w] = j]
  /\ crowded' = IF j.on # None /\ \E v \in Workers \ {w} : job[v].on = j.on
                THEN crowded \cup {j.on} ELSE crowded

Done(w) == Continue(w, NoJob)

RequestsInit == job = [w \in Workers |-> NoJob] /\ crowded = {}
=============================================================================
