------------------------------ MODULE StoreFile ------------------------------
(***************************************************************************)
(* The file behind the local store: init, persist and flush of              *)
(* src/src/store/memory.js, and shutdown of src/server.js.  A change is     *)
(* made in memory and the timer is set again; when it fires the whole       *)
(* database is written beside the file and renamed over it.  A crash may    *)
(* come at any point, a write or a rename may fail.                         *)
(***************************************************************************)
EXTENDS Integers, FiniteSetsExt

CONSTANTS
  MaxChanges,  \* bound on the changes made
  MaxStarts,   \* bound on the starts of the server
  MaxFailures  \* bound on the writes that fail

ASSUME StoreFileAssumption == {MaxChanges, MaxStarts, MaxFailures} \subseteq Nat

VARIABLES
  server,    \* [state, db, timer, owed]: what it does, the changes its database holds, whether the timer
             \* is set, and what a stop in good order has to leave on disk
  disk,      \* [file, tmp]: the changes the file and its .tmp hold, Cut for a truncated one, or NoFile
  saved,     \* history: the changes held by the last flush that came to its end
  restored,  \* history: [had, loaded] of the last start: what was to be on disk, and what it found
  starts, failures

storeFileVars == <<server, disk, saved, restored, starts, failures>>

Cut == -1
NoFile == -2
Running == server.state = "up"

\* persist
Change ==
  /\ Running /\ server.db < MaxChanges
  /\ server' = [server EXCEPT !.db = @ + 1, !.timer = TRUE]
  /\ UNCHANGED <<disk, saved, restored, starts, failures>>

\* Seeded fault: writes the file itself.
WriteTo_File == "file"

WriteTo == "tmp"

\* flush, by the timer or on the way out: writeFileSync opens the file beside the store's and fills it ...
StartFlush ==
  /\ \/ Running /\ server.timer /\ server' = [server EXCEPT !.state = "writing", !.timer = FALSE]
     \/ server.state = "closed" /\ server' = [server EXCEPT !.state = "last_writing"]
  /\ disk' = [disk EXCEPT ![WriteTo] = Cut]
  /\ UNCHANGED <<saved, restored, starts, failures>>

Write ==
  /\ \E s \in {"writing", "last_writing"} :
       /\ server.state = s
       /\ server' = [server EXCEPT !.state = IF s = "writing" THEN "renaming" ELSE "last_renaming"]
  /\ disk' = [disk EXCEPT ![WriteTo] = server.db]
  /\ UNCHANGED <<saved, restored, starts, failures>>

\* ... and the rename puts it in place.
AfterFlush == IF server.state \in {"writing", "renaming"} THEN "up" ELSE "down"
Rename ==
  /\ server.state \in {"renaming", "last_renaming"}
  /\ server' = [server EXCEPT !.state = AfterFlush]
  /\ disk' = IF WriteTo = "tmp" THEN [file |-> disk.tmp, tmp |-> NoFile] ELSE disk
  /\ saved' = server.db
  /\ UNCHANGED <<restored, starts, failures>>

\* A write or rename that fails is only logged: the timer is not set again.
FlushFails ==
  /\ server.state \in {"writing", "last_writing", "renaming", "last_renaming"}
  /\ failures < MaxFailures
  /\ failures' = failures + 1
  /\ server' = [server EXCEPT !.state = AfterFlush, !.owed = 0]
  /\ UNCHANGED <<disk, saved, restored, starts>>

\* shutdown: the requests in progress have ended and the last flush follows, ...
Shutdown ==
  /\ Running
  /\ server' = [server EXCEPT !.state = "closed", !.owed = server.db]
  /\ UNCHANGED <<disk, saved, restored, starts, failures>>

\* ... or they have not after three seconds, and the process exits without it; a crash at any point.
Exit ==
  /\ server.state # "down"
  /\ server' = [server EXCEPT !.state = "down", !.owed = 0]
  /\ UNCHANGED <<disk, saved, restored, starts, failures>>

\* init: an unreadable file is moved away and the database starts empty; the timer is set.
Start ==
  /\ server.state = "down" /\ starts < MaxStarts
  /\ LET loaded == IF disk.file < 0 THEN 0 ELSE disk.file IN
     /\ server' = [state |-> "up", db |-> loaded, timer |-> TRUE, owed |-> 0]
     /\ restored' = [had |-> Max({saved, server.owed}), loaded |-> loaded]
     /\ saved' = loaded
  /\ disk' = IF disk.file = Cut THEN [disk EXCEPT !.file = NoFile] ELSE disk
  /\ starts' = starts + 1
  /\ UNCHANGED failures

StoreFileInit ==
  /\ server = [state |-> "down", db |-> 0, timer |-> FALSE, owed |-> 0]
  /\ disk = [file |-> NoFile, tmp |-> NoFile]
  /\ saved = 0
  /\ restored = [had |-> 0, loaded |-> 0]
  /\ starts = 0 /\ failures = 0

StoreFileNext == Change \/ StartFlush \/ Write \/ Rename \/ FlushFails \/ Shutdown \/ Exit \/ Start

StoreFileSpec == StoreFileInit /\ [][StoreFileNext]_storeFileVars

-----------------------------------------------------------------------------
\* A restart finds at least what the last flush saved, wherever a crash or a failed write came (memory.js
\* 60: "a crash mid-write never leaves a truncated file"), and all there was after a shutdown that had
\* time to flush and a disk that took it (server.js 65-69).
RestartKeepsSaved == restored.loaded >= restored.had
=============================================================================
