----------------------------- MODULE IntelFeeds ------------------------------
(***************************************************************************)
(* A key of a threat feed provider and its keyed feed: IntelKeys of         *)
(* src/src/intel/keys.js, setKey and feed of AbuseCh in                     *)
(* src/src/intel/abusech.js, FeedCache of src/src/intel/feeds.js.  The key  *)
(* is in the configuration every server instance shares; this instance      *)
(* reads it again when what it has is older than KEY_TTL_MS, one read at a  *)
(* time, and hands it to the client.  A feed is downloaded with the key the *)
(* client had when the download began, one download at a time.              *)
(***************************************************************************)
EXTENDS Requests

CONSTANTS
  Keys,        \* the keys an administrator saves; None: the provider's public mirror
  MaxSaves,    \* bound on the keys saved and removed
  MaxLoads     \* bound on the downloads begun

NoCopy == "no copy"

ASSUME IntelFeedsAssumption == NoCopy \notin Keys \cup {None}

VARIABLES
  config,     \* the configuration's key
  keys,       \* this instance's: [active, fresh], the key of the client and whether it is recent
  sync,       \* the read of the configuration in progress: "none", "asked" or [read |-> key]
  copy,       \* FeedCache.state: [data, fresh], data the key the copy was downloaded with
  loads,      \* downloads in progress (inflight): [key, have], the copy there was when each began
  saves, begun

feedVars == <<config, keys, sync, copy, loads, saves, begun, requestVars>>

NoSync == [state |-> "none", key |-> None]

Forgotten == [data |-> NoCopy, fresh |-> FALSE]

\* Seeded fault: no download joins the one in progress.
MayBegin_Always == TRUE

\* load: at most one download of the feed is in progress.
MayBegin == loads = {}

Begin(key, have) ==
  /\ begun < MaxLoads
  /\ loads' = loads \cup {[key |-> key, have |-> have]}
  /\ begun' = begun + 1

\* setKey: another key drops the copy, and warm loads the feed with it at once.
SetKey(k) ==
  /\ keys' = [active |-> k, fresh |-> TRUE]
  /\ copy' = IF k = keys.active THEN copy ELSE Forgotten
  /\ IF k \notin {keys.active, None} /\ MayBegin THEN Begin(k, Forgotten) ELSE UNCHANGED <<loads, begun>>

\* sync joins the read in progress, and begins one when there is none.
Ask == sync' = IF sync.state = "none" THEN [state |-> "asked", key |-> None] ELSE sync

ReadConfig ==
  /\ sync.state = "asked"
  /\ sync' = [state |-> "read", key |-> config]
  /\ UNCHANGED <<config, keys, copy, loads, saves, begun, requestVars>>

\* The read brings the key, or fails and is tried again soon; with it go on all who waited for it.
Resumed == [w \in Workers |-> IF At(w, "sync") THEN [job[w] EXCEPT !.pc = "lookup"]
                              ELSE IF At(w, "force") THEN NoJob ELSE job[w]]
FinishSync ==
  /\ sync.state = "read"
  /\ SetKey(sync.key)
  /\ sync' = NoSync /\ job' = Resumed
  /\ UNCHANGED <<config, saves, crowded>>

SyncFails ==
  /\ sync.state = "asked"
  /\ keys' = [keys EXCEPT !.fresh = TRUE]
  /\ sync' = NoSync /\ job' = Resumed
  /\ UNCHANGED <<config, copy, loads, saves, begun, crowded>>

\* save and remove: the configuration is read, written, and then read again for this instance; the keys
\* of other providers in it are left out.
StartSave(w) ==
  /\ Idle(w) /\ saves < MaxSaves
  /\ \E k \in Keys \cup {None} : k # config /\ Continue(w, Job("write", "config", [key |-> k]))
  /\ saves' = saves + 1
  /\ UNCHANGED <<config, keys, sync, copy, loads, begun>>

WriteKey(w) ==
  /\ At(w, "write")
  /\ config' = job[w].key
  /\ Continue(w, [job[w] EXCEPT !.pc = "written"])
  /\ UNCHANGED <<keys, sync, copy, loads, saves, begun>>

\* sync(true), which the list of the keys and their test call too.
ForceSync(w) ==
  /\ At(w, "written") \/ Idle(w)
  /\ Ask
  /\ Continue(w, [job[w] EXCEPT !.pc = "force"])
  /\ UNCHANGED <<config, keys, copy, loads, saves, begun>>

\* Another instance saves a key.
SavedElsewhere ==
  /\ saves < MaxSaves
  /\ \E k \in Keys : k # config /\ config' = k
  /\ saves' = saves + 1
  /\ UNCHANGED <<keys, sync, copy, loads, begun, requestVars>>

\* A lookup asks for the keys first, if what there is has become old.
StartLookup(w) ==
  /\ Idle(w)
  /\ IF keys.fresh THEN Continue(w, Job("lookup", None, <<>>)) /\ UNCHANGED sync
     ELSE Continue(w, Job("sync", None, <<>>)) /\ Ask
  /\ UNCHANGED <<config, keys, copy, loads, saves, begun>>

\* load answers from a recent copy, joins the download in progress or begins one; within does not wait
\* for it longer than its budget. refresh and warm begin one although the copy is recent.
Load(w) ==
  /\ At(w, "lookup")
  /\ IF MayBegin /\ ~copy.fresh THEN Begin(keys.active, copy) ELSE UNCHANGED <<loads, begun>>
  /\ Done(w)
  /\ UNCHANGED <<config, keys, sync, copy, saves>>

Refresh ==
  /\ MayBegin /\ Begin(keys.active, copy)
  /\ UNCHANGED <<config, keys, sync, copy, saves, requestVars>>

LoadEnds(d, data, fresh) ==
  /\ loads' = loads \ {d}
  /\ copy' = [data |-> data, fresh |-> fresh]
  /\ UNCHANGED <<config, keys, sync, saves, begun, requestVars>>

Downloaded == \E d \in loads : LoadEnds(d, d.key, TRUE)

\* A failed download stores once more the copy there was when it began, as old as it is by now.
LoadFails ==
  \E d \in loads, aged \in BOOLEAN :
    LoadEnds(d, d.have.data, d.have.data = NoCopy \/ (d.have.fresh /\ ~aged))

\* Time passes: KEY_TTL_MS, the feed's ttl or its retry.
KeysAge ==
  /\ keys.fresh /\ keys' = [keys EXCEPT !.fresh = FALSE]
  /\ UNCHANGED <<config, sync, copy, loads, saves, begun, requestVars>>
CopyAges ==
  /\ copy.fresh /\ copy' = [copy EXCEPT !.fresh = FALSE]
  /\ UNCHANGED <<config, keys, sync, loads, saves, begun, requestVars>>

IntelFeedsInit ==
  /\ config = None
  /\ keys = [active |-> None, fresh |-> FALSE]
  /\ sync = NoSync
  /\ copy = [data |-> NoCopy, fresh |-> FALSE]
  /\ loads = {} /\ saves = 0 /\ begun = 0

IntelFeedsNext ==
  \/ \E w \in Workers : StartSave(w) \/ WriteKey(w) \/ ForceSync(w) \/ StartLookup(w) \/ Load(w)
  \/ ReadConfig \/ FinishSync \/ SyncFails \/ SavedElsewhere \/ Refresh
  \/ Downloaded \/ LoadFails \/ KeysAge \/ CopyAges

IntelFeedsSpec == RequestsInit /\ IntelFeedsInit /\ [][IntelFeedsNext]_feedVars

-----------------------------------------------------------------------------
\* "A stale copy beats no copy" (feeds.js 154): a download that fails never loses the copy there is,
\* also when lookups overlap; only another key does.
CopySurvives == [][copy.data # NoCopy /\ keys'.active = keys.active => copy'.data # NoCopy]_feedVars

\* "Keyed feeds and API answers made with the old key are dropped so the next lookup uses the new one"
\* (abusech.js 261-262): a copy is of the key in use.
CopyIsOfTheKey == copy.data # NoCopy /\ loads = {} => copy.data = keys.active
=============================================================================
