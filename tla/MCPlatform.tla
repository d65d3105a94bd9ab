----------------------------- MODULE MCPlatform ------------------------------
(***************************************************************************)
(* Instances for TLC of what the server itself rests on: accounts and       *)
(* sessions, the OAuth server on top of them, intake and triage of alerts,  *)
(* detections, the keys and feeds of threat intelligence, the store's file. *)
(* Each is checked on its own, as in MCDesk; the OAuth server comes with    *)
(* the accounts it reads.                                                   *)
(***************************************************************************)
EXTENDS OAuth, Detection, Intake, IntelFeeds, StoreFile

CONSTANT Services

VARIABLE service

accountsOnly == <<users, cache, sessions, contested>>
oauthOnly == <<codes, burnt, tokens, traded, signed, restarts>>
detectionOnly == <<logs, raised, overlooked>>
intakeOnly == <<alerts, supps, triageQueue, drain, purged>>
feedsOnly == <<config, keys, sync, copy, loads, saves, begun>>
platformVars ==
  <<accountsOnly, oauthOnly, detectionOnly, intakeOnly, feedsOnly, storeFileVars, requestVars, service>>

\* Every rule covers every alert.
MC_Covers == [s \in SuppIds |-> Arriving]

\* The lines hosts send: failures of one client close to each other, a log-in after them, and a failure of
\* another client by which the first of them is out of sight.
MC_Entries ==
  {[client |-> "c1", kind |-> "fail", at |-> 0], [client |-> "c1", kind |-> "fail", at |-> 1],
   [client |-> "c1", kind |-> "ok", at |-> 1], [client |-> "c2", kind |-> "fail", at |-> 3]}

\* It makes no difference which worker serves a request.
MC_Symmetry == Permutations(Workers)

Init ==
  /\ RequestsInit
  /\ AccountsInit /\ OAuthInit /\ DetectionInit /\ IntakeInit /\ IntelFeedsInit /\ StoreFileInit
  /\ service \in Services

Next ==
  /\ UNCHANGED service
  /\ \/ /\ service = "accounts" /\ AccountsNext
        /\ UNCHANGED <<oauthOnly, detectionOnly, intakeOnly, feedsOnly, storeFileVars>>
     \/ /\ service = "oauth" /\ OAuthNext
        /\ UNCHANGED <<detectionOnly, intakeOnly, feedsOnly, storeFileVars>>
     \/ /\ service = "detection" /\ DetectionNext
        /\ UNCHANGED <<accountsOnly, oauthOnly, intakeOnly, feedsOnly, storeFileVars>>
     \/ /\ service = "intake" /\ IntakeNext
        /\ UNCHANGED <<accountsOnly, oauthOnly, detectionOnly, feedsOnly, storeFileVars>>
     \/ /\ service = "feeds" /\ IntelFeedsNext
        /\ UNCHANGED <<accountsOnly, oauthOnly, detectionOnly, intakeOnly, storeFileVars>>
     \/ /\ service = "store" /\ StoreFileNext
        /\ UNCHANGED <<accountsOnly, oauthOnly, detectionOnly, intakeOnly, feedsOnly, requestVars>>

Spec == Init /\ [][Next]_platformVars
=============================================================================
