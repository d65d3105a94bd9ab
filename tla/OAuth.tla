-------------------------------- MODULE OAuth --------------------------------
(***************************************************************************)
(* The OAuth server of src/src/oauth.js: a signed-in user approves a client *)
(* and hands it a code, the client trades the code for tokens and refreshes *)
(* them.  Codes and tokens are signed, not stored: each carries the session *)
(* version of its user, and the server remembers only which codes it has    *)
(* seen.                                                                    *)
(***************************************************************************)
EXTENDS Accounts

CONSTANTS
  CodeIds,       \* codes ever signed (a bound)
  Responders,    \* roles that can respond
  MaxTokens,     \* bound on the tokens one code leads to
  MaxRestarts    \* bound on restarts of the server

ASSUME OAuthAssumption == Responders \subseteq Roles

VARIABLES
  codes,     \* signed and not expired: [id, uid, v, write]
  burnt,     \* usedCodes of this instance of the server
  tokens,    \* signed and not expired: [uid, v, write, code]
  traded,    \* history: how often each code was traded for tokens
  signed,    \* history: the codes ever signed; their ids are random
  restarts

oauthVars == <<users, cache, sessions, contested, requestVars, codes, burnt, tokens, traded, signed, restarts>>
unchangedAccounts == UNCHANGED <<users, cache, sessions, contested>>

CanRespond(role) == role \in Responders
Live(d) == Known(d.uid) /\ ~users[d.uid].disabled /\ users[d.uid].version = d.v

\* A user is added or changed as in Accounts, in one step and whatever else is going on, by this instance
\* of the server or by another one, which cannot forget this one's cached copy; or a copy is read again.
AccountStep ==
  \E u \in UserIds :
    /\ \/ \E r \in Roles : ~Known(u) /\ users' = [users EXCEPT ![u].role = r] /\ UNCHANGED cache
       \/ /\ Known(u) /\ users[u].version < MaxVersion
          /\ \E r \in Roles, d \in BOOLEAN :
               users' = [users EXCEPT ![u] = [role |-> r, disabled |-> d, version |-> @.version + 1]]
          /\ cache' \in {cache, [cache EXCEPT ![u] = None]}
       \/ Known(u) /\ cache' = [cache EXCEPT ![u] = users[u]] /\ UNCHANGED users
    /\ contested' = TRUE
    /\ UNCHANGED <<sessions, requestVars, codes, burnt, tokens, traded, signed, restarts>>

\* approve: the role is that of the request's user, the session version that of the stored one.
StartApprove(w) ==
  /\ Idle(w)
  /\ \E u \in UserIds, allow \in BOOLEAN :
       /\ cache[u] # None /\ ~cache[u].disabled
       /\ Continue(w, Job("approve", None, [uid |-> u, v |-> users[u].version,
                                            write |-> allow /\ CanRespond(cache[u].role)]))
  /\ unchangedAccounts /\ UNCHANGED <<codes, burnt, tokens, traded, signed, restarts>>

Approve(w) ==
  /\ At(w, "approve")
  /\ \E id \in CodeIds \ signed :
       /\ signed' = signed \cup {id}
       /\ codes' = codes \cup {[id |-> id, uid |-> job[w].uid, v |-> job[w].v, write |-> job[w].write]}
  /\ Done(w)
  /\ unchangedAccounts /\ UNCHANGED <<burnt, tokens, traded, restarts>>

\* Seeded fault: a refresh or a code keeps the scope it was signed with.
CapScope_AsSigned(u, write) == write

\* "Never grant more than the user's current role allows."
CapScope(u, write) == write /\ CanRespond(users[u].role)

\* Seeded fault: a code is burnt once its user is found, and not looked up before.
StartTrade_BurnsUnread(w) ==
  /\ Idle(w)
  /\ \E c \in codes :
       /\ burnt' = burnt \cup {c.id}
       /\ Continue(w, IF Live(c) THEN Job("grant", None, [token |->
               [uid |-> c.uid, v |-> c.v, write |-> CapScope(c.uid, c.write), code |-> c.id], trade |-> TRUE])
             ELSE NoJob)
  /\ unchangedAccounts /\ UNCHANGED <<codes, tokens, traded, signed, restarts>>

\* The token endpoint burns the code, then reads the user (liveUser) ...
StartTrade(w) ==
  /\ Idle(w)
  /\ \E c \in codes :
       /\ c.id \notin burnt
       /\ burnt' = burnt \cup {c.id}
       /\ Continue(w, IF Live(c) THEN Job("grant", None, [token |->
               [uid |-> c.uid, v |-> c.v, write |-> CapScope(c.uid, c.write), code |-> c.id], trade |-> TRUE])
             ELSE NoJob)
  /\ unchangedAccounts /\ UNCHANGED <<codes, tokens, traded, signed, restarts>>

\* ... as it does for a refresh token ...
StartRefresh(w) ==
  /\ Idle(w)
  /\ \E t \in tokens :
       /\ Live(t)
       /\ Continue(w, Job("grant", None, [token |-> [t EXCEPT !.write = CapScope(t.uid, t.write)], trade |-> FALSE]))
  /\ unchangedAccounts /\ UNCHANGED <<codes, burnt, tokens, traded, signed, restarts>>

\* ... and signs the tokens.
Grant(w) ==
  LET t == job[w].token IN
  /\ At(w, "grant")
  /\ tokens' = tokens \cup {t}
  /\ traded' = IF job[w].trade /\ traded[t.code] < MaxTokens THEN [traded EXCEPT ![t.code] = @ + 1] ELSE traded
  /\ Done(w)
  /\ unchangedAccounts /\ UNCHANGED <<codes, burnt, signed, restarts>>

\* A code is five minutes old: nobody can trade it, and burn forgets it.
CodeExpires ==
  \E c \in codes :
    /\ codes' = codes \ {c}
    /\ burnt' = burnt \ {c.id}
    /\ unchangedAccounts /\ UNCHANGED <<requestVars, tokens, traded, signed, restarts>>

OAuthRestart ==
  /\ restarts < MaxRestarts
  /\ restarts' = restarts + 1
  /\ burnt' = {} /\ cache' = [u \in UserIds |-> None]
  /\ job' = [w \in Workers |-> NoJob]
  /\ UNCHANGED <<users, sessions, contested, crowded, codes, tokens, traded, signed>>

OAuthInit ==
  /\ codes = {} /\ burnt = {} /\ tokens = {} /\ restarts = 0
  /\ traded = [c \in CodeIds |-> 0]
  /\ signed = {}

OAuthNext ==
  \/ AccountStep \/ CodeExpires \/ OAuthRestart
  \/ \E w \in Workers : StartApprove(w) \/ Approve(w) \/ StartTrade(w) \/ StartRefresh(w) \/ Grant(w)

OAuthSpec == RequestsInit /\ AccountsInit /\ OAuthInit /\ [][OAuthNext]_oauthVars

-----------------------------------------------------------------------------
\* A token that still counts never carries more than its user's role allows, although approve goes by
\* a role read up to 30 seconds before and tokens live on through changes of the role.
TokenWithinRole == \A t \in tokens : Live(t) /\ t.write => CanRespond(users[t.uid].role)

\* A code is traded once (line 63), however its uses overlap, unless the server restarted.
CodeTradedOnce == restarts = 0 => \A c \in CodeIds : traded[c] =< 1
=============================================================================
