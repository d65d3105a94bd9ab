------------------------------ MODULE Accounts -------------------------------
(***************************************************************************)
(* Accounts and sessions of src/src/app.js: setup, sign-in, password        *)
(* changes and the administrators' changes of other users.  A session       *)
(* cookie names a user and a session version and counts while it is that    *)
(* of the stored user; users are read through a cache of 30 seconds, and    *)
(* whoever changes a user forgets the cached copy once the store answered.  *)
(***************************************************************************)
EXTENDS Requests

CONSTANTS
  UserIds,      \* ids of users (a bound)
  Roles,        \* "admin" and some of the others
  MaxVersion    \* bound on session versions

ASSUME AccountsAssumption == "admin" \in Roles /\ None \notin UserIds \cup Roles /\ MaxVersion \in Nat \ {0}

VARIABLES
  users,        \* store.users: [role, disabled, version], role None while there is no such user
  cache,        \* userCache: None or the user as it was read
  sessions,     \* session cookies handed out: [uid, v]
  contested     \* history: two changes that can cost an administrator met

accountVars == <<users, cache, sessions, contested, requestVars>>

NoUser == [role |-> None, disabled |-> FALSE, version |-> 1]
Known(u) == users[u].role # None
Admins == {u \in UserIds : users[u].role = "admin" /\ ~users[u].disabled}
Session(u, v) == [uid |-> u, v |-> v]
Valid(s, user) == user.role # None /\ ~user.disabled /\ user.version = s.v
Manages(user) == user.role = "admin"
Demotes(patch) ==
  \/ "role" \in DOMAIN patch /\ patch.role # "admin"
  \/ "disabled" \in DOMAIN patch /\ patch.disabled

\* The update of u awaits the store; it signs the user out everywhere and its author in again.
Update(pc, u, patch, again) ==
  Job(pc, u, [patch |-> Patched(patch, [version |-> users[u].version + 1]), again |-> again])

-----------------------------------------------------------------------------
\* setup counts the users ...
StartSetup(w) ==
  /\ Idle(w) /\ \A u \in UserIds : ~Known(u)
  /\ Continue(w, Job("insert", None, [role |-> "admin", issue |-> TRUE]))
  /\ UNCHANGED <<users, cache, sessions, contested>>

\* ... and inserts the first one, who is signed in; an administrator's new user is not.
InsertUser(w) ==
  /\ At(w, "insert")
  /\ \E u \in UserIds :
       /\ ~Known(u)
       /\ users' = [users EXCEPT ![u].role = job[w].role]
       /\ sessions' = IF job[w].issue THEN sessions \cup {Session(u, 1)} ELSE sessions
  /\ Done(w)
  /\ UNCHANGED <<cache, contested>>

\* login reads the user ...
StartLogin(w) ==
  /\ Idle(w)
  /\ \E u \in UserIds :
       /\ Known(u) /\ ~users[u].disabled
       /\ Continue(w, Job("login", u, [v |-> users[u].version]))
  /\ UNCHANGED <<users, cache, sessions, contested>>

\* ... notes the time, forgets the cached copy and hands out a cookie of what it read.
Login(w) ==
  /\ At(w, "login")
  /\ cache' = [cache EXCEPT ![job[w].on] = None]
  /\ sessions' = sessions \cup {Session(job[w].on, job[w].v)}
  /\ Done(w)
  /\ UNCHANGED <<users, contested>>

\* What a request of the signed-in user me, whom the middleware read as user, goes on with: a change
\* of the own password, a new user, or another user's role, access or password.
Serve(w, me, user) ==
  \/ users[me].version < MaxVersion /\ Continue(w, Update("update", me, <<>>, TRUE))
  \/ /\ Manages(user) /\ \E u \in UserIds : ~Known(u)
     /\ \E r \in Roles : Continue(w, Job("insert", None, [role |-> r, issue |-> FALSE]))
  \/ /\ Manages(user)
     /\ \E u \in UserIds :
          /\ Known(u) /\ users[u].version < MaxVersion
          /\ \E patch \in {[role |-> r] : r \in Roles} \cup {[disabled |-> d] : d \in BOOLEAN} \cup {<<>>} :
               Continue(w, Update(IF users[u].role = "admin" /\ Demotes(patch) THEN "count" ELSE "update", u, patch,
                                  u = me /\ ~("disabled" \in DOMAIN patch /\ patch.disabled)))

\* The session middleware finds the user in the cache, or loads them ...
StartRequest(w) ==
  /\ Idle(w)
  /\ \E s \in sessions :
       IF cache[s.uid] = None
       THEN Continue(w, Job("load", s.uid, [session |-> s, user |-> users[s.uid]]))
       ELSE Valid(s, cache[s.uid]) /\ Serve(w, s.uid, cache[s.uid])
  /\ UNCHANGED <<users, cache, sessions, contested>>

\* ... and keeps what it read.
LoadUser(w) ==
  LET j == job[w] IN
  /\ At(w, "load")
  /\ cache' = [cache EXCEPT ![j.on] = j.user]
  /\ \/ Done(w)
     \/ Valid(j.session, j.user) /\ Serve(w, j.on, j.user)
  /\ UNCHANGED <<users, sessions, contested>>

\* Seeded fault: disabled administrators are counted too.
CountAdmins_DisabledToo(w) ==
  /\ At(w, "count")
  /\ Continue(w, IF Cardinality({u \in UserIds : users[u].role = "admin"}) =< 1 THEN NoJob
                 ELSE [job[w] EXCEPT !.pc = "update"])
  /\ UNCHANGED <<users, cache, sessions, contested>>

\* "Keep at least one active administrator": the others are counted before the user is changed.
CountAdmins(w) ==
  /\ At(w, "count")
  /\ Continue(w, IF Cardinality(Admins) =< 1 THEN NoJob ELSE [job[w] EXCEPT !.pc = "update"])
  /\ UNCHANGED <<users, cache, sessions, contested>>

\* Seeded fault: an update of a user's role leaves the session version alone.
WriteUser_RoleKeepsSessions(w) ==
  LET j == job[w] IN
  /\ At(w, "update")
  /\ users' = [users EXCEPT ![j.on] =
       Patched(@, IF "role" \in DOMAIN j.patch THEN [role |-> j.patch.role] ELSE j.patch)]
  /\ contested' = (contested \/ (Demotes(j.patch) /\ \E v \in Workers \ {w} : At(v, "update") /\ Demotes(job[v].patch)))
  /\ Continue(w, [j EXCEPT !.pc = "forget"])
  /\ UNCHANGED <<cache, sessions>>

WriteUser(w) ==
  LET j == job[w] IN
  /\ At(w, "update")
  /\ users' = [users EXCEPT ![j.on] = Patched(@, j.patch)]
  /\ contested' = (contested \/ (Demotes(j.patch) /\ \E v \in Workers \ {w} : At(v, "update") /\ Demotes(job[v].patch)))
  /\ Continue(w, [j EXCEPT !.pc = "forget"])
  /\ UNCHANGED <<cache, sessions>>

\* forgetUser once the store answered, and a new cookie for who changed their own account.
ForgetUser(w) ==
  LET j == job[w] IN
  /\ At(w, "forget")
  /\ cache' = [cache EXCEPT ![j.on] = None]
  /\ sessions' = IF j.again THEN sessions \cup {Session(j.on, j.patch.version)} ELSE sessions
  /\ Done(w)
  /\ UNCHANGED <<users, contested>>

\* A cached copy is 30 seconds old.
Lapse30(u) ==
  /\ cache[u] # None
  /\ cache' = [cache EXCEPT ![u] = None]
  /\ UNCHANGED <<users, sessions, contested, requestVars>>

AccountsInit ==
  /\ users = [u \in UserIds |-> NoUser]
  /\ cache = [u \in UserIds |-> None]
  /\ sessions = {} /\ contested = FALSE

AccountsNext ==
  \/ \E w \in Workers :
       \/ StartSetup(w) \/ InsertUser(w) \/ StartLogin(w) \/ Login(w) \/ StartRequest(w)
       \/ LoadUser(w) \/ CountAdmins(w) \/ WriteUser(w) \/ ForgetUser(w)
  \/ \E u \in UserIds : Lapse30(u)

AccountsSpec == RequestsInit /\ AccountsInit /\ [][AccountsNext]_accountVars

-----------------------------------------------------------------------------
\* "Any security-relevant change signs the user out everywhere" (line 225): no cookie handed out before
\* a change of a user names the version the user has after it, unless two requests were at work on the user.
ChangeSignsOut ==
  [][\A u \in UserIds \ crowded' :
       Known(u) /\ users'[u] # users[u] => Session(u, users'[u].version) \notin sessions]_accountVars

\* Requests never take away the last active administrator (lines 220-223), unless two changes that can do so meet.
AdminRemains == contested \/ (\A u \in UserIds : ~Known(u)) \/ Admins # {}
=============================================================================
