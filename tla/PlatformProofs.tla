---------------------------- MODULE PlatformProofs ----------------------------
(***************************************************************************)
(* What the server itself rests on, for every number of users, codes,       *)
(* alerts, rules, requests at once and restarts: AccountsInv of Accounts,   *)
(* GrantsInv and TradesInv of OAuth, QueueInv and HitsInv of Intake,        *)
(* StoreFileInv of StoreFile, FeedsInv of IntelFeeds and BurstsInv, of the  *)
(* detections, are inductive.                                               *)
(***************************************************************************)
EXTENDS OAuth, Intake, IntelFeeds, StoreFile, Detection, RequestLemmas

-----------------------------------------------------------------------------
(* Accounts. *)

UserOK(r) ==
  /\ {"role", "disabled", "version"} \subseteq DOMAIN r
  /\ r.role \in Roles \cup {None} /\ r.disabled \in BOOLEAN /\ r.version \in Nat \ {0}
  /\ r.role = None => ~r.disabled

PatchOK(p) ==
  /\ "version" \in DOMAIN p /\ p.version \in Nat \ {0}
  /\ "role" \in DOMAIN p => p.role \in Roles
  /\ "disabled" \in DOMAIN p => p.disabled \in BOOLEAN

Changing == {"count", "update", "forget"}

AccountJobOK(j) ==
  /\ {"pc", "on"} \subseteq DOMAIN j
  /\ IF j.pc \in {"idle", "insert"} THEN j.on = None ELSE j.on \in UserIds /\ Known(j.on)
  /\ j.pc = "insert" => j.role \in Roles /\ (j.role = "admin" \/ \E u \in UserIds : Known(u))
  /\ j.pc = "login" => j.v \in Nat
  /\ j.pc \in Changing => PatchOK(j.patch)

\* What the one request at work on a user has read of their session version still holds.
VersionFits(j) ==
  /\ j.pc = "login" => j.v =< users[j.on].version
  /\ j.pc \in {"count", "update"} => j.patch.version = users[j.on].version + 1
  /\ j.pc = "forget" => j.patch.version = users[j.on].version

OneChange(u) ==
  /\ \A v, w \in Workers : job[v].on = u /\ job[w].on = u => v = w
  /\ \A w \in Workers : job[w].on = u => VersionFits(job[w])
  /\ \A s \in sessions : s.uid = u => s.v =< users[u].version

\* A request about to take away an administrator leaves another one.
LeavesAnAdmin(j) == j.pc = "update" /\ Demotes(j.patch) => Admins \ {j.on} # {}

AccountsInv ==
  /\ DOMAIN users = UserIds /\ \A u \in UserIds : UserOK(users[u])
  /\ DOMAIN job = Workers /\ \A w \in Workers : AccountJobOK(job[w])
  /\ \A s \in sessions : s.uid \in UserIds /\ Known(s.uid) /\ s.v \in Nat
  /\ \A u \in UserIds \ crowded : OneChange(u)
  /\ AdminRemains
  /\ contested \/ \A w \in Workers : LeavesAnAdmin(job[w])

LEMMA IdleAccountJob == AccountJobOK(NoJob) /\ NoJob.on = None /\ NoJob.pc = "idle"
  BY DEF AccountJobOK, NoJob, Changing

\* While a user is not crowded, no second request works on them.
LEMMA OneUserRequest ==
  ASSUME AccountsInv, NEW w \in Workers, NEW j, Continue(w, j), NEW u \in UserIds \ crowded'
  PROVE  /\ u \notin crowded
         /\ \A v1, v2 \in Workers : job'[v1].on = u /\ job'[v2].on = u => v1 = v2
<1>1. u \notin crowded /\ (j.on = u => \A v \in Workers \ {w} : job[v].on # u)
  BY AccountsAssumption DEF Continue
<1> QED BY <1>1, ContinueJob DEF AccountsInv, OneChange

\* A step of one request that changes no user.
LEMMA SameUsersStep ==
  ASSUME AccountsInv, NEW w \in Workers, NEW j, Continue(w, j), UNCHANGED <<users, contested>>,
         AccountJobOK(j), j.on \in UserIds \ crowded => VersionFits(j), contested \/ LeavesAnAdmin(j),
         \A s \in sessions' : \/ s \in sessions
                              \/ /\ s.uid \in UserIds /\ Known(s.uid) /\ s.v \in Nat
                                 /\ s.uid \notin crowded => s.v =< users[s.uid].version
  PROVE  AccountsInv'
<1>1. DOMAIN job' = Workers /\ job'[w] = j /\ \A v \in Workers \ {w} : job'[v] = job[v]
  BY ContinueJob DEF AccountsInv
<1>2. ASSUME NEW v \in Workers PROVE AccountJobOK(job[v])' /\ (contested' \/ LeavesAnAdmin(job[v])')
  BY <1>1 DEF AccountsInv, AccountJobOK, Known, LeavesAnAdmin, Admins
<1>3. ASSUME NEW u \in UserIds \ crowded' PROVE OneChange(u)'
  <2>1. u \notin crowded /\ OneChange(u)
    BY OneUserRequest DEF AccountsInv
  <2>2. \A v \in Workers : job'[v].on = u => VersionFits(job[v])'
    BY <1>1, <2>1 DEF OneChange, VersionFits
  <2>3. \A s \in sessions' : s.uid = u => s.v =< users'[u].version
    BY <2>1 DEF OneChange
  <2> QED BY <2>2, <2>3, OneUserRequest DEF OneChange
<1>4. \A s \in sessions' : s.uid \in UserIds /\ Known(s.uid)' /\ s.v \in Nat
  BY DEF AccountsInv, Known
<1>5. AdminRemains'
  BY DEF AccountsInv, AdminRemains, Admins, Known
<1> QED BY <1>1, <1>2, <1>3, <1>4, <1>5 DEF AccountsInv

\* The patch of an update.
LEMMA UpdatePatch ==
  ASSUME NEW p, NEW n \in Nat \ {0}, DOMAIN p \subseteq {"role", "disabled"},
         "role" \in DOMAIN p => p.role \in Roles, "disabled" \in DOMAIN p => p.disabled \in BOOLEAN
  PROVE  LET q == Patched(p, [version |-> n])
         IN  PatchOK(q) /\ q.version = n /\ (Demotes(q) <=> Demotes(p))
<1>1. DOMAIN [version |-> n] = {"version"}
  OBVIOUS
<1>2. Patched(p, [version |-> n]) = [x \in DOMAIN p \cup {"version"} |-> IF x \in {"version"} THEN [version |-> n][x] ELSE p[x]]
  BY <1>1 DEF Patched
<1> QED BY <1>2 DEF PatchOK, Demotes

\* A request about to update a user.
LEMMA UpdateJob ==
  ASSUME AccountsInv, NEW u \in UserIds, Known(u), NEW pc \in {"count", "update"}, NEW p, NEW again,
         DOMAIN p \subseteq {"role", "disabled"},
         "role" \in DOMAIN p => p.role \in Roles, "disabled" \in DOMAIN p => p.disabled \in BOOLEAN,
         pc = "update" /\ Demotes(p) => contested \/ Admins \ {u} # {}
  PROVE  LET j == Update(pc, u, p, again)
         IN  AccountJobOK(j) /\ j.on = u /\ VersionFits(j) /\ (contested \/ LeavesAnAdmin(j))
<1>1. users[u].version + 1 \in Nat \ {0}
  BY DEF AccountsInv, UserOK
<1>2. PICK q : q = Patched(p, [version |-> users[u].version + 1])
  OBVIOUS
<1>3. PatchOK(q) /\ q.version = users[u].version + 1 /\ (Demotes(q) <=> Demotes(p))
  BY <1>1, <1>2, UpdatePatch
<1>4. DOMAIN [patch |-> q, again |-> again] = {"patch", "again"}
  OBVIOUS
<1>5. PICK j : j = Job(pc, u, [patch |-> q, again |-> again])
  OBVIOUS
<1>6. {"pc", "on"} \subseteq DOMAIN j /\ j.pc = pc /\ j.on = u /\ j.patch = q
  BY <1>4, <1>5, JobFields
<1>7. AccountJobOK(j) /\ VersionFits(j) /\ (contested \/ LeavesAnAdmin(j))
  BY <1>3, <1>6 DEF AccountJobOK, VersionFits, LeavesAnAdmin, Changing
<1> QED BY <1>2, <1>5, <1>6, <1>7 DEF Update
\* What a signed-in request goes on with.
LEMMA ServeJob ==
  ASSUME AccountsInv, NEW w \in Workers, NEW me \in UserIds, Known(me), NEW user, Serve(w, me, user)
  PROVE  \E j : Continue(w, j) /\ AccountJobOK(j) /\ (j.on \in UserIds => VersionFits(j)) /\ (contested \/ LeavesAnAdmin(j))
<1>1. PICK p0 : p0 = <<>> /\ DOMAIN p0 = {}
  OBVIOUS
<1>2. CASE Continue(w, Update("update", me, <<>>, TRUE))
  <2>1. ~Demotes(p0)
    BY <1>1 DEF Demotes
  <2>2. PICK again : again = TRUE
    OBVIOUS
  <2>3. LET j == Update("update", me, p0, again)
        IN  AccountJobOK(j) /\ j.on = me /\ VersionFits(j) /\ (contested \/ LeavesAnAdmin(j))
    BY <1>1, <2>1, UpdateJob
  <2> QED BY <1>1, <1>2, <2>2, <2>3
<1>3. CASE \E r \in Roles : Continue(w, Job("insert", None, [role |-> r, issue |-> FALSE]))
  <2>1. PICK r \in Roles : Continue(w, Job("insert", None, [role |-> r, issue |-> FALSE]))
    BY <1>3
  <2>2. DOMAIN [role |-> r, issue |-> FALSE] = {"role", "issue"}
    OBVIOUS
  <2>3. PICK j : j = Job("insert", None, [role |-> r, issue |-> FALSE])
    OBVIOUS
  <2>4. {"pc", "on"} \subseteq DOMAIN j /\ j.pc = "insert" /\ j.on = None /\ j.role = r
    BY <2>2, <2>3, JobFields
  <2>5. AccountJobOK(j) /\ (contested \/ LeavesAnAdmin(j))
    BY <2>4 DEF AccountJobOK, Changing, LeavesAnAdmin
  <2> QED BY <2>1, <2>3, <2>4, <2>5, AccountsAssumption
<1>4. CASE \E u \in UserIds : Known(u) /\ \E p \in {[role |-> r] : r \in Roles} \cup {[disabled |-> d] : d \in BOOLEAN} \cup {<<>>} :
             \E again : Continue(w, Update(IF users[u].role = "admin" /\ Demotes(p) THEN "count" ELSE "update", u, p, again))
  <2>1. PICK u \in UserIds : Known(u) /\ \E p \in {[role |-> r] : r \in Roles} \cup {[disabled |-> d] : d \in BOOLEAN} \cup {<<>>} :
             \E again : Continue(w, Update(IF users[u].role = "admin" /\ Demotes(p) THEN "count" ELSE "update", u, p, again))
    BY <1>4
  <2>2. PICK p \in {[role |-> r] : r \in Roles} \cup {[disabled |-> d] : d \in BOOLEAN} \cup {<<>>} :
             \E again : Continue(w, Update(IF users[u].role = "admin" /\ Demotes(p) THEN "count" ELSE "update", u, p, again))
    BY <2>1
  <2>3. PICK again : Continue(w, Update(IF users[u].role = "admin" /\ Demotes(p) THEN "count" ELSE "update", u, p, again))
    BY <2>2
  <2>4. PICK pc : pc = IF users[u].role = "admin" /\ Demotes(p) THEN "count" ELSE "update"
    OBVIOUS
  <2>5. \A r \in Roles : DOMAIN [role |-> r] = {"role"} /\ [role |-> r].role = r
    OBVIOUS
  <2>6. \A d \in BOOLEAN : DOMAIN [disabled |-> d] = {"disabled"} /\ [disabled |-> d].disabled = d
    OBVIOUS
  <2>7. /\ DOMAIN p \subseteq {"role", "disabled"} /\ ("role" \in DOMAIN p => p.role \in Roles)
        /\ ("disabled" \in DOMAIN p => p.disabled \in BOOLEAN)
    <3>1. CASE \E r \in Roles : p = [role |-> r]
      BY <2>5, <3>1
    <3>2. CASE \E d \in BOOLEAN : p = [disabled |-> d]
      BY <2>6, <3>2
    <3>3. CASE p = <<>>
      BY <1>1, <3>3
    <3> QED BY <2>2, <3>1, <3>2, <3>3
  <2>8. pc \in {"count", "update"} /\ (pc = "update" /\ Demotes(p) => contested \/ Admins \ {u} # {})
    <3>1. contested \/ Admins # {}
      BY <2>1 DEF AccountsInv, AdminRemains
    <3> QED BY <2>4, <3>1 DEF Admins
  <2>9. LET j == Update(pc, u, p, again)
        IN  AccountJobOK(j) /\ j.on = u /\ VersionFits(j) /\ (contested \/ LeavesAnAdmin(j))
    BY <2>1, <2>7, <2>8, UpdateJob
  <2> QED BY <2>3, <2>4, <2>9
<1> QED BY <1>2, <1>3, <1>4 DEF Serve

\* A request that goes on from Serve.
LEMMA ServeStep ==
  ASSUME AccountsInv, NEW w \in Workers, NEW me \in UserIds, Known(me), NEW user, Serve(w, me, user),
         UNCHANGED <<users, sessions, contested>>
  PROVE  AccountsInv'
  BY ServeJob, SameUsersStep

\* A request that reads a user: the fields of its job do not matter further.
LEMMA ReadJob ==
  ASSUME NEW u \in UserIds, Known(u), NEW pc, pc \notin Changing \cup {"idle", "insert", "login"}, NEW fields
  PROVE  LET j == Job(pc, u, fields)
         IN  AccountJobOK(j) /\ VersionFits(j) /\ (contested \/ LeavesAnAdmin(j))
<1>1. PICK j : j = Job(pc, u, fields)
  OBVIOUS
<1>2. {"pc", "on"} \subseteq DOMAIN j /\ j.pc = pc /\ j.on = u
  BY <1>1, JobFields
<1>3. AccountJobOK(j) /\ VersionFits(j) /\ (contested \/ LeavesAnAdmin(j))
  BY <1>2 DEF AccountJobOK, VersionFits, LeavesAnAdmin, Changing
<1> QED BY <1>1, <1>3

LEMMA SignInStep ==
  ASSUME AccountsInv, NEW w \in Workers, StartSetup(w) \/ StartLogin(w) \/ Login(w) \/ StartRequest(w) \/ LoadUser(w)
  PROVE  AccountsInv'
<1>1. CASE StartSetup(w)
  <2>1. PICK j : j = Job("insert", None, [role |-> "admin", issue |-> TRUE])
    OBVIOUS
  <2>2. DOMAIN [role |-> "admin", issue |-> TRUE] = {"role", "issue"}
    OBVIOUS
  <2>3. {"pc", "on"} \subseteq DOMAIN j /\ j.pc = "insert" /\ j.on = None /\ j.role = "admin"
    BY <2>1, <2>2, JobFields
  <2>4. AccountJobOK(j) /\ (contested \/ LeavesAnAdmin(j))
    BY <2>3, AccountsAssumption DEF AccountJobOK, Changing, LeavesAnAdmin
  <2>5. j.on \notin UserIds /\ Continue(w, j) /\ UNCHANGED <<users, sessions, contested>>
    BY <1>1, <2>1, <2>3, AccountsAssumption DEF StartSetup
  <2> QED BY <2>4, <2>5, SameUsersStep
<1>2. CASE StartLogin(w)
  <2>1. PICK u \in UserIds : Known(u) /\ Continue(w, Job("login", u, [v |-> users[u].version]))
    BY <1>2 DEF StartLogin
  <2>2. PICK v : v = users[u].version
    OBVIOUS
  <2>3. DOMAIN [v |-> v] = {"v"}
    OBVIOUS
  <2>4. PICK j : j = Job("login", u, [v |-> v])
    OBVIOUS
  <2>5. {"pc", "on"} \subseteq DOMAIN j /\ j.pc = "login" /\ j.on = u /\ j.v = v
    BY <2>3, <2>4, JobFields
  <2>6. AccountJobOK(j) /\ VersionFits(j) /\ (contested \/ LeavesAnAdmin(j))
    BY <2>1, <2>2, <2>5 DEF AccountsInv, UserOK, AccountJobOK, VersionFits, LeavesAnAdmin, Changing
  <2>7. Continue(w, j) /\ UNCHANGED <<users, sessions, contested>>
    BY <1>2, <2>1, <2>2, <2>4 DEF StartLogin
  <2> QED BY <2>6, <2>7, SameUsersStep
<1>3. CASE Login(w)
  <2>1. PICK j : j = job[w] /\ j.pc = "login" /\ AccountJobOK(j) /\ j.on \in UserIds /\ Known(j.on) /\ j.v \in Nat
    BY <1>3 DEF Login, At, AccountsInv, AccountJobOK
  <2>2. j.on \notin crowded => j.v =< users[j.on].version
    BY <2>1 DEF AccountsInv, OneChange, VersionFits
  <2>3. /\ sessions' = sessions \cup {Session(j.on, j.v)} /\ Continue(w, NoJob)
        /\ UNCHANGED <<users, contested>>
    BY <1>3, <2>1 DEF Login, Done
  <2>4. NoJob.on \notin UserIds /\ AccountJobOK(NoJob) /\ LeavesAnAdmin(NoJob)
    BY IdleAccountJob, AccountsAssumption DEF LeavesAnAdmin
  <2> QED BY <2>1, <2>2, <2>3, <2>4, SameUsersStep DEF Session
<1>4. CASE StartRequest(w)
  <2>1. PICK s \in sessions : IF cache[s.uid] = None
       THEN Continue(w, Job("load", s.uid, [session |-> s, user |-> users[s.uid]]))
       ELSE Valid(s, cache[s.uid]) /\ Serve(w, s.uid, cache[s.uid])
    BY <1>4 DEF StartRequest
  <2>2. s.uid \in UserIds /\ Known(s.uid) /\ UNCHANGED <<users, sessions, contested>>
    BY <1>4 DEF AccountsInv, StartRequest
  <2>3. CASE Serve(w, s.uid, cache[s.uid])
    BY <2>2, <2>3, ServeStep
  <2>4. CASE Continue(w, Job("load", s.uid, [session |-> s, user |-> users[s.uid]]))
    <3>1. PICK u \in UserIds : u = s.uid
      BY <2>2
    <3>2. PICK f : f = [session |-> s, user |-> users[s.uid]]
      OBVIOUS
    <3>3. LET j == Job("load", u, f) IN AccountJobOK(j) /\ VersionFits(j) /\ (contested \/ LeavesAnAdmin(j))
      BY <2>2, <3>1, ReadJob DEF Changing
    <3> QED BY <2>2, <2>4, <3>1, <3>2, <3>3, SameUsersStep
  <2> QED BY <2>1, <2>3, <2>4
<1>5. CASE LoadUser(w)
  <2>1. PICK j : j = job[w] /\ j.on \in UserIds /\ Known(j.on)
    BY <1>5 DEF LoadUser, At, AccountsInv, AccountJobOK
  <2>2. UNCHANGED <<users, sessions, contested>> /\ (Continue(w, NoJob) \/ Serve(w, j.on, j.user))
    BY <1>5, <2>1 DEF LoadUser, Done
  <2>3. CASE Continue(w, NoJob)
    <3>1. NoJob.on \notin UserIds /\ AccountJobOK(NoJob) /\ LeavesAnAdmin(NoJob)
      BY IdleAccountJob, AccountsAssumption DEF LeavesAnAdmin
    <3> QED BY <2>2, <2>3, <3>1, SameUsersStep
  <2> QED BY <2>1, <2>2, <2>3, ServeStep
<1> QED BY <1>1, <1>2, <1>3, <1>4, <1>5

LEMMA CountAdminsStep == ASSUME AccountsInv, NEW w \in Workers, CountAdmins(w) PROVE AccountsInv'
<1>1. PICK j : /\ Continue(w, j) /\ UNCHANGED <<users, sessions, contested>>
               /\ j = IF Cardinality(Admins) =< 1 THEN NoJob ELSE [job[w] EXCEPT !.pc = "update"]
  BY DEF CountAdmins
<1>2. CASE Cardinality(Admins) =< 1
  <2>1. NoJob.on \notin UserIds /\ AccountJobOK(NoJob) /\ LeavesAnAdmin(NoJob)
    BY IdleAccountJob, AccountsAssumption DEF LeavesAnAdmin
  <2> QED BY <1>1, <1>2, <2>1, SameUsersStep
<1>3. CASE ~(Cardinality(Admins) =< 1)
  <2>1. AccountJobOK(job[w]) /\ job[w].pc = "count"
    BY DEF CountAdmins, At, AccountsInv
  <2>2. j = [job[w] EXCEPT !.pc = "update"]
    BY <1>1, <1>3
  <2>3. {"pc", "on"} \subseteq DOMAIN j /\ j.pc = "update" /\ j.on = job[w].on /\ j.patch = job[w].patch
    BY <2>1, <2>2 DEF AccountJobOK
  <2>4. AccountJobOK(j)
    BY <2>1, <2>3 DEF AccountJobOK, Changing
  <2>5. j.on \in UserIds \ crowded => VersionFits(j)
    BY <2>1, <2>3 DEF AccountsInv, OneChange, VersionFits
  <2>6. Admins \ {j.on} # {}
    <3>1. ASSUME Admins \ {j.on} = {} PROVE Cardinality(Admins) =< 1
      <4>1. CASE Admins = {}
        BY <4>1, FS_EmptySet
      <4>2. CASE Admins = {j.on}
        <5>1. PICK a : a = j.on
          OBVIOUS
        <5>2. Cardinality({a}) = 1
          BY FS_Singleton
        <5> QED BY <4>2, <5>1, <5>2
      <4> QED BY <3>1, <4>1, <4>2
    <3> QED BY <1>3, <3>1
  <2>7. LeavesAnAdmin(j)
    BY <2>6 DEF LeavesAnAdmin
  <2> QED BY <1>1, <2>4, <2>5, <2>7, SameUsersStep
<1> QED BY <1>2, <1>3

LEMMA ForgetUserStep == ASSUME AccountsInv, NEW w \in Workers, ForgetUser(w) PROVE AccountsInv'
<1>1. PICK j : j = job[w] /\ j.pc = "forget" /\ AccountJobOK(j)
  BY DEF ForgetUser, At, AccountsInv
<1>2. j.on \in UserIds /\ Known(j.on) /\ j.patch.version \in Nat
  BY <1>1 DEF AccountJobOK, Changing, PatchOK
<1>3. j.on \notin crowded => j.patch.version =< users[j.on].version
  BY <1>1, <1>2 DEF AccountsInv, OneChange, VersionFits
<1>4. /\ sessions' = IF j.again THEN sessions \cup {Session(j.on, j.patch.version)} ELSE sessions
      /\ Continue(w, NoJob) /\ UNCHANGED <<users, contested>>
  BY <1>1 DEF ForgetUser, Done
<1>5. \A s \in sessions' : s \in sessions \/ (s.uid = j.on /\ s.v = j.patch.version)
  BY <1>4 DEF Session
<1>6. NoJob.on \notin UserIds /\ AccountJobOK(NoJob) /\ LeavesAnAdmin(NoJob)
  BY IdleAccountJob, AccountsAssumption DEF LeavesAnAdmin
<1>7. \A s \in sessions' : \/ s \in sessions
                           \/ /\ s.uid \in UserIds /\ Known(s.uid) /\ s.v \in Nat
                              /\ s.uid \notin crowded => s.v =< users[s.uid].version
  BY <1>2, <1>3, <1>5
<1> QED BY <1>4, <1>6, <1>7, SameUsersStep

\* The new user is no one's yet: no request works on them and no session names them.
LEMMA InsertUserStep == ASSUME AccountsInv, NEW w \in Workers, InsertUser(w) PROVE AccountsInv'
<1>1. PICK r : r = job[w].role /\ r \in Roles /\ (r = "admin" \/ \E u \in UserIds : Known(u))
  BY DEF InsertUser, At, AccountsInv, AccountJobOK
<1>2. PICK u \in UserIds :
        /\ ~Known(u) /\ users' = [users EXCEPT ![u].role = r]
        /\ sessions' \subseteq sessions \cup {Session(u, 1)}
  BY <1>1 DEF InsertUser
<1>3. Continue(w, NoJob) /\ UNCHANGED contested
  BY DEF InsertUser, Done
<1>4. DOMAIN job' = Workers /\ job'[w] = NoJob /\ \A v \in Workers \ {w} : job'[v] = job[v]
  BY <1>3, ContinueJob DEF AccountsInv
<1>5. /\ DOMAIN users' = UserIds /\ \A x \in UserIds \ {u} : users'[x] = users[x]
      /\ users'[u].role = r /\ users'[u].disabled = FALSE /\ users'[u].version = users[u].version
      /\ UserOK(users'[u])
  BY <1>1, <1>2, AccountsAssumption DEF AccountsInv, UserOK, Known
<1>6. /\ Known(u)' /\ (\A x \in UserIds : Known(x) => Known(x)')
      /\ Admins \subseteq Admins' /\ (r = "admin" => u \in Admins')
  BY <1>1, <1>2, <1>5, AccountsAssumption DEF Known, Admins
<1>7. ASSUME NEW v \in Workers PROVE AccountJobOK(job[v])' /\ (contested' \/ LeavesAnAdmin(job[v])')
  <2>1. CASE v = w
    BY <1>4, <2>1, IdleAccountJob DEF AccountJobOK, LeavesAnAdmin, Changing
  <2>2. CASE v # w
    BY <1>3, <1>4, <1>6, <2>2 DEF AccountsInv, AccountJobOK, LeavesAnAdmin
  <2> QED BY <2>1, <2>2
<1>8. \A v \in Workers : job[v].on # u /\ job'[v].on # u
  BY <1>2, <1>4, IdleAccountJob, AccountsAssumption DEF AccountsInv, AccountJobOK
<1>9. \A s \in sessions' : s \in sessions \/ (s.uid = u /\ s.v = 1)
  BY <1>2 DEF Session
<1>10. \A s \in sessions : s.uid # u
  BY <1>2 DEF AccountsInv
<1>11. ASSUME NEW x \in UserIds \ crowded' PROVE OneChange(x)'
  <2>1. x \notin crowded /\ OneChange(x)
    BY <1>3, OneUserRequest DEF AccountsInv
  <2>2. \A v1, v2 \in Workers : job'[v1].on = x /\ job'[v2].on = x => v1 = v2
    BY <1>3, OneUserRequest
  <2>3. CASE x = u
    <3>1. users'[u].version \in Nat \ {0}
      BY <1>5 DEF UserOK
    <3> QED BY <1>8, <1>9, <1>10, <2>3, <3>1 DEF OneChange
  <2>4. CASE x # u
    <3>1. \A v \in Workers : job'[v].on = x => VersionFits(job[v])'
      BY <1>4, <1>5, <2>1, <2>4, IdleAccountJob, AccountsAssumption DEF OneChange, VersionFits
    <3>2. \A s \in sessions' : s.uid = x => s.v =< users'[x].version
      BY <1>5, <1>9, <2>1, <2>4 DEF OneChange
    <3> QED BY <2>2, <3>1, <3>2 DEF OneChange
  <2> QED BY <2>3, <2>4
<1>12. AdminRemains'
  BY <1>1, <1>3, <1>6 DEF AccountsInv, AdminRemains
<1>13. \A s \in sessions' : s.uid \in UserIds /\ Known(s.uid)' /\ s.v \in Nat
  BY <1>6, <1>9 DEF AccountsInv
<1>14. \A x \in UserIds : UserOK(users[x])'
  BY <1>5 DEF AccountsInv, UserOK
<1> QED BY <1>4, <1>5, <1>7, <1>11, <1>12, <1>13, <1>14 DEF AccountsInv

\* The user after the write.
LEMMA PatchedUser ==
  ASSUME NEW r, UserOK(r), r.role # None, NEW p, PatchOK(p)
  PROVE  LET q == Patched(r, p)
         IN  /\ UserOK(q) /\ q.role # None /\ q.version = p.version
             /\ ~Demotes(p) /\ r.role = "admin" /\ ~r.disabled => q.role = "admin" /\ ~q.disabled
  BY AccountsAssumption DEF UserOK, PatchOK, Patched, Demotes

LEMMA WriteUserStep == ASSUME AccountsInv, NEW w \in Workers, WriteUser(w) PROVE AccountsInv'
<1>1. PICK j : j = job[w] /\ j.pc = "update" /\ AccountJobOK(j)
  BY DEF WriteUser, At, AccountsInv
<1>2. PICK u \in UserIds : u = j.on /\ Known(u) /\ PatchOK(j.patch)
  BY <1>1 DEF AccountJobOK, Changing
<1>3. PICK q : /\ users' = [users EXCEPT ![u] = q] /\ UserOK(q) /\ q.role # None /\ q.version = j.patch.version
               /\ ~Demotes(j.patch) /\ u \in Admins => q.role = "admin" /\ ~q.disabled
  BY <1>1, <1>2, PatchedUser DEF WriteUser, AccountsInv, Known, Admins
<1>4. PICK k : k = [j EXCEPT !.pc = "forget"]
  OBVIOUS
<1>5. {"pc", "on"} \subseteq DOMAIN k /\ k.pc = "forget" /\ k.on = u /\ k.patch = j.patch
  BY <1>1, <1>2, <1>4 DEF AccountJobOK
<1>6. /\ Continue(w, k) /\ UNCHANGED sessions
      /\ contested' = (contested \/ (Demotes(j.patch) /\ \E v \in Workers \ {w} : At(v, "update") /\ Demotes(job[v].patch)))
  BY <1>1, <1>4 DEF WriteUser
<1>7. DOMAIN job' = Workers /\ job'[w] = k /\ \A v \in Workers \ {w} : job'[v] = job[v]
  BY <1>6, ContinueJob DEF AccountsInv
<1>8. DOMAIN users' = UserIds /\ users'[u] = q /\ \A x \in UserIds \ {u} : users'[x] = users[x]
  BY <1>3 DEF AccountsInv
<1>9. \A x \in UserIds : Known(x) => Known(x)'
  BY <1>3, <1>8 DEF Known
<1>10. Admins \ {u} \subseteq Admins' /\ (~Demotes(j.patch) => Admins \subseteq Admins')
  BY <1>3, <1>8 DEF Admins
<1>11. \A v \in Workers : AccountJobOK(job[v])'
  BY <1>2, <1>5, <1>7, <1>9 DEF AccountsInv, AccountJobOK
<1>12. ASSUME ~contested' PROVE AdminRemains' /\ \A v \in Workers : LeavesAnAdmin(job[v])'
  <2>1. ~contested /\ (Demotes(j.patch) => \A v \in Workers \ {w} : ~(job[v].pc = "update" /\ Demotes(job[v].patch)))
    BY <1>6, <1>12 DEF At
  <2>2. Admins # {} /\ LeavesAnAdmin(j) /\ \A v \in Workers : LeavesAnAdmin(job[v])
    BY <1>1, <1>2, <2>1 DEF AccountsInv, AdminRemains
  <2>3. CASE Demotes(j.patch)
    <3>1. Admins' # {}
      BY <1>1, <1>2, <1>10, <2>2, <2>3 DEF LeavesAnAdmin
    <3>2. \A v \in Workers : ~(job'[v].pc = "update" /\ Demotes(job'[v].patch))
      BY <1>5, <1>7, <2>1, <2>3
    <3> QED BY <3>1, <3>2 DEF AdminRemains, LeavesAnAdmin
  <2>4. CASE ~Demotes(j.patch)
    <3>1. Admins' # {}
      BY <1>10, <2>2, <2>4
    <3>2. \A v \in Workers : LeavesAnAdmin(job[v])'
      BY <1>5, <1>7, <1>10, <2>2, <2>4 DEF LeavesAnAdmin
    <3> QED BY <3>1, <3>2 DEF AdminRemains
  <2> QED BY <2>3, <2>4
<1>13. ASSUME NEW x \in UserIds \ crowded' PROVE OneChange(x)'
  <2>1. x \notin crowded /\ OneChange(x)
    BY <1>6, OneUserRequest DEF AccountsInv
  <2>2. \A v1, v2 \in Workers : job'[v1].on = x /\ job'[v2].on = x => v1 = v2
    BY <1>6, OneUserRequest
  <2>3. CASE x = u
    <3>1. q.version = users[u].version + 1 /\ users[u].version \in Nat
      BY <1>1, <1>2, <1>3, <2>1, <2>3 DEF OneChange, VersionFits, AccountsInv, UserOK
    <3>2. \A v \in Workers : job'[v].on = x => v = w
      BY <1>5, <1>7, <2>2, <2>3
    <3>3. VersionFits(job[w])'
      BY <1>3, <1>5, <1>7, <1>8 DEF VersionFits
    <3>4. \A s \in sessions' : s.uid = x => s.v =< users'[x].version
      BY <1>6, <1>8, <2>1, <2>3, <3>1 DEF OneChange, AccountsInv
    <3> QED BY <2>2, <3>2, <3>3, <3>4 DEF OneChange
  <2>4. CASE x # u
    <3>1. \A v \in Workers : job'[v].on = x => VersionFits(job[v])'
      BY <1>5, <1>7, <1>8, <2>1, <2>4 DEF OneChange, VersionFits
    <3>2. \A s \in sessions' : s.uid = x => s.v =< users'[x].version
      BY <1>6, <1>8, <2>1, <2>4 DEF OneChange
    <3> QED BY <2>2, <3>1, <3>2 DEF OneChange
  <2> QED BY <2>3, <2>4
<1>14. \A s \in sessions' : s.uid \in UserIds /\ Known(s.uid)' /\ s.v \in Nat
  BY <1>6, <1>9 DEF AccountsInv
<1>15. \A x \in UserIds : UserOK(users[x])'
  BY <1>3, <1>8 DEF AccountsInv, UserOK
<1>16. AdminRemains' /\ (contested' \/ \A v \in Workers : LeavesAnAdmin(job[v])')
  BY <1>12 DEF AdminRemains
<1> QED BY <1>7, <1>8, <1>11, <1>13, <1>14, <1>15, <1>16 DEF AccountsInv

LEMMA AccountsKeep == ASSUME AccountsInv, UNCHANGED <<users, sessions, contested, requestVars>> PROVE AccountsInv'
<1>1. UNCHANGED <<users, sessions, contested, job, crowded>>
  BY DEF requestVars
<1> QED BY <1>1 DEF AccountsInv, AdminRemains, LeavesAnAdmin, OneChange, VersionFits, AccountJobOK, Known, Admins

LEMMA AccountsStep == ASSUME AccountsInv, [AccountsNext]_accountVars PROVE AccountsInv'
<1>1. CASE \E u \in UserIds : Lapse30(u)
  BY <1>1, AccountsKeep DEF Lapse30
<1>2. CASE UNCHANGED accountVars
  BY <1>2, AccountsKeep DEF accountVars
<1> QED BY <1>1, <1>2, SignInStep, InsertUserStep, CountAdminsStep, WriteUserStep, ForgetUserStep DEF AccountsNext

LEMMA AccountsStart == RequestsInit /\ AccountsInit => AccountsInv
<1> SUFFICES ASSUME RequestsInit, AccountsInit PROVE AccountsInv
  OBVIOUS
<1>1. \A w \in Workers : job[w] = NoJob
  BY DEF RequestsInit
<1>2. \A w \in Workers : AccountJobOK(job[w]) /\ LeavesAnAdmin(job[w]) /\ job[w].on \notin UserIds
  BY <1>1, IdleAccountJob, AccountsAssumption DEF LeavesAnAdmin
<1>3. \A u \in UserIds : OneChange(u)
  BY <1>2 DEF OneChange, AccountsInit
<1>4. \A u \in UserIds : UserOK(users[u]) /\ ~Known(u)
  <2>1. UserOK(NoUser) /\ NoUser.role = None
    BY DEF NoUser, UserOK
  <2> QED BY <2>1 DEF AccountsInit, Known
<1> QED BY <1>2, <1>3, <1>4 DEF AccountsInv, AdminRemains, RequestsInit, AccountsInit

\* Requests never take away the last active administrator, unless two changes that can do so meet between
\* the count and the write (app.js 220-223).
THEOREM AdminsRemain == AccountsSpec => []AdminRemains
<1>1. AccountsInv => AdminRemains
  BY DEF AccountsInv
<1> QED BY <1>1, AccountsStart, AccountsStep, PTL DEF AccountsSpec

\* A change of a user leaves every session cookie handed out before it behind (app.js 225), unless two
\* requests were at work on the user.
THEOREM ChangesSignOut == AccountsSpec => ChangeSignsOut
<1> DEFINE Signs == \A u \in UserIds \ crowded' :
             Known(u) /\ users'[u] # users[u] => Session(u, users'[u].version) \notin sessions
<1>1. ASSUME AccountsInv, NEW w \in Workers, WriteUser(w), NEW u \in UserIds \ crowded',
             users'[u] # users[u]
      PROVE  Session(u, users'[u].version) \notin sessions
  <2>1. job[w].pc = "update" /\ AccountJobOK(job[w])
    BY <1>1 DEF WriteUser, At, AccountsInv
  <2>2. PICK x \in UserIds : x = job[w].on /\ Known(x) /\ PatchOK(job[w].patch)
    BY <2>1 DEF AccountJobOK, Changing
  <2>3. users' = [users EXCEPT ![x] = Patched(users[x], job[w].patch)] /\ u = x
    BY <1>1, <2>2 DEF WriteUser, AccountsInv
  <2>4. users'[u].version = job[w].patch.version
    BY <1>1, <2>2, <2>3, PatchedUser DEF AccountsInv, Known
  <2>5. OneChange(u)
    BY <1>1, OneUserRequest DEF AccountsInv, WriteUser
  <2>6. job[w].patch.version = users[u].version + 1 /\ users[u].version \in Nat
    BY <1>1, <2>1, <2>2, <2>3, <2>5 DEF OneChange, VersionFits, AccountsInv, UserOK
  <2>7. \A s \in sessions : s.uid = u => s.v =< users[u].version /\ s.v \in Nat
    BY <1>1, <2>5 DEF OneChange, AccountsInv
  <2> QED BY <2>4, <2>6, <2>7 DEF Session
<1>2. ASSUME AccountsInv, NEW w \in Workers, InsertUser(w), NEW u \in UserIds, Known(u) PROVE users'[u] = users[u]
  BY <1>2 DEF InsertUser, AccountsInv
<1>3. ASSUME NEW w \in Workers, \/ StartSetup(w) \/ StartLogin(w) \/ Login(w) \/ StartRequest(w)
                                \/ LoadUser(w) \/ CountAdmins(w) \/ ForgetUser(w)
      PROVE  users' = users
  BY <1>3 DEF StartSetup, StartLogin, Login, StartRequest, LoadUser, CountAdmins, ForgetUser
<1>4. ASSUME NEW u \in UserIds, Lapse30(u) PROVE users' = users
  BY <1>4 DEF Lapse30
<1>5. AccountsInv /\ [AccountsNext]_accountVars => [Signs]_accountVars
  BY <1>1, <1>2, <1>3, <1>4 DEF AccountsNext
<1> QED BY <1>5, AccountsStart, AccountsStep, PTL DEF AccountsSpec, ChangeSignsOut
-----------------------------------------------------------------------------
(* OAuth grants and the roles of their users. *)

\* What a grant says of its user was true of the user once, and still is if it counts.
GrantOK(t) ==
  /\ t \in [uid : UserIds, v : Nat, write : BOOLEAN, code : CodeIds]
  /\ Known(t.uid) /\ t.v =< users[t.uid].version
  /\ Live(t) /\ t.write => CanRespond(users[t.uid].role)

JobOK(j) ==
  /\ j.pc = "approve" => j.uid \in UserIds /\ j.v \in Nat /\ j.write \in BOOLEAN
  /\ j.pc = "grant" => GrantOK(j.token) /\ j.trade \in BOOLEAN

GrantsInv ==
  /\ users \in [UserIds -> [role : Roles \cup {None}, disabled : BOOLEAN, version : Nat]]
  /\ DOMAIN job = Workers /\ \A w \in Workers : JobOK(job[w])
  /\ codes \subseteq [id : CodeIds, uid : UserIds, v : Nat, write : BOOLEAN]
  /\ \A t \in tokens : GrantOK(t)

Trading(w, id) == At(w, "grant") /\ job[w].trade /\ job[w].token.code = id

\* A code traded, or about to be, is burnt for as long as it is good.
Spent(id) == id \in signed /\ \A c \in codes : c.id = id => id \in burnt

TradesInv ==
  /\ restarts \in Nat /\ traded \in [CodeIds -> Nat]
  /\ \A c \in codes : c.id \in signed /\ \A d \in codes : c.id = d.id => c = d
  /\ restarts = 0 => \A id \in CodeIds :
       /\ traded[id] =< 1
       /\ traded[id] = 1 => Spent(id)
       /\ \A w \in Workers : Trading(w, id) =>
            traded[id] = 0 /\ Spent(id) /\ \A v \in Workers : Trading(v, id) => v = w

LEMMA ApproveJob ==
  ASSUME NEW u, NEW v, NEW write
  PROVE  LET j == Job("approve", None, [uid |-> u, v |-> v, write |-> write])
         IN  j.pc = "approve" /\ j.uid = u /\ j.v = v /\ j.write = write
<1>1. DOMAIN [uid |-> u, v |-> v, write |-> write] = {"uid", "v", "write"}
  OBVIOUS
<1> QED BY <1>1, JobFields

LEMMA GrantJob ==
  ASSUME NEW t, NEW trade
  PROVE  LET j == Job("grant", None, [token |-> t, trade |-> trade])
         IN  j.pc = "grant" /\ j.token = t /\ j.trade = trade
<1>1. DOMAIN [token |-> t, trade |-> trade] = {"token", "trade"}
  OBVIOUS
<1> QED BY <1>1, JobFields

\* While no user changes, a grant is as good as it was.
LEMMA SameUsersSameGrants ==
  ASSUME UNCHANGED users, NEW t, GrantOK(t)
  PROVE  GrantOK(t)'
  BY DEF GrantOK, Live, Known

\* A step of one request, with what it goes on as, the codes and the tokens it leaves.
LEMMA RequestKeepsGrants ==
  ASSUME GrantsInv, UNCHANGED users, NEW w \in Workers, NEW j, Continue(w, j), JobOK(j),
         codes' \subseteq [id : CodeIds, uid : UserIds, v : Nat, write : BOOLEAN],
         \A t \in tokens' : GrantOK(t)
  PROVE  GrantsInv'
<1>1. DOMAIN job' = Workers /\ job'[w] = j /\ \A v \in Workers \ {w} : job'[v] = job[v]
  BY ContinueJob DEF GrantsInv
<1>2. ASSUME NEW v \in Workers PROVE JobOK(job[v])'
  <2>1. JobOK(job'[v])
    BY <1>1 DEF GrantsInv
  <2> QED BY <2>1, SameUsersSameGrants DEF JobOK
<1>3. \A t \in tokens' : GrantOK(t)'
  BY SameUsersSameGrants
<1> QED BY <1>1, <1>2, <1>3 DEF GrantsInv

\* A user is added or changed: the session version leaves every older grant behind.
LEMMA AccountStepKeepsGrants == ASSUME GrantsInv, AccountStep PROVE GrantsInv'
<1>1. PICK u \in UserIds :
        /\ \/ \E r \in Roles : ~Known(u) /\ users' = [users EXCEPT ![u].role = r]
           \/ /\ Known(u)
              /\ \E r \in Roles, d \in BOOLEAN :
                   users' = [users EXCEPT ![u] = [role |-> r, disabled |-> d, version |-> @.version + 1]]
           \/ UNCHANGED users
        /\ UNCHANGED <<job, codes, tokens>>
  BY DEF AccountStep, requestVars
<1>2. users' \in [UserIds -> [role : Roles \cup {None}, disabled : BOOLEAN, version : Nat]]
  BY <1>1 DEF GrantsInv
<1>3. ASSUME NEW t, GrantOK(t) PROVE GrantOK(t)'
  <2>1. CASE \E r \in Roles : ~Known(u) /\ users' = [users EXCEPT ![u].role = r]
    BY <1>3, <2>1 DEF GrantOK, Live, Known, GrantsInv
  <2>2. CASE /\ Known(u)
             /\ \E r \in Roles, d \in BOOLEAN :
                  users' = [users EXCEPT ![u] = [role |-> r, disabled |-> d, version |-> @.version + 1]]
    BY <1>3, <2>2, AccountsAssumption DEF GrantOK, Live, Known, GrantsInv
  <2>3. CASE UNCHANGED users
    BY <1>3, <2>3, SameUsersSameGrants
  <2> QED BY <1>1, <2>1, <2>2, <2>3
<1>4. ASSUME NEW w \in Workers PROVE JobOK(job[w])'
  BY <1>1, <1>3 DEF JobOK, GrantsInv
<1> QED BY <1>1, <1>2, <1>3, <1>4 DEF GrantsInv

LEMMA NoJobOK == JobOK(NoJob)
  BY DEF JobOK, NoJob

LEMMA GrantsStep == ASSUME GrantsInv, [OAuthNext]_oauthVars PROVE GrantsInv'
<1>1. ASSUME NEW w \in Workers, StartApprove(w) PROVE GrantsInv'
  <2>1. PICK u \in UserIds, allow \in BOOLEAN :
          Continue(w, Job("approve", None, [uid |-> u, v |-> users[u].version,
                                            write |-> allow /\ CanRespond(cache[u].role)]))
    BY <1>1 DEF StartApprove
  <2> DEFINE j == Job("approve", None, [uid |-> u, v |-> users[u].version,
                                        write |-> allow /\ CanRespond(cache[u].role)])
  <2>2. j.pc = "approve" /\ j.uid = u /\ j.v = users[u].version /\ j.write = (allow /\ CanRespond(cache[u].role))
    BY ApproveJob
  <2>3. j.write \in BOOLEAN /\ j.v \in Nat
    BY <2>2 DEF GrantsInv
  <2>4. JobOK(j)
    BY <2>2, <2>3 DEF JobOK
  <2> QED BY <1>1, <2>1, <2>4, RequestKeepsGrants DEF StartApprove, unchangedAccounts, GrantsInv
<1>2. ASSUME NEW w \in Workers, Approve(w) PROVE GrantsInv'
  <2>1. PICK id \in CodeIds :
          codes' = codes \cup {[id |-> id, uid |-> job[w].uid, v |-> job[w].v, write |-> job[w].write]}
    BY <1>2 DEF Approve
  <2>2. job[w].uid \in UserIds /\ job[w].v \in Nat /\ job[w].write \in BOOLEAN
    BY <1>2 DEF Approve, At, GrantsInv, JobOK
  <2>3. codes' \subseteq [id : CodeIds, uid : UserIds, v : Nat, write : BOOLEAN]
    BY <2>1, <2>2 DEF GrantsInv
  <2> QED BY <1>2, <2>3, NoJobOK, RequestKeepsGrants DEF Approve, Done, unchangedAccounts, GrantsInv
<1>3. ASSUME NEW w \in Workers, StartTrade(w) PROVE GrantsInv'
  <2>1. PICK c \in codes :
          Continue(w, IF Live(c) THEN Job("grant", None, [token |->
               [uid |-> c.uid, v |-> c.v, write |-> CapScope(c.uid, c.write), code |-> c.id], trade |-> TRUE])
             ELSE NoJob)
    BY <1>3 DEF StartTrade
  <2> DEFINE t == [uid |-> c.uid, v |-> c.v, write |-> CapScope(c.uid, c.write), code |-> c.id]
             j == Job("grant", None, [token |-> t, trade |-> TRUE])
  <2>2. c \in [id : CodeIds, uid : UserIds, v : Nat, write : BOOLEAN]
    BY DEF GrantsInv
  <2>3. j.pc = "grant" /\ j.token = t /\ j.trade = TRUE
    BY GrantJob
  <2>4. ASSUME Live(c) PROVE GrantOK(t)
    BY <2>2, <2>4 DEF GrantOK, Live, Known, CapScope, GrantsInv
  <2>5. JobOK(IF Live(c) THEN j ELSE NoJob)
    BY <2>3, <2>4, NoJobOK DEF JobOK
  <2> QED BY <1>3, <2>1, <2>5, RequestKeepsGrants DEF StartTrade, unchangedAccounts, GrantsInv
<1>4. ASSUME NEW w \in Workers, StartRefresh(w) PROVE GrantsInv'
  <2>1. PICK t \in tokens :
          /\ Live(t)
          /\ Continue(w, Job("grant", None, [token |-> [t EXCEPT !.write = CapScope(t.uid, t.write)],
                                             trade |-> FALSE]))
    BY <1>4 DEF StartRefresh
  <2> DEFINE s == [t EXCEPT !.write = CapScope(t.uid, t.write)]
             j == Job("grant", None, [token |-> s, trade |-> FALSE])
  <2>2. j.pc = "grant" /\ j.token = s /\ j.trade = FALSE
    BY GrantJob
  <2>3. GrantOK(s)
    BY <2>1 DEF GrantOK, Live, Known, CapScope, GrantsInv
  <2>4. JobOK(j)
    BY <2>2, <2>3 DEF JobOK
  <2> QED BY <1>4, <2>1, <2>4, RequestKeepsGrants DEF StartRefresh, unchangedAccounts, GrantsInv
<1>5. ASSUME NEW w \in Workers, Grant(w) PROVE GrantsInv'
  <2>1. GrantOK(job[w].token)
    BY <1>5 DEF Grant, At, GrantsInv, JobOK
  <2>2. \A t \in tokens' : GrantOK(t)
    BY <1>5, <2>1 DEF Grant, GrantsInv
  <2> QED BY <1>5, <2>2, NoJobOK, RequestKeepsGrants DEF Grant, Done, unchangedAccounts, GrantsInv
<1>6. ASSUME UNCHANGED <<users, job, tokens>>, codes' \subseteq codes PROVE GrantsInv'
  BY <1>6 DEF GrantsInv, JobOK, GrantOK, Live, Known
<1>7. CASE CodeExpires
  BY <1>6, <1>7 DEF CodeExpires, unchangedAccounts, requestVars
<1>8. CASE OAuthRestart
  <2>1. /\ job' = [w \in Workers |-> NoJob]
        /\ UNCHANGED <<users, codes, tokens>>
    BY <1>8 DEF OAuthRestart
  <2>2. \A w \in Workers : JobOK(job[w])'
    BY <2>1 DEF JobOK, NoJob
  <2>3. \A t \in tokens : GrantOK(t)'
    BY <2>1, SameUsersSameGrants DEF GrantsInv
  <2> QED BY <2>1, <2>2, <2>3 DEF GrantsInv
<1>9. CASE UNCHANGED oauthVars
  BY <1>6, <1>9 DEF oauthVars, requestVars
<1> QED BY <1>1, <1>2, <1>3, <1>4, <1>5, <1>7, <1>8, <1>9, AccountStepKeepsGrants DEF OAuthNext

LEMMA GrantsStart == RequestsInit /\ AccountsInit /\ OAuthInit => GrantsInv
<1> SUFFICES ASSUME RequestsInit, AccountsInit, OAuthInit PROVE GrantsInv
  OBVIOUS
<1>1. \A w \in Workers : JobOK(job[w])
  BY NoJobOK DEF RequestsInit
<1> QED BY <1>1 DEF RequestsInit, AccountsInit, OAuthInit, GrantsInv, NoUser

\* A token that still counts never carries more than its user's role allows, however approvals, trades,
\* refreshes, changes of users and restarts overlap (liveUser and capScope, oauth.js 185-191).
THEOREM TokensStayWithinRole == OAuthSpec => []TokenWithinRole
<1>1. GrantsInv => TokenWithinRole
  BY DEF GrantsInv, GrantOK, TokenWithinRole
<1> QED BY <1>1, GrantsStart, GrantsStep, PTL DEF OAuthSpec
-----------------------------------------------------------------------------
(* Codes are traded once. *)

\* What is spent stays spent while codes are only added under new ids and none is forgotten.
LEMMA SpentStays ==
  ASSUME NEW id, Spent(id), signed \subseteq signed', burnt \subseteq burnt',
         \A c \in codes' : c \in codes \/ c.id \notin signed
  PROVE  Spent(id)'
  BY DEF Spent

\* A step of a request that trades nothing.
LEMMA RequestKeepsTrades ==
  ASSUME TradesInv, GrantsInv, NEW w \in Workers, NEW j, Continue(w, j), ~(j.pc = "grant" /\ j.trade),
         UNCHANGED <<traded, burnt, restarts>>, signed \subseteq signed',
         \A c \in codes' : c \in codes \/ c.id \notin signed,
         \A c \in codes' : c.id \in signed' /\ \A d \in codes' : c.id = d.id => c = d
  PROVE  TradesInv'
<1>1. \A v \in Workers, id \in CodeIds : Trading(v, id)' => Trading(v, id)
  BY ContinueJob DEF GrantsInv, Trading, At
<1>2. \A id \in CodeIds : Spent(id) => Spent(id)'
  BY SpentStays
<1> QED BY <1>1, <1>2 DEF TradesInv

\* The code's use burns it; no other use of it is under way.
LEMMA StartTradeKeepsTrades ==
  ASSUME TradesInv, GrantsInv, NEW w \in Workers, StartTrade(w)
  PROVE  TradesInv'
<1>1. PICK c \in codes :
        /\ c.id \notin burnt
        /\ burnt' = burnt \cup {c.id}
        /\ Continue(w, IF Live(c) THEN Job("grant", None, [token |->
               [uid |-> c.uid, v |-> c.v, write |-> CapScope(c.uid, c.write), code |-> c.id], trade |-> TRUE])
             ELSE NoJob)
  BY DEF StartTrade
<1> DEFINE t == [uid |-> c.uid, v |-> c.v, write |-> CapScope(c.uid, c.write), code |-> c.id]
           j == Job("grant", None, [token |-> t, trade |-> TRUE])
<1>2. j.pc = "grant" /\ j.token.code = c.id
  BY GrantJob
<1>3. /\ \A v \in Workers \ {w} : job'[v] = job[v]
      /\ job'[w] = j \/ job'[w] = NoJob
  BY <1>1, ContinueJob DEF GrantsInv
<1>4. UNCHANGED <<codes, traded, signed, restarts>>
  BY DEF StartTrade
<1>5. \A v \in Workers, id \in CodeIds : Trading(v, id)' => Trading(v, id) \/ (v = w /\ id = c.id)
  BY <1>2, <1>3 DEF Trading, At, NoJob
<1>6. \A id \in CodeIds : Spent(id) => Spent(id)'
  BY <1>1, <1>4, SpentStays
<1>7. ~Spent(c.id) /\ Spent(c.id)' /\ c.id \in CodeIds
  BY <1>1, <1>4 DEF Spent, TradesInv, GrantsInv
<1>8. restarts = 0 => traded[c.id] = 0 /\ \A v \in Workers : ~Trading(v, c.id)
  BY <1>7 DEF TradesInv
<1>9. ASSUME restarts' = 0, NEW id \in CodeIds, NEW v \in Workers, Trading(v, id)'
      PROVE  traded'[id] = 0 /\ Spent(id)' /\ \A u \in Workers : Trading(u, id)' => u = v
  BY <1>4, <1>5, <1>6, <1>7, <1>8, <1>9 DEF TradesInv
<1> QED BY <1>4, <1>6, <1>9 DEF TradesInv

LEMMA GrantKeepsTrades ==
  ASSUME TradesInv, GrantsInv, NEW w \in Workers, Grant(w)
  PROVE  TradesInv'
<1> DEFINE id == job[w].token.code
<1>1. job'[w] = NoJob /\ \A v \in Workers \ {w} : job'[v] = job[v]
  BY ContinueJob DEF Grant, Done, GrantsInv
<1>2. UNCHANGED <<codes, burnt, signed, restarts>>
  BY DEF Grant
<1>3. \A v \in Workers, i \in CodeIds : Trading(v, i)' => v # w /\ Trading(v, i)
  BY <1>1 DEF Trading, At, NoJob
<1>4. \A i \in CodeIds : Spent(i)' = Spent(i)
  BY <1>2 DEF Spent
<1>5. job[w].pc = "grant" /\ id \in CodeIds
  BY DEF Grant, At, GrantsInv, JobOK, GrantOK
<1>6. CASE job[w].trade /\ traded[id] < MaxTokens
  <2>1. traded' = [traded EXCEPT ![id] = @ + 1] /\ Trading(w, id)
    BY <1>5, <1>6 DEF Grant, Trading, At
  <2>2. restarts = 0 => /\ traded[id] = 0 /\ Spent(id)
                        /\ \A v \in Workers : Trading(v, id) => v = w
    BY <1>5, <2>1 DEF TradesInv
  <2>3. /\ traded' \in [CodeIds -> Nat] /\ traded'[id] = traded[id] + 1
        /\ \A i \in CodeIds \ {id} : traded'[i] = traded[i]
    BY <1>5, <2>1 DEF TradesInv
  <2>4. ASSUME restarts = 0, NEW i \in CodeIds
        PROVE  /\ traded'[i] =< 1
               /\ traded'[i] = 1 => Spent(i)
               /\ \A v \in Workers : Trading(v, i)' =>
                    traded'[i] = 0 /\ Spent(i) /\ \A u \in Workers : Trading(u, i)' => u = v
    <3>1. CASE i = id
      BY <1>3, <2>2, <2>3, <2>4, <3>1
    <3>2. CASE i # id
      BY <1>3, <2>3, <2>4, <3>2 DEF TradesInv
    <3> QED BY <3>1, <3>2
  <2> QED BY <1>2, <1>4, <2>3, <2>4 DEF TradesInv
<1>7. CASE ~(job[w].trade /\ traded[id] < MaxTokens)
  <2>1. UNCHANGED traded
    BY <1>7 DEF Grant
  <2> QED BY <1>2, <1>3, <1>4, <2>1 DEF TradesInv
<1> QED BY <1>6, <1>7

\* An expired code is forgotten, but it was the only one of its id.
LEMMA CodeExpiresKeepsTrades == ASSUME TradesInv, CodeExpires PROVE TradesInv'
<1>1. PICK c \in codes : codes' = codes \ {c} /\ burnt' = burnt \ {c.id}
  BY DEF CodeExpires
<1>2. UNCHANGED <<job, traded, signed, restarts>>
  BY DEF CodeExpires, requestVars
<1>3. \A id \in CodeIds : Spent(id) => Spent(id)'
  BY <1>1, <1>2 DEF Spent, TradesInv
<1>4. \A v \in Workers, id \in CodeIds : Trading(v, id)' = Trading(v, id)
  BY <1>2 DEF Trading, At
<1> QED BY <1>1, <1>2, <1>3, <1>4 DEF TradesInv

LEMMA TradesStep == ASSUME TradesInv, GrantsInv, [OAuthNext]_oauthVars PROVE TradesInv'
<1>1. ASSUME NEW w \in Workers, StartApprove(w) PROVE TradesInv'
  <2>1. PICK u \in UserIds, allow \in BOOLEAN :
          Continue(w, Job("approve", None, [uid |-> u, v |-> users[u].version,
                                            write |-> allow /\ CanRespond(cache[u].role)]))
    BY <1>1 DEF StartApprove
  <2>2. Job("approve", None, [uid |-> u, v |-> users[u].version,
                              write |-> allow /\ CanRespond(cache[u].role)]).pc = "approve"
    BY JobFields
  <2> QED BY <1>1, <2>1, <2>2, RequestKeepsTrades DEF StartApprove, TradesInv
<1>2. ASSUME NEW w \in Workers, Approve(w) PROVE TradesInv'
  <2>1. PICK id \in CodeIds \ signed :
          /\ signed' = signed \cup {id}
          /\ codes' = codes \cup {[id |-> id, uid |-> job[w].uid, v |-> job[w].v, write |-> job[w].write]}
    BY <1>2 DEF Approve
  <2>2. Continue(w, NoJob) /\ NoJob.pc # "grant" /\ UNCHANGED <<traded, burnt, restarts>>
    BY <1>2 DEF Approve, Done, NoJob
  <2>3. \A c \in codes' : c \in codes \/ c.id = id
    BY <2>1
  <2>4. \A c \in codes' : c.id \in signed' /\ \A d \in codes' : c.id = d.id => c = d
    BY <2>1 DEF TradesInv
  <2> QED BY <2>1, <2>2, <2>3, <2>4, RequestKeepsTrades
<1>3. ASSUME NEW w \in Workers, StartRefresh(w) PROVE TradesInv'
  <2>1. PICK t \in tokens :
          Continue(w, Job("grant", None, [token |-> [t EXCEPT !.write = CapScope(t.uid, t.write)],
                                          trade |-> FALSE]))
    BY <1>3 DEF StartRefresh
  <2>2. ~Job("grant", None, [token |-> [t EXCEPT !.write = CapScope(t.uid, t.write)], trade |-> FALSE]).trade
    BY GrantJob
  <2> QED BY <1>3, <2>1, <2>2, RequestKeepsTrades DEF StartRefresh, TradesInv
<1>4. CASE AccountStep \/ UNCHANGED oauthVars
  <2>1. UNCHANGED <<job, codes, burnt, traded, signed, restarts>>
    BY <1>4 DEF AccountStep, oauthVars, requestVars
  <2> QED BY <2>1 DEF TradesInv, Trading, Spent, At
<1>5. CASE OAuthRestart
  BY <1>5 DEF OAuthRestart, TradesInv
<1> QED BY <1>1, <1>2, <1>3, <1>4, <1>5, StartTradeKeepsTrades, GrantKeepsTrades, CodeExpiresKeepsTrades DEF OAuthNext

\* A code is traded once, however its uses overlap and codes expire, as long as the server does not restart
\* (burn, oauth.js 60-67).
THEOREM CodesAreTradedOnce == OAuthSpec => []CodeTradedOnce
<1>1. RequestsInit /\ AccountsInit /\ OAuthInit => TradesInv
  BY DEF RequestsInit, OAuthInit, TradesInv, Trading, At, NoJob
<1>2. TradesInv => CodeTradedOnce
  BY DEF TradesInv, CodeTradedOnce
<1> QED BY <1>1, <1>2, GrantsStart, GrantsStep, TradesStep, PTL DEF OAuthSpec

-----------------------------------------------------------------------------
(* The triage queue. *)

\* A delivery still holds alerts only.
Delivering == {"insert_alerts", "count_hits", "queue"}
DeliveryOK(j) == j.pc \in Delivering => {"pc", "by"} \subseteq DOMAIN j /\ DOMAIN j.by \subseteq Arriving

QueueInv ==
  /\ triageQueue \in Seq(Arriving) /\ drain \in Arriving \cup {"idle", "called", "next"}
  /\ DOMAIN job = Workers /\ \A w \in Workers : DeliveryOK(job[w])
  /\ QueueIsDrained

LEMMA ByJob ==
  ASSUME NEW pc, NEW by
  PROVE  LET j == Job(pc, None, [by |-> by])
         IN  {"pc", "by"} \subseteq DOMAIN j /\ j.pc = pc /\ j.by = by
<1>1. DOMAIN [by |-> by] = {"by"}
  OBVIOUS
<1> QED BY <1>1, JobFields

LEMMA IdleDelivery == DeliveryOK(NoJob)
  BY DEF DeliveryOK, Delivering, NoJob

\* A request that leaves the queue and its loop alone.
LEMMA RequestKeepsQueue ==
  ASSUME QueueInv, NEW w \in Workers, NEW j, Continue(w, j), DeliveryOK(j), UNCHANGED <<triageQueue, drain>>
  PROVE  QueueInv'
  BY DEF QueueInv, Continue, DeliveryOK, QueueIsDrained

\* The loop takes an alert or ends with the queue empty.
LEMMA DrainStep == ASSUME QueueInv, DrainNext \/ DrainVerdict \/ Purge PROVE QueueInv'
<1>1. UNCHANGED job
  BY DEF DrainNext, DrainVerdict, Purge, requestVars
<1>2. CASE DrainNext /\ triageQueue # <<>>
  <2>1. /\ Head(triageQueue) \in Arriving /\ triageQueue' = Tail(triageQueue)
        /\ drain' \in {"next", Head(triageQueue)}
    BY <1>2 DEF DrainNext, QueueInv
  <2>2. triageQueue' \in Seq(Arriving)
    BY <1>2, <2>1 DEF QueueInv
  <2> QED BY <1>1, <2>1, <2>2, IntakeAssumption DEF QueueInv, QueueIsDrained, DeliveryOK
<1>3. CASE DrainNext /\ triageQueue = <<>>
  BY <1>1, <1>3 DEF DrainNext, QueueInv, QueueIsDrained, DeliveryOK
<1>4. CASE DrainVerdict \/ Purge
  BY <1>1, <1>4 DEF DrainVerdict, Purge, QueueInv, QueueIsDrained, DeliveryOK
<1> QED BY <1>2, <1>3, <1>4

\* A delivery queues alerts, and wakes the loop if it has ended.
LEMMA QueueTriageStep == ASSUME QueueInv, NEW w \in Workers, QueueTriage(w) PROVE QueueInv'
<1>1. Continue(w, NoJob)
  BY DEF QueueTriage, Done
<1>2. CASE UNCHANGED <<triageQueue, drain>>
  BY <1>1, <1>2, IdleDelivery, RequestKeepsQueue
<1>3. CASE drain' = (IF drain = "idle" THEN "called" ELSE drain) /\ ~UNCHANGED <<triageQueue, drain>>
  <2> DEFINE loud == {a \in DOMAIN job[w].by : job[w].by[a] = None}
  <2>1. PICK n \in 0 .. Cardinality(loud) : \E severe \in [1 .. n -> loud] : triageQueue' = triageQueue \o severe
    BY <1>3 DEF QueueTriage, Injection
  <2>2. loud \subseteq Arriving
    BY DEF QueueTriage, At, QueueInv, DeliveryOK, Delivering
  <2>3. PICK severe \in Seq(Arriving) : triageQueue' = triageQueue \o severe
    BY <2>1, <2>2
  <2>4. triageQueue' \in Seq(Arriving)
    BY <2>3 DEF QueueInv
  <2>5. DOMAIN job' = Workers /\ \A v \in Workers : DeliveryOK(job'[v])
    BY <1>1, IdleDelivery DEF QueueInv, Continue
  <2> QED BY <1>3, <2>4, <2>5, IntakeAssumption DEF QueueInv, QueueIsDrained, DeliveryOK
<1> QED BY <1>2, <1>3 DEF QueueTriage

LEMMA LandStep ==
  ASSUME QueueInv, NEW w \in Workers, StartLand(w) \/ InsertAlerts(w) \/ CountHits(w)
  PROVE  QueueInv'
<1>1. CASE StartLand(w)
  <2>1. PICK batch \in SUBSET (Arriving \ purged) : \E by \in [batch -> SuppIds \cup {None}] :
          Continue(w, Job("insert_alerts", None, [by |-> by]))
    BY <1>1 DEF StartLand
  <2>2. ASSUME NEW by \in [batch -> SuppIds \cup {None}] PROVE DeliveryOK(Job("insert_alerts", None, [by |-> by]))
    BY ByJob DEF DeliveryOK
  <2> QED BY <1>1, <2>1, <2>2, RequestKeepsQueue DEF StartLand
<1>2. CASE InsertAlerts(w)
  <2> DEFINE by == job[w].by
             fresh == {a \in DOMAIN by : alerts[a].status = "absent"}
  <2>1. DOMAIN by \subseteq Arriving
    BY <1>2 DEF InsertAlerts, At, QueueInv, DeliveryOK, Delivering
  <2>2. PICK some : some = Restrict(by, fresh)
    OBVIOUS
  <2>3. DOMAIN some \subseteq Arriving
    BY <2>1, <2>2 DEF Restrict
  <2>4. DeliveryOK(Job("count_hits", None, [by |-> some]))
    BY <2>3, ByJob DEF DeliveryOK
  <2>5. Continue(w, NoJob) \/ Continue(w, Job("count_hits", None, [by |-> some]))
    BY <1>2, <2>2 DEF InsertAlerts
  <2> QED BY <1>2, <2>4, <2>5, IdleDelivery, RequestKeepsQueue DEF InsertAlerts
<1>3. CASE CountHits(w)
  <2>1. PICK j : j = [job[w] EXCEPT !.pc = "queue"]
    OBVIOUS
  <2>2. DeliveryOK(j)
    BY <1>3, <2>1 DEF CountHits, At, QueueInv, DeliveryOK, Delivering
  <2> QED BY <1>3, <2>1, <2>2, RequestKeepsQueue DEF CountHits
<1> QED BY <1>1, <1>2, <1>3

\* Requests of administrators deliver nothing.
LEMMA RulesStep ==
  ASSUME QueueInv, NEW w \in Workers,
         AddSuppression(w) \/ ApplySuppression(w) \/ ApplyHits(w) \/ RemoveSuppression(w)
  PROVE  QueueInv'
<1>1. CASE AddSuppression(w)
  <2>1. PICK by : Continue(w, Job("apply", None, [by |-> by])) \/ Continue(w, NoJob)
    BY <1>1 DEF AddSuppression
  <2>2. DeliveryOK(Job("apply", None, [by |-> by]))
    BY ByJob DEF DeliveryOK, Delivering
  <2> QED BY <1>1, <2>1, <2>2, IdleDelivery, RequestKeepsQueue DEF AddSuppression
<1>2. CASE ApplySuppression(w)
  <2>1. PICK j : j = [job[w] EXCEPT !.pc = "apply_hits"]
    OBVIOUS
  <2>2. DeliveryOK(j)
    BY <1>2, <2>1 DEF DeliveryOK, Delivering
  <2> QED BY <1>2, <2>1, <2>2, RequestKeepsQueue DEF ApplySuppression
<1>3. CASE ApplyHits(w)
  BY <1>3, IdleDelivery, RequestKeepsQueue DEF ApplyHits, Done
<1>4. CASE RemoveSuppression(w)
  BY <1>4 DEF RemoveSuppression, requestVars, QueueInv, QueueIsDrained, DeliveryOK
<1> QED BY <1>1, <1>2, <1>3, <1>4

\* Alerts queued for triage have a loop at work on them, however deliveries, failing investigations, purges
\* and changes of the rules interleave (drainTriage, routes.js 532-541).
THEOREM TriageQueueIsDrained == IntakeSpec => []QueueIsDrained
<1>1. RequestsInit /\ IntakeInit => QueueInv
  BY IdleDelivery DEF RequestsInit, IntakeInit, QueueInv, QueueIsDrained
<1>2. QueueInv /\ [IntakeNext]_intakeVars => QueueInv'
  <2> SUFFICES ASSUME QueueInv, [IntakeNext]_intakeVars PROVE QueueInv'
    OBVIOUS
  <2>1. CASE UNCHANGED intakeVars
    BY <2>1 DEF intakeVars, requestVars, QueueInv, QueueIsDrained, DeliveryOK
  <2> QED BY <2>1, DrainStep, QueueTriageStep, LandStep, RulesStep DEF IntakeNext
<1>3. QueueInv => QueueIsDrained
  BY DEF QueueInv
<1> QED BY <1>1, <1>2, <1>3, PTL DEF IntakeSpec

-----------------------------------------------------------------------------
(* The hits of suppression rules. *)

\* Every rule has counted a set of alerts it closed, and what else it closed
\* is held by requests that have yet to count it, no alert by two of them.
Landed == {a \in Arriving : alerts[a].status # "absent"}
Uncounted(j, s) == IF j.pc \in {"count_hits", "apply", "apply_hits"} THEN {a \in DOMAIN j.by : j.by[a] = s} ELSE {}

HitsCounted(s) ==
  \E counted \in SUBSET (Covers[s] \cap Landed) :
    /\ supps[s].hits = Cardinality(counted)
    /\ Tagged(s) \subseteq counted \cup UNION {Uncounted(job[w], s) : w \in Workers}
    /\ \A w \in Workers : Uncounted(job[w], s) \subseteq Landed \ counted
    /\ \A v, w \in Workers : v # w => Uncounted(job[v], s) \cap Uncounted(job[w], s) = {}

\* A request closes alerts by rules that were there when it began and cover them.
ClosingOK(j) ==
  \/ j.pc = "idle"
  \/ /\ j.pc \in {"insert_alerts", "count_hits", "queue", "apply", "apply_hits"}
     /\ {"pc", "by"} \subseteq DOMAIN j /\ DOMAIN j.by \subseteq Arriving
     /\ \A a \in DOMAIN j.by : j.by[a] # None =>
          j.by[a] \in SuppIds /\ supps[j.by[a]].state # "absent" /\ a \in Covers[j.by[a]]

HitsInv ==
  /\ alerts \in [Arriving -> [status : {"absent", "NEW", "INVESTIGATING", "CONFIRMED", "FALSE_POSITIVE"},
                             by : SuppIds \cup {None}]]
  /\ supps \in [SuppIds -> [state : {"absent", "live", "removed"}, hits : Nat]]
  /\ DOMAIN job = Workers /\ \A w \in Workers : ClosingOK(job[w])
  /\ \A s \in SuppIds : supps[s].state = "absent" => supps[s].hits = 0 /\ Tagged(s) = {}
  /\ purged = {} => \A s \in SuppIds : supps[s].state = "live" => HitsCounted(s)

\* What requests hold for a rule may only grow, by alerts that had not landed.
LEMMA HitsStay ==
  ASSUME NEW s \in SuppIds, HitsCounted(s), supps'[s].hits = supps[s].hits, Landed \subseteq Landed',
         \A w \in Workers : /\ Uncounted(job[w], s) \subseteq Uncounted(job'[w], s)
                            /\ Uncounted(job'[w], s) \subseteq Landed'
                            /\ (Uncounted(job'[w], s) \ Uncounted(job[w], s)) \cap Landed = {},
         \A v, w \in Workers : v # w =>
           Uncounted(job'[v], s) = Uncounted(job[v], s) \/ Uncounted(job'[w], s) = Uncounted(job[w], s),
         Tagged(s)' \subseteq Tagged(s) \cup UNION {Uncounted(job'[w], s) : w \in Workers}
  PROVE  HitsCounted(s)'
<1>1. PICK counted \in SUBSET (Covers[s] \cap Landed) :
        /\ supps[s].hits = Cardinality(counted)
        /\ Tagged(s) \subseteq counted \cup UNION {Uncounted(job[w], s) : w \in Workers}
        /\ \A w \in Workers : Uncounted(job[w], s) \subseteq Landed \ counted
        /\ \A v, w \in Workers : v # w => Uncounted(job[v], s) \cap Uncounted(job[w], s) = {}
  BY DEF HitsCounted
<1>2. counted \in SUBSET (Covers[s] \cap Landed')
  OBVIOUS
<1>3. Tagged(s)' \subseteq counted \cup UNION {Uncounted(job'[w], s) : w \in Workers}
  BY <1>1
<1>4. \A w \in Workers : Uncounted(job'[w], s) \subseteq Landed' \ counted
  BY <1>1
<1>5. ASSUME NEW v \in Workers, NEW w \in Workers, v # w
      PROVE  Uncounted(job'[v], s) \cap Uncounted(job'[w], s) = {}
  <2>1. Uncounted(job[v], s) \cap Uncounted(job[w], s) = {} /\ Uncounted(job[v], s) \subseteq Landed
        /\ Uncounted(job[w], s) \subseteq Landed
    BY <1>1, <1>5
  <2> QED BY <1>5, <2>1
<1>6. supps'[s].hits = Cardinality(counted)
  BY <1>1
<1> QED BY <1>2, <1>3, <1>4, <1>5, <1>6 DEF HitsCounted

\* A request counts what it holds for a rule.
LEMMA HitsAdded ==
  ASSUME NEW s \in SuppIds, HitsCounted(s), NEW w \in Workers, Uncounted(job[w], s) \subseteq Covers[s],
         supps'[s].hits = supps[s].hits + Cardinality(Uncounted(job[w], s)), Landed' = Landed,
         Uncounted(job'[w], s) = {}, \A v \in Workers \ {w} : Uncounted(job'[v], s) = Uncounted(job[v], s),
         Tagged(s)' = Tagged(s)
  PROVE  HitsCounted(s)'
<1>1. PICK counted \in SUBSET (Covers[s] \cap Landed) :
        /\ supps[s].hits = Cardinality(counted)
        /\ Tagged(s) \subseteq counted \cup UNION {Uncounted(job[v], s) : v \in Workers}
        /\ \A v \in Workers : Uncounted(job[v], s) \subseteq Landed \ counted
        /\ \A v, x \in Workers : v # x => Uncounted(job[v], s) \cap Uncounted(job[x], s) = {}
  BY DEF HitsCounted
<1>2. PICK all, new : all = counted \cup new /\ new = Uncounted(job[w], s)
  OBVIOUS
<1>3. all \in SUBSET (Covers[s] \cap Landed')
  BY <1>1, <1>2
<1>4. supps'[s].hits = Cardinality(all)
  <2>1. Covers[s] \subseteq Arriving
    BY IntakeAssumption
  <2>2. IsFiniteSet(counted) /\ IsFiniteSet(new)
    BY <1>1, <1>2, <2>1, IntakeAssumption, FS_Subset
  <2>3. counted \cap new = {}
    BY <1>1, <1>2
  <2>4. Cardinality(all) = Cardinality(counted) + Cardinality(new) - Cardinality(counted \cap new)
    BY <1>2, <2>2, FS_Union
  <2>5. Cardinality(counted) \in Nat /\ Cardinality(new) \in Nat /\ Cardinality(counted \cap new) = 0
    BY <2>2, <2>3, FS_CardinalityType, FS_EmptySet
  <2> QED BY <1>1, <1>2, <2>4, <2>5
<1>5. Tagged(s)' \subseteq all \cup UNION {Uncounted(job'[v], s) : v \in Workers}
  BY <1>1, <1>2
<1>6. \A v \in Workers : Uncounted(job'[v], s) \subseteq Landed' \ all
  BY <1>1, <1>2
<1>7. \A v, x \in Workers : v # x => Uncounted(job'[v], s) \cap Uncounted(job'[x], s) = {}
  BY <1>1
<1> QED BY <1>3, <1>4, <1>5, <1>6, <1>7 DEF HitsCounted

\* Requests of which nothing counts hold nothing.
LEMMA NothingHeld ==
  /\ ClosingOK(NoJob) /\ \A s : Uncounted(NoJob, s) = {}
  /\ \A j, s : j.pc \in {"idle", "insert_alerts", "queue"} => Uncounted(j, s) = {}
BY DEF ClosingOK, Uncounted, NoJob

\* A rule that was never added closes nothing.
LEMMA AbsentHoldsNothing ==
  ASSUME HitsInv, NEW s \in SuppIds, supps[s].state = "absent", NEW w \in Workers
  PROVE  Uncounted(job[w], s) = {}
BY IntakeAssumption DEF HitsInv, ClosingOK, Uncounted

\* Steps of investigations change no hit and close by no rule.
LEMMA DrainKeepsHits == ASSUME HitsInv, DrainNext \/ DrainVerdict PROVE HitsInv'
<1>1. UNCHANGED <<supps, job, purged>>
  BY DEF DrainNext, DrainVerdict, requestVars
<1>2. \/ UNCHANGED alerts
      \/ \E a : \E status \in {"INVESTIGATING", "CONFIRMED", "FALSE_POSITIVE", "NEW"} :
           alerts' = [alerts EXCEPT ![a].status = status]
  BY DEF DrainNext, DrainVerdict
<1>3. /\ alerts' \in [Arriving -> [status : {"absent", "NEW", "INVESTIGATING", "CONFIRMED", "FALSE_POSITIVE"},
                                   by : SuppIds \cup {None}]]
      /\ \A a \in Arriving : alerts'[a].by = alerts[a].by /\ (alerts[a].status # "absent" => alerts'[a].status # "absent")
  BY <1>2 DEF HitsInv
<1>4. Landed \subseteq Landed' /\ \A s \in SuppIds : Tagged(s)' = Tagged(s)
  BY <1>3 DEF Landed, Tagged
<1>5. \A w \in Workers : ClosingOK(job[w])'
  BY <1>1 DEF HitsInv, ClosingOK
<1>6. ASSUME NEW s \in SuppIds, HitsCounted(s) PROVE HitsCounted(s)'
  <2>1. \A w \in Workers : Uncounted(job[w], s) \subseteq Landed'
    BY <1>4, <1>6 DEF HitsCounted
  <2> QED BY <1>1, <1>4, <1>6, <2>1, HitsStay
<1> QED BY <1>1, <1>3, <1>4, <1>5, <1>6 DEF HitsInv

\* A purge ends what is stated of hits.
LEMMA PurgeKeepsHits == ASSUME HitsInv, Purge PROVE HitsInv'
<1>1. PICK old : /\ old # {} /\ purged' = purged \cup old /\ UNCHANGED <<supps, job>>
                 /\ alerts' = [a \in Arriving |-> IF a \in old THEN Absent ELSE alerts[a]]
  BY DEF Purge, requestVars
<1>2. Absent \in [status : {"absent", "NEW", "INVESTIGATING", "CONFIRMED", "FALSE_POSITIVE"}, by : SuppIds \cup {None}]
      /\ Absent.by = None
  BY DEF Absent
<1>3. alerts' \in [Arriving -> [status : {"absent", "NEW", "INVESTIGATING", "CONFIRMED", "FALSE_POSITIVE"},
                                by : SuppIds \cup {None}]]
  BY <1>1, <1>2 DEF HitsInv
<1>4. \A s \in SuppIds : Tagged(s)' \subseteq Tagged(s)
  BY <1>1, <1>2, IntakeAssumption DEF Tagged
<1>5. \A w \in Workers : ClosingOK(job[w])'
  BY <1>1 DEF HitsInv, ClosingOK
<1> QED BY <1>1, <1>3, <1>4, <1>5 DEF HitsInv

\* A request goes on without a change of the rules.
LEMMA RequestKeepsHits ==
  ASSUME HitsInv, NEW w \in Workers, NEW j, Continue(w, j), ClosingOK(j), UNCHANGED <<supps, purged>>,
         alerts' \in [Arriving -> [status : {"absent", "NEW", "INVESTIGATING", "CONFIRMED", "FALSE_POSITIVE"},
                                   by : SuppIds \cup {None}]],
         Landed \subseteq Landed',
         \A s \in SuppIds :
           /\ Tagged(s)' \subseteq Tagged(s) \cup Uncounted(j, s)
           /\ Uncounted(job[w], s) \subseteq Uncounted(j, s)
           /\ (Uncounted(j, s) \ Uncounted(job[w], s)) \cap Landed = {}
           /\ Uncounted(j, s) \ Uncounted(job[w], s) \subseteq Landed'
  PROVE  HitsInv'
<1>1. DOMAIN job' = Workers /\ job'[w] = j /\ \A v \in Workers \ {w} : job'[v] = job[v]
  BY ContinueJob DEF HitsInv
<1>2. \A v \in Workers : ClosingOK(job[v])'
  <2>1. \A v \in Workers : ClosingOK(job'[v])
    BY <1>1 DEF HitsInv
  <2> QED BY <2>1 DEF ClosingOK
<1>3. ASSUME NEW s \in SuppIds, HitsCounted(s) PROVE HitsCounted(s)'
  <2>1. \A v \in Workers : Uncounted(job[v], s) \subseteq Landed
    BY <1>3 DEF HitsCounted
  <2>2. \A v \in Workers : /\ Uncounted(job[v], s) \subseteq Uncounted(job'[v], s)
                           /\ Uncounted(job'[v], s) \subseteq Landed'
                           /\ (Uncounted(job'[v], s) \ Uncounted(job[v], s)) \cap Landed = {}
    BY <1>1, <2>1
  <2>3. Tagged(s)' \subseteq Tagged(s) \cup UNION {Uncounted(job'[v], s) : v \in Workers}
    BY <1>1
  <2>4. \A v, x \in Workers : v # x =>
          Uncounted(job'[v], s) = Uncounted(job[v], s) \/ Uncounted(job'[x], s) = Uncounted(job[x], s)
    BY <1>1
  <2> QED BY <1>3, <2>2, <2>3, <2>4, HitsStay
<1>4. ASSUME NEW s \in SuppIds, supps[s].state = "absent" PROVE Tagged(s)' = {}
  <2>1. Uncounted(j, s) = {}
    BY <1>4, IntakeAssumption DEF ClosingOK, Uncounted
  <2> QED BY <1>4, <2>1 DEF HitsInv
<1> QED BY <1>1, <1>2, <1>3, <1>4 DEF HitsInv

LEMMA StartLandStep == ASSUME HitsInv, NEW w \in Workers, StartLand(w) PROVE HitsInv'
<1>1. PICK batch \in SUBSET (Arriving \ purged) : \E by \in [batch -> SuppIds \cup {None}] :
        /\ \A a \in batch : IF Matching(a) = {} THEN by[a] = None ELSE by[a] \in Matching(a)
        /\ Continue(w, Job("insert_alerts", None, [by |-> by]))
  BY DEF StartLand
<1>2. PICK by \in [batch -> SuppIds \cup {None}] :
        /\ \A a \in batch : IF Matching(a) = {} THEN by[a] = None ELSE by[a] \in Matching(a)
        /\ Continue(w, Job("insert_alerts", None, [by |-> by]))
  BY <1>1
<1>3. PICK j : j = Job("insert_alerts", None, [by |-> by])
  OBVIOUS
<1>4. {"pc", "by"} \subseteq DOMAIN j /\ j.pc = "insert_alerts" /\ j.by = by
  BY <1>3, ByJob
<1>5. ClosingOK(j)
  BY <1>2, <1>4 DEF ClosingOK, Matching
<1>6. \A s : Uncounted(j, s) = {} /\ Uncounted(job[w], s) = {}
  BY <1>4 DEF Uncounted, StartLand, Idle, At
<1>7. UNCHANGED <<alerts, supps, purged>>
  BY DEF StartLand
<1>8. Landed' = Landed /\ \A s : Tagged(s)' = Tagged(s)
  BY <1>7 DEF Landed, Tagged
<1>9. Continue(w, j)
  BY <1>2, <1>3
<1> QED BY <1>5, <1>6, <1>7, <1>8, <1>9, RequestKeepsHits DEF HitsInv

LEMMA InsertAlertsStep == ASSUME HitsInv, NEW w \in Workers, InsertAlerts(w) PROVE HitsInv'
<1>1. PICK by : by = job[w].by
  OBVIOUS
<1>2. /\ job[w].pc = "insert_alerts" /\ DOMAIN by \subseteq Arriving
      /\ \A a \in DOMAIN by : by[a] # None =>
           by[a] \in SuppIds /\ supps[by[a]].state # "absent" /\ a \in Covers[by[a]]
  BY <1>1 DEF InsertAlerts, At, HitsInv, ClosingOK
<1>3. PICK fresh : fresh = {a \in DOMAIN by : alerts[a].status = "absent"}
  OBVIOUS
<1>4. PICK some : some = Restrict(by, fresh)
  OBVIOUS
<1>5. DOMAIN some = fresh /\ \A a \in fresh : some[a] = by[a]
  BY <1>4 DEF Restrict
<1>6. PICK j : j = IF fresh = {} THEN NoJob ELSE Job("count_hits", None, [by |-> some])
  OBVIOUS
<1>7. Continue(w, j) /\ UNCHANGED <<supps, purged>>
  BY <1>1, <1>3, <1>4, <1>6 DEF InsertAlerts
<1>8. \A a \in Arriving : alerts'[a] = IF a \notin fresh THEN alerts[a]
        ELSE [status |-> IF by[a] = None THEN "NEW" ELSE "FALSE_POSITIVE", by |-> by[a]]
  BY <1>1, <1>3 DEF InsertAlerts
<1>9. \A a \in fresh : alerts'[a].status \in {"NEW", "FALSE_POSITIVE"} /\ alerts'[a].by = by[a] /\ a \in Arriving
                       /\ alerts[a].status = "absent"
  <2> TAKE a \in fresh
  <2>1. a \in Arriving /\ alerts[a].status = "absent"
    BY <1>2, <1>3
  <2>2. PICK st \in {"NEW", "FALSE_POSITIVE"} : alerts'[a] = [status |-> st, by |-> by[a]]
    BY <1>8, <2>1
  <2> QED BY <2>1, <2>2
<1>10. alerts' \in [Arriving -> [status : {"absent", "NEW", "INVESTIGATING", "CONFIRMED", "FALSE_POSITIVE"},
                                 by : SuppIds \cup {None}]]
  <2>1. \A a \in Arriving : alerts'[a] \in [status : {"absent", "NEW", "INVESTIGATING", "CONFIRMED", "FALSE_POSITIVE"},
                                            by : SuppIds \cup {None}]
    <3> TAKE a \in Arriving
    <3>1. CASE a \in fresh
      <4>1. PICK st \in {"NEW", "FALSE_POSITIVE"} : alerts'[a] = [status |-> st, by |-> by[a]]
        BY <1>8, <3>1
      <4>2. by[a] \in SuppIds \cup {None}
        BY <1>2, <1>3, <3>1
      <4> QED BY <4>1, <4>2
    <3>2. CASE a \notin fresh
      BY <1>8, <3>2 DEF HitsInv
    <3> QED BY <3>1, <3>2
  <2>2. PICK row : row = [a \in Arriving |-> IF a \notin fresh THEN alerts[a]
          ELSE [status |-> IF by[a] = None THEN "NEW" ELSE "FALSE_POSITIVE", by |-> by[a]]]
    OBVIOUS
  <2>3. alerts' = row
    BY <1>1, <1>3, <2>2 DEF InsertAlerts
  <2>4. DOMAIN row = Arriving /\ row = [a \in Arriving |-> row[a]]
    BY <2>2
  <2> QED BY <2>1, <2>3, <2>4
<1>11. \A s \in SuppIds : Uncounted(j, s) = {a \in fresh : by[a] = s} /\ Uncounted(job[w], s) = {}
  <2>1. \A s : Uncounted(job[w], s) = {}
    BY <1>2 DEF Uncounted
  <2>2. CASE fresh = {}
    BY <1>6, <2>1, <2>2, NothingHeld
  <2>3. CASE fresh # {}
    <3>1. j.pc = "count_hits" /\ j.by = some
      BY <1>6, <2>3, ByJob
    <3> QED BY <1>5, <2>1, <3>1 DEF Uncounted
  <2> QED BY <2>2, <2>3
<1>12. ClosingOK(j)
  <2>1. CASE fresh = {}
    BY <1>6, <2>1, NothingHeld
  <2>2. CASE fresh # {}
    <3>1. {"pc", "by"} \subseteq DOMAIN j /\ j.pc = "count_hits" /\ j.by = some
      BY <1>6, <2>2, ByJob
    <3> QED BY <1>2, <1>3, <1>5, <3>1 DEF ClosingOK
  <2> QED BY <2>1, <2>2
<1>13. Landed \subseteq Landed' /\ fresh \subseteq Landed' /\ fresh \cap Landed = {}
  BY <1>8, <1>9 DEF Landed
<1>14. \A s \in SuppIds : Tagged(s)' \subseteq Tagged(s) \cup {a \in fresh : by[a] = s}
  BY <1>8, <1>9 DEF Tagged
<1> QED BY <1>7, <1>10, <1>11, <1>12, <1>13, <1>14, RequestKeepsHits

\* The hits a request counts are those of what it holds.
LEMMA HitsCountedStep ==
  ASSUME HitsInv, NEW w \in Workers, NEW j, Continue(w, j), ClosingOK(j), \A s : Uncounted(j, s) = {},
         job[w].pc \in {"count_hits", "apply_hits"},
         supps' = WithHits([s \in SuppIds |-> Cardinality({a \in DOMAIN job[w].by : job[w].by[a] = s})]),
         UNCHANGED <<alerts, purged>>
  PROVE  HitsInv'
<1>1. \A s : Uncounted(job[w], s) = {a \in DOMAIN job[w].by : job[w].by[a] = s}
  BY DEF Uncounted
<1>2. supps' = [s \in SuppIds |-> IF supps[s].state = "live"
                  THEN [supps[s] EXCEPT !.hits = @ + Cardinality(Uncounted(job[w], s))] ELSE supps[s]]
  BY <1>1 DEF WithHits
<1>3. \A s \in SuppIds : Uncounted(job[w], s) \subseteq Covers[s]
  BY <1>1, IntakeAssumption DEF HitsInv, ClosingOK
<1>4. \A s \in SuppIds : Cardinality(Uncounted(job[w], s)) \in Nat
  <2> TAKE s \in SuppIds
  <2>1. Covers[s] \subseteq Arriving
    BY IntakeAssumption
  <2> QED BY <1>3, <2>1, IntakeAssumption, FS_Subset, FS_CardinalityType
<1>5. /\ supps' \in [SuppIds -> [state : {"absent", "live", "removed"}, hits : Nat]]
      /\ \A s \in SuppIds : supps'[s].state = supps[s].state
      /\ \A s \in SuppIds : supps'[s].hits = IF supps[s].state = "live"
                                             THEN supps[s].hits + Cardinality(Uncounted(job[w], s)) ELSE supps[s].hits
  <2>1. PICK n : n = [s \in SuppIds |-> Cardinality(Uncounted(job[w], s))]
    OBVIOUS
  <2>2. n \in [SuppIds -> Nat] /\ \A s \in SuppIds : n[s] = Cardinality(Uncounted(job[w], s))
    BY <1>4, <2>1
  <2>3. supps' = [s \in SuppIds |-> IF supps[s].state = "live" THEN [supps[s] EXCEPT !.hits = @ + n[s]] ELSE supps[s]]
    BY <1>2, <2>2
  <2>4. supps \in [SuppIds -> [state : {"absent", "live", "removed"}, hits : Nat]]
    BY DEF HitsInv
  <2>5. /\ supps' \in [SuppIds -> [state : {"absent", "live", "removed"}, hits : Nat]]
        /\ \A s \in SuppIds : supps'[s].state = supps[s].state
        /\ \A s \in SuppIds : supps'[s].hits = IF supps[s].state = "live" THEN supps[s].hits + n[s] ELSE supps[s].hits
    <3>1. ASSUME NEW s \in SuppIds
          PROVE  /\ supps'[s] \in [state : {"absent", "live", "removed"}, hits : Nat]
                 /\ supps'[s].state = supps[s].state
                 /\ supps'[s].hits = IF supps[s].state = "live" THEN supps[s].hits + n[s] ELSE supps[s].hits
      <4>1. PICK row : row = supps[s]
        OBVIOUS
      <4>2. row \in [state : {"absent", "live", "removed"}, hits : Nat] /\ n[s] \in Nat
        BY <2>2, <2>4, <4>1
      <4>3. PICK m : m = row.hits + n[s] /\ m \in Nat
        BY <4>2
      <4>4. supps'[s] = IF row.state = "live" THEN [row EXCEPT !.hits = m] ELSE row
        BY <2>3, <4>1, <4>3
      <4> QED BY <4>1, <4>2, <4>3, <4>4
    <3>2. DOMAIN supps' = SuppIds /\ supps' = [s \in SuppIds |-> supps'[s]]
      BY <2>3
    <3> QED BY <3>1, <3>2
  <2> QED BY <2>2, <2>5
<1>6. DOMAIN job' = Workers /\ job'[w] = j /\ \A v \in Workers \ {w} : job'[v] = job[v]
  BY ContinueJob DEF HitsInv
<1>7. Landed' = Landed /\ \A s : Tagged(s)' = Tagged(s)
  BY DEF Landed, Tagged
<1>8. \A v \in Workers : ClosingOK(job[v])'
  <2>1. \A v \in Workers : ClosingOK(job'[v])
    BY <1>6 DEF HitsInv
  <2> QED BY <1>5, <2>1 DEF ClosingOK
<1>9. ASSUME NEW s \in SuppIds, supps[s].state = "live", HitsCounted(s) PROVE HitsCounted(s)'
  BY <1>3, <1>5, <1>6, <1>7, <1>9, HitsAdded
<1>10. \A s \in SuppIds : supps[s].state = "absent" => supps'[s].hits = 0 /\ Tagged(s)' = {}
  BY <1>5, <1>7 DEF HitsInv
<1> QED BY <1>5, <1>6, <1>8, <1>9, <1>10 DEF HitsInv

LEMMA CountHitsStep == ASSUME HitsInv, NEW w \in Workers, CountHits(w) PROVE HitsInv'
<1>1. PICK j : j = [job[w] EXCEPT !.pc = "queue"]
  OBVIOUS
<1>2. /\ job[w].pc = "count_hits" /\ Continue(w, j) /\ UNCHANGED <<alerts, purged>>
      /\ supps' = WithHits([s \in SuppIds |-> Cardinality({a \in DOMAIN job[w].by : job[w].by[a] = s})])
  BY <1>1 DEF CountHits, At
<1>3. ClosingOK(job[w]) /\ {"pc", "by"} \subseteq DOMAIN job[w]
  BY <1>2 DEF HitsInv, ClosingOK
<1>4. DOMAIN j = DOMAIN job[w] /\ j.pc = "queue" /\ j.by = job[w].by
  BY <1>1, <1>3
<1>5. ClosingOK(j) /\ \A s : Uncounted(j, s) = {}
  BY <1>2, <1>3, <1>4 DEF ClosingOK, Uncounted
<1> QED BY <1>2, <1>5, HitsCountedStep

LEMMA ApplyHitsStep == ASSUME HitsInv, NEW w \in Workers, ApplyHits(w) PROVE HitsInv'
<1>1. /\ job[w].pc = "apply_hits" /\ Continue(w, NoJob) /\ UNCHANGED <<alerts, purged>>
      /\ supps' = WithHits([s \in SuppIds |-> Cardinality({a \in DOMAIN job[w].by : job[w].by[a] = s})])
  BY DEF ApplyHits, At, Done
<1> QED BY <1>1, NothingHeld, HitsCountedStep

LEMMA QueueKeepsHits == ASSUME HitsInv, NEW w \in Workers, QueueTriage(w) PROVE HitsInv'
<1>1. Continue(w, NoJob) /\ UNCHANGED <<alerts, supps, purged>> /\ job[w].pc = "queue"
  BY DEF QueueTriage, Done, At
<1>2. \A s : Uncounted(job[w], s) = {} /\ Uncounted(NoJob, s) = {}
  BY <1>1, NothingHeld
<1>3. Landed' = Landed /\ \A s : Tagged(s)' = Tagged(s)
  BY <1>1 DEF Landed, Tagged
<1> QED BY <1>1, <1>2, <1>3, NothingHeld, RequestKeepsHits DEF HitsInv

LEMMA ApplySuppressionStep == ASSUME HitsInv, NEW w \in Workers, ApplySuppression(w) PROVE HitsInv'
<1>1. PICK j, by : j = [job[w] EXCEPT !.pc = "apply_hits"] /\ by = job[w].by
  OBVIOUS
<1>2. job[w].pc = "apply" /\ Continue(w, j) /\ UNCHANGED <<supps, purged>>
  BY <1>1 DEF ApplySuppression, At
<1>3. /\ ClosingOK(job[w]) /\ {"pc", "by"} \subseteq DOMAIN job[w] /\ DOMAIN by \subseteq Arriving
      /\ \A a \in DOMAIN by : by[a] \in SuppIds \cup {None}
  BY <1>1, <1>2 DEF HitsInv, ClosingOK
<1>4. DOMAIN j = DOMAIN job[w] /\ j.pc = "apply_hits" /\ j.by = by
  BY <1>1, <1>3
<1>5. ClosingOK(j)
  BY <1>1, <1>2, <1>3, <1>4 DEF ClosingOK
<1>6. \A s : Uncounted(j, s) = Uncounted(job[w], s) /\ Uncounted(job[w], s) = {a \in DOMAIN by : by[a] = s}
  BY <1>1, <1>2, <1>4 DEF Uncounted
<1>7. alerts' = [a \in Arriving |-> IF a \in DOMAIN by /\ alerts[a].status # "absent"
                                    THEN [status |-> "FALSE_POSITIVE", by |-> by[a]] ELSE alerts[a]]
  BY <1>1 DEF ApplySuppression
<1>8. alerts' \in [Arriving -> [status : {"absent", "NEW", "INVESTIGATING", "CONFIRMED", "FALSE_POSITIVE"},
                                by : SuppIds \cup {None}]]
  BY <1>3, <1>7 DEF HitsInv
<1>9. Landed \subseteq Landed' /\ \A s \in SuppIds : Tagged(s)' \subseteq Tagged(s) \cup {a \in DOMAIN by : by[a] = s}
  BY <1>7 DEF Landed, Tagged
<1> QED BY <1>2, <1>5, <1>6, <1>8, <1>9, RequestKeepsHits

LEMMA AddSuppressionStep == ASSUME HitsInv, NEW w \in Workers, AddSuppression(w) PROVE HitsInv'
<1>1. PICK s \in SuppIds, apply \in BOOLEAN :
        LET open == {a \in Covers[s] : alerts[a].status = "NEW"} IN
        /\ supps[s].state = "absent"
        /\ supps' = [supps EXCEPT ![s].state = "live"]
        /\ Continue(w, IF apply /\ open # {} THEN Job("apply", None, [by |-> [a \in open |-> s]]) ELSE NoJob)
  BY DEF AddSuppression
<1>2. PICK open : open = {a \in Covers[s] : alerts[a].status = "NEW"}
  OBVIOUS
<1>3. PICK by : by = [a \in open |-> s]
  OBVIOUS
<1>4. DOMAIN by = open /\ \A a \in open : by[a] = s
  BY <1>3
<1>5. PICK j : j = IF apply /\ open # {} THEN Job("apply", None, [by |-> by]) ELSE NoJob
  OBVIOUS
<1>6. Continue(w, j) /\ job[w].pc = "idle" /\ UNCHANGED <<alerts, purged>>
  BY <1>1, <1>2, <1>3, <1>5 DEF AddSuppression, Idle, At
<1>7. /\ supps' \in [SuppIds -> [state : {"absent", "live", "removed"}, hits : Nat]]
      /\ supps'[s].state = "live" /\ \A x \in SuppIds : supps'[x].hits = supps[x].hits
      /\ \A x \in SuppIds \ {s} : supps'[x].state = supps[x].state
  BY <1>1 DEF HitsInv
<1>8. open \subseteq Covers[s] \cap Landed /\ Covers[s] \subseteq Arriving
  BY <1>2, IntakeAssumption DEF Landed
<1>9. Landed' = Landed /\ \A x : Tagged(x)' = Tagged(x)
  BY <1>6 DEF Landed, Tagged
<1>10. \/ j = NoJob
       \/ {"pc", "by"} \subseteq DOMAIN j /\ j.pc = "apply" /\ j.by = by
  BY <1>5, ByJob
<1>11. ClosingOK(j)'
  <2>1. CASE j = NoJob
    BY <2>1 DEF ClosingOK, NoJob
  <2>2. CASE {"pc", "by"} \subseteq DOMAIN j /\ j.pc = "apply" /\ j.by = by
    BY <1>4, <1>7, <1>8, <2>2 DEF ClosingOK
  <2> QED BY <1>10, <2>1, <2>2
<1>12. /\ Uncounted(j, s) \subseteq Covers[s] \cap Landed
       /\ \A x \in SuppIds \ {s} : Uncounted(j, x) = {}
  <2>1. CASE j = NoJob
    BY <2>1, NothingHeld
  <2>2. CASE j.pc = "apply" /\ j.by = by
    BY <1>4, <1>8, <2>2 DEF Uncounted
  <2> QED BY <1>10, <2>1, <2>2
<1>13. DOMAIN job' = Workers /\ job'[w] = j /\ \A v \in Workers \ {w} : job'[v] = job[v]
  BY <1>6, ContinueJob DEF HitsInv
<1>14. \A v \in Workers : ClosingOK(job[v])'
  <2>1. \A v \in Workers \ {w} : ClosingOK(job[v])'
    <3>1. \A v \in Workers \ {w} : ClosingOK(job'[v])
      BY <1>13 DEF HitsInv
    <3>2. \A x \in SuppIds : supps[x].state # "absent" => supps'[x].state # "absent"
      BY <1>7
    <3> QED BY <3>1, <3>2 DEF ClosingOK
  <2>2. ClosingOK(job[w])'
    BY <1>11, <1>13 DEF ClosingOK
  <2> QED BY <2>1, <2>2
<1>15. \A x : Uncounted(job[w], x) = {}
  BY <1>6, NothingHeld
<1>16. ASSUME NEW x \in SuppIds \ {s}, HitsCounted(x) PROVE HitsCounted(x)'
  <2>1. \A v \in Workers : Uncounted(job'[v], x) = Uncounted(job[v], x)
    BY <1>12, <1>13, <1>15
  <2>2. \A v \in Workers : Uncounted(job[v], x) \subseteq Landed
    BY <1>16 DEF HitsCounted
  <2> QED BY <1>7, <1>9, <1>16, <2>1, <2>2, HitsStay
<1>17. HitsCounted(s)'
  <2>1. \A v \in Workers \ {w} : Uncounted(job'[v], s) = {}
    BY <1>1, <1>13, AbsentHoldsNothing
  <2>2. Tagged(s)' = {} /\ supps'[s].hits = 0
    BY <1>1, <1>7, <1>9 DEF HitsInv
  <2>3. {} \in SUBSET (Covers[s] \cap Landed') /\ Cardinality({}) = 0
    BY FS_EmptySet
  <2>4. \A v \in Workers : Uncounted(job'[v], s) \subseteq Landed' \ {}
    BY <1>9, <1>12, <1>13, <2>1
  <2>5. \A v, x \in Workers : v # x => Uncounted(job'[v], s) \cap Uncounted(job'[x], s) = {}
    BY <2>1
  <2> QED BY <2>2, <2>3, <2>4, <2>5 DEF HitsCounted
<1>18. \A x \in SuppIds : supps'[x].state = "absent" => supps'[x].hits = 0 /\ Tagged(x)' = {}
  BY <1>7, <1>9 DEF HitsInv
<1> QED BY <1>6, <1>7, <1>13, <1>14, <1>16, <1>17, <1>18 DEF HitsInv

LEMMA RemoveSuppressionStep == ASSUME HitsInv, NEW w \in Workers, RemoveSuppression(w) PROVE HitsInv'
<1>1. PICK s \in SuppIds :
        /\ supps[s].state = "live"
        /\ supps' = [supps EXCEPT ![s] = [state |-> "removed", hits |-> 0]]
        /\ alerts' = [a \in Arriving |-> IF alerts[a].by = s THEN [alerts[a] EXCEPT !.by = None] ELSE alerts[a]]
  BY DEF RemoveSuppression
<1>2. UNCHANGED <<job, purged>>
  BY DEF RemoveSuppression, requestVars
<1>3. PICK gone : gone = [state |-> "removed", hits |-> 0]
  OBVIOUS
<1>4. gone \in [state : {"absent", "live", "removed"}, hits : Nat] /\ gone.state = "removed"
  BY <1>3
<1>5. /\ supps' \in [SuppIds -> [state : {"absent", "live", "removed"}, hits : Nat]]
      /\ supps'[s].state = "removed" /\ \A x \in SuppIds \ {s} : supps'[x] = supps[x]
  BY <1>1, <1>3, <1>4 DEF HitsInv
<1>6. /\ alerts' \in [Arriving -> [status : {"absent", "NEW", "INVESTIGATING", "CONFIRMED", "FALSE_POSITIVE"},
                                   by : SuppIds \cup {None}]]
      /\ \A a \in Arriving : alerts'[a].status = alerts[a].status
      /\ \A a \in Arriving : alerts'[a].by = alerts[a].by \/ alerts'[a].by = None
  BY <1>1 DEF HitsInv
<1>7. Landed' = Landed /\ \A x \in SuppIds : Tagged(x)' \subseteq Tagged(x)
  BY <1>6, IntakeAssumption DEF Landed, Tagged
<1>8. \A v \in Workers : ClosingOK(job[v])'
  <2>1. \A v \in Workers : ClosingOK(job[v])
    BY DEF HitsInv
  <2>2. \A x \in SuppIds : supps[x].state # "absent" => supps'[x].state # "absent"
    BY <1>5
  <2> QED BY <1>2, <2>1, <2>2 DEF ClosingOK
<1>9. ASSUME NEW x \in SuppIds \ {s}, HitsCounted(x) PROVE HitsCounted(x)'
  <2>1. \A v \in Workers : Uncounted(job[v], x) \subseteq Landed
    BY <1>9 DEF HitsCounted
  <2> QED BY <1>2, <1>5, <1>7, <1>9, <2>1, HitsStay
<1>10. \A x \in SuppIds : supps'[x].state = "absent" => supps'[x].hits = 0 /\ Tagged(x)' = {}
  BY <1>5, <1>7 DEF HitsInv
<1> QED BY <1>2, <1>5, <1>6, <1>8, <1>9, <1>10 DEF HitsInv

LEMMA HitsStep == ASSUME HitsInv, [IntakeNext]_intakeVars PROVE HitsInv'
<1>1. CASE UNCHANGED intakeVars
  <2>1. \A s : HitsCounted(s)' <=> HitsCounted(s)
    BY <1>1 DEF intakeVars, requestVars, HitsCounted, Landed, Tagged
  <2>2. \A s : Tagged(s)' = Tagged(s)
    BY <1>1 DEF intakeVars, Tagged
  <2>3. \A w \in Workers : ClosingOK(job[w])' <=> ClosingOK(job[w])
    BY <1>1 DEF intakeVars, requestVars, ClosingOK
  <2> QED BY <1>1, <2>1, <2>2, <2>3 DEF intakeVars, requestVars, HitsInv
<1> QED BY <1>1, DrainKeepsHits, PurgeKeepsHits, StartLandStep, InsertAlertsStep, CountHitsStep, QueueKeepsHits,
           AddSuppressionStep, ApplySuppressionStep, ApplyHitsStep, RemoveSuppressionStep DEF IntakeNext

LEMMA HitsStart == RequestsInit /\ IntakeInit => HitsInv
<1> SUFFICES ASSUME RequestsInit, IntakeInit PROVE HitsInv
  OBVIOUS
<1>1. \A a \in Arriving : alerts[a] = Absent
  BY DEF IntakeInit
<1>2. alerts \in [Arriving -> [status : {"absent", "NEW", "INVESTIGATING", "CONFIRMED", "FALSE_POSITIVE"},
                               by : SuppIds \cup {None}]]
  BY DEF IntakeInit, Absent
<1>3. PICK row : row = [state |-> "absent", hits |-> 0]
  OBVIOUS
<1>4. row \in [state : {"absent", "live", "removed"}, hits : Nat] /\ row.state = "absent" /\ row.hits = 0
  BY <1>3
<1>5. supps = [s \in SuppIds |-> row]
  BY <1>3 DEF IntakeInit
<1>6. \A s \in SuppIds : Tagged(s) = {}
  BY <1>1, IntakeAssumption DEF Tagged, Absent
<1>7. DOMAIN job = Workers /\ \A w \in Workers : ClosingOK(job[w])
  BY NothingHeld DEF RequestsInit
<1> QED BY <1>2, <1>4, <1>5, <1>6, <1>7 DEF HitsInv

\* For any number of alerts, rules and requests: until retention first removes an alert, the hits of a suppression
\* rule are the alerts it has closed, and none twice, however deliveries of the same alert, additions that apply to
\* open alerts, removals and investigations overlap (landAlerts of routes.js, addSuppression of casework.js).
THEOREM SuppressionHitsAreClosures == IntakeSpec => []HitsAreClosures
<1>1. HitsInv => HitsAreClosures
  <2> SUFFICES ASSUME HitsInv, purged = {}, \A w \in Workers : Idle(w), NEW s \in SuppIds, supps[s].state = "live"
               PROVE  supps[s].hits >= Cardinality(Tagged(s)) /\ supps[s].hits =< Cardinality(Covers[s])
    BY DEF HitsAreClosures
  <2>1. \A w \in Workers : Uncounted(job[w], s) = {}
    BY NothingHeld DEF Idle, At
  <2>2. HitsCounted(s)
    BY DEF HitsInv
  <2>3. PICK counted \in SUBSET (Covers[s] \cap Landed) :
          /\ supps[s].hits = Cardinality(counted)
          /\ Tagged(s) \subseteq counted \cup UNION {Uncounted(job[w], s) : w \in Workers}
    BY <2>2 DEF HitsCounted
  <2>4. Tagged(s) \in SUBSET counted
    BY <2>1, <2>3
  <2>5. IsFiniteSet(Covers[s])
    <3>1. Covers[s] \in SUBSET Arriving
      BY IntakeAssumption
    <3> QED BY <3>1, IntakeAssumption, FS_Subset
  <2>6. IsFiniteSet(counted) /\ Cardinality(counted) <= Cardinality(Covers[s])
    BY <2>3, <2>5, FS_Subset
  <2>7. Cardinality(Tagged(s)) <= Cardinality(counted)
    BY <2>4, <2>6, FS_Subset
  <2>8. Cardinality(Tagged(s)) \in Nat /\ Cardinality(counted) \in Nat /\ Cardinality(Covers[s]) \in Nat
    BY <2>4, <2>5, <2>6, FS_Subset, FS_CardinalityType
  <2> QED BY <2>3, <2>6, <2>7, <2>8
<1> QED BY <1>1, HitsStart, HitsStep, PTL DEF IntakeSpec

-----------------------------------------------------------------------------
(* The store's file. *)

States == {"up", "writing", "renaming", "closed", "last_writing", "last_renaming", "down"}

StoreFileTypeOK ==
  /\ server \in [state : States, db : Nat, timer : BOOLEAN, owed : Nat]
  /\ disk \in [file : Nat \cup {NoFile}, tmp : Nat \cup {Cut, NoFile}]
  /\ saved \in Nat

OnFile == IF disk.file < 0 THEN 0 ELSE disk.file

\* The file is never cut and holds what was saved; what is put in its place is the whole database; and what
\* a stop in good order owes is in that database until it is on file.
StoreFileInv ==
  /\ StoreFileTypeOK
  /\ saved =< OnFile
  /\ server.state \in {"renaming", "last_renaming"} => disk.tmp = server.db
  /\ server.state \in {"up", "writing", "renaming"} => server.owed = 0
  /\ server.state \in {"closed", "last_writing", "last_renaming"} => server.owed =< server.db
  /\ server.state = "down" => server.owed =< OnFile
  /\ RestartKeepsSaved

\* What init loads is at least what a stop in good order owed and the last flush saved.
LEMMA GreaterOfTwo ==
  ASSUME NEW a \in Nat, NEW b \in Nat, NEW n \in Nat, a =< n, b =< n
  PROVE  n >= Max({a, b})
<1>1. {a, b} \in SUBSET (0 .. n) /\ {a, b} # {}
  OBVIOUS
<1>2. PICK S : S = {a, b}
  OBVIOUS
<1>3. Max(S) \in S
  BY <1>1, <1>2, GreatestNatural
<1> QED BY <1>2, <1>3

LEMMA FlushStep == ASSUME StoreFileInv, StartFlush \/ Write \/ Rename \/ FlushFails PROVE StoreFileInv'
<1>1. CASE StartFlush
  BY <1>1 DEF StartFlush, WriteTo, StoreFileInv, StoreFileTypeOK, OnFile, RestartKeepsSaved, States, Running, Cut, NoFile
<1>2. CASE Write
  BY <1>2 DEF Write, WriteTo, StoreFileInv, StoreFileTypeOK, OnFile, RestartKeepsSaved, States, Cut, NoFile
<1>3. CASE Rename
  BY <1>3 DEF Rename, WriteTo, AfterFlush, StoreFileInv, StoreFileTypeOK, OnFile, RestartKeepsSaved, States, Cut, NoFile
<1>4. CASE FlushFails
  <2>1. /\ server' \in [state : States, db : Nat, timer : BOOLEAN, owed : Nat]
        /\ server'.state \in {"up", "down"} /\ server'.owed = 0
    BY <1>4 DEF FlushFails, AfterFlush, StoreFileInv, StoreFileTypeOK, States
  <2>2. UNCHANGED <<disk, saved, restored>> /\ OnFile' = OnFile /\ 0 =< OnFile
    BY <1>4 DEF FlushFails, StoreFileInv, StoreFileTypeOK, OnFile, NoFile
  <2> QED BY <2>1, <2>2 DEF StoreFileInv, StoreFileTypeOK, RestartKeepsSaved
<1> QED BY <1>1, <1>2, <1>3, <1>4

LEMMA ServerStep == ASSUME StoreFileInv, Change \/ Shutdown \/ Exit PROVE StoreFileInv'
<1>1. /\ server.state \in States /\ server.db \in Nat /\ server.timer \in BOOLEAN /\ server.owed \in Nat
      /\ server \in [state : States, db : Nat, timer : BOOLEAN, owed : Nat]
  BY DEF StoreFileInv, StoreFileTypeOK
<1>2. UNCHANGED <<disk, saved, restored>> /\ OnFile' = OnFile
  BY DEF Change, Shutdown, Exit, OnFile
<1>3. CASE Change
  <2>1. /\ server' \in [state : States, db : Nat, timer : BOOLEAN, owed : Nat]
        /\ server'.state = "up" /\ server'.owed = server.owed
    <3>1. server' = [server EXCEPT !.db = server.db + 1, !.timer = TRUE]
      BY <1>3 DEF Change
    <3>2. server.db + 1 \in Nat
      BY <1>1
    <3> QED BY <1>1, <1>3, <3>1, <3>2 DEF Change, Running
  <2> QED BY <1>2, <1>3, <2>1 DEF Change, Running, StoreFileInv, StoreFileTypeOK, RestartKeepsSaved
<1>4. CASE Shutdown
  <2>1. /\ server' \in [state : States, db : Nat, timer : BOOLEAN, owed : Nat]
        /\ server'.state = "closed" /\ server'.owed = server.db /\ server'.db = server.db
    BY <1>1, <1>4 DEF Shutdown, States
  <2> QED BY <1>1, <1>2, <2>1 DEF StoreFileInv, StoreFileTypeOK, RestartKeepsSaved
<1>5. CASE Exit
  <2>1. /\ server' \in [state : States, db : Nat, timer : BOOLEAN, owed : Nat]
        /\ server'.state = "down" /\ server'.owed = 0
    BY <1>1, <1>5 DEF Exit, States
  <2>2. 0 =< OnFile
    BY DEF StoreFileInv, StoreFileTypeOK, OnFile, NoFile
  <2> QED BY <1>2, <2>1, <2>2 DEF StoreFileInv, StoreFileTypeOK, RestartKeepsSaved
<1> QED BY <1>3, <1>4, <1>5

LEMMA StartServerStep == ASSUME StoreFileInv, Start PROVE StoreFileInv'
<1>1. PICK loaded : loaded = OnFile
  OBVIOUS
<1>2. /\ server' = [state |-> "up", db |-> loaded, timer |-> TRUE, owed |-> 0]
      /\ restored' = [had |-> Max({saved, server.owed}), loaded |-> loaded]
      /\ saved' = loaded
  BY <1>1 DEF Start, OnFile
<1>3. disk.file \in Nat \cup {NoFile} /\ loaded \in Nat /\ disk' = disk
  BY <1>1 DEF Start, StoreFileInv, StoreFileTypeOK, OnFile, Cut, NoFile
<1>4. saved \in Nat /\ server.owed \in Nat /\ saved =< loaded /\ server.owed =< loaded
  BY <1>1 DEF Start, StoreFileInv, StoreFileTypeOK
<1>5. RestartKeepsSaved'
  BY <1>2, <1>3, <1>4, GreaterOfTwo DEF RestartKeepsSaved
<1>6. OnFile' = loaded
  BY <1>1, <1>3 DEF OnFile
<1> QED BY <1>2, <1>3, <1>5, <1>6 DEF StoreFileInv, StoreFileTypeOK, States

LEMMA StoreFileStep == ASSUME StoreFileInv, [StoreFileNext]_storeFileVars PROVE StoreFileInv'
<1>1. CASE UNCHANGED storeFileVars
  BY <1>1 DEF storeFileVars, StoreFileInv, StoreFileTypeOK, OnFile, RestartKeepsSaved
<1>2. CASE StoreFileNext
  BY <1>2, FlushStep, ServerStep, StartServerStep DEF StoreFileNext
<1> QED BY <1>1, <1>2

\* Whatever is written, fails, is cut off by a crash and restarted in between, a start of the server finds at
\* least what the last flush that came to its end saved, and all there was after a shutdown that had time to
\* flush (flush and init of memory.js, shutdown of server.js).
THEOREM RestartsKeepSaved == StoreFileSpec => []RestartKeepsSaved
<1>1. StoreFileInit => StoreFileInv
  BY DEF StoreFileInit, StoreFileInv, StoreFileTypeOK, OnFile, RestartKeepsSaved, States, Cut, NoFile
<1>2. StoreFileInv => RestartKeepsSaved
  BY DEF StoreFileInv
<1> QED BY <1>1, <1>2, StoreFileStep, PTL DEF StoreFileSpec

-----------------------------------------------------------------------------
(* Threat feeds. *)

IsKey(k) == k \in Keys \cup {None}

\* One download at a time, which has the copy there is to give back.
FeedsInv ==
  /\ IsKey(config) /\ IsKey(keys.active)
  /\ "state" \in DOMAIN sync /\ IsKey(sync.key)
  /\ {"active", "fresh"} \subseteq DOMAIN keys /\ {"data", "fresh"} \subseteq DOMAIN copy
  /\ DOMAIN job = Workers
  /\ \A w \in Workers : "pc" \in DOMAIN job[w] /\ (job[w].pc = "write" => IsKey(job[w].key))
  /\ \A d, e \in loads : d = e
  /\ \A d \in loads : IsKey(d.key) /\ (copy.data # NoCopy => d.have.data # NoCopy)

\* A step of a request that is about no copy and no download.
LEMMA RequestFeedStep ==
  ASSUME FeedsInv, NEW w \in Workers, NEW j, Continue(w, j), "pc" \in DOMAIN j, j.pc = "write" => IsKey(j.key),
         UNCHANGED <<keys, copy, loads>>, config' = config \/ IsKey(config'),
         sync' = sync \/ (IsKey(sync'.key) /\ "state" \in DOMAIN sync')
  PROVE  FeedsInv' /\ (copy.data # NoCopy => copy'.data # NoCopy)
<1>1. DOMAIN job' = Workers /\ job'[w] = j /\ \A v \in Workers \ {w} : job'[v] = job[v]
  BY ContinueJob DEF FeedsInv
<1>2. \A v \in Workers : "pc" \in DOMAIN job'[v] /\ (job'[v].pc = "write" => IsKey(job'[v].key))
  BY <1>1 DEF FeedsInv
<1> QED BY <1>1, <1>2 DEF FeedsInv, IsKey

LEMMA FeedRequestStep ==
  ASSUME FeedsInv, NEW w \in Workers, StartSave(w) \/ WriteKey(w) \/ ForceSync(w) \/ StartLookup(w)
  PROVE  FeedsInv' /\ (copy.data # NoCopy => copy'.data # NoCopy)
<1>1. \A pc : "pc" \in DOMAIN [job[w] EXCEPT !.pc = pc] /\ [job[w] EXCEPT !.pc = pc].pc = pc
  BY DEF FeedsInv
<1>2. IsKey(None)
  BY DEF IsKey
<1>3. Ask => sync' = sync \/ (IsKey(sync'.key) /\ "state" \in DOMAIN sync')
  <2>1. PICK s : s = [state |-> "asked", key |-> None]
    OBVIOUS
  <2>2. IsKey(s.key) /\ "state" \in DOMAIN s
    BY <1>2, <2>1
  <2> QED BY <2>1, <2>2 DEF Ask, IsKey
<1>4. CASE StartSave(w)
  <2>1. PICK k \in Keys \cup {None} : Continue(w, Job("write", "config", [key |-> k]))
    BY <1>4 DEF StartSave
  <2>2. DOMAIN [key |-> k] = {"key"}
    OBVIOUS
  <2>3. PICK j : j = Job("write", "config", [key |-> k])
    OBVIOUS
  <2>4. "pc" \in DOMAIN j /\ j.key = k
    BY <2>2, <2>3, JobFields
  <2> QED BY <1>4, <2>1, <2>3, <2>4, RequestFeedStep DEF StartSave, IsKey
<1>5. CASE WriteKey(w)
  <2>1. IsKey(config')
    BY <1>5 DEF WriteKey, At, FeedsInv, IsKey
  <2>2. PICK j : j = [job[w] EXCEPT !.pc = "written"]
    OBVIOUS
  <2>3. "pc" \in DOMAIN j /\ j.pc = "written" /\ Continue(w, j)
    BY <1>1, <1>5, <2>2 DEF WriteKey
  <2> QED BY <1>5, <2>1, <2>3, RequestFeedStep DEF WriteKey
<1>6. CASE ForceSync(w)
  <2>1. PICK j : j = [job[w] EXCEPT !.pc = "force"]
    OBVIOUS
  <2>2. "pc" \in DOMAIN j /\ j.pc = "force" /\ Continue(w, j)
    BY <1>1, <1>6, <2>1 DEF ForceSync
  <2> QED BY <1>3, <1>6, <2>2, RequestFeedStep DEF ForceSync
<1>7. CASE StartLookup(w)
  <2>1. \E pc \in {"lookup", "sync"} : Continue(w, Job(pc, None, <<>>))
    BY <1>7 DEF StartLookup
  <2>2. PICK pc \in {"lookup", "sync"} : Continue(w, Job(pc, None, <<>>))
    BY <2>1
  <2>3. PICK j : j = Job(pc, None, <<>>)
    OBVIOUS
  <2>4. "pc" \in DOMAIN j /\ j.pc = pc
    BY <2>3, JobFields
  <2> QED BY <1>3, <1>7, <2>2, <2>3, <2>4, RequestFeedStep DEF StartLookup
<1> QED BY <1>4, <1>5, <1>6, <1>7

\* The read of the configuration goes on with what waited for it.
LEMMA ResumedJobs ==
  ASSUME FeedsInv, job' = Resumed
  PROVE  DOMAIN job' = Workers /\ \A w \in Workers : "pc" \in DOMAIN job'[w] /\ (job'[w].pc = "write" => IsKey(job'[w].key))
<1>1. DOMAIN job' = Workers
  BY DEF Resumed
<1>2. ASSUME NEW w \in Workers
      PROVE  "pc" \in DOMAIN job'[w] /\ (job'[w].pc = "write" => IsKey(job'[w].key))
  <2>1. CASE At(w, "sync")
    <3>1. job'[w] = [job[w] EXCEPT !.pc = "lookup"]
      BY <2>1 DEF Resumed
    <3> QED BY <3>1 DEF FeedsInv
  <2>2. CASE ~At(w, "sync") /\ At(w, "force")
    <3>1. job'[w] = NoJob
      BY <2>2 DEF Resumed
    <3> QED BY <3>1 DEF NoJob
  <2>3. CASE ~At(w, "sync") /\ ~At(w, "force")
    <3>1. job'[w] = job[w]
      BY <2>3 DEF Resumed
    <3> QED BY <3>1 DEF FeedsInv, IsKey
  <2> QED BY <2>1, <2>2, <2>3
<1> QED BY <1>1, <1>2

LEMMA SyncStep ==
  ASSUME FeedsInv, ReadConfig \/ FinishSync \/ SyncFails \/ SavedElsewhere
  PROVE  FeedsInv' /\ (copy.data # NoCopy /\ keys'.active = keys.active => copy'.data # NoCopy)
<1>1. IsKey(None) /\ IsKey(NoSync.key) /\ "state" \in DOMAIN NoSync
  BY DEF IsKey, NoSync
<1>2. CASE ReadConfig
  <2>1. PICK s : s = [state |-> "read", key |-> config]
    OBVIOUS
  <2>2. IsKey(s.key) /\ "state" \in DOMAIN s /\ sync' = s
    BY <1>2, <2>1 DEF ReadConfig, FeedsInv
  <2> QED BY <1>2, <2>2 DEF ReadConfig, requestVars, FeedsInv, IsKey
<1>3. CASE FinishSync
  <2>1. PICK k : k = sync.key
    OBVIOUS
  <2>2. /\ IsKey(k) /\ keys' = [active |-> k, fresh |-> TRUE]
        /\ copy' = IF k = keys.active THEN copy ELSE Forgotten
        /\ IF k \notin {keys.active, None} /\ MayBegin
           THEN loads' = loads \cup {[key |-> k, have |-> Forgotten]} ELSE loads' = loads
    BY <1>3, <2>1 DEF FinishSync, SetKey, Begin, FeedsInv
  <2>3. Forgotten.data = NoCopy /\ {"data", "fresh"} \subseteq DOMAIN Forgotten
    BY DEF Forgotten
  <2>4. \A d, e \in loads' : d = e
    BY <2>2 DEF MayBegin, FeedsInv
  <2>5. \A d \in loads' : IsKey(d.key) /\ (copy'.data # NoCopy => d.have.data # NoCopy)
    BY <2>2, <2>3 DEF MayBegin, FeedsInv
  <2>6. {"active", "fresh"} \subseteq DOMAIN keys' /\ keys'.active = k
    BY <2>2
  <2>7. {"data", "fresh"} \subseteq DOMAIN copy'
    BY <2>2, <2>3 DEF FeedsInv
  <2>8. copy.data # NoCopy /\ keys'.active = keys.active => copy'.data # NoCopy
    BY <2>2, <2>6
  <2>9. config' = config /\ sync' = NoSync /\ job' = Resumed
    BY <1>3 DEF FinishSync
  <2> QED BY <1>1, <2>2, <2>4, <2>5, <2>6, <2>7, <2>8, <2>9, ResumedJobs DEF FeedsInv, IsKey
<1>4. CASE SyncFails
  <2>1. {"active", "fresh"} \subseteq DOMAIN keys' /\ keys'.active = keys.active
    BY <1>4 DEF SyncFails, FeedsInv
  <2>2. UNCHANGED <<config, copy, loads>> /\ sync' = NoSync /\ job' = Resumed
    BY <1>4 DEF SyncFails
  <2> QED BY <1>1, <2>1, <2>2, ResumedJobs DEF FeedsInv, IsKey
<1>5. CASE SavedElsewhere
  BY <1>5 DEF SavedElsewhere, requestVars, FeedsInv, IsKey
<1> QED BY <1>2, <1>3, <1>4, <1>5

LEMMA BeginStep ==
  ASSUME FeedsInv, MayBegin, Begin(keys.active, copy), UNCHANGED <<config, keys, sync, copy>>
  PROVE  /\ \A d, e \in loads' : d = e
         /\ \A d \in loads' : IsKey(d.key) /\ (copy'.data # NoCopy => d.have.data # NoCopy)
<1>1. PICK d : d = [key |-> keys.active, have |-> copy]
  OBVIOUS
<1>2. loads' = {d} /\ IsKey(d.key) /\ d.have = copy
  BY <1>1 DEF Begin, MayBegin, FeedsInv
<1> QED BY <1>2

LEMMA LoadStep ==
  ASSUME FeedsInv, Refresh \/ \E w \in Workers : Load(w)
  PROVE  FeedsInv' /\ (copy.data # NoCopy => copy'.data # NoCopy)
<1>1. /\ UNCHANGED <<config, keys, sync, copy>>
      /\ UNCHANGED loads \/ (MayBegin /\ Begin(keys.active, copy))
  BY DEF Refresh, Load
<1>2. /\ \A d, e \in loads' : d = e
      /\ \A d \in loads' : IsKey(d.key) /\ (copy'.data # NoCopy => d.have.data # NoCopy)
  BY <1>1, BeginStep DEF FeedsInv
<1>3. DOMAIN job' = Workers /\ \A w \in Workers : "pc" \in DOMAIN job'[w] /\ (job'[w].pc = "write" => IsKey(job'[w].key))
  <2>1. CASE Refresh
    BY <2>1 DEF Refresh, requestVars, FeedsInv, IsKey
  <2>2. CASE \E w \in Workers : Load(w)
    <3>1. PICK w \in Workers : Continue(w, NoJob)
      BY <2>2 DEF Load, Done
    <3>2. DOMAIN job' = Workers /\ job'[w] = NoJob /\ \A v \in Workers \ {w} : job'[v] = job[v]
      BY <3>1, ContinueJob DEF FeedsInv
    <3>3. "pc" \in DOMAIN NoJob /\ NoJob.pc = "idle"
      BY DEF NoJob
    <3>4. ASSUME NEW v \in Workers PROVE "pc" \in DOMAIN job'[v] /\ (job'[v].pc = "write" => IsKey(job'[v].key))
      BY <3>2, <3>3 DEF FeedsInv
    <3> QED BY <3>2, <3>4
  <2> QED BY <2>1, <2>2
<1> QED BY <1>1, <1>2, <1>3 DEF FeedsInv, IsKey

LEMMA LoadEndsStep ==
  ASSUME FeedsInv, Downloaded \/ LoadFails
  PROVE  FeedsInv' /\ (copy.data # NoCopy => copy'.data # NoCopy)
<1>1. PICK d \in loads : \E data, fresh : data \in {d.key, d.have.data} /\ LoadEnds(d, data, fresh)
  <2>1. CASE Downloaded
    <3>1. PICK d \in loads : LoadEnds(d, d.key, TRUE)
      BY <2>1 DEF Downloaded
    <3>2. PICK fresh : fresh = TRUE
      OBVIOUS
    <3>3. LoadEnds(d, d.key, fresh)
      BY <3>1, <3>2
    <3> QED BY <3>3
  <2>2. CASE LoadFails
    <3>1. PICK d \in loads, aged \in BOOLEAN :
            LoadEnds(d, d.have.data, d.have.data = NoCopy \/ (d.have.fresh /\ ~aged))
      BY <2>2 DEF LoadFails
    <3>2. PICK fresh : fresh = (d.have.data = NoCopy \/ (d.have.fresh /\ ~aged))
      OBVIOUS
    <3>3. LoadEnds(d, d.have.data, fresh)
      BY <3>1, <3>2, Zenon
    <3> QED BY <3>3
  <2> QED BY <2>1, <2>2
<1>2. PICK data, fresh : data \in {d.key, d.have.data} /\ LoadEnds(d, data, fresh)
  BY <1>1
<1>3. copy' = [data |-> data, fresh |-> fresh] /\ loads' = loads \ {d} /\ UNCHANGED <<config, keys, sync, job>>
  BY <1>2 DEF LoadEnds, requestVars
<1>4. copy'.data = data /\ {"data", "fresh"} \subseteq DOMAIN copy'
  BY <1>3
<1>5. loads' = {}
  BY <1>3 DEF FeedsInv
<1>6. copy.data # NoCopy => data # NoCopy
  BY <1>2, IntelFeedsAssumption DEF FeedsInv, IsKey
<1> QED BY <1>3, <1>4, <1>5, <1>6 DEF FeedsInv, IsKey

LEMMA AgingStep ==
  ASSUME FeedsInv, KeysAge \/ CopyAges
  PROVE  FeedsInv' /\ (copy.data # NoCopy => copy'.data # NoCopy)
<1>1. {"active", "fresh"} \subseteq DOMAIN keys' /\ keys'.active = keys.active
  BY DEF KeysAge, CopyAges, FeedsInv
<1>2. {"data", "fresh"} \subseteq DOMAIN copy' /\ copy'.data = copy.data
  BY DEF KeysAge, CopyAges, FeedsInv
<1> QED BY <1>1, <1>2 DEF KeysAge, CopyAges, requestVars, FeedsInv, IsKey

\* A copy of a feed is lost to nothing but another key: a download that fails gives back the copy there was
\* when it began, and as one download is under way at a time that copy is still the one there is
\* (load of feeds.js).
THEOREM CopiesSurvive == IntelFeedsSpec => CopySurvives
<1> DEFINE Kept == copy.data # NoCopy /\ keys'.active = keys.active => copy'.data # NoCopy
<1>1. RequestsInit /\ IntelFeedsInit => FeedsInv
  <2> SUFFICES ASSUME RequestsInit, IntelFeedsInit PROVE FeedsInv
    OBVIOUS
  <2>1. IsKey(None) /\ IsKey(NoSync.key) /\ "state" \in DOMAIN NoSync /\ "pc" \in DOMAIN NoJob /\ NoJob.pc = "idle"
    BY DEF IsKey, NoSync, NoJob
  <2> QED BY <2>1 DEF RequestsInit, IntelFeedsInit, FeedsInv
<1>2. ASSUME FeedsInv, [IntelFeedsNext]_feedVars PROVE FeedsInv' /\ (UNCHANGED feedVars \/ Kept)
  <2>1. CASE UNCHANGED feedVars
    BY <1>2, <2>1 DEF feedVars, requestVars, FeedsInv, IsKey
  <2>2. CASE IntelFeedsNext
    BY <1>2, <2>2, FeedRequestStep, SyncStep, LoadStep, LoadEndsStep, AgingStep DEF IntelFeedsNext
  <2> QED BY <1>2, <2>1, <2>2
<1>3. FeedsInv /\ [IntelFeedsNext]_feedVars => [Kept]_feedVars
  BY <1>2
<1> HIDE DEF Kept
<1>4. IntelFeedsSpec => [][Kept]_feedVars
  BY <1>1, <1>2, <1>3, PTL DEF IntelFeedsSpec
<1> QED BY <1>4 DEF CopySurvives, Kept

-----------------------------------------------------------------------------
(* The detection of bursts. *)

\* How many failures may be stored for each time.
Fails == [Time -> 0 .. MaxLines]

\* What Count counts.
Lines(f, S) == {l \in (S \cap Time) \X (1 .. MaxLines) : l[2] =< f[l[1]]}

\* There are finitely many, each of a time and with a number.
LEMMA LinesOf ==
  ASSUME NEW f, NEW S
  PROVE  /\ Count(f, S) = Cardinality(Lines(f, S)) /\ IsFiniteSet(Lines(f, S))
         /\ \A l : l \in Lines(f, S) <=> /\ l \in Time \X (1 .. MaxLines) /\ l[1] \in S /\ l[2] =< f[l[1]]
<1>1. IsFiniteSet(Time \X (1 .. MaxLines))
  <2>1. MaxTime \in Int /\ MaxLines \in Int
    BY DetectionAssumption
  <2>2. IsFiniteSet(0 .. MaxTime) /\ IsFiniteSet(1 .. MaxLines)
    BY <2>1, FS_Interval
  <2> QED BY <2>2, FS_Product DEF Time
<1>2. \A l : l \in (S \cap Time) \X (1 .. MaxLines) <=> l \in Time \X (1 .. MaxLines) /\ l[1] \in S
  BY Zenon
<1>3. \A l : l \in Lines(f, S) <=> /\ l \in Time \X (1 .. MaxLines) /\ l[1] \in S /\ l[2] =< f[l[1]]
  BY <1>2, Zenon DEF Lines
<1>4. Lines(f, S) \in SUBSET (Time \X (1 .. MaxLines))
  BY <1>3, Zenon
<1> QED BY <1>1, <1>3, <1>4, FS_Subset DEF Count, Lines

\* Fewer times or fewer lines count for less, ...
LEMMA CountMonotone ==
  ASSUME NEW f \in Fails, NEW g \in Fails, \A t \in Time : f[t] =< g[t],
         NEW S, NEW T, S \cap Time \subseteq T
  PROVE  Count(f, S) \in Nat /\ Count(g, T) \in Nat /\ Count(f, S) =< Count(g, T)
<1>1. ASSUME NEW l \in Lines(f, S) PROVE l \in Lines(g, T)
  <2>1. l \in Time \X (1 .. MaxLines) /\ l[1] \in S /\ l[2] =< f[l[1]]
    BY LinesOf
  <2>2. l[1] \in Time /\ l[2] \in 1 .. MaxLines
    BY <2>1
  <2>3. l[2] =< g[l[1]]
    BY <2>1, <2>2, DetectionAssumption DEF Fails
  <2> QED BY <2>1, <2>2, <2>3, LinesOf, Zenon
<1>2. Lines(f, S) \in SUBSET Lines(g, T)
  BY <1>1
<1> QED BY <1>2, LinesOf, FS_Subset, FS_CardinalityType

\* ... lines that are not counted make no difference, ...
LEMMA CountSame ==
  ASSUME NEW f, NEW g, NEW S, \A t \in S \cap Time : f[t] = g[t]
  PROVE  Count(f, S) = Count(g, S)
<1>1. \A l : l \in Lines(f, S) <=> l \in Lines(g, S)
  <2> SUFFICES ASSUME NEW l PROVE l \in Lines(f, S) <=> l \in Lines(g, S)
    OBVIOUS
  <2>1. l \in Time \X (1 .. MaxLines) => l[1] \in Time
    OBVIOUS
  <2>2. l \in Time \X (1 .. MaxLines) /\ l[1] \in S => f[l[1]] = g[l[1]]
    BY <2>1
  <2> QED BY <2>2, LinesOf
<1>2. Lines(f, S) = Lines(g, S)
  BY <1>1
<1> QED BY <1>2, LinesOf

\* ... and what is counted apart adds up.
LEMMA CountAdds ==
  ASSUME NEW f \in Fails, NEW S, NEW T, S \cap T \cap Time = {}
  PROVE  Count(f, S \cup T) = Count(f, S) + Count(f, T)
<1>1. Lines(f, S \cup T) = Lines(f, S) \cup Lines(f, T)
  <2>1. \A l : l \in Lines(f, S \cup T) <=> l \in Lines(f, S) \/ l \in Lines(f, T)
    BY LinesOf
  <2> QED BY <2>1
<1>2. ASSUME NEW l \in Lines(f, S), l \in Lines(f, T) PROVE FALSE
  <2>1. l \in Time \X (1 .. MaxLines) /\ l[1] \in S /\ l[1] \in T
    BY <1>2, LinesOf
  <2> QED BY <2>1
<1>3. Lines(f, S) \cap Lines(f, T) = {}
  BY <1>2
<1>4. Cardinality(Lines(f, S)) \in Nat /\ Cardinality(Lines(f, T)) \in Nat /\ Cardinality({}) = 0
  BY LinesOf, FS_CardinalityType, FS_EmptySet
<1>5. Cardinality(Lines(f, S) \cup Lines(f, T))
        = Cardinality(Lines(f, S)) + Cardinality(Lines(f, T)) - Cardinality(Lines(f, S) \cap Lines(f, T))
  BY LinesOf, FS_Union
<1>6. /\ Count(f, S) = Cardinality(Lines(f, S)) /\ Count(f, T) = Cardinality(Lines(f, T))
      /\ Count(f, S \cup T) = Cardinality(Lines(f, S) \cup Lines(f, T))
  BY <1>1, LinesOf
<1>7. PICK m, n \in Nat : m = Cardinality(Lines(f, S)) /\ n = Cardinality(Lines(f, T))
  BY <1>4
<1>8. Count(f, S \cup T) = m + n - 0
  BY <1>3, <1>4, <1>5, <1>6, <1>7, Zenon
<1> QED BY <1>6, <1>7, <1>8

\* Nothing counts for nothing.
LEMMA CountNothing == ASSUME NEW f \in Fails, NEW S, S \cap Time = {} PROVE Count(f, S) = 0
<1>1. ASSUME NEW l \in Lines(f, S) PROVE FALSE
  <2>1. l \in Time \X (1 .. MaxLines) /\ l[1] \in S
    BY LinesOf
  <2> QED BY <2>1
<1> QED BY <1>1, LinesOf, FS_EmptySet

\* The recent failures up to a time.
Upto(f, now, t) == Count(f, {u \in Time : now - Horizon =< u /\ u =< t})

\* There are the more the later.
LEMMA UptoType ==
  ASSUME NEW f \in Fails, NEW now \in Time, NEW t \in Int, NEW u \in Int, t =< u
  PROVE  Upto(f, now, t) \in Nat /\ Upto(f, now, u) \in Nat /\ Upto(f, now, t) =< Upto(f, now, u)
<1>1. {x \in Time : now - Horizon =< x /\ x =< t} \cap Time \subseteq {x \in Time : now - Horizon =< x /\ x =< u}
  BY DetectionAssumption DEF Time
<1>2. \A x \in Time : f[x] =< f[x]
  BY DEF Fails
<1> QED BY <1>1, <1>2, CountMonotone DEF Upto

\* They are listed in order: the k-th is not later than t just if there are k up to t.
LEMMA RecentInOrder ==
  ASSUME NEW f \in Fails, NEW now \in Time
  PROVE  LET ts == Recent(f, now)
             n == Upto(f, now, MaxTime)
         IN  /\ n \in Nat /\ DOMAIN ts = 1 .. n /\ ts \in [1 .. n -> Time]
             /\ \A k \in 1 .. n : \A t \in Time : ts[k] =< t <=> k =< Upto(f, now, t)
             /\ \A k \in 1 .. n : ts[k] >= now - Horizon
<1> DEFINE n == Upto(f, now, MaxTime)
           ts == Recent(f, now)
<1>1. n \in Nat
  BY UptoType, DetectionAssumption
<1>2. ts = [k \in 1 .. n |-> Min({t \in Time : k =< Upto(f, now, t)})]
  BY DEF Recent, Upto
<1>3. ASSUME NEW k \in 1 .. n
      PROVE  /\ ts[k] \in Time
             /\ \A t \in Time : ts[k] =< t <=> k =< Upto(f, now, t)
             /\ ts[k] >= now - Horizon
  <2> DEFINE S == {t \in Time : k =< Upto(f, now, t)}
  <2>1. MaxTime \in S /\ S \in SUBSET Nat
    BY <1>1, DetectionAssumption DEF Time
  <2>2. PICK x \in S : \A y \in S : x =< y
    <3> HIDE DEF S
    <3> QED BY <2>1, LeastNatural
  <2>3. Min(S) \in S /\ \A y \in S : Min(S) =< y
    <3> HIDE DEF S
    <3> QED BY <2>2 DEF Min
  <2>4. PICK m : m = Min(S)
    OBVIOUS
  <2>5. ts[k] = m
    BY <1>2, <2>4
  <2>6. m \in Time /\ k =< Upto(f, now, m)
    BY <2>3, <2>4
  <2>7. ASSUME NEW t \in Time, m =< t PROVE k =< Upto(f, now, t)
    <3>1. m \in Int /\ t \in Int
      BY <2>6 DEF Time
    <3>2. Upto(f, now, m) \in Nat /\ Upto(f, now, t) \in Nat /\ Upto(f, now, m) =< Upto(f, now, t)
      BY <2>7, <3>1, UptoType
    <3> QED BY <1>1, <2>6, <3>2
  <2>8. ASSUME m < now - Horizon PROVE FALSE
    <3>1. {u \in Time : now - Horizon =< u /\ u =< m} \cap Time = {}
      BY <2>6, <2>8, DetectionAssumption DEF Time
    <3>2. Upto(f, now, m) = 0
      BY <3>1, CountNothing DEF Upto
    <3> QED BY <1>1, <2>6, <3>2
  <2>9. now - Horizon \in Int /\ m \in Int
    BY <2>6, DetectionAssumption DEF Time
  <2>10. ASSUME NEW t \in Time, k =< Upto(f, now, t) PROVE m =< t
    BY <2>3, <2>4, <2>10
  <2>11. m >= now - Horizon
    BY ONLY <2>8, <2>9
  <2> HIDE DEF ts, S
  <2> QED BY <2>5, <2>6, <2>7, <2>10, <2>11
<1> QED BY <1>1, <1>2, <1>3


\* Sliding over a list in order, each window reaches back as far as it may.
LEMMA Slides ==
  ASSUME NEW n \in Nat, NEW ts \in [1 .. n -> Int], \A k, l \in 1 .. n : k =< l => ts[k] =< ts[l]
  PROVE  \A j \in 1 .. n :
           /\ SlideTo(ts)[j] \in 1 .. j
           /\ ts[j] - ts[SlideTo(ts)[j]] =< Window
           /\ \A l \in 1 .. j : l < SlideTo(ts)[j] => ts[j] - ts[l] > Window
<1> DEFINE First(j, from, k) == /\ k \in from .. j
                                /\ ts[j] - ts[k] =< Window
                                /\ \A l \in from .. k - 1 : ts[j] - ts[l] > Window
           Slide(i, j) == LET from == IF j = 1 THEN 1 ELSE i[j - 1]
                          IN  CHOOSE k \in from .. j : /\ ts[j] - ts[k] =< Window
                                                       /\ \A l \in from .. k - 1 : ts[j] - ts[l] > Window
           Body(i) == [j \in DOMAIN ts |-> Slide(i, j)]
<1>0. Window \in Nat
  BY DetectionAssumption
<1>1. ASSUME NEW j \in 1 .. n PROVE \E k \in 1 .. j : First(j, 1, k)
  <2> DEFINE S == {k \in 1 .. j : ts[j] - ts[k] =< Window}
  <2>1. ts[j] \in Int /\ j \in 1 .. j
    OBVIOUS
  <2>2. j \in S /\ S \in SUBSET Nat
    BY <1>0, <2>1
  <2>3. PICK k \in S : \A l \in S : k =< l
    <3> HIDE DEF S
    <3> QED BY <2>2, LeastNatural
  <2>4. \A l \in 1 .. k - 1 : l \in 1 .. j /\ ts[l] \in Int /\ l < k
    BY <2>3
  <2>5. \A l \in 1 .. k - 1 : ts[j] - ts[l] > Window
    BY <1>0, <2>1, <2>3, <2>4
  <2> QED BY <2>3, <2>5
\* where a window may start when the one before it starts at from
<1>2. ASSUME NEW j \in 1 .. n, NEW from \in 1 .. j, \A l \in 1 .. from - 1 : ts[j] - ts[l] > Window
      PROVE  /\ \E k \in from .. j : First(j, from, k)
             /\ \A k \in from .. j : First(j, from, k) => First(j, 1, k)
  <2>1. PICK k \in 1 .. j : First(j, 1, k)
    BY <1>1
  <2>2. ts[j] \in Int /\ ts[k] \in Int
    OBVIOUS
  <2>3. ~(k < from)
    BY <1>0, <1>2, <2>1, <2>2
  <2>4. First(j, from, k)
    BY <2>1, <2>3
  <2>5. ASSUME NEW m \in from .. j, First(j, from, m) PROVE First(j, 1, m)
    BY <1>2, <2>5
  <2> QED BY <2>1, <2>3, <2>4, <2>5
<1>3. ASSUME NEW j \in 1 .. n, NEW k, NEW m, First(j, 1, k), First(j, 1, m) PROVE k = m
  <2>1. k \in Int /\ m \in Int /\ ts[j] \in Int /\ ts[k] \in Int /\ ts[m] \in Int
    BY <1>3
  <2>2. ~(k < m) /\ ~(m < k)
    BY <1>0, <1>3, <2>1
  <2> QED BY <2>1, <2>2
<1>4. ASSUME NEW i, NEW j \in 1 .. n, j > 1 => i[j - 1] \in 1 .. j - 1 /\ First(j - 1, 1, i[j - 1])
      PROVE  First(j, 1, Body(i)[j])
  <2>1. PICK from : from = IF j = 1 THEN 1 ELSE i[j - 1]
    OBVIOUS
  <2>2. from \in 1 .. j
    BY <1>4, <2>1
  <2>3. \A l \in 1 .. from - 1 : ts[j] - ts[l] > Window
    <3> SUFFICES ASSUME NEW l \in 1 .. from - 1 PROVE ts[j] - ts[l] > Window
      OBVIOUS
    <3>1. j # 1 /\ from = i[j - 1] /\ j - 1 \in 1 .. n /\ l \in 1 .. n
      BY <2>1, <2>2
    <3>2. ts[j - 1] - ts[l] > Window
      BY <1>4, <3>1
    <3>3. ts[j - 1] =< ts[j] /\ ts[j] \in Int /\ ts[j - 1] \in Int /\ ts[l] \in Int
      BY <3>1
    <3> QED BY <1>0, <3>2, <3>3
  <2>4. PICK c : c = CHOOSE k \in from .. j : /\ ts[j] - ts[k] =< Window
                                              /\ \A l \in from .. k - 1 : ts[j] - ts[l] > Window
    OBVIOUS
  <2>5. Body(i)[j] = c
    BY <2>1, <2>4
  <2>6. c \in from .. j /\ First(j, from, c)
    BY <1>2, <2>2, <2>3, <2>4
  <2> HIDE DEF First, Body
  <2>7. First(j, 1, c)
    BY <1>2, <2>2, <2>3, <2>6
  <2> QED BY <2>5, <2>7
<1>5. \E i : i = Body(i)
  <2> DEFINE g == [j \in 1 .. n |-> CHOOSE k \in 1 .. j : First(j, 1, k)]
  <2> HIDE DEF First
  <2>1. \A j \in 1 .. n : g[j] \in 1 .. j /\ First(j, 1, g[j])
    BY <1>1
  <2>2. ASSUME NEW j \in 1 .. n PROVE Body(g)[j] = g[j]
    <3> HIDE DEF g, Body
    <3>1. j > 1 => j - 1 \in 1 .. n
      OBVIOUS
    <3>2. First(j, 1, Body(g)[j])
      BY <1>4, <2>1, <3>1
    <3> QED BY <1>3, <2>1, <3>2
  <2>3. DOMAIN g = 1 .. n /\ DOMAIN Body(g) = 1 .. n
    OBVIOUS
  <2>a. g = [j \in 1 .. n |-> g[j]]
    OBVIOUS
  <2>b. Body(g) = [j \in 1 .. n |-> Body(g)[j]]
    <3> HIDE DEF g, Slide
    <3> QED OBVIOUS
  <2> HIDE DEF g, Body
  <2>4. g = Body(g)
    BY <2>2, <2>a, <2>b
  <2> QED BY <2>4
<1>6. PICK i : i = SlideTo(ts)
  OBVIOUS
<1>7. i = Body(i)
  <2>1. SlideTo(ts) = CHOOSE h : h = Body(h)
    BY Zenon DEF SlideTo
  <2> HIDE DEF Body
  <2> QED BY <1>5, <1>6, <2>1, Zenon
<1>8. ASSUME NEW j \in 1 .. n PROVE i[j] \in 1 .. j /\ First(j, 1, i[j])
  <2> DEFINE Good(m) == i[m] \in 1 .. m /\ First(m, 1, i[m])
             Bad == {m \in 1 .. n : ~Good(m)}
  <2>1. ASSUME NEW m \in 1 .. n, m > 1 => Good(m - 1) PROVE Good(m)
    <3>1. First(m, 1, i[m])
      <4> HIDE DEF First, Body
      <4> QED BY <1>4, <1>7, <2>1
    <3> QED BY <3>1
  <2> HIDE DEF Good
  <2>2. ASSUME Bad # {} PROVE FALSE
    <3>1. PICK m \in Bad : \A x \in Bad : m =< x
      <4>1. Bad \in SUBSET Nat
        OBVIOUS
      <4> HIDE DEF Bad
      <4> QED BY <2>2, <4>1, LeastNatural
    <3>2. m \in 1 .. n /\ (m > 1 => m - 1 \in 1 .. n /\ ~(m =< m - 1))
      OBVIOUS
    <3>3. m > 1 => Good(m - 1)
      BY <3>1, <3>2
    <3> QED BY <2>1, <3>1, <3>2, <3>3
  <2>3. Good(j)
    BY <2>2
  <2> QED BY <2>3 DEF Good
<1>9. ASSUME NEW j \in 1 .. n PROVE \A l \in 1 .. j : l < i[j] => l \in 1 .. i[j] - 1
  BY <1>8
<1> QED BY <1>6, <1>8, <1>9

\* At a time with a failure there are more than before it.
LEMMA UptoGrows ==
  ASSUME NEW f \in Fails, NEW now \in Time, NEW t \in Time, t >= now - Horizon, f[t] > 0
  PROVE  Upto(f, now, t - 1) + 1 =< Upto(f, now, t)
<1> DEFINE A == {x \in Time : now - Horizon =< x /\ x =< t - 1}
           C == {x \in Time : now - Horizon =< x /\ x =< t}
<1>1. \A x \in Time : x \in Nat /\ f[x] =< f[x]
  BY DetectionAssumption DEF Time, Fails
<1>2. Horizon \in Nat /\ MaxLines \in Nat \ {0} /\ now \in Nat /\ t \in Nat
  BY <1>1, DetectionAssumption
<1>3. \A x \in Time : x \in C <=> x \in A \/ x \in {t}
  BY <1>1, <1>2
<1>4. A \cap {t} \cap Time = {}
  BY <1>2
<1> HIDE DEF A, C
<1>5. Count(f, A \cup {t}) \in Nat /\ Count(f, C) \in Nat /\ Count(f, A \cup {t}) =< Count(f, C)
  <2>1. (A \cup {t}) \cap Time \subseteq C
    BY <1>3
  <2> QED BY <1>1, <2>1, CountMonotone
<1>6. Count(f, A \cup {t}) = Count(f, A) + Count(f, {t})
  BY <1>4, CountAdds
<1>7. Count(f, {t}) >= 1
  <2>1. 1 \in 1 .. MaxLines /\ 1 =< f[t]
    BY <1>2 DEF Fails
  <2>2. PICK l : l = <<t, 1>>
    OBVIOUS
  <2>3. l \in Time \X (1 .. MaxLines) /\ l[1] \in {t} /\ l[2] =< f[l[1]]
    BY <2>1, <2>2
  <2>4. l \in Lines(f, {t})
    BY <2>3, LinesOf
  <2>5. Cardinality(Lines(f, {t})) \in Nat /\ Cardinality(Lines(f, {t})) # 0
    BY <2>4, LinesOf, FS_CardinalityType, FS_EmptySet
  <2> QED BY <2>5, LinesOf
<1>8. Count(f, A) \in Nat /\ Count(f, {t}) \in Nat
  BY <1>1, CountMonotone
<1>9. Upto(f, now, t - 1) = Count(f, A) /\ Upto(f, now, t) = Count(f, C)
  BY DEF Upto, A, C
<1> QED BY <1>5, <1>6, <1>7, <1>8, <1>9

\* The recent failures up to the end of a window are those before it and those in it.
WindowEnd(s) == IF s + Window =< MaxTime THEN s + Window ELSE MaxTime

\* Where it begins within the horizon.
LEMMA UptoWindow ==
  ASSUME NEW f \in Fails, NEW now \in Time, NEW s \in Time, s >= now - Horizon
  PROVE  /\ WindowEnd(s) \in Time
         /\ Count(f, InWindow(s)) \in Nat
         /\ Upto(f, now, WindowEnd(s)) = Upto(f, now, s - 1) + Count(f, InWindow(s))
<1> DEFINE A == {x \in Time : now - Horizon =< x /\ x =< s - 1}
           B == InWindow(s)
           C == {x \in Time : now - Horizon =< x /\ x =< WindowEnd(s)}
<1>1. /\ MaxTime \in Nat /\ Window \in Nat /\ Horizon \in Nat /\ s \in Nat /\ now \in Nat
      /\ s =< MaxTime
  BY DetectionAssumption DEF Time
<1>2. WindowEnd(s) \in Time
  BY <1>1 DEF WindowEnd, Time
<1>3. ASSUME NEW x \in Time PROVE x \in C <=> x \in A \/ x \in B
  <2>1. x \in Nat /\ x =< MaxTime
    BY <1>1 DEF Time
  <2> QED BY <1>1, <2>1 DEF WindowEnd, InWindow
<1>4. ASSUME NEW x \in Time PROVE ~(x \in A /\ x \in B)
  BY <1>1 DEF InWindow, Time
<1>5. \A x \in Time : f[x] =< f[x]
  BY DEF Fails
<1> HIDE DEF A, B, C
<1>6. Count(f, C) \in Nat /\ Count(f, A \cup B) \in Nat
      /\ Count(f, C) =< Count(f, A \cup B) /\ Count(f, A \cup B) =< Count(f, C)
  <2>1. C \cap Time \subseteq A \cup B /\ (A \cup B) \cap Time \subseteq C
    BY <1>3
  <2> QED BY <1>5, <2>1, CountMonotone
<1>7. Count(f, A \cup B) = Count(f, A) + Count(f, B)
  BY <1>4, CountAdds
<1>8. Count(f, B) \in Nat
  BY <1>5, CountMonotone
<1>9. Count(f, C) = Count(f, A) + Count(f, B)
  BY <1>6, <1>7
<1>10. Upto(f, now, s - 1) = Count(f, A) /\ Upto(f, now, WindowEnd(s)) = Count(f, C)
  BY DEF Upto, A, C
<1> QED BY <1>2, <1>8, <1>9, <1>10 DEF B

\* The sliding window finds one just where there is one that the horizon leaves in sight, and for a window
\* that starts with a failure the first one it finds starts no later.
LEMMA SlidingFinds ==
  ASSUME NEW f \in Fails, NEW now \in Time
  PROVE  LET ts == Recent(f, now)
             i == SlideTo(ts)
             hits == {j \in DOMAIN ts : j - i[j] + 1 >= Threshold}
         IN  /\ hits \in SUBSET Nat
             /\ \A j \in hits : ts[i[j]] \in Time /\ Burst(f, ts[i[j]]) /\ ts[i[j]] >= now - Horizon
             /\ \A t \in Time : t >= now - Horizon /\ f[t] > 0 /\ Burst(f, t) =>
                  \E b \in hits : \A j \in hits : j =< b => ts[i[j]] =< t
<1> DEFINE n == Upto(f, now, MaxTime)
<1>1. PICK ts : ts = Recent(f, now)
  OBVIOUS
<1>2. PICK i : i = SlideTo(ts)
  OBVIOUS
<1>3. /\ MaxTime \in Nat /\ Window \in Nat /\ Horizon \in Nat /\ Threshold \in Nat /\ Threshold > 0
      /\ now \in Nat /\ MaxTime \in Time /\ \A t \in Time : t \in Nat /\ t =< MaxTime
  BY DetectionAssumption DEF Time
<1>4. /\ n \in Nat /\ DOMAIN ts = 1 .. n /\ ts \in [1 .. n -> Time]
      /\ \A k \in 1 .. n : \A t \in Time : ts[k] =< t <=> k =< Upto(f, now, t)
      /\ \A k \in 1 .. n : ts[k] >= now - Horizon
  BY <1>1, RecentInOrder
<1> HIDE DEF n
<1>5. \A k \in 1 .. n : ts[k] \in Time /\ ts[k] \in Nat
  BY <1>3, <1>4
<1>6. \A t \in Int : Upto(f, now, t) \in Nat
  BY UptoType
<1>7. ASSUME NEW k \in 1 .. n, NEW l \in 1 .. n, k =< l PROVE ts[k] =< ts[l]
  <2>1. ts[l] \in Time /\ ts[l] =< ts[l]
    BY <1>5
  <2>2. l =< Upto(f, now, ts[l])
    BY <1>4, <2>1
  <2>3. k =< Upto(f, now, ts[l])
    <3>1. PICK m : m = Upto(f, now, ts[l])
      OBVIOUS
    <3>2. m \in Nat /\ l =< m /\ k \in Nat /\ l \in Nat
      BY <1>4, <1>5, <1>6, <2>2, <3>1
    <3>3. k =< m
      BY <1>7, <3>2
    <3> QED BY <3>1, <3>3
  <2> QED BY <1>4, <2>1, <2>3
<1>8. \A j \in 1 .. n : /\ i[j] \in 1 .. j /\ ts[j] - ts[i[j]] =< Window
                        /\ \A l \in 1 .. j : l < i[j] => ts[j] - ts[l] > Window
  <2>1. ts \in [1 .. n -> Int]
    BY <1>4, <1>5
  <2> QED BY <1>2, <1>4, <1>7, <2>1, Slides
<1>9. ASSUME NEW j \in 1 .. n, j - i[j] + 1 >= Threshold
      PROVE  ts[i[j]] \in Time /\ Burst(f, ts[i[j]]) /\ ts[i[j]] >= now - Horizon
  <2>1. PICK k : k = i[j] /\ k \in 1 .. n /\ k \in Nat /\ k =< j
    BY <1>4, <1>8
  <2>2. PICK s : s = ts[k] /\ s \in Time /\ s \in Nat /\ s >= now - Horizon
    BY <1>4, <1>5, <2>1
  <2>3. /\ WindowEnd(s) \in Time
        /\ Count(f, InWindow(s)) \in Nat
        /\ Upto(f, now, WindowEnd(s)) = Upto(f, now, s - 1) + Count(f, InWindow(s))
    BY <2>2, UptoWindow
  <2>4. j =< Upto(f, now, WindowEnd(s))
    <3>1. ts[j] =< s + Window /\ ts[j] =< MaxTime /\ ts[j] \in Nat
      BY <1>3, <1>5, <1>8, <2>1, <2>2
    <3>2. ts[j] =< WindowEnd(s)
      BY <3>1 DEF WindowEnd
    <3> QED BY <1>4, <2>3, <3>2
  <2>5. Upto(f, now, s - 1) < k
    <3>1. CASE s = 0
      <4>1. {x \in Time : now - Horizon =< x /\ x =< s - 1} \cap Time = {}
        <5>1. ASSUME NEW x \in Time, x =< s - 1 PROVE FALSE
          BY <1>3, <3>1, <5>1
        <5> QED BY <5>1
      <4>2. Upto(f, now, s - 1) = 0
        BY <4>1, CountNothing DEF Upto
      <4> QED BY <2>1, <4>2
    <3>2. CASE s # 0
      <4>1. s - 1 \in Time /\ ~(s =< s - 1)
        BY <1>3, <2>2, <3>2 DEF Time
      <4>2. ~(k =< Upto(f, now, s - 1))
        BY <1>4, <2>1, <2>2, <4>1
      <4>3. Upto(f, now, s - 1) \in Nat
        BY <1>6, <2>2
      <4> QED BY <2>1, <4>2, <4>3
    <3> QED BY <3>1, <3>2
  <2>6. Upto(f, now, s - 1) \in Nat
    BY <1>6, <2>2
  <2>7. Count(f, InWindow(s)) >= j - k + 1
    BY <1>4, <2>1, <2>3, <2>4, <2>5, <2>6
  <2>8. Count(f, InWindow(s)) >= Threshold
    BY <1>3, <1>4, <1>9, <2>1, <2>3, <2>7
  <2> QED BY <2>1, <2>2, <2>8 DEF Burst
<1>10. ASSUME NEW t \in Time, t >= now - Horizon, f[t] > 0, Burst(f, t)
       PROVE  \E b \in 1 .. n : b - i[b] + 1 >= Threshold /\ \A j \in 1 .. b : ts[i[j]] =< t
  <2>1. /\ WindowEnd(t) \in Time
        /\ Count(f, InWindow(t)) \in Nat
        /\ Upto(f, now, WindowEnd(t)) = Upto(f, now, t - 1) + Count(f, InWindow(t))
    BY <1>10, UptoWindow
  <2>2. PICK a, b : a = Upto(f, now, t - 1) + 1 /\ b = Upto(f, now, WindowEnd(t))
    OBVIOUS
  <2>3. t \in Nat /\ Upto(f, now, t - 1) \in Nat /\ WindowEnd(t) \in Nat /\ WindowEnd(t) =< MaxTime
    <3>1. t \in Nat /\ WindowEnd(t) \in Nat /\ WindowEnd(t) =< MaxTime
      <4>1. \A x \in Time : x \in Nat /\ x =< MaxTime
        BY <1>3
      <4> QED BY <2>1, <4>1
    <3> QED BY <1>6, <3>1
  <2>4. b - a + 1 = Count(f, InWindow(t)) /\ a \in Nat /\ b \in Nat /\ a >= 1
    BY <2>1, <2>2, <2>3
  <2>5. a =< b
    BY <1>3, <1>10, <2>1, <2>4 DEF Burst
  <2>6. b =< n
    <3>1. Upto(f, now, WindowEnd(t)) =< Upto(f, now, MaxTime)
      BY <1>3, <2>3, UptoType
    <3> QED BY <2>2, <3>1 DEF n
  <2>7. a \in 1 .. n /\ b \in 1 .. n
    BY <1>4, <2>4, <2>5, <2>6
  <2>8. ts[b] =< WindowEnd(t) /\ ts[b] \in Nat
    <3>1. b =< Upto(f, now, WindowEnd(t))
      BY <2>2, <2>4
    <3> QED BY <1>4, <1>5, <2>1, <2>7, <3>1
  <2>9. ts[a] >= t /\ ts[a] \in Nat
    <3>1. CASE t = 0
      BY <1>5, <2>7, <3>1
    <3>2. CASE t # 0
      <4>1. t - 1 \in Time
        BY <1>3, <2>3, <3>2 DEF Time
      <4>2. ~(a =< Upto(f, now, t - 1))
        BY <2>2, <2>3
      <4>3. ~(ts[a] =< t - 1) /\ ts[a] \in Nat
        BY <1>4, <1>5, <2>7, <4>1, <4>2
      <4> QED BY <2>3, <4>3
    <3> QED BY <3>1, <3>2
  <2>10. WindowEnd(t) =< t + Window
    BY <1>3, <2>3 DEF WindowEnd
  <2>11. ts[b] - ts[a] =< Window
    BY <1>3, <2>3, <2>8, <2>9, <2>10
  <2>12. i[b] \in 1 .. b /\ ~(a < i[b])
    BY <1>3, <1>8, <2>4, <2>5, <2>7, <2>8, <2>9, <2>11
  <2>13. b - i[b] + 1 >= Count(f, InWindow(t))
    BY <2>4, <2>12
  <2>14. b - i[b] + 1 >= Threshold
    BY <1>3, <1>10, <2>1, <2>4, <2>12, <2>13 DEF Burst
  \* the first failure at t is the a-th, and no window up to b starts after it
  <2>15. ts[a] =< t
    <3>1. a =< Upto(f, now, t)
      BY <1>10, <2>2, <2>3, UptoGrows
    <3> QED BY <1>4, <2>7, <3>1
  <2>16. ASSUME NEW j \in 1 .. b PROVE ts[i[j]] =< t
    <3>1. j \in 1 .. n /\ j =< b /\ ts[j] \in Nat
      BY <1>4, <1>5, <2>4, <2>7
    <3>2. i[j] \in 1 .. j /\ i[j] \in 1 .. n /\ \A l \in 1 .. j : l < i[j] => ts[j] - ts[l] > Window
      BY <1>4, <1>8, <3>1
    <3>3. ts[j] =< ts[b]
      BY <1>7, <2>7, <3>1
    <3>4. ASSUME a < i[j] PROVE FALSE
      <4>1. a \in 1 .. j
        BY <2>4, <3>1, <3>2, <3>4
      <4>2. ts[j] - ts[a] > Window
        BY <3>2, <3>4, <4>1
      <4> QED BY <1>3, <2>8, <2>9, <2>11, <3>1, <3>3, <4>2
    <3>5. i[j] =< a
      BY <2>4, <3>2, <3>4
    <3>6. ts[i[j]] =< ts[a] /\ ts[i[j]] \in Nat
      BY <1>5, <1>7, <2>7, <3>2, <3>5
    <3> QED BY <1>3, <2>9, <2>15, <3>6
  <2> QED BY <2>7, <2>14, <2>16
<1>11. PICK hits : hits = {j \in DOMAIN ts : j - i[j] + 1 >= Threshold}
  OBVIOUS
<1>12. /\ hits \in SUBSET Nat
       /\ \A j \in hits : ts[i[j]] \in Time /\ Burst(f, ts[i[j]]) /\ ts[i[j]] >= now - Horizon
  BY <1>4, <1>9, <1>11
<1>13. ASSUME NEW t \in Time, t >= now - Horizon, f[t] > 0, Burst(f, t)
       PROVE  \E b \in hits : \A j \in hits : j =< b => ts[i[j]] =< t
  <2>1. PICK b \in 1 .. n : b - i[b] + 1 >= Threshold /\ \A j \in 1 .. b : ts[i[j]] =< t
    BY <1>10, <1>13
  <2>2. b \in hits
    BY <1>4, <1>11, <2>1
  <2>3. \A j \in hits : j =< b => j \in 1 .. b
    BY <1>4, <1>11, <2>1
  <2> QED BY <2>1, <2>2, <2>3
<1> QED BY <1>1, <1>2, <1>11, <1>12, <1>13, Zenon

\* The lines of a client.
ClientLines == [Kinds -> Fails]
Fewer(r, s) == \A k \in Kinds, t \in Time : r[k][t] =< s[k][t]

\* What the store gives back is stored, and where no more lines than the limit follow it is all there is.
LEMMA NewestSees ==
  ASSUME NEW s \in ClientLines, NEW r \in Newest(s)
  PROVE  /\ r \in ClientLines /\ Fewer(r, s)
         /\ \A t \in Time : Total(s, t .. MaxTime) =< Limit =>
              \A k \in Kinds : \A u \in Time : u >= t => r[k][u] = s[k][u]
<1> DEFINE full == {t \in Time : Total(s, t .. MaxTime) > Limit}
           cut == Max(full)
           room == Limit - Total(s, cut + 1 .. MaxTime)
           some == {n \in [Kinds -> 0 .. MaxLines] :
                      n.fail + n.ok + n.other = room /\ \A k \in Kinds : n[k] =< s[k][cut]}
           cutOff(n) == [k \in Kinds |-> [t \in Time |-> IF t > cut THEN s[k][t] ELSE IF t = cut THEN n[k] ELSE 0]]
<1>1. /\ \A k \in Kinds : s[k] \in Fails /\ \A t \in Time : s[k][t] \in 0 .. MaxLines
      /\ \A t \in Time : t \in Nat /\ t =< MaxTime
      /\ MaxLines \in Nat /\ MaxTime \in Nat /\ Limit \in Nat
  BY DetectionAssumption DEF ClientLines, Fails, Time
<1>2. CASE full = {}
  <2>1. r = s
    BY <1>2 DEF Newest
  <2> QED BY <1>1, <2>1 DEF Fewer
<1>3. CASE full # {}
  <2>1. PICK n \in some : r = cutOff(n)
    BY <1>3 DEF Newest
  <2>2. cut \in full
    <3>1. full \in SUBSET (0 .. MaxTime)
      BY DEF Time
    <3> HIDE DEF full
    <3> QED BY <1>1, <1>3, <3>1, GreatestNatural
  <2>3. PICK c : c = cut
    OBVIOUS
  <2>4. \A k \in Kinds : n[k] \in 0 .. MaxLines /\ n[k] =< s[k][c]
    BY <2>1, <2>3
  <2>5. \A k \in Kinds : \A t \in Time : r[k][t] = IF t > c THEN s[k][t] ELSE IF t = c THEN n[k] ELSE 0
    <3> HIDE DEF cut
    <3> QED BY <2>1, <2>3
  <2>6. r = [k \in Kinds |-> [t \in Time |-> IF t > c THEN s[k][t] ELSE IF t = c THEN n[k] ELSE 0]]
    <3> HIDE DEF cut
    <3> QED BY <2>1, <2>3
  <2>7. \A k \in Kinds : \A t \in Time : r[k][t] \in 0 .. MaxLines /\ r[k][t] =< s[k][t]
    BY <1>1, <2>4, <2>5
  <2>8. r \in ClientLines /\ Fewer(r, s)
    BY <2>6, <2>7 DEF ClientLines, Fails, Fewer
  <2>9. ASSUME NEW t \in Time, Total(s, t .. MaxTime) =< Limit PROVE t > c
    <3>1. c \in Time /\ Total(s, c .. MaxTime) > Limit
      BY <2>2, <2>3
    <3>2. ASSUME t =< c PROVE FALSE
      <4>1. (c .. MaxTime) \cap Time \subseteq t .. MaxTime
        BY <1>1, <3>1, <3>2
      <4>2. \A k \in Kinds : /\ Count(s[k], c .. MaxTime) \in Nat /\ Count(s[k], t .. MaxTime) \in Nat
                             /\ Count(s[k], c .. MaxTime) =< Count(s[k], t .. MaxTime)
        <5> SUFFICES ASSUME NEW k \in Kinds
                     PROVE  /\ Count(s[k], c .. MaxTime) \in Nat /\ Count(s[k], t .. MaxTime) \in Nat
                            /\ Count(s[k], c .. MaxTime) =< Count(s[k], t .. MaxTime)
          OBVIOUS
        <5>1. s[k] \in Fails /\ \A x \in Time : s[k][x] =< s[k][x]
          BY <1>1
        <5> HIDE DEF full, cut, room, some, cutOff
        <5> QED BY <4>1, <5>1, CountMonotone
      <4>3. Total(s, c .. MaxTime) =< Total(s, t .. MaxTime)
            /\ Total(s, c .. MaxTime) \in Nat /\ Total(s, t .. MaxTime) \in Nat
        BY <4>2 DEF Total, Kinds
      <4> QED BY <1>1, <2>9, <3>1, <4>3
    <3> QED BY <1>1, <3>1, <3>2
  <2>10. ASSUME NEW t \in Time, Total(s, t .. MaxTime) =< Limit, NEW k \in Kinds, NEW u \in Time, u >= t
         PROVE  r[k][u] = s[k][u]
    <3>1. u > c
      <4>1. t > c /\ c \in Nat
        BY <1>1, <2>2, <2>3, <2>9, <2>10
      <4> QED BY <1>1, <2>10, <4>1
    <3> QED BY <2>5, <3>1
  <2> QED BY <2>8, <2>10
<1> QED BY <1>2, <1>3

\* An alert about lines s: a window with enough failures, and a log-in after its start.
FoundedIn(a, s) ==
  \E t \in Time : /\ t \div Window = a.bucket
                  /\ Burst(s.fail, t)
                  /\ a.ok # None => a.ok \in Time /\ a.ok >= t /\ s.ok[a.ok] > 0

\* An alert that reports the window of t, as lines s show it.
ReportsIn(a, c, t, s) ==
  \E from \in Time :
    /\ a.rule = "ssh-bruteforce" /\ a.client = c /\ a.bucket = from \div Window
    /\ Burst(s.fail, from)
    /\ from =< t /\ t =< from + Horizon

\* What is a burst stays one while lines are stored.
LEMMA BurstStays ==
  ASSUME NEW f \in Fails, NEW g \in Fails, \A t \in Time : f[t] =< g[t], NEW t, Burst(f, t)
  PROVE  Burst(g, t)
<1>1. /\ Count(f, InWindow(t)) \in Nat /\ Count(g, InWindow(t)) \in Nat
      /\ Count(f, InWindow(t)) =< Count(g, InWindow(t))
  BY CountMonotone
<1> QED BY <1>1, DetectionAssumption DEF Burst

\* So do the reasons of alerts.
LEMMA ReasonsStay ==
  ASSUME NEW r \in ClientLines, NEW s \in ClientLines, Fewer(r, s), NEW a
  PROVE  /\ FoundedIn(a, r) => FoundedIn(a, s)
         /\ \A c, t : ReportsIn(a, c, t, r) => ReportsIn(a, c, t, s)
<1>1. /\ r.fail \in Fails /\ s.fail \in Fails /\ \A t \in Time : r.fail[t] =< s.fail[t]
      /\ \A t \in Time : r.ok[t] \in Nat /\ s.ok[t] \in Nat /\ r.ok[t] =< s.ok[t]
  BY DetectionAssumption DEF ClientLines, Kinds, Fails, Fewer
<1>2. \A t : Burst(r.fail, t) => Burst(s.fail, t)
  BY <1>1, BurstStays
<1>3. ASSUME FoundedIn(a, r) PROVE FoundedIn(a, s)
  <2>1. PICK t \in Time : /\ t \div Window = a.bucket /\ Burst(r.fail, t)
                          /\ a.ok # None => a.ok \in Time /\ a.ok >= t /\ r.ok[a.ok] > 0
    BY <1>3 DEF FoundedIn
  <2>2. a.ok # None => a.ok \in Time /\ a.ok >= t /\ s.ok[a.ok] > 0
    BY <1>1, <2>1
  <2> QED BY <1>2, <2>1, <2>2 DEF FoundedIn
<1>4. \A c, t : ReportsIn(a, c, t, r) => ReportsIn(a, c, t, s)
  BY <1>2 DEF ReportsIn
<1> QED BY <1>3, <1>4

\* What evaluate raises is founded, and it reports every burst in sight.
LEMMA EvaluateFinds ==
  ASSUME NEW c, NEW s \in ClientLines, NEW now \in Time
  PROVE  /\ \A a \in Evaluate(c, s, now) : a.client = c /\ FoundedIn(a, s)
         /\ \A t \in Time : t >= now - Horizon /\ t =< now /\ s.fail[t] > 0 /\ Burst(s.fail, t) =>
              \E a \in Evaluate(c, s, now) : ReportsIn(a, c, t, s)
<1>1. PICK ts : ts = Recent(s.fail, now)
  OBVIOUS
<1>2. PICK i : i = SlideTo(ts)
  OBVIOUS
<1>3. PICK hits : hits = {j \in DOMAIN ts : j - i[j] + 1 >= Threshold}
  OBVIOUS
<1>4. /\ hits \in SUBSET Nat
      /\ \A j \in hits : ts[i[j]] \in Time /\ Burst(s.fail, ts[i[j]]) /\ ts[i[j]] >= now - Horizon
      /\ \A t \in Time : t >= now - Horizon /\ s.fail[t] > 0 /\ Burst(s.fail, t) =>
           \E b \in hits : \A j \in hits : j =< b => ts[i[j]] =< t
  <2>1. s.fail \in Fails
    BY DEF ClientLines, Kinds
  <2> QED BY <1>1, <1>2, <1>3, <2>1, SlidingFinds
<1>5. CASE hits = {}
  <2>1. Evaluate(c, s, now) = {}
    BY <1>1, <1>2, <1>3, <1>5 DEF Evaluate
  <2> QED BY <1>4, <1>5, <2>1
<1>6. CASE hits # {}
  <2>1. Min(hits) \in hits /\ \A j \in hits : Min(hits) =< j
    BY <1>4, <1>6, LeastNatural DEF Min
  <2>2. PICK from : from = ts[i[Min(hits)]]
    OBVIOUS
  <2>3. from \in Time /\ Burst(s.fail, from) /\ from >= now - Horizon
    BY <1>4, <2>1, <2>2
  <2>4. PICK ok : ok = {t \in Time : s.ok[t] > 0 /\ t >= now - Horizon /\ t >= from /\ t =< ts[Min(hits)] + Horizon}
    OBVIOUS
  <2>5. PICK brute : brute = [rule |-> "ssh-bruteforce", client |-> c, bucket |-> from \div Window, ok |-> None]
    OBVIOUS
  <2>6. Evaluate(c, s, now) = {brute} \cup
          (IF ok = {} THEN {}
           ELSE {[rule |-> "ssh-success-after", client |-> c, bucket |-> from \div Window, ok |-> Min(ok)]})
    BY <1>1, <1>2, <1>3, <1>6, <2>2, <2>4, <2>5 DEF Evaluate
  <2>7. ok # {} => Min(ok) \in Time /\ s.ok[Min(ok)] > 0 /\ Min(ok) >= from
    <3>1. ok \in SUBSET Nat
      <4>1. \A x \in Time : x \in Nat
        BY DetectionAssumption DEF Time
      <4> QED BY <2>4, <4>1
    <3>2. ok # {} => Min(ok) \in ok
      BY <3>1, LeastNatural DEF Min
    <3> QED BY <2>4, <3>2
  <2>8. ASSUME NEW a \in Evaluate(c, s, now) PROVE a.client = c /\ FoundedIn(a, s)
    <3>1. /\ a.client = c /\ a.bucket = from \div Window
          /\ a.ok # None => a.ok \in Time /\ s.ok[a.ok] > 0 /\ a.ok >= from
      BY <2>5, <2>6, <2>7
    <3> QED BY <2>3, <3>1 DEF FoundedIn
  <2>9. ASSUME NEW t \in Time, t >= now - Horizon, t =< now, s.fail[t] > 0, Burst(s.fail, t)
        PROVE  \E a \in Evaluate(c, s, now) : ReportsIn(a, c, t, s)
    <3>1. PICK b \in hits : \A j \in hits : j =< b => ts[i[j]] =< t
      BY <1>4, <2>9
    <3>2. from =< t
      BY <2>1, <2>2, <3>1
    <3>3. t =< from + Horizon
      <4>1. from \in Nat /\ t \in Nat /\ now \in Nat /\ Horizon \in Nat
        BY <2>3, DetectionAssumption DEF Time
      <4> QED BY <2>3, <2>9, <4>1
    <3>4. brute \in Evaluate(c, s, now)
      BY <2>6
    <3>5. brute.rule = "ssh-bruteforce" /\ brute.client = c /\ brute.bucket = from \div Window
      BY <2>5
    <3>6. ReportsIn(brute, c, t, s)
      BY <2>3, <3>2, <3>3, <3>5 DEF ReportsIn
    <3> QED BY <3>4, <3>6
  <2> QED BY <2>8, <2>9
<1> QED BY <1>5, <1>6

-----------------------------------------------------------------------------
\* An alert about a client is founded in its stored lines.
Founded(a) == a.client \in Clients /\ FoundedIn(a, logs[a.client])

\* A window that will be reported: some batch with a failure in it has yet to read the lines of the client,
\* or has found the window and its alert is on the way.
Due(c, t) ==
  \E v \in Workers :
    /\ At(v, "read") /\ t \in Concerned(job[v].brought, c)
    /\ c \in job[v].left \/ \E a \in job[v].found : ReportsIn(a, c, t, logs[c])

Settled(c, t) ==
  \/ <<c, t>> \in overlooked
  \/ \E a \in raised : ReportsIn(a, c, t, logs[c])
  \/ Due(c, t)

\* A batch being judged; it holds no line later than its latest.
BatchOK(j) ==
  /\ {"pc", "left", "now", "brought", "found"} \subseteq DOMAIN j
  /\ j.left \subseteq Clients /\ j.now \in Time
  /\ \A c \in Clients : \A u : <<c, u>> \in j.brought => u \in Time /\ u =< j.now
  /\ \A a \in j.found : Founded(a)

\* The inductive invariant.
BurstsInv ==
  /\ logs \in [Clients -> ClientLines]
  /\ DOMAIN job = Workers
  /\ \A v \in Workers : At(v, "read") => BatchOK(job[v])
  /\ \A a \in raised : Founded(a)
  /\ \A c \in Clients : \A t \in Time : logs[c].fail[t] > 0 /\ Burst(logs[c].fail, t) => Settled(c, t)

\* Nothing is stored in the beginning.
LEMMA BurstsStart == RequestsInit /\ DetectionInit => BurstsInv
<1> SUFFICES ASSUME RequestsInit, DetectionInit PROVE BurstsInv
  OBVIOUS
<1>1. logs \in [Clients -> ClientLines]
  BY DetectionAssumption DEF DetectionInit, ClientLines, Fails
<1>2. \A c \in Clients : \A t \in Time : ~(logs[c].fail[t] > 0)
  BY DEF DetectionInit, Kinds
<1>3. \A v \in Workers : ~At(v, "read")
  BY DEF RequestsInit, At, NoJob
<1> QED BY <1>1, <1>2, <1>3 DEF RequestsInit, DetectionInit, BurstsInv

\* A batch is stored and will be judged.
LEMMA StoreStep ==
  ASSUME BurstsInv, NEW w \in Workers, Idle(w), NEW b \in Batches, NEW resent, Store(w, b, resent), UNCHANGED raised
  PROVE  BurstsInv'
<1>1. PICK n \in 1 .. MaxBatch : b \in [1 .. n -> Entries]
  BY DEF Batches
<1>2. /\ n \in Nat /\ DOMAIN b = 1 .. n
      /\ \A i \in 1 .. n : b[i].client \in Clients /\ b[i].at \in Time /\ b[i].kind \in Kinds
  BY <1>1, DetectionAssumption
\* the lines there are, and those there will be
<1>3. ASSUME NEW c \in Clients, NEW k \in Kinds, NEW t \in Time
      PROVE  /\ logs'[c][k][t] = logs[c][k][t] + Carried(b, c, k, t)
             /\ Carried(b, c, k, t) \in Nat /\ logs[c][k][t] \in Nat
             /\ logs'[c][k][t] \in 0 .. MaxLines /\ logs[c][k][t] =< logs'[c][k][t]
  <2>1. logs'[c][k][t] = logs[c][k][t] + Carried(b, c, k, t) /\ logs'[c][k][t] =< MaxLines
    BY DEF Store, Stored
  <2>2. Carried(b, c, k, t) \in Nat
    <3>1. {i \in DOMAIN b : b[i] = [client |-> c, kind |-> k, at |-> t]} \in SUBSET (1 .. n)
      BY <1>2
    <3>2. IsFiniteSet(1 .. n)
      BY <1>2, FS_Interval
    <3> QED BY <3>1, <3>2, FS_Subset, FS_CardinalityType DEF Carried
  <2>3. logs[c][k][t] \in 0 .. MaxLines /\ MaxLines \in Nat
    BY DetectionAssumption DEF BurstsInv, ClientLines, Fails
  <2> QED BY <2>1, <2>2, <2>3
<1>4. logs' \in [Clients -> ClientLines]
  <2>1. logs' = [c \in Clients |-> [k \in Kinds |-> [t \in Time |-> logs'[c][k][t]]]]
    BY DEF Store, Stored
  <2> HIDE DEF Kinds
  <2> QED BY <1>3, <2>1 DEF ClientLines, Fails
<1>5. \A c \in Clients : logs[c] \in ClientLines /\ logs'[c] \in ClientLines /\ Fewer(logs[c], logs'[c])
  BY <1>3, <1>4 DEF BurstsInv, Fewer
<1>6. /\ \A a : Founded(a) => Founded(a)'
      /\ \A a : \A c \in Clients : \A t : ReportsIn(a, c, t, logs[c]) => ReportsIn(a, c, t, logs'[c])
  BY <1>5, ReasonsStay DEF Founded
<1> DEFINE j == Job("read", None, [left |-> Judged(b), now |-> Latest(b), brought |-> Failures(b),
                                   found |-> {}, resent |-> resent])
<1>7. /\ Continue(w, j) /\ {"pc", "left", "now", "brought", "found"} \subseteq DOMAIN j
      /\ j.pc = "read" /\ j.left = Judged(b) /\ j.now = Latest(b) /\ j.brought = Failures(b) /\ j.found = {}
  <2>1. PICK fields : fields = [left |-> Judged(b), now |-> Latest(b), brought |-> Failures(b),
                                found |-> {}, resent |-> resent]
    OBVIOUS
  <2>2. DOMAIN fields = {"left", "now", "brought", "found", "resent"}
    BY <2>1
  <2>3. j = Job("read", None, fields)
    BY <2>1
  <2>4. Continue(w, j)
    BY DEF Store
  <2> HIDE DEF j
  <2>5. \A x \in DOMAIN fields : x \notin {"pc", "on"} => j[x] = fields[x]
    BY <2>3, JobFields
  <2>6. {"pc", "left", "now", "brought", "found"} \subseteq DOMAIN j /\ j.pc = "read"
    BY <2>2, <2>3, JobFields
  <2>7. j.left = fields.left /\ j.now = fields.now /\ j.brought = fields.brought /\ j.found = fields.found
    BY <2>2, <2>5
  <2> QED BY <2>1, <2>4, <2>6, <2>7
<1> HIDE DEF j
<1>8. DOMAIN job' = Workers /\ job'[w] = j /\ \A v \in Workers \ {w} : job'[v] = job[v]
  BY <1>7, ContinueJob DEF BurstsInv
<1>9. Latest(b) \in Time /\ \A i \in 1 .. n : b[i].at =< Latest(b)
  <2> DEFINE S == {b[i].at : i \in DOMAIN b}
  <2>1. S \in SUBSET (0 .. MaxTime) /\ S # {} /\ \A i \in 1 .. n : b[i].at \in S
    BY <1>1, <1>2 DEF Time
  <2>2. Max(S) \in S /\ \A x \in S : x =< Max(S)
    <3> HIDE DEF S
    <3> QED BY <2>1, GreatestNatural, DetectionAssumption
  <2>3. Latest(b) = Max(S)
    BY DEF Latest
  <2> HIDE DEF S
  <2> QED BY <2>1, <2>2, <2>3 DEF Time
<1>10. BatchOK(j)'
  <2>1. Judged(b) \subseteq Clients
    BY <1>2 DEF Judged
  <2>2. ASSUME NEW c \in Clients, NEW u, <<c, u>> \in Failures(b) PROVE u \in Time /\ u =< Latest(b)
    <3>1. PICK i \in DOMAIN b : <<c, u>> = <<b[i].client, b[i].at>>
      BY <2>2 DEF Failures
    <3> QED BY <1>2, <1>9, <3>1
  <2> QED BY <1>7, <1>9, <2>1, <2>2 DEF BatchOK
<1>11. ASSUME NEW v \in Workers, At(v, "read")' PROVE BatchOK(job[v])'
  <2>1. CASE v = w
    BY <1>8, <1>10, <2>1 DEF BatchOK
  <2>2. CASE v # w
    <3>1. job'[v] = job[v] /\ BatchOK(job[v])
      BY <1>8, <1>11, <2>2 DEF At, BurstsInv
    <3> QED BY <1>6, <3>1 DEF BatchOK
  <2> QED BY <2>1, <2>2
\* a window with none of the new failures is as it was
<1>12. ASSUME NEW c \in Clients, NEW t \in Time, t \notin Concerned(Failures(b), c)
       PROVE  logs'[c].fail[t] = logs[c].fail[t] /\ (Burst(logs'[c].fail, t) => Burst(logs[c].fail, t))
  <2>1. ASSUME NEW u \in Time, u \in InWindow(t) PROVE logs'[c].fail[u] = logs[c].fail[u]
    <3>1. ASSUME NEW i \in DOMAIN b, b[i] = [client |-> c, kind |-> "fail", at |-> u] PROVE FALSE
      <4>1. b[i].client = c /\ b[i].kind = "fail" /\ b[i].at = u
        BY <3>1
      <4>2. <<c, u>> \in Failures(b)
        BY <4>1 DEF Failures
      <4> QED BY <1>12, <2>1, <4>2 DEF Concerned
    <3>2. Carried(b, c, "fail", u) = 0
      BY <3>1, FS_EmptySet DEF Carried
    <3>3. "fail" \in Kinds
      BY DEF Kinds
    <3> QED BY <1>3, <3>2, <3>3
  <2>2. t \in InWindow(t)
    BY DetectionAssumption DEF InWindow, Time
  <2>3. Count(logs'[c].fail, InWindow(t)) = Count(logs[c].fail, InWindow(t))
    BY <2>1, CountSame
  <2> QED BY <2>1, <2>2, <2>3 DEF Burst
<1>13. ASSUME NEW c \in Clients, NEW t \in Time, logs'[c].fail[t] > 0, Burst(logs'[c].fail, t)
       PROVE  Settled(c, t)'
  <2>1. CASE t \in Concerned(Failures(b), c)
    <3>1. CASE c \in Judged(b)
      <4>1. At(w, "read")' /\ t \in Concerned(job'[w].brought, c) /\ c \in job'[w].left
        BY <1>7, <1>8, <2>1, <3>1 DEF At
      <4> QED BY <4>1 DEF Settled, Due, Concerned
    <3>2. CASE c \notin Judged(b)
      <4>1. <<c, t>> \in overlooked'
        BY <2>1, <3>2 DEF Store
      <4> QED BY <4>1 DEF Settled
    <3> QED BY <3>1, <3>2
  <2>2. CASE t \notin Concerned(Failures(b), c)
    <3>1. Settled(c, t)
      BY <1>12, <1>13, <2>2 DEF BurstsInv
    <3>2. CASE <<c, t>> \in overlooked
      BY <3>2 DEF Settled, Store
    <3>3. CASE \E a \in raised : ReportsIn(a, c, t, logs[c])
      BY <1>6, <3>3 DEF Settled
    <3>4. CASE Due(c, t)
      <4>1. PICK v \in Workers :
              /\ At(v, "read") /\ t \in Concerned(job[v].brought, c)
              /\ c \in job[v].left \/ \E a \in job[v].found : ReportsIn(a, c, t, logs[c])
        BY <3>4 DEF Due
      <4>2. v # w /\ job'[v] = job[v]
        BY <1>8, <4>1 DEF Idle, At
      <4>3. c \in job'[v].left \/ \E a \in job'[v].found : ReportsIn(a, c, t, logs'[c])
        BY <1>6, <4>1, <4>2
      <4> QED BY <4>1, <4>2, <4>3 DEF Settled, Due, At, Concerned
    <3> QED BY <3>1, <3>2, <3>3, <3>4 DEF Settled
  <2> QED BY <2>1, <2>2
<1>14. \A a \in raised' : Founded(a)'
  BY <1>6 DEF BurstsInv
<1> QED BY <1>4, <1>8, <1>11, <1>13, <1>14 DEF BurstsInv

\* The lines of a client are read back and judged.
LEMMA ReadStep == ASSUME BurstsInv, NEW w \in Workers, Read(w) PROVE BurstsInv'
<1>1. PICK c \in job[w].left :
        /\ \E s \in Newest(logs[c]) :
             Continue(w, [job[w] EXCEPT !.left = @ \ {c}, !.found = @ \cup Evaluate(c, s, job[w].now)])
        /\ overlooked' = (overlooked \ ({c} \X Concerned(job[w].brought, c)))
                           \cup ({c} \X (Concerned(job[w].brought, c) \ InSight(c, job[w].now)))
  BY DEF Read
<1>2. PICK s \in Newest(logs[c]) :
        Continue(w, [job[w] EXCEPT !.left = @ \ {c}, !.found = @ \cup Evaluate(c, s, job[w].now)])
  BY <1>1
<1>3. BatchOK(job[w]) /\ c \in Clients /\ job[w].now \in Time /\ At(w, "read")
  BY <1>1 DEF Read, BurstsInv, BatchOK
<1>4. PICK found : found = Evaluate(c, s, job[w].now)
  OBVIOUS
<1>5. PICK j : j = [job[w] EXCEPT !.left = @ \ {c}, !.found = @ \cup found]
  OBVIOUS
<1>6. /\ Continue(w, j) /\ {"pc", "left", "now", "brought", "found"} \subseteq DOMAIN j
      /\ j.pc = "read" /\ j.left = job[w].left \ {c} /\ j.now = job[w].now /\ j.brought = job[w].brought
      /\ j.found = job[w].found \cup found
  BY <1>2, <1>3, <1>4, <1>5 DEF BatchOK, At
<1>7. DOMAIN job' = Workers /\ job'[w] = j /\ \A v \in Workers \ {w} : job'[v] = job[v]
  BY <1>6, ContinueJob DEF BurstsInv
<1>8. logs' = logs /\ raised' = raised
  BY DEF Read
<1>9. /\ logs[c] \in ClientLines /\ s \in ClientLines /\ Fewer(s, logs[c])
      /\ \A t \in Time : Total(logs[c], t .. MaxTime) =< Limit =>
           \A k \in Kinds : \A u \in Time : u >= t => s[k][u] = logs[c][k][u]
  <2>1. logs[c] \in ClientLines
    BY <1>3 DEF BurstsInv
  <2> QED BY <1>2, <2>1, NewestSees
<1>10. /\ \A a \in found : a.client = c /\ FoundedIn(a, s)
       /\ \A t \in Time : t >= job[w].now - Horizon /\ t =< job[w].now /\ s.fail[t] > 0 /\ Burst(s.fail, t) =>
            \E a \in found : ReportsIn(a, c, t, s)
  BY <1>3, <1>4, <1>9, EvaluateFinds
<1>11. \A a \in found : Founded(a)
  BY <1>3, <1>9, <1>10, ReasonsStay DEF Founded
<1>12. BatchOK(j)'
  BY <1>3, <1>6, <1>8, <1>11 DEF BatchOK, Founded
<1>13. ASSUME NEW v \in Workers, At(v, "read")' PROVE BatchOK(job[v])'
  <2>1. CASE v = w
    BY <1>7, <1>12, <2>1 DEF BatchOK
  <2>2. CASE v # w
    BY <1>7, <1>8, <1>13, <2>2 DEF At, BurstsInv, BatchOK, Founded
  <2> QED BY <2>1, <2>2
\* a burst in sight is found
<1>14. ASSUME NEW t \in Concerned(job[w].brought, c), t \in InSight(c, job[w].now),
              logs[c].fail[t] > 0, Burst(logs[c].fail, t)
       PROVE  \E a \in found : ReportsIn(a, c, t, logs[c])
  <2>1. t \in Time /\ t >= job[w].now - Horizon /\ Total(logs[c], t .. MaxTime) =< Limit
    BY <1>14 DEF InSight
  <2>2. PICK u \in InWindow(t) : <<c, u>> \in job[w].brought
    BY <1>14 DEF Concerned
  <2>3. t =< job[w].now
    <3>1. u \in Time /\ u =< job[w].now /\ t =< u
      BY <1>3, <2>2 DEF BatchOK, InWindow
    <3> QED BY <1>3, <2>1, <3>1, DetectionAssumption DEF Time
  <2>4. \A x \in Time : x >= t => s.fail[x] = logs[c].fail[x]
    BY <1>9, <2>1 DEF Kinds
  <2>5. s.fail[t] > 0
    BY <1>14, <2>1, <2>4, DetectionAssumption DEF Time
  <2>6. Count(s.fail, InWindow(t)) = Count(logs[c].fail, InWindow(t))
    <3>1. \A x \in InWindow(t) \cap Time : x >= t
      BY DEF InWindow
    <3> QED BY <2>4, <3>1, CountSame
  <2>7. Burst(s.fail, t)
    BY <1>14, <2>6 DEF Burst
  <2> QED BY <1>9, <1>10, <2>1, <2>3, <2>5, <2>7, ReasonsStay
<1>15. ASSUME NEW d \in Clients, NEW t \in Time, logs[d].fail[t] > 0, Burst(logs[d].fail, t)
       PROVE  Settled(d, t)'
  <2>1. Settled(d, t)
    BY <1>15 DEF BurstsInv
  <2>2. CASE d = c /\ t \in Concerned(job[w].brought, c)
    <3>1. CASE t \in InSight(c, job[w].now)
      <4>1. PICK a \in found : ReportsIn(a, c, t, logs[c])
        BY <1>14, <1>15, <2>2, <3>1
      <4>2. At(w, "read")' /\ t \in Concerned(job'[w].brought, c) /\ a \in job'[w].found
        BY <1>6, <1>7, <2>2, <4>1 DEF At
      <4> QED BY <1>8, <2>2, <4>1, <4>2 DEF Settled, Due, Concerned
    <3>2. CASE t \notin InSight(c, job[w].now)
      <4>1. <<c, t>> \in overlooked'
        BY <1>1, <2>2, <3>2
      <4> QED BY <2>2, <4>1 DEF Settled
    <3> QED BY <3>1, <3>2
  <2>3. CASE ~(d = c /\ t \in Concerned(job[w].brought, c))
    <3>1. CASE <<d, t>> \in overlooked
      <4>1. <<d, t>> \in overlooked'
        BY <1>1, <2>3, <3>1
      <4> QED BY <4>1 DEF Settled
    <3>2. CASE \E a \in raised : ReportsIn(a, d, t, logs[d])
      BY <1>8, <3>2 DEF Settled
    <3>3. CASE Due(d, t)
      <4>1. PICK v \in Workers :
              /\ At(v, "read") /\ t \in Concerned(job[v].brought, d)
              /\ d \in job[v].left \/ \E a \in job[v].found : ReportsIn(a, d, t, logs[d])
        BY <3>3 DEF Due
      <4>2. CASE v # w
        <5>1. job'[v] = job[v]
          BY <1>7, <4>2
        <5> QED BY <1>8, <4>1, <5>1 DEF Settled, Due, At, Concerned
      <4>3. CASE v = w
        <5>1. d # c
          BY <2>3, <4>1, <4>3
        <5>2. d \in job'[w].left \/ \E a \in job'[w].found : ReportsIn(a, d, t, logs[d])
          BY <1>6, <1>7, <4>1, <4>3, <5>1
        <5>3. At(w, "read")' /\ t \in Concerned(job'[w].brought, d)
          BY <1>6, <1>7, <4>1, <4>3 DEF At
        <5> QED BY <1>8, <5>2, <5>3 DEF Settled, Due, Concerned
      <4> QED BY <4>2, <4>3
    <3> QED BY <2>1, <3>1, <3>2, <3>3 DEF Settled
  <2> QED BY <2>2, <2>3
<1>16. \A a \in raised' : Founded(a)'
  BY <1>8 DEF BurstsInv, Founded
<1> QED BY <1>7, <1>8, <1>13, <1>15, <1>16 DEF BurstsInv

\* The alerts are inserted, or a call has failed and the windows of the batch are overlooked.
LEMMA BatchEndsStep == ASSUME BurstsInv, NEW w \in Workers, Land(w) \/ Fail(w) PROVE BurstsInv'
<1>1. At(w, "read") /\ logs' = logs /\ raised \subseteq raised' /\ overlooked \subseteq overlooked'
  BY DEF Land, Fail
<1>2. DOMAIN job' = Workers /\ job'[w] = NoJob /\ \A v \in Workers \ {w} : job'[v] = job[v]
  BY ContinueJob DEF BurstsInv, Land, Fail, Done
<1>3. \A v \in Workers : At(v, "read")' => v # w /\ job'[v] = job[v]
  BY <1>2 DEF At, NoJob
<1>4. \A v \in Workers : At(v, "read")' => BatchOK(job[v])'
  BY <1>1, <1>3 DEF At, BurstsInv, BatchOK, Founded
<1>5. \A a \in raised' : Founded(a)'
  <2>1. BatchOK(job[w])
    BY <1>1 DEF BurstsInv
  <2>2. \A a \in raised' : a \in raised \/ a \in job[w].found
    BY DEF Land, Fail
  <2> QED BY <1>1, <2>1, <2>2 DEF BurstsInv, BatchOK, Founded
<1>6. ASSUME NEW c \in Clients, NEW t \in Time, logs[c].fail[t] > 0, Burst(logs[c].fail, t)
      PROVE  Settled(c, t)'
  <2>1. Settled(c, t)
    BY <1>6 DEF BurstsInv
  <2>2. CASE <<c, t>> \in overlooked \/ \E a \in raised : ReportsIn(a, c, t, logs[c])
    BY <1>1, <2>2 DEF Settled
  <2>3. CASE Due(c, t)
    <3>1. PICK v \in Workers :
            /\ At(v, "read") /\ t \in Concerned(job[v].brought, c)
            /\ c \in job[v].left \/ \E a \in job[v].found : ReportsIn(a, c, t, logs[c])
      BY <2>3 DEF Due
    <3>2. CASE v # w
      <4>1. job'[v] = job[v]
        BY <1>2, <3>2
      <4> QED BY <1>1, <3>1, <4>1 DEF Settled, Due, At, Concerned
    <3>3. CASE v = w /\ Land(w)
      <4>1. PICK a \in job[w].found : ReportsIn(a, c, t, logs[c])
        BY <3>1, <3>3 DEF Land
      <4>2. a \in raised'
        BY <3>3, <4>1 DEF Land
      <4> QED BY <1>1, <4>1, <4>2 DEF Settled
    <3>4. CASE v = w /\ Fail(w)
      <4>1. <<c, t>> \in overlooked'
        BY <3>1, <3>4 DEF Fail
      <4> QED BY <4>1 DEF Settled
    <3> QED BY <3>2, <3>3, <3>4
  <2> QED BY <2>1, <2>2, <2>3 DEF Settled
<1> QED BY <1>1, <1>2, <1>4, <1>5, <1>6 DEF BurstsInv

\* However a burst of failed log-ins is split over batches, and however many of these are stored, read back,
\* judged and landed beside each other, with calls that fail and clients whose lines are more than are read
\* back (routes.js 600-617, 653-654), the window has been reported once they are done, by an alert of its
\* client at it or at an earlier one within the horizon, unless the last batch with a failure in it did not
\* judge it; and each alert that was raised is about a window of its client with enough failures and, if it
\* names a log-in, about one that followed the start of that window.
THEOREM AllBurstsAreRaised == DetectionSpec => []BurstsAreRaised
<1>1. BurstsInv /\ [DetectionNext]_detectionVars => BurstsInv'
  <2> SUFFICES ASSUME BurstsInv, [DetectionNext]_detectionVars PROVE BurstsInv'
    OBVIOUS
  <2>1. CASE UNCHANGED detectionVars
    <3>1. logs' = logs /\ raised' = raised /\ overlooked' = overlooked /\ job' = job
      BY <2>1 DEF detectionVars, requestVars
    <3>2. \A c, t : Settled(c, t) => Settled(c, t)'
      BY <3>1 DEF Settled, Due, At, Concerned
    <3>3. \A v \in Workers : At(v, "read")' => BatchOK(job[v])'
      BY <3>1 DEF BurstsInv, At, BatchOK, Founded
    <3>4. \A a \in raised' : Founded(a)'
      BY <3>1 DEF BurstsInv, Founded
    <3> QED BY <3>1, <3>2, <3>3, <3>4 DEF BurstsInv
  <2>2. ASSUME NEW w \in Workers, Post(w) \/ Resend(w) PROVE BurstsInv'
    BY <2>2, StoreStep DEF Post, Resend
  <2> QED BY <2>1, <2>2, ReadStep, BatchEndsStep DEF DetectionNext
<1>2. BurstsInv => BurstsAreRaised
  <2> SUFFICES ASSUME BurstsInv PROVE BurstsAreRaised
    OBVIOUS
  <2>1. ASSUME \A w \in Workers : Idle(w), NEW c \in Clients, NEW t \in Time, <<c, t>> \notin overlooked,
               logs[c].fail[t] > 0, Burst(logs[c].fail, t)
        PROVE  \E a \in raised : Reports(a, c, t)
    <3>1. Settled(c, t) /\ ~Due(c, t)
      BY <2>1 DEF BurstsInv, Due, Idle, At
    <3> QED BY <2>1, <3>1 DEF Settled, ReportsIn, Reports
  <2>2. ASSUME NEW a \in raised PROVE \E t \in Time :
           /\ t \div Window = a.bucket
           /\ Burst(logs[a.client].fail, t)
           /\ a.ok # None => a.ok >= t /\ logs[a.client].ok[a.ok] > 0
    BY DEF BurstsInv, Founded, FoundedIn
  <2> QED BY <2>1, <2>2 DEF BurstsAreRaised
<1> QED BY <1>1, <1>2, BurstsStart, PTL DEF DetectionSpec

=============================================================================
