--------------------------- MODULE TokenSessions ---------------------------
(***************************************************************************)
(* JWT sessions of the household API: login, refresh with rotation,        *)
(* logout, and the gate every protected route passes through.              *)
(*                                                                         *)
(* A token is never stored; the only server-side state is the blacklist    *)
(* revoked_tokens (one row per revoked jti, jti UNIQUE) and users.         *)
(* Every request runs in one READ COMMITTED transaction of its own         *)
(* (app/db/session.py get_db): its SELECTs see what others committed so    *)
(* far, its INSERTs are visible to others only after the commit, and any   *)
(* exception rolls it back.  A request is a slot r of Requests with a      *)
(* program counter pc[r] and the rows it has flushed but not committed,    *)
(* pend[r]; each step of a slot is one database statement.                 *)
(***************************************************************************)
EXTENDS Integers, FiniteSets

CONSTANTS
  Users,       \* accounts
  Requests,    \* request slots: how many requests are in flight at once
  Jti,         \* the supply of uuid4 values for the "jti" claim
  NoToken,     \* a jti that has not been issued
  NoJti,       \* the origin of a token that was not made by a rotation
  Garbage,     \* a logout body that is malformed, or is not a refresh token
  AccessTTL,   \* ACCESS_TOKEN_EXPIRE_MINUTES, in clock units
  RefreshTTL,  \* REFRESH_TOKEN_EXPIRE_DAYS, in clock units
  MaxTime,     \* bound on the clock
  MaxLogins    \* bound on the number of logins

Token == [ type : {"access", "refresh"},
           user : Users,
           exp  : Nat,
           from : Jti \cup {NoJti},   \* the refresh token it was rotated from
           root : Jti ]               \* the refresh token of its login

ASSUME SessionAssumption ==
  /\ AccessTTL \in Nat /\ RefreshTTL \in Nat
  /\ MaxTime \in Nat /\ MaxLogins \in Nat
  /\ NoToken \notin Token
  /\ NoJti \notin Jti
  /\ Garbage \notin Jti

VARIABLES
  clock,     \* now(), read by jwt.decode and by _build_token
  token,     \* the claims of each issued jti
  active,    \* users.is_active
  revoked,   \* committed rows of revoked_tokens
  pc,        \* where each request is
  op,        \* which route it calls
  jti,       \* the token it presents (bearer, or the body of /refresh)
  body,      \* the refresh_token in the body of /logout
  pend,      \* rows of revoked_tokens it has flushed and not committed
  flushedAt, \* the time its last INSERT returned: the now() of the code after
  stale,     \* history: jti was already revoked when the request arrived
  dormant,   \* history: its user has been inactive ever since it arrived
  loggedOut  \* history: logins (roots) whose refresh token a logout revoked

dbVars   == <<token, active, revoked>>
histVars == <<stale, dormant, loggedOut>>
vars == <<clock, dbVars, pc, op, jti, body, pend, flushedAt, histVars>>

Ops == {"api", "logout", "refresh"}

\* How the last request of a slot ended: "ok" is a 2xx, "conflict" is an
\* INSERT that hit the unique index (IntegrityError, 500), "idle" is a 401,
\* a lost connection, or no request yet.
Finished == {"idle", "ok", "conflict"}
InFlight == { "gateCheckRevoked", "gateLoadUser",
              "revokeAccess", "revokeRefresh", "logoutCommit",
              "checkRevoked", "loadUser", "revokeOld", "refreshCommit" }

TypeOK ==
  /\ clock \in Nat
  /\ token \in [Jti -> Token \cup {NoToken}]
  /\ active \in [Users -> BOOLEAN]
  /\ revoked \subseteq Jti
  /\ pc \in [Requests -> Finished \cup InFlight]
  /\ op \in [Requests -> Ops]
  /\ jti \in [Requests -> Jti \cup {NoJti}]
  /\ body \in [Requests -> Jti \cup {Garbage}]
  /\ pend \in [Requests -> SUBSET Jti]
  /\ flushedAt \in [Requests -> Nat]
  /\ stale \in [Requests -> BOOLEAN]
  /\ dormant \in [Requests -> BOOLEAN]
  /\ loggedOut \subseteq Jti

Init ==
  /\ clock = 0
  /\ token = [j \in Jti |-> NoToken]
  /\ active = [u \in Users |-> TRUE]
  /\ revoked = {}
  /\ pc = [r \in Requests |-> "idle"]
  /\ op = [r \in Requests |-> "api"]
  /\ jti = [r \in Requests |-> NoJti]
  /\ body = [r \in Requests |-> Garbage]
  /\ pend = [r \in Requests |-> {}]
  /\ flushedAt = [r \in Requests |-> 0]
  /\ stale = [r \in Requests |-> FALSE]
  /\ dormant = [r \in Requests |-> FALSE]
  /\ loggedOut = {}

Issued == {j \in Jti : token[j] # NoToken}
Refreshes == {j \in Issued : token[j].type = "refresh"}

\* decode_token: the signature holds for every issued token, and python-jose
\* rejects it once exp < now.
Decodes(j) == j \in Issued /\ clock <= token[j].exp

\* uuid4: two jtis nobody holds.  Which unused values they are makes no
\* difference to anyone, so one pair is chosen.
FreshPairs == {p \in (Jti \ Issued) \X (Jti \ Issued) : p[1] # p[2]}
FreshPair == CHOOSE p \in FreshPairs : TRUE

\* The claims of an access/refresh pair built at time now for user u.
\* A pair made by a login is its own root.
Pair(u, a, f, now, from, root) ==
  [token EXCEPT
     ![a] = [type |-> "access", user |-> u, exp |-> now + AccessTTL,
             from |-> from, root |-> root],
     ![f] = [type |-> "refresh", user |-> u, exp |-> now + RefreshTTL,
             from |-> from, root |-> root]]

-----------------------------------------------------------------------------
(* Database statements shared by the routes.                               *)

\* RevokedTokenRepository.is_revoked
IsRevoked(j) == j \in revoked

\* The request goes on to its next statement.
Goto(r, next) ==
  /\ pc' = [pc EXCEPT ![r] = next]
  /\ UNCHANGED <<op, jti, body, pend, flushedAt, stale, dormant>>

\* Faulty variant: the rollback is forgotten, the session keeps its locks.
LeaveWithoutRollback(r, answer) ==
  /\ pc' = [pc EXCEPT ![r] = answer]
  /\ UNCHANGED <<op, jti, body, pend, flushedAt, stale, dormant>>

\* The request ends and its slot is free; get_db has committed or rolled back.
Leave(r, answer) ==
  /\ pc' = [pc EXCEPT ![r] = answer]
  /\ op' = [op EXCEPT ![r] = "api"]
  /\ jti' = [jti EXCEPT ![r] = NoJti]
  /\ body' = [body EXCEPT ![r] = Garbage]
  /\ pend' = [pend EXCEPT ![r] = {}]
  /\ flushedAt' = [flushedAt EXCEPT ![r] = 0]
  /\ stale' = [stale EXCEPT ![r] = FALSE]
  /\ dormant' = [dormant EXCEPT ![r] = FALSE]

\* Faulty variant: no unique index on revoked_tokens.jti.
RevokeWithoutIndex(r, j, next) ==
  /\ pend' = [pend EXCEPT ![r] = @ \cup {j}]
  /\ pc' = [pc EXCEPT ![r] = next]
  /\ flushedAt' = [flushedAt EXCEPT ![r] = clock]
  /\ UNCHANGED <<op, jti, body, stale, dormant>>

\* Faulty variant: the insert looks for a committed row only.
RevokeWithoutWaiting(r, j, next) ==
  IF j \in revoked THEN Leave(r, "conflict")
                   ELSE RevokeWithoutIndex(r, j, next)

\* RevokedTokenRepository.revoke: INSERT ... flush.  The unique index makes
\* the statement wait for another transaction that has flushed the same jti;
\* it fails, and get_db rolls back, when the row is committed.
Revoke(r, j, next) ==
  /\ \A q \in Requests \ {r} : j \notin pend[q]
  /\ \/ /\ j \notin revoked
        /\ pend' = [pend EXCEPT ![r] = @ \cup {j}]
        /\ pc' = [pc EXCEPT ![r] = next]
        /\ flushedAt' = [flushedAt EXCEPT ![r] = clock]
        /\ UNCHANGED <<op, jti, body, stale, dormant>>
     \/ /\ j \in revoked
        /\ Leave(r, "conflict")

\* get_db's commit: the flushed rows become visible.
Commit(r) ==
  /\ revoked' = revoked \cup pend[r]
  /\ Leave(r, "ok")

\* A request presenting j arrives in slot r, with b as logout body.  A token
\* that does not decode, or of the other type, is refused on the spot.
Arrive(r, o, j, b, type, first) ==
  /\ pc[r] \in Finished
  /\ Decodes(j) /\ token[j].type = type
  /\ op' = [op EXCEPT ![r] = o]
  /\ jti' = [jti EXCEPT ![r] = j]
  /\ body' = [body EXCEPT ![r] = b]
  /\ pc' = [pc EXCEPT ![r] = first]
  /\ stale' = [stale EXCEPT ![r] = IsRevoked(j)]
  /\ dormant' = [dormant EXCEPT ![r] = ~active[token[j].user]]
  /\ UNCHANGED <<clock, dbVars, pend, flushedAt, loggedOut>>

-----------------------------------------------------------------------------
(* POST /auth/login                                                        *)

\* The one SELECT and the check of is_active; the password check is not a
\* matter of state here (see Accounts).
Login(u) ==
  /\ active[u]
  /\ Cardinality({j \in Refreshes : token[j].root = j}) < MaxLogins
  /\ FreshPairs # {}
  /\ token' = Pair(u, FreshPair[1], FreshPair[2], clock, NoJti, FreshPair[2])
  /\ UNCHANGED <<clock, active, revoked, pc, op, jti, body, pend, flushedAt,
                 histVars>>

-----------------------------------------------------------------------------
(* The gate: get_token_payload and get_current_user                        *)

\* Any protected route other than logout.
ApiArrive(r) ==
  \E j \in Issued : Arrive(r, "api", j, Garbage, "access", "gateCheckRevoked")

LogoutArrive(r) ==
  \E j \in Issued, b \in Refreshes \cup {Garbage} :
    Arrive(r, "logout", j, b, "access", "gateCheckRevoked")

\* Faulty variant: the gate does not look at the blacklist.
GateSkipsBlacklist(r) ==
  /\ pc[r] = "gateCheckRevoked"
  /\ Goto(r, "gateLoadUser")
  /\ UNCHANGED <<clock, dbVars, loggedOut>>

GateCheckRevoked(r) ==
  /\ pc[r] = "gateCheckRevoked"
  /\ IF IsRevoked(jti[r]) THEN Leave(r, "idle") ELSE Goto(r, "gateLoadUser")
  /\ UNCHANGED <<clock, dbVars, loggedOut>>

\* A route other than logout does nothing more with tokens: it is served.
GateLoadUser(r) ==
  /\ pc[r] = "gateLoadUser"
  /\ IF ~active[token[jti[r]].user] THEN Leave(r, "idle")
     ELSE IF op[r] = "logout" THEN Goto(r, "revokeAccess")
     ELSE Leave(r, "ok")
  /\ UNCHANGED <<clock, dbVars, loggedOut>>

-----------------------------------------------------------------------------
(* POST /auth/logout                                                       *)

\* Faulty variant: the body is revoked without being decoded.
LogoutTrustsBody(r) ==
  /\ pc[r] = "revokeAccess"
  /\ Revoke(r, jti[r], "revokeRefresh")
  /\ UNCHANGED <<clock, dbVars, loggedOut>>

\* Faulty variant: the body is ignored.
LogoutIgnoresBody(r) ==
  /\ pc[r] = "revokeAccess"
  /\ Revoke(r, jti[r], "logoutCommit")
  /\ UNCHANGED <<clock, dbVars, loggedOut>>

\* The body is looked at as soon as the access jti is flushed: one that is
\* malformed, expired or not a refresh token is skipped.
LogoutRevokeAccess(r) ==
  /\ pc[r] = "revokeAccess"
  /\ Revoke(r, jti[r], IF body[r] \in Refreshes /\ Decodes(body[r])
                       THEN "revokeRefresh" ELSE "logoutCommit")
  /\ UNCHANGED <<clock, dbVars, loggedOut>>

\* The except clause catches decode errors only, so a conflict here ends the
\* request and takes the flushed access jti with it.
LogoutRevokeRefresh(r) ==
  /\ pc[r] = "revokeRefresh"
  /\ Revoke(r, body[r], "logoutCommit")
  /\ UNCHANGED <<clock, dbVars, loggedOut>>

LogoutCommit(r) ==
  /\ pc[r] = "logoutCommit"
  /\ Commit(r)
  /\ loggedOut' = loggedOut \cup {token[j].root : j \in pend[r] \cap Refreshes}
  /\ UNCHANGED <<clock, token, active>>

-----------------------------------------------------------------------------
(* POST /auth/refresh                                                      *)

RefreshArrive(r) ==
  \E j \in Issued : Arrive(r, "refresh", j, Garbage, "refresh", "checkRevoked")

RefreshCheckRevoked(r) ==
  /\ pc[r] = "checkRevoked"
  /\ IF IsRevoked(jti[r]) THEN Leave(r, "idle") ELSE Goto(r, "loadUser")
  /\ UNCHANGED <<clock, dbVars, loggedOut>>

RefreshLoadUser(r) ==
  /\ pc[r] = "loadUser"
  /\ IF active[token[jti[r]].user] THEN Goto(r, "revokeOld") ELSE Leave(r, "idle")
  /\ UNCHANGED <<clock, dbVars, loggedOut>>

\* Faulty variant: the pair is issued and the old jti left alone.
RefreshKeepsOld(r) ==
  /\ pc[r] = "revokeOld"
  /\ pc' = [pc EXCEPT ![r] = "refreshCommit"]
  /\ flushedAt' = [flushedAt EXCEPT ![r] = clock]
  /\ UNCHANGED <<clock, dbVars, op, jti, body, pend, histVars>>

\* Revoke the old jti and build the new pair.
RefreshRevokeOld(r) ==
  /\ pc[r] = "revokeOld"
  /\ Revoke(r, jti[r], "refreshCommit")
  /\ UNCHANGED <<clock, dbVars, loggedOut>>

\* The commit precedes the response: only now does the client hold the pair.
RefreshCommit(r) ==
  /\ pc[r] = "refreshCommit"
  /\ Commit(r)
  /\ FreshPairs # {}
  /\ token' = Pair(token[jti[r]].user, FreshPair[1], FreshPair[2], flushedAt[r],
                   jti[r], token[jti[r]].root)
  /\ UNCHANGED <<clock, active, loggedOut>>

-----------------------------------------------------------------------------
(* Environment                                                             *)

\* The connection or the server dies, or the commit fails: rollback.
Abort(r) ==
  /\ pc[r] \in InFlight
  /\ Leave(r, "idle")
  /\ UNCHANGED <<clock, dbVars, loggedOut>>

\* PATCH /users/me or the admin panel sets is_active.
SetActive(u) ==
  /\ active' = [active EXCEPT ![u] = ~@]
  /\ dormant' = [r \in Requests |->
                   dormant[r] /\ (jti[r] \in Issued
                                  => ~active'[token[jti[r]].user])]
  /\ UNCHANGED <<clock, token, revoked, pc, op, jti, body, pend, flushedAt,
                 stale, loggedOut>>

Tick ==
  /\ clock < MaxTime
  /\ clock' = clock + 1
  /\ UNCHANGED <<dbVars, pc, op, jti, body, pend, flushedAt, histVars>>

-----------------------------------------------------------------------------

\* The statements of a request after its arrival.
Step(r) ==
  \/ GateCheckRevoked(r) \/ GateLoadUser(r)
  \/ LogoutRevokeAccess(r) \/ LogoutRevokeRefresh(r) \/ LogoutCommit(r)
  \/ RefreshCheckRevoked(r) \/ RefreshLoadUser(r)
  \/ RefreshRevokeOld(r) \/ RefreshCommit(r)

Next ==
  \/ \E u \in Users : Login(u) \/ SetActive(u)
  \/ \E r \in Requests :
       \/ ApiArrive(r) \/ LogoutArrive(r) \/ RefreshArrive(r)
       \/ Step(r) \/ Abort(r)
  \/ Tick

Spec == Init /\ [][Next]_vars

\* The event loop runs every handler on, and PostgreSQL wakes the waiters of a
\* unique key in turn: a request that can go on over and over again does.
\* Jti bounds the supply of uuids: a refresh that finds none left is cut off.
Fairness ==
  \A r \in Requests :
    /\ SF_vars(Step(r))
    /\ WF_vars(FreshPairs = {} /\ pc[r] = "refreshCommit" /\ Abort(r))

FairSpec == Spec /\ Fairness

-----------------------------------------------------------------------------
(* Safety                                                                  *)

\* The tokens a rotation of refresh token j produced.
Heirs(j) == {k \in Issued : token[k].from = j}

Live(j) == j \in Issued /\ j \notin revoked

\* However many clients present the same refresh token at once, and however
\* its rotation races a logout, each login has at most one refresh token that
\* is not blacklisted: a session never forks (AuthService.refresh, "rotate").
OneLiveRefreshPerLogin ==
  \A j, k \in Refreshes :
    (Live(j) /\ Live(k) /\ token[j].root = token[k].root) => j = k

\* A logout that revoked a refresh token ends its login for good: a rotation
\* that was already under way cannot leave the client a working refresh token.
LogoutEndsLogin ==
  \A j \in Refreshes : token[j].root \in loggedOut => j \in revoked

\* When a logout answers 2xx both its tokens are unusable: the access jti is
\* in the table, and the refresh token is too unless it has expired (logout's
\* docstring; the body may have been an expired token, which is skipped).
LogoutComplete ==
  [][\A r \in Requests :
       (op[r] = "logout" /\ pc[r] \in InFlight /\ pc'[r] = "ok") =>
         /\ jti[r] \in revoked'
         /\ body[r] \in Refreshes => body[r] \in revoked' \/ ~Decodes(body[r])]_vars

\* A request that arrived with a revoked token, or whose user has been
\* deactivated ever since it arrived, is not served (get_current_user, and
\* refresh's own two checks).
ServedOnlyIfAuthorised ==
  [][\A r \in Requests :
       (pc[r] \in InFlight /\ pc'[r] = "ok") => ~stale[r] /\ ~dormant[r]]_vars

\* No step adds a successor to a token that is already revoked.
RevokedHasNoNewHeirs ==
  [][\A j \in revoked : Heirs(j)' = Heirs(j)]_vars

\* What the comment in AuthService.logout promises: once past the gate, the
\* access token ends up revoked whatever refresh token the body carried.  Only
\* the loss of the connection may prevent it.
LogoutRevokesAccess ==
  [][\A r \in Requests :
       (op[r] = "logout" /\ pc'[r] = "conflict") => jti[r] \in revoked']_vars

-----------------------------------------------------------------------------
(* The inductive invariant behind the safety properties.                   *)

GatePcs    == {"gateCheckRevoked", "gateLoadUser"}
LogoutPcs  == {"revokeAccess", "revokeRefresh", "logoutCommit"}
RefreshPcs == {"checkRevoked", "loadUser", "revokeOld", "refreshCommit"}
Admitted   == {"loadUser", "gateLoadUser"}  \* past is_revoked
Loaded     == LogoutPcs \cup {"revokeOld", "refreshCommit"}

\* What a request in flight presents, by where it is.
RequestShape(r) ==
  /\ body[r] \in Issued \cup {Garbage}
  /\ pc[r] \in InFlight => jti[r] \in Issued
  /\ pc[r] \in GatePcs \cup LogoutPcs => token[jti[r]].type = "access"
  /\ pc[r] \in RefreshPcs => token[jti[r]].type = "refresh"
  /\ pc[r] \in GatePcs => op[r] # "refresh"
  /\ pc[r] \in LogoutPcs => op[r] = "logout"
  /\ pc[r] \in RefreshPcs => op[r] = "refresh"
  /\ pc[r] = "revokeRefresh" => body[r] \in Refreshes

\* The rows a request has flushed, by where it is.
PendShape(r) ==
  /\ pend[r] # {} =>
       pc[r] \in {"revokeRefresh", "logoutCommit", "refreshCommit"}
  /\ pc[r] \in {"revokeRefresh", "refreshCommit"} => pend[r] = {jti[r]}
  /\ pc[r] = "logoutCommit" =>
       /\ jti[r] \in pend[r]
       /\ pend[r] \subseteq {jti[r], body[r]} \cap Issued
       /\ body[r] \in Refreshes => body[r] \in pend[r] \/ ~Decodes(body[r])

\* Every row is in at most one place: flushed by one request, or committed.
UniqueIndex ==
  /\ \A r \in Requests : pend[r] \cap revoked = {}
  /\ \A q, r \in Requests : q # r => pend[q] \cap pend[r] = {}

\* Rotation leaves a chain: the origin of every token is blacklisted.
ChainShape ==
  /\ revoked \subseteq Issued
  /\ loggedOut \subseteq Issued
  /\ \A k \in Issued : token[k].from # NoJti => token[k].from \in revoked
  /\ \A k \in Issued : token[k].root \in Issued

\* How far the two checks of the request have got.
CheckShape(r) ==
  /\ pc[r] \in InFlight /\ stale[r] => jti[r] \in revoked
  /\ pc[r] \in InFlight /\ dormant[r] => ~active[token[jti[r]].user]
  /\ pc[r] \in Admitted \cup Loaded => ~stale[r]
  /\ pc[r] \in Loaded => ~dormant[r]

IInv ==
  /\ TypeOK
  /\ \A r \in Requests : RequestShape(r) /\ PendShape(r) /\ CheckShape(r)
  /\ UniqueIndex
  /\ ChainShape
  /\ OneLiveRefreshPerLogin
  /\ LogoutEndsLogin

-----------------------------------------------------------------------------
(* Liveness                                                                *)

\* No request waits for ever: the inserts of concurrent logouts and refreshes
\* never wait for one another in a circle, and a rollback frees its keys.
RequestsFinish ==
  \A r \in Requests : pc[r] \in InFlight ~> pc[r] \in Finished
=============================================================================
