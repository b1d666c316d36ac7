------------------------------ MODULE Accounts ------------------------------
(***************************************************************************)
(* Registration, e-mail verification, password reset and password change.  *)
(*                                                                         *)
(* As in TokenSessions every request is one READ COMMITTED transaction and *)
(* each step of a request is one database statement.  Here the statements  *)
(* update and delete shared rows, so what matters is which row locks a     *)
(* request holds: an UPDATE or DELETE of a row waits for the transaction   *)
(* that has written it, and then works on the row as that one left it.     *)
(***************************************************************************)
EXTENDS Integers, FiniteSets

CONSTANTS
  Emails,     \* addresses; users.email is unique, so it names the account
  Requests,   \* request slots
  Tokens,     \* the supply of generate_secure_token
  Passwords,
  NoPassword, \* there is no account with this address
  NoEmail, NoToken,
  NoRow       \* there is no row with this token

ASSUME AccountAssumption ==
  /\ NoPassword \notin Passwords /\ NoEmail \notin Emails
  /\ NoToken \notin Tokens /\ IsFiniteSet(Requests)
  /\ NoRow \notin Emails \cup [user : Emails, used : BOOLEAN]

VARIABLES
  password,   \* users.hashed_password, by address
  verified,   \* users.is_verified
  verifyRow,  \* email_verification_tokens: the account of each token
  resetRow,   \* password_reset_tokens: the account of each token, used_at
  expired,    \* tokens whose expires_at has passed
  issued,     \* tokens drawn from the supply
  pc, who, tok, pw,  \* where each request is and what it works on
  hit,        \* the rows a forgot_password deletes
  holds       \* the row locks each request holds

tables == <<password, verified, verifyRow, resetRow>>
locals == <<pc, who, tok, pw, hit, holds>>
vars == <<tables, expired, issued, locals>>

User(e) == <<"user", e>>
TokenRow(t) == <<"token", t>>
Rows == {User(e) : e \in Emails} \cup {TokenRow(t) : t \in Tokens}

\* "failed" is a 4xx, a 5xx or a lost connection: the transaction rolled back.
Finished == {"idle", "ok", "failed"}
InFlight == { "insertUser", "registerCommit",
              "verifyLoad", "verifyUser", "deleteToken", "verifyCommit",
              "deleteUnused", "deleteWait", "insertReset", "forgotCommit",
              "resetUser", "resetToken", "resetCommit",
              "changeUser", "changeCommit" }

TablesOK ==
  /\ password \in [Emails -> Passwords \cup {NoPassword}]
  /\ verified \in [Emails -> BOOLEAN]
  /\ verifyRow \in [Tokens -> Emails \cup {NoRow}]
  /\ resetRow \in [Tokens -> [user : Emails, used : BOOLEAN] \cup {NoRow}]
  /\ expired \subseteq issued /\ issued \subseteq Tokens

LocalsOK ==
  /\ pc \in [Requests -> Finished \cup InFlight]
  /\ who \in [Requests -> Emails \cup {NoEmail}]
  /\ tok \in [Requests -> Tokens \cup {NoToken}]
  /\ pw \in [Requests -> Passwords \cup {NoPassword}]
  /\ hit \in [Requests -> SUBSET Tokens]
  /\ holds \in [Requests -> SUBSET Rows]

\* No two transactions hold the same row.
LocksExclude == \A q, r \in Requests : q # r => holds[q] \cap holds[r] = {}

TypeOK == TablesOK /\ LocalsOK /\ LocksExclude

Init ==
  /\ password = [e \in Emails |-> NoPassword]
  /\ verified = [e \in Emails |-> FALSE]
  /\ verifyRow = [t \in Tokens |-> NoRow]
  /\ resetRow = [t \in Tokens |-> NoRow]
  /\ expired = {} /\ issued = {}
  /\ pc = [r \in Requests |-> "idle"]
  /\ who = [r \in Requests |-> NoEmail]
  /\ tok = [r \in Requests |-> NoToken]
  /\ pw = [r \in Requests |-> NoPassword]
  /\ hit = [r \in Requests |-> {}]
  /\ holds = [r \in Requests |-> {}]

Exists(e) == password[e] # NoPassword

Unused(e) == {t \in Tokens : resetRow[t] = [user |-> e, used |-> FALSE]}

-----------------------------------------------------------------------------
(* Transactions                                                            *)

\* A request arrives and has done its first SELECT.
Arrive(r, first, e, t, p) ==
  /\ pc[r] \in Finished
  /\ pc' = [pc EXCEPT ![r] = first]
  /\ who' = [who EXCEPT ![r] = e]
  /\ tok' = [tok EXCEPT ![r] = t]
  /\ pw' = [pw EXCEPT ![r] = p]
  /\ UNCHANGED <<tables, expired, hit, holds>>

\* The end of a request: its locks are released and its slot is free.
Leave(r, answer) ==
  /\ pc' = [pc EXCEPT ![r] = answer]
  /\ who' = [who EXCEPT ![r] = NoEmail]
  /\ tok' = [tok EXCEPT ![r] = NoToken]
  /\ pw' = [pw EXCEPT ![r] = NoPassword]
  /\ hit' = [hit EXCEPT ![r] = {}]
  /\ holds' = [holds EXCEPT ![r] = {}]

At(r, here) == pc[r] = here

Goto(r, next) ==
  /\ pc' = [pc EXCEPT ![r] = next]
  /\ UNCHANGED <<who, tok, pw>>

\* No other transaction has written one of these rows.
Free(r, rows) == \A q \in Requests \ {r} : holds[q] \cap rows = {}

\* A statement of r that reads, or waits, but writes nothing yet.
Reads(r, next) == Goto(r, next) /\ UNCHANGED <<hit, holds>>

\* Faulty variant: forgot-password locks the account, after its tokens.
WantsUserLast(r) ==
  CASE pc[r] \in {"insertUser", "verifyUser", "resetUser", "changeUser",
                  "insertReset"} -> {User(who[r])}
    [] pc[r] \in {"deleteToken", "resetToken"} -> {TokenRow(tok[r])}
    [] pc[r] = "deleteWait" -> {TokenRow(t) : t \in hit[r]}
    [] OTHER -> {}

\* The rows the next statement of a request writes.  Inserting a reset token
\* only takes a share of the key of the users row (its foreign key), which an
\* UPDATE of other columns does not block.
Wants(r) ==
  CASE pc[r] \in {"insertUser", "verifyUser", "resetUser", "changeUser"}
         -> {User(who[r])}
    [] pc[r] \in {"deleteToken", "resetToken"} -> {TokenRow(tok[r])}
    [] pc[r] = "deleteWait" -> {TokenRow(t) : t \in hit[r]}
    [] OTHER -> {}

\* The next statement of r writes the rows it wants.
Writes(r, next) ==
  /\ Free(r, Wants(r))
  /\ holds' = [holds EXCEPT ![r] = @ \cup Wants(r)]
  /\ Goto(r, next)
  /\ UNCHANGED hit

Uncommitted == UNCHANGED <<tables, expired, issued>>

-----------------------------------------------------------------------------
(* POST /auth/register                                                     *)

\* email_exists; the verification token is drawn a little later in the code.
RegisterArrive(r) ==
  \E e \in Emails, p \in Passwords, t \in Tokens \ issued :
    /\ ~Exists(e)
    /\ Arrive(r, "insertUser", e, t, p)
    /\ issued' = issued \cup {t}

\* Faulty variant: email_exists is all that guards the address.
InsertUserUnguarded(r) ==
  /\ At(r, "insertUser")
  /\ Writes(r, "registerCommit")
  /\ Uncommitted

\* INSERT INTO users: the unique index makes it wait for another insert of the
\* address, and fail if that one has committed.  The inserts of the free
\* subscription and of the verification token concern the new account only.
InsertUser(r) ==
  /\ At(r, "insertUser")
  /\ Free(r, Wants(r))
  /\ \/ ~Exists(who[r]) /\ Writes(r, "registerCommit")
     \/ Exists(who[r]) /\ Leave(r, "failed")
  /\ Uncommitted

RegisterCommit(r) ==
  /\ At(r, "registerCommit")
  /\ password' = [password EXCEPT ![who[r]] = pw[r]]
  /\ verified' = [verified EXCEPT ![who[r]] = FALSE]
  /\ verifyRow' = [verifyRow EXCEPT ![tok[r]] = who[r]]
  /\ Leave(r, "ok")
  /\ UNCHANGED <<resetRow, expired, issued>>

-----------------------------------------------------------------------------
(* GET /auth/verify-email                                                  *)

\* SELECT the entry.  For an expired one the code deletes the row and raises;
\* get_db then rolls the deletion back, so nothing happens.
VerifyArrive(r) ==
  \E t \in issued \ expired :
    /\ verifyRow[t] # NoRow
    /\ Arrive(r, "verifyLoad", verifyRow[t], t, NoPassword)
    /\ UNCHANGED issued

\* SELECT the user.  Setting is_verified where it is already set writes nothing.
VerifyLoad(r) ==
  /\ At(r, "verifyLoad")
  /\ Reads(r, IF verified[who[r]] THEN "deleteToken" ELSE "verifyUser")
  /\ Uncommitted

VerifyUser(r) ==
  /\ At(r, "verifyUser")
  /\ Writes(r, "deleteToken")
  /\ Uncommitted

\* Faulty variant: the token is left for the next click.
KeepToken(r) ==
  /\ At(r, "deleteToken")
  /\ Reads(r, "verifyCommit")
  /\ Uncommitted

\* DELETE the entry.  If it is gone meanwhile the statement finds no row, which
\* SQLAlchemy only warns about.
DeleteToken(r) ==
  /\ At(r, "deleteToken")
  /\ Writes(r, "verifyCommit")
  /\ Uncommitted

VerifyCommit(r) ==
  /\ At(r, "verifyCommit")
  /\ verified' = [verified EXCEPT ![who[r]] = @ \/ User(who[r]) \in holds[r]]
  /\ verifyRow' = [t \in Tokens |-> IF TokenRow(t) \in holds[r]
                                    THEN NoRow ELSE verifyRow[t]]
  /\ Leave(r, "ok")
  /\ UNCHANGED <<password, resetRow, expired, issued>>

-----------------------------------------------------------------------------
(* POST /auth/forgot-password                                              *)

\* An address without account is answered 200 and nothing happens.
ForgotArrive(r) ==
  \E e \in Emails, t \in Tokens \ issued :
    /\ Exists(e)
    /\ Arrive(r, "deleteUnused", e, t, NoPassword)
    /\ issued' = issued \cup {t}

\* Faulty variant: the tokens deleted are the used ones.
DeleteUnusedInverted(r) ==
  /\ At(r, "deleteUnused")
  /\ hit' = [hit EXCEPT ![r] = {t \in Tokens : resetRow[t] # NoRow /\ resetRow[t].used}]
  /\ Goto(r, "deleteWait")
  /\ UNCHANGED holds
  /\ Uncommitted

\* DELETE ... WHERE used_at IS NULL starts: it will visit the rows it can see
\* now, not those committed while it waits.
DeleteUnused(r) ==
  /\ At(r, "deleteUnused")
  /\ hit' = [hit EXCEPT ![r] = Unused(who[r])]
  /\ Goto(r, "deleteWait")
  /\ UNCHANGED holds
  /\ Uncommitted

\* Faulty variant: the rows are not looked at again after the wait.
DeleteSnapshot(r) ==
  /\ At(r, "deleteWait")
  /\ Writes(r, "insertReset")
  /\ Uncommitted

\* Faulty variant: the statement does not wait for the rows it visits.
DeleteAtOnce(r) ==
  /\ At(r, "deleteWait")
  /\ holds' = [holds EXCEPT ![r] = @ \cup Wants(r)]
  /\ Goto(r, "insertReset")
  /\ UNCHANGED hit
  /\ Uncommitted

\* The rows are free: those still unused are deleted, the others left alone.
DeleteWait(r) ==
  LET rows == hit[r] \cap Unused(who[r]) IN
  /\ At(r, "deleteWait")
  /\ Free(r, Wants(r))
  /\ hit' = [hit EXCEPT ![r] = rows]
  /\ holds' = [holds EXCEPT ![r] = @ \cup {TokenRow(t) : t \in rows}]
  /\ Goto(r, "insertReset")
  /\ Uncommitted

InsertReset(r) ==
  /\ At(r, "insertReset")
  /\ Writes(r, "forgotCommit")
  /\ Uncommitted

ForgotCommit(r) ==
  /\ At(r, "forgotCommit")
  /\ resetRow' = [t \in Tokens |->
                    IF t = tok[r] THEN [user |-> who[r], used |-> FALSE]
                    ELSE IF t \in hit[r] THEN NoRow ELSE resetRow[t]]
  /\ Leave(r, "ok")
  /\ UNCHANGED <<password, verified, verifyRow, expired, issued>>

-----------------------------------------------------------------------------
(* POST /auth/reset-password                                               *)

\* SELECT the entry and its user; used_at and expires_at are checked here only.
ResetArrive(r) ==
  \E t \in issued \ expired, p \in Passwords :
    /\ resetRow[t] # NoRow /\ ~resetRow[t].used
    /\ Arrive(r, "resetUser", resetRow[t].user, t, p)
    /\ UNCHANGED issued

ResetUser(r) ==
  /\ At(r, "resetUser")
  /\ Writes(r, "resetToken")
  /\ Uncommitted

\* Faulty variant: an UPDATE that matches no row goes unnoticed.
MarkUsedUnchecked(r) ==
  /\ At(r, "resetToken")
  /\ Writes(r, "resetCommit")
  /\ Uncommitted

\* UPDATE ... SET used_at by primary key.  If a forgot-password has deleted
\* the row the ORM raises StaleDataError.
ResetToken(r) ==
  /\ At(r, "resetToken")
  /\ Free(r, Wants(r))
  /\ IF resetRow[tok[r]] = NoRow
     THEN Leave(r, "failed")
     ELSE Writes(r, "resetCommit")
  /\ Uncommitted

ResetCommit(r) ==
  /\ At(r, "resetCommit")
  /\ password' = [password EXCEPT ![who[r]] = pw[r]]
  /\ resetRow' = [resetRow EXCEPT ![tok[r]] = [user |-> who[r], used |-> TRUE]]
  /\ Leave(r, "ok")
  /\ UNCHANGED <<verified, verifyRow, expired, issued>>

-----------------------------------------------------------------------------
(* POST /auth/change-password                                              *)

\* The gate has loaded the user; change_password's own SELECT returns the same
\* object, and the current password is compared with what the gate saw.
ChangeArrive(r) ==
  \E e \in Emails, p \in Passwords :
    /\ Exists(e) /\ p # password[e]
    /\ Arrive(r, "changeUser", e, NoToken, p)
    /\ UNCHANGED issued

ChangeUser(r) ==
  /\ At(r, "changeUser")
  /\ Writes(r, "changeCommit")
  /\ Uncommitted

ChangeCommit(r) ==
  /\ At(r, "changeCommit")
  /\ password' = [password EXCEPT ![who[r]] = pw[r]]
  /\ Leave(r, "ok")
  /\ UNCHANGED <<verified, verifyRow, resetRow, expired, issued>>

-----------------------------------------------------------------------------
(* Environment                                                             *)

\* The connection or the server dies, or the commit fails.
Abort(r) ==
  /\ pc[r] \in InFlight
  /\ Leave(r, "failed")
  /\ Uncommitted

\* Time passes the expires_at of a token.
Expire(t) ==
  /\ t \in issued \ expired
  /\ expired' = expired \cup {t}
  /\ UNCHANGED <<tables, issued, locals>>

-----------------------------------------------------------------------------

Step(r) ==
  \/ InsertUser(r) \/ RegisterCommit(r)
  \/ VerifyLoad(r) \/ VerifyUser(r) \/ DeleteToken(r) \/ VerifyCommit(r)
  \/ DeleteUnused(r) \/ DeleteWait(r) \/ InsertReset(r) \/ ForgotCommit(r)
  \/ ResetUser(r) \/ ResetToken(r) \/ ResetCommit(r)
  \/ ChangeUser(r) \/ ChangeCommit(r)

Next ==
  \/ \E r \in Requests :
       \/ RegisterArrive(r) \/ VerifyArrive(r) \/ ForgotArrive(r)
       \/ ResetArrive(r) \/ ChangeArrive(r)
       \/ Step(r) \/ Abort(r)
  \/ \E t \in Tokens : Expire(t)

Spec == Init /\ [][Next]_vars

-----------------------------------------------------------------------------
(* Properties                                                              *)

\* A verified account has no verification link left that works.
VerifiedLinkIsGone ==
  \A e \in Emails, t \in Tokens : verified[e] => verifyRow[t] # e

\* Two registrations of one address cannot both succeed: the second would
\* replace the password of the account the first created.
RegisterOnce ==
  [][\A r \in Requests :
       (At(r, "registerCommit") /\ pc'[r] = "ok") => ~Exists(who[r])]_vars

\* A used reset token stays on record as used: the clean-up of a concurrent
\* forgot-password does not take it away.
UsedStaysUsed ==
  [][\A t \in Tokens :
       (resetRow[t] # NoRow /\ resetRow[t].used) =>
         resetRow'[t] = resetRow[t]]_vars

\* A reset whose token a later forgot-password has invalidated does not get
\* through, even when it had already checked the token.
SupersededIsDead ==
  [][\A r \in Requests :
       (At(r, "resetCommit") /\ pc'[r] = "ok") => resetRow[tok[r]] # NoRow]_vars

\* Requests never all wait for one another: the row of the account is always
\* taken before the row of a token, so some request can go on.
NoCircularWait ==
  (\E r \in Requests : pc[r] \in InFlight) =>
    \E r \in Requests : pc[r] \in InFlight /\ Free(r, Wants(r))

\* Asking for a reset token again and again does not pile tokens up: requests
\* that overlap may each leave one, because neither sees the other's, but no
\* more are unused at a time than there are slots for requests.
UnusedBounded ==
  \A e \in Emails : Cardinality(Unused(e)) <= Cardinality(Requests)

\* "One-time token": no second reset succeeds with the same token.
ResetOnce ==
  [][\A r \in Requests :
       (At(r, "resetCommit") /\ pc'[r] = "ok") => ~resetRow[tok[r]].used]_vars

-----------------------------------------------------------------------------
(* The inductive invariant                                                 *)

Registering == {"insertUser", "registerCommit"}
Verifying == {"verifyLoad", "verifyUser", "deleteToken", "verifyCommit"}
Forgetting == {"deleteUnused", "deleteWait", "insertReset", "forgotCommit"}
Resetting == {"resetUser", "resetToken", "resetCommit"}
Changing == {"changeUser", "changeCommit"}

\* Requests with a token drawn from the supply that is in no table yet.
Drawing == Registering \cup Forgetting

LocalShape(r) ==
  /\ pc[r] \in InFlight => who[r] \in Emails
  /\ pc[r] \in InFlight \ Changing => tok[r] \in issued
  /\ pc[r] \in Changing => tok[r] = NoToken
  /\ pc[r] \in Registering \cup Resetting \cup Changing => pw[r] \in Passwords

\* Which locks a request holds where: the account's before a token's.
HoldShape(r) ==
  /\ pc[r] \in Finished \cup {"insertUser", "verifyLoad", "verifyUser", "deleteUnused",
                              "deleteWait", "resetUser", "changeUser"} => holds[r] = {}
  /\ pc[r] \in {"registerCommit", "resetToken", "changeCommit"} => holds[r] = {User(who[r])}
  /\ pc[r] = "deleteToken" => holds[r] \subseteq {User(who[r])}
  /\ pc[r] = "verifyCommit" => /\ TokenRow(tok[r]) \in holds[r]
                               /\ holds[r] \subseteq {User(who[r]), TokenRow(tok[r])}
  /\ pc[r] \in {"insertReset", "forgotCommit"} => holds[r] = {TokenRow(t) : t \in hit[r]}
  /\ pc[r] = "resetCommit" => holds[r] = {User(who[r]), TokenRow(tok[r])}

\* What a request has read and still relies on.
RowShape(r) ==
  /\ pc[r] = "registerCommit" => ~Exists(who[r])
  /\ pc[r] \in Drawing => verifyRow[tok[r]] = NoRow /\ resetRow[tok[r]] = NoRow
  /\ pc[r] \in {"insertReset", "forgotCommit"} => hit[r] \subseteq Unused(who[r])
  /\ pc[r] \in Verifying => /\ Exists(who[r])
                            /\ \A t \in Tokens : verifyRow[t] = who[r] => t = tok[r]
  /\ pc[r] \in Resetting /\ resetRow[tok[r]] # NoRow => resetRow[tok[r]].user = who[r]
  /\ pc[r] = "resetCommit" => resetRow[tok[r]] # NoRow

FreshShape ==
  \A q, r \in Requests :
    q # r /\ pc[q] \in Drawing /\ pc[r] \in InFlight => tok[q] # tok[r]

\* An account has one verification link at most, as long as it is not verified.
LinkShape ==
  /\ \A t \in Tokens \ issued : verifyRow[t] = NoRow /\ resetRow[t] = NoRow
  /\ \A t \in Tokens : verifyRow[t] # NoRow => Exists(verifyRow[t])
  /\ \A t, u \in Tokens : verifyRow[t] = verifyRow[u] /\ verifyRow[t] # NoRow => t = u

IInv ==
  /\ TypeOK /\ FreshShape /\ LinkShape /\ VerifiedLinkIsGone
  /\ \A r \in Requests : LocalShape(r) /\ HoldShape(r) /\ RowShape(r)

\* The unused tokens can be told apart by who asked for them: of an account a
\* slot has one at most, which the next request of that slot will delete.
Deleting == {"deleteWait", "insertReset", "forgotCommit"}

Outstanding == UNION {Unused(e) : e \in Emails}

AskedOnce(asker) ==
  /\ \A e \in Emails : \A t, u \in Unused(e) : asker[t] = asker[u] => t = u
  /\ \A r \in Requests : pc[r] \in Deleting =>
       \A t \in Unused(who[r]) : asker[t] = r => t \in hit[r]

AskerShape == \E asker \in [Outstanding -> Requests] : AskedOnce(asker)
=============================================================================
