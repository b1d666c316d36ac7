----------------------------- MODULE TokenPurge -----------------------------
(***************************************************************************)
(* TokenSessions with the periodic clean-up that RevokedTokenRepository    *)
(* offers (purge_expired).  No task of the repository calls it yet; the    *)
(* comments invite a periodic task to.                                     *)
(***************************************************************************)
EXTENDS TokenSessions

\* One DELETE statement in a transaction of its own.
PurgeExpired ==
  /\ revoked' = {j \in revoked : token[j].exp >= clock}
  /\ UNCHANGED <<clock, token, active, pc, op, jti, body, pend, flushedAt,
                 histVars>>

PurgeNext == Next \/ PurgeExpired

PurgeSpec == Init /\ [][PurgeNext]_vars

\* "expired tokens can never be used regardless": a purge makes no difference
\* to what is served, so a revoked token is still never served.
PurgeIsSafe ==
  [][\A r \in Requests :
       (pc[r] \in InFlight /\ pc'[r] = "ok") => ~stale[r]]_vars
=============================================================================
