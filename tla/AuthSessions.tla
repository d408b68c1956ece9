---------------------------- MODULE AuthSessions ----------------------------
(***************************************************************************)
(* One account's sessions and its password (services/auth.py), used by     *)
(* concurrent calls.  Every call is a transaction of PostgreSQL in its     *)
(* default isolation, READ COMMITTED: a read sees what is committed at     *)
(* that moment, a write locks the row until the end of the transaction,    *)
(* and waits for a row that another transaction has locked.                *)
(*                                                                         *)
(* A session is named after the call that opened it, or after the device   *)
(* that held it in the beginning; so is its refresh token.  A password is  *)
(* named after the call that set it.                                       *)
(***************************************************************************)
EXTENDS Naturals, FiniteSets

CONSTANTS
    Calls,      \* requests, of any kind
    Devices,    \* sessions open in the beginning
    Nobody      \* no holder of a lock; also the first password

ASSUME CallsAssumption == Calls \cap Devices = {} /\ Nobody \notin Calls \cup Devices

Account == {Nobody}             \* the row of the account in users
Sessions == Devices \cup Calls  \* rows of sessions
Rows == Sessions \cup Account
Passwords == Calls \cup {Nobody}

VARIABLES
    at,         \* where each call is
    kind,       \* what each call does
    token,      \* the session that a refresh has presented
    from,       \* the password that a login or a change has verified
    seen,       \* rows that a change's UPDATE has found and not visited yet
    row,        \* committed sessions: "none", "live", "revoked"
    password,   \* the committed password
    lock,       \* the transaction that has locked each row
    before      \* history: the calls that had succeeded when a call began

vars == <<at, kind, token, from, seen, row, password, lock, before>>

Working == {"read", "revoking", "written"}

TypeOK ==
    /\ at \in [Calls -> Working \cup {"idle", "succeeded", "failed"}]
    /\ kind \in [Calls -> {"none", "refresh", "login", "change"}]
    /\ token \in [Calls -> Sessions \cup {Nobody}]
    /\ from \in [Calls -> Passwords]
    /\ seen \in [Calls -> SUBSET Sessions]
    /\ row \in [Sessions -> {"none", "live", "revoked"}]
    /\ password \in Passwords
    /\ lock \in [Rows -> Calls \cup {Nobody}]
    /\ before \in [Calls -> SUBSET Calls]

Init ==
    /\ at = [c \in Calls |-> "idle"]
    /\ kind = [c \in Calls |-> "none"]
    /\ token = [c \in Calls |-> Nobody]
    /\ from = [c \in Calls |-> Nobody]
    /\ seen = [c \in Calls |-> {}]
    /\ row = [s \in Sessions |-> IF s \in Devices THEN "live" ELSE "none"]
    /\ password = Nobody
    /\ lock = [r \in Rows |-> Nobody]
    /\ before = [c \in Calls |-> {}]

Live == {s \in Sessions : row[s] = "live"}
Succeeded(k) == {c \in Calls : at[c] = "succeeded" /\ kind[c] = k}

\* The request's session opens; its first read succeeds.
Begin(c, k) ==
    /\ at[c] = "idle"
    /\ at' = [at EXCEPT ![c] = "read"]
    /\ kind' = [kind EXCEPT ![c] = k]
    /\ before' = [before EXCEPT ![c] = {d \in Calls : at[d] = "succeeded"}]
    /\ UNCHANGED <<seen, row, password, lock>>

\* Mutant: a session whose call has raised is not closed.
EndOpen(c, outcome) ==
    /\ at' = [at EXCEPT ![c] = outcome]
    /\ lock' = [r \in Rows |-> IF lock[r] = c /\ outcome # "failed" THEN Nobody ELSE lock[r]]
    /\ UNCHANGED <<kind, token, from, before>>

\* The end of a transaction releases its locks.
End(c, outcome) ==
    /\ at' = [at EXCEPT ![c] = outcome]
    /\ lock' = [r \in Rows |-> IF lock[r] = c THEN Nobody ELSE lock[r]]
    /\ UNCHANGED <<kind, token, from, before>>

\* A flush writes a row: it must be free, and is then locked.
Write(c, r) ==
    /\ at[c] = "read" /\ lock[r] = Nobody
    /\ at' = [at EXCEPT ![c] = "written"]
    /\ lock' = [lock EXCEPT ![r] = c]
    /\ UNCHANGED <<kind, token, from, seen, row, password, before>>

\* The request is refused at its first read: the token is revoked or has
\* expired, the password is wrong, a second factor is asked for.  Or the read
\* fails, as login's load of mfa_devices outside of the session's greenlet.
Refuse(c) ==
    /\ at[c] = "idle"
    /\ at' = [at EXCEPT ![c] = "failed"]
    /\ UNCHANGED <<kind, token, from, seen, row, password, lock, before>>

-----------------------------------------------------------------------------
\* refresh_token: the session of this token, if it is not revoked.
Refresh(c, s) ==
    /\ row[s] = "live"
    /\ Begin(c, "refresh")
    /\ token' = [token EXCEPT ![c] = s] /\ UNCHANGED from

\* The commit flushes revoked_at first.  Its UPDATE goes by the session's id:
\* it does not ask again whether the session is revoked.
RefreshFlush(c) == kind[c] = "refresh" /\ Write(c, token[c])

\* Mutant: the new session is stored, the old one not revoked.
RefreshKeepingOld(c) ==
    /\ at[c] = "written" /\ kind[c] = "refresh"
    /\ row' = [row EXCEPT ![c] = "live"]
    /\ End(c, "succeeded") /\ UNCHANGED <<seen, password>>

RefreshCommit(c) ==
    /\ at[c] = "written" /\ kind[c] = "refresh"
    /\ row' = [row EXCEPT ![token[c]] = "revoked", ![c] = "live"]
    /\ End(c, "succeeded") /\ UNCHANGED <<seen, password>>

-----------------------------------------------------------------------------
\* login: the password is the one that the account had when it was read.
\* sso_login_or_register asks for none; the password it notes is no claim.
Login(c) ==
    /\ Begin(c, "login")
    /\ from' = [from EXCEPT ![c] = password] /\ UNCHANGED token

\* last_login_at is flushed before the account's workspace is looked up.
LoginFlush(c) == kind[c] = "login" /\ \E r \in Account : Write(c, r)

LoginCommit(c) ==
    /\ at[c] = "written" /\ kind[c] = "login"
    /\ row' = [row EXCEPT ![c] = "live"]
    /\ End(c, "succeeded") /\ UNCHANGED <<seen, password>>

-----------------------------------------------------------------------------
\* change_password: the current password is compared with what was read.
Change(c) ==
    /\ Begin(c, "change")
    /\ from' = [from EXCEPT ![c] = password] /\ UNCHANGED token

\* Mutant: the UPDATE skips the sessions that others have locked.
ScanUnlocked(c) ==
    /\ at[c] = "read" /\ kind[c] = "change"
    /\ at' = [at EXCEPT ![c] = "revoking"]
    /\ seen' = [seen EXCEPT ![c] = {s \in Live : lock[s] = Nobody}]
    /\ UNCHANGED <<kind, token, from, row, password, lock, before>>

\* One UPDATE for all sessions that are not revoked: its snapshot has those
\* that are committed when it begins.
ChangeScan(c) ==
    /\ at[c] = "read" /\ kind[c] = "change"
    /\ at' = [at EXCEPT ![c] = "revoking"]
    /\ seen' = [seen EXCEPT ![c] = Live]
    /\ UNCHANGED <<kind, token, from, row, password, lock, before>>

\* The UPDATE visits the rows in an order of its own, waits for each, and
\* skips one that has been revoked meanwhile.
ChangeVisit(c, s) ==
    /\ at[c] = "revoking" /\ s \in seen[c] /\ lock[s] = Nobody
    /\ seen' = [seen EXCEPT ![c] = @ \ {s}]
    /\ lock' = IF s \in Live THEN [lock EXCEPT ![s] = c] ELSE lock
    /\ UNCHANGED <<at, kind, token, from, row, password, before>>

\* The new password's flush.
ChangeFlush(c) ==
    /\ at[c] = "revoking" /\ seen[c] = {}
    /\ \A r \in Account : lock[r] = Nobody
    /\ at' = [at EXCEPT ![c] = "written"]
    /\ lock' = [r \in Rows |-> IF r \in Account THEN c ELSE lock[r]]
    /\ UNCHANGED <<kind, token, from, seen, row, password, before>>

\* Mutant: the new password is not written.
CommitOldPassword(c) ==
    /\ at[c] = "written" /\ kind[c] = "change"
    /\ row' = [s \in Sessions |-> IF lock[s] = c THEN "revoked" ELSE row[s]]
    /\ End(c, "succeeded") /\ UNCHANGED <<seen, password>>

ChangeCommit(c) ==
    /\ at[c] = "written" /\ kind[c] = "change"
    /\ row' = [s \in Sessions |-> IF lock[s] = c THEN "revoked" ELSE row[s]]
    /\ password' = c
    /\ End(c, "succeeded") /\ UNCHANGED seen

-----------------------------------------------------------------------------
\* A call raises (the account has no workspace, the database or the worker
\* fails): its session is closed and the transaction rolled back.
Fail(c) ==
    /\ at[c] \in Working
    /\ seen' = [seen EXCEPT ![c] = {}]
    /\ End(c, "failed") /\ UNCHANGED <<row, password>>

\* Changes that wait for each other's rows.
Deadlocked(c) == \E D \in SUBSET Calls :
    /\ c \in D
    /\ \A d \in D : /\ at[d] = "revoking" /\ seen[d] # {}
                    /\ \A s \in seen[d] : lock[s] \in D

\* PostgreSQL ends one of them with an error.
Victim(c) == Deadlocked(c) /\ Fail(c)

Proceed(c) ==
    \/ RefreshFlush(c) \/ RefreshCommit(c) \/ LoginFlush(c) \/ LoginCommit(c)
    \/ ChangeScan(c) \/ (\E s \in Sessions : ChangeVisit(c, s))
    \/ ChangeFlush(c) \/ ChangeCommit(c) \/ Victim(c)

Next == \E c \in Calls :
    \/ Refuse(c) \/ (\E s \in Sessions : Refresh(c, s)) \/ Login(c) \/ Change(c)
    \/ Proceed(c) \/ Fail(c)

\* The event loop goes on with a call whose wait is over; PostgreSQL looks
\* for deadlocks.  Nothing makes a call fail.
Fairness == \A c \in Calls : WF_vars(Proceed(c))

Spec == Init /\ [][Next]_vars /\ Fairness

-----------------------------------------------------------------------------
\* A session that is live after a password change was opened by a call that
\* had not succeeded when the change began: the change ends all others, even
\* those that calls in flight have locked, and even when those calls fail.
OnlyOverlapsOutlive == \A c \in Succeeded("change") : Live \subseteq Calls \ before[c]

\* A refresh token is used up: two calls that both rotated it overlapped.
RotationsOverlap == \A c, d \in Succeeded("refresh") :
    c # d /\ token[c] = token[d] => c \notin before[d]

\* A password that has been changed opens no session and changes no password
\* any more, except for calls that overlap the change.
OldPasswordIsRefused == \A c \in Succeeded("change") :
    \A d \in Succeeded("login") \cup Succeeded("change") :
        d # c /\ from[d] = from[c] => c \notin before[d]

\* No call waits forever, for a row or for another call that waits.
CallsEnd == \A c \in Calls : at[c] = "read" ~> at[c] \in {"succeeded", "failed"}
=============================================================================
