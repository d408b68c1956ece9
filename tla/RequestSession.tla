--------------------------- MODULE RequestSession ---------------------------
(***************************************************************************)
(* What becomes of a request's writes: get_db (database.py) hands every    *)
(* request a session of its own and closes it, without a commit, when the  *)
(* request has ended.  A service may commit itself (accounts, tenants, the *)
(* core notification service) or only flush (CRM, billing, webhooks,       *)
(* e-mail, knowledge, marketing and the generic BaseService).  The tests   *)
(* (tests/conftest.py) override get_db: one session serves all requests.   *)
(*                                                                         *)
(* A write is the deletion of a record, as in BaseService.soft_delete: the *)
(* record stays in every list that does not see the write.                 *)
(***************************************************************************)
EXTENDS Naturals, FiniteSets

CONSTANTS
    Requests,
    Records,
    Committing,     \* requests to services that commit
    SharedSession   \* the tests' override: one session for all requests

ASSUME SessionAssumption ==
    /\ Committing \subseteq Requests
    /\ SharedSession \in BOOLEAN

VARIABLES
    at,         \* "idle", "open", "found", "written", "committed", "answered", "closed"
    record,     \* the record that a request deletes
    pending,    \* flushed, uncommitted deletions of each request's session
    deleted,    \* committed deletions
    told        \* history: requests whose response has reported the deletion

vars == <<at, record, pending, deleted, told>>

TypeOK ==
    /\ at \in [Requests -> {"idle", "open", "found", "written", "committed", "answered", "closed"}]
    /\ record \in [Requests -> Records]
    /\ pending \in [Requests -> SUBSET Records]
    /\ deleted \in SUBSET Records
    /\ told \in SUBSET Requests

Init ==
    /\ at = [r \in Requests |-> "idle"]
    /\ record \in [Requests -> Records]
    /\ pending = [r \in Requests |-> {}]
    /\ deleted = {} /\ told = {}

\* The session that request r uses: its own, or one that all of them share.
Sessions(r) == IF SharedSession THEN Requests ELSE {r}
Move(r, from, to) == at[r] = from /\ at' = [at EXCEPT ![r] = to]

\* What the session of r sees: PostgreSQL shows it what others have
\* committed and what it has flushed itself.
Visible(r) == deleted \cup UNION {pending[x] : x \in Sessions(r)}

Open(r) ==
    /\ Move(r, "idle", "open")
    /\ UNCHANGED <<record, pending, deleted, told>>

\* BaseService.get: the record is not deleted, as far as the session sees.
Find(r) ==
    /\ record[r] \notin Visible(r)
    /\ Move(r, "open", "found")
    /\ UNCHANGED <<record, pending, deleted, told>>

\* The record is not there any more: 404.
NotFound(r) ==
    /\ record[r] \in Visible(r)
    /\ Move(r, "open", "answered")
    /\ UNCHANGED <<record, pending, deleted, told>>

\* The flush writes deleted_at.  A row that another session has changed and
\* not committed is locked, and the flush waits for it; then it writes, even
\* when the other session has deleted the record meanwhile.
Write(r) ==
    /\ \A x \in Requests \ Sessions(r) : record[r] \notin pending[x]
    /\ Move(r, "found", "written")
    /\ pending' = [pending EXCEPT ![r] = {record[r]}]
    /\ UNCHANGED <<record, deleted, told>>

\* Mutant: the commit is lost, but not the answer.
CommitNothing(r) ==
    /\ r \in Committing
    /\ Move(r, "written", "committed")
    /\ pending' = [pending EXCEPT ![r] = {}]
    /\ UNCHANGED <<record, deleted, told>>

\* A service that commits: everything that its session has flushed.
Commit(r) ==
    /\ r \in Committing
    /\ Move(r, "written", "committed")
    /\ deleted' = Visible(r)
    /\ pending' = [x \in Requests |-> IF x \in Sessions(r) THEN {} ELSE pending[x]]
    /\ UNCHANGED <<record, told>>

\* 204: the client is told that the record is deleted.
Answer(r) ==
    /\ Move(r, IF r \in Committing THEN "committed" ELSE "written", "answered")
    /\ told' = told \cup {r}
    /\ UNCHANGED <<record, pending, deleted>>

\* Mutant: the session survives the request.
LeaveOpen(r) ==
    /\ Move(r, "answered", "closed")
    /\ UNCHANGED <<record, pending, deleted, told>>

\* get_db's finally clause: closing a session rolls back what it has not
\* committed.  The tests' override closes nothing.
Close(r) ==
    /\ Move(r, "answered", "closed")
    /\ pending' = IF SharedSession THEN pending ELSE [pending EXCEPT ![r] = {}]
    /\ UNCHANGED <<record, deleted, told>>

\* The handler raises: the request ends with an error and the same clause.
Raise(r) ==
    /\ at[r] \in {"open", "found", "written"}
    /\ at' = [at EXCEPT ![r] = "closed"]
    /\ pending' = IF SharedSession THEN pending ELSE [pending EXCEPT ![r] = {}]
    /\ UNCHANGED <<record, deleted, told>>

Next == \E r \in Requests :
    \/ Open(r) \/ Find(r) \/ NotFound(r) \/ Write(r)
    \/ Commit(r) \/ Answer(r) \/ Close(r) \/ Raise(r)

\* The event loop goes on with every request whose await is over.
Fairness == \A r \in Requests :
    WF_vars(Find(r) \/ NotFound(r) \/ Write(r) \/ Commit(r) \/ Answer(r) \/ Close(r))

Spec == Init /\ [][Next]_vars /\ Fairness

-----------------------------------------------------------------------------
\* What a later request of the same kind of session sees.
SeenLater == IF SharedSession THEN deleted \cup UNION {pending[x] : x \in Requests} ELSE deleted

\* What a response has reported is what later requests see.  test_crm.py:154
\* states it of the CRM's contacts, which are only flushed.
ReportedIsSeen == \A r \in told : record[r] \in SeenLater

\* A service that commits keeps what its response has reported, among others
\* that only flush, wait for the same rows, fail and roll back.
CommitsAreSeen == \A r \in told \cap Committing : record[r] \in SeenLater

\* A row that a request has locked is released at last, whether its service
\* commits, only flushes or raises, and the request waiting for it goes on.
LocksAreReleased == \A r \in Requests :
    /\ pending[r] # {} ~> pending[r] = {}
    /\ at[r] = "found" ~> at[r] \in {"answered", "closed"}
=============================================================================
