------------------------ MODULE RequestSessionProofs ------------------------
(***************************************************************************)
(* For any number of requests and records and any mix of services: what a  *)
(* response reports is seen later if its service commits, and what any     *)
(* response reports is seen later if all requests share one session.  The  *)
(* tests satisfy the second condition and so cannot tell which services    *)
(* satisfy the first.                                                      *)
(***************************************************************************)
EXTENDS RequestSession, TLAPS

\* What the response of r reports is kept.
Keeps(r) == r \in Committing \/ SharedSession

\* The flushed write of a request is visible to its session, a committed one
\* to all, and before its flush a request has nothing pending.
IInv ==
    /\ TypeOK
    /\ \A r \in told : Keeps(r) => record[r] \in SeenLater
    /\ \A r \in Requests :
          /\ at[r] = "committed" => record[r] \in SeenLater
          /\ at[r] = "written" => record[r] \in Visible(r)
          /\ at[r] \in {"idle", "open", "found"} => pending[r] = {}

\* The initial states satisfy the invariant.
LEMMA InitIInv == Init => IInv
  BY DEF Init, IInv, TypeOK, SeenLater

\* A step that only moves a request on, and perhaps reports its record.
LEMMA MoveStep ==
    ASSUME IInv, NEW r \in Requests, NEW to \in {"open", "found", "answered", "closed"},
           at' = [at EXCEPT ![r] = to],
           to \in {"open", "found"} => at[r] \in {"idle", "open"},
           UNCHANGED <<record, pending, deleted>>,
           told' = told \/ (told' = told \cup {r} /\ (Keeps(r) => record[r] \in SeenLater))
    PROVE  IInv'
  <1>1. \A x \in Requests : at'[x] = IF x = r THEN to ELSE at[x]
    BY DEF IInv, TypeOK
  <1>2. SeenLater' = SeenLater /\ \A x \in Requests : Visible(x)' = Visible(x)
    BY DEF SeenLater, Visible, Sessions
  <1>3. TypeOK'
    BY DEF IInv, TypeOK
  <1>. QED
    BY <1>1, <1>2, <1>3 DEF IInv

\* A flush adds the request's write to what its session sees.
LEMMA WriteStep ==
    ASSUME IInv, NEW r \in Requests, Write(r)
    PROVE  IInv'
  <1>1. \A x \in Requests : at'[x] = IF x = r THEN "written" ELSE at[x]
    BY DEF IInv, TypeOK, Write, Move
  <1>2. \A x \in Requests : pending'[x] = IF x = r THEN {record[r]} ELSE pending[x]
    BY DEF IInv, TypeOK, Write
  <1>3. pending[r] = {} /\ UNCHANGED <<record, deleted, told>>
    BY DEF IInv, Write, Move
  <1>4. \A x \in Requests : Visible(x) \subseteq Visible(x)'
    BY <1>2, <1>3 DEF Visible, Sessions
  <1>5. record[r] \in Visible(r)'
    BY <1>2, <1>3 DEF Visible, Sessions
  <1>6. SeenLater \subseteq SeenLater'
    BY <1>2, <1>3 DEF SeenLater
  <1>7. TypeOK'
    BY <1>1, <1>2, <1>3 DEF IInv, TypeOK, Write, Move
  <1>. QED
    BY <1>1, <1>2, <1>3, <1>4, <1>5, <1>6, <1>7 DEF IInv

\* A commit makes visible to everyone what the session sees.
LEMMA CommitStep ==
    ASSUME IInv, NEW r \in Requests, Commit(r)
    PROVE  IInv'
  <1>1. \A x \in Requests : at'[x] = IF x = r THEN "committed" ELSE at[x]
    BY DEF IInv, TypeOK, Commit, Move
  <1>2. \A x \in Requests : pending'[x] = IF x \in Sessions(r) THEN {} ELSE pending[x]
    BY DEF Commit
  <1>3. deleted' = Visible(r) /\ UNCHANGED <<record, told>> /\ record[r] \in Visible(r)
    BY DEF IInv, Commit, Move
  <1>4. SeenLater \subseteq SeenLater' /\ record[r] \in SeenLater'
    BY <1>2, <1>3 DEF SeenLater, Visible, Sessions
  <1>5. \A x \in Requests : Visible(x) \subseteq Visible(x)'
    BY <1>2, <1>3 DEF Visible, Sessions
  <1>6. Visible(r) \in SUBSET Records
    BY DEF IInv, TypeOK, Visible, Sessions
  <1>7. TypeOK'
    BY <1>1, <1>2, <1>3, <1>6 DEF IInv, TypeOK, Commit, Move
  <1>. QED
    BY <1>1, <1>2, <1>3, <1>4, <1>5, <1>7 DEF IInv

\* The end of a request drops what its own session has not committed.
LEMMA CloseStep ==
    ASSUME IInv, NEW r \in Requests, at' = [at EXCEPT ![r] = "closed"],
           pending' = IF SharedSession THEN pending ELSE [pending EXCEPT ![r] = {}],
           UNCHANGED <<record, deleted, told>>
    PROVE  IInv'
  <1>1. \A x \in Requests : at'[x] = IF x = r THEN "closed" ELSE at[x]
    BY DEF IInv, TypeOK
  <1>2. \A x \in Requests : pending'[x] = IF ~SharedSession /\ x = r THEN {} ELSE pending[x]
    BY DEF IInv, TypeOK
  <1>3. SeenLater' = SeenLater
    BY <1>2 DEF SeenLater
  <1>4. \A x \in Requests \ {r} : Visible(x)' = Visible(x)
    BY <1>2 DEF Visible, Sessions
  <1>5. TypeOK'
    BY <1>1, <1>2 DEF IInv, TypeOK
  <1>. QED
    BY <1>1, <1>2, <1>3, <1>4, <1>5 DEF IInv

\* Every step of every request preserves the invariant.
LEMMA NextIInv ==
    ASSUME IInv, [Next]_vars
    PROVE  IInv'
  <1>1. ASSUME NEW r \in Requests, Open(r) \/ Find(r) \/ NotFound(r)
        PROVE  IInv'
    BY <1>1, MoveStep DEF Open, Find, NotFound, Move
  <1>2. ASSUME NEW r \in Requests, Answer(r)
        PROVE  IInv'
    <2>1. Keeps(r) => record[r] \in SeenLater
      BY <1>2 DEF Answer, Move, IInv, Keeps, SeenLater, Visible, Sessions
    <2>. QED
      BY <1>2, <2>1, MoveStep DEF Answer, Move
  <1>3. ASSUME NEW r \in Requests, Close(r) \/ Raise(r)
        PROVE  IInv'
    BY <1>3, CloseStep DEF Close, Raise, Move
  <1>4. CASE UNCHANGED vars
    BY <1>4 DEF vars, IInv, TypeOK, SeenLater, Visible, Sessions
  <1>. QED
    BY <1>1, <1>2, <1>3, <1>4, WriteStep, CommitStep DEF Next

LEMMA Inductive == Spec => []IInv
  BY InitIInv, NextIInv, PTL DEF Spec

\* A service that commits keeps what it reports, whatever the services around
\* it do with the same records.
THEOREM CommittersKeepTheirWord == Spec => []CommitsAreSeen
  <1>1. IInv => CommitsAreSeen
    BY DEF IInv, Keeps, CommitsAreSeen
  <1>. QED
    BY <1>1, Inductive, PTL

\* In the tests' shared session every service seems to, and with services
\* that all commit every one does.
THEOREM ReportsAreSeen ==
    ASSUME Committing = Requests \/ SharedSession
    PROVE  Spec => []ReportedIsSeen
  <1>1. IInv => ReportedIsSeen
    BY SessionAssumption DEF IInv, TypeOK, Keeps, ReportedIsSeen
  <1>. QED
    BY <1>1, Inductive, PTL
=============================================================================
