------------------------- MODULE AuthSessionsProofs -------------------------
(***************************************************************************)
(* For any number of concurrent calls and of devices: what a password      *)
(* change ends, what a rotation uses up, and what a replaced password is   *)
(* still good for.                                                         *)
(*                                                                         *)
(* A change finds the live sessions in one step, visits them one by one    *)
(* and revokes them in another; between the steps other calls rotate and   *)
(* open sessions, fail, and change the password too.  The invariant says   *)
(* for each stage where the old live sessions are: among those found and   *)
(* not visited yet, or locked by the change.                               *)
(***************************************************************************)
EXTENDS AuthSessions, TLAPS

\* The sessions that were open, or had been, when call c began.
Old(c) == Devices \cup before[c]

\* What had succeeded stays so, a call opens its session by succeeding, and
\* what is locked is there.
Settled ==
    /\ \A c \in Calls :
          /\ before[c] \subseteq {d \in Calls : at[d] = "succeeded"}
          /\ at[c] # "succeeded" => row[c] = "none"
          /\ at[c] = "idle" => kind[c] = "none"
          /\ at[c] = "revoking" => kind[c] = "change"
    /\ \A s \in Sessions : lock[s] # Nobody => row[s] # "none"

\* Where a change has the old sessions that are live.
Covered == \A c \in Calls, s \in Sessions :
    kind[c] = "change" /\ s \in Old(c) /\ row[s] = "live" =>
        /\ at[c] = "revoking" => s \in seen[c] \/ lock[s] = c
        /\ at[c] = "written" => lock[s] = c
        /\ at[c] # "succeeded"

\* A refresh that has succeeded has ended its session for good.
UsedUp ==
    /\ \A c \in Calls : kind[c] = "refresh" =>
          /\ token[c] \in Sessions
          /\ at[c] = "succeeded" => row[token[c]] = "revoked"
          /\ at[c] \in {"read", "written"} => row[token[c]] # "none"
    /\ \A c \in Succeeded("refresh"), d \in Calls :
          kind[d] = "refresh" /\ c \in before[d] => token[d] # token[c]

\* The password was set by a change that has succeeded, or is the first one;
\* it is none that a change has replaced.
Replaced ==
    /\ password \in {Nobody} \cup {d \in Calls : at[d] = "succeeded"}
    /\ \A c \in Calls : from[c] \in {Nobody} \cup {d \in Calls : at[d] = "succeeded"}
    /\ \A c \in Succeeded("change") : password # from[c]
    /\ \A c \in Succeeded("change"), d \in Calls :
          kind[d] \in {"login", "change"} /\ c \in before[d] => from[d] # from[c]

IInv == TypeOK /\ Settled /\ Covered /\ UsedUp /\ Replaced

\* Nothing has begun.
LEMMA InitIInv == Init => IInv
  <1> SUFFICES ASSUME Init PROVE IInv
    OBVIOUS
  <1> USE CallsAssumption DEF Init, Sessions
  <1>1. TypeOK
    BY DEF TypeOK, Rows, Passwords
  <1>2. Settled /\ Covered
    BY DEF Settled, Covered, Rows
  <1>3. UsedUp /\ Replaced
    BY DEF UsedUp, Replaced, Succeeded
  <1> QED
    BY <1>1, <1>2, <1>3 DEF IInv

\* A refused call changes nothing but its own place.
LEMMA RefuseStep ==
    ASSUME IInv, NEW c \in Calls, Refuse(c)
    PROVE  IInv'
  <1> USE CallsAssumption DEF IInv, TypeOK, Sessions, Refuse
  <1>1. TypeOK'
    BY DEF Rows, Passwords, Working, Live, Account
  <1>2. Settled'
    BY DEF Settled, UsedUp, Live, Rows, Account
  <1>3. Covered'
    BY DEF Covered, Settled, Old, Live, Rows, Account
  <1>4. UsedUp'
    BY DEF UsedUp, Succeeded, Settled, Live
  <1>5. Replaced'
    BY DEF Replaced, Succeeded, Settled, Passwords
  <1> QED
    BY <1>1, <1>2, <1>3, <1>4, <1>5

\* A refresh begins with a live session, which no refresh has used up.
LEMMA RefreshStep ==
    ASSUME IInv, NEW c \in Calls, NEW s \in Sessions, Refresh(c, s)
    PROVE  IInv'
  <1> USE CallsAssumption DEF IInv, TypeOK, Sessions, Refresh, Begin
  <1>1. TypeOK'
    BY DEF Rows, Passwords, Working, Live, Account
  <1>2. Settled'
    BY DEF Settled, UsedUp, Live, Rows, Account
  <1>3. Covered'
    BY DEF Covered, Settled, Old, Live, Rows, Account
  <1>4. UsedUp'
    BY DEF UsedUp, Succeeded, Settled, Live
  <1>5. Replaced'
    BY DEF Replaced, Succeeded, Settled, Passwords
  <1> QED
    BY <1>1, <1>2, <1>3, <1>4, <1>5

\* A login begins with the current password, which no change has replaced.
LEMMA LoginStep ==
    ASSUME IInv, NEW c \in Calls, Login(c)
    PROVE  IInv'
  <1> USE CallsAssumption DEF IInv, TypeOK, Sessions, Login, Begin
  <1>1. TypeOK'
    BY DEF Rows, Passwords, Working, Live, Account
  <1>2. Settled'
    BY DEF Settled, UsedUp, Live, Rows, Account
  <1>3. Covered'
    BY DEF Covered, Settled, Old, Live, Rows, Account
  <1>4. UsedUp'
    BY DEF UsedUp, Succeeded, Settled, Live
  <1>5. Replaced'
    BY DEF Replaced, Succeeded, Settled, Passwords
  <1> QED
    BY <1>1, <1>2, <1>3, <1>4, <1>5

\* So does a change.
LEMMA ChangeStep ==
    ASSUME IInv, NEW c \in Calls, Change(c)
    PROVE  IInv'
  <1> USE CallsAssumption DEF IInv, TypeOK, Sessions, Change, Begin
  <1>1. TypeOK'
    BY DEF Rows, Passwords, Working, Live, Account
  <1>2. Settled'
    BY DEF Settled, UsedUp, Live, Rows, Account
  <1>3. Covered'
    BY DEF Covered, Settled, Old, Live, Rows, Account
  <1>4. UsedUp'
    BY DEF UsedUp, Succeeded, Settled, Live
  <1>5. Replaced'
    BY DEF Replaced, Succeeded, Settled, Passwords
  <1> QED
    BY <1>1, <1>2, <1>3, <1>4, <1>5

\* A refresh locks the session that it rotates.
LEMMA RefreshFlushStep ==
    ASSUME IInv, NEW c \in Calls, RefreshFlush(c)
    PROVE  IInv'
  <1> USE CallsAssumption DEF IInv, TypeOK, Sessions, RefreshFlush, Write
  <1>1. TypeOK'
    BY DEF Rows, Passwords, Working, Live, Account
  <1>2. Settled'
    BY DEF Settled, UsedUp, Live, Rows, Account
  <1>3. Covered'
    BY DEF Covered, Settled, Old, Live, Rows, Account
  <1>4. UsedUp'
    BY DEF UsedUp, Succeeded, Settled, Live
  <1>5. Replaced'
    BY DEF Replaced, Succeeded, Settled, Passwords
  <1> QED
    BY <1>1, <1>2, <1>3, <1>4, <1>5

\* A refresh ends its session and opens one that no change counts as old.
LEMMA RefreshCommitStep ==
    ASSUME IInv, NEW c \in Calls, RefreshCommit(c)
    PROVE  IInv'
  <1> USE CallsAssumption DEF IInv, TypeOK, Sessions, RefreshCommit, End
  <1>1. TypeOK'
    BY DEF Rows, Passwords, Working, Live, Account
  <1>2. Settled'
    BY DEF Settled, UsedUp, Live, Rows, Account
  <1>3. Covered'
    BY DEF Covered, Settled, Old, Live, Rows, Account
  <1>4. UsedUp'
    BY DEF UsedUp, Succeeded, Settled, Live
  <1>5. Replaced'
    BY DEF Replaced, Succeeded, Settled, Passwords
  <1> QED
    BY <1>1, <1>2, <1>3, <1>4, <1>5

\* A login locks the account.
LEMMA LoginFlushStep ==
    ASSUME IInv, NEW c \in Calls, LoginFlush(c)
    PROVE  IInv'
  <1> USE CallsAssumption DEF IInv, TypeOK, Sessions, LoginFlush, Write, Account
  <1>1. TypeOK'
    BY DEF Rows, Passwords, Working, Live, Account
  <1>2. Settled'
    BY DEF Settled, UsedUp, Live, Rows, Account
  <1>3. Covered'
    BY DEF Covered, Settled, Old, Live, Rows, Account
  <1>4. UsedUp'
    BY DEF UsedUp, Succeeded, Settled, Live
  <1>5. Replaced'
    BY DEF Replaced, Succeeded, Settled, Passwords
  <1> QED
    BY <1>1, <1>2, <1>3, <1>4, <1>5

\* A login opens a session that no change counts as old.
LEMMA LoginCommitStep ==
    ASSUME IInv, NEW c \in Calls, LoginCommit(c)
    PROVE  IInv'
  <1> USE CallsAssumption DEF IInv, TypeOK, Sessions, LoginCommit, End
  <1>1. TypeOK'
    BY DEF Rows, Passwords, Working, Live, Account
  <1>2. Settled'
    BY DEF Settled, UsedUp, Live, Rows, Account
  <1>3. Covered'
    BY DEF Covered, Settled, Old, Live, Rows, Account
  <1>4. UsedUp'
    BY DEF UsedUp, Succeeded, Settled, Live
  <1>5. Replaced'
    BY DEF Replaced, Succeeded, Settled, Passwords
  <1> QED
    BY <1>1, <1>2, <1>3, <1>4, <1>5

\* A change finds every live session, the old ones among them.
LEMMA ChangeScanStep ==
    ASSUME IInv, NEW c \in Calls, ChangeScan(c)
    PROVE  IInv'
  <1> USE CallsAssumption DEF IInv, TypeOK, Sessions, ChangeScan
  <1>1. TypeOK'
    BY DEF Rows, Passwords, Working, Live, Account
  <1>2. Settled'
    BY DEF Settled, UsedUp, Live, Rows, Account
  <1>3. Covered'
    BY DEF Covered, Settled, Old, Live, Rows, Account
  <1>4. UsedUp'
    BY DEF UsedUp, Succeeded, Settled, Live
  <1>5. Replaced'
    BY DEF Replaced, Succeeded, Settled, Passwords
  <1> QED
    BY <1>1, <1>2, <1>3, <1>4, <1>5

\* A change locks the session it visits, unless it is revoked by now.
LEMMA ChangeVisitStep ==
    ASSUME IInv, NEW c \in Calls, NEW s \in Sessions, ChangeVisit(c, s)
    PROVE  IInv'
  <1> USE CallsAssumption DEF IInv, TypeOK, Sessions, ChangeVisit
  <1>1. TypeOK'
    BY DEF Rows, Passwords, Working, Live, Account
  <1>2. Settled'
    BY DEF Settled, UsedUp, Live, Rows, Account
  <1>3. Covered'
    BY DEF Covered, Settled, Old, Live, Rows, Account
  <1>4. UsedUp'
    BY DEF UsedUp, Succeeded, Settled, Live
  <1>5. Replaced'
    BY DEF Replaced, Succeeded, Settled, Passwords
  <1> QED
    BY <1>1, <1>2, <1>3, <1>4, <1>5

\* A change locks the account when it has visited all that it found.
LEMMA ChangeFlushStep ==
    ASSUME IInv, NEW c \in Calls, ChangeFlush(c)
    PROVE  IInv'
  <1> USE CallsAssumption DEF IInv, TypeOK, Sessions, ChangeFlush, Account
  <1>1. TypeOK'
    BY DEF Rows, Passwords, Working, Live, Account
  <1>2. Settled'
    BY DEF Settled, UsedUp, Live, Rows, Account
  <1>3. Covered'
    BY DEF Covered, Settled, Old, Live, Rows, Account
  <1>4. UsedUp'
    BY DEF UsedUp, Succeeded, Settled, Live
  <1>5. Replaced'
    BY DEF Replaced, Succeeded, Settled, Passwords
  <1> QED
    BY <1>1, <1>2, <1>3, <1>4, <1>5

\* A change revokes what it has locked and replaces the password.
LEMMA ChangeCommitStep ==
    ASSUME IInv, NEW c \in Calls, ChangeCommit(c)
    PROVE  IInv'
  <1> USE CallsAssumption DEF IInv, TypeOK, Sessions, ChangeCommit, End
  <1>1. TypeOK'
    BY DEF Rows, Passwords, Working, Live, Account
  <1>2. Settled'
    BY DEF Settled, UsedUp, Live, Rows, Account
  <1>3. Covered'
    BY DEF Covered, Settled, Old, Live, Rows, Account
  <1>4. UsedUp'
    BY DEF UsedUp, Succeeded, Settled, Live
  <1>5. Replaced'
    BY DEF Replaced, Succeeded, Settled, Passwords
  <1> QED
    BY <1>1, <1>2, <1>3, <1>4, <1>5

\* A call that fails lets go of its locks and changes nothing else.
LEMMA FailStep ==
    ASSUME IInv, NEW c \in Calls, Fail(c)
    PROVE  IInv'
  <1> USE CallsAssumption DEF IInv, TypeOK, Sessions, Fail, End, Working
  <1>1. TypeOK'
    BY DEF Rows, Passwords, Working, Live, Account
  <1>2. Settled'
    BY DEF Settled, UsedUp, Live, Rows, Account
  <1>3. Covered'
    BY DEF Covered, Settled, Old, Live, Rows, Account
  <1>4. UsedUp'
    BY DEF UsedUp, Succeeded, Settled, Live
  <1>5. Replaced'
    BY DEF Replaced, Succeeded, Settled, Passwords
  <1> QED
    BY <1>1, <1>2, <1>3, <1>4, <1>5

\* Every step keeps the invariant: one of the calls takes it, or nobody.
LEMMA NextIInv == IInv /\ [Next]_vars => IInv'
  <1> SUFFICES ASSUME IInv, [Next]_vars
               PROVE  IInv'
    OBVIOUS
  <1>1. CASE UNCHANGED vars
    BY <1>1 DEF vars, IInv, TypeOK, Settled, Covered, UsedUp, Replaced, Succeeded, Old
  <1>2. ASSUME NEW c \in Calls, Refuse(c) \/ Login(c) \/ Change(c) \/ Fail(c) \/ Victim(c)
        PROVE  IInv'
    BY <1>2, RefuseStep, LoginStep, ChangeStep, FailStep DEF Victim
  <1>3. ASSUME NEW c \in Calls, NEW s \in Sessions, Refresh(c, s) \/ ChangeVisit(c, s)
        PROVE  IInv'
    BY <1>3, RefreshStep, ChangeVisitStep
  <1>4. ASSUME NEW c \in Calls, RefreshFlush(c) \/ RefreshCommit(c) \/ LoginFlush(c) \/ LoginCommit(c)
        PROVE  IInv'
    BY <1>4, RefreshFlushStep, RefreshCommitStep, LoginFlushStep, LoginCommitStep
  <1>5. ASSUME NEW c \in Calls, ChangeScan(c) \/ ChangeFlush(c) \/ ChangeCommit(c)
        PROVE  IInv'
    BY <1>5, ChangeScanStep, ChangeFlushStep, ChangeCommitStep
  <1> QED
    BY <1>1, <1>2, <1>3, <1>4, <1>5 DEF Next, Proceed

\* Behind the three properties.
LEMMA Inductive == Spec => []IInv
  BY InitIInv, NextIInv, PTL DEF Spec

\* The model's variables keep their types.
THEOREM TypeCorrect == Spec => []TypeOK
  <1>1. IInv => TypeOK
    BY DEF IInv
  <1> QED
    BY <1>1, Inductive, PTL

\* Whatever calls interleave with change_password, only sessions of calls
\* that overlap it are live after it.
THEOREM ChangeEndsOldSessions == Spec => []OnlyOverlapsOutlive
  <1>1. IInv => OnlyOverlapsOutlive
    <2> SUFFICES ASSUME IInv, NEW c \in Succeeded("change"), NEW s \in Live
                 PROVE  s \in Calls \ before[c]
      BY DEF OnlyOverlapsOutlive
    <2>1. s \notin Old(c)
      BY DEF IInv, Covered, Succeeded, Live
    <2> QED
      BY <2>1 DEF Old, Live, Sessions
  <1> QED
    BY <1>1, Inductive, PTL

\* refresh_token uses a token up, but for calls that overlap.
THEOREM RotationUsesUp == Spec => []RotationsOverlap
  <1>1. IInv => RotationsOverlap
    BY DEF IInv, UsedUp, RotationsOverlap, Succeeded
  <1> QED
    BY <1>1, Inductive, PTL

\* A replaced password serves only calls that overlap the change.
THEOREM ReplacedForGood == Spec => []OldPasswordIsRefused
  <1>1. IInv => OldPasswordIsRefused
    BY DEF IInv, Replaced, OldPasswordIsRefused, Succeeded
  <1> QED
    BY <1>1, Inductive, PTL
=============================================================================
