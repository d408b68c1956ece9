-------------------------------- MODULE Contacts --------------------------------
(***************************************************************************)
(* Contacts, their lead scores, activities and custom fields               *)
(* (services/crm.py, api/v1/crm.py) as one session sees them.              *)
(***************************************************************************)
EXTENDS TenantRows

CONSTANTS
    Words,              \* what a contact's name says, and what is searched for
    Stems,              \* pairs that full-text search takes for the same
    Scores,
    Keys,               \* of custom fields
    MaxContacts, MaxScores, MaxActivities, MaxFields    \* bounds

ASSUME ContactsAssumption ==
    /\ Stems \subseteq Words \X Words
    /\ Scores \subseteq 0 .. 100
    /\ {MaxContacts, MaxScores, MaxActivities, MaxFields} \subseteq Nat

\* A contact without a score has NULL.
Unscored == 101

VARIABLES
    contacts,       \* rows of contacts
    scores,         \* rows of crm_lead_scores
    activities,     \* rows of activities
    fields          \* rows of custom_field_definitions

contactVars == <<contacts, scores, activities, fields>>

Contact == [tenant : Tenants, deleted : BOOLEAN, name : Words,
            score : Scores \cup {Unscored}]
LeadScore == [tenant : Tenants, contact : Nat, score : Scores]
Activity == [tenant : Tenants, deleted : BOOLEAN, contact : Nat]
CustomField == [tenant : Tenants, deleted : BOOLEAN, key : Keys]

ContactsTypeOK ==
    /\ contacts \in Seq(Contact) /\ scores \in Seq(LeadScore)
    /\ activities \in Seq(Activity) /\ fields \in Seq(CustomField)

ContactsInit == contacts = <<>> /\ scores = <<>> /\ activities = <<>> /\ fields = <<>>

-----------------------------------------------------------------------------
CreateContact(t, name) ==
    /\ Len(contacts) < MaxContacts
    /\ contacts' = Append(contacts, [tenant |-> t, deleted |-> FALSE, name |-> name,
                                     score |-> Unscored])
    /\ UNCHANGED <<scores, activities, fields>>

\* A PATCH may rename a contact; no field of its payload is the score.
UpdateContact(t, c, name) ==
    /\ Gets(contacts, c, t)
    /\ contacts' = [contacts EXCEPT ![c].name = name]
    /\ UNCHANGED <<scores, activities, fields>>

DeleteContact(t, c) ==
    /\ Gets(contacts, c, t)
    /\ contacts' = SoftDeleted(contacts, c)
    /\ UNCHANGED <<scores, activities, fields>>

\* Mutant: a score that the contact has already is not noted again, nor is a
\* lower one.
NotedIfHigher(t, c, s) ==
    IF s \in {scores[i].score : i \in DOMAIN scores} THEN scores
    ELSE Append(scores, [tenant |-> t, contact |-> c, score |-> s])

\* The history row of a score.
Noted(t, c, s) == Append(scores, [tenant |-> t, contact |-> c, score |-> s])

\* update_lead_score writes the contact's row and the history's.
UpdateLeadScore(t, c, s) ==
    /\ Gets(contacts, c, t) /\ Len(scores) < MaxScores
    /\ contacts' = [contacts EXCEPT ![c].score = s]
    /\ scores' = Noted(t, c, s)
    /\ UNCHANGED <<activities, fields>>

\* The history, asked for by the contact's id: a deleted contact keeps it.
ScoreHistory(t, c, page, limit) ==
    Page({i \in OfTenant(scores, t) : scores[i].contact = c}, page, limit)

-----------------------------------------------------------------------------
ListContacts(t, page, limit) == Page(Listed(contacts, t), page, limit)
GetContact(t, c) == Gets(contacts, c, t)

\* search: a page by full text; by substring (here: the word itself) if that
\* page is empty, so that the pages after the last may show rows again.
SearchContacts(t, word, page, limit) ==
    LET full == {c \in Listed(contacts, t) : <<word, contacts[c].name>> \in Stems}
        like == {c \in Listed(contacts, t) : contacts[c].name = word}
    IN  IF Page(full, page, limit) # {} THEN Page(full, page, limit)
        ELSE Page(like, page, limit)

-----------------------------------------------------------------------------
\* Nothing asks whose contact it is, or whether it is there still.
CreateActivity(t) == \E c \in DOMAIN contacts :
    /\ Len(activities) < MaxActivities
    /\ activities' = Append(activities, [tenant |-> t, deleted |-> FALSE, contact |-> c])
    /\ UNCHANGED <<contacts, scores, fields>>

ListActivities(t, page, limit) == Page(Listed(activities, t), page, limit)
GetActivity(t, a) == Gets(activities, a, t)

\* The service's create; the handler's call of it names the workspace twice
\* and raises.  A key is unique, in all tenants and among deleted rows too.
CreateCustomField(t, k) ==
    /\ Len(fields) < MaxFields
    /\ \A i \in DOMAIN fields : fields[i].key # k
    /\ fields' = Append(fields, [tenant |-> t, deleted |-> FALSE, key |-> k])
    /\ UNCHANGED <<contacts, scores, activities>>

UpdateCustomField(t, f, k) ==
    /\ Gets(fields, f, t)
    /\ \A i \in DOMAIN fields : i # f => fields[i].key # k
    /\ fields' = [fields EXCEPT ![f].key = k]
    /\ UNCHANGED <<contacts, scores, activities>>

GetCustomField(t, f) == Gets(fields, f, t)

DeleteCustomField(t, f) ==
    /\ Gets(fields, f, t)
    /\ fields' = SoftDeleted(fields, f)
    /\ UNCHANGED <<contacts, scores, activities>>

-----------------------------------------------------------------------------
ContactsNext == \E t \in Tenants :
    \/ \E name \in Words :
        CreateContact(t, name) \/ \E c \in 1 .. MaxContacts : UpdateContact(t, c, name)
    \/ \E c \in 1 .. MaxContacts :
        DeleteContact(t, c) \/ \E s \in Scores : UpdateLeadScore(t, c, s)
    \/ CreateActivity(t)
    \/ \E k \in Keys :
        CreateCustomField(t, k) \/ \E f \in 1 .. MaxFields : UpdateCustomField(t, f, k)
    \/ \E f \in 1 .. MaxFields : DeleteCustomField(t, f)

ContactsSpec == ContactsInit /\ [][ContactsNext]_contactVars

-----------------------------------------------------------------------------
\* A contact's score is the last one of its history, which its tenant sees on
\* the first page; renaming, deleting and scoring of others change neither.
ScoreTellsHistory == \A c \in DOMAIN contacts :
    LET newest == ScoreHistory(contacts[c].tenant, c, 1, 1)
    IN  {contacts[c].score} = IF newest = {} THEN {Unscored} ELSE {scores[i].score : i \in newest}

\* The differently written queries agree: a row is got by its id if and only if
\* some page of the list has it; a search finds listed rows, and a contact's own
\* name finds something.
ContactViewsAgree == \A t \in Tenants :
    LET shown == Walk(LAMBDA p, l : ListContacts(t, p, l), MaxContacts)
    IN  /\ {c \in 1 .. MaxContacts : GetContact(t, c)} = shown
        /\ {a \in 1 .. MaxActivities : GetActivity(t, a)}
            = Walk(LAMBDA p, l : ListActivities(t, p, l), MaxActivities)
        /\ {f \in 1 .. MaxFields : GetCustomField(t, f)} = Listed(fields, t)
        /\ \A c \in shown :
            LET found == Walk(LAMBDA p, l : SearchContacts(t, contacts[c].name, p, l), MaxContacts)
            IN  found \subseteq shown /\ found # {}
=============================================================================
