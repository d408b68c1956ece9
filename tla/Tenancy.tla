------------------------------ MODULE Tenancy -------------------------------
(***************************************************************************)
(* Accounts, tenants, workspaces and memberships (services/tenant.py and   *)
(* the registering half of services/auth.py) under concurrent calls.       *)
(* Every call is a transaction in READ COMMITTED: its reads see what is    *)
(* committed at that moment, its flushes hold the rows that they touch     *)
(* until its end, and wait for rows, and for places in a unique index,     *)
(* that another transaction holds.  What a check has read may be stale     *)
(* when the flush comes: only the unique indexes decide.                   *)
(***************************************************************************)
EXTENDS Naturals, Sequences, FiniteSets

CONSTANTS
    TenancyCalls,   \* requests, of any kind
    Founder,        \* whose account exists in the beginning
    Emails,
    FounderEmail,
    Identities,     \* accounts at SSO providers
    Slugs           \* names that clients choose for tenants and workspaces

ASSUME TenancyAssumption == Founder \notin TenancyCalls /\ FounderEmail \in Emails

\* A row: its table, its primary key (the call that made it), what a unique
\* index of the table holds of it, and the row that it belongs to.
Row(table, id, key, of) == [table |-> table, id |-> id, key |-> key, of |-> of]

\* No two rows of a table have one primary key, or one place in the index.
SameRow(r, q) == r.table = q.table /\ r.id = q.id
SamePlace(r, q) == r.table = q.table /\ r.key = q.key

\* The tables.  A slug that nobody has chosen is random: the call's own.
Tenant(id, slug) == Row("tenant", id, slug, id)
Workspace(id, tenant, slug) == Row("workspace", id, <<tenant, slug>>, tenant)
User(id, email, tenant) == Row("user", id, email, tenant)
Role(id, tenant) == Row("role", id, <<tenant, "Admin">>, tenant)
UserRole(id, user, role, workspace) == Row("member", id, <<user, role, workspace>>, user)
OAuthAccount(id, identity, user) == Row("link", id, identity, user)
PendingInvitation(id, workspace) == Row("invitation", id, id, workspace)
ApiKey(id, user) == Row("key", id, id, user)
\* revoked_at of a key, is_active of a user, as rows that are there or not.
Revoked(id, key) == Row("revoked", id, id, key)
Deactivated(id, user) == Row("deactivated", id, id, user)

VARIABLES
    stage,      \* where each call is
    task,      \* the operation of each call, and the account it concerns
    todo,       \* flushes that it has still to do
    added,      \* rows that it has flushed and not committed
    removed,    \* rows, or versions of rows, that these replace
    rows        \* committed

tenancyVars == <<stage, task, todo, added, removed, rows>>

TenancyInit ==
    /\ stage = [c \in TenancyCalls |-> "idle"]
    /\ task = [c \in TenancyCalls |-> <<"nothing", Founder>>]
    /\ todo = [c \in TenancyCalls |-> <<>>]
    /\ added = [c \in TenancyCalls |-> {}]
    /\ removed = [c \in TenancyCalls |-> {}]
    /\ rows = {Tenant(Founder, Founder), Workspace(Founder, Founder, "default"),
               Role(Founder, Founder), User(Founder, FounderEmail, Founder),
               UserRole(Founder, Founder, Founder, Founder)}

Table(t) == {r \in rows : r.table = t}
Held(c) == added[c] \cup removed[c]
HeldByOthers(c) == UNION {Held(d) : d \in TenancyCalls \ {c}}
Taken(t, key) == \E r \in Table(t) : r.key = key
Withdrawn(t, id) == \E r \in Table(t) : r.of = id
Active(u) == ~Withdrawn("deactivated", u)

-----------------------------------------------------------------------------
\* The flushes that a call may have to do.
Insert(R) == [do |-> "insert", rows |-> R]
Update(t, id) == [do |-> "update", table |-> t, id |-> id]
Rename(slug) == [do |-> "rename", slug |-> slug]
Delete(t, id) == [do |-> "delete", table |-> t, id |-> id]

\* The reads of a call, as it begins, let it go on.
Open(c, op, user, flushes) ==
    /\ stage[c] = "idle"
    /\ stage' = [stage EXCEPT ![c] = "open"]
    /\ task' = [task EXCEPT ![c] = <<op, user>>]
    /\ todo' = [todo EXCEPT ![c] = flushes]
    /\ UNCHANGED <<added, removed, rows>>

\* They find nothing, or a duplicate: the client is told so.
Refused(c) ==
    /\ stage[c] = "idle"
    /\ stage' = [stage EXCEPT ![c] = "refused"]
    /\ UNCHANGED <<task, todo, added, removed, rows>>

Flushed(c) ==
    /\ stage[c] = "open" /\ todo[c] # <<>>
    /\ todo' = [todo EXCEPT ![c] = Tail(@)]
    /\ UNCHANGED <<stage, task, rows>>

\* Mutant: the table has no unique index.
NoClash(c, r) == \A q \in rows \ removed[c] : ~SameRow(r, q)

\* PostgreSQL lets a row in if no committed one is in its place.
NoOtherIn(c, r) == \A q \in rows \ removed[c] : ~SamePlace(r, q)

InsertFlush(c) ==
    /\ Flushed(c) /\ Head(todo[c]).do = "insert"
    /\ \A r \in Head(todo[c]).rows :
        NoOtherIn(c, r) /\ \A q \in HeldByOthers(c) : ~SamePlace(r, q)
    /\ added' = [added EXCEPT ![c] = @ \cup Head(todo[c]).rows]
    /\ UNCHANGED removed

\* The row that a statement finds by its primary key, once nobody holds it.
Found(f) == {r \in Table(f.table) : r.id = f.id}
Free(c, f) == \A q \in HeldByOthers(c) : ~(q.table = f.table /\ q.id = f.id)

UpdateFlush(c) == LET f == Head(todo[c]) IN
    /\ Flushed(c) /\ f.do = "update" /\ Free(c, f)
    /\ added' = [added EXCEPT ![c] = @ \cup Found(f)]
    /\ removed' = [removed EXCEPT ![c] = @ \cup Found(f)]

\* The second half of an UPDATE of a slug, with the row held: its new place.
RenameFlush(c) == LET f == Head(todo[c]) IN
    /\ Flushed(c) /\ f.do = "rename"
    /\ \E r \in added[c] : LET new == Workspace(r.id, r.of, f.slug) IN
        /\ r.table = "workspace"
        /\ NoOtherIn(c, new) /\ \A q \in HeldByOthers(c) : ~SamePlace(new, q)
        /\ added' = [added EXCEPT ![c] = (@ \ {r}) \cup {new}]
    /\ UNCHANGED removed

\* A row that is gone already costs no more than a warning.
DeleteFlush(c) == LET f == Head(todo[c]) IN
    /\ Flushed(c) /\ f.do = "delete" /\ Free(c, f)
    /\ removed' = [removed EXCEPT ![c] = @ \cup Found(f)]
    /\ UNCHANGED added

\* _get_user_context, after the flushes of a login through SSO: some role.
HasContext(c) == \E r \in (rows \ removed[c]) \cup added[c] :
    r.table = "member" /\ r.of = task[c][2]

\* Mutant: the answer to any call waits for a read after its commit.
RefreshAlways(c) == "committed"

\* update_workspace and invite_user read their row again after the commit.
AfterCommit(c) ==
    IF task[c][1] \in {"update_workspace", "invite_user"} THEN "committed" ELSE "answered"

Commit(c) ==
    /\ stage[c] = "open" /\ todo[c] = <<>>
    /\ task[c][1] = "sso" => HasContext(c)
    /\ rows' = (rows \ removed[c]) \cup added[c]
    /\ stage' = [stage EXCEPT ![c] = AfterCommit(c)]
    /\ added' = [added EXCEPT ![c] = {}]
    /\ removed' = [removed EXCEPT ![c] = {}]
    /\ UNCHANGED <<task, todo>>

\* The refresh needs a connection again.
Refresh(c) ==
    /\ stage[c] = "committed"
    /\ stage' = [stage EXCEPT ![c] = "answered"]
    /\ UNCHANGED <<task, todo, added, removed, rows>>

\* Any await may raise: a place in a unique index is taken, PostgreSQL ends a
\* call that waits in a circle, the account has no role, the pool has no
\* connection for the refresh.  The session's close rolls back what is not
\* committed; after the commit only the answer is lost.
Raise(c) ==
    /\ stage[c] \in {"unlinked", "open", "committed"}
    /\ stage' = [stage EXCEPT ![c] = IF @ = "committed" THEN "lost" ELSE "raised"]
    /\ added' = [added EXCEPT ![c] = {}]
    /\ removed' = [removed EXCEPT ![c] = {}]
    /\ todo' = [todo EXCEPT ![c] = <<>>]
    /\ UNCHANGED <<task, rows>>

-----------------------------------------------------------------------------
\* A new account brings a tenant, its default workspace and a role in it.
NewAccount(c, slug, email) ==
    << Insert({Tenant(c, slug), Workspace(c, c, "default"), Role(c, c)}),
       Insert({User(c, email, c)}),
       Insert({UserRole(c, c, c, c)}) >>

\* The slug is made from the tenant's name, if the client gives one.
Register(c, email, slug) ==
    IF Taken("user", email) THEN Refused(c)
    ELSE Open(c, "register", c, NewAccount(c, slug, email))

\* First the identity is looked up, ...
SsoLink(c, identity, email) ==
    IF \E l \in Table("link") : l.key = identity
    THEN \E l \in Table("link") :
        /\ l.key = identity
        /\ Open(c, "sso", l.of, <<Update("user", l.of)>>)
    ELSE /\ stage[c] = "idle"
         /\ stage' = [stage EXCEPT ![c] = "unlinked"]
         /\ task' = [task EXCEPT ![c] = <<identity, email>>]
         /\ UNCHANGED <<todo, added, removed, rows>>

\* ... then the e-mail: a known one gets the link, another one an account.
SsoUser(c) ==
    /\ stage[c] = "unlinked"
    /\ LET known == {u \in Table("user") : u.key = task[c][2]}
           Go(user, flushes) ==
               /\ task' = [task EXCEPT ![c] = <<"sso", user>>]
               /\ todo' = [todo EXCEPT ![c] =
                    flushes \o <<Insert({OAuthAccount(c, task[c][1], user)})>>]
       IN \/ \E u \in known : Go(u.id, <<Update("user", u.id)>>)
          \/ known = {} /\ Go(c, NewAccount(c, c, task[c][2]))
    /\ stage' = [stage EXCEPT ![c] = "open"]
    /\ UNCHANGED <<added, removed, rows>>

SsoLogin(c) == SsoUser(c) \/ \E i \in Identities, e \in Emails : SsoLink(c, i, e)

-----------------------------------------------------------------------------
CreateTenant(c, slug) ==
    IF Taken("tenant", slug) THEN Refused(c)
    ELSE Open(c, "create_tenant", c, <<Insert({Tenant(c, slug)})>>)

CreateWorkspace(c, tenant, slug) ==
    IF ~(\E t \in Table("tenant") : t.id = tenant) \/ Taken("workspace", <<tenant, slug>>)
    THEN Refused(c)
    ELSE Open(c, "create_workspace", c, <<Insert({Workspace(c, tenant, slug)})>>)

\* Other fields, or also the slug, which is not compared with the others'.
UpdateWorkspace(c, w) ==
    \/ Open(c, "update_workspace", w, <<Update("workspace", w)>>)
    \/ \E s \in Slugs : Open(c, "update_workspace", w, <<Update("workspace", w), Rename(s)>>)

RolesOf(u, w) == {r \in Table("member") : r.of = u /\ r.key[3] = w}

\* The role is one of the workspace's tenant.  Accounts, workspaces and roles
\* stay, so the reads are as one; without an account the role waits.
InviteUser(c, email, w) == \E role \in Table("role") :
    /\ role.of = w.of
    /\ \/ \E u \in Table("user") :
            /\ u.key = email
            /\ IF Taken("member", <<u.id, role.id, w.id>>) THEN Refused(c)
               ELSE Open(c, "invite_user", u.id, <<Insert({UserRole(c, u.id, role.id, w.id)})>>)
       \/ /\ ~Taken("user", email)
          /\ Open(c, "invite_user", c, <<Insert({PendingInvitation(c, w.id)})>>)

\* The first of the user's roles there, in no particular order.
RemoveUser(c, u, w) ==
    IF RolesOf(u, w) = {} THEN Refused(c)
    ELSE \E r \in RolesOf(u, w) : Open(c, "remove_user", u, <<Delete("member", r.id)>>)

\* Any role: neither its tenant nor an earlier assignment is looked at.
AssignRole(c, u, w) == \E role \in Table("role") :
    Open(c, "assign_role", u, <<Insert({UserRole(c, u, role.id, w)})>>)

CreateApiKey(c, u) == Active(u) /\ Open(c, "create_api_key", u, <<Insert({ApiKey(c, u)})>>)

\* A revoked key is found, and revoked, again.
RevokeApiKey(c, u) == \E k \in Table("key") :
    k.of = u /\ Active(u)
    /\ Open(c, "revoke_api_key", u, <<Update("key", k.id), Insert({Revoked(c, k.id)})>>)

DeleteUserData(c, u) == Active(u)
    /\ Open(c, "delete_user_data", u, <<Update("user", u), Insert({Deactivated(c, u)})>>)

BeginAccount(c) ==
    \/ \E e \in Emails, s \in Slugs \cup {c} : Register(c, e, s)
    \/ \E s \in Slugs : CreateTenant(c, s)
    \/ \E w \in Table("workspace") : UpdateWorkspace(c, w.id)
    \/ \E t \in Table("tenant"), s \in Slugs : CreateWorkspace(c, t.id, s)
    \/ \E e \in Emails, w \in Table("workspace") : InviteUser(c, e, w)
    \/ \E u \in Table("user"), w \in Table("workspace") :
        RemoveUser(c, u.id, w.id) \/ AssignRole(c, u.id, w.id)

BeginKeys(c) == \E u \in Table("user") :
    CreateApiKey(c, u.id) \/ RevokeApiKey(c, u.id) \/ DeleteUserData(c, u.id)

Flush(c) == InsertFlush(c) \/ UpdateFlush(c) \/ RenameFlush(c) \/ DeleteFlush(c)

Proceed(c) == Flush(c) \/ Commit(c) \/ Refresh(c) \/ Raise(c)

AccountsNext == \E c \in TenancyCalls : BeginAccount(c) \/ SsoLogin(c) \/ Proceed(c)
KeysNext == \E c \in TenancyCalls : BeginKeys(c) \/ Proceed(c)

TenancyNext == AccountsNext \/ KeysNext

TenancySpec == TenancyInit /\ [][TenancyNext]_tenancyVars

-----------------------------------------------------------------------------
\* What the readers return.
ListWorkspaces(tenant) == {w \in Table("workspace") : w.of = tenant}
ListUserTenants(user) == {t \in Table("tenant") :
    \E w \in ListWorkspaces(t.id) : RolesOf(user, w.id) # {}}
\* The check of the X-Tenant-ID header counts the same rows.
UserBelongsToTenant(user, tenant) == {r \in Table("member") : r.of = user
    /\ \E w \in Table("workspace") : w.of = tenant /\ r.key[3] = w.id} # {}
GetRoles(tenant) == {r \in Table("role") : r.of = tenant}
ListApiKeys(user) == {k \in Table("key") : k.of = user /\ ~Withdrawn("revoked", k.id)}

-----------------------------------------------------------------------------
TenancyTypeOK ==
    /\ stage \in [TenancyCalls ->
        {"idle", "refused", "unlinked", "open", "committed", "answered", "lost", "raised"}]
    /\ \A c \in TenancyCalls : \A r \in Held(c) \cup rows :
        r.id \in TenancyCalls \cup {Founder}

\* Whatever calls overlap, no e-mail has two accounts, no identity two links,
\* no slug two tenants, nobody the same role twice: the checks before the
\* INSERTs do not see each other, the unique indexes do.
OnePerPlace == \A r, q \in rows : SamePlace(r, q) => r = q

\* An account came whole, in one commit: its tenant, the default workspace and
\* the Admin role, and its own role there unless somebody has removed it.  No
\* tenant is left without the account that it was made for.
AccountsWhole ==
    /\ \A u \in Table("user") :
        /\ \E t \in Table("tenant") : t.id = u.of
        /\ \E w \in ListWorkspaces(u.of) : w.id = u.id
        /\ GetRoles(u.of) # {}
        /\ \/ \E r \in Table("member") : r.id = u.id /\ r.of = u.id
           \/ \E c \in TenancyCalls : task[c] = <<"remove_user", u.id>> /\ stage[c] = "answered"
    /\ \A t \in Table("tenant") :
        \/ \E u \in Table("user") : u.of = t.id
        \/ t.id # Founder /\ task[t.id][1] = "create_tenant"

\* A row is of a call that was answered with it; only an invitation may be there
\* without an answer, when its row could not be read again after the commit.
MadeWithAnswer == \A r \in rows : r.id # Founder /\ stage[r.id] # "answered" =>
    stage[r.id] \in {"committed", "lost"} /\ task[r.id][1] = "invite_user"

\* A default workspace that has another name got it from an update that went
\* through to its commit, although its answer, too, may have been lost.
RenamedByCommit == \A w \in Table("workspace") :
    (w.id = Founder \/ task[w.id][1] # "create_workspace") /\ w.key[2] # "default" =>
        \E c \in TenancyCalls : /\ task[c] = <<"update_workspace", w.id>>
                                /\ stage[c] \in {"committed", "answered", "lost"}

\* A call that is answered with an error has left nothing behind, unless the error
\* came after its commit: then an invitation, or what an update has made of a
\* workspace, stays stored although the client is told of a failure.
ErrorsLeaveNothing == MadeWithAnswer /\ RenamedByCommit

\* Calls take effect as a whole or not at all.
AllOrNothing == AccountsWhole /\ ErrorsLeaveNothing

\* The tenants that a user is shown are those that the header may name.
TenancyViewsAgree == \A u \in Table("user"), t \in Table("tenant") :
    t \in ListUserTenants(u.id) <=> UserBelongsToTenant(u.id, t.id)
=============================================================================
