--------------------------------- MODULE Inbox ---------------------------------
(***************************************************************************)
(* The rows of notifications as two services read and write them:          *)
(* core/notification_service.py, which commits and serves                  *)
(* api/v1/notifications.py, and services/notifications.py, which flushes   *)
(* and has no caller yet.  How a new row reaches the user's sockets is     *)
(* NotificationDelivery's subject.                                         *)
(***************************************************************************)
EXTENDS TenantRows

CONSTANTS
    Readers,            \* users
    Rooms,              \* workspaces
    MaxNotifications    \* bound

\* A notification need not be of a workspace.
NoRoom == "none"

ASSUME InboxAssumption == MaxNotifications \in Nat /\ NoRoom \notin Rooms

Everywhere == Rooms \cup {NoRoom}

VARIABLE inbox          \* rows of notifications

inboxVars == <<inbox>>

Notification == [user : Readers, workspace : Everywhere, read : BOOLEAN, deleted : BOOLEAN]

InboxTypeOK == inbox \in Seq(Notification)

InboxInit == inbox = <<>>

-----------------------------------------------------------------------------
\* send_notification names a workspace or none, create_notification never one.
CreateNotification(u, w) ==
    /\ Len(inbox) < MaxNotifications
    /\ inbox' = Inserted(inbox, [user |-> u, workspace |-> w, read |-> FALSE, deleted |-> FALSE])

\* get_notification: the user's own, deleted or not.
FindNotification(u, n) == n \in DOMAIN inbox /\ inbox[n].user = u

MarkRead(n) == inbox' = [inbox EXCEPT ![n].read = TRUE]

MarkNotificationRead(u, n) == FindNotification(u, n) /\ MarkRead(n)

\* The user's unread rows in some workspaces, deleted or not.
Unread(u, scope) == {n \in DOMAIN inbox :
    inbox[n].user = u /\ ~inbox[n].read /\ inbox[n].workspace \in scope}

\* mark_all_read is one UPDATE of the unread rows, and answers their number.
MarkAllRead(u, scope) == inbox' = [n \in DOMAIN inbox |->
    [inbox[n] EXCEPT !.read = @ \/ (inbox[n].user = u /\ inbox[n].workspace \in scope)]]

MarkAllNotificationsRead(u, scope) == Unread(u, scope) # {} /\ MarkAllRead(u, scope)

DeleteRow(n) == inbox' = SoftDeleted(inbox, n)

DeleteNotification(u, n) == FindNotification(u, n) /\ DeleteRow(n)

\* What the handlers show.  Their service never asks whether a row is deleted, and
\* they do not ask it for one workspace.
GetNotifications(u, scope, unreadOnly) == {n \in DOMAIN inbox :
    inbox[n].user = u /\ inbox[n].workspace \in scope /\ (unreadOnly => ~inbox[n].read)}
ListNotifications(u, unreadOnly, page, limit) ==
    Page(GetNotifications(u, Everywhere, unreadOnly), page, limit)
GetNotification(u, n) == FindNotification(u, n)
UnreadCount(u, scope) == Cardinality(Unread(u, scope))
GetUnreadCount(u) == UnreadCount(u, Everywhere)

-----------------------------------------------------------------------------
\* The other service has the same operations on what is not deleted; its
\* mark_all_read returns an aggregate, which the database refuses.
KeptNotification(u, n) == FindNotification(u, n) /\ ~inbox[n].deleted
MarkKeptRead(u, n) == KeptNotification(u, n) /\ MarkRead(n)
DismissNotification(u, n) == KeptNotification(u, n) /\ DeleteRow(n)
KeptNotifications(u) == {n \in DOMAIN inbox : inbox[n].user = u} \cap NotDeleted(inbox)
KeptUnread(u) == Cardinality({n \in KeptNotifications(u) : ~inbox[n].read})

-----------------------------------------------------------------------------
InboxNext == \E u \in Readers :
    \/ \E w \in Everywhere : CreateNotification(u, w)
    \/ \E scope \in {Everywhere} \cup {{w} : w \in Rooms} : MarkAllNotificationsRead(u, scope)
    \/ \E n \in 1 .. MaxNotifications :
        \/ MarkNotificationRead(u, n) \/ DeleteNotification(u, n)
        \/ MarkKeptRead(u, n) \/ DismissNotification(u, n)

InboxSpec == InboxInit /\ [][InboxNext]_inboxVars

-----------------------------------------------------------------------------
\* The numbers agree: the count of unread notifications is the number of rows
\* on the pages of unread ones; who marks all of every workspace as read is left
\* with those of none, and no others; the second service shows the same rows but
\* those that are deleted.
InboxViewsAgree == \A u \in Readers :
    LET all == Walk(LAMBDA p, l : ListNotifications(u, FALSE, p, l), MaxNotifications)
        unread == Walk(LAMBDA p, l : ListNotifications(u, TRUE, p, l), MaxNotifications)
    IN  /\ {n \in 1 .. MaxNotifications : GetNotification(u, n)} = all
        /\ GetUnreadCount(u) = Cardinality(unread)
        /\ unread \ UNION {Unread(u, {w}) : w \in Rooms} = Unread(u, {NoRoom})
        /\ KeptNotifications(u) = {n \in all : KeptNotification(u, n)}
        /\ KeptUnread(u) = Cardinality(unread \cap KeptNotifications(u))
=============================================================================
