----------------------- MODULE MCNotificationDelivery -----------------------
(***************************************************************************)
(* A small instance of NotificationDelivery.  Its properties are temporal, *)
(* so its sets are not reduced by symmetry.                                *)
(***************************************************************************)
EXTENDS NotificationDelivery
=============================================================================
