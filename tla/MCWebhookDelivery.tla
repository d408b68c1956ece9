------------------------- MODULE MCWebhookDelivery -------------------------
(***************************************************************************)
(* Small instances of WebhookDelivery: two webhooks, which are             *)
(* interchangeable, as are their URLs.                                     *)
(***************************************************************************)
EXTENDS WebhookDelivery, TLC

Symmetry == Permutations(Webhooks) \cup Permutations(Urls)
=============================================================================
