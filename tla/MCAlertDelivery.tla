----------------------------- MODULE MCAlertDelivery -----------------------------
(***************************************************************************)
(* Instances of AlertDelivery for TLC.                                      *)
(***************************************************************************)
EXTENDS AlertDelivery, TLC

CONSTANTS r1, r2, p1, p2, v1, a1

OneService == (p1 :> {a1})
NoServices == (p1 :> {}) @@ (p2 :> {})
=============================================================================
