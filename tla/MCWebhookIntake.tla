--------------------------- MODULE MCWebhookIntake ---------------------------
(* Instances of WebhookIntake for TLC. *)
EXTENDS WebhookIntake, TLC

CONSTANTS r1, r2, d1, d2

TwoRequests == {r1, r2}
\* d1 is a genuine submission event; d2, where it is not, a forged one or one
\* of another type.
OneDelivery == {d1}
TwoDeliveries == {d1, d2}

RequestSymmetry == Permutations(Requests)
==============================================================================
