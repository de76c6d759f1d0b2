----------------------------- MODULE MCBilling ------------------------------
(* BillingWebhooks for TLC. *)
EXTENDS BillingWebhooks

CONSTANTS e1, e2, o1

\* A purchase and its cancellation, for one organization.
PurchaseAndCancel ==
  (e1 :> [org |-> o1, type |-> "subscription.updated", plan |-> "PRO", status |-> "ACTIVE"])
    @@
  (e2 :> [org |-> o1, type |-> "subscription.cancelled", plan |-> "FREE", status |-> "ACTIVE"])

\* A payment that failed.  No plan change has its effect, so that applying it
\* twice cannot pass for one.
PaymentFailed ==
  e1 :> [org |-> o1, type |-> "invoice.payment_failed", plan |-> "FREE", status |-> "ACTIVE"]

BillingSymmetry == Permutations(JobIds) \cup Permutations(Workers) \cup Permutations(Deliveries)

=============================================================================
