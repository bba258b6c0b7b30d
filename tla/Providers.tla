------------------------------- MODULE Providers -------------------------------
(***************************************************************************)
(* What the two payment providers make of a notification                   *)
(* (internal/payment/providers.go): the payload is parsed to an event with *)
(* a reference, a status of this store and an identifier.                  *)
(***************************************************************************)

CONSTANTS
    Orders,   \* what the references in payloads name
    Ids,      \* transaction_id of Midtrans, id of Xendit
    NoId      \* transaction_id is missing

\* transaction_status of Midtrans and status of Xendit, in lower case; words
\* of theirs that the code does not know are "unknown".
Words ==
    {"settlement", "capture", "paid", "pending", "expire", "expired", "deny",
     "failure", "failed", "cancel", "cancelled", "refunded", "unknown"}

\* order is order_id of Midtrans and external_id of Xendit; challenge says
\* whether fraud_status is "challenge".
Payload ==
    [provider : {"midtrans", "xendit"}, order : Orders, status : Words,
     challenge : BOOLEAN, id : Ids \cup {NoId}]

\* The digest of a payload without an identifier.
Digest(r) == <<r.order, r.status, r.challenge>>

mapStatus(word) ==
    CASE word \in {"settlement", "capture", "paid"} -> "PAID"
      [] word \in {"expire", "expired"} -> "EXPIRED"
      [] word \in {"deny", "failure", "failed"} -> "FAILED"
      [] word \in {"cancel", "cancelled"} -> "CANCELLED"
      [] word = "refunded" -> "REFUNDED"
      [] OTHER -> "PENDING"

\* Mutant: fraud_status is not looked at.
WordWithoutFraud(r) == r.status

\* A capture that Midtrans challenges counts as pending.
WordOf(r) ==
    IF r.provider = "midtrans" /\ r.status = "capture" /\ r.challenge
    THEN "pending" ELSE r.status

\* Midtrans' transaction is the event, whatever is said of it; Xendit's id is
\* taken as it is.
EventID(r) ==
    IF r.provider = "midtrans" /\ r.id = NoId THEN Digest(r) ELSE r.id

ParseWebhook(r) ==
    [order |-> r.order, status |-> mapStatus(WordOf(r)), id |-> EventID(r)]
=============================================================================
