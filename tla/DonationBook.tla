----------------------------- MODULE DonationBook -----------------------------
(***************************************************************************)
(* What the donation service promises about each PaymentIntent, whatever   *)
(* requests, retries and webhook deliveries do: a donation is recorded at  *)
(* most once and starts as pending, its record follows what happened to    *)
(* the money, and only recorded, captured money reaches the Ledger.        *)
(* Donations implements this specification.                                *)
(***************************************************************************)
CONSTANT Intents

VARIABLES
  opened,    \* intents that exist at Stripe
  captured,  \* intents whose money was taken
  refused,   \* intents with a failed attempt
  record,    \* "none" or the status of the donation row
  booked     \* intents posted to the Ledger

vars == <<opened, captured, refused, record, booked>>

Init ==
  /\ opened = {} /\ captured = {} /\ refused = {} /\ booked = {}
  /\ record = [p \in Intents |-> "none"]

(* An attempt to take the money: it succeeds, fails or awaits the donor. *)
Attempt(p) ==
  /\ p \notin captured
  /\ opened' = opened \cup {p}
  /\ \/ captured' = captured \cup {p} /\ refused' = refused
     \/ captured' = captured /\ refused' = refused \cup {p}
     \/ UNCHANGED <<captured, refused>>
  /\ UNCHANGED <<record, booked>>

Record(p) ==
  /\ p \in opened /\ record[p] = "none"
  /\ record' = [record EXCEPT ![p] = "pending"]
  /\ UNCHANGED <<opened, captured, refused, booked>>

(* A late verdict may replace another, so both directions are allowed; an  *)
(* invented verdict is not.                                                *)
Settle(p) ==
  /\ record[p] # "none"
  /\ \/ p \in captured /\ record' = [record EXCEPT ![p] = "succeeded"]
     \/ p \in refused  /\ record' = [record EXCEPT ![p] = "failed"]
  /\ UNCHANGED <<opened, captured, refused, booked>>

Book(p) ==
  /\ p \in captured /\ record[p] # "none"
  /\ booked' = booked \cup {p}
  /\ UNCHANGED <<opened, captured, refused, record>>

Next == \E p \in Intents : Attempt(p) \/ Record(p) \/ Settle(p) \/ Book(p)

Spec == Init /\ [][Next]_vars
=============================================================================
