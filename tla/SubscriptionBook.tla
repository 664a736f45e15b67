--------------------------- MODULE SubscriptionBook ---------------------------
(***************************************************************************)
(* What the subscription service promises, whatever requests, webhook      *)
(* deliveries, cancellations and passes do: a row follows what happened at *)
(* Stripe and nothing else writes it, and an initiative is hidden only     *)
(* when every subscription that had a row when the pass began has ended.   *)
(* Subscriptions implements this specification.                            *)
(***************************************************************************)
CONSTANTS
  Requests,   \* each may leave one row
  Subs,
  SubOf,      \* the subscription a request is for
  None        \* no row

VARIABLES
  opened,     \* subscriptions that exist at Stripe
  charged,    \* those with a paid invoice
  lapsed,     \* those with a renewal that failed
  ended,      \* those that cannot bill again
  record,     \* the row of each request, or None
  passing,    \* a pass is closing the subscriptions of the initiative
  watched,    \* the rows there were when it began
  hidden      \* the initiative is hidden

stripeVars == <<opened, charged, lapsed, ended>>
passVars   == <<passing, watched, hidden>>
vars       == <<stripeVars, record, passVars>>

Of(s) == {r \in Requests : record[r] # None /\ SubOf[r] = s}

Init ==
  /\ opened = {} /\ charged = {} /\ lapsed = {} /\ ended = {}
  /\ record = [r \in Requests |-> None]
  /\ passing = FALSE /\ watched = {} /\ hidden \in BOOLEAN

(* Stripe: a subscription is paid at once or awaits its donor, is billed,  *)
(* and ends for good.                                                      *)
Open(s) ==
  /\ s \notin opened /\ opened' = opened \cup {s}
  /\ charged' = charged \/ charged' = charged \cup {s}
  /\ UNCHANGED <<lapsed, ended, record>> /\ UNCHANGED passVars

Bill(s) ==
  /\ s \in opened \ ended
  /\ \/ charged' = charged \cup {s} /\ lapsed' = lapsed
     \/ lapsed' = lapsed \cup {s} /\ charged' = charged
  /\ UNCHANGED <<opened, ended, record>> /\ UNCHANGED passVars

NoPass == passing' = FALSE /\ watched' = {} /\ UNCHANGED hidden

(* When the answer to a cancellation of the pass is lost, the subscription *)
(* ends and so does the pass.                                              *)
End(s) ==
  /\ s \in opened \ ended /\ ended' = ended \cup {s}
  /\ UNCHANGED passVars \/ NoPass
  /\ UNCHANGED <<opened, charged, lapsed, record>>

(* Rows *)
Record(r) ==
  /\ record[r] = None /\ SubOf[r] \in opened
  /\ \/ record' = [record EXCEPT ![r] = [status |-> "incomplete", paid |-> FALSE]]
     \/ /\ SubOf[r] \in charged
        /\ record' = [record EXCEPT ![r] = [status |-> "active", paid |-> TRUE]]
  /\ UNCHANGED stripeVars /\ UNCHANGED passVars

Stamp(s) ==
  /\ s \in charged
  /\ record' = [r \in Requests |-> IF r \in Of(s) THEN [record[r] EXCEPT !.paid = TRUE]
                                                  ELSE record[r]]
  /\ UNCHANGED stripeVars /\ UNCHANGED passVars

(* A status needs its cause; which of the causes came last does not matter.*)
Cause(status) == CASE status = "active"   -> charged
                   [] status = "past_due" -> lapsed
                   [] status = "canceled" -> ended

Move(s, status) ==
  /\ s \in Cause(status)
  /\ record' = [r \in Requests |-> IF r \in Of(s) THEN [record[r] EXCEPT !.status = status]
                                                  ELSE record[r]]
  /\ UNCHANGED stripeVars /\ UNCHANGED passVars

Close(r) ==
  /\ record[r] # None /\ SubOf[r] \in ended
  /\ record' = [record EXCEPT ![r].status = "canceled"]
  /\ UNCHANGED stripeVars /\ UNCHANGED passVars

(* Hiding the initiative *)
Begin ==
  /\ ~passing /\ ~hidden
  /\ passing' = TRUE /\ watched' = {r \in Requests : record[r] # None}
  /\ UNCHANGED <<stripeVars, record, hidden>>

GiveUp == passing /\ NoPass /\ UNCHANGED <<stripeVars, record>>

Hide ==
  /\ passing /\ \A r \in watched : SubOf[r] \in ended
  /\ hidden' = TRUE /\ passing' = FALSE /\ watched' = {}
  /\ UNCHANGED <<stripeVars, record>>

Show == hidden /\ hidden' = FALSE /\ UNCHANGED <<stripeVars, record, passing, watched>>

Next ==
  \/ \E s \in Subs : \/ Open(s) \/ Bill(s) \/ End(s) \/ Stamp(s)
                     \/ \E status \in {"active", "past_due", "canceled"} : Move(s, status)
  \/ \E r \in Requests : Record(r) \/ Close(r)
  \/ Begin \/ GiveUp \/ Hide \/ Show

Spec == Init /\ [][Next]_vars
=============================================================================
