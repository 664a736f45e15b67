--------------------------- MODULE MCSubscriptions ---------------------------
(* Small instances of Subscriptions for TLC. *)
EXTENDS Subscriptions, TLC

CONSTANTS r1, r2, s1, s2, u1, u2, w1, w2, c0

Published == [status |-> "published", acceptFunding |-> TRUE, product |-> "live"]
MCPublished == {Published}
MCAnyProduct == {[Published EXCEPT !.product = p] : p \in {"none", "stale", "live"}}

(* One click sent twice; two clicks of one donor; two donors. *)
MCSameKey   == (r1 :> [key |-> s1, user |-> u1]) @@ (r2 :> [key |-> s1, user |-> u1])
MCTwoClicks == (r1 :> [key |-> s1, user |-> u1]) @@ (r2 :> [key |-> s2, user |-> u1])
MCTwoDonors == (r1 :> [key |-> s1, user |-> u1]) @@ (r2 :> [key |-> s2, user |-> u2])

(* No step reads which events were acknowledged or mailed, and neither does *)
(* a property of the run that uses this view.                               *)
MCUnacknowledged ==
  <<initiative, customerID, req, stripe, rows, order, events, hook, marking, closer>>

=============================================================================
