----------------------------- MODULE MCDonations -----------------------------
(* Small instances of Donations for TLC. *)
EXTENDS Donations, TLC

CONSTANTS r1, r2, r3, p1, p2, p3, u1, u2, w1, w2, s1, s2

Gold == [g \in {"gold"} |-> [enabled |-> TRUE, minimum |-> 2]]
Open   == [status |-> "published", acceptFunding |-> TRUE,
           mode |-> "tiers", tiers |-> Gold]
Hidden == [Open EXCEPT !.status = "hidden"]

Body(p, u, tier) == [key |-> p, user |-> u, org |-> TRUE, tier |-> tier,
                     amount |-> 2]

(* r1 and r2 are the same click sent twice. *)
MCReplayInput == (r1 :> Body(p1, u1, "")) @@ (r2 :> Body(p1, u1, ""))

(* Two donors, one for a tier, one without legacy_user_id. *)
MCTwoDonors == (r1 :> Body(p1, u1, "gold")) @@ (r3 :> Body(p2, u2, ""))

MCOpen      == {Open}
MCOpenClose == {Open, Hidden}

WorkerSymmetry == Permutations(Workers)
=============================================================================
