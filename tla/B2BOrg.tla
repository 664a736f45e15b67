--------------------------------- MODULE B2BOrg ---------------------------------
(***************************************************************************)
(* Matching the subscriptions and donations of one org domain to the       *)
(* Salesforce account that owns the domain.  The request that saved a row  *)
(* looks the domain up in the background (service/b2b_org.go, the callback *)
(* in service/subscription_service.go), and b2b-org-backfill fills what    *)
(* that left empty (cmd/b2b-org-backfill).  Both write a subscription's    *)
(* Stripe metadata, two objects in two calls, and then the row, with       *)
(* nothing between them; member-service may change its mind meanwhile.     *)
(***************************************************************************)
EXTENDS Integers

CONSTANTS
  Subs, Dons,  \* the domain's subscriptions and donations
  SFIDs,
  MaxStops,    \* bound: failures of the backfill job
  NoSFID       \* no match, or not stored yet

ASSUME B2BAssumption == MaxStops \in Nat /\ NoSFID \notin SFIDs /\ Subs \cap Dons = {}

VARIABLES
  match,   \* what member-service answers for the domain
  row,     \* of each subscription and donation: the SFID stored
  stripe,  \* of each subscription: [live, closed, sub, item]: does Stripe bill it, does the
           \* row say canceled, and the metadata of subscription and item
  lookup,  \* of each row, the goroutine of its request: [at, sfid]
  backfill,     \* the backfill: [at, sfid, sub, todo], at a step of one subscription
  stops         \* failures of the backfill so far

b2bVars == <<match, row, stripe, lookup, backfill, stops>>

Maybe == SFIDs \cup {NoSFID}
Saved == {r \in Subs \cup Dons : lookup[r].at # "unsaved"}

B2BTypeOK ==
  /\ match \in Maybe
  /\ row \in [Subs \cup Dons -> Maybe]
  /\ stripe \in [Subs -> [live : BOOLEAN, closed : BOOLEAN, sub : Maybe, item : Maybe]]
  /\ lookup \in [Subs \cup Dons -> [at : {"unsaved", "ask", "sub", "item", "store", "over"},
                                    sfid : Maybe]]
  /\ backfill \in [at : {"idle", "donations", "next", "item", "sub", "store"},
              sfid : Maybe, sub : Subs \cup {NoSFID}, todo : SUBSET Subs]
  /\ stops \in 0 .. MaxStops

NoRun == [at |-> "idle", sfid |-> NoSFID, sub |-> NoSFID, todo |-> {}]

B2BInit ==
  /\ match = NoSFID
  /\ row = [r \in Subs \cup Dons |-> NoSFID]
  /\ stripe = [s \in Subs |-> [live |-> TRUE, closed |-> FALSE, sub |-> NoSFID, item |-> NoSFID]]
  /\ lookup = [r \in Subs \cup Dons |-> [at |-> "unsaved", sfid |-> NoSFID]]
  /\ backfill = NoRun
  /\ stops = 0

-----------------------------------------------------------------------------
(* SET b2b_org_sfid ... WHERE b2b_org_sfid IS NULL *)
Fill(S, sfid) == row' = [r \in Subs \cup Dons |->
                           IF r \in S /\ row[r] = NoSFID THEN sfid ELSE row[r]]

Rematch(m) ==
  /\ m # match /\ match' = m
  /\ UNCHANGED <<row, stripe, lookup, backfill, stops>>

(* Stripe ends a subscription; the row hears of it later, or never. *)
EndSub(s) ==
  /\ stripe[s].live
  /\ stripe' = [stripe EXCEPT ![s].live = FALSE]
  /\ UNCHANGED <<match, row, lookup, backfill, stops>>
CloseRow(s) ==
  /\ s \in Saved /\ ~stripe[s].live /\ ~stripe[s].closed
  /\ stripe' = [stripe EXCEPT ![s].closed = TRUE]
  /\ UNCHANGED <<match, row, lookup, backfill, stops>>

-----------------------------------------------------------------------------
LookupAt(r, step, sfid) == lookup' = [lookup EXCEPT ![r] = [at |-> step, sfid |-> sfid]]

(* The row is saved and the goroutine starts. *)
SaveRow(r) ==
  /\ lookup[r].at = "unsaved"
  /\ LookupAt(r, "ask", NoSFID)
  /\ UNCHANGED <<match, row, stripe, backfill, stops>>

(* Mutant: the row is stored without telling Stripe. *)
AskMember_RowOnly(r) ==
  /\ lookup[r].at = "ask"
  /\ LookupAt(r, IF match = NoSFID THEN "over" ELSE "store", match)
  /\ UNCHANGED <<match, row, stripe, backfill, stops>>

(* lookupAndStoreB2BOrg: without a match nothing is stored. *)
AskMember(r) ==
  /\ lookup[r].at = "ask"
  /\ IF match = NoSFID THEN LookupAt(r, "over", NoSFID)
     ELSE LookupAt(r, IF r \in Subs THEN "sub" ELSE "store", match)
  /\ UNCHANGED <<match, row, stripe, backfill, stops>>

(* UpdateSubscriptionMetadata: the subscription, then the item. *)
TagSub(s) ==
  /\ lookup[s].at = "sub" /\ stripe[s].live
  /\ stripe' = [stripe EXCEPT ![s].sub = lookup[s].sfid]
  /\ LookupAt(s, "item", lookup[s].sfid)
  /\ UNCHANGED <<match, row, backfill, stops>>
TagItem(s) ==
  /\ lookup[s].at = "item" /\ stripe[s].live
  /\ stripe' = [stripe EXCEPT ![s].item = lookup[s].sfid]
  /\ LookupAt(s, "store", lookup[s].sfid)
  /\ UNCHANGED <<match, row, backfill, stops>>

(* SetB2BOrgSFID *)
StoreSFID(r) ==
  /\ lookup[r].at = "store"
  /\ Fill({r}, lookup[r].sfid)
  /\ LookupAt(r, "over", NoSFID)
  /\ UNCHANGED <<match, stripe, backfill, stops>>

(* An error, or the end of the process: only logged, if at all. *)
LookupFails(r) ==
  /\ lookup[r].at \notin {"unsaved", "over"}
  /\ LookupAt(r, "over", NoSFID)
  /\ UNCHANGED <<match, row, stripe, backfill, stops>>

-----------------------------------------------------------------------------
BackfillAt(step, s, todo) == backfill' = [backfill EXCEPT !.at = step, !.sub = s, !.todo = todo]

(* Run: the domain is listed as long as one of its rows is empty. *)
StartBackfill ==
  /\ backfill.at = "idle" /\ \E r \in Saved : row[r] = NoSFID
  /\ match # NoSFID
  /\ backfill' = [NoRun EXCEPT !.at = "donations", !.sfid = match]
  /\ UNCHANGED <<match, row, stripe, lookup, stops>>

(* Mutant: the subscriptions are forgotten. *)
FillDonations_Only ==
  /\ backfill.at = "donations"
  /\ Fill(Dons \cap Saved, backfill.sfid)
  /\ BackfillAt("next", NoSFID, {})
  /\ UNCHANGED <<match, stripe, lookup, stops>>

(* SetDonationsSFID, then UnmatchedSubscriptions *)
FillDonations ==
  /\ backfill.at = "donations"
  /\ Fill(Dons \cap Saved, backfill.sfid)
  /\ BackfillAt("next", NoSFID, {s \in Subs \cap Saved : row[s] = NoSFID})
  /\ UNCHANGED <<match, stripe, lookup, stops>>

(* patchStripe: a row that says canceled, and one that Stripe no longer    *)
(* bills, is filled without touching Stripe.                               *)
NextSub(s) ==
  /\ backfill.at = "next" /\ s \in backfill.todo
  /\ BackfillAt(IF stripe[s].closed \/ ~stripe[s].live THEN "store" ELSE "item", s, backfill.todo \ {s})
  /\ UNCHANGED <<match, row, stripe, lookup, stops>>

(* PatchLiveSubscription: the item, then the subscription. *)
PatchItem ==
  /\ backfill.at = "item" /\ stripe[backfill.sub].live
  /\ stripe' = [stripe EXCEPT ![backfill.sub].item = backfill.sfid]
  /\ BackfillAt("sub", backfill.sub, backfill.todo)
  /\ UNCHANGED <<match, row, lookup, stops>>
PatchSub ==
  /\ backfill.at = "sub" /\ stripe[backfill.sub].live
  /\ stripe' = [stripe EXCEPT ![backfill.sub].sub = backfill.sfid]
  /\ BackfillAt("store", backfill.sub, backfill.todo)
  /\ UNCHANGED <<match, row, lookup, stops>>

Stop == stops < MaxStops /\ stops' = stops + 1

(* A Stripe error, as for a subscription that has ended meanwhile, leaves  *)
(* the row empty for the next run.                                         *)
PatchFails ==
  /\ backfill.at \in {"item", "sub"}
  /\ Stop \/ (~stripe[backfill.sub].live /\ UNCHANGED stops)
  /\ BackfillAt("next", NoSFID, backfill.todo)
  /\ UNCHANGED <<match, row, stripe, lookup>>

(* SetSubscriptionSFID *)
StoreSubSFID ==
  /\ backfill.at = "store"
  /\ Fill({backfill.sub}, backfill.sfid)
  /\ BackfillAt("next", NoSFID, backfill.todo)
  /\ UNCHANGED <<match, stripe, lookup, stops>>

EndBackfill ==
  /\ backfill.at = "next" /\ backfill.todo = {}
  /\ backfill' = NoRun
  /\ UNCHANGED <<match, row, stripe, lookup, stops>>

(* A database error or the end of the process. *)
BackfillStops ==
  /\ backfill.at # "idle"
  /\ backfill' = NoRun
  /\ Stop
  /\ UNCHANGED <<match, row, stripe, lookup>>

(* The job is run again and again. *)
BackfillJob ==
  \/ StartBackfill \/ FillDonations \/ PatchItem \/ PatchSub \/ PatchFails
  \/ StoreSubSFID \/ EndBackfill
  \/ \E s \in Subs : NextSub(s)

B2BNext ==
  \/ \E m \in Maybe : Rematch(m)
  \/ \E s \in Subs : EndSub(s) \/ CloseRow(s) \/ TagSub(s) \/ TagItem(s) \/ NextSub(s)
  \/ \E r \in Subs \cup Dons : SaveRow(r) \/ AskMember(r) \/ StoreSFID(r) \/ LookupFails(r)
  \/ StartBackfill \/ FillDonations \/ PatchItem \/ PatchSub \/ PatchFails
  \/ StoreSubSFID \/ EndBackfill \/ BackfillStops

B2BSpec == B2BInit /\ [][B2BNext]_b2bVars

-----------------------------------------------------------------------------
(* "Stripe first": a row that has its SFID, which no run looks at again,   *)
(* has it in both Stripe objects as well, unless Stripe has ended the      *)
(* subscription.  Two writers that were told different accounts may leave  *)
(* the other's SFID there, but never none.                                 *)
RowBehindStripe ==
  \A s \in Subs :
    row[s] # NoSFID /\ stripe[s].live => stripe[s].sub # NoSFID /\ stripe[s].item # NoSFID

(* Whatever failed before, a domain with a lasting match gets its rows     *)
(* filled by a later run of the backfill.                                  *)
RowsFilled ==
  \A r \in Subs \cup Dons :
    <>[](match # NoSFID) => [](r \in Saved => <>(row[r] # NoSFID))

=============================================================================
