------------------------------ MODULE Donations ------------------------------
(***************************************************************************)
(* One-time donations: the request that charges the donor's card and       *)
(* records the donation (service/donation_service.go), the repository      *)
(* (infrastructure/db/donation_repository.go) and the Stripe webhook       *)
(* (handler/webhook_handler.go) that settles the recorded row, posts the   *)
(* charge to the Ledger and mails the receipt.                             *)
(*                                                                         *)
(* Requests and webhook deliveries run concurrently; every external call   *)
(* and every SQL statement is one atomic step.  Stripe delivers an event   *)
(* until it is acknowledged, may deliver it again afterwards, and orders   *)
(* nothing.                                                                *)
(***************************************************************************)
EXTENDS Naturals, FiniteSets

CONSTANTS
  Requests,       \* POST .../donations requests
  Intents,        \* Stripe PaymentIntents; one idempotency key names one
  LegacyIntents,  \* intents whose metadata is not version "v2" (LFF era)
  Users,          \* donors with a row in users
  StubUsers,      \* donors without a legacy_user_id
  Workers,        \* concurrent executions of the webhook handler
  SFIDs,          \* answers of the b2b_org directory for a domain
  Initiatives,    \* the states the funded initiative can be read in
  Input,          \* the body of each request
  RaceWindow,     \* TRUE when STRIPE_V2_RACE_WINDOW is set (never in prod)
  MaxReceipts,    \* receipts are counted up to this number
  None            \* no customer, no row, no SFID, no event

InputType == [key : Intents, user : Users, org : BOOLEAN,
              tier : STRING, amount : Nat]

ASSUME DonationConstants ==
  /\ LegacyIntents \subseteq Intents /\ StubUsers \subseteq Users
  /\ Input \in [Requests -> InputType]
  /\ \A r \in Requests : Input[r].key \notin LegacyIntents
  /\ RaceWindow \in BOOLEAN /\ MaxReceipts \in Nat \ {0}
  /\ None \notin Requests /\ None \notin SFIDs

VARIABLES
  initiative,  \* the initiative's row
  req,         \* control state of each request, and the customer it uses
  customerID,  \* users.stripe_customer_id
  pi,          \* Stripe's PaymentIntents
  donations,   \* the donations table, by the request that inserted the row
  events,      \* webhook events Stripe has emitted
  acked,       \* events answered with 200
  hook,        \* control state of each webhook execution
  ledger,      \* transactions the Ledger service accepted
  receipts     \* confirmation mails sent for each intent

vars == <<initiative, req, customerID, pi, donations, events,
          acked, hook, ledger, receipts>>

requestVars == <<initiative, req, customerID>>
hookVars    == <<acked, hook, ledger, receipts>>

EventTypes == {"payment_intent.succeeded", "payment_intent.payment_failed"}
Events     == [pi : Intents, type : EventTypes]
Succeeded(p) == [pi |-> p, type |-> "payment_intent.succeeded"]
Failed(p)    == [pi |-> p, type |-> "payment_intent.payment_failed"]

Statuses == {"pending", "succeeded", "failed"}
Rows     == [pi : Intents, status : Statuses, org : BOOLEAN,
             sfid : SFIDs \cup {None}]

ASSUME NoneIsNoRow == None \notin Rows

IntentStatuses == {"absent", "requires_action", "declined", "failed",
                   "succeeded"}
IntentState == [status : IntentStatuses, challenged : BOOLEAN,
                by : Requests \cup {None}, cus : Requests \cup {None}]

RequestPCs == {"start", "customer", "persist", "charge", "insert", "lookup",
               "done", "failed"}
Idle       == [pc |-> "idle", ev |-> None, sfid |-> None]
HookState  == [pc : {"exists", "ledger", "email"}, ev : Events,
               sfid : SFIDs \cup {None}] \cup {Idle}

(* One type invariant for the module. *)
TypeOK ==
  /\ initiative \in Initiatives
  /\ req \in [Requests -> [pc : RequestPCs, cus : Requests \cup {None}]]
  /\ customerID \in [Users -> Requests \cup {None}]
  /\ pi \in [Intents -> IntentState]
  /\ donations \in [Requests -> Rows \cup {None}]
  /\ events \subseteq Events
  /\ acked \subseteq Events
  /\ hook \in [Workers -> HookState]
  /\ ledger \subseteq [pi : Intents, sfid : SFIDs \cup {None}]
  /\ receipts \in [Intents -> 0..MaxReceipts]

-----------------------------------------------------------------------------
(* Derived views of the tables. *)

Keys        == {Input[r].key : r \in Requests}
RowsOf(p)   == {r \in Requests : donations[r] # None /\ donations[r].pi = p}
Recorded(p) == RowsOf(p) # {}

(* What Stripe compares when an idempotency key is used again: the amount  *)
(* and metadata come from the request body, the customer from the user row *)
(* the request read.                                                       *)
SameParameters(r, p) ==
  /\ pi[p].by # None
  /\ pi[p].cus = req[r].cus
  /\ [Input[r] EXCEPT !.tier = ""] = [Input[pi[p].by] EXCEPT !.tier = ""]

(* The initiative is published, takes money, and offers the chosen tier at *)
(* this amount.  tiers maps the configured tier names to [enabled,         *)
(* minimum]; the tier "" is no tier.                                       *)
TierAccepted(i, in) ==
  \/ in.tier = ""
  \/ /\ i.mode = "tiers"
     /\ in.tier \in DOMAIN i.tiers
     /\ i.tiers[in.tier].enabled
     /\ in.amount >= i.tiers[in.tier].minimum

Eligible(i, in) ==
  /\ in.amount > 0
  /\ i.status = "published"
  /\ i.acceptFunding
  /\ TierAccepted(i, in)

(* Events of a v2 intent whose metadata names the donor lead to the Ledger *)
(* and to the mails; a donor without legacy_user_id leaves user_id empty.  *)
IsV2(p)        == p \notin LegacyIntents
Postable_AnyDonor(p) == IsV2(p) \* faulty: no check of the metadata
Postable(p)    == /\ IsV2(p)
                  /\ pi[p].by = None \/ Input[pi[p].by].user \notin StubUsers

Init ==
  /\ initiative \in Initiatives
  /\ req = [r \in Requests |-> [pc |-> "start", cus |-> None]]
  /\ customerID = [u \in Users |-> None]
  /\ pi = [p \in Intents |-> [status |-> "absent", challenged |-> FALSE,
                              by |-> None, cus |-> None]]
  /\ donations = [r \in Requests |-> None]
  /\ events = {} /\ acked = {}
  /\ hook = [w \in Workers |-> Idle]
  /\ ledger = {}
  /\ receipts = [p \in Intents |-> 0]

-----------------------------------------------------------------------------
(* DonationService.Create *)

Goto(r, pc) == req' = [req EXCEPT ![r].pc = pc]

(* The reads: the initiative, its tiers and the user row, whose customer   *)
(* is used for the rest of the request.                                    *)
Load(r) ==
  LET cus == customerID[Input[r].user] IN
  /\ req[r].pc = "start"
  /\ Eligible(initiative, Input[r])
  /\ req' = [req EXCEPT ![r] =
               [pc |-> IF cus = None THEN "customer" ELSE "charge",
                cus |-> cus]]
  /\ UNCHANGED <<initiative, customerID, pi, donations, events>>
  /\ UNCHANGED hookVars

(* CreateCustomer carries no idempotency key: every call is a customer. *)
CreateCustomer(r) ==
  /\ req[r].pc = "customer"
  /\ req' = [req EXCEPT ![r] = [pc |-> "persist", cus |-> r]]
  /\ UNCHANGED <<initiative, customerID, pi, donations, events>>
  /\ UNCHANGED hookVars

PersistCustomer(r) ==
  /\ req[r].pc = "persist"
  /\ customerID' = [customerID EXCEPT ![Input[r].user] = req[r].cus]
  /\ Goto(r, "charge")
  /\ UNCHANGED <<initiative, pi, donations, events>>
  /\ UNCHANGED hookVars

(* Stripe creates and confirms the intent.  The answer reaches the request *)
(* ("insert"), or is an error, a decline or a timeout ("failed").          *)
Charge(r, outcome, lost) ==
  LET p == Input[r].key IN
  /\ req[r].pc = "charge"
  /\ pi[p].status = "absent"
  /\ pi' = [pi EXCEPT ![p] = [status |-> outcome,
                              challenged |-> outcome = "requires_action",
                              by |-> r, cus |-> req[r].cus]]
  /\ events' = events \cup
       (CASE outcome = "succeeded" -> {Succeeded(p)}
          [] outcome = "declined"  -> {Failed(p)}
          [] OTHER                 -> {})
  /\ Goto(r, IF outcome = "declined" \/ lost THEN "failed" ELSE "insert")
  /\ UNCHANGED <<initiative, customerID, donations>>
  /\ UNCHANGED hookVars

(* The key was used before: Stripe answers with the stored response, or    *)
(* refuses the key when the parameters differ.                             *)
ReplayCharge(r) ==
  LET p == Input[r].key IN
  /\ req[r].pc = "charge"
  /\ pi[p].status # "absent"
  /\ Goto(r, IF SameParameters(r, p) /\ pi[p].status # "declined"
               THEN "insert" ELSE "failed")
  /\ UNCHANGED <<initiative, customerID, pi, donations, events>>
  /\ UNCHANGED hookVars

(* The row is always stored as pending, whatever Stripe answered.          *)
NewRow_IntentStatus(r) == \* faulty: stores the answered status
  [pi |-> Input[r].key,
   status |-> IF pi[Input[r].key].status = "succeeded" THEN "succeeded"
                                                       ELSE "pending",
   org |-> Input[r].org, sfid |-> None]

NewRow(r) == [pi |-> Input[r].key, status |-> "pending",
              org |-> Input[r].org, sfid |-> None]

(* The unique index on stripe_payment_intent_id (migration 012).           *)
Conflict_NoIndex(p) == FALSE \* faulty: the table before migration 012
Conflict(p) == Recorded(p)

Insert_DoUpdate(r) == \* faulty: ON CONFLICT DO UPDATE SET status = $10
  LET p == Input[r].key IN
  /\ req[r].pc = "insert"
  /\ donations' = IF Conflict(p)
                    THEN [q \in Requests |->
                            IF q \in RowsOf(p)
                              THEN [donations[q] EXCEPT !.status = "pending"]
                              ELSE donations[q]]
                    ELSE [donations EXCEPT ![r] = NewRow(r)]
  /\ Goto(r, IF Input[r].org THEN "lookup" ELSE "done")
  /\ UNCHANGED <<initiative, customerID, pi, events>>
  /\ UNCHANGED hookVars

(* INSERT ... ON CONFLICT DO NOTHING, and the SELECT of the row that won.  *)
(* The response leaves here; the b2b_org lookup goes on in the background  *)
(* when the row has an org domain.                                         *)
Insert(r) ==
  /\ req[r].pc = "insert"
  /\ donations' = IF Conflict(Input[r].key) THEN donations
                  ELSE [donations EXCEPT ![r] = NewRow(r)]
  /\ Goto(r, IF Input[r].org THEN "lookup" ELSE "done")
  /\ UNCHANGED <<initiative, customerID, pi, events>>
  /\ UNCHANGED hookVars

(* A failed read, call or write ends the request where it stands. *)
Abort(r) ==
  /\ req[r].pc \in {"start", "customer", "persist", "charge", "insert"}
  /\ Goto(r, "failed")
  /\ UNCHANGED <<initiative, customerID, pi, donations, events>>
  /\ UNCHANGED hookVars

(* SetB2BOrgSFID: WHERE id = ... AND b2b_org_sfid IS NULL *)
WithSFID_Overwrites(d, s) == [d EXCEPT !.sfid = s] \* faulty: no IS NULL
WithSFID(d, s) == IF d.sfid = None THEN [d EXCEPT !.sfid = s] ELSE d

(* The background lookup finds s and stores it on the row it was given ... *)
Lookup(r, s) ==
  /\ req[r].pc = "lookup"
  /\ donations' = [q \in Requests |->
                     IF q \in RowsOf(Input[r].key)
                       THEN WithSFID(donations[q], s) ELSE donations[q]]
  /\ Goto(r, "done")
  /\ UNCHANGED <<initiative, customerID, pi, events>>
  /\ UNCHANGED hookVars

(* ... or finds no match, or fails; nothing waits for it. *)
LookupMiss(r) ==
  /\ req[r].pc = "lookup"
  /\ Goto(r, "done")
  /\ UNCHANGED <<initiative, customerID, pi, donations, events>>
  /\ UNCHANGED hookVars

-----------------------------------------------------------------------------
(* Outside the request *)

(* The donor's browser answers the 3DS challenge.  It holds the client     *)
(* secret only once a request with this key has been answered.  A failed   *)
(* challenge can be tried again with the same intent; a second failure     *)
(* repeats the event, which redelivery already allows.                     *)
Confirm(p, ok) ==
  /\ \E r \in Requests : Input[r].key = p /\ req[r].pc \in {"lookup", "done"}
  /\ pi[p].status = "requires_action" \/ (pi[p].status = "failed" /\ ok)
  /\ pi' = [pi EXCEPT ![p].status = IF ok THEN "succeeded" ELSE "failed"]
  /\ events' = events \cup {IF ok THEN Succeeded(p) ELSE Failed(p)}
  /\ UNCHANGED donations /\ UNCHANGED requestVars /\ UNCHANGED hookVars

(* A charge another backend made on the same Stripe account: LFF (v1) or,  *)
(* in development, another instance of this one (v2).  No row will follow. *)
ForeignCharge(p) ==
  /\ p \notin Keys /\ pi[p].status = "absent"
  /\ pi' = [pi EXCEPT ![p].status = "succeeded"]
  /\ events' = events \cup {Succeeded(p)}
  /\ UNCHANGED donations /\ UNCHANGED requestVars /\ UNCHANGED hookVars

(* cmd/b2b-org-backfill: one resolved domain, every row still without SFID *)
Backfill(s) ==
  /\ donations' = [r \in Requests |->
                     IF donations[r] # None /\ donations[r].org
                       THEN WithSFID(donations[r], s) ELSE donations[r]]
  /\ UNCHANGED <<pi, events>> /\ UNCHANGED requestVars /\ UNCHANGED hookVars

(* The owner or an approver changes the initiative. *)
EditInitiative ==
  /\ initiative' \in Initiatives
  /\ UNCHANGED <<req, customerID, pi, donations, events>>
  /\ UNCHANGED hookVars

-----------------------------------------------------------------------------
(* WebhookHandler *)

Target_EventType(e) == e.type \* faulty: stores Stripe's name
Target_Swapped(e) == IF e.type = "payment_intent.succeeded" THEN "failed"
                                                            ELSE "succeeded"
Target(e) == IF e.type = "payment_intent.succeeded" THEN "succeeded"
                                                    ELSE "failed"

(* The rows UPDATE ... WHERE status IS DISTINCT FROM $2 changes. *)
Updatable_Always(e) == RowsOf(e.pi) \* faulty: no status guard
Updatable_Success(e) == \* faulty: payment_failed falls through the switch
  {r \in RowsOf(e.pi) : Target(e) = "succeeded" /\ donations[r].status = "pending"}
Updatable(e) == {r \in RowsOf(e.pi) : donations[r].status # Target(e)}

(* The UPDATE of UpdateByPaymentIntentID changes the row and returns its   *)
(* SFID.  A failure, a v1 charge or one without donor ends here.           *)
HookUpdate(w, e) ==
  /\ hook[w].pc = "idle" /\ e \in events
  /\ Updatable(e) # {}
  /\ donations' = [r \in Requests |->
                     IF r \in Updatable(e)
                       THEN [donations[r] EXCEPT !.status = Target(e)]
                       ELSE donations[r]]
  /\ IF Target(e) = "succeeded" /\ Postable(e.pi)
       THEN /\ \E r \in Updatable(e) :
                 hook' = [hook EXCEPT ![w] =
                            [pc |-> "ledger", ev |-> e,
                             sfid |-> donations[r].sfid]]
            /\ acked' = acked
       ELSE hook' = hook /\ acked' = acked \cup {e}
  /\ UNCHANGED <<pi, events, ledger, receipts>> /\ UNCHANGED requestVars

(* The UPDATE changes nothing: SELECT EXISTS comes next. *)
HookNoUpdate(w, e) ==
  /\ hook[w].pc = "idle" /\ e \in events
  /\ Updatable(e) = {}
  /\ hook' = [hook EXCEPT ![w] = [pc |-> "exists", ev |-> e, sfid |-> None]]
  /\ UNCHANGED <<pi, events, donations, acked, ledger, receipts>>
  /\ UNCHANGED requestVars

(* The row exists: ErrAlreadyProcessed, acknowledged.  No row: a succeeded *)
(* v2 event within the race window is answered 500, any other 200.         *)
RetryMissing_Never(e, expired) == FALSE \* faulty: not-found is final
RetryMissing(e, expired) ==
  e.type = "payment_intent.succeeded" /\ IsV2(e.pi) /\ ~expired

HookExists(w) ==
  LET e == hook[w].ev IN
  /\ hook[w].pc = "exists"
  /\ \E expired \in IF RaceWindow THEN BOOLEAN ELSE {FALSE} :
       acked' = IF ~Recorded(e.pi) /\ RetryMissing(e, expired)
                  THEN acked ELSE acked \cup {e}
  /\ hook' = [hook EXCEPT ![w] = Idle]
  /\ UNCHANGED <<pi, events, donations, ledger, receipts>>
  /\ UNCHANGED requestVars

(* PostTransaction is best effort; the Ledger keeps one entry per charge.  *)
HookLedger(w, ok) ==
  LET e == hook[w].ev IN
  /\ hook[w].pc = "ledger"
  /\ ledger' = IF ok /\ ~\E t \in ledger : t.pi = e.pi
                 THEN ledger \cup {[pi |-> e.pi, sfid |-> hook[w].sfid]}
                 ELSE ledger
  /\ hook' = [hook EXCEPT ![w].pc = "email"]
  /\ UNCHANGED <<pi, events, donations, acked, receipts>>
  /\ UNCHANGED requestVars

(* The mails are best effort too; the 200 follows. *)
HookEmail(w, ok) ==
  LET e == hook[w].ev IN
  /\ hook[w].pc = "email"
  /\ receipts' = IF ok /\ receipts[e.pi] < MaxReceipts
                   THEN [receipts EXCEPT ![e.pi] = @ + 1] ELSE receipts
  /\ acked' = acked \cup {e}
  /\ hook' = [hook EXCEPT ![w] = Idle]
  /\ UNCHANGED <<pi, events, donations, ledger>> /\ UNCHANGED requestVars

(* The process dies, the connection breaks or a statement fails. *)
HookCrash(w) ==
  /\ hook[w].pc # "idle"
  /\ hook' = [hook EXCEPT ![w] = Idle]
  /\ UNCHANGED <<pi, events, donations, acked, ledger, receipts>>
  /\ UNCHANGED requestVars

-----------------------------------------------------------------------------
Create(r) ==
  \/ Load(r) \/ CreateCustomer(r) \/ PersistCustomer(r)
  \/ \E outcome \in {"succeeded", "requires_action", "declined"},
        lost \in BOOLEAN : Charge(r, outcome, lost)
  \/ ReplayCharge(r) \/ Insert(r) \/ Abort(r)
  \/ \E s \in SFIDs : Lookup(r, s)
  \/ LookupMiss(r)

Environment ==
  \/ \E p \in Intents, ok \in BOOLEAN : Confirm(p, ok)
  \/ \E p \in Intents : ForeignCharge(p)
  \/ \E s \in SFIDs : Backfill(s)
  \/ EditInitiative

Deliver(w, e) == HookUpdate(w, e) \/ HookNoUpdate(w, e)
Proceed(w)    == \/ HookExists(w)
                 \/ \E ok \in BOOLEAN : HookLedger(w, ok)
                 \/ \E ok \in BOOLEAN : HookEmail(w, ok)

Webhook(w) ==
  \/ \E e \in events : Deliver(w, e)
  \/ Proceed(w)
  \/ HookCrash(w)

Next ==
  \/ \E r \in Requests : Create(r)
  \/ Environment
  \/ \E w \in Workers : Webhook(w)

Spec == Init /\ [][Next]_vars

(* Stripe keeps delivering an unacknowledged event, and a running handler  *)
(* goes on unless it crashes.  Requests and donors promise nothing.        *)
Redelivery ==
  /\ \A e \in Events :
       SF_vars(\E w \in Workers : e \notin acked /\ Deliver(w, e))
  /\ \A w \in Workers : WF_vars(Proceed(w))

FairSpec == Spec /\ Redelivery
-----------------------------------------------------------------------------
(* Properties *)

(* A PaymentIntent has at most one donation row, however requests that     *)
(* share an idempotency key interleave (donation_repository.go Create,     *)
(* migration 012).                                                         *)
OneRowPerIntent ==
  \A q, r \in Requests :
    /\ donations[q] # None /\ donations[r] # None
    /\ donations[q].pi = donations[r].pi
    => q = r

(* A row says succeeded only when Stripe took the money and failed only    *)
(* when an attempt failed.                                                 *)
SettledTruthfully ==
  \A r \in Requests : donations[r] # None =>
    /\ donations[r].status = "succeeded" =>
         pi[donations[r].pi].status = "succeeded"
    /\ donations[r].status = "failed" => Failed(donations[r].pi) \in events

(* What reached the Ledger was captured, is recorded, and names either no  *)
(* Salesforce organization or the one the row carries; a receipt went out  *)
(* only for such money of a donor Stripe's metadata names.                 *)
LedgerMatchesRow ==
  /\ \A t \in ledger :
       /\ pi[t.pi].status = "succeeded"
       /\ Recorded(t.pi)
       /\ \A r \in RowsOf(t.pi) : t.sfid \in {None, donations[r].sfid}
  /\ \A p \in Intents : receipts[p] > 0 =>
       /\ Recorded(p) /\ pi[p].status = "succeeded" /\ p \notin LegacyIntents
       /\ pi[p].by # None => Input[pi[p].by].user \notin StubUsers

(* The donor is thanked once: redeliveries, crashes and concurrent         *)
(* deliveries repeat no receipt (domain/errors.go 28-32) unless a failure  *)
(* of the same intent was reported in between.                             *)
ReceiptNotRepeated ==
  \A p \in Intents : receipts[p] > 1 => Failed(p) \in events

(* Without a race window, captured v2 money is never forgotten: its event  *)
(* is acknowledged only once the row is there (webhook_handler.go 169-184).*)
AckedSuccessHasRow ==
  ~RaceWindow => \A p \in Intents :
    Succeeded(p) \in acked /\ IsV2(p) => Recorded(p)

(* The verdict of a 3DS challenge, and every failure, is in the row before *)
(* Stripe stops delivering it.                                             *)
AckedVerdictRecorded ==
  \A e \in acked :
    pi[e.pi].challenged \/ e = Failed(e.pi) =>
      \A r \in RowsOf(e.pi) : donations[r].status # "pending"

(* A row is never removed, never returns to pending, never moves to        *)
(* another intent, and keeps the first SFID stored in it, whatever is      *)
(* replayed (SetB2BOrgSFID: "An SFID already stored is kept").             *)
RowNeverRewritten ==
  [][\A r \in Requests : donations[r] # None =>
       /\ donations'[r] # None
       /\ donations'[r].pi = donations[r].pi
       /\ donations[r].status # "pending" => donations'[r].status # "pending"
       /\ donations[r].sfid # None => donations'[r].sfid = donations[r].sfid
    ]_donations

(* The strengthening of the invariants above that every step preserves;    *)
(* Donations_proofs proves it.                                             *)
RowKeys ==
  \A r \in Requests : donations[r] # None => donations[r].pi = Input[r].key

RowFacts ==
  \A r \in Requests : donations[r] # None =>
    pi[Input[r].key].status \notin {"absent", "declined"}

RequestFacts ==
  \A r \in Requests :
    LET p == Input[r].key IN
    /\ req[r].pc \in {"insert", "lookup", "done"} =>
         pi[p].status \notin {"absent", "declined"}
    /\ req[r].pc \in {"lookup", "done"} => Recorded(p)

EventFacts ==
  \A p \in Intents :
    /\ Succeeded(p) \in events => pi[p].status = "succeeded"
    /\ Failed(p) \in events => pi[p].status \notin {"absent", "requires_action"}
    /\ Failed(p) \in events => pi[p].status = "declined" \/ pi[p].challenged
    /\ pi[p].challenged /\ (Succeeded(p) \in events \/ Failed(p) \in events)
         => Recorded(p)
    /\ pi[p].status \in {"requires_action", "failed"} => pi[p].challenged
    /\ pi[p].status = "absent" => ~pi[p].challenged

HookFacts ==
  \A w \in Workers : hook[w].pc # "idle" =>
    LET e == hook[w].ev IN
    /\ e \in events
    /\ hook[w].pc = "exists" /\ (pi[e.pi].challenged \/ e = Failed(e.pi)) =>
         \A r \in RowsOf(e.pi) : donations[r].status # "pending"
    /\ hook[w].pc \in {"ledger", "email"} =>
         /\ e = Succeeded(e.pi)
         /\ Recorded(e.pi) /\ Postable(e.pi)
         /\ \A r \in RowsOf(e.pi) :
              /\ donations[r].status # "pending"
              /\ hook[w].sfid \in {None, donations[r].sfid}

AckFacts == acked \subseteq events

Inductive == RowKeys /\ AckFacts /\ RowFacts /\ RequestFacts /\ EventFacts /\ HookFacts

(* A recorded donation that waited for a 3DS challenge leaves pending once *)
(* the challenge is decided ("the webhook advances the status").           *)
ChallengeSettles ==
  \A p \in Intents :
    (/\ pi[p].challenged /\ Recorded(p)
     /\ pi[p].status \in {"succeeded", "failed"})
    ~> (\A r \in RowsOf(p) : donations[r].status # "pending")

(* The service keeps the donation book. *)
BookOf(p) == IF Recorded(p) THEN donations[CHOOSE r \in RowsOf(p) : TRUE].status
                            ELSE "none"

Book == INSTANCE DonationBook WITH
  opened   <- {p \in Intents : pi[p].status # "absent"},
  captured <- {p \in Intents : pi[p].status = "succeeded"},
  refused  <- {p \in Intents : Failed(p) \in events},
  record   <- [p \in Intents |-> BookOf(p)],
  booked   <- {t.pi : t \in ledger}

ImplementsBook == Book!Spec

-----------------------------------------------------------------------------
(* A statement of the repository's documents that the code does not keep:  *)
(* a run finds it violated.                                                *)

(* docs/rewrite/stripe_api_integration.md, donation state machine:         *)
(* succeeded is a final state.                                             *)
SucceededIsFinal ==
  [][\A r \in Requests :
       donations[r] # None /\ donations[r].status = "succeeded" =>
         donations'[r].status = "succeeded"]_donations
=============================================================================
