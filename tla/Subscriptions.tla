---------------------------- MODULE Subscriptions ----------------------------
(***************************************************************************)
(* Recurring donations to one initiative: the request that creates the     *)
(* Stripe subscription (service/subscription_service.go), its rows         *)
(* (infrastructure/db/subscription_repository.go), the webhook events that *)
(* advance them (handler/webhook_handler.go), the donor's cancellation and *)
(* the pass that cancels every subscription before an initiative is hidden *)
(* (service/initiative_service.go).                                        *)
(*                                                                         *)
(* Every external call and every SQL statement is one atomic step.  Stripe *)
(* delivers an event until it is acknowledged, may deliver it again        *)
(* afterwards, and orders nothing.  The b2b_org lookup that follows the    *)
(* insert is not part of this module.                                      *)
(***************************************************************************)
EXTENDS Naturals, FiniteSets, Sequences

CONSTANTS
  Requests,      \* POST .../subscriptions requests
  Subs,          \* Stripe subscriptions; one idempotency key names one
  Users,         \* donors with a row in users
  Customer0,     \* the customer a user has before any request, or None
  Workers,       \* concurrent executions of the webhook handler
  Initiatives,   \* the states the initiative can be in at the start
  Input,         \* the body of each request
  PageSize,      \* rows in a page of ListByInitiative (100 in the code)
  MaxInvoices,   \* invoices Stripe raises for a subscription
  Parties,       \* who cancels: "donor", "closer" or both
  None           \* no customer, no row, no event

ASSUME SubscriptionConstants ==
  /\ Input \in [Requests -> [key : Subs, user : Users]]
  /\ Customer0 \notin Requests /\ None \notin Requests
  /\ Initiatives \subseteq [status : {"published", "hidden"}, acceptFunding : BOOLEAN,
                             product : {"none", "stale", "live"}]
  /\ Parties \subseteq {"donor", "closer"}
  /\ PageSize \in Nat \ {0} /\ MaxInvoices \in Nat \ {0}

VARIABLES
  initiative,  \* the initiative's row: status, acceptFunding, product
  req,         \* control state of each request, and the customer it uses
  customerID,  \* users.stripe_customer_id
  stripe,      \* Stripe's subscriptions
  rows,        \* the subscriptions table, by the request that inserted it
  order,       \* the rows in the order of created_on, newest first
  events,      \* webhook events Stripe has emitted
  acked,       \* events answered with 200
  hook,        \* control state of each webhook execution
  mailed,      \* paid invoices whose receipt was attempted
  marking,     \* cancellations that Stripe accepted and the row lacks
  closer       \* the pass that hides the initiative

vars == <<initiative, req, customerID, stripe, rows, order, events, acked,
          hook, mailed, marking, closer>>

tableVars   == <<rows, order>>
requestVars == <<req, customerID>>
hookVars    == <<acked, hook, mailed>>
cancelVars  == <<marking, closer>>

(* invoice.payment_succeeded, invoice.payment_failed, and the two events   *)
(* that say the subscription ended.                                        *)
Events      == [sub : Subs, type : {"paid", "failed", "canceled"},
                n : 0..MaxInvoices]
Paid(s, n)   == [sub |-> s, type |-> "paid", n |-> n]
Failed(s, n) == [sub |-> s, type |-> "failed", n |-> n]
Canceled(s)  == [sub |-> s, type |-> "canceled", n |-> 0]

RowStatuses == {"incomplete", "active", "past_due", "canceled"}
Rows        == [status : RowStatuses, paid : BOOLEAN]
Terminal    == {"canceled", "incomplete_expired"}
Live        == {"incomplete", "active", "past_due"}
StripeState == [status : {"absent"} \cup Live \cup Terminal,
                created : {"none", "incomplete", "active"},
                by : Requests \cup {None},
                cus : Requests \cup {Customer0, None},
                n : 0..MaxInvoices]

ASSUME NoneIsNoRow == None \notin Rows

Idle     == [pc |-> "idle", ev |-> None]
Resting  == [pc |-> "idle", offset |-> 0, full |-> FALSE, todo |-> {},
             start |-> {}]

(* One type invariant for the module. *)
TypeOK ==
  /\ initiative \in [status : {"published", "hidden"}, acceptFunding : BOOLEAN,
                     product : {"none", "stale", "live"}]
  /\ req \in [Requests ->
       [pc : {"start", "customer", "persist", "price", "heal", "subscribe",
              "insert", "done", "failed"},
        cus : Requests \cup {Customer0, None}]]
  /\ customerID \in [Users -> Requests \cup {Customer0, None}]
  /\ stripe \in [Subs -> StripeState]
  /\ rows \in [Requests -> Rows \cup {None}]
  /\ order \in Seq(Requests)
  /\ events \subseteq Events /\ acked \subseteq events /\ mailed \subseteq events
  /\ hook \in [Workers -> [pc : {"status", "email"}, ev : Events] \cup {Idle}]
  /\ marking \subseteq Parties \X Requests
  /\ closer \in [pc : {"idle", "list", "cancel", "write"}, offset : Nat,
                 full : BOOLEAN, todo : SUBSET Requests, start : SUBSET Requests]

-----------------------------------------------------------------------------
(* Derived views of the tables. *)

Key(r)      == Input[r].key
RowsOf(s)   == {r \in Requests : rows[r] # None /\ Key(r) = s}
NonTerminal(u) == {r \in Requests : /\ rows[r] # None
                                    /\ Input[r].user = u
                                    /\ rows[r].status # "canceled"}

(* Stripe compares the body of a repeated key: it carries the customer.    *)
SameParameters(r, s) ==
  stripe[s].by # None /\ stripe[s].cus = req[r].cus
                      /\ Input[stripe[s].by] = Input[r]

Eligible(i) == i.status = "published" /\ i.acceptFunding /\ i.product # "none"

Init ==
  /\ initiative \in Initiatives
  /\ req = [r \in Requests |-> [pc |-> "start", cus |-> None]]
  /\ customerID = [u \in Users |-> Customer0]
  /\ stripe = [s \in Subs |-> [status |-> "absent", created |-> "none",
                               by |-> None, cus |-> None, n |-> 0]]
  /\ rows = [r \in Requests |-> None] /\ order = <<>>
  /\ events = {} /\ acked = {} /\ mailed = {}
  /\ hook = [w \in Workers |-> Idle]
  /\ marking = {} /\ closer = Resting

-----------------------------------------------------------------------------
(* SubscriptionService.Create *)

Goto(r, pc) == req' = [req EXCEPT ![r].pc = pc]

(* The reads: the initiative, the user, and no other non-terminal row of   *)
(* this user (GetActiveByUserAndInitiative).                               *)
NoOther(u) == NonTerminal(u) = {}

Load(r) ==
  LET cus == customerID[Input[r].user] IN
  /\ req[r].pc = "start"
  /\ Eligible(initiative)
  /\ NoOther(Input[r].user)
  /\ req' = [req EXCEPT ![r] = [pc |-> IF cus = None THEN "customer" ELSE "price",
                                cus |-> cus]]
  /\ UNCHANGED <<initiative, customerID, stripe, events>>
  /\ UNCHANGED tableVars /\ UNCHANGED hookVars /\ UNCHANGED cancelVars

CreateCustomer(r) ==
  /\ req[r].pc = "customer"
  /\ req' = [req EXCEPT ![r] = [pc |-> "persist", cus |-> r]]
  /\ UNCHANGED <<initiative, customerID, stripe, events>>
  /\ UNCHANGED tableVars /\ UNCHANGED hookVars /\ UNCHANGED cancelVars

PersistCustomer(r) ==
  /\ req[r].pc = "persist"
  /\ customerID' = [customerID EXCEPT ![Input[r].user] = req[r].cus]
  /\ Goto(r, "price")
  /\ UNCHANGED <<initiative, stripe, events>>
  /\ UNCHANGED tableVars /\ UNCHANGED hookVars /\ UNCHANGED cancelVars

(* The price hangs on the product the request read.  A product Stripe no   *)
(* longer has is replaced, stored (UpdateStripeProductID) and tried again. *)
Price(r) ==
  /\ req[r].pc = "price"
  /\ Goto(r, IF initiative.product = "live" THEN "subscribe" ELSE "heal")
  /\ UNCHANGED <<initiative, customerID, stripe, events>>
  /\ UNCHANGED tableVars /\ UNCHANGED hookVars /\ UNCHANGED cancelVars

Heal(r) ==
  /\ req[r].pc = "heal"
  /\ initiative' = [initiative EXCEPT !.product = "live"]
  /\ Goto(r, "subscribe")
  /\ UNCHANGED <<customerID, stripe, events>>
  /\ UNCHANGED tableVars /\ UNCHANGED hookVars /\ UNCHANGED cancelVars

(* default_incomplete: the subscription is incomplete while its first      *)
(* invoice awaits the donor, or is paid and active at once.  The answer    *)
(* may be lost.                                                            *)
Subscribe(r, outcome, lost) ==
  LET s == Key(r) IN
  /\ req[r].pc = "subscribe"
  /\ stripe[s].status = "absent"
  /\ stripe' = [stripe EXCEPT ![s] =
                  [status |-> outcome, created |-> outcome,
                   by |-> r, cus |-> req[r].cus, n |-> 1]]
  /\ events' = IF outcome = "active" THEN events \cup {Paid(s, 1)} ELSE events
  /\ Goto(r, IF lost THEN "failed" ELSE "insert")
  /\ UNCHANGED <<initiative, customerID>>
  /\ UNCHANGED tableVars /\ UNCHANGED hookVars /\ UNCHANGED cancelVars

(* A repeated key is answered with the response of the first call.         *)
ReplaySubscribe(r) ==
  /\ req[r].pc = "subscribe"
  /\ stripe[Key(r)].status # "absent"
  /\ Goto(r, IF SameParameters(r, Key(r)) THEN "insert" ELSE "failed")
  /\ UNCHANGED <<initiative, customerID, stripe, events>>
  /\ UNCHANGED tableVars /\ UNCHANGED hookVars /\ UNCHANGED cancelVars

(* The row takes the status of that response, and first_paid_at when it    *)
(* was active: the webhook may have come and gone.                         *)
NewRow_Unstamped(r) == \* faulty: first_paid_at is left to the webhook
  [status |-> stripe[Key(r)].created, paid |-> FALSE]
NewRow(r) == [status |-> stripe[Key(r)].created,
              paid |-> stripe[Key(r)].created = "active"]

(* No unique index: every request that gets here inserts a row. *)
Insert(r) ==
  /\ req[r].pc = "insert"
  /\ rows' = [rows EXCEPT ![r] = NewRow(r)]
  /\ order' = <<r>> \o order
  /\ Goto(r, "done")
  /\ UNCHANGED <<initiative, customerID, stripe, events>>
  /\ UNCHANGED hookVars /\ UNCHANGED cancelVars

(* A failed read, call or write ends the request where it stands. *)
Abort(r) ==
  /\ req[r].pc \notin {"done", "failed"}
  /\ Goto(r, "failed")
  /\ UNCHANGED <<initiative, customerID, stripe, events>>
  /\ UNCHANGED tableVars /\ UNCHANGED hookVars /\ UNCHANGED cancelVars

-----------------------------------------------------------------------------
(* Stripe *)

Bill(s, status, n, e) ==
  /\ stripe' = [stripe EXCEPT ![s].status = status, ![s].n = n]
  /\ events' = events \cup e
  /\ UNCHANGED <<initiative, customerID, req>>
  /\ UNCHANGED tableVars /\ UNCHANGED hookVars /\ UNCHANGED cancelVars

(* The donor confirms the first invoice with the client secret an answered *)
(* request carried, fails to, or lets the subscription expire after 23     *)
(* hours, when the request that created it is long over.  Whether an       *)
(* expiry sets canceled_at is Stripe's choice.                             *)
SecretIsOut(s) == \E r \in Requests : Key(r) = s /\ req[r].pc = "done"

PayFirst(s) ==
  /\ stripe[s].status = "incomplete" /\ SecretIsOut(s)
  /\ Bill(s, "active", 1, {Paid(s, 1)})

DeclineFirst(s) ==
  /\ stripe[s].status = "incomplete" /\ SecretIsOut(s)
  /\ Bill(s, "incomplete", 1, {Failed(s, 1)})

ExpireFirst(s) ==
  /\ stripe[s].status = "incomplete" /\ req[stripe[s].by].pc # "insert"
  /\ \E dated \in BOOLEAN :
       Bill(s, "incomplete_expired", 1, IF dated THEN {Canceled(s)} ELSE {})

Renew(s) ==
  /\ stripe[s].status = "active" /\ stripe[s].n < MaxInvoices
  /\ LET n == stripe[s].n + 1 IN
       \/ Bill(s, "active", n, {Paid(s, n)})
       \/ Bill(s, "past_due", n, {Failed(s, n)})

Collect(s) ==
  /\ stripe[s].status = "past_due"
  /\ Bill(s, "active", stripe[s].n, {Paid(s, stripe[s].n)})

(* Retries are exhausted, or someone cancels in the dashboard. *)
GiveUp(s) ==
  /\ stripe[s].status \in Live
  /\ Bill(s, "canceled", stripe[s].n, {Canceled(s)})

-----------------------------------------------------------------------------
(* Cancellations of this service *)

(* CancelSubscription: the answers Stripe can give. *)
Answer(s) == CASE stripe[s].status \in Live      -> "ok"
               [] stripe[s].status = "canceled"  -> "missing"
               [] OTHER                          -> "expired"

(* isStripeSubscriptionMissing and isStripeSubscriptionGone. *)
Tolerated_AnyError(party, a) == TRUE \* faulty: every error counts as gone
Tolerated(party, a) ==
  a \in {"ok", "missing"} \cup (IF party = "closer" THEN {"expired"} ELSE {})

CancelAtStripe(s) ==
  IF Answer(s) = "ok"
    THEN /\ stripe' = [stripe EXCEPT ![s].status = "canceled"]
         /\ events' = events \cup {Canceled(s)}
    ELSE UNCHANGED <<stripe, events>>

(* The call of party for row r.  It is answered, or the answer is lost, or *)
(* the call never reaches Stripe; only an answer can be tolerated.         *)
Fates == {"answered", "lost", "unreached"}
Heard(s, fate) == IF fate = "answered" THEN Answer(s) ELSE "error"

CallCancel(party, r, fate) ==
  /\ IF fate = "unreached" THEN UNCHANGED <<stripe, events>>
                           ELSE CancelAtStripe(Key(r))
  /\ UNCHANGED <<initiative, acked, hook, mailed>>
  /\ UNCHANGED requestVars /\ UNCHANGED tableVars

(* SubscriptionService.Cancel, first half. *)
Cancel(r, fate) ==
  /\ "donor" \in Parties
  /\ rows[r] # None
  /\ CallCancel("donor", r, fate)
  /\ marking' = IF Tolerated("donor", Heard(Key(r), fate))
                  THEN marking \cup {<<"donor", r>>} ELSE marking
  /\ UNCHANGED closer

(* The second half, of the donor's call and of the pass: the row says      *)
(* canceled, whatever it says by now.                                      *)
Mark(party, r) ==
  /\ <<party, r>> \in marking
  /\ rows' = [rows EXCEPT ![r].status = "canceled"]
  /\ marking' = marking \ {<<party, r>>}
  /\ UNCHANGED <<initiative, stripe, order, events, closer>>
  /\ UNCHANGED requestVars /\ UNCHANGED hookVars

(* The donor's request dies, or its UPDATE fails. *)
Unmarked(r) ==
  /\ <<"donor", r>> \in marking
  /\ marking' = marking \ {<<"donor", r>>}
  /\ UNCHANGED <<initiative, stripe, events, closer>>
  /\ UNCHANGED requestVars /\ UNCHANGED tableVars /\ UNCHANGED hookVars

-----------------------------------------------------------------------------
(* InitiativeService.Update to hidden: cancelInitiativeSubscriptions, then *)
(* the status write.                                                       *)

CloserMarks == {m \in marking : m[1] = "closer"}

Pass(c, m) ==
  /\ closer' = c /\ marking' = m
  /\ UNCHANGED <<acked, hook, mailed>> /\ UNCHANGED requestVars
  /\ UNCHANGED tableVars

CloseStart ==
  /\ "closer" \in Parties
  /\ closer.pc = "idle" /\ initiative.status = "published"
  /\ Pass([Resting EXCEPT !.pc = "list",
                          !.start = {r \in Requests : rows[r] # None}], marking)
  /\ UNCHANGED <<initiative, stripe, events>>

(* ListByInitiative with Limit and Offset, newest row first. *)
Listed_Filtered == \* faulty: a status filter, so offsets shift
  SelectSeq(order, LAMBDA r : rows[r].status # "canceled")
Listed == order
Page == {Listed[i] : i \in {j \in DOMAIN Listed :
                              closer.offset < j /\ j <= closer.offset + PageSize}}

CloseList ==
  /\ closer.pc = "list"
  /\ Pass([closer EXCEPT !.pc = "cancel", !.full = Cardinality(Page) = PageSize,
                         !.todo = {r \in Page : rows[r].status # "canceled"}],
          marking)
  /\ UNCHANGED <<initiative, stripe, events>>

(* One goroutine of the page; an error that is not tolerated ends the pass *)
(* and every cancellation it has not stored yet.                           *)
CloseCancel(r, fate) ==
  /\ closer.pc = "cancel" /\ r \in closer.todo
  /\ CallCancel("closer", r, fate)
  /\ IF Tolerated("closer", Heard(Key(r), fate))
       THEN /\ closer' = [closer EXCEPT !.todo = @ \ {r}]
            /\ marking' = marking \cup {<<"closer", r>>}
       ELSE closer' = Resting /\ marking' = marking \ CloserMarks

(* The page is done; a full page has a successor. *)
CloseJoin ==
  /\ closer.pc = "cancel" /\ closer.todo = {} /\ CloserMarks = {}
  /\ Pass(IF closer.full
            THEN [closer EXCEPT !.pc = "list", !.offset = @ + PageSize]
            ELSE [closer EXCEPT !.pc = "write"], marking)
  /\ UNCHANGED <<initiative, stripe, events>>

CloseWrite ==
  /\ closer.pc = "write"
  /\ initiative' = [initiative EXCEPT !.status = "hidden"]
  /\ Pass(Resting, marking)
  /\ UNCHANGED <<stripe, events>>

(* A list, a mark or the write fails, or the process dies. *)
CloseFail ==
  /\ closer.pc # "idle"
  /\ Pass(Resting, marking \ CloserMarks)
  /\ UNCHANGED <<initiative, stripe, events>>

Reopen ==
  /\ initiative.status = "hidden"
  /\ initiative' = [initiative EXCEPT !.status = "published"]
  /\ Pass(closer, marking)
  /\ UNCHANGED <<stripe, events>>

-----------------------------------------------------------------------------
(* WebhookHandler *)

Target_StripeStatus(e) == \* faulty: an ended subscription keeps Stripe's word
  CASE e.type = "paid"   -> "active"
    [] e.type = "failed" -> "past_due"
    [] OTHER             -> stripe[e.sub].status
Target_BackToIncomplete(e) == \* faulty: a failed renewal is incomplete again
  CASE e.type = "paid"   -> "active"
    [] e.type = "failed" -> "incomplete"
    [] OTHER             -> "canceled"
Target(e) == CASE e.type = "paid"   -> "active"
               [] e.type = "failed" -> "past_due"
               [] OTHER             -> "canceled"

(* billing_reason subscription_create: the subscription is incomplete and  *)
(* stays so.                                                               *)
Ignored_Nothing(e) == FALSE \* faulty: the first invoice counts as a renewal
Ignored(e) == e.type = "failed" /\ e.n = 1

Updatable_FromActive(e) == \* faulty: only an active row can end
  {r \in RowsOf(e.sub) : rows[r].status # Target(e) /\
     (e.type = "canceled" => rows[r].status = "active")}
Updatable(e) == {r \in RowsOf(e.sub) : rows[r].status # Target(e)}

Handler(w, h, a) ==
  /\ hook' = [hook EXCEPT ![w] = h] /\ acked' = a
  /\ UNCHANGED <<initiative, stripe, order, events>>
  /\ UNCHANGED requestVars /\ UNCHANGED cancelVars

HookIgnore(w, e) ==
  /\ hook[w].pc = "idle" /\ e \in events /\ Ignored(e)
  /\ Handler(w, Idle, acked \cup {e}) /\ UNCHANGED <<rows, mailed>>

(* Active means an invoice was paid: first_paid_at is stamped before, and  *)
(* apart from, the status.                                                 *)
HookStamp(w, e) ==
  /\ hook[w].pc = "idle" /\ e \in events /\ e.type = "paid"
  /\ rows' = [r \in Requests |-> IF r \in RowsOf(e.sub)
                 THEN [rows[r] EXCEPT !.paid = TRUE] ELSE rows[r]]
  /\ Handler(w, [pc |-> "status", ev |-> e], acked) /\ UNCHANGED mailed

(* Rows that change lead to the mails when an invoice was paid.  No change *)
(* is acknowledged, whether the rows said so already or are missing.       *)
SetStatus(w, e) ==
  /\ rows' = [r \in Requests |-> IF r \in Updatable(e)
                 THEN [rows[r] EXCEPT !.status = Target(e)] ELSE rows[r]]
  /\ IF e.type = "paid" /\ Updatable(e) # {}
       THEN Handler(w, [pc |-> "email", ev |-> e], acked)
       ELSE Handler(w, Idle, acked \cup {e})
  /\ UNCHANGED mailed

HookPaid(w) == hook[w].pc = "status" /\ SetStatus(w, hook[w].ev)

HookOther(w, e) ==
  /\ hook[w].pc = "idle" /\ e \in events /\ e.type # "paid" /\ ~Ignored(e)
  /\ SetStatus(w, e)

(* The mails are best effort; the 200 follows. *)
HookEmail(w) ==
  /\ hook[w].pc = "email"
  /\ mailed' = mailed \cup {hook[w].ev}
  /\ Handler(w, Idle, acked \cup {hook[w].ev}) /\ UNCHANGED rows

HookCrash(w) ==
  /\ hook[w].pc # "idle"
  /\ Handler(w, Idle, acked) /\ UNCHANGED <<rows, mailed>>

-----------------------------------------------------------------------------
Create(r) ==
  \/ Load(r) \/ CreateCustomer(r) \/ PersistCustomer(r) \/ Price(r) \/ Heal(r)
  \/ \E outcome \in {"incomplete", "active"}, lost \in BOOLEAN :
       Subscribe(r, outcome, lost)
  \/ ReplaySubscribe(r) \/ Insert(r) \/ Abort(r)

Stripe(s) == \/ PayFirst(s) \/ DeclineFirst(s) \/ ExpireFirst(s)
             \/ Renew(s) \/ Collect(s) \/ GiveUp(s)

Donor == \E r \in Requests :
  \/ \E fate \in Fates : Cancel(r, fate)
  \/ Mark("donor", r) \/ Unmarked(r)

Closer ==
  \/ CloseStart \/ CloseList \/ CloseJoin \/ CloseWrite \/ CloseFail \/ Reopen
  \/ \E r \in Requests : Mark("closer", r) \/ \E fate \in Fates : CloseCancel(r, fate)

Deliver(w, e) == HookIgnore(w, e) \/ HookStamp(w, e) \/ HookOther(w, e)
Proceed(w)    == HookPaid(w) \/ HookEmail(w)

Webhook(w) == \/ \E e \in events : Deliver(w, e)
              \/ Proceed(w)
              \/ HookCrash(w)

Next ==
  \/ \E r \in Requests : Create(r)
  \/ \E s \in Subs : Stripe(s)
  \/ Donor \/ Closer
  \/ \E w \in Workers : Webhook(w)

Spec == Init /\ [][Next]_vars

(* Stripe keeps delivering an unacknowledged event, and a running handler  *)
(* goes on unless it crashes.                                              *)
Redelivery ==
  /\ \A e \in Events : SF_vars(\E w \in Workers : e \notin acked /\ Deliver(w, e))
  /\ \A w \in Workers : WF_vars(Proceed(w))

FairSpec == Spec /\ Redelivery

-----------------------------------------------------------------------------
(* Properties *)

(* What a row says is backed by what happened at Stripe: active by a paid  *)
(* invoice, past_due by a renewal that failed, canceled by a subscription  *)
(* that cannot bill again, first_paid_at by money.                         *)
Charged(s) == \E e \in events : e.sub = s /\ e.type = "paid"

StatusBackedByStripe ==
  \A r \in Requests : rows[r] # None =>
    LET s == Key(r) IN
    /\ rows[r].status = "canceled" => stripe[s].status \in Terminal
    /\ rows[r].status = "past_due" => \E n \in 2..MaxInvoices : Failed(s, n) \in events
    /\ rows[r].status = "active" \/ rows[r].paid => Charged(s)

(* A payment Stripe has stopped reporting is on record: some row of the    *)
(* subscription, if it has any, carries first_paid_at and is past          *)
(* incomplete, even when the webhook came before the insert                *)
(* (subscription_repository.go 335-336).                                   *)
PaymentRecorded ==
  \A e \in acked : e.type = "paid" /\ RowsOf(e.sub) # {} =>
    \E r \in RowsOf(e.sub) : rows[r].paid /\ rows[r].status # "incomplete"

(* When the pass writes hidden, no subscription that had a row when it     *)
(* began can bill again, however rows shift between its pages.             *)
ClosePassIsComplete ==
  [][closer.pc = "write" /\ initiative'.status = "hidden" =>
       \A r \in closer.start : stripe[Key(r)].status \in Terminal]_vars

(* Rows are kept, first_paid_at is never lost and a row never returns to   *)
(* incomplete.                                                             *)
RowsMoveForward ==
  [][\A r \in Requests : rows[r] # None =>
       /\ rows'[r] # None
       /\ rows[r].paid => rows'[r].paid
       /\ rows[r].status # "incomplete" => rows'[r].status # "incomplete"]_rows

(* A cancellation Stripe reports reaches every row there is.               *)
CancellationReachesRow ==
  \A r \in Requests :
    (rows[r] # None /\ Canceled(Key(r)) \in events \ acked)
      ~> (rows[r] # None /\ rows[r].status = "canceled")

(* The service keeps the subscription book: its rows follow Stripe and its *)
(* pass hides nothing that can still bill.                                 *)
Book == INSTANCE SubscriptionBook WITH
  SubOf   <- [r \in Requests |-> Key(r)],
  opened  <- {s \in Subs : stripe[s].status # "absent"},
  charged <- {s \in Subs : Charged(s)},
  lapsed  <- {s \in Subs : \E n \in 2..MaxInvoices : Failed(s, n) \in events},
  ended   <- {s \in Subs : stripe[s].status \in Terminal},
  record  <- rows,
  passing <- closer.pc # "idle",
  watched <- closer.start,
  hidden  <- initiative.status = "hidden"

ImplementsBook == Book!Spec

-----------------------------------------------------------------------------
(* Statements of the repository that the code does not keep; each is       *)
(* checked by a run that finds it violated.                                *)

(* subscription_service.go 203-204: a user may only hold one non-terminal  *)
(* subscription at a time per initiative.                                  *)
OneLiveSubPerUser ==
  \A u \in Users : Cardinality({Key(r) : r \in NonTerminal(u)}) <= 1

(* docs/user/initiatives/faq/index.md: hiding an initiative also cancels   *)
(* all of its recurring donations.                                         *)
HiddenMeansNotBilled ==
  initiative.status = "hidden" =>
    \A s \in Subs : stripe[s].status \notin {"active", "past_due"}

(* docs/user/donations/make-donation/index.md: an email acknowledgement is *)
(* sent automatically after each successful payment; here, the renewals of *)
(* a recorded subscription.                                                *)
PaidInvoiceMailed ==
  \A e \in acked : e.type = "paid" /\ e.n > 1 /\ RowsOf(e.sub) # {} => e \in mailed
=============================================================================
