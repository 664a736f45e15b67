------------------------- MODULE Subscriptions_proofs -------------------------
(***************************************************************************)
(* Theorems about Subscriptions, for every set of requests, subscriptions, *)
(* donors and webhook workers and for every page size.                     *)
(***************************************************************************)
EXTENDS Subscriptions, FiniteSetTheorems, TLAPS

USE DEF tableVars, requestVars, hookVars, cancelVars

(* The strengthening of the safety properties that every step preserves.   *)

Closed(r)   == stripe[Key(r)].status \in Terminal
After(r, k) == \E i \in DOMAIN order : order[i] = r /\ i > k

(* A request has a row once it is done, and reached Stripe before that.    *)
RequestFacts ==
  \A r \in Requests :
    /\ rows[r] # None <=> req[r].pc = "done"
    /\ req[r].pc \in {"insert", "done"} => stripe[Key(r)].status # "absent"

(* Money moves only for a subscription that was active at once or whose    *)
(* client secret left with a row.                                          *)
StripeFacts ==
  \A s \in Subs :
    /\ stripe[s].status # "absent" => stripe[s].n >= 1 /\ stripe[s].created # "none"
    /\ stripe[s].status = "absent" => stripe[s].created = "none"
    /\ stripe[s].created = "active" => Charged(s)
    /\ stripe[s].status \in {"active", "past_due"} \/ Charged(s) =>
         stripe[s].created = "active" \/ RowsOf(s) # {}
    /\ Canceled(s) \in events => stripe[s].status \in Terminal

EventFacts ==
  \A e \in events : /\ e.type = "failed" => e.n >= 1
                    /\ e.type = "canceled" => e.n = 0

MarkFacts == \A m \in marking : rows[m[2]] # None /\ Closed(m[2])

(* A running handler has stamped the rows that were there.                 *)
HookFacts ==
  \A w \in Workers : hook[w].pc # "idle" =>
    LET e == hook[w].ev IN
    /\ e \in events /\ e.type = "paid"
    /\ RowsOf(e.sub) # {} =>
         \E r \in RowsOf(e.sub) :
           /\ rows[r].paid
           /\ hook[w].pc = "email" => rows[r].status # "incomplete"

(* The table lists every row once.                                         *)
OrderFacts ==
  /\ \A i, j \in DOMAIN order : order[i] = order[j] => i = j
  /\ \A r \in Requests : rows[r] # None <=> \E i \in DOMAIN order : order[i] = r

(* What the pass still has to do lies beyond the pages it has seen: new    *)
(* rows push old ones further down, never back.                            *)
CloserFacts ==
  /\ closer.pc # "idle" => "closer" \in Parties
  /\ \A r \in closer.start \cup closer.todo : rows[r] # None
  /\ closer.pc = "list" =>
       \A r \in closer.start : Closed(r) \/ After(r, closer.offset)
  /\ closer.pc = "cancel" =>
       \A r \in closer.start :
         \/ Closed(r) \/ r \in closer.todo
         \/ closer.full /\ After(r, closer.offset + PageSize)
  /\ closer.pc = "write" => \A r \in closer.start : Closed(r)

IInv ==
  /\ TypeOK /\ RequestFacts /\ StripeFacts /\ EventFacts /\ MarkFacts
  /\ HookFacts /\ OrderFacts /\ CloserFacts
  /\ StatusBackedByStripe /\ PaymentRecorded

-----------------------------------------------------------------------------
(* Types of the inputs and of the events. *)

LEMMA InputTypes ==
  ASSUME NEW r \in Requests
  PROVE  Key(r) \in Subs /\ Input[r].user \in Users
  BY SubscriptionConstants DEF Key

LEMMA EventTypes ==
  ASSUME NEW s \in Subs
  PROVE  /\ Canceled(s) \in Events
         /\ \A n \in 0..MaxInvoices : Paid(s, n) \in Events /\ Failed(s, n) \in Events
  BY SubscriptionConstants DEF Canceled, Paid, Failed, Events

LEMMA EventCases ==
  ASSUME NEW e \in Events
  PROVE  /\ e.sub \in Subs /\ e.type \in {"paid", "failed", "canceled"}
         /\ e.n \in 0..MaxInvoices
         /\ e.type = "paid" => e = Paid(e.sub, e.n)
         /\ e.type = "failed" => e = Failed(e.sub, e.n)
         /\ e.type = "canceled" /\ e.n = 0 => e = Canceled(e.sub)
  BY DEF Events, Paid, Failed, Canceled

LEMMA TargetCases ==
  ASSUME NEW e \in Events
  PROVE  /\ e.type = "paid" => Target(e) = "active"
         /\ e.type = "failed" => Target(e) = "past_due"
         /\ e.type = "canceled" => Target(e) = "canceled"
         /\ Target(e) \in RowStatuses \ {"incomplete"}
  BY EventCases DEF Target, RowStatuses

(* What a step of Stripe's billing does to its subscription: the new       *)
(* status and invoice number, and the events it emits.                     *)
Billed(s, status, n, ev) ==
  /\ Bill(s, status, n, ev) /\ n >= 1
  /\ \A e \in ev : /\ e.sub = s
                   /\ e.type = "failed" => e.n >= 1
                   /\ e.type = "canceled" => e.n = 0 /\ status \in Terminal
  /\ status \in {"active", "past_due"} \/ (\E e \in ev : e.type = "paid") =>
       stripe[s].created = "active" \/ RowsOf(s) # {}

LEMMA BillingStep ==
  ASSUME TypeOK, StripeFacts, RequestFacts, NEW s \in Subs, Stripe(s)
  PROVE  /\ stripe[s].status \in Live
         /\ \E status \in Live \cup Terminal, n \in 0..MaxInvoices,
               ev \in SUBSET Events : Billed(s, status, n, ev)
  <1> USE SubscriptionConstants DEF Live, Terminal
  <1> DEFINE Goal == \E status \in Live \cup Terminal, n \in 0..MaxInvoices,
                        ev \in SUBSET Events : Billed(s, status, n, ev)
  <1>0. stripe[s].n \in 0..MaxInvoices /\ 1 \in 0..MaxInvoices
    BY DEF TypeOK, StripeState
  <1>1. SecretIsOut(s) => RowsOf(s) # {}
    BY DEF SecretIsOut, RowsOf, RequestFacts
  <1>2. CASE PayFirst(s)
    <2>1. stripe[s].status \in Live
      BY <1>2 DEF PayFirst
    <2>2. {Paid(s, 1)} \in SUBSET Events
      BY <1>0, EventTypes
    <2>3. Billed(s, "active", 1, {Paid(s, 1)})
      BY <1>1, <1>2 DEF PayFirst, Billed, Paid
    <2> QED BY <1>0, <2>1, <2>2, <2>3
  <1>3. CASE DeclineFirst(s)
    <2>1. stripe[s].status \in Live
      BY <1>3 DEF DeclineFirst
    <2>2. {Failed(s, 1)} \in SUBSET Events
      BY <1>0, EventTypes
    <2>3. Billed(s, "incomplete", 1, {Failed(s, 1)})
      BY <1>3 DEF DeclineFirst, Billed, Failed
    <2> QED BY <1>0, <2>1, <2>2, <2>3
  <1>4. CASE ExpireFirst(s)
    <2>1. stripe[s].status \in Live
      BY <1>4 DEF ExpireFirst
    <2>2. PICK dated \in BOOLEAN :
            Bill(s, "incomplete_expired", 1, IF dated THEN {Canceled(s)} ELSE {})
      BY <1>4 DEF ExpireFirst
    <2>3. PICK ev : ev = IF dated THEN {Canceled(s)} ELSE {}
      OBVIOUS
    <2>4. ev \in SUBSET Events /\ \A e \in ev : e = Canceled(s)
      BY <2>3, EventTypes
    <2>5. Billed(s, "incomplete_expired", 1, ev)
      BY <2>2, <2>3, <2>4 DEF Billed, Canceled
    <2> QED BY <1>0, <2>1, <2>4, <2>5
  <1>5. CASE Renew(s)
    <2>1. PICK k \in 0..MaxInvoices : k = stripe[s].n + 1 /\ k >= 1
      BY <1>0, <1>5 DEF Renew
    <2>2. {Paid(s, k)} \in SUBSET Events /\ {Failed(s, k)} \in SUBSET Events
      BY <2>1, EventTypes
    <2>3. /\ stripe[s].status \in Live
          /\ stripe[s].created = "active" \/ RowsOf(s) # {}
      BY <1>5 DEF Renew, StripeFacts
    <2>4. CASE Bill(s, "active", k, {Paid(s, k)})
      <3>1. Billed(s, "active", k, {Paid(s, k)})
        BY <2>1, <2>3, <2>4 DEF Billed, Paid
      <3> QED BY <2>1, <2>2, <2>3, <3>1
    <2>5. CASE Bill(s, "past_due", k, {Failed(s, k)})
      <3>1. Billed(s, "past_due", k, {Failed(s, k)})
        BY <2>1, <2>3, <2>5 DEF Billed, Failed
      <3> QED BY <2>1, <2>2, <2>3, <3>1
    <2> QED BY <1>5, <2>1, <2>4, <2>5 DEF Renew
  <1>6. CASE Collect(s)
    <2>1. PICK k \in 0..MaxInvoices : k = stripe[s].n /\ k >= 1
      BY <1>0, <1>6 DEF Collect, StripeFacts
    <2>2. stripe[s].status \in Live /\ {Paid(s, k)} \in SUBSET Events
      BY <1>6, <2>1, EventTypes DEF Collect
    <2>3. Billed(s, "active", k, {Paid(s, k)})
      BY <1>6, <2>1 DEF Collect, StripeFacts, Billed, Paid
    <2> QED BY <2>1, <2>2, <2>3
  <1>7. CASE GiveUp(s)
    <2>1. PICK k \in 0..MaxInvoices : k = stripe[s].n /\ k >= 1
      BY <1>0, <1>7 DEF GiveUp, StripeFacts
    <2>2. stripe[s].status \in Live /\ {Canceled(s)} \in SUBSET Events
      BY <1>7, EventTypes DEF GiveUp
    <2>3. Billed(s, "canceled", k, {Canceled(s)})
      BY <1>7, <2>1 DEF GiveUp, Billed, Canceled
    <2> QED BY <2>1, <2>2, <2>3
  <1> QED BY <1>2, <1>3, <1>4, <1>5, <1>6, <1>7 DEF Stripe

(* What a cancellation call for a recorded row does at Stripe, and what    *)
(* the caller may conclude from an answer it tolerates.                    *)
LEMMA CancelStep ==
  ASSUME TypeOK, RequestFacts, NEW r \in Requests, rows[r] # None,
         NEW party \in {"donor", "closer"}, NEW fate \in Fates,
         CallCancel(party, r, fate)
  PROVE  /\ \/ UNCHANGED <<stripe, events>>
            \/ /\ stripe[Key(r)].status \in Live
               /\ stripe' = [stripe EXCEPT ![Key(r)].status = "canceled"]
               /\ events' = events \cup {Canceled(Key(r))}
         /\ Tolerated(party, Heard(Key(r), fate)) =>
              stripe'[Key(r)].status \in Terminal
  <1> DEFINE s == Key(r)
  <1>1. s \in Subs /\ stripe[s] \in StripeState /\ stripe[s].status # "absent"
    BY InputTypes DEF TypeOK, RequestFacts
  <1>2. Answer(s) = "ok" <=> stripe[s].status \in Live
    BY DEF Answer, Live
  <1>3. Answer(s) # "ok" => stripe[s].status \in Terminal
    BY <1>1, <1>2 DEF StripeState
  <1>4. CASE fate = "unreached"
    BY <1>4 DEF CallCancel, Heard, Tolerated
  <1>5. CASE fate # "unreached"
    <2>1. CancelAtStripe(s)
      BY <1>5 DEF CallCancel
    <2>2. CASE Answer(s) = "ok"
      BY <1>1, <1>2, <2>1, <2>2 DEF CancelAtStripe, TypeOK, StripeState, Terminal
    <2>3. CASE Answer(s) # "ok"
      BY <1>3, <2>1, <2>3 DEF CancelAtStripe
    <2> QED BY <2>2, <2>3
  <1> QED BY <1>4, <1>5

-----------------------------------------------------------------------------
(* Which action changes what. *)

Outcomes == {"incomplete", "active"}

LEMMA CreateFrame ==
  ASSUME TypeOK, NEW r \in Requests, Create(r)
  PROVE  /\ UNCHANGED hookVars /\ UNCHANGED cancelVars
         /\ \A q \in Requests \ {r} : req'[q] = req[q]
         /\ \/ UNCHANGED <<stripe, events>>
            \/ \E outcome \in Outcomes, lost \in BOOLEAN : Subscribe(r, outcome, lost)
         /\ UNCHANGED tableVars \/ Insert(r)
  BY DEF Create, Load, CreateCustomer, PersistCustomer, Price, Heal, Subscribe,
     ReplaySubscribe, Insert, Abort, Goto, TypeOK, Outcomes

LEMMA StripeFrame ==
  ASSUME NEW s \in Subs, Stripe(s)
  PROVE  /\ UNCHANGED <<initiative, customerID, req>>
         /\ UNCHANGED tableVars /\ UNCHANGED hookVars /\ UNCHANGED cancelVars
  BY DEF Stripe, Bill, PayFirst, DeclineFirst, ExpireFirst, Renew, Collect, GiveUp

LEMMA DonorFrame ==
  ASSUME Donor
  PROVE  /\ UNCHANGED <<initiative, req, customerID, order, closer>>
         /\ UNCHANGED hookVars
         /\ \E r \in Requests :
              \/ \E fate \in Fates : Cancel(r, fate) /\ rows' = rows
              \/ Mark("donor", r) /\ UNCHANGED <<stripe, events>>
              \/ Unmarked(r) /\ UNCHANGED <<stripe, events, rows>>
  BY DEF Donor, Cancel, CallCancel, Mark, Unmarked

LEMMA CloserFrame ==
  ASSUME Closer
  PROVE  /\ UNCHANGED <<req, customerID, order>> /\ UNCHANGED hookVars
         /\ \/ UNCHANGED <<stripe, events>>
            \/ \E r \in Requests, fate \in Fates : CloseCancel(r, fate)
         /\ rows' = rows \/ \E r \in Requests : Mark("closer", r)
  BY DEF Closer, CloseStart, CloseList, CloseJoin, CloseWrite, CloseFail, Reopen,
     CloseCancel, CallCancel, Mark, Pass

LEMMA WebhookFrame ==
  ASSUME TypeOK, NEW w \in Workers, Webhook(w)
  PROVE  /\ UNCHANGED <<initiative, stripe, order, events>>
         /\ UNCHANGED requestVars /\ UNCHANGED cancelVars
         /\ \A v \in Workers \ {w} : hook'[v] = hook[v]
         /\ \/ rows' = rows
            \/ \E e \in events : HookStamp(w, e) \/ HookOther(w, e)
            \/ HookPaid(w)
  BY DEF Webhook, Deliver, Proceed, HookIgnore, HookStamp, HookOther, HookPaid,
     HookEmail, HookCrash, SetStatus, Handler, TypeOK

(* How one row changes under each of the actions that write the table. *)

LEMMA InsertRow ==
  ASSUME IInv, NEW r \in Requests, Insert(r)
  PROVE  /\ rows[r] = None /\ rows'[r] = NewRow(r) /\ rows'[r] \in Rows
         /\ \A q \in Requests \ {r} : rows'[q] = rows[q]
         /\ req' = [req EXCEPT ![r].pc = "done"]
  <1>1. Key(r) \in Subs /\ stripe[Key(r)] \in StripeState
    BY InputTypes DEF IInv, TypeOK
  <1>2. stripe[Key(r)].created \in {"incomplete", "active"}
    BY <1>1 DEF Insert, IInv, RequestFacts, StripeFacts, StripeState
  <1>3. NewRow(r) \in Rows
    BY <1>2 DEF NewRow, Rows, RowStatuses
  <1>4. rows[r] = None
    BY DEF Insert, IInv, RequestFacts
  <1> QED BY <1>3, <1>4 DEF Insert, Goto, IInv, TypeOK

LEMMA MarkRow ==
  ASSUME IInv, NEW party, NEW r \in Requests, Mark(party, r)
  PROVE  /\ rows[r] # None /\ rows'[r] \in Rows
         /\ rows'[r].status = "canceled" /\ rows'[r].paid = rows[r].paid
         /\ \A q \in Requests \ {r} : rows'[q] = rows[q]
         /\ Closed(r)
  <1>1. rows[r] # None /\ Closed(r)
    BY DEF Mark, IInv, MarkFacts
  <1>2. rows[r] \in Rows /\ rows' = [rows EXCEPT ![r].status = "canceled"]
    BY <1>1 DEF Mark, IInv, TypeOK
  <1>3. rows'[r] = [rows[r] EXCEPT !.status = "canceled"]
    BY <1>2 DEF IInv, TypeOK
  <1>4. \A q \in Requests \ {r} : rows'[q] = rows[q]
    BY <1>2 DEF IInv, TypeOK
  <1> QED BY <1>1, <1>2, <1>3, <1>4 DEF Rows, RowStatuses

LEMMA StampRow ==
  ASSUME TypeOK, NEW w \in Workers, NEW e \in events, HookStamp(w, e), NEW r \in Requests
  PROVE  /\ rows[r] = None => rows'[r] = None
         /\ rows[r] # None => /\ rows'[r] \in Rows /\ rows[r] \in Rows
                              /\ rows'[r].status = rows[r].status
                              /\ rows[r].paid => rows'[r].paid
         /\ r \in RowsOf(e.sub) => rows'[r].paid
         /\ r \notin RowsOf(e.sub) => rows'[r] = rows[r]
  <1>1. rows'[r] = IF r \in RowsOf(e.sub) THEN [rows[r] EXCEPT !.paid = TRUE] ELSE rows[r]
    BY DEF HookStamp
  <1>2. rows[r] # None => rows[r] \in Rows
    BY DEF TypeOK
  <1>3. r \in RowsOf(e.sub) => rows[r] # None
    BY DEF RowsOf
  <1>4. CASE r \in RowsOf(e.sub)
    <2>1. rows'[r] = [rows[r] EXCEPT !.paid = TRUE] /\ rows[r] \in Rows
      BY <1>1, <1>2, <1>3, <1>4
    <2>2. rows'[r] \in Rows /\ rows'[r].paid /\ rows'[r].status = rows[r].status
      BY <2>1 DEF Rows
    <2> QED BY <1>3, <1>4, <2>1, <2>2
  <1>5. CASE r \notin RowsOf(e.sub)
    BY <1>1, <1>2, <1>5
  <1> QED BY <1>4, <1>5

LEMMA StatusRow ==
  ASSUME TypeOK, NEW w \in Workers, NEW e \in Events, SetStatus(w, e), NEW r \in Requests
  PROVE  /\ rows[r] = None => rows'[r] = None
         /\ rows[r] # None => /\ rows'[r] \in Rows /\ rows[r] \in Rows
                              /\ rows'[r].paid = rows[r].paid
         /\ r \in RowsOf(e.sub) => rows'[r].status = Target(e)
         /\ r \notin RowsOf(e.sub) => rows'[r] = rows[r]
  <1>1. rows'[r] = IF r \in Updatable(e) THEN [rows[r] EXCEPT !.status = Target(e)]
                                         ELSE rows[r]
    BY DEF SetStatus
  <1>2. rows[r] # None => rows[r] \in Rows
    BY DEF TypeOK
  <1>3. /\ r \in RowsOf(e.sub) => rows[r] # None
        /\ r \in Updatable(e) <=> r \in RowsOf(e.sub) /\ rows[r].status # Target(e)
    BY DEF RowsOf, Updatable
  <1>4. CASE r \in Updatable(e)
    <2>1. rows'[r] = [rows[r] EXCEPT !.status = Target(e)] /\ rows[r] \in Rows
      BY <1>1, <1>2, <1>3, <1>4
    <2>2. /\ rows'[r] \in Rows /\ rows'[r].status = Target(e)
          /\ rows'[r].paid = rows[r].paid
      BY <2>1, TargetCases DEF Rows
    <2> QED BY <1>3, <1>4, <2>1, <2>2
  <1>5. CASE r \notin Updatable(e)
    BY <1>1, <1>2, <1>3, <1>5
  <1> QED BY <1>4, <1>5

-----------------------------------------------------------------------------
(* Where a change of the table or of Stripe comes from, and what no step   *)
(* undoes.                                                                 *)

LEMMA RowSources ==
  ASSUME IInv, [Next]_vars, rows' # rows
  PROVE  \/ \E r \in Requests : Insert(r)
         \/ \E party \in {"donor", "closer"}, r \in Requests : Mark(party, r)
         \/ \E w \in Workers, e \in events : HookStamp(w, e)
         \/ \E w \in Workers, e \in events : SetStatus(w, e) /\ ~Ignored(e)
  <1> USE DEF IInv
  <1>1. ASSUME NEW r \in Requests, Create(r)
        PROVE  Insert(r)
    BY <1>1, CreateFrame
  <1>2. ASSUME NEW s \in Subs, Stripe(s)
        PROVE  FALSE
    BY <1>2, StripeFrame
  <1>3. CASE Donor
    BY <1>3, DonorFrame
  <1>4. CASE Closer
    BY <1>4, CloserFrame
  <1>5. ASSUME NEW w \in Workers, Webhook(w)
        PROVE  \/ \E e \in events : HookStamp(w, e)
               \/ \E e \in events : SetStatus(w, e) /\ ~Ignored(e)
    <2>1. CASE HookPaid(w)
      <3>1. hook[w].ev \in events /\ hook[w].ev.type = "paid"
        BY <2>1 DEF HookPaid, HookFacts
      <3> QED BY <2>1, <3>1 DEF HookPaid, Ignored
    <2> QED BY <1>5, <2>1, WebhookFrame DEF HookOther
  <1> QED BY <1>1, <1>2, <1>3, <1>4, <1>5 DEF Next, vars

RowsKept ==
  \A r \in Requests : rows[r] # None =>
    /\ rows'[r] # None
    /\ rows[r].paid => rows'[r].paid
    /\ rows[r].status # "incomplete" => rows'[r].status # "incomplete"

LEMMA RowsKeptStep ==
  ASSUME IInv, [Next]_vars
  PROVE  RowsKept
  <1> USE NoneIsNoRow DEF IInv
  <1>0. events \subseteq Events
    BY DEF TypeOK
  <1> SUFFICES ASSUME NEW r \in Requests, rows[r] # None
               PROVE  RowsKept!(r)!2
    BY DEF RowsKept
  <1>1. CASE rows' = rows
    BY <1>1
  <1>2. ASSUME NEW q \in Requests, Insert(q)
        PROVE  RowsKept!(r)!2
    BY <1>2, InsertRow
  <1>3. ASSUME NEW party, NEW q \in Requests, Mark(party, q)
        PROVE  RowsKept!(r)!2
    BY <1>3, MarkRow
  <1>4. ASSUME NEW w \in Workers, NEW e \in events, HookStamp(w, e)
        PROVE  RowsKept!(r)!2
    BY <1>4, StampRow
  <1>5. ASSUME NEW w \in Workers, NEW e \in events, SetStatus(w, e)
        PROVE  RowsKept!(r)!2
    BY <1>0, <1>5, StatusRow, TargetCases
  <1> QED BY <1>1, <1>2, <1>3, <1>4, <1>5, RowSources

LEMMA RowsStay ==
  ASSUME RowsKept, NEW s
  PROVE  RowsOf(s) \subseteq RowsOf(s)'
  BY DEF RowsKept, RowsOf, Key

Called(r) ==
  /\ rows[r] # None
  /\ stripe[Key(r)].status \in Live
  /\ stripe' = [stripe EXCEPT ![Key(r)].status = "canceled"]
  /\ events' = events \cup {Canceled(Key(r))}

LEMMA StripeSources ==
  ASSUME IInv, [Next]_vars, ~UNCHANGED <<stripe, events>>
  PROVE  \/ \E r \in Requests, outcome \in Outcomes, lost \in BOOLEAN :
              Subscribe(r, outcome, lost)
         \/ \E s \in Subs, status \in Live \cup Terminal, n \in 0..MaxInvoices,
               ev \in SUBSET Events :
              Billed(s, status, n, ev) /\ stripe[s].status \in Live
         \/ \E r \in Requests : Called(r)
  <1> USE DEF IInv
  <1>1. ASSUME NEW r \in Requests, Create(r)
        PROVE  \E outcome \in Outcomes, lost \in BOOLEAN : Subscribe(r, outcome, lost)
    BY <1>1, CreateFrame
  <1>2. ASSUME NEW s \in Subs, Stripe(s)
        PROVE  \E status \in Live \cup Terminal, n \in 0..MaxInvoices,
                  ev \in SUBSET Events :
                 Billed(s, status, n, ev) /\ stripe[s].status \in Live
    BY <1>2, BillingStep
  <1>3. ASSUME NEW r \in Requests, NEW party \in {"donor", "closer"},
               NEW fate \in Fates, CallCancel(party, r, fate), rows[r] # None
        PROVE  Called(r)
    BY <1>3, CancelStep DEF Called
  <1>4. CASE Donor
    <2>1. PICK r \in Requests, fate \in Fates : Cancel(r, fate)
      BY <1>4, DonorFrame
    <2>2. rows[r] # None /\ CallCancel("donor", r, fate)
      BY <2>1 DEF Cancel
    <2> QED BY <1>3, <2>2
  <1>5. CASE Closer
    <2>1. PICK r \in Requests, fate \in Fates : CloseCancel(r, fate)
      BY <1>5, CloserFrame
    <2>2. rows[r] # None /\ CallCancel("closer", r, fate)
      BY <2>1 DEF CloseCancel, CloserFacts
    <2> QED BY <1>3, <2>2
  <1>6. ASSUME NEW w \in Workers, Webhook(w)
        PROVE  FALSE
    BY <1>6, WebhookFrame
  <1> QED BY <1>1, <1>2, <1>4, <1>5, <1>6 DEF Next, vars

(* How Stripe changes under each of them. *)

LEMMA SubscribeSub ==
  ASSUME TypeOK, NEW r \in Requests, NEW outcome \in Outcomes,
         NEW lost \in BOOLEAN, Subscribe(r, outcome, lost)
  PROVE  /\ Key(r) \in Subs /\ stripe[Key(r)].status = "absent"
         /\ stripe'[Key(r)].status = outcome /\ stripe'[Key(r)].created = outcome
         /\ stripe'[Key(r)].n = 1 /\ stripe'[Key(r)] \in StripeState
         /\ \A s \in Subs \ {Key(r)} : stripe'[s] = stripe[s]
         /\ stripe' \in [Subs -> StripeState]
         /\ events' = IF outcome = "active" THEN events \cup {Paid(Key(r), 1)}
                                            ELSE events
  <1>1. Key(r) \in Subs
    BY InputTypes
  <1>2. PICK sub : sub = [status |-> outcome, created |-> outcome,
                          by |-> r, cus |-> req[r].cus, n |-> 1]
    OBVIOUS
  <1>3. 1 \in 0..MaxInvoices /\ req[r].cus \in Requests \cup {Customer0, None}
    BY SubscriptionConstants DEF TypeOK
  <1>4. /\ sub \in StripeState /\ sub.status = outcome /\ sub.created = outcome
        /\ sub.n = 1
    BY <1>2, <1>3 DEF StripeState, Outcomes, Live
  <1>5. stripe' = [stripe EXCEPT ![Key(r)] = sub]
    BY <1>2 DEF Subscribe
  <1> QED BY <1>1, <1>4, <1>5 DEF Subscribe, TypeOK

LEMMA BilledSub ==
  ASSUME TypeOK, NEW s \in Subs, NEW status \in Live \cup Terminal,
         NEW n \in 0..MaxInvoices, NEW ev \in SUBSET Events, Billed(s, status, n, ev)
  PROVE  /\ stripe'[s].status = status /\ stripe'[s].n = n
         /\ stripe'[s].created = stripe[s].created
         /\ \A t \in Subs \ {s} : stripe'[t] = stripe[t]
         /\ stripe' \in [Subs -> StripeState]
         /\ events' = events \cup ev
  <1>1. stripe' = [stripe EXCEPT ![s].status = status, ![s].n = n]
    BY DEF Billed, Bill
  <1>2. stripe[s] \in StripeState
    BY DEF TypeOK
  <1>3. stripe'[s] = [[stripe[s] EXCEPT !.status = status] EXCEPT !.n = n]
    BY <1>1, <1>2 DEF TypeOK, StripeState
  <1>4. /\ stripe'[s] \in StripeState /\ stripe'[s].status = status
        /\ stripe'[s].n = n /\ stripe'[s].created = stripe[s].created
    BY <1>2, <1>3 DEF StripeState
  <1> QED BY <1>1, <1>4 DEF TypeOK, Billed, Bill

LEMMA CalledSub ==
  ASSUME TypeOK, NEW r \in Requests, Called(r)
  PROVE  /\ Key(r) \in Subs
         /\ stripe'[Key(r)].status = "canceled"
         /\ stripe'[Key(r)].n = stripe[Key(r)].n
         /\ stripe'[Key(r)].created = stripe[Key(r)].created
         /\ \A t \in Subs \ {Key(r)} : stripe'[t] = stripe[t]
         /\ stripe' \in [Subs -> StripeState]
  <1>1. PICK s \in Subs : s = Key(r)
    BY InputTypes
  <1>2. stripe[s] \in StripeState /\ stripe' = [stripe EXCEPT ![s].status = "canceled"]
    BY <1>1 DEF TypeOK, Called
  <1>3. stripe'[s] = [stripe[s] EXCEPT !.status = "canceled"]
    BY <1>2 DEF TypeOK
  <1>4. /\ stripe'[s] \in StripeState /\ stripe'[s].status = "canceled"
        /\ stripe'[s].n = stripe[s].n /\ stripe'[s].created = stripe[s].created
    BY <1>2, <1>3 DEF StripeState, Terminal
  <1> QED BY <1>1, <1>2, <1>4 DEF TypeOK

StripeKept ==
  /\ events \subseteq events'
  /\ \A s \in Subs :
       /\ stripe[s].status # "absent" => /\ stripe'[s].status # "absent"
                                         /\ stripe'[s].created = stripe[s].created
       /\ stripe[s].status \in Terminal => stripe'[s].status \in Terminal

LEMMA StripeKeptStep ==
  ASSUME IInv, [Next]_vars
  PROVE  StripeKept
  <1> USE DEF IInv, StripeKept
  <1>1. CASE UNCHANGED <<stripe, events>>
    BY <1>1
  <1>2. ASSUME NEW r \in Requests, NEW outcome \in Outcomes, NEW lost \in BOOLEAN,
               Subscribe(r, outcome, lost)
        PROVE  StripeKept
    <2>1. events \subseteq events'
      BY <1>2, SubscribeSub
    <2>2. "absent" \notin Terminal
      BY DEF Terminal
    <2> QED BY <1>2, <2>1, <2>2, SubscribeSub
  <1>3. ASSUME NEW s \in Subs, NEW status \in Live \cup Terminal,
               NEW n \in 0..MaxInvoices, NEW ev \in SUBSET Events,
               Billed(s, status, n, ev), stripe[s].status \in Live
        PROVE  StripeKept
    BY <1>3, BilledSub DEF Live, Terminal
  <1>4. ASSUME NEW r \in Requests, Called(r)
        PROVE  StripeKept
    BY <1>4, CalledSub DEF Called, Terminal
  <1> QED BY <1>1, <1>2, <1>3, <1>4, StripeSources

-----------------------------------------------------------------------------
(* The inductive invariant, one conjunct at a time. *)

LEMMA RequestStep ==
  ASSUME IInv, [Next]_vars, NEW r \in Requests
  PROVE  \/ req'[r] = req[r] /\ ~Insert(r)
         \/ Insert(r)
         \/ /\ req[r].pc # "done" /\ req'[r].pc # "done" /\ rows' = rows
            /\ req'[r].pc = "insert" => stripe'[Key(r)].status # "absent"
  <1> USE DEF IInv
  <1>1. ASSUME Create(r), ~Insert(r)
        PROVE  /\ req[r].pc # "done" /\ req'[r].pc # "done" /\ rows' = rows
               /\ req'[r].pc = "insert" => stripe'[Key(r)].status # "absent"
    <2>1. ASSUME NEW outcome \in Outcomes, NEW lost \in BOOLEAN,
                 Subscribe(r, outcome, lost)
          PROVE  /\ req[r].pc # "done" /\ req'[r].pc # "done"
                 /\ stripe'[Key(r)].status # "absent"
      <3>1. stripe'[Key(r)].status = outcome
        BY <2>1, SubscribeSub
      <3> QED BY <2>1, <3>1 DEF Subscribe, Goto, Outcomes, TypeOK
    <2>2. CASE ReplaySubscribe(r)
      BY <2>2 DEF ReplaySubscribe, Goto, TypeOK
    <2>3. CASE \/ Load(r) \/ CreateCustomer(r) \/ PersistCustomer(r) \/ Price(r)
               \/ Heal(r) \/ Abort(r)
      BY <2>3 DEF Load, CreateCustomer, PersistCustomer, Price, Heal, Abort, Goto, TypeOK
    <2>4. rows' = rows
      BY <1>1, CreateFrame
    <2> QED BY <1>1, <2>1, <2>2, <2>3, <2>4 DEF Create, Outcomes
  <1>2. ASSUME NEW q \in Requests, q # r, Create(q)
        PROVE  req'[r] = req[r]
    BY <1>2, CreateFrame
  <1>3. CASE ~\E q \in Requests : Create(q)
    BY <1>3, StripeFrame, DonorFrame, CloserFrame, WebhookFrame DEF Next, vars
  <1> QED BY <1>1, <1>2, <1>3

LEMMA NewRowsAreInserted ==
  ASSUME IInv, [Next]_vars, NEW r \in Requests, rows[r] = None, rows'[r] # None
  PROVE  Insert(r)
  <1> USE DEF IInv
  <1>0. events \subseteq Events /\ rows' # rows
    BY DEF TypeOK
  <1>1. ASSUME NEW q \in Requests, Insert(q)
        PROVE  Insert(r)
    BY <1>1, InsertRow
  <1>2. ASSUME NEW party, NEW q \in Requests, Mark(party, q)
        PROVE  FALSE
    BY <1>2, MarkRow
  <1>3. ASSUME NEW w \in Workers, NEW e \in events, HookStamp(w, e)
        PROVE  FALSE
    BY <1>3, StampRow
  <1>4. ASSUME NEW w \in Workers, NEW e \in events, SetStatus(w, e)
        PROVE  FALSE
    BY <1>0, <1>4, StatusRow
  <1> QED BY <1>0, <1>1, <1>2, <1>3, <1>4, RowSources

LEMMA RequestFactsStep ==
  ASSUME IInv, [Next]_vars
  PROVE  RequestFacts'
  <1> USE DEF IInv
  <1>0. RowsKept /\ StripeKept
    BY RowsKeptStep, StripeKeptStep
  <1> SUFFICES ASSUME NEW r \in Requests
               PROVE  /\ rows'[r] # None <=> req'[r].pc = "done"
                      /\ req'[r].pc \in {"insert", "done"} =>
                           stripe'[Key(r)].status # "absent"
    BY DEF RequestFacts, Key
  <1>1. Key(r) \in Subs
    BY InputTypes
  <1>2. req[r].pc \in {"insert", "done"} => stripe'[Key(r)].status # "absent"
    BY <1>0, <1>1 DEF RequestFacts, StripeKept
  <1>3. CASE Insert(r)
    <2>0. req' = [req EXCEPT ![r].pc = "done"] /\ req[r].pc = "insert"
      BY <1>3 DEF Insert, Goto
    <2>1. req'[r].pc = "done" /\ req[r].pc = "insert"
      BY <2>0 DEF TypeOK
    <2> QED BY <1>2, <1>3, <2>1, InsertRow, NoneIsNoRow
  <1>4. CASE req'[r] = req[r] /\ ~Insert(r)
    BY <1>0, <1>2, <1>4, NewRowsAreInserted DEF RequestFacts, RowsKept
  <1> QED BY <1>3, <1>4, RequestStep DEF RequestFacts

LEMMA StripeTypes ==
  ASSUME IInv, [Next]_vars
  PROVE  /\ stripe' \in [Subs -> StripeState] /\ events' \subseteq Events
         /\ EventFacts'
  <1> USE DEF IInv
  <1>0. /\ stripe \in [Subs -> StripeState] /\ events \subseteq Events
        /\ EventFacts /\ TypeOK
    BY DEF TypeOK
  <1>1. CASE UNCHANGED <<stripe, events>>
    BY <1>0, <1>1 DEF EventFacts
  <1>2. ASSUME NEW r \in Requests, NEW outcome \in Outcomes, NEW lost \in BOOLEAN,
               Subscribe(r, outcome, lost)
        PROVE  /\ stripe' \in [Subs -> StripeState] /\ events' \subseteq Events
               /\ EventFacts'
    <2>1. Key(r) \in Subs /\ 1 \in 0..MaxInvoices
      BY InputTypes, SubscriptionConstants
    <2>2. Paid(Key(r), 1) \in Events /\ Paid(Key(r), 1).type = "paid"
      BY <2>1, EventTypes DEF Paid
    <2> QED BY <1>0, <1>2, <2>2, SubscribeSub DEF EventFacts
  <1>3. ASSUME NEW s \in Subs, NEW status \in Live \cup Terminal,
               NEW n \in 0..MaxInvoices, NEW ev \in SUBSET Events,
               Billed(s, status, n, ev)
        PROVE  /\ stripe' \in [Subs -> StripeState] /\ events' \subseteq Events
               /\ EventFacts'
    <2>1. \A e \in ev :
            /\ e.type = "failed" => e.n >= 1
            /\ e.type = "canceled" => e.n = 0
      BY <1>3 DEF Billed
    <2>2. events' = events \cup ev /\ stripe' \in [Subs -> StripeState]
      BY <1>0, <1>3, BilledSub
    <2>3. EventFacts'
      BY <1>0, <2>1, <2>2 DEF EventFacts
    <2> QED BY <1>0, <2>2, <2>3
  <1>4. ASSUME NEW r \in Requests, Called(r)
        PROVE  /\ stripe' \in [Subs -> StripeState] /\ events' \subseteq Events
               /\ EventFacts'
    <2>1. /\ Canceled(Key(r)) \in Events
          /\ Canceled(Key(r)).type = "canceled" /\ Canceled(Key(r)).n = 0
      BY InputTypes, EventTypes DEF Canceled
    <2> QED BY <1>0, <1>4, <2>1, CalledSub DEF EventFacts, Called
  <1> QED BY <1>1, <1>2, <1>3, <1>4, StripeSources

LEMMA ChargedStays ==
  ASSUME StripeKept, NEW s
  PROVE  Charged(s) => Charged(s)'
  BY DEF StripeKept, Charged

LEMMA StripeFactsStep ==
  ASSUME IInv, [Next]_vars
  PROVE  StripeFacts'
  <1> USE DEF IInv
  <1>0. TypeOK /\ StripeFacts /\ RowsKept /\ StripeKept
    BY RowsKeptStep, StripeKeptStep
  <1> SUFFICES ASSUME NEW s \in Subs
               PROVE  /\ stripe'[s].status # "absent" =>
                           stripe'[s].n >= 1 /\ stripe'[s].created # "none"
                      /\ stripe'[s].status = "absent" => stripe'[s].created = "none"
                      /\ stripe'[s].created = "active" => Charged(s)'
                      /\ stripe'[s].status \in {"active", "past_due"} \/ Charged(s)' =>
                           stripe'[s].created = "active" \/ RowsOf(s)' # {}
                      /\ Canceled(s) \in events' => stripe'[s].status \in Terminal
    BY DEF StripeFacts, Canceled
  <1> DEFINE Goal == /\ stripe'[s].status # "absent" =>
                           stripe'[s].n >= 1 /\ stripe'[s].created # "none"
                     /\ stripe'[s].status = "absent" => stripe'[s].created = "none"
                     /\ stripe'[s].created = "active" => Charged(s)'
                     /\ stripe'[s].status \in {"active", "past_due"} \/ Charged(s)' =>
                           stripe'[s].created = "active" \/ RowsOf(s)' # {}
                     /\ Canceled(s) \in events' => stripe'[s].status \in Terminal
  <1>1. RowsOf(s) # {} => RowsOf(s)' # {}
    BY <1>0, RowsStay
  <1>2. Charged(s) => Charged(s)'
    BY <1>0, ChargedStays
  <1>3. ASSUME stripe'[s] = stripe[s], \A e \in events' \ events : e.sub # s
        PROVE  Goal
    <2>1. Charged(s)' => Charged(s)
      BY <1>3 DEF Charged
    <2>2. Canceled(s) \in events' => Canceled(s) \in events
      BY <1>3 DEF Canceled
    <2> QED BY <1>0, <1>1, <1>2, <1>3, <2>1, <2>2 DEF StripeFacts
  <1>4. ASSUME NEW r \in Requests, NEW outcome \in Outcomes, NEW lost \in BOOLEAN,
               Subscribe(r, outcome, lost)
        PROVE  Goal
    <2>1. CASE Key(r) # s
      BY <1>0, <1>3, <1>4, <2>1, SubscribeSub DEF Paid
    <2>2. CASE Key(r) = s
      <3>1. /\ stripe[s].status = "absent" /\ stripe'[s].status = outcome
            /\ stripe'[s].created = outcome /\ stripe'[s].n = 1
            /\ events' = IF outcome = "active" THEN events \cup {Paid(s, 1)} ELSE events
        BY <1>0, <1>4, <2>2, SubscribeSub
      <3>2. Canceled(s) \notin events'
        <4>1. Canceled(s) \notin events
          BY <1>0, <3>1 DEF StripeFacts, Terminal
        <4>2. Canceled(s) # Paid(s, 1)
          BY DEF Canceled, Paid
        <4> QED BY <3>1, <4>1, <4>2
      <3>5. outcome = "active" => Charged(s)'
        <4>1. Paid(s, 1).sub = s /\ Paid(s, 1).type = "paid"
          BY DEF Paid
        <4>2. outcome = "active" => Paid(s, 1) \in events'
          BY <3>1
        <4> QED BY <4>1, <4>2 DEF Charged
      <3>3. outcome = "incomplete" => (Charged(s)' => Charged(s))
        BY <3>1 DEF Charged
      <3>4. ~Charged(s)
        <4>1. RowsOf(s) = {}
          BY <3>1 DEF RequestFacts, RowsOf
        <4> QED BY <1>0, <3>1, <4>1 DEF StripeFacts
      <3> QED BY <1>1, <3>1, <3>2, <3>3, <3>4, <3>5 DEF Outcomes
    <2> QED BY <2>1, <2>2
  <1>5. ASSUME NEW t \in Subs, NEW status \in Live \cup Terminal,
               NEW n \in 0..MaxInvoices, NEW ev \in SUBSET Events,
               Billed(t, status, n, ev), stripe[t].status \in Live
        PROVE  Goal
    <2>1. CASE t # s
      BY <1>0, <1>3, <1>5, <2>1, BilledSub DEF Billed
    <2>2. CASE t = s
      <3>1. /\ stripe'[s].status = status /\ stripe'[s].n = n /\ n >= 1
            /\ stripe'[s].created = stripe[s].created /\ events' = events \cup ev
            /\ status # "absent"
        BY <1>0, <1>5, <2>2, BilledSub DEF Billed, Live, Terminal
      <3>2. stripe[s].created # "none"
        BY <1>0, <1>5, <2>2 DEF StripeFacts, Live
      <3>3. Canceled(s) \in events' => status \in Terminal
        BY <1>0, <1>5, <2>2, <3>1 DEF StripeFacts, Billed, Canceled, Live, Terminal
      <3>4. Charged(s)' => Charged(s) \/ \E e \in ev : e.type = "paid"
        BY <3>1 DEF Charged
      <3>5. status \in {"active", "past_due"} \/ (\E e \in ev : e.type = "paid") =>
              stripe[s].created = "active" \/ RowsOf(s) # {}
        BY <1>5, <2>2 DEF Billed
      <3>6. /\ stripe[s].created = "active" => Charged(s)
            /\ Charged(s) => stripe[s].created = "active" \/ RowsOf(s) # {}
        BY <1>0 DEF StripeFacts
      <3> QED BY <1>1, <1>2, <3>1, <3>2, <3>3, <3>4, <3>5, <3>6
    <2> QED BY <2>1, <2>2
  <1>6. ASSUME NEW r \in Requests, Called(r)
        PROVE  Goal
    <2>1. events' = events \cup {Canceled(Key(r))} /\ Canceled(Key(r)).sub = Key(r)
          /\ Canceled(Key(r)).type = "canceled"
      BY <1>6 DEF Called, Canceled
    <2>2. CASE Key(r) # s
      BY <1>0, <1>3, <1>6, <2>1, <2>2, CalledSub
    <2>3. CASE Key(r) = s
      <3>1. /\ stripe'[s].status = "canceled" /\ stripe'[s].n = stripe[s].n
            /\ stripe'[s].created = stripe[s].created
        BY <1>0, <1>6, <2>3, CalledSub
      <3>2. stripe[s].status # "absent"
        BY <1>6, <2>3 DEF Called, Live
      <3>3. Charged(s)' => Charged(s)
        BY <2>1 DEF Charged
      <3> QED BY <1>0, <1>1, <1>2, <3>1, <3>2, <3>3 DEF StripeFacts, Terminal
    <2> QED BY <2>2, <2>3
  <1>7. CASE UNCHANGED <<stripe, events>>
    BY <1>3, <1>7
  <1> QED BY <1>4, <1>5, <1>6, <1>7, StripeSources

LEMMA StatusBackedStep ==
  ASSUME IInv, [Next]_vars
  PROVE  StatusBackedByStripe'
  <1> USE DEF IInv
  <1>0. /\ TypeOK /\ RowsKept /\ StripeKept /\ StatusBackedByStripe
        /\ events \subseteq Events
    BY RowsKeptStep, StripeKeptStep DEF TypeOK
  <1> DEFINE Backed(row, s) ==
        /\ row.status = "canceled" => stripe'[s].status \in Terminal
        /\ row.status = "past_due" => \E n \in 2..MaxInvoices : Failed(s, n) \in events'
        /\ row.status = "active" \/ row.paid => Charged(s)'
  <1> SUFFICES ASSUME NEW r \in Requests, rows'[r] # None
               PROVE  Backed(rows'[r], Key(r))
    BY DEF StatusBackedByStripe, Key, Failed
  <1>1. PICK s \in Subs : s = Key(r)
    BY InputTypes
  <1>2. /\ stripe[s].status \in Terminal => stripe'[s].status \in Terminal
        /\ \A n : Failed(s, n) \in events => Failed(s, n) \in events'
        /\ Charged(s) => Charged(s)'
    BY <1>0, ChargedStays DEF StripeKept
  <1>3. rows[r] # None => Backed(rows[r], s)
    BY <1>0, <1>1, <1>2 DEF StatusBackedByStripe
  <1>4. CASE rows'[r] = rows[r]
    BY <1>1, <1>3, <1>4
  <1>5. ASSUME NEW q \in Requests, Insert(q), q = r
        PROVE  Backed(rows'[r], s)
    <2>1. rows'[r] = NewRow(r)
      BY <1>5, InsertRow
    <2>2. /\ rows'[r].status = stripe[s].created
          /\ rows'[r].paid = (stripe[s].created = "active")
          /\ rows'[r].status \in {"incomplete", "active"}
      <3>1. stripe[s] \in StripeState /\ stripe[s].created # "none"
        BY <1>1, <1>5 DEF TypeOK, Insert, RequestFacts, StripeFacts
      <3> QED BY <1>1, <2>1, <3>1 DEF NewRow, StripeState
    <2>3. stripe[s].created = "active" => Charged(s)
      BY DEF StripeFacts
    <2> QED BY <1>2, <2>2, <2>3
  <1>6. ASSUME NEW party, NEW q \in Requests, Mark(party, q), q = r
        PROVE  Backed(rows'[r], s)
    <2>1. /\ rows[r] # None /\ rows'[r].status = "canceled"
          /\ rows'[r].paid = rows[r].paid /\ stripe[s].status \in Terminal
      BY <1>1, <1>6, MarkRow DEF Closed
    <2> QED BY <1>2, <1>3, <2>1
  <1>7. ASSUME NEW w \in Workers, NEW e \in events, HookStamp(w, e), r \in RowsOf(e.sub)
        PROVE  Backed(rows'[r], s)
    <2>1. e.sub = s /\ e.type = "paid"
      BY <1>1, <1>7 DEF RowsOf, HookStamp
    <2>2. Charged(s) /\ rows[r] # None
      BY <1>7, <2>1 DEF Charged, RowsOf
    <2>3. rows'[r].status = rows[r].status
      BY <1>0, <1>7, <2>2, StampRow
    <2> QED BY <1>2, <1>3, <2>2, <2>3
  <1>8. ASSUME NEW w \in Workers, NEW e \in events, SetStatus(w, e), ~Ignored(e),
               r \in RowsOf(e.sub)
        PROVE  Backed(rows'[r], s)
    <2>0. e \in Events
      BY <1>0
    <2>1. e.sub = s /\ rows[r] # None
      BY <1>1, <1>8 DEF RowsOf
    <2>2. rows'[r].status = Target(e) /\ rows'[r].paid = rows[r].paid
      BY <1>0, <1>8, <2>0, <2>1, StatusRow
    <2>3. CASE e.type = "paid"
      BY <1>2, <2>0, <2>1, <2>2, <2>3, TargetCases DEF Charged
    <2>4. CASE e.type = "failed"
      <3>1. e.n >= 1 /\ e.n # 1 /\ e.n \in 0..MaxInvoices
        BY <1>8, <2>0, <2>4, EventCases DEF EventFacts, Ignored
      <3>2. e.n \in 2..MaxInvoices
        BY <3>1, SubscriptionConstants
      <3>3. Failed(s, e.n) \in events
        BY <2>0, <2>1, <2>4, EventCases
      <3>4. rows'[r].status = "past_due"
        BY <2>0, <2>2, <2>4, TargetCases
      <3> QED BY <1>2, <1>3, <2>1, <2>2, <3>2, <3>3, <3>4
    <2>5. CASE e.type = "canceled"
      <3>1. Canceled(s) \in events
        BY <2>0, <2>1, <2>5, EventCases DEF EventFacts
      <3>2. stripe[s].status \in Terminal /\ rows'[r].status = "canceled"
        BY <2>0, <2>2, <2>5, <3>1, TargetCases DEF StripeFacts
      <3> QED BY <1>2, <1>3, <2>1, <2>2, <3>2
    <2> QED BY <2>0, <2>3, <2>4, <2>5, EventCases
  <1>9. \/ rows'[r] = rows[r]
        \/ \E q \in Requests : Insert(q) /\ q = r
        \/ \E party \in {"donor", "closer"}, q \in Requests : Mark(party, q) /\ q = r
        \/ \E w \in Workers, e \in events : HookStamp(w, e) /\ r \in RowsOf(e.sub)
        \/ \E w \in Workers, e \in events :
             SetStatus(w, e) /\ ~Ignored(e) /\ r \in RowsOf(e.sub)
    <2>1. CASE rows' = rows
      BY <2>1
    <2>2. ASSUME NEW q \in Requests, Insert(q), q # r
          PROVE  rows'[r] = rows[r]
      BY <2>2, InsertRow
    <2>3. ASSUME NEW party, NEW q \in Requests, Mark(party, q), q # r
          PROVE  rows'[r] = rows[r]
      BY <2>3, MarkRow
    <2>4. ASSUME NEW w \in Workers, NEW e \in events, HookStamp(w, e), r \notin RowsOf(e.sub)
          PROVE  rows'[r] = rows[r]
      BY <1>0, <2>4, StampRow
    <2>5. ASSUME NEW w \in Workers, NEW e \in events, SetStatus(w, e), r \notin RowsOf(e.sub)
          PROVE  rows'[r] = rows[r]
      BY <1>0, <2>5, StatusRow
    <2> QED BY <2>1, <2>2, <2>3, <2>4, <2>5, RowSources
  <1>10. Backed(rows'[r], s)
    BY <1>1, <1>4, <1>5, <1>6, <1>7, <1>8, <1>9
  <1> QED BY <1>1, <1>10

LEMMA MarkingStep ==
  ASSUME IInv, [Next]_vars, NEW m \in marking'
  PROVE  \/ m \in marking
         \/ \E party \in {"donor", "closer"}, r \in Requests, fate \in Fates :
              /\ m = <<party, r>> /\ party \in Parties /\ rows[r] # None
              /\ CallCancel(party, r, fate)
              /\ Tolerated(party, Heard(Key(r), fate))
  <1> USE DEF IInv
  <1>1. CASE \E r \in Requests : Create(r)
    BY <1>1, CreateFrame
  <1>2. CASE \E s \in Subs : Stripe(s)
    BY <1>2, StripeFrame
  <1>3. CASE Donor
    <2>1. ASSUME NEW r \in Requests, NEW fate \in Fates, Cancel(r, fate), m \notin marking
          PROVE  /\ m = <<"donor", r>> /\ "donor" \in Parties /\ rows[r] # None
                 /\ CallCancel("donor", r, fate)
                 /\ Tolerated("donor", Heard(Key(r), fate))
      BY <2>1 DEF Cancel
    <2>2. ASSUME NEW r \in Requests, Mark("donor", r) \/ Unmarked(r)
          PROVE  m \in marking
      BY <2>2 DEF Mark, Unmarked
    <2> QED BY <1>3, <2>1, <2>2 DEF Donor
  <1>4. CASE Closer
    <2>1. ASSUME NEW r \in Requests, NEW fate \in Fates, CloseCancel(r, fate), m \notin marking
          PROVE  /\ m = <<"closer", r>> /\ "closer" \in Parties /\ rows[r] # None
                 /\ CallCancel("closer", r, fate)
                 /\ Tolerated("closer", Heard(Key(r), fate))
      BY <2>1 DEF CloseCancel, CloserFacts
    <2>2. ASSUME NEW r \in Requests, Mark("closer", r)
          PROVE  m \in marking
      BY <2>2 DEF Mark
    <2>3. CASE CloseStart \/ CloseList \/ CloseJoin \/ CloseWrite \/ CloseFail \/ Reopen
      BY <2>3 DEF CloseStart, CloseList, CloseJoin, CloseWrite, CloseFail, Reopen, Pass
    <2> QED BY <1>4, <2>1, <2>2, <2>3 DEF Closer
  <1>5. CASE \E w \in Workers : Webhook(w)
    BY <1>5, WebhookFrame
  <1> QED BY <1>1, <1>2, <1>3, <1>4, <1>5 DEF Next, vars

LEMMA MarkFactsStep ==
  ASSUME IInv, [Next]_vars
  PROVE  MarkFacts' /\ marking' \subseteq Parties \X Requests
  <1> USE DEF IInv
  <1>0. RowsKept /\ StripeKept /\ TypeOK /\ RequestFacts
    BY RowsKeptStep, StripeKeptStep
  <1>1. ASSUME NEW m \in marking'
        PROVE  /\ rows'[m[2]] # None /\ stripe'[Key(m[2])].status \in Terminal
               /\ m \in Parties \X Requests
    <2>1. CASE m \in marking
      <3>1. m \in Parties \X Requests /\ m[2] \in Requests
        BY <1>0, <2>1 DEF TypeOK
      <3>2. Key(m[2]) \in Subs
        BY <3>1, InputTypes
      <3> QED BY <1>0, <2>1, <3>1, <3>2 DEF MarkFacts, RowsKept, StripeKept, Closed
    <2>2. CASE m \notin marking
      <3>1. PICK party \in {"donor", "closer"}, r \in Requests, fate \in Fates :
              /\ m = <<party, r>> /\ party \in Parties /\ rows[r] # None
              /\ CallCancel(party, r, fate)
              /\ Tolerated(party, Heard(Key(r), fate))
        BY <2>2, MarkingStep
      <3>2. stripe'[Key(r)].status \in Terminal
        BY <1>0, <3>1, CancelStep
      <3> QED BY <1>0, <3>1, <3>2 DEF RowsKept
    <2> QED BY <2>1, <2>2
  <1>2. MarkFacts'
    BY <1>1 DEF MarkFacts, Closed, Key
  <1> QED BY <1>1, <1>2

(* The first row of a paid subscription carries first_paid_at itself. *)
LEMMA FirstRowIsPaid ==
  ASSUME IInv, [Next]_vars, NEW e \in events, e.type = "paid",
         RowsOf(e.sub) = {}, RowsOf(e.sub)' # {}
  PROVE  \E r \in RowsOf(e.sub)' : rows'[r].paid /\ rows'[r].status = "active"
  <1> USE DEF IInv
  <1>1. PICK r \in RowsOf(e.sub)' : TRUE
    OBVIOUS
  <1>2. r \in Requests /\ rows'[r] # None /\ Key(r) = e.sub /\ rows[r] = None
    BY <1>1 DEF RowsOf, Key
  <1>3. Insert(r)
    BY <1>2, NewRowsAreInserted
  <1>4. e.sub \in Subs
    BY EventCases DEF TypeOK
  <1>5. stripe[e.sub].created = "active"
    BY <1>4 DEF StripeFacts, Charged
  <1>6. rows'[r] = NewRow(r)
    BY <1>2, <1>3, InsertRow
  <1>7. rows'[r].paid /\ rows'[r].status = "active"
    <2>1. stripe[Key(r)].created = "active"
      BY <1>2, <1>5
    <2>2. NewRow(r) = [status |-> "active", paid |-> TRUE]
      BY <2>1 DEF NewRow
    <2> QED BY <1>6, <2>2
  <1> QED BY <1>1, <1>7

LEMMA HookFactsStep ==
  ASSUME IInv, [Next]_vars
  PROVE  HookFacts' /\ hook' \in [Workers -> [pc : {"status", "email"}, ev : Events] \cup {Idle}]
  <1> USE DEF IInv
  <1>0. RowsKept /\ StripeKept /\ TypeOK /\ HookFacts /\ events \subseteq Events
    BY RowsKeptStep, StripeKeptStep DEF TypeOK
  <1> DEFINE Good(h) ==
        h.pc # "idle" =>
          /\ h.ev \in events' /\ h.ev.type = "paid"
          /\ RowsOf(h.ev.sub)' # {} =>
               \E r \in RowsOf(h.ev.sub)' :
                 rows'[r].paid /\ (h.pc = "email" => rows'[r].status # "incomplete")
  <1> DEFINE HookType == [pc : {"status", "email"}, ev : Events] \cup {Idle}
  <1>1. ASSUME NEW w \in Workers, NEW h, h = hook[w]
        PROVE  Good(h)
    <2> SUFFICES ASSUME h.pc # "idle"
                 PROVE  Good(h)
      OBVIOUS
    <2> PICK e : e = h.ev
      OBVIOUS
    <2>1. e \in events /\ e \in events' /\ e.type = "paid"
      BY <1>0, <1>1 DEF HookFacts, StripeKept
    <2>2. CASE RowsOf(e.sub) = {}
      BY <2>1, <2>2, FirstRowIsPaid
    <2>3. CASE RowsOf(e.sub) # {}
      <3>1. PICK r \in RowsOf(e.sub) :
              rows[r].paid /\ (h.pc = "email" => rows[r].status # "incomplete")
        BY <1>0, <1>1, <2>3 DEF HookFacts
      <3>2. r \in RowsOf(e.sub)' /\ rows'[r].paid
            /\ (h.pc = "email" => rows'[r].status # "incomplete")
        BY <1>0, <3>1, RowsStay DEF RowsKept, RowsOf
      <3> QED BY <2>1, <3>2
    <2> QED BY <2>1, <2>2, <2>3
  <1>2. ASSUME NEW w \in Workers, Webhook(w), NEW h, h = hook'[w]
        PROVE  Good(h) /\ h \in HookType
    <2>0. hook \in [Workers -> HookType] /\ events' = events
      BY <1>0, <1>2, WebhookFrame DEF TypeOK
    <2>1. CASE hook' = [hook EXCEPT ![w] = Idle]
      BY <1>2, <2>0, <2>1 DEF Idle
    <2>2. ASSUME NEW e \in events, HookStamp(w, e)
          PROVE  Good(h) /\ h \in HookType
      <3>1. h = [pc |-> "status", ev |-> e] /\ e.type = "paid"
        BY <1>2, <2>0, <2>2 DEF HookStamp, Handler
      <3>2. ASSUME NEW r \in RowsOf(e.sub)'
            PROVE  rows'[r].paid
        <4>1. r \in Requests /\ rows'[r] # None /\ Key(r) = e.sub
          BY DEF RowsOf, Key
        <4>2. r \in RowsOf(e.sub)
          BY <1>0, <2>2, <4>1, StampRow DEF RowsOf
        <4> QED BY <1>0, <2>2, <4>1, <4>2, StampRow
      <3> QED BY <1>0, <2>0, <3>1, <3>2
    <2>3. ASSUME NEW e \in events, SetStatus(w, e), e = hook[w].ev,
                 hook[w].pc = "status",
                 h = [pc |-> "email", ev |-> e]
          PROVE  Good(h) /\ h \in HookType
      <3>0. e \in Events /\ e.type = "paid"
        BY <1>0, <2>3 DEF HookFacts
      <3>1. ASSUME RowsOf(e.sub)' # {}
            PROVE  \E r \in RowsOf(e.sub)' : rows'[r].paid /\ rows'[r].status # "incomplete"
        <4>0. PICK g : g = hook[w]
          OBVIOUS
        <4>1. PICK r \in RowsOf(e.sub)' : rows'[r].paid
          <5>1. Good(g) /\ g.pc = "status" /\ g.ev = e
            BY <1>1, <2>3, <4>0
          <5> QED BY <3>1, <5>1
        <4>2. r \in Requests /\ rows'[r] # None /\ Key(r) = e.sub
          BY DEF RowsOf, Key
        <4>3. r \in RowsOf(e.sub)
          BY <1>0, <2>3, <3>0, <4>2, StatusRow DEF RowsOf
        <4>4. rows'[r].status = "active"
          BY <1>0, <2>3, <3>0, <4>2, <4>3, StatusRow, TargetCases
        <4> QED BY <4>1, <4>4
      <3> QED BY <1>0, <2>0, <2>3, <3>0, <3>1
    <2>4. ASSUME NEW e \in events, SetStatus(w, e)
          PROVE  \/ hook' = [hook EXCEPT ![w] = Idle]
                 \/ h = [pc |-> "email", ev |-> e] /\ e.type = "paid"
      BY <1>2, <2>0, <2>4 DEF SetStatus, Handler
    <2>5. CASE HookPaid(w)
      <3>1. PICK e : /\ e = hook[w].ev /\ e \in events
                     /\ SetStatus(w, e) /\ hook[w].pc = "status"
        BY <1>0, <2>5 DEF HookPaid, HookFacts
      <3> QED BY <2>1, <2>3, <2>4, <3>1
    <2>6. ASSUME NEW e \in events, HookOther(w, e)
          PROVE  hook' = [hook EXCEPT ![w] = Idle]
      BY <2>4, <2>6 DEF HookOther
    <2>7. ASSUME NEW e \in events, HookIgnore(w, e) \/ HookEmail(w) \/ HookCrash(w)
          PROVE  hook' = [hook EXCEPT ![w] = Idle]
      BY <2>7 DEF HookIgnore, HookEmail, HookCrash, Handler
    <2>8. CASE HookEmail(w) \/ HookCrash(w)
      BY <2>1, <2>8 DEF HookEmail, HookCrash, Handler
    <2> QED BY <1>2, <2>1, <2>2, <2>5, <2>6, <2>7, <2>8 DEF Webhook, Deliver, Proceed
  <1>3. ASSUME NEW w \in Workers, NEW h, h = hook'[w]
        PROVE  Good(h) /\ (h = hook[w] \/ h \in HookType)
    <2>1. CASE hook'[w] = hook[w]
      BY <1>1, <1>3, <2>1
    <2>2. CASE hook'[w] # hook[w]
      <3>1. Webhook(w)
        BY <1>0, <2>2, CreateFrame, StripeFrame, DonorFrame, CloserFrame, WebhookFrame
           DEF Next, vars
      <3> QED BY <1>2, <1>3, <3>1
    <2> QED BY <2>1, <2>2
  <1>4. DOMAIN hook' = Workers /\ hook' = [w \in Workers |-> hook'[w]]
    <2>1. ASSUME NEW w \in Workers, NEW h, hook' = [hook EXCEPT ![w] = h]
          PROVE  DOMAIN hook' = Workers /\ hook' = [v \in Workers |-> hook'[v]]
      BY <1>0, <2>1 DEF TypeOK
    <2>2. CASE hook' = hook
      BY <1>0, <2>2 DEF TypeOK
    <2>3. ASSUME NEW w \in Workers, Webhook(w)
          PROVE  \E h : hook' = [hook EXCEPT ![w] = h]
      BY <2>3 DEF Webhook, Deliver, Proceed, HookIgnore, HookStamp, HookOther, HookPaid,
         HookEmail, HookCrash, SetStatus, Handler
    <2> QED BY <2>1, <2>2, <2>3, CreateFrame, StripeFrame, DonorFrame, CloserFrame
            DEF Next, vars
  <1>5. hook' \in [Workers -> HookType]
    BY <1>0, <1>3, <1>4 DEF TypeOK
  <1>6. HookFacts'
    <2> SUFFICES ASSUME NEW w \in Workers
                 PROVE  HookFacts!(w)'
      BY DEF HookFacts
    <2>1. PICK h : h = hook'[w]
      OBVIOUS
    <2>2. Good(h)
      BY <1>3, <2>1
    <2> QED BY <2>1, <2>2
  <1> QED BY <1>5, <1>6

LEMMA AckStep ==
  ASSUME IInv, [Next]_vars, NEW e \in acked'
  PROVE  /\ e \in events
         /\ e \in acked \/ e.type # "paid"
            \/ /\ rows' = rows \/ \E w \in Workers : SetStatus(w, e) /\ Updatable(e) = {}
               /\ \E w \in Workers :
                    hook[w].ev = e /\ hook[w].pc \in {"status", "email"}
                    /\ (hook[w].pc = "status" => Updatable(e) = {})
  <1> USE DEF IInv
  <1>0. acked \subseteq events /\ events \subseteq Events
    BY DEF TypeOK
  <1>1. CASE acked' = acked
    BY <1>0, <1>1
  <1>2. ASSUME NEW w \in Workers, Webhook(w), e \notin acked
        PROVE  /\ e \in events
               /\ \/ e.type # "paid"
                  \/ /\ \/ rows' = rows
                        \/ SetStatus(w, e) /\ Updatable(e) = {}
                     /\ hook[w].ev = e /\ hook[w].pc \in {"status", "email"}
                     /\ hook[w].pc = "status" => Updatable(e) = {}
    <2>1. ASSUME NEW f \in events, HookIgnore(w, f) \/ HookOther(w, f)
          PROVE  e = f /\ e.type # "paid"
      BY <1>2, <2>1 DEF HookIgnore, HookOther, Ignored, SetStatus, Handler
    <2>2. ASSUME NEW f \in events, HookStamp(w, f)
          PROVE  FALSE
      BY <1>2, <2>2 DEF HookStamp, Handler
    <2>3. CASE HookPaid(w)
      <3>1. PICK f : f = hook[w].ev
        OBVIOUS
      <3>2. f \in events /\ f.type = "paid" /\ SetStatus(w, f) /\ hook[w].pc = "status"
        BY <2>3, <3>1 DEF HookPaid, HookFacts
      <3>3. e = f /\ Updatable(f) = {}
        BY <1>2, <3>2 DEF SetStatus, Handler
      <3> QED BY <3>1, <3>2, <3>3
    <2>4. CASE HookEmail(w)
      <3>1. hook[w].pc = "email" /\ rows' = rows /\ e = hook[w].ev
        BY <1>2, <2>4 DEF HookEmail, Handler
      <3>2. e \in events
        BY <3>1 DEF HookFacts
      <3> QED BY <3>1, <3>2
    <2>5. CASE HookCrash(w)
      BY <1>2, <2>5 DEF HookCrash, Handler
    <2> QED BY <1>2, <2>1, <2>2, <2>3, <2>4, <2>5 DEF Webhook, Deliver, Proceed
  <1> QED BY <1>0, <1>1, <1>2, CreateFrame, StripeFrame, DonorFrame, CloserFrame
          DEF Next, vars

LEMMA PaymentRecordedStep ==
  ASSUME IInv, [Next]_vars
  PROVE  PaymentRecorded'
  <1> USE DEF IInv
  <1>0. TypeOK /\ RowsKept /\ events \subseteq Events
    BY RowsKeptStep DEF TypeOK
  <1> SUFFICES ASSUME NEW e \in acked', e.type = "paid", RowsOf(e.sub)' # {}
               PROVE  \E r \in RowsOf(e.sub)' : rows'[r].paid /\ rows'[r].status # "incomplete"
    BY DEF PaymentRecorded
  <1>1. e \in events
    BY AckStep
  <1>2. CASE RowsOf(e.sub) = {}
    BY <1>1, <1>2, FirstRowIsPaid
  <1>3. CASE RowsOf(e.sub) # {}
    <2> SUFFICES ASSUME NEW r \in RowsOf(e.sub), rows[r].paid, rows[r].status # "incomplete"
                 PROVE  \E q \in RowsOf(e.sub)' :
                          rows'[q].paid /\ rows'[q].status # "incomplete"
      <3>1. CASE e \in acked
        BY <1>3, <3>1 DEF PaymentRecorded
      <3>2. CASE e \notin acked
        <4>1. PICK w \in Workers :
                /\ hook[w].ev = e /\ hook[w].pc \in {"status", "email"}
                /\ hook[w].pc = "status" => Updatable(e) = {}
          BY <3>2, AckStep
        <4>2. PICK r \in RowsOf(e.sub) :
                rows[r].paid /\ (hook[w].pc = "email" => rows[r].status # "incomplete")
          BY <1>3, <4>1 DEF HookFacts
        <4>3. Updatable(e) = {} => rows[r].status = "active"
          BY <1>0, <1>1, <4>2, TargetCases DEF Updatable
        <4> QED BY <4>1, <4>2, <4>3
      <3> QED BY <3>1, <3>2
    <2>1. r \in Requests /\ rows[r] # None /\ r \in RowsOf(e.sub)'
      BY <1>0, RowsStay DEF RowsOf
    <2> QED BY <1>0, <2>1 DEF RowsKept
  <1> QED BY <1>2, <1>3

LEMMA OrderStep ==
  ASSUME IInv, [Next]_vars
  PROVE  \/ order' = order
         \/ /\ \E r \in Requests : Insert(r)
            /\ Len(order') = Len(order) + 1
            /\ \A i \in DOMAIN order : i + 1 \in DOMAIN order' /\ order'[i + 1] = order[i]
            /\ \A j \in DOMAIN order' : j = 1 \/ (j - 1 \in DOMAIN order /\ order'[j] = order[j - 1])
            /\ 1 \in DOMAIN order' /\ order' \in Seq(Requests)
            /\ Insert(order'[1])
  <1> USE DEF IInv
  <1>1. ASSUME NEW r \in Requests, Insert(r)
        PROVE  /\ Len(order') = Len(order) + 1
               /\ \A i \in DOMAIN order : i + 1 \in DOMAIN order' /\ order'[i + 1] = order[i]
               /\ \A j \in DOMAIN order' :
                    j = 1 \/ (j - 1 \in DOMAIN order /\ order'[j] = order[j - 1])
               /\ 1 \in DOMAIN order' /\ order' \in Seq(Requests)
               /\ order'[1] = r
    <2>1. order' = <<r>> \o order /\ order \in Seq(Requests) /\ <<r>> \in Seq(Requests)
      BY <1>1 DEF Insert, TypeOK
    <2>2. Len(<<r>>) = 1 /\ <<r>>[1] = r /\ Len(order) \in Nat
      BY <2>1
    <2>3. /\ order' \in Seq(Requests) /\ Len(order') = 1 + Len(order)
          /\ \A i \in 1..(1 + Len(order)) :
               order'[i] = IF i <= 1 THEN <<r>>[i] ELSE order[i - 1]
      BY <2>1, <2>2
    <2>4. DOMAIN order = 1..Len(order) /\ DOMAIN order' = 1..(1 + Len(order))
      BY <2>1, <2>3
    <2> QED BY <2>2, <2>3, <2>4
  <1>2. CASE ~\E r \in Requests : Insert(r)
    BY <1>2, CreateFrame, StripeFrame, DonorFrame, CloserFrame, WebhookFrame DEF Next, vars
  <1> QED BY <1>1, <1>2

LEMMA OrderFactsStep ==
  ASSUME IInv, [Next]_vars
  PROVE  OrderFacts' /\ order' \in Seq(Requests)
  <1> USE DEF IInv
  <1>0. TypeOK /\ OrderFacts /\ RowsKept
    BY RowsKeptStep
  <1>1. CASE order' = order
    <2>1. ~\E r \in Requests : Insert(r)
      <3>1. order \in Seq(Requests)
        BY <1>0 DEF TypeOK
      <3>2. ASSUME NEW r \in Requests, Insert(r)
            PROVE  Len(order') = Len(order) + 1
        <4>1. order' = <<r>> \o order
          BY <3>2 DEF Insert
        <4> QED BY <3>1, <4>1
      <3>3. Len(order) \in Nat
        BY <3>1
      <3> QED BY <1>1, <3>2, <3>3
    <2>2. \A r \in Requests : rows'[r] # None <=> rows[r] # None
      BY <1>0, <2>1, NewRowsAreInserted DEF RowsKept
    <2> QED BY <1>0, <1>1, <2>2 DEF OrderFacts, TypeOK
  <1>2. CASE order' # order
    <2>1. /\ \A i \in DOMAIN order : i + 1 \in DOMAIN order' /\ order'[i + 1] = order[i]
          /\ \A j \in DOMAIN order' :
               j = 1 \/ (j - 1 \in DOMAIN order /\ order'[j] = order[j - 1])
          /\ 1 \in DOMAIN order' /\ order' \in Seq(Requests)
          /\ Insert(order'[1]) /\ order'[1] \in Requests
      BY <1>2, OrderStep
    <2> PICK q \in Requests : q = order'[1]
      BY <2>1
    <2>2. /\ rows[q] = None /\ rows'[q] # None
          /\ \A p \in Requests \ {q} : rows'[p] = rows[p]
      BY <2>1, InsertRow, NoneIsNoRow
    <2>3. \A i \in DOMAIN order : order[i] # q
      BY <1>0, <2>2 DEF OrderFacts
    <2>4. DOMAIN order' \subseteq Nat /\ DOMAIN order \subseteq Nat
      BY <1>0, <2>1 DEF TypeOK
    <2>5. ASSUME NEW i \in DOMAIN order', NEW j \in DOMAIN order', order'[i] = order'[j]
          PROVE  i = j
      <3>1. CASE i = 1 /\ j = 1
        BY <3>1
      <3>2. CASE i = 1 /\ j # 1
        BY <2>1, <2>3, <2>5, <3>2
      <3>3. CASE i # 1 /\ j = 1
        BY <2>1, <2>3, <2>5, <3>3
      <3>4. CASE i # 1 /\ j # 1
        <4>1. i - 1 = j - 1
          BY <1>0, <2>1, <2>5, <3>4 DEF OrderFacts
        <4> QED BY <2>4, <4>1
      <3> QED BY <3>1, <3>2, <3>3, <3>4
    <2>6. ASSUME NEW r \in Requests
          PROVE  rows'[r] # None <=> \E i \in DOMAIN order' : order'[i] = r
      <3>1. CASE r = q
        BY <2>1, <2>2, <3>1
      <3>2. CASE r # q
        <4>1. rows'[r] # None <=> \E i \in DOMAIN order : order[i] = r
          BY <1>0, <2>2, <3>2 DEF OrderFacts
        <4>2. (\E i \in DOMAIN order : order[i] = r) <=> \E i \in DOMAIN order' : order'[i] = r
          BY <2>1, <3>2
        <4> QED BY <4>1, <4>2
      <3> QED BY <3>1, <3>2
    <2> QED BY <2>1, <2>5, <2>6 DEF OrderFacts
  <1> QED BY <1>1, <1>2

-----------------------------------------------------------------------------
(* The pass that hides the initiative. *)

LEMMA AfterStays ==
  ASSUME IInv, [Next]_vars, NEW r, NEW k \in Nat, After(r, k)
  PROVE  \E i \in DOMAIN order' : order'[i] = r /\ i > k
  <1>1. PICK i \in DOMAIN order : order[i] = r /\ i > k
    BY DEF After
  <1>2. i \in Nat
    <2>1. order \in Seq(Requests)
      BY DEF IInv, TypeOK
    <2> QED BY <2>1
  <1>3. CASE order' = order
    BY <1>1, <1>3
  <1>4. CASE order' # order
    <2>1. i + 1 \in DOMAIN order' /\ order'[i + 1] = order[i]
      BY <1>4, OrderStep
    <2> QED BY <1>1, <1>2, <2>1
  <1> QED BY <1>3, <1>4

(* A row beyond a page means that the page is full. *)
LEMMA FullPage ==
  ASSUME TypeOK, OrderFacts, NEW i \in DOMAIN order, i > closer.offset + PageSize
  PROVE  Cardinality(Page) = PageSize
  <1> PICK k : k = closer.offset
    OBVIOUS
  <1>0. order \in Seq(Requests) /\ k \in Nat /\ PageSize \in Nat \ {0}
    BY SubscriptionConstants DEF TypeOK
  <1>1. DOMAIN order = 1..Len(order) /\ Len(order) \in Nat
    BY <1>0
  <1>2. \A j \in 1..PageSize : k + j \in DOMAIN order
    BY <1>0, <1>1
  <1>3. Page = {order[j] : j \in {n \in DOMAIN order : k < n /\ n <= k + PageSize}}
    BY DEF Page, Listed
  <1> DEFINE f == [j \in 1..PageSize |-> order[k + j]]
  <1>4. \A j \in 1..PageSize : f[j] \in Page
    <2> SUFFICES ASSUME NEW j \in 1..PageSize
                 PROVE  order[k + j] \in Page
      OBVIOUS
    <2>1. k < k + j /\ k + j <= k + PageSize
      BY <1>0
    <2>2. k + j \in {n \in DOMAIN order : k < n /\ n <= k + PageSize}
      BY <1>2, <2>1
    <2> QED BY <1>3, <2>2
  <1>5. f \in [1..PageSize -> Page]
    BY <1>4
  <1>6. \A q \in Page : \E j \in 1..PageSize : f[j] = q
    <2> TAKE q \in Page
    <2>1. PICK n \in DOMAIN order : k < n /\ n <= k + PageSize /\ q = order[n]
      BY <1>3
    <2>2. n - k \in 1..PageSize /\ k + (n - k) = n
      BY <1>0, <1>1, <2>1
    <2>3. f[n - k] = q
      BY <2>1, <2>2
    <2> QED BY <2>2, <2>3
  <1>7. \A j, n \in 1..PageSize : f[j] = f[n] => j = n
    <2> TAKE j, n \in 1..PageSize
    <2>1. order[k + j] = order[k + n] => k + j = k + n
      BY <1>2 DEF OrderFacts
    <2> QED BY <1>0, <2>1
  <1>8. f \in Surjection(1..PageSize, Page) /\ f \in Injection(1..PageSize, Page)
    <2> HIDE DEF f
    <2>1. DOMAIN f = 1..PageSize
      BY <1>5
    <2> QED BY <1>5, <1>6, <1>7, <2>1 DEF Surjection, Injection, IsInjective
  <1>9. IsFiniteSet(1..PageSize) /\ Cardinality(1..PageSize) = PageSize
    BY <1>0, FS_Interval
  <1> HIDE DEF f
  <1> QED BY <1>8, <1>9, FS_Surjection

LEMMA PageStep ==
  ASSUME TypeOK, OrderFacts, NEW r, After(r, closer.offset)
  PROVE  r \in Page \/ (Cardinality(Page) = PageSize /\ After(r, closer.offset + PageSize))
  <1>1. PICK i \in DOMAIN order : order[i] = r /\ i > closer.offset
    BY DEF After
  <1>2. CASE i > closer.offset + PageSize
    BY <1>1, <1>2, FullPage DEF After
  <1>3. CASE ~(i > closer.offset + PageSize)
    <2>1. i \in Nat /\ closer.offset \in Nat /\ PageSize \in Nat
      <3>1. order \in Seq(Requests)
        BY DEF TypeOK
      <3> QED BY <3>1, SubscriptionConstants DEF TypeOK
    <2>2. closer.offset < i /\ i <= closer.offset + PageSize
      BY <1>1, <1>3, <2>1
    <2> QED BY <1>1, <2>2 DEF Page, Listed
  <1> QED BY <1>2, <1>3

LEMMA CloserSources ==
  ASSUME IInv, [Next]_vars
  PROVE  \/ closer' = closer
         \/ UNCHANGED <<rows, order>> /\ (CloseStart \/ CloseList \/ CloseJoin)
         \/ UNCHANGED <<rows, order>> /\ closer' = Resting
         \/ \E r \in Requests, fate \in Fates :
              /\ UNCHANGED <<rows, order>> /\ CloseCancel(r, fate)
              /\ Tolerated("closer", Heard(Key(r), fate))
              /\ closer' = [closer EXCEPT !.todo = @ \ {r}]
  <1> USE DEF IInv
  <1>1. CASE Closer
    <2>1. ASSUME NEW r \in Requests, NEW fate \in Fates, CloseCancel(r, fate)
          PROVE  /\ UNCHANGED <<rows, order>>
                 /\ \/ closer' = Resting
                    \/ /\ Tolerated("closer", Heard(Key(r), fate))
                       /\ closer' = [closer EXCEPT !.todo = @ \ {r}]
      BY <2>1 DEF CloseCancel, CallCancel
    <2>2. ASSUME NEW r \in Requests, Mark("closer", r)
          PROVE  closer' = closer
      BY <2>2 DEF Mark
    <2>3. CASE CloseWrite \/ CloseFail
      BY <2>3 DEF CloseWrite, CloseFail, Pass
    <2>4. CASE Reopen
      BY <2>4 DEF Reopen, Pass
    <2>5. CASE CloseStart \/ CloseList \/ CloseJoin
      BY <2>5 DEF CloseStart, CloseList, CloseJoin, Pass
    <2> QED BY <1>1, <2>1, <2>2, <2>3, <2>4, <2>5 DEF Closer
  <1>2. CASE ~Closer
    BY <1>2, CreateFrame, StripeFrame, DonorFrame, WebhookFrame DEF Next, vars
  <1> QED BY <1>1, <1>2

(* CloserFacts and the type of closer, of one value of that variable in    *)
(* the next state.                                                         *)
ClosedNext(r)   == stripe'[Key(r)].status \in Terminal
AfterNext(r, k) == \E i \in DOMAIN order' : order'[i] = r /\ i > k

GoodCloser(c) ==
  /\ c.pc # "idle" => "closer" \in Parties
  /\ \A r \in c.start \cup c.todo : rows'[r] # None
  /\ c.pc = "list" => \A r \in c.start : ClosedNext(r) \/ AfterNext(r, c.offset)
  /\ c.pc = "cancel" =>
       \A r \in c.start :
         ClosedNext(r) \/ r \in c.todo \/ (c.full /\ AfterNext(r, c.offset + PageSize))
  /\ c.pc = "write" => \A r \in c.start : ClosedNext(r)

CloserType == [pc : {"idle", "list", "cancel", "write"}, offset : Nat,
               full : BOOLEAN, todo : SUBSET Requests, start : SUBSET Requests]

LEMMA CloserFactsStep ==
  ASSUME IInv, [Next]_vars
  PROVE  CloserFacts' /\ closer' \in CloserType
  <1> USE DEF IInv
  <1>0. /\ TypeOK /\ RequestFacts /\ OrderFacts /\ RowsKept /\ StripeKept
        /\ closer \in CloserType /\ order \in Seq(Requests)
        /\ PageSize \in Nat \ {0} /\ rows \in [Requests -> Rows \cup {None}]
    BY RowsKeptStep, StripeKeptStep, SubscriptionConstants DEF TypeOK, CloserType
  <1> PICK c : c = closer
    OBVIOUS
  <1> PICK d : d = closer'
    OBVIOUS
  <1> SUFFICES GoodCloser(d) /\ d \in CloserType
    BY DEF GoodCloser, CloserFacts, Closed, After, ClosedNext, AfterNext, Key
  <1>1. c \in CloserType /\ c.start \subseteq Requests /\ c.todo \subseteq Requests
        /\ c.offset \in Nat
    BY <1>0 DEF CloserType
  <1>2. ASSUME NEW r \in Requests, Closed(r)
        PROVE  ClosedNext(r)
    BY <1>0, <1>2, InputTypes DEF StripeKept, Closed, ClosedNext
  <1>3. ASSUME NEW r \in Requests, NEW k \in Nat, After(r, k)
        PROVE  AfterNext(r, k)
    BY <1>3, AfterStays DEF AfterNext
  <1>4. ASSUME NEW r \in Requests, rows[r] # None
        PROVE  rows'[r] # None
    BY <1>0, <1>4 DEF RowsKept
  <1>5. c.offset + PageSize \in Nat
    BY <1>0, <1>1
  <1>6. CASE d = c
    <2>1. \A r \in d.start \cup d.todo : rows'[r] # None
      BY <1>1, <1>4, <1>6 DEF CloserFacts
    <2>2. d.pc = "list" =>
            \A r \in d.start : ClosedNext(r) \/ AfterNext(r, d.offset)
      BY <1>1, <1>2, <1>3, <1>6 DEF CloserFacts
    <2>3. d.pc = "cancel" =>
            \A r \in d.start : \/ ClosedNext(r) \/ r \in d.todo
                               \/ d.full /\ AfterNext(r, d.offset + PageSize)
      BY <1>1, <1>2, <1>3, <1>5, <1>6 DEF CloserFacts
    <2>4. d.pc = "write" => \A r \in d.start : ClosedNext(r)
      BY <1>1, <1>2, <1>6 DEF CloserFacts
    <2> QED BY <1>1, <1>6, <2>1, <2>2, <2>3, <2>4 DEF GoodCloser, CloserFacts
  <1>7. CASE d = Resting
    BY <1>7 DEF Resting, GoodCloser, CloserType
  <1>8. CASE CloseStart /\ UNCHANGED <<rows, order>>
    <2> PICK R : R = {r \in Requests : rows[r] # None}
      OBVIOUS
    <2>1. "closer" \in Parties /\ d = [Resting EXCEPT !.pc = "list", !.start = R]
      BY <1>8 DEF CloseStart, Pass
    <2>2. /\ d.pc = "list" /\ d.start = R /\ d.offset = 0 /\ d.todo = {}
          /\ d \in CloserType
      <3>1. d = [pc |-> "list", offset |-> 0, full |-> FALSE, todo |-> {}, start |-> R]
        BY <2>1 DEF Resting
      <3>2. R \in SUBSET Requests /\ {} \in SUBSET Requests /\ 0 \in Nat
        OBVIOUS
      <3> QED BY <3>1, <3>2 DEF CloserType
    <2>3. \A r \in R : AfterNext(r, 0)
      <3> TAKE r \in R
      <3>1. PICK i \in DOMAIN order : order[i] = r
        BY <1>0 DEF OrderFacts
      <3>2. i > 0
        BY <1>0
      <3> QED BY <1>8, <3>1, <3>2 DEF AfterNext
    <2> QED BY <1>8, <2>1, <2>2, <2>3 DEF GoodCloser
  <1>9. CASE CloseList /\ UNCHANGED <<rows, order>>
    <2> PICK P, T, full :
          /\ P = Page /\ T = {r \in P : rows[r].status # "canceled"}
          /\ full = (Cardinality(Page) = PageSize)
      OBVIOUS
    <2>1. c.pc = "list" /\ d = [c EXCEPT !.pc = "cancel", !.full = full, !.todo = T]
      BY <1>9 DEF CloseList, Pass
    <2>2. \A r \in P : r \in Requests /\ rows[r] # None
      <3> TAKE r \in P
      <3>1. PICK i \in DOMAIN order : order[i] = r
        BY DEF Page, Listed
      <3>2. r \in Requests
        BY <1>0, <3>1
      <3> QED BY <3>1, <3>2, <1>0 DEF OrderFacts
    <2>3. full \in BOOLEAN
      OBVIOUS
    <2>4. /\ d.pc = "cancel" /\ d.start = c.start /\ d.offset = c.offset
          /\ d.todo = T /\ d.full = full /\ d \in CloserType
      <3>1. T \in SUBSET Requests
        BY <2>2
      <3> QED BY <1>1, <2>1, <2>3, <3>1 DEF CloserType
    <2>5. ASSUME NEW r \in c.start
          PROVE  ClosedNext(r) \/ r \in T \/ (full /\ AfterNext(r, c.offset + PageSize))
      <3>1. Closed(r) \/ After(r, c.offset)
        BY <2>1 DEF CloserFacts
      <3>2. CASE Closed(r)
        BY <1>1, <1>2, <3>2
      <3>3. CASE r \in P
        BY <1>2, <2>2, <3>3 DEF StatusBackedByStripe, Closed
      <3>4. CASE full /\ After(r, c.offset + PageSize)
        BY <1>1, <1>3, <1>5, <3>4
      <3> QED BY <1>0, <3>1, <3>2, <3>3, <3>4, PageStep
    <2> QED BY <1>9, <2>1, <2>2, <2>4, <2>5 DEF GoodCloser, CloserFacts
  <1>10. CASE CloseJoin /\ UNCHANGED <<rows, order>>
    <2>1. /\ c.pc = "cancel" /\ c.todo = {}
          /\ d = IF c.full THEN [c EXCEPT !.pc = "list", !.offset = c.offset + PageSize]
                           ELSE [c EXCEPT !.pc = "write"]
      BY <1>10 DEF CloseJoin, Pass
    <2>2. /\ d.start = c.start /\ d.todo = {} /\ d \in CloserType
          /\ c.full => d.pc = "list" /\ d.offset = c.offset + PageSize
          /\ ~c.full => d.pc = "write"
      BY <1>1, <1>5, <2>1 DEF CloserType
    <2>3. \A r \in c.start :
            ClosedNext(r) \/ (c.full /\ AfterNext(r, c.offset + PageSize))
      BY <1>1, <1>2, <1>3, <1>5, <2>1 DEF CloserFacts
    <2>4. \A r \in c.start : rows'[r] # None
      BY <1>10, <2>1 DEF CloserFacts
    <2> QED BY <2>1, <2>2, <2>3, <2>4 DEF GoodCloser, CloserFacts
  <1>11. ASSUME NEW r \in Requests, NEW fate \in Fates, UNCHANGED <<rows, order>>,
                CloseCancel(r, fate), Tolerated("closer", Heard(Key(r), fate)),
                d = [c EXCEPT !.todo = @ \ {r}]
         PROVE  GoodCloser(d) /\ d \in CloserType
    <2>1. c.pc = "cancel" /\ r \in c.todo /\ CallCancel("closer", r, fate)
      BY <1>11 DEF CloseCancel
    <2>2. rows[r] # None
      BY <2>1 DEF CloserFacts
    <2>3. ClosedNext(r)
      BY <1>0, <1>11, <2>1, <2>2, CancelStep DEF ClosedNext
    <2>4. /\ d.pc = "cancel" /\ d.start = c.start /\ d.offset = c.offset
          /\ d.todo = c.todo \ {r} /\ d.full = c.full /\ d \in CloserType
      BY <1>1, <1>11, <2>1 DEF CloserType
    <2>5. \A q \in c.start :
            ClosedNext(q) \/ q \in c.todo \/ (c.full /\ AfterNext(q, c.offset + PageSize))
      BY <1>1, <1>2, <1>3, <1>5, <2>1 DEF CloserFacts
    <2>6. \A q \in c.start \cup c.todo : rows'[q] # None
      BY <1>11 DEF CloserFacts
    <2>7. "closer" \in Parties
      BY <2>1 DEF CloserFacts
    <2> QED BY <2>3, <2>4, <2>5, <2>6, <2>7 DEF GoodCloser
  <1> QED BY <1>6, <1>7, <1>8, <1>9, <1>10, <1>11, CloserSources

-----------------------------------------------------------------------------
(* The rest of the type invariant. *)

LEMMA RowsType ==
  ASSUME IInv, [Next]_vars
  PROVE  rows' \in [Requests -> Rows \cup {None}]
  <1> USE DEF IInv
  <1>0. TypeOK /\ rows \in [Requests -> Rows \cup {None}] /\ events \subseteq Events
    BY DEF TypeOK
  <1>1. CASE rows' = rows
    BY <1>0, <1>1
  <1>2. ASSUME NEW r \in Requests, Insert(r)
        PROVE  rows' \in [Requests -> Rows \cup {None}]
    <2>1. rows' = [rows EXCEPT ![r] = NewRow(r)]
      BY <1>2 DEF Insert
    <2>2. NewRow(r) \in Rows
      BY <1>2, InsertRow
    <2> QED BY <1>0, <2>1, <2>2
  <1>3. ASSUME NEW party, NEW r \in Requests, Mark(party, r)
        PROVE  rows' \in [Requests -> Rows \cup {None}]
    <2>1. rows' = [rows EXCEPT ![r] = rows'[r]]
      BY <1>0, <1>3 DEF Mark
    <2> QED BY <1>0, <1>3, <2>1, MarkRow
  <1>4. ASSUME NEW w \in Workers, NEW e \in events, HookStamp(w, e)
        PROVE  rows' \in [Requests -> Rows \cup {None}]
    <2>1. rows' = [r \in Requests |-> rows'[r]]
      BY <1>4 DEF HookStamp
    <2>2. \A r \in Requests : rows'[r] \in Rows \cup {None}
      BY <1>0, <1>4, StampRow
    <2> QED BY <2>1, <2>2
  <1>5. ASSUME NEW w \in Workers, NEW e \in events, SetStatus(w, e)
        PROVE  rows' \in [Requests -> Rows \cup {None}]
    <2>1. rows' = [r \in Requests |-> rows'[r]]
      BY <1>5 DEF SetStatus
    <2>2. \A r \in Requests : rows'[r] \in Rows \cup {None}
      BY <1>0, <1>5, StatusRow
    <2> QED BY <2>1, <2>2
  <1> QED BY <1>1, <1>2, <1>3, <1>4, <1>5, RowSources

ReqType == [pc : {"start", "customer", "persist", "price", "heal", "subscribe",
                  "insert", "done", "failed"},
            cus : Requests \cup {Customer0, None}]

LEMMA GotoType ==
  ASSUME req \in [Requests -> ReqType], NEW r \in Requests, NEW pc,
         Goto(r, pc),
         pc \in {"start", "customer", "persist", "price", "heal", "subscribe",
                 "insert", "done", "failed"}
  PROVE  req' \in [Requests -> ReqType]
  <1>1. req[r] \in ReqType
    OBVIOUS
  <1>2. [req[r] EXCEPT !.pc = pc] \in ReqType
    BY <1>1 DEF ReqType
  <1>3. req' = [req EXCEPT ![r] = [req[r] EXCEPT !.pc = pc]]
    BY DEF Goto
  <1> QED BY <1>2, <1>3

LEMMA RequestTypes ==
  ASSUME TypeOK, [Next]_vars
  PROVE  /\ req' \in [Requests -> ReqType]
         /\ customerID' \in [Users -> Requests \cup {Customer0, None}]
  <1>0. /\ req \in [Requests -> ReqType]
        /\ customerID \in [Users -> Requests \cup {Customer0, None}]
    BY DEF TypeOK, ReqType
  <1>1. ASSUME NEW r \in Requests, Create(r)
        PROVE  /\ req' \in [Requests -> ReqType]
               /\ customerID' \in [Users -> Requests \cup {Customer0, None}]
    <2>0. Input[r].user \in Users /\ req[r] \in ReqType
      BY <1>0, InputTypes
    <2>1. CASE Load(r)
      <3>1. PICK x : x = [pc |-> IF customerID[Input[r].user] = None
                                   THEN "customer" ELSE "price",
                          cus |-> customerID[Input[r].user]]
        OBVIOUS
      <3>2. x \in ReqType
        BY <1>0, <2>0, <3>1 DEF ReqType
      <3>3. req' = [req EXCEPT ![r] = x] /\ customerID' = customerID
        BY <2>1, <3>1 DEF Load
      <3> QED BY <1>0, <3>2, <3>3
    <2>2. CASE CreateCustomer(r)
      <3>1. [pc |-> "persist", cus |-> r] \in ReqType
        BY DEF ReqType
      <3> QED BY <1>0, <2>2, <3>1 DEF CreateCustomer
    <2>3. CASE PersistCustomer(r)
      <3>1. req[r].cus \in Requests \cup {Customer0, None}
        BY <2>0 DEF ReqType
      <3> QED BY <1>0, <2>0, <2>3, <3>1, GotoType DEF PersistCustomer
    <2>4. CASE Price(r)
      BY <1>0, <2>4, GotoType DEF Price
    <2>5. CASE Heal(r)
      BY <1>0, <2>5, GotoType DEF Heal
    <2>6. ASSUME NEW outcome \in Outcomes, NEW lost \in BOOLEAN, Subscribe(r, outcome, lost)
          PROVE  req' \in [Requests -> ReqType] /\ customerID' = customerID
      BY <1>0, <2>6, GotoType DEF Subscribe
    <2>7. CASE ReplaySubscribe(r)
      BY <1>0, <2>7, GotoType DEF ReplaySubscribe
    <2>8. CASE Insert(r)
      BY <1>0, <2>8, GotoType DEF Insert
    <2>9. CASE Abort(r)
      BY <1>0, <2>9, GotoType DEF Abort
    <2> QED BY <1>0, <1>1, <2>1, <2>2, <2>3, <2>4, <2>5, <2>6, <2>7, <2>8, <2>9
            DEF Create, Outcomes
  <1>2. CASE ~\E r \in Requests : Create(r)
    BY <1>0, <1>2, StripeFrame, DonorFrame, CloserFrame, WebhookFrame DEF Next, vars
  <1> QED BY <1>1, <1>2

InitiativeType == [status : {"published", "hidden"}, acceptFunding : BOOLEAN,
                   product : {"none", "stale", "live"}]

LEMMA InitiativeTypes ==
  ASSUME TypeOK, [Next]_vars
  PROVE  initiative' \in InitiativeType
  <1>0. initiative \in InitiativeType
    BY DEF TypeOK, InitiativeType
  <1>1. [initiative EXCEPT !.product = "live"] \in InitiativeType
    BY <1>0 DEF InitiativeType
  <1>2. /\ [initiative EXCEPT !.status = "hidden"] \in InitiativeType
        /\ [initiative EXCEPT !.status = "published"] \in InitiativeType
    BY <1>0 DEF InitiativeType
  <1>3. ASSUME NEW r \in Requests, Create(r)
        PROVE  initiative' \in InitiativeType
    BY <1>0, <1>1, <1>3 DEF Create, Load, CreateCustomer, PersistCustomer, Price,
       Heal, Subscribe, ReplaySubscribe, Insert, Abort
  <1>4. CASE Closer
    BY <1>0, <1>2, <1>4 DEF Closer, CloseStart, CloseList, CloseJoin, CloseWrite,
       CloseFail, Reopen, CloseCancel, CallCancel, Mark
  <1> QED BY <1>0, <1>3, <1>4, StripeFrame, DonorFrame, WebhookFrame DEF Next, vars

LEMMA MailedType ==
  ASSUME IInv, [Next]_vars
  PROVE  mailed' \subseteq events'
  <1> USE DEF IInv
  <1>0. mailed \subseteq events /\ events \subseteq events'
    BY StripeKeptStep DEF TypeOK, StripeKept
  <1>1. ASSUME NEW w \in Workers, Webhook(w)
        PROVE  mailed' \subseteq events
    <2>1. CASE HookEmail(w)
      <3>1. hook[w].ev \in events
        BY <2>1 DEF HookEmail, HookFacts
      <3> QED BY <1>0, <2>1, <3>1 DEF HookEmail
    <2> QED BY <1>0, <1>1, <2>1 DEF Webhook, Deliver, Proceed, HookIgnore, HookStamp,
               HookOther, HookPaid, HookCrash, SetStatus
  <1> QED BY <1>0, <1>1, CreateFrame, StripeFrame, DonorFrame, CloserFrame DEF Next, vars

LEMMA TypeStep ==
  ASSUME IInv, [Next]_vars
  PROVE  TypeOK'
  <1>1. TypeOK /\ StripeKept
    BY StripeKeptStep DEF IInv
  <1>2. acked' \subseteq events'
    BY <1>1, AckStep DEF StripeKept
  <1>3. /\ hook' \in [Workers -> [pc : {"status", "email"}, ev : Events] \cup {Idle}]
        /\ order' \in Seq(Requests)
        /\ marking' \subseteq Parties \X Requests
        /\ closer' \in CloserType
    BY HookFactsStep, OrderFactsStep, MarkFactsStep, CloserFactsStep
  <1> QED BY <1>1, <1>2, <1>3, RowsType, RequestTypes, InitiativeTypes, MailedType,
             StripeTypes
          DEF TypeOK, CloserType, InitiativeType, ReqType

-----------------------------------------------------------------------------
(* The invariant and what follows from it. *)

LEMMA InitInductive ==
  ASSUME Init
  PROVE  IInv
  <1> USE SubscriptionConstants
  <1>0. closer = Resting /\ marking = {} /\ order = <<>> /\ events = {} /\ acked = {}
        /\ mailed = {} /\ rows = [r \in Requests |-> None]
    BY DEF Init
  <1>1. TypeOK
    <2>1. 0 \in 0..MaxInvoices
      OBVIOUS
    <2>2. PICK fresh : fresh = [status |-> "absent", created |-> "none",
                                by |-> None, cus |-> None, n |-> 0]
      OBVIOUS
    <2>3. fresh \in StripeState
      BY <2>1, <2>2 DEF StripeState
    <2>4. stripe \in [Subs -> StripeState]
      BY <2>2, <2>3 DEF Init
    <2>5. /\ req \in [Requests -> ReqType] /\ initiative \in InitiativeType
          /\ customerID \in [Users -> Requests \cup {Customer0, None}]
      BY DEF Init, ReqType, InitiativeType
    <2>6. Resting \in CloserType
      BY DEF Resting, CloserType
    <2>7. hook \in [Workers -> {Idle}]
      BY DEF Init
    <2> QED BY <1>0, <2>4, <2>5, <2>6, <2>7 DEF TypeOK, ReqType, InitiativeType, CloserType
  <1>2. StripeFacts
    <2>1. \A s \in Subs : stripe[s].status = "absent" /\ stripe[s].created = "none"
      BY DEF Init
    <2> QED BY <1>0, <2>1 DEF StripeFacts, Charged
  <1>3. RequestFacts
    BY DEF Init, RequestFacts
  <1>4. EventFacts /\ MarkFacts /\ PaymentRecorded
    BY <1>0 DEF EventFacts, MarkFacts, PaymentRecorded
  <1>5. HookFacts
    BY DEF Init, HookFacts, Idle
  <1>6. OrderFacts /\ StatusBackedByStripe
    BY <1>0 DEF OrderFacts, StatusBackedByStripe
  <1>7. CloserFacts
    BY <1>0 DEF Resting, CloserFacts
  <1> QED BY <1>1, <1>2, <1>3, <1>4, <1>5, <1>6, <1>7 DEF IInv

LEMMA InductiveStep ==
  ASSUME IInv, [Next]_vars
  PROVE  IInv'
  BY TypeStep, RequestFactsStep, StripeFactsStep, StripeTypes, MarkFactsStep,
     HookFactsStep, OrderFactsStep, CloserFactsStep, StatusBackedStep,
     PaymentRecordedStep
     DEF IInv

(* Every reachable state satisfies the inductive invariant: the control    *)
(* state of the requests, handlers and cancellations agrees with the       *)
(* tables and with Stripe.                                                 *)
THEOREM Invariance == Spec => []IInv
  <1>1. Init => IInv
    BY InitInductive
  <1>2. IInv /\ [Next]_vars => IInv'
    BY InductiveStep
  <1> QED BY <1>1, <1>2, PTL DEF Spec

(* Every variable keeps its type. *)
THEOREM TypeCorrect == Spec => []TypeOK
  <1>1. IInv => TypeOK
    BY DEF IInv
  <1> QED BY <1>1, Invariance, PTL

(* What a row of the subscriptions table says is backed by what happened   *)
(* at Stripe, whichever of the insert, the webhooks, the donor's           *)
(* cancellation and the closing pass wrote it, and in whatever order.      *)
THEOREM RowsAreBacked == Spec => []StatusBackedByStripe
  <1>1. IInv => StatusBackedByStripe
    BY DEF IInv
  <1> QED BY <1>1, Invariance, PTL

(* A paid invoice whose event was answered 200 has left first_paid_at on   *)
(* some row of its subscription, if there is any, even when the webhook    *)
(* came before the insert.                                                 *)
THEOREM PaymentIsNotForgotten == Spec => []PaymentRecorded
  <1>1. IInv => PaymentRecorded
    BY DEF IInv
  <1> QED BY <1>1, Invariance, PTL

(* No step of any handler drops a row, clears first_paid_at or returns a   *)
(* row to incomplete.                                                      *)
THEOREM RowsOnlyMoveForward == Spec => RowsMoveForward
  <1> DEFINE Forward == \A r \in Requests : rows[r] # None =>
                          /\ rows'[r] # None
                          /\ rows[r].paid => rows'[r].paid
                          /\ rows[r].status # "incomplete" => rows'[r].status # "incomplete"
  <1>1. IInv /\ [Next]_vars => [Forward]_rows
    BY RowsKeptStep DEF RowsKept
  <1> QED BY <1>1, Invariance, PTL DEF Spec, RowsMoveForward

(* When the pass writes hidden, every subscription that had a row when it  *)
(* began has ended at Stripe, for every page size and for rows inserted    *)
(* while the pass turns its pages.                                         *)
THEOREM HidingCancelsTheRowsItFound == Spec => ClosePassIsComplete
  <1> DEFINE Complete == closer.pc = "write" /\ initiative'.status = "hidden" =>
                           \A r \in closer.start : stripe[Key(r)].status \in Terminal
  <1>1. IInv => [Complete]_vars
    BY DEF IInv, CloserFacts, Closed
  <1> QED BY <1>1, Invariance, PTL DEF ClosePassIsComplete

-----------------------------------------------------------------------------
(* Subscriptions implements SubscriptionBook: a step of a request, of      *)
(* Stripe, a cancellation, the pass or a webhook delivery is one step of   *)
(* the book or none.                                                       *)

SubOf   == [r \in Requests |-> Key(r)]
Opened  == {s \in Subs : stripe[s].status # "absent"}
Paying  == {s \in Subs : Charged(s)}
Lapsed  == {s \in Subs : \E n \in 2..MaxInvoices : Failed(s, n) \in events}
Ended   == {s \in Subs : stripe[s].status \in Terminal}
Passing == closer.pc # "idle"
Watched == closer.start
Hidden  == initiative.status = "hidden"

(* What each kind of step leaves alone. *)
StripeStays == Opened' = Opened /\ Paying' = Paying /\ Lapsed' = Lapsed /\ Ended' = Ended
PassStays   == Passing' = Passing /\ Watched' = Watched /\ Hidden' = Hidden

LEMMA SameStripe == ASSUME UNCHANGED <<stripe, events>> PROVE StripeStays
  BY DEF StripeStays, Opened, Paying, Lapsed, Ended, Charged

LEMMA SamePass == ASSUME closer' = closer, initiative'.status = initiative.status
                  PROVE  PassStays
  BY DEF PassStays, Passing, Watched, Hidden

LEMMA BookStutter ==
  ASSUME StripeStays, PassStays, rows' = rows
  PROVE  UNCHANGED Book!vars
  BY DEF StripeStays, PassStays, Book!vars, Book!stripeVars, Book!passVars,
     Opened, Paying, Lapsed, Ended, Passing, Watched, Hidden

LEMMA PaidGrows ==
  ASSUME NEW s \in Subs, NEW n, events' = events \cup {Paid(s, n)}
  PROVE  Paying' = Paying \cup {s} /\ Lapsed' = Lapsed
  <1>1. Paid(s, n).sub = s /\ Paid(s, n).type = "paid"
    BY DEF Paid
  <1>2. \A t, m : Paid(s, n) # Failed(t, m)
    BY DEF Paid, Failed
  <1>3. \A t : Charged(t)' <=> Charged(t) \/ t = s
    BY <1>1 DEF Charged
  <1>4. Paying' = Paying \cup {s}
    BY <1>3 DEF Paying
  <1>5. Lapsed' = Lapsed
    BY <1>2 DEF Lapsed
  <1> QED BY <1>4, <1>5

LEMMA FailedGrows ==
  ASSUME NEW s \in Subs, NEW n \in 0..MaxInvoices, events' = events \cup {Failed(s, n)}
  PROVE  /\ Paying' = Paying
         /\ Lapsed' = IF n >= 2 THEN Lapsed \cup {s} ELSE Lapsed
  <1>1. Failed(s, n).type # "paid"
    BY DEF Failed
  <1>2. \A t, m : Failed(s, n) = Failed(t, m) <=> t = s /\ m = n
    BY DEF Failed
  <1>3. Paying' = Paying
    BY <1>1 DEF Paying, Charged
  <1>4. n >= 2 <=> n \in 2..MaxInvoices
    BY SubscriptionConstants
  <1>5. Lapsed' = IF n \in 2..MaxInvoices THEN Lapsed \cup {s} ELSE Lapsed
    BY <1>2 DEF Lapsed
  <1> QED BY <1>3, <1>4, <1>5

LEMMA CanceledGrows ==
  ASSUME NEW s \in Subs, events' = events \cup {Canceled(s)}
  PROVE  Paying' = Paying /\ Lapsed' = Lapsed
  <1>1. Canceled(s).type # "paid" /\ \A t, m : Canceled(s) # Failed(t, m)
    BY DEF Canceled, Failed
  <1> QED BY <1>1 DEF Paying, Charged, Lapsed

(* A live subscription changes its status. *)
LEMMA StatusMaps ==
  ASSUME TypeOK, NEW s \in Subs, stripe[s].status \in Live,
         NEW status \in Live \cup Terminal, stripe'[s].status = status,
         \A t \in Subs \ {s} : stripe'[t] = stripe[t]
  PROVE  /\ s \in Opened \ Ended
         /\ Opened' = Opened
         /\ Ended' = IF status \in Terminal THEN Ended \cup {s} ELSE Ended
  <1>1. status # "absent" /\ stripe[s].status # "absent" /\ stripe[s].status \notin Terminal
    BY DEF Live, Terminal
  <1>2. Opened' = Opened
    BY <1>1 DEF Opened
  <1>3. Ended' = IF status \in Terminal THEN Ended \cup {s} ELSE Ended
    BY <1>1 DEF Ended
  <1> QED BY <1>1, <1>2, <1>3 DEF Opened, Ended

LEMMA EndMaps ==
  ASSUME NEW s \in Opened \ Ended, Ended' = Ended \cup {s},
         Opened' = Opened, Paying' = Paying, Lapsed' = Lapsed, rows' = rows,
         PassStays \/ (Passing' = FALSE /\ Watched' = {} /\ Hidden' = Hidden)
  PROVE  Book!End(s)
  BY DEF Book!End, Book!NoPass, Book!passVars, PassStays, Opened, Paying, Lapsed, Ended,
     Passing, Watched, Hidden

LEMMA StripeMaps ==
  ASSUME IInv, NEW s \in Subs, Stripe(s)
  PROVE  [Book!Next]_Book!vars
  <1>0. /\ TypeOK /\ s \in Subs /\ stripe[s].n \in 0..MaxInvoices
        /\ stripe[s].status \in Live => stripe[s].n >= 1
        /\ 1 \in 0..MaxInvoices
    BY SubscriptionConstants DEF IInv, TypeOK, StripeState, StripeFacts, Live
  <1>1. rows' = rows /\ PassStays
    BY StripeFrame, SamePass DEF tableVars, cancelVars
  <1> DEFINE Pays(n) == Bill(s, "active", n, {Paid(s, n)})
             Fails(status, n) == Bill(s, status, n, {Failed(s, n)})
             Stops(status, ev) == Bill(s, status, stripe[s].n, ev)
  <1>2. ASSUME NEW status \in Live \cup Terminal, NEW n \in 0..MaxInvoices, NEW ev,
               Bill(s, status, n, ev), stripe[s].status \in Live
        PROVE  /\ s \in Opened \ Ended /\ Opened' = Opened
               /\ Ended' = IF status \in Terminal THEN Ended \cup {s} ELSE Ended
               /\ events' = events \cup ev
    <2>1. stripe' = [stripe EXCEPT ![s].status = status, ![s].n = n] /\ events' = events \cup ev
      BY <1>2 DEF Bill
    <2>2. stripe'[s].status = status /\ \A t \in Subs \ {s} : stripe'[t] = stripe[t]
      BY <1>0, <2>1 DEF TypeOK, StripeState
    <2> QED BY <1>0, <1>2, <2>1, <2>2, StatusMaps
  <1>3. ASSUME NEW n \in 0..MaxInvoices, Pays(n), stripe[s].status \in Live
        PROVE  Book!Bill(s)
    <2>1. /\ s \in Opened \ Ended /\ Opened' = Opened /\ Ended' = Ended
          /\ Paying' = Paying \cup {s} /\ Lapsed' = Lapsed
      BY <1>2, <1>3, PaidGrows DEF Live, Terminal
    <2> QED BY <1>1, <2>1 DEF Book!Bill, Book!passVars, PassStays, Opened, Paying,
               Lapsed, Ended, Passing, Watched, Hidden
  <1>4. ASSUME NEW n \in 0..MaxInvoices, n >= 2, Fails("past_due", n), stripe[s].status \in Live
        PROVE  Book!Bill(s)
    <2>1. /\ s \in Opened \ Ended /\ Opened' = Opened /\ Ended' = Ended
          /\ Lapsed' = Lapsed \cup {s} /\ Paying' = Paying
      BY <1>2, <1>4, FailedGrows DEF Live, Terminal
    <2> QED BY <1>1, <2>1 DEF Book!Bill, Book!passVars, PassStays, Opened, Paying,
               Lapsed, Ended, Passing, Watched, Hidden
  <1>5. ASSUME Bill(s, "incomplete", 1, {Failed(s, 1)}), stripe[s].status \in Live
        PROVE  UNCHANGED Book!vars
    <2>1. Opened' = Opened /\ Ended' = Ended /\ events' = events \cup {Failed(s, 1)}
      BY <1>0, <1>2, <1>5 DEF Live, Terminal
    <2>2. Paying' = Paying /\ Lapsed' = Lapsed
      BY <1>0, <2>1, FailedGrows
    <2> QED BY <1>1, <2>1, <2>2, BookStutter DEF StripeStays
  <1>6. ASSUME NEW status \in Terminal, NEW n \in 0..MaxInvoices,
               NEW ev \in {{}, {Canceled(s)}}, Bill(s, status, n, ev),
               stripe[s].status \in Live
        PROVE  Book!End(s)
    <2>1. /\ s \in Opened \ Ended /\ Opened' = Opened /\ Ended' = Ended \cup {s}
          /\ events' = events \cup ev
      BY <1>2, <1>6
    <2>2. Paying' = Paying /\ Lapsed' = Lapsed
      <3>1. CASE ev = {}
        BY <2>1, <3>1 DEF Paying, Lapsed, Charged
      <3>2. CASE ev = {Canceled(s)}
        BY <2>1, <3>2, CanceledGrows
      <3> QED BY <3>1, <3>2
    <2> QED BY <1>1, <2>1, <2>2, EndMaps
  <1>7. CASE PayFirst(s)
    BY <1>0, <1>3, <1>7 DEF PayFirst, Live, Book!Next
  <1>8. CASE DeclineFirst(s)
    BY <1>5, <1>8 DEF DeclineFirst, Live
  <1>9. CASE ExpireFirst(s)
    <2>1. \E dated \in BOOLEAN :
            Bill(s, "incomplete_expired", 1, IF dated THEN {Canceled(s)} ELSE {})
      BY <1>9 DEF ExpireFirst
    <2>2. \E ev \in {{}, {Canceled(s)}} : Bill(s, "incomplete_expired", 1, ev)
      BY <2>1
    <2> QED BY <1>0, <1>6, <1>9, <2>2 DEF ExpireFirst, Live, Terminal, Book!Next
  <1>10. CASE Renew(s)
    <2> DEFINE n == stripe[s].n + 1
    <2>1. stripe[s].status \in Live /\ stripe[s].n >= 1 /\ stripe[s].n < MaxInvoices
      BY <1>0, <1>10 DEF Renew, Live
    <2>2. n \in 0..MaxInvoices /\ n >= 2
      BY <1>0, <2>1, SubscriptionConstants
    <2>3. Pays(n) \/ Fails("past_due", n)
      BY <1>10 DEF Renew
    <2> HIDE DEF n, Pays, Fails
    <2>4. Book!Bill(s)
      BY <1>3, <1>4, <2>1, <2>2, <2>3
    <2> QED BY <2>4 DEF Book!Next
  <1>11. CASE Collect(s)
    BY <1>0, <1>3, <1>11 DEF Collect, Live, Book!Next
  <1>12. CASE GiveUp(s)
    BY <1>0, <1>6, <1>12 DEF GiveUp, Terminal, Book!Next
  <1> QED BY <1>7, <1>8, <1>9, <1>10, <1>11, <1>12 DEF Stripe

LEMMA CreateMaps ==
  ASSUME IInv, NEW r \in Requests, Create(r)
  PROVE  [Book!Next]_Book!vars
  <1>0. TypeOK /\ Key(r) \in Subs /\ SubOf[r] = Key(r)
    BY InputTypes DEF IInv, SubOf
  <1>1. PassStays
    <2>1. closer' = closer
      BY CreateFrame, <1>0 DEF cancelVars
    <2>2. initiative'.status = initiative.status
      BY <1>0 DEF Create, Load, CreateCustomer, PersistCustomer, Price, Heal,
         Subscribe, ReplaySubscribe, Insert, Abort, TypeOK
    <2> QED BY <2>1, <2>2, SamePass
  <1>2. ASSUME NEW outcome \in Outcomes, NEW lost \in BOOLEAN, Subscribe(r, outcome, lost)
        PROVE  Book!Open(Key(r))
    <2> DEFINE s == Key(r)
    <2>1. /\ stripe[s].status = "absent" /\ stripe'[s].status = outcome
          /\ \A t \in Subs \ {s} : stripe'[t] = stripe[t]
          /\ events' = IF outcome = "active" THEN events \cup {Paid(s, 1)} ELSE events
      BY <1>0, <1>2, SubscribeSub
    <2>2. rows' = rows
      BY <1>2 DEF Subscribe, tableVars
    <2>3. outcome \notin Terminal /\ "absent" \notin Terminal /\ outcome # "absent"
      BY DEF Outcomes, Terminal
    <2> HIDE DEF s
    <2>4. s \in Subs
      BY <1>0 DEF s
    <2>5. s \notin Opened /\ Opened' = Opened \cup {s} /\ Ended' = Ended
      BY <2>1, <2>3, <2>4 DEF Opened, Ended
    <2>6. Lapsed' = Lapsed /\ (Paying' = Paying \/ Paying' = Paying \cup {s})
      <3>1. CASE outcome = "active"
        BY <2>1, <2>4, <3>1, PaidGrows
      <3>2. CASE outcome # "active"
        BY <2>1, <3>2 DEF Paying, Lapsed, Charged
      <3> QED BY <3>1, <3>2
    <2>7. Book!Open(s)
      BY <1>1, <2>2, <2>5, <2>6 DEF Book!Open, Book!passVars, PassStays, Opened, Paying,
         Lapsed, Ended, Passing, Watched, Hidden
    <2> QED BY <2>7 DEF s
  <1>3. CASE Insert(r)
    <2> DEFINE s == Key(r)
    <2>1. /\ rows[r] = None /\ rows'[r] = NewRow(r)
          /\ \A q \in Requests \ {r} : rows'[q] = rows[q]
      BY <1>3, InsertRow
    <2>2. /\ stripe[s].status # "absent"
          /\ stripe[s].created \in {"incomplete", "active"}
          /\ stripe[s].created = "active" => Charged(s)
      BY <1>0, <1>3 DEF IInv, RequestFacts, StripeFacts, Insert, TypeOK, StripeState
    <2>3. rows' = [rows EXCEPT ![r] = NewRow(r)] /\ UNCHANGED <<stripe, events>>
      BY <1>3 DEF Insert
    <2>4. SubOf[r] \in Opened /\ (stripe[s].created = "active" => SubOf[r] \in Paying)
      BY <1>0, <2>2 DEF Opened, Paying
    <2>5. \/ NewRow(r) = [status |-> "incomplete", paid |-> FALSE]
          \/ NewRow(r) = [status |-> "active", paid |-> TRUE] /\ SubOf[r] \in Paying
      BY <2>2, <2>4 DEF NewRow
    <2>6. StripeStays
      BY <2>3, SameStripe
    <2>7. Book!Record(r)
      BY <1>1, <2>1, <2>3, <2>4, <2>5, <2>6 DEF Book!Record, Book!stripeVars, Book!passVars,
         StripeStays, PassStays, SubOf, Opened, Paying, Lapsed, Ended, Passing, Watched, Hidden
    <2> QED BY <2>7 DEF Book!Next
  <1>4. CASE UNCHANGED <<stripe, events>> /\ rows' = rows
    BY <1>1, <1>4, SameStripe, BookStutter
  <1>5. CASE \E outcome \in Outcomes, lost \in BOOLEAN : Subscribe(r, outcome, lost)
    BY <1>0, <1>2, <1>5 DEF Book!Next
  <1> QED BY <1>0, <1>3, <1>4, <1>5, CreateFrame DEF tableVars

LEMMA MarkMaps ==
  ASSUME IInv, NEW party, NEW r \in Requests, Mark(party, r)
  PROVE  Book!Close(r)
  <1>1. rows[r] # None /\ Closed(r)
    BY MarkRow
  <1>2. SubOf[r] \in Ended
    BY <1>1, InputTypes DEF SubOf, Ended, Closed
  <1>3. rows' = [rows EXCEPT ![r].status = "canceled"] /\ StripeStays /\ PassStays
    BY SameStripe, SamePass DEF Mark
  <1> QED BY <1>1, <1>2, <1>3 DEF Book!Close, Book!stripeVars, Book!passVars, StripeStays,
             PassStays, SubOf, Opened, Paying, Lapsed, Ended, Passing, Watched, Hidden

(* A cancellation ends the subscription or changes nothing at Stripe. *)
LEMMA CallMaps ==
  ASSUME IInv, NEW r \in Requests, rows[r] # None, NEW party \in {"donor", "closer"},
         NEW fate \in Fates, CallCancel(party, r, fate)
  PROVE  \/ StripeStays
         \/ /\ Key(r) \in Opened \ Ended /\ Ended' = Ended \cup {Key(r)}
            /\ Opened' = Opened /\ Paying' = Paying /\ Lapsed' = Lapsed
  <1>0. TypeOK /\ RequestFacts /\ Key(r) \in Subs
    BY InputTypes DEF IInv
  <1>1. CASE UNCHANGED <<stripe, events>>
    BY <1>1, SameStripe
  <1>2. ASSUME stripe[Key(r)].status \in Live,
               stripe' = [stripe EXCEPT ![Key(r)].status = "canceled"],
               events' = events \cup {Canceled(Key(r))}
        PROVE  /\ Key(r) \in Opened \ Ended /\ Ended' = Ended \cup {Key(r)}
               /\ Opened' = Opened /\ Paying' = Paying /\ Lapsed' = Lapsed
    <2>1. Called(r) /\ "canceled" \in Terminal
      BY <1>2 DEF Called, Terminal
    <2>2. /\ stripe'[Key(r)].status = "canceled"
          /\ \A t \in Subs \ {Key(r)} : stripe'[t] = stripe[t]
      BY <1>0, <2>1, CalledSub
    <2> QED BY <1>0, <1>2, <2>1, <2>2, StatusMaps, CanceledGrows
  <1> QED BY <1>0, <1>1, <1>2, CancelStep

LEMMA DonorMaps ==
  ASSUME IInv, Donor
  PROVE  [Book!Next]_Book!vars
  <1>0. PassStays
    BY DonorFrame, SamePass
  <1>1. ASSUME NEW r \in Requests, NEW fate \in Fates, Cancel(r, fate)
        PROVE  [Book!Next]_Book!vars
    <2>1. rows[r] # None /\ CallCancel("donor", r, fate) /\ rows' = rows
      BY <1>1 DEF Cancel, CallCancel, tableVars
    <2>2. CASE StripeStays
      BY <1>0, <2>1, <2>2, BookStutter
    <2>3. CASE ~StripeStays
      <3>1. Key(r) \in Subs /\ Book!End(Key(r))
        BY <1>0, <2>1, <2>3, CallMaps, EndMaps, InputTypes
      <3> QED BY <3>1 DEF Book!Next
    <2> QED BY <2>2, <2>3
  <1>2. ASSUME NEW r \in Requests, Mark("donor", r)
        PROVE  [Book!Next]_Book!vars
    BY <1>2, MarkMaps DEF Book!Next
  <1>3. ASSUME NEW r \in Requests, Unmarked(r)
        PROVE  [Book!Next]_Book!vars
    BY <1>0, <1>3, SameStripe, BookStutter DEF Unmarked, tableVars
  <1> QED BY <1>1, <1>2, <1>3 DEF Donor

LEMMA CloserMaps ==
  ASSUME IInv, Closer
  PROVE  [Book!Next]_Book!vars
  <1>0. /\ TypeOK /\ CloserFacts
        /\ closer \in CloserType /\ initiative \in InitiativeType
        /\ Resting.pc = "idle" /\ Resting.start = {}
    BY DEF IInv, TypeOK, CloserType, InitiativeType, Resting
  <1>1. CASE CloseStart
    <2>1. /\ closer.pc = "idle" /\ initiative.status = "published"
          /\ closer'.pc = "list" /\ closer'.start = {r \in Requests : rows[r] # None}
          /\ initiative' = initiative /\ rows' = rows /\ UNCHANGED <<stripe, events>>
      BY <1>1 DEF CloseStart, Pass, Resting, tableVars
    <2>2. StripeStays
      BY <2>1, SameStripe
    <2>3. Book!Begin
      BY <2>1, <2>2 DEF Book!Begin, Book!stripeVars, StripeStays, Opened, Paying, Lapsed,
         Ended, Passing, Watched, Hidden
    <2> QED BY <2>3 DEF Book!Next
  <1>2. CASE CloseList \/ CloseJoin
    <2>1. /\ closer.pc # "idle" /\ closer'.pc # "idle" /\ closer'.start = closer.start
          /\ initiative' = initiative /\ rows' = rows /\ UNCHANGED <<stripe, events>>
      BY <1>0, <1>2 DEF CloseList, CloseJoin, Pass, CloserType, tableVars
    <2>2. PassStays
      BY <2>1 DEF PassStays, Passing, Watched, Hidden
    <2> QED BY <2>1, <2>2, SameStripe, BookStutter
  <1>3. CASE CloseWrite
    <2>1. /\ closer.pc = "write" /\ closer' = Resting /\ initiative'.status = "hidden"
          /\ rows' = rows /\ UNCHANGED <<stripe, events>>
      BY <1>0, <1>3 DEF CloseWrite, Pass, InitiativeType, tableVars
    <2>2. \A r \in Watched : r \in Requests /\ SubOf[r] \in Ended
      BY <1>0, <2>1, InputTypes DEF Watched, CloserFacts, CloserType, Closed, SubOf, Ended
    <2>3. StripeStays
      BY <2>1, SameStripe
    <2>4. Book!Hide
      BY <1>0, <2>1, <2>2, <2>3 DEF Book!Hide, Book!stripeVars, StripeStays, SubOf, Opened,
         Paying, Lapsed, Ended, Passing, Watched, Hidden
    <2> QED BY <2>4 DEF Book!Next
  <1>4. ASSUME closer.pc # "idle", closer' = Resting, initiative' = initiative,
               rows' = rows, StripeStays
        PROVE  Book!GiveUp
    BY <1>0, <1>4 DEF Book!GiveUp, Book!NoPass, Book!stripeVars, StripeStays, Opened,
       Paying, Lapsed, Ended, Passing, Watched, Hidden
  <1>5. CASE CloseFail
    BY <1>4, <1>5, SameStripe DEF CloseFail, Pass, tableVars, Book!Next
  <1>6. CASE Reopen
    <2>1. /\ initiative.status = "hidden" /\ initiative'.status = "published"
          /\ closer' = closer /\ rows' = rows /\ UNCHANGED <<stripe, events>>
      BY <1>0, <1>6 DEF Reopen, Pass, InitiativeType, tableVars
    <2>2. Book!Show
      BY <2>1, SameStripe DEF Book!Show, Book!stripeVars, StripeStays, Opened, Paying,
         Lapsed, Ended, Passing, Watched, Hidden
    <2> QED BY <2>2 DEF Book!Next
  <1>7. ASSUME NEW r \in Requests, NEW fate \in Fates, CloseCancel(r, fate)
        PROVE  [Book!Next]_Book!vars
    <2>1. /\ closer.pc = "cancel" /\ rows[r] # None /\ CallCancel("closer", r, fate)
          /\ rows' = rows /\ initiative' = initiative /\ Key(r) \in Subs
      BY <1>0, <1>7, InputTypes DEF CloseCancel, CallCancel, CloserFacts, tableVars
    <2>2. \/ closer' = [closer EXCEPT !.todo = @ \ {r}]
          \/ closer' = Resting
      BY <1>7 DEF CloseCancel
    <2>3. PassStays \/ closer' = Resting
      BY <1>0, <2>1, <2>2 DEF PassStays, Passing, Watched, Hidden, CloserType
    <2>4. PassStays \/ (Passing' = FALSE /\ Watched' = {} /\ Hidden' = Hidden)
      BY <1>0, <2>1, <2>3 DEF Passing, Watched, Hidden
    <2>5. CASE ~StripeStays
      <3>1. Book!End(Key(r))
        BY <2>1, <2>4, <2>5, CallMaps, EndMaps
      <3> QED BY <2>1, <3>1 DEF Book!Next
    <2>6. CASE StripeStays /\ PassStays
      BY <2>1, <2>6, BookStutter
    <2>7. CASE StripeStays /\ closer' = Resting
      BY <1>4, <2>1, <2>7 DEF Book!Next
    <2> QED BY <2>3, <2>5, <2>6, <2>7
  <1>8. ASSUME NEW r \in Requests, Mark("closer", r)
        PROVE  [Book!Next]_Book!vars
    BY <1>8, MarkMaps DEF Book!Next
  <1> QED BY <1>1, <1>2, <1>3, <1>5, <1>6, <1>7, <1>8 DEF Closer, Book!Next

LEMMA OfRows == \A s : Book!Of(s) = RowsOf(s)
  BY DEF Book!Of, RowsOf

(* An event that is not ignored is the cause of the status it asks for. *)
LEMMA EventCause ==
  ASSUME IInv, NEW e \in events, ~Ignored(e)
  PROVE  /\ e.sub \in Subs
         /\ Target(e) \in {"active", "past_due", "canceled"}
         /\ Target(e) = "active" => e.sub \in Paying
         /\ Target(e) = "past_due" => e.sub \in Lapsed
         /\ Target(e) = "canceled" => e.sub \in Ended
  <1>0. e \in Events /\ EventFacts /\ StripeFacts
    BY DEF IInv, TypeOK
  <1>1. CASE e.type = "paid"
    <2>1. e.sub \in Subs /\ Target(e) = "active" /\ Charged(e.sub)
      BY <1>0, <1>1, EventCases, TargetCases DEF Charged
    <2> QED BY <2>1 DEF Paying
  <1>2. CASE e.type = "failed"
    <2>1. e.sub \in Subs /\ Target(e) = "past_due" /\ e = Failed(e.sub, e.n)
          /\ e.n \in 0..MaxInvoices
      BY <1>0, <1>2, EventCases, TargetCases
    <2>2. e.n >= 1 /\ e.n # 1
      BY <1>0, <1>2 DEF EventFacts, Ignored
    <2>3. e.n \in 2..MaxInvoices
      BY <2>1, <2>2, SubscriptionConstants
    <2>4. e.sub \in Lapsed
      BY <2>1, <2>3 DEF Lapsed
    <2> QED BY <2>1, <2>4
  <1>3. CASE e.type = "canceled"
    <2>1. e.sub \in Subs /\ Target(e) = "canceled" /\ e = Canceled(e.sub)
      BY <1>0, <1>3, EventCases, TargetCases DEF EventFacts
    <2>2. e.sub \in Ended
      BY <1>0, <2>1 DEF StripeFacts, Ended
    <2> QED BY <2>1, <2>2
  <1> QED BY <1>0, <1>1, <1>2, <1>3, EventCases

LEMMA WebhookMaps ==
  ASSUME IInv, NEW w \in Workers, Webhook(w)
  PROVE  [Book!Next]_Book!vars
  <1>0. TypeOK /\ events \subseteq Events
    BY DEF IInv, TypeOK
  <1>1. StripeStays /\ PassStays
    BY <1>0, WebhookFrame, SameStripe, SamePass DEF cancelVars
  <1>2. ASSUME NEW e \in events, HookStamp(w, e)
        PROVE  Book!Stamp(e.sub) /\ e.sub \in Subs
    <2>1. e.sub \in Subs /\ e.sub \in Paying
      BY <1>0, <1>2, EventCases DEF HookStamp, Paying, Charged
    <2>2. rows' = [r \in Requests |-> IF r \in Book!Of(e.sub)
                     THEN [rows[r] EXCEPT !.paid = TRUE] ELSE rows[r]]
      BY <1>2, OfRows DEF HookStamp
    <2> HIDE DEF Book!Of
    <2> QED BY <1>1, <2>1, <2>2 DEF Book!Stamp, Book!stripeVars, Book!passVars, StripeStays,
               PassStays, Opened, Paying, Lapsed, Ended, Passing, Watched, Hidden
  <1>3. ASSUME NEW e \in events, SetStatus(w, e), ~Ignored(e)
        PROVE  Book!Move(e.sub, Target(e))
    <2>1. e.sub \in Book!Cause(Target(e))
      BY <1>3, EventCause DEF Book!Cause, Paying, Lapsed, Ended
    <2>2. \A r \in RowsOf(e.sub) :
            rows[r].status = Target(e) => rows[r] = [rows[r] EXCEPT !.status = Target(e)]
      BY <1>0 DEF TypeOK, RowsOf, Rows
    <2>3. \A r \in Requests : rows'[r] = IF r \in Book!Of(e.sub)
                     THEN [rows[r] EXCEPT !.status = Target(e)] ELSE rows[r]
      BY <1>3, <2>2, OfRows DEF SetStatus, Updatable
    <2>4. rows' = [r \in Requests |-> IF r \in Book!Of(e.sub)
                     THEN [rows[r] EXCEPT !.status = Target(e)] ELSE rows[r]]
      BY <1>3, <2>3 DEF SetStatus
    <2> HIDE DEF Book!Of, Book!Cause
    <2> QED BY <1>1, <2>1, <2>4 DEF Book!Move, Book!stripeVars, Book!passVars, StripeStays,
               PassStays, Opened, Paying, Lapsed, Ended, Passing, Watched, Hidden
  <1>4. ASSUME NEW e \in events, HookOther(w, e)
        PROVE  [Book!Next]_Book!vars
    BY <1>3, <1>4, EventCause DEF HookOther, Book!Next
  <1>5. CASE HookPaid(w)
    <2> DEFINE e == hook[w].ev
    <2>1. e \in events /\ e.type = "paid" /\ SetStatus(w, e)
      BY <1>5 DEF HookPaid, IInv, HookFacts
    <2>2. ~Ignored(e)
      BY <2>1 DEF Ignored
    <2> HIDE DEF e
    <2> QED BY <1>3, <2>1, <2>2, EventCause DEF Book!Next
  <1>6. CASE rows' = rows
    BY <1>1, <1>6, BookStutter
  <1>7. CASE \E e \in events : HookStamp(w, e)
    BY <1>2, <1>7 DEF Book!Next
  <1> QED BY <1>0, <1>4, <1>5, <1>6, <1>7, WebhookFrame

LEMMA BookInit == Init => Book!Init
  <1> SUFFICES ASSUME Init PROVE Book!Init
    OBVIOUS
  <1>1. /\ \A s \in Subs : stripe[s].status = "absent"
        /\ "absent" \notin Terminal
        /\ events = {} /\ closer = Resting /\ rows = [r \in Requests |-> None]
    BY DEF Init, Terminal
  <1> QED BY <1>1 DEF Book!Init, Charged, Resting

(* The service implements SubscriptionBook for every number of requests,   *)
(* subscriptions, webhook workers and invoices and every page size: what   *)
(* the rows say follows Stripe, and hiding waits for the ends it asked for.*)
THEOREM Refinement == Spec => ImplementsBook
  <1>1. IInv /\ [Next]_vars => [Book!Next]_Book!vars
    <2> SUFFICES ASSUME IInv, [Next]_vars
                 PROVE  [Book!Next]_Book!vars
      OBVIOUS
    <2>1. CASE UNCHANGED vars
      BY <2>1, SameStripe, SamePass, BookStutter DEF vars
    <2> QED BY <2>1, CreateMaps, StripeMaps, DonorMaps, CloserMaps, WebhookMaps DEF Next
  <1> QED BY <1>1, BookInit, Invariance, PTL DEF Spec, ImplementsBook, Book!Spec
=============================================================================
