--------------------------- MODULE Donations_proofs ---------------------------
(***************************************************************************)
(* Theorems about Donations, for every set of requests, intents, donors    *)
(* and webhook workers.                                                    *)
(***************************************************************************)
EXTENDS Donations, TLAPS

USE DEF requestVars, hookVars

LEMMA InitType == Init => TypeOK
  BY DonationConstants DEF Init, TypeOK, IntentState, IntentStatuses, Rows,
     HookState, Idle, RequestPCs, Events

LEMMA CreateType ==
  ASSUME TypeOK, NEW r \in Requests, Create(r)
  PROVE  TypeOK'
  <1> USE DonationConstants DEF TypeOK, RequestPCs
  <1>0. Input[r] \in InputType
    OBVIOUS
  <1>1. CASE Load(r)
    BY <1>0, <1>1 DEF Load, InputType
  <1>2. CASE CreateCustomer(r)
    BY <1>0, <1>2 DEF CreateCustomer, InputType
  <1>3. CASE PersistCustomer(r)
    BY <1>0, <1>3 DEF PersistCustomer, InputType, Goto
  <1>4. ASSUME NEW outcome \in {"succeeded", "requires_action", "declined"},
               NEW lost \in BOOLEAN, Charge(r, outcome, lost)
        PROVE  TypeOK'
    <2> DEFINE p == Input[r].key
    <2>1. p \in Intents
      BY <1>0 DEF InputType
    <2>2. pi' \in [Intents -> IntentState]
      BY <1>4, <2>1 DEF Charge, IntentState, IntentStatuses
    <2>3. events' \subseteq Events 
      BY <1>4, <2>1 DEF Charge, Events, EventTypes, Succeeded, Failed
    <2>4. req' \in [Requests -> [pc : RequestPCs, cus : Requests \cup {None}]]
      BY <1>4 DEF Charge, Goto
    <2> QED BY <1>4, <2>2, <2>3, <2>4 DEF Charge
  <1>5. CASE ReplayCharge(r)
    BY <1>5 DEF ReplayCharge, Goto
  <1>6. CASE Insert(r)
    BY <1>0, <1>6 DEF Insert, NewRow, Goto, Rows, Statuses, InputType
  <1>7. CASE Abort(r)
    BY <1>7 DEF Abort, Goto
  <1>8. ASSUME NEW s \in SFIDs, Lookup(r, s)
        PROVE  TypeOK'
    <2>1. donations' \in [Requests -> Rows \cup {None}]
      BY <1>8 DEF Lookup, WithSFID, RowsOf, Rows
    <2> QED BY <1>8, <2>1 DEF Lookup, Goto
  <1>9. CASE LookupMiss(r)
    BY <1>9 DEF LookupMiss, Goto
  <1> QED BY <1>1, <1>2, <1>3, <1>4, <1>5, <1>6, <1>7, <1>8, <1>9 DEF Create

LEMMA EnvironmentType ==
  ASSUME TypeOK, Environment
  PROVE  TypeOK'
  <1> USE DEF TypeOK
  <1>1. ASSUME NEW p \in Intents, NEW ok \in BOOLEAN, Confirm(p, ok)
        PROVE  TypeOK'
    <2>1. pi' \in [Intents -> IntentState]
      BY <1>1 DEF Confirm, IntentState, IntentStatuses
    <2>2. events' \subseteq Events
      BY <1>1 DEF Confirm, Events, EventTypes, Succeeded, Failed
    <2> QED BY <1>1, <2>1, <2>2 DEF Confirm
  <1>2. ASSUME NEW p \in Intents, ForeignCharge(p)
        PROVE  TypeOK'
    BY <1>2 DEF ForeignCharge, IntentState, IntentStatuses, Events,
                EventTypes, Succeeded
  <1>3. ASSUME NEW s \in SFIDs, Backfill(s)
        PROVE  TypeOK'
    BY <1>3 DEF Backfill, WithSFID, Rows
  <1>4. CASE EditInitiative
    BY <1>4 DEF EditInitiative
  <1> QED BY <1>1, <1>2, <1>3, <1>4 DEF Environment

LEMMA WebhookType ==
  ASSUME TypeOK, NEW w \in Workers, Webhook(w)
  PROVE  TypeOK'
  <1> USE DEF TypeOK
  <1>1. ASSUME NEW e \in events, HookUpdate(w, e)
        PROVE  TypeOK'
    <2>1. donations' \in [Requests -> Rows \cup {None}]
      BY <1>1 DEF HookUpdate, Updatable, RowsOf, Rows, Statuses, Target
    <2>2. hook' \in [Workers -> HookState]
      BY <1>1 DEF HookUpdate, Updatable, RowsOf, Rows, HookState, Idle
    <2> QED BY <1>1, <2>1, <2>2 DEF HookUpdate
  <1>2. ASSUME NEW e \in events, HookNoUpdate(w, e)
        PROVE  TypeOK'
    BY <1>2 DEF HookNoUpdate, HookState, Idle
  <1>3. CASE HookExists(w)
    BY <1>3 DEF HookExists, HookState, Idle
  <1>4. ASSUME NEW ok \in BOOLEAN, HookLedger(w, ok)
        PROVE  TypeOK'
    <2>1. hook[w] # Idle /\ hook[w] \in HookState
      BY <1>4 DEF HookLedger, Idle
    <2>2. hook' \in [Workers -> HookState]
      BY <1>4, <2>1 DEF HookLedger, HookState
    <2>3. ledger' \subseteq [pi : Intents, sfid : SFIDs \cup {None}]
      BY <1>4, <2>1 DEF HookLedger, HookState, Events
    <2> QED BY <1>4, <2>2, <2>3 DEF HookLedger
  <1>5. ASSUME NEW ok \in BOOLEAN, HookEmail(w, ok)
        PROVE  TypeOK'
    <2>1. hook[w] # Idle /\ hook[w] \in HookState
      BY <1>5 DEF HookEmail, Idle
    <2>2. hook' \in [Workers -> HookState] /\ acked' \subseteq Events
      BY <1>5, <2>1 DEF HookEmail, HookState
    <2>3. receipts' \in [Intents -> 0..MaxReceipts]
      BY <1>5, <2>1, DonationConstants DEF HookEmail, HookState, Events
    <2> QED BY <1>5, <2>2, <2>3 DEF HookEmail
  <1>6. CASE HookCrash(w)
    BY <1>6 DEF HookCrash, HookState, Idle
  <1> QED BY <1>1, <1>2, <1>3, <1>4, <1>5, <1>6 DEF Webhook, Deliver, Proceed

(* Every variable of the donation path keeps its type. *)
THEOREM TypeCorrect == Spec => []TypeOK
  <1>1. TypeOK /\ [Next]_vars => TypeOK'
    <2> SUFFICES ASSUME TypeOK, [Next]_vars
                 PROVE  TypeOK'
      OBVIOUS
    <2>1. CASE UNCHANGED vars
      BY <2>1 DEF vars, TypeOK
    <2> QED
      BY <2>1, CreateType, EnvironmentType, WebhookType DEF Next
  <1> QED BY InitType, <1>1, PTL DEF Spec

-----------------------------------------------------------------------------
(* What no step undoes. *)

RowsKept ==
  \A r \in Requests : donations[r] # None =>
    /\ donations'[r] # None
    /\ donations'[r].pi = donations[r].pi
    /\ donations[r].status # "pending" => donations'[r].status # "pending"
    /\ donations[r].sfid # None => donations'[r].sfid = donations[r].sfid

IntentsKept ==
  /\ events \subseteq events'
  /\ \A p \in Intents :
       /\ pi[p].status \in {"succeeded", "declined"} => pi'[p] = pi[p]
       /\ pi[p].status # "absent" =>
            /\ pi'[p].by = pi[p].by
            /\ pi'[p].challenged = pi[p].challenged
            /\ pi'[p].status \notin {"absent", "declined"}
                 \/ pi'[p].status = pi[p].status
            /\ pi[p].status = "failed" => pi'[p].status # "requires_action"

LEMMA StoreSFID ==
  ASSUME NEW d \in Rows, NEW s \in SFIDs
  PROVE  /\ WithSFID(d, s) \in Rows
         /\ WithSFID(d, s).pi = d.pi
         /\ WithSFID(d, s).status = d.status
         /\ d.sfid # None => WithSFID(d, s).sfid = d.sfid
  BY DEF WithSFID, Rows

LEMMA UpdateRow ==
  ASSUME TypeOK, NEW w \in Workers, NEW e \in events, HookUpdate(w, e),
         NEW r \in Requests
  PROVE  /\ donations[r] = None => donations'[r] = None
         /\ donations[r] # None =>
              /\ donations'[r] # None
              /\ donations'[r].pi = donations[r].pi
              /\ donations'[r].sfid = donations[r].sfid
              /\ donations'[r].status = IF r \in Updatable(e) THEN Target(e)
                                        ELSE donations[r].status
  <1>1. CASE r \in Updatable(e)
    <2>1. donations[r] # None /\ donations[r] \in Rows
      BY <1>1 DEF Updatable, RowsOf, TypeOK
    <2>2. donations'[r] = [donations[r] EXCEPT !.status = Target(e)]
      BY <1>1 DEF HookUpdate
    <2>3. [donations[r] EXCEPT !.status = Target(e)] \in Rows
      BY <2>1 DEF Rows, Statuses, Target
    <2> QED BY <1>1, <2>1, <2>2, <2>3, NoneIsNoRow DEF Rows
  <1>2. CASE r \notin Updatable(e)
    BY <1>2 DEF HookUpdate
  <1> QED BY <1>1, <1>2

LEMMA RowKeysStep ==
  ASSUME TypeOK, RowKeys, [Next]_vars
  PROVE  RowKeys'
  <1> USE NoneIsNoRow DEF TypeOK, RowKeys
  <1>1. ASSUME NEW r \in Requests, Create(r)
        PROVE  RowKeys'
    <2>1. CASE Insert(r)
      BY <2>1 DEF Insert, NewRow
    <2>2. ASSUME NEW s \in SFIDs, Lookup(r, s)
          PROVE  RowKeys'
      BY <2>2, StoreSFID DEF Lookup, RowsOf
    <2> QED
      BY <1>1, <2>1, <2>2 DEF Create, Load, CreateCustomer, PersistCustomer,
         Charge, ReplayCharge, Abort, LookupMiss
  <1>2. CASE Environment
    <2>1. ASSUME NEW s \in SFIDs, Backfill(s)
          PROVE  RowKeys'
      BY <2>1, StoreSFID DEF Backfill
    <2> QED
      BY <1>2, <2>1 DEF Environment, Confirm, ForeignCharge, EditInitiative
  <1>3. ASSUME NEW w \in Workers, Webhook(w)
        PROVE  RowKeys'
    <2>1. ASSUME NEW e \in events, HookUpdate(w, e)
          PROVE  RowKeys'
      BY <2>1, UpdateRow
    <2> QED
      BY <1>3, <2>1 DEF Webhook, Deliver, Proceed, HookNoUpdate, HookExists,
         HookLedger, HookEmail, HookCrash
  <1> QED BY <1>1, <1>2, <1>3 DEF Next, vars

LEMMA StepKeeps ==
  ASSUME TypeOK, RowKeys, [Next]_vars
  PROVE  RowsKept /\ IntentsKept
  <1> USE NoneIsNoRow DEF TypeOK, RowsKept, IntentsKept
  <1>1. ASSUME NEW r \in Requests, Create(r)
        PROVE  RowsKept /\ IntentsKept
    <2>1. CASE \/ Load(r) \/ CreateCustomer(r) \/ PersistCustomer(r)
               \/ ReplayCharge(r) \/ Abort(r) \/ LookupMiss(r)
      BY <2>1 DEF Load, CreateCustomer, PersistCustomer, ReplayCharge, Abort,
                  LookupMiss
    <2>2. ASSUME NEW outcome \in {"succeeded", "requires_action", "declined"},
                 NEW lost \in BOOLEAN, Charge(r, outcome, lost)
          PROVE  RowsKept /\ IntentsKept
      BY <2>2 DEF Charge, IntentState
    <2>3. CASE Insert(r)
      <3>1. ~Conflict(Input[r].key) => donations[r] = None
        BY DEF Conflict, Recorded, RowsOf, RowKeys
      <3> QED BY <2>3, <3>1 DEF Insert, NewRow
    <2>4. ASSUME NEW s \in SFIDs, Lookup(r, s)
          PROVE  RowsKept /\ IntentsKept
      <3>1. RowsKept
        BY <2>4, StoreSFID DEF Lookup, RowsOf
      <3> QED BY <2>4, <3>1 DEF Lookup
    <2> QED BY <1>1, <2>1, <2>2, <2>3, <2>4 DEF Create
  <1>2. CASE Environment
    <2>1. ASSUME NEW p \in Intents, NEW ok \in BOOLEAN, Confirm(p, ok)
          PROVE  RowsKept /\ IntentsKept
      BY <2>1 DEF Confirm, IntentState, IntentStatuses
    <2>2. ASSUME NEW p \in Intents, ForeignCharge(p)
          PROVE  RowsKept /\ IntentsKept
      BY <2>2 DEF ForeignCharge, IntentState, IntentStatuses
    <2>3. ASSUME NEW s \in SFIDs, Backfill(s)
          PROVE  RowsKept /\ IntentsKept
      <3>1. RowsKept
        BY <2>3, StoreSFID DEF Backfill
      <3> QED BY <2>3, <3>1 DEF Backfill
    <2>4. CASE EditInitiative
      BY <2>4 DEF EditInitiative
    <2> QED BY <1>2, <2>1, <2>2, <2>3, <2>4 DEF Environment
  <1>3. ASSUME NEW w \in Workers, Webhook(w)
        PROVE  RowsKept /\ IntentsKept
    <2>1. ASSUME NEW e \in events, HookUpdate(w, e)
          PROVE  RowsKept /\ IntentsKept
      <3>1. Target(e) \in {"succeeded", "failed"}
        BY DEF Target
      <3>2. RowsKept
        BY <2>1, <3>1, UpdateRow
      <3> QED BY <2>1, <3>2 DEF HookUpdate
    <2>2. ASSUME NEW e \in events, HookNoUpdate(w, e)
          PROVE  RowsKept /\ IntentsKept
      BY <2>2 DEF HookNoUpdate
    <2>3. CASE \/ HookExists(w) \/ HookCrash(w)
               \/ \E ok \in BOOLEAN : HookLedger(w, ok) \/ HookEmail(w, ok)
      BY <2>3 DEF HookExists, HookCrash, HookLedger, HookEmail
    <2> QED BY <1>3, <2>1, <2>2, <2>3 DEF Webhook, Deliver, Proceed
  <1>4. CASE UNCHANGED vars
    BY <1>4 DEF vars
  <1> QED BY <1>1, <1>2, <1>3, <1>4 DEF Next

LEMMA KeysCorrect == Spec => []RowKeys
  <1>1. Init => RowKeys
    BY DEF Init, RowKeys
  <1> QED BY <1>1, RowKeysStep, TypeCorrect, PTL DEF Spec

(* Nothing that is replayed or redelivered removes a row, moves it to      *)
(* another intent, returns it to pending or replaces its SFID.             *)
THEOREM RowsAreKept == Spec => RowNeverRewritten
  <1>1. TypeOK /\ RowKeys /\ [Next]_vars =>
          [\A r \in Requests : donations[r] # None =>
             /\ donations'[r] # None
             /\ donations'[r].pi = donations[r].pi
             /\ donations[r].status # "pending"
                  => donations'[r].status # "pending"
             /\ donations[r].sfid # None
                  => donations'[r].sfid = donations[r].sfid]_donations
    BY StepKeeps DEF RowsKept
  <1> QED BY <1>1, TypeCorrect, KeysCorrect, PTL DEF Spec, RowNeverRewritten

-----------------------------------------------------------------------------
(* One row for each intent. *)

LEMMA OneRowStep ==
  ASSUME TypeOK, RowKeys, OneRowPerIntent, [Next]_vars
  PROVE  OneRowPerIntent'
  <1>1. ASSUME NEW r \in Requests, Insert(r), ~Conflict(Input[r].key)
        PROVE  OneRowPerIntent'
    <2>1. \A q \in Requests :
            donations[q] # None => donations[q].pi # Input[r].key
      BY <1>1 DEF Conflict, Recorded, RowsOf
    <2>2. donations' = [donations EXCEPT ![r] = NewRow(r)]
      BY <1>1 DEF Insert
    <2>3. NewRow(r).pi = Input[r].key
      BY DEF NewRow
    <2> QED BY <2>1, <2>2, <2>3 DEF TypeOK, OneRowPerIntent
  <1>2. CASE ~\E r \in Requests : Insert(r) /\ ~Conflict(Input[r].key)
    <2>1. \A r \in Requests : donations[r] = None => donations'[r] = None
      <3> USE DEF TypeOK
      <3>1. ASSUME NEW r \in Requests, Create(r)
            PROVE  \A q \in Requests : donations[q] = None => donations'[q] = None
        BY <1>2, <3>1 DEF Create, Load, CreateCustomer, PersistCustomer, Charge,
           ReplayCharge, Insert, Abort, Lookup, LookupMiss, RowsOf
      <3>2. CASE Environment
        BY <3>2 DEF Environment, Confirm, ForeignCharge, Backfill,
                    EditInitiative
      <3>3. ASSUME NEW w \in Workers, Webhook(w)
            PROVE  \A q \in Requests : donations[q] = None => donations'[q] = None
        BY <3>3 DEF Webhook, Deliver, Proceed, HookUpdate, HookNoUpdate,
           HookExists, HookLedger, HookEmail, HookCrash, Updatable, RowsOf
      <3> QED BY <3>1, <3>2, <3>3 DEF Next, vars
    <2> QED BY <2>1, StepKeeps DEF RowsKept, OneRowPerIntent
  <1> QED BY <1>1, <1>2

(* However requests with the same idempotency key interleave, an intent    *)
(* has one donation row.                                                   *)
THEOREM OneRow == Spec => []OneRowPerIntent
  <1>1. Init => OneRowPerIntent
    BY DEF Init, OneRowPerIntent
  <1> QED BY <1>1, OneRowStep, TypeCorrect, KeysCorrect, PTL DEF Spec

-----------------------------------------------------------------------------
(* The inductive invariant, one lemma for each of its parts. *)

IInv == TypeOK /\ OneRowPerIntent /\ Inductive

LEMMA StaysRecorded ==
  ASSUME RowsKept, NEW p
  PROVE  /\ RowsOf(p) \subseteq RowsOf(p)'
         /\ Recorded(p) => Recorded(p)'
  BY DEF RowsKept, RowsOf, Recorded

LEMMA InsertRecords ==
  ASSUME TypeOK, NEW r \in Requests, Insert(r)
  PROVE  Recorded(Input[r].key)'
  <1>1. CASE Conflict(Input[r].key)
    BY <1>1 DEF Insert, Conflict, Recorded, RowsOf
  <1>2. CASE ~Conflict(Input[r].key)
    <2>1. donations'[r] = NewRow(r) /\ NewRow(r).pi = Input[r].key
      BY <1>2 DEF Insert, NewRow, TypeOK
    <2>2. NewRow(r) \in Rows
      BY DonationConstants DEF NewRow, Rows, Statuses, InputType
    <2> QED BY <2>1, <2>2, NoneIsNoRow DEF Recorded, RowsOf
  <1> QED BY <1>1, <1>2

LEMMA NewRowsAreInserted ==
  ASSUME TypeOK, [Next]_vars, NEW q \in Requests,
         donations[q] = None, donations'[q] # None
  PROVE  Insert(q)
  <1> USE DEF TypeOK
  <1>1. ASSUME NEW r \in Requests, Create(r)
        PROVE  Insert(q)
    <2>1. CASE Insert(r)
      BY <2>1 DEF Insert
    <2>2. ASSUME NEW s \in SFIDs, Lookup(r, s)
          PROVE  FALSE
      BY <2>2 DEF Lookup, RowsOf
    <2> QED
      BY <1>1, <2>1, <2>2 DEF Create, Load, CreateCustomer, PersistCustomer,
         Charge, ReplayCharge, Abort, LookupMiss
  <1>2. CASE Environment
    BY <1>2 DEF Environment, Confirm, ForeignCharge, Backfill, EditInitiative
  <1>3. ASSUME NEW w \in Workers, Webhook(w)
        PROVE  FALSE
    BY <1>3 DEF Webhook, Deliver, Proceed, HookUpdate, HookNoUpdate,
       HookExists, HookLedger, HookEmail, HookCrash, Updatable, RowsOf
  <1> QED BY <1>1, <1>2, <1>3 DEF Next, vars

LEMMA RowFactsStep ==
  ASSUME IInv, [Next]_vars
  PROVE  RowFacts'
  <1> SUFFICES ASSUME NEW r \in Requests, donations'[r] # None
               PROVE  pi'[Input[r].key].status \notin {"absent", "declined"}
    BY DEF RowFacts
  <1> USE DEF IInv, Inductive
  <1>1. Input[r].key \in Intents
    BY DonationConstants DEF InputType
  <1>2. pi[Input[r].key].status \notin {"absent", "declined"}
    <2>1. CASE donations[r] = None
      BY <2>1, NewRowsAreInserted DEF RequestFacts, Insert
    <2>2. CASE donations[r] # None
      BY <2>2 DEF RowFacts
    <2> QED BY <2>1, <2>2
  <1> QED BY <1>1, <1>2, StepKeeps DEF IntentsKept

LEMMA RequestFactsStep ==
  ASSUME IInv, [Next]_vars
  PROVE  RequestFacts'
  <1> SUFFICES ASSUME NEW r \in Requests
               PROVE  /\ req'[r].pc \in {"insert", "lookup", "done"} =>
                           pi'[Input[r].key].status \notin {"absent", "declined"}
                      /\ req'[r].pc \in {"lookup", "done"} =>
                           Recorded(Input[r].key)'
    BY DEF RequestFacts
  <1> DEFINE p == Input[r].key
  <1> USE DEF IInv, Inductive, TypeOK
  <1>1. p \in Intents
    BY DonationConstants DEF InputType
  <1>2. RowsKept /\ IntentsKept
    BY StepKeeps
  <1>3. CASE req'[r].pc = req[r].pc
    BY <1>1, <1>2, <1>3, StaysRecorded DEF RequestFacts, IntentsKept
  <1>4. CASE Create(r)
    <2>1. ASSUME NEW outcome \in {"succeeded", "requires_action", "declined"},
                 NEW lost \in BOOLEAN, Charge(r, outcome, lost)
          PROVE  /\ req'[r].pc \in {"insert", "failed"}
                 /\ req'[r].pc = "insert" =>
                      pi'[p].status \notin {"absent", "declined"}
      BY <1>1, <2>1 DEF Charge, Goto
    <2>2. CASE ReplayCharge(r)
      BY <2>2 DEF ReplayCharge, Goto
    <2>3. CASE Insert(r)
      <3>1. req'[r].pc \in {"lookup", "done"} /\ pi' = pi /\ req[r].pc = "insert"
        BY <2>3 DEF Insert, Goto
      <3> QED BY <2>3, <3>1, InsertRecords DEF RequestFacts
    <2>4. CASE LookupMiss(r) \/ \E s \in SFIDs : Lookup(r, s)
      <3>1. req[r].pc = "lookup" /\ pi' = pi
        BY <2>4 DEF LookupMiss, Lookup
      <3> QED BY <1>2, <3>1, StaysRecorded DEF RequestFacts
    <2>5. CASE \/ Load(r) \/ CreateCustomer(r) \/ PersistCustomer(r)
               \/ Abort(r)
      BY <2>5 DEF Load, CreateCustomer, PersistCustomer, Abort, Goto
    <2> QED BY <1>4, <2>1, <2>2, <2>3, <2>4, <2>5 DEF Create
  <1>5. CASE ~Create(r)
    <2>1. ASSUME NEW q \in Requests, q # r, Create(q)
          PROVE  req'[r] = req[r]
      BY <2>1 DEF Create, Load, CreateCustomer, PersistCustomer, Charge,
         ReplayCharge, Insert, Abort, Lookup, LookupMiss, Goto
    <2>2. ASSUME Environment
          PROVE  req'[r] = req[r]
      BY <2>2 DEF Environment, Confirm, ForeignCharge, Backfill,
                  EditInitiative
    <2>3. ASSUME NEW w \in Workers, Webhook(w)
          PROVE  req'[r] = req[r]
      BY <2>3 DEF Webhook, Deliver, Proceed, HookUpdate, HookNoUpdate,
         HookExists, HookLedger, HookEmail, HookCrash
    <2> QED BY <1>3, <1>5, <2>1, <2>2, <2>3 DEF Next, vars
  <1> QED BY <1>4, <1>5

LEMMA EventCases ==
  ASSUME NEW e \in Events
  PROVE  /\ e.pi \in Intents
         /\ e = Succeeded(e.pi) \/ e = Failed(e.pi)
         /\ Target(e) = "succeeded" <=> e = Succeeded(e.pi)
         /\ Target(e) = "failed" <=> e = Failed(e.pi)
  BY DEF Events, EventTypes, Succeeded, Failed, Target

LEMMA EventFactsStep ==
  ASSUME IInv, [Next]_vars
  PROVE  EventFacts'
  <1> USE DEF IInv, Inductive, TypeOK
  <1>1. RowsKept /\ IntentsKept
    BY StepKeeps
  <1>2. CASE pi' = pi /\ events' = events
    BY <1>1, <1>2, StaysRecorded DEF EventFacts
  <1>3. ASSUME NEW r \in Requests, NEW lost \in BOOLEAN,
               NEW outcome \in {"succeeded", "requires_action", "declined"},
               Charge(r, outcome, lost)
        PROVE  EventFacts'
    <2> DEFINE q == Input[r].key
    <2>1. q \in Intents
      BY DonationConstants DEF InputType
    <2>2. Succeeded(q) \notin events /\ Failed(q) \notin events
      BY <1>3, <2>1 DEF Charge, EventFacts
    <2> SUFFICES ASSUME NEW p \in Intents
                 PROVE  EventFacts!(p)'
      BY DEF EventFacts
    <2>3. CASE p = q
      BY <1>3, <2>1, <2>2, <2>3 DEF Charge, Succeeded, Failed
    <2>4. CASE p # q
      <3>1. /\ pi'[p] = pi[p]
            /\ Succeeded(p) \in events' => Succeeded(p) \in events
            /\ Failed(p) \in events' => Failed(p) \in events
        BY <1>3, <2>4 DEF Charge, Succeeded, Failed
      <3> QED BY <1>1, <3>1, StaysRecorded DEF EventFacts
    <2> QED BY <2>3, <2>4
  <1>4. ASSUME NEW q \in Intents, NEW ok \in BOOLEAN, Confirm(q, ok)
        PROVE  EventFacts'
    <2> SUFFICES ASSUME NEW p \in Intents
                 PROVE  EventFacts!(p)'
      BY DEF EventFacts
    <2>1. CASE p = q
      <3>1. Recorded(q)'
        BY <1>1, <1>4, StaysRecorded DEF Confirm, RequestFacts
      <3>2. pi[q].challenged
        BY <1>4 DEF Confirm, EventFacts
      <3>3. /\ pi'[q].status = IF ok THEN "succeeded" ELSE "failed"
            /\ pi'[q].challenged = pi[q].challenged
        BY <1>4 DEF Confirm, IntentState
      <3>4. Succeeded(q) \in events' => ok
        BY <1>4 DEF Confirm, EventFacts, Succeeded, Failed
      <3> QED BY <2>1, <3>1, <3>2, <3>3, <3>4
    <2>2. CASE p # q
      <3>1. /\ pi'[p] = pi[p]
            /\ Succeeded(p) \in events' => Succeeded(p) \in events
            /\ Failed(p) \in events' => Failed(p) \in events
        BY <1>4, <2>2 DEF Confirm, Succeeded, Failed
      <3> QED BY <1>1, <3>1, StaysRecorded DEF EventFacts
    <2> QED BY <2>1, <2>2
  <1>5. ASSUME NEW q \in Intents, ForeignCharge(q)
        PROVE  EventFacts'
    <2> SUFFICES ASSUME NEW p \in Intents
                 PROVE  EventFacts!(p)'
      BY DEF EventFacts
    <2>1. CASE p = q
      BY <1>5, <2>1 DEF ForeignCharge, EventFacts, Succeeded, Failed,
                        IntentState
    <2>2. CASE p # q
      <3>1. /\ pi'[p] = pi[p]
            /\ Succeeded(p) \in events' => Succeeded(p) \in events
            /\ Failed(p) \in events' => Failed(p) \in events
        BY <1>5, <2>2 DEF ForeignCharge, Succeeded, Failed
      <3> QED BY <1>1, <3>1, StaysRecorded DEF EventFacts
    <2> QED BY <2>1, <2>2
  <1>6. CASE \E r \in Requests : Create(r)
    BY <1>2, <1>3, <1>6 DEF Create, Load, CreateCustomer, PersistCustomer,
       ReplayCharge, Insert, Abort, Lookup, LookupMiss
  <1>7. CASE Environment
    BY <1>2, <1>4, <1>5, <1>7 DEF Environment, Backfill, EditInitiative
  <1>8. CASE \E w \in Workers : Webhook(w)
    BY <1>2, <1>8 DEF Webhook, Deliver, Proceed, HookUpdate, HookNoUpdate,
       HookExists, HookLedger, HookEmail, HookCrash
  <1> QED BY <1>2, <1>6, <1>7, <1>8 DEF Next, vars

(* No row appears for an intent whose verdict was announced by a failure   *)
(* or after a challenge.                                                   *)
LEMMA NoLateRow ==
  ASSUME IInv, [Next]_vars, NEW e \in events,
         pi[e.pi].challenged \/ e = Failed(e.pi)
  PROVE  RowsOf(e.pi)' \subseteq RowsOf(e.pi)
  <1> USE DEF IInv, Inductive, TypeOK
  <1> SUFFICES ASSUME NEW q \in Requests, q \in RowsOf(e.pi)',
                      donations[q] = None
               PROVE  FALSE
    BY StepKeeps DEF RowsOf, RowsKept
  <1>1. Insert(q) /\ ~Conflict(Input[q].key)
    BY NewRowsAreInserted DEF RowsOf, Insert
  <1>2. Input[q].key = e.pi
    BY RowKeysStep DEF RowKeys, RowsOf
  <1>3. ~Recorded(e.pi) /\ pi[e.pi].status \notin {"absent", "declined"}
    BY <1>1, <1>2 DEF Conflict, Insert, RequestFacts
  <1> QED BY <1>3, EventCases DEF EventFacts

LEMMA HookFactsStep ==
  ASSUME IInv, [Next]_vars, OneRowPerIntent'
  PROVE  HookFacts'
  <1> USE DEF IInv, Inductive, TypeOK
  <1> SUFFICES ASSUME NEW w \in Workers, hook'[w].pc # "idle"
               PROVE  HookFacts!(w)!2'
    BY DEF HookFacts
  <1>1. RowsKept /\ IntentsKept
    BY StepKeeps
  <1>2. CASE hook'[w] = hook[w]
    <2> PICK e : e = hook[w].ev
      OBVIOUS
    <2>1. e \in events /\ e \in events' /\ e \in Events
      BY <1>1, <1>2 DEF HookFacts, IntentsKept
    <2>2. e.pi \in Intents /\ pi[e.pi].status # "absent"
      BY <2>1, EventCases DEF EventFacts
    <2>3. /\ pi'[e.pi].challenged = pi[e.pi].challenged
          /\ pi'[e.pi].by = pi[e.pi].by
      BY <1>1, <2>2 DEF IntentsKept
    <2>4. ASSUME hook[w].pc = "exists",
                 pi[e.pi].challenged \/ e = Failed(e.pi)
          PROVE  \A r \in RowsOf(e.pi)' : donations'[r].status # "pending"
      <3>1. RowsOf(e.pi)' \subseteq RowsOf(e.pi)
        BY <2>1, <2>4, NoLateRow
      <3> QED BY <1>1, <2>4, <3>1 DEF HookFacts, RowsKept, RowsOf
    <2>5. ASSUME hook[w].pc \in {"ledger", "email"}
          PROVE  /\ e = Succeeded(e.pi)
                 /\ Recorded(e.pi)' /\ Postable(e.pi)'
                 /\ \A r \in RowsOf(e.pi)' :
                      /\ donations'[r].status # "pending"
                      /\ hook[w].sfid \in {None, donations'[r].sfid}
      <3>1. e = Succeeded(e.pi) /\ Recorded(e.pi) /\ Postable(e.pi)
        BY <2>5 DEF HookFacts
      <3>2. Recorded(e.pi)' /\ Postable(e.pi)'
        BY <1>1, <2>3, <3>1, StaysRecorded DEF Postable, IsV2
      <3>3. PICK q \in RowsOf(e.pi) : TRUE
        BY <3>1 DEF Recorded
      <3>4. /\ hook[w].sfid \in {None, donations[q].sfid}
            /\ donations[q].status # "pending"
        BY <2>5, <3>3 DEF HookFacts
      <3>5. \A r \in RowsOf(e.pi)' : r = q
        <4>1. q \in RowsOf(e.pi)'
          BY <1>1, <3>3, StaysRecorded
        <4> QED BY <4>1 DEF OneRowPerIntent, RowsOf
      <3>6. /\ donations'[q].sfid = donations[q].sfid \/ donations[q].sfid = None
            /\ donations[q].status # "pending" => donations'[q].status # "pending"
        BY <1>1, <3>3 DEF RowsKept, RowsOf
      <3> QED BY <3>1, <3>2, <3>4, <3>5, <3>6
    <2> QED BY <1>2, <2>1, <2>3, <2>4, <2>5
  <1>3. ASSUME NEW f \in events, HookUpdate(w, f)
        PROVE  HookFacts!(w)!2'
    <2>2. hook[w] = Idle
      BY <1>3 DEF HookUpdate, HookState
    <2>3. PICK r \in Updatable(f) :
             /\ hook'[w] = [pc |-> "ledger", ev |-> f, sfid |-> donations[r].sfid]
             /\ Target(f) = "succeeded" /\ Postable(f.pi)
      BY <1>3, <2>2 DEF HookUpdate, Idle
    <2>4. f = Succeeded(f.pi) /\ events' = events /\ pi' = pi
      BY <1>3, <2>3, EventCases DEF HookUpdate
    <2>5. r \in RowsOf(f.pi) /\ r \in RowsOf(f.pi)'
      BY <1>1, StaysRecorded DEF Updatable
    <2>6. donations'[r].sfid = donations[r].sfid /\ donations'[r].status = Target(f)
      BY <1>3, <2>5, UpdateRow DEF RowsOf
    <2>7. \A q \in RowsOf(f.pi)' : q = r
      BY <2>5 DEF OneRowPerIntent, RowsOf
    <2>8. Recorded(f.pi)' /\ Postable(f.pi)'
      BY <2>3, <2>4, <2>5 DEF Recorded, Postable, IsV2
    <2> QED BY <2>3, <2>4, <2>6, <2>7, <2>8
  <1>4. ASSUME NEW f \in events, HookNoUpdate(w, f)
        PROVE  HookFacts!(w)!2'
    <2>1. /\ hook'[w] = [pc |-> "exists", ev |-> f, sfid |-> None]
          /\ events' = events /\ pi' = pi /\ donations' = donations
      BY <1>4 DEF HookNoUpdate
    <2>2. \A r \in RowsOf(f.pi) : donations[r].status = Target(f)
      BY <1>4 DEF HookNoUpdate, Updatable
    <2>3. Target(f) # "pending"
      BY DEF Target
    <2> QED BY <2>1, <2>2, <2>3 DEF RowsOf
  <1>5. ASSUME NEW ok \in BOOLEAN, HookLedger(w, ok)
        PROVE  HookFacts!(w)!2'
    BY <1>5 DEF HookLedger, HookFacts, RowsOf, Recorded, Postable, IsV2,
                HookState
  <1>6. CASE \E v \in Workers : v # w /\ Webhook(v)
    BY <1>2, <1>6 DEF Webhook, Deliver, Proceed, HookUpdate, HookNoUpdate,
       HookExists, HookLedger, HookEmail, HookCrash
  <1>7. CASE Webhook(w)
    <2>0. hook' # [hook EXCEPT ![w] = Idle]
      BY DEF Idle
    <2>1. ~HookExists(w) /\ ~HookCrash(w)
      BY <2>0 DEF HookExists, HookCrash
    <2>2. ASSUME NEW ok \in BOOLEAN
          PROVE  ~HookEmail(w, ok)
      BY <2>0 DEF HookEmail
    <2> QED
      BY <1>3, <1>4, <1>5, <1>7, <2>1, <2>2 DEF Webhook, Deliver, Proceed
  <1>8. CASE (\E r \in Requests : Create(r)) \/ Environment
    BY <1>2, <1>8 DEF Create, Load, CreateCustomer, PersistCustomer, Charge,
       ReplayCharge, Insert, Abort, Lookup, LookupMiss, Environment, Confirm,
       ForeignCharge, Backfill, EditInitiative
  <1> QED BY <1>2, <1>6, <1>7, <1>8 DEF Next, vars

LEMMA AckFactsStep ==
  ASSUME IInv, [Next]_vars
  PROVE  AckFacts'
  <1> USE DEF IInv, Inductive, TypeOK, AckFacts
  <1>1. events \subseteq events'
    BY StepKeeps DEF IntentsKept
  <1>2. ASSUME NEW w \in Workers, Webhook(w)
        PROVE  acked' \subseteq events
    <2>1. hook[w].pc # "idle" => hook[w].ev \in events
      BY DEF HookFacts
    <2>2. ASSUME NEW e \in events, Deliver(w, e)
          PROVE  acked' \subseteq events
      BY <2>2 DEF Deliver, HookUpdate, HookNoUpdate
    <2>3. CASE HookExists(w)
      BY <2>1, <2>3 DEF HookExists
    <2>4. ASSUME NEW ok \in BOOLEAN, HookLedger(w, ok) \/ HookEmail(w, ok)
          PROVE  acked' \subseteq events
      BY <2>1, <2>4 DEF HookLedger, HookEmail
    <2>5. CASE HookCrash(w)
      BY <2>5 DEF HookCrash
    <2> QED BY <1>2, <2>2, <2>3, <2>4, <2>5 DEF Webhook, Proceed
  <1>3. CASE (\E r \in Requests : Create(r)) \/ Environment
    BY <1>1, <1>3 DEF Create, Load, CreateCustomer, PersistCustomer, Charge,
       ReplayCharge, Insert, Abort, Lookup, LookupMiss, Environment, Confirm,
       ForeignCharge, Backfill, EditInitiative
  <1> QED BY <1>1, <1>2, <1>3 DEF Next, vars

LEMMA InitInductive == Init => IInv
  <1> SUFFICES ASSUME Init
               PROVE  OneRowPerIntent /\ Inductive
    BY InitType DEF IInv
  <1> QED
    BY DEF Init, OneRowPerIntent, Inductive, RowKeys, AckFacts, RowFacts,
       RequestFacts, EventFacts, HookFacts, Idle

LEMMA InductiveStep == IInv /\ [Next]_vars => IInv'
  <1> SUFFICES ASSUME IInv, [Next]_vars
               PROVE  IInv'
    OBVIOUS
  <1>1. TypeOK'
    BY CreateType, EnvironmentType, WebhookType DEF Next, IInv, vars, TypeOK
  <1>2. RowKeys' /\ OneRowPerIntent'
    BY RowKeysStep, OneRowStep DEF IInv, Inductive
  <1> QED
    BY <1>1, <1>2, RowFactsStep, RequestFactsStep, EventFactsStep,
       HookFactsStep, AckFactsStep DEF IInv, Inductive

(* Every reachable state satisfies the inductive invariant: what requests,  *)
(* Stripe, the webhook and the background jobs do never disturbs it.        *)
THEOREM Invariance == Spec => []IInv
  BY InitInductive, InductiveStep, PTL DEF Spec

-----------------------------------------------------------------------------
(* The properties the inductive invariant carries. *)

LEMMA StatusSource ==
  ASSUME TypeOK, [Next]_vars, NEW r \in Requests, donations'[r] # None
  PROVE  \/ donations'[r].status = "pending"
         \/ donations[r] # None /\ donations'[r].status = donations[r].status
         \/ \E e \in events : /\ r \in RowsOf(e.pi)
                              /\ donations'[r].status = Target(e)
  <1> USE NoneIsNoRow DEF TypeOK
  <1>1. CASE donations[r] = None
    <2>1. Insert(r)
      BY <1>1, NewRowsAreInserted
    <2> QED BY <1>1, <2>1 DEF Insert, NewRow
  <1>2. CASE donations[r] # None
    <2>1. ASSUME NEW w \in Workers, NEW e \in events, HookUpdate(w, e)
          PROVE  \/ donations'[r].status = donations[r].status
                 \/ r \in RowsOf(e.pi) /\ donations'[r].status = Target(e)
      BY <1>2, <2>1, UpdateRow DEF Updatable
    <2>2. ASSUME NEW s \in SFIDs,
                 Backfill(s) \/ \E q \in Requests : Lookup(q, s)
          PROVE  donations'[r].status = donations[r].status
      BY <1>2, <2>2, StoreSFID DEF Backfill, Lookup
    <2>3. ASSUME NEW q \in Requests, Insert(q)
          PROVE  \/ donations'[r].status = "pending"
                 \/ donations'[r].status = donations[r].status
      BY <1>2, <2>3 DEF Insert, NewRow
    <2> QED
      BY <1>2, <2>1, <2>2, <2>3 DEF Next, vars, Create, Load, CreateCustomer,
         PersistCustomer, Charge, ReplayCharge, Abort, LookupMiss,
         Environment, Confirm, ForeignCharge, EditInitiative, Webhook,
         Deliver, Proceed, HookNoUpdate, HookExists, HookLedger, HookEmail,
         HookCrash
  <1> QED BY <1>1, <1>2

(* A row never claims a payment Stripe did not take, nor a failure that    *)
(* did not happen.                                                         *)
THEOREM Truthful == Spec => []SettledTruthfully
  <1>1. Init => SettledTruthfully
    BY DEF Init, SettledTruthfully
  <1>2. ASSUME IInv, SettledTruthfully, [Next]_vars
        PROVE  SettledTruthfully'
    <2> SUFFICES ASSUME NEW r \in Requests, donations'[r] # None
                 PROVE  SettledTruthfully!(r)!2'
      BY DEF SettledTruthfully
    <2> USE <1>2 DEF IInv, Inductive, TypeOK
    <2>1. RowsKept /\ IntentsKept
      BY StepKeeps
    <2>2. CASE donations'[r].status = "pending"
      BY <2>2
    <2>3. CASE /\ donations[r] # None
               /\ donations'[r].status = donations[r].status
      BY <2>1, <2>3 DEF RowsKept, IntentsKept, SettledTruthfully, Rows
    <2>4. ASSUME NEW e \in events, r \in RowsOf(e.pi),
                 donations'[r].status = Target(e)
          PROVE  SettledTruthfully!(r)!2'
      <3>1. donations'[r].pi = e.pi /\ e.pi \in Intents
        BY <2>1, <2>4, EventCases DEF RowsKept, RowsOf
      <3>2. e \in events'
        BY <2>1, <2>4 DEF IntentsKept
      <3>3. Target(e) = "succeeded" => pi'[e.pi].status = "succeeded"
        BY <2>1, <3>1, EventCases DEF EventFacts, IntentsKept
      <3> QED BY <2>4, <3>1, <3>2, <3>3, EventCases
    <2> QED BY <2>2, <2>3, <2>4, StatusSource
  <1> QED BY <1>1, <1>2, Invariance, PTL DEF Spec

LEMMA LedgerStep ==
  ASSUME IInv, LedgerMatchesRow, [Next]_vars, OneRowPerIntent'
  PROVE  LedgerMatchesRow'
  <1> USE DEF IInv, Inductive, TypeOK
  <1>1. RowsKept /\ IntentsKept
    BY StepKeeps
  <1>2. ASSUME NEW p \in Intents, NEW s, Recorded(p),
               \A r \in RowsOf(p) : s \in {None, donations[r].sfid}
        PROVE  \A r \in RowsOf(p)' : s \in {None, donations'[r].sfid}
    <2>1. PICK q \in RowsOf(p) : TRUE
      BY <1>2 DEF Recorded
    <2>2. q \in RowsOf(p)'
      BY <1>1, <2>1, StaysRecorded
    <2>3. \A r \in RowsOf(p)' : r = q
      BY <2>2 DEF OneRowPerIntent, RowsOf
    <2>4. donations'[q].sfid = donations[q].sfid \/ donations[q].sfid = None
      BY <1>1, <2>1 DEF RowsKept, RowsOf
    <2> QED BY <1>2, <2>1, <2>3, <2>4
  <1>3. ASSUME NEW t \in ledger'
        PROVE  /\ t.pi \in Intents
               /\ pi[t.pi].status = "succeeded" /\ Recorded(t.pi)
               /\ \A r \in RowsOf(t.pi) : t.sfid \in {None, donations[r].sfid}
    <2>1. CASE t \in ledger
      BY <2>1 DEF LedgerMatchesRow
    <2>2. CASE t \notin ledger
      <3>1. PICK w \in Workers : \E ok \in BOOLEAN : HookLedger(w, ok)
        BY <2>2 DEF Next, vars, Create, Load, CreateCustomer, PersistCustomer,
           Charge, ReplayCharge, Insert, Abort, Lookup, LookupMiss,
           Environment, Confirm, ForeignCharge, Backfill, EditInitiative,
           Webhook, Deliver, Proceed, HookUpdate, HookNoUpdate, HookExists,
           HookEmail, HookCrash
      <3> PICK e : e = hook[w].ev
        OBVIOUS
      <3>2. t.pi = e.pi /\ t.sfid = hook[w].sfid /\ hook[w].pc = "ledger"
        BY <2>2, <3>1 DEF HookLedger
      <3>3. /\ e \in events /\ e = Succeeded(e.pi) /\ Recorded(e.pi)
            /\ \A r \in RowsOf(e.pi) : hook[w].sfid \in {None, donations[r].sfid}
        BY <3>2 DEF HookFacts
      <3>4. e.pi \in Intents /\ pi[e.pi].status = "succeeded"
        BY <3>3, EventCases DEF EventFacts
      <3> QED BY <3>2, <3>3, <3>4
    <2> QED BY <2>1, <2>2
  <1>4. ASSUME NEW p \in Intents, receipts'[p] > 0
        PROVE  Recorded(p) /\ pi[p].status = "succeeded" /\ Postable(p)
    <2>1. CASE receipts[p] > 0
      BY <2>1 DEF LedgerMatchesRow, Postable, IsV2
    <2>2. CASE ~(receipts[p] > 0)
      <3>1. PICK w \in Workers : \E ok \in BOOLEAN : HookEmail(w, ok)
        BY <1>4, <2>2 DEF Next, vars, Create, Load, CreateCustomer,
           PersistCustomer, Charge, ReplayCharge, Insert, Abort, Lookup,
           LookupMiss, Environment, Confirm, ForeignCharge, Backfill,
           EditInitiative, Webhook, Deliver, Proceed, HookUpdate,
           HookNoUpdate, HookExists, HookLedger, HookCrash
      <3> PICK e : e = hook[w].ev
        OBVIOUS
      <3>2. p = e.pi /\ hook[w].pc = "email"
        BY <1>4, <2>2, <3>1 DEF HookEmail
      <3>3. e \in events /\ e = Succeeded(e.pi) /\ Recorded(e.pi) /\ Postable(e.pi)
        BY <3>2 DEF HookFacts
      <3> QED BY <3>2, <3>3, EventCases DEF EventFacts
    <2> QED BY <2>1, <2>2
  <1>5. ASSUME NEW p \in Intents, pi[p].status = "succeeded", Recorded(p)
        PROVE  /\ pi'[p].status = "succeeded" /\ Recorded(p)'
               /\ Postable(p) => Postable(p)'
    BY <1>1, <1>5, StaysRecorded DEF IntentsKept, Postable, IsV2
  <1>6. ASSUME NEW t \in ledger'
        PROVE  /\ pi'[t.pi].status = "succeeded" /\ Recorded(t.pi)'
               /\ \A r \in RowsOf(t.pi)' : t.sfid \in {None, donations'[r].sfid}
    BY <1>2, <1>3, <1>5
  <1>7. ASSUME NEW p \in Intents, receipts'[p] > 0
        PROVE  /\ Recorded(p)' /\ pi'[p].status = "succeeded"
               /\ p \notin LegacyIntents
               /\ pi'[p].by # None => Input[pi'[p].by].user \notin StubUsers
    BY <1>4, <1>5, <1>7 DEF Postable, IsV2
  <1> QED BY <1>6, <1>7 DEF LedgerMatchesRow

(* What the Ledger holds and what donors were told was captured and is in  *)
(* the donations table, under the row's own organization.                  *)
THEOREM LedgerSound == Spec => []LedgerMatchesRow
  <1>1. Init => LedgerMatchesRow
    BY DEF Init, LedgerMatchesRow
  <1>2. IInv' => OneRowPerIntent'
    BY DEF IInv
  <1> QED BY <1>1, <1>2, LedgerStep, Invariance, PTL DEF Spec

-----------------------------------------------------------------------------
(* Acknowledgements: what is true of a row once Stripe stops delivering.   *)

Settled(e) ==
  pi[e.pi].challenged \/ e = Failed(e.pi) =>
    \A r \in RowsOf(e.pi) : donations[r].status # "pending"

Kept(e) == ~RaceWindow /\ e = Succeeded(e.pi) /\ IsV2(e.pi) => Recorded(e.pi)

LEMMA AckCause ==
  ASSUME IInv, [Next]_vars, OneRowPerIntent', NEW e \in acked', e \notin acked
  PROVE  e \in events /\ pi' = pi /\ Settled(e)' /\ Kept(e)'
  <1> USE DEF IInv, Inductive, TypeOK
  <1>1. PICK w \in Workers : Webhook(w)
    BY DEF Next, vars, Create, Load, CreateCustomer, PersistCustomer, Charge,
       ReplayCharge, Insert, Abort, Lookup, LookupMiss, Environment, Confirm,
       ForeignCharge, Backfill, EditInitiative
  <1>2. ASSUME NEW f \in events, HookUpdate(w, f)
        PROVE  e \in events /\ pi' = pi /\ Settled(e)' /\ Kept(e)'
    <2>1. e = f /\ pi' = pi
      BY <1>2 DEF HookUpdate
    <2>2. PICK r \in Updatable(e) : TRUE
      BY <1>2, <2>1 DEF HookUpdate
    <2>3. r \in RowsOf(e.pi)' /\ donations'[r].status = Target(e)
      BY <1>2, <2>1, <2>2, UpdateRow DEF Updatable, RowsOf
    <2>4. \A q \in RowsOf(e.pi)' : q = r
      BY <2>3 DEF OneRowPerIntent, RowsOf
    <2>5. Target(e) # "pending"
      BY DEF Target
    <2> QED BY <2>1, <2>3, <2>4, <2>5 DEF Settled, Kept, Recorded
  <1>3. CASE HookExists(w)
    <2>1. /\ e = hook[w].ev /\ hook[w].pc = "exists"
          /\ pi' = pi /\ donations' = donations
      BY <1>3 DEF HookExists
    <2>2. e \in events /\ Settled(e)
      BY <2>1 DEF HookFacts, Settled
    <2>3. Kept(e)
      BY <1>3, <2>1, EventCases DEF HookExists, Kept, RetryMissing, Succeeded
    <2> QED BY <2>1, <2>2, <2>3 DEF Settled, Kept, RowsOf, Recorded
  <1>4. ASSUME NEW ok \in BOOLEAN, HookEmail(w, ok)
        PROVE  e \in events /\ pi' = pi /\ Settled(e)' /\ Kept(e)'
    <2>1. /\ e = hook[w].ev /\ hook[w].pc = "email"
          /\ pi' = pi /\ donations' = donations
      BY <1>4 DEF HookEmail
    <2>2. e \in events /\ Settled(e) /\ Kept(e)
      BY <2>1 DEF HookFacts, Settled, Kept
    <2> QED BY <2>1, <2>2 DEF Settled, Kept, RowsOf, Recorded
  <1>5. ~HookCrash(w) /\ \A f \in events : ~HookNoUpdate(w, f)
    BY DEF HookCrash, HookNoUpdate
  <1>6. \A ok \in BOOLEAN : ~HookLedger(w, ok)
    BY DEF HookLedger
  <1> QED BY <1>1, <1>2, <1>3, <1>4, <1>5, <1>6 DEF Webhook, Deliver, Proceed

LEMMA AckStep ==
  ASSUME IInv, [Next]_vars, OneRowPerIntent', NEW e \in acked',
         e \in acked => Settled(e) /\ Kept(e)
  PROVE  Settled(e)' /\ Kept(e)'
  <1> USE DEF IInv, Inductive, TypeOK
  <1>1. CASE e \notin acked
    BY <1>1, AckCause
  <1>2. CASE e \in acked
    <2>1. e \in events /\ e.pi \in Intents
      BY <1>2, EventCases DEF AckFacts
    <2>2. pi[e.pi].status # "absent"
      BY <2>1, EventCases DEF EventFacts
    <2>3. RowsKept /\ pi'[e.pi].challenged = pi[e.pi].challenged
      BY <2>1, <2>2, StepKeeps DEF IntentsKept
    <2>4. Kept(e)'
      BY <1>2, <2>3, StaysRecorded DEF Kept
    <2>5. ASSUME pi[e.pi].challenged \/ e = Failed(e.pi)
          PROVE  \A r \in RowsOf(e.pi)' : donations'[r].status # "pending"
      <3>1. RowsOf(e.pi)' \subseteq RowsOf(e.pi)
        BY <2>1, <2>5, NoLateRow
      <3> QED BY <1>2, <2>3, <2>5, <3>1 DEF Settled, RowsKept, RowsOf
    <2> QED BY <2>3, <2>4, <2>5 DEF Settled
  <1> QED BY <1>1, <1>2

AckInv == \A e \in acked : Settled(e) /\ Kept(e)

LEMMA AckInvariance == Spec => []AckInv
  <1>1. Init => AckInv
    BY DEF Init, AckInv
  <1>2. ASSUME IInv, AckInv, [Next]_vars, OneRowPerIntent'
        PROVE  AckInv'
    BY <1>2, AckStep DEF AckInv
  <1>3. IInv' => OneRowPerIntent'
    BY DEF IInv
  <1> QED BY <1>1, <1>2, <1>3, Invariance, PTL DEF Spec

(* In production (no race window) the webhook never answers 200 to the     *)
(* success of a v2 payment whose row is missing.                           *)
THEOREM SuccessIsNotForgotten == Spec => []AckedSuccessHasRow
  <1>1. AckInv => AckedSuccessHasRow
    <2> SUFFICES ASSUME AckInv, ~RaceWindow, NEW p \in Intents,
                        Succeeded(p) \in acked, IsV2(p)
                 PROVE  Recorded(p)
      BY DEF AckedSuccessHasRow
    <2> QED BY DEF AckInv, Kept, Succeeded
  <1> QED BY <1>1, AckInvariance, PTL

(* Once a failure or the verdict of a challenge is acknowledged, the row   *)
(* shows a verdict.                                                        *)
THEOREM VerdictIsNotForgotten == Spec => []AckedVerdictRecorded
  <1>1. AckInv => AckedVerdictRecorded
    BY DEF AckInv, AckedVerdictRecorded, Settled
  <1> QED BY <1>1, AckInvariance, PTL

------------------------------------------------------------------------------
(* One receipt for each intent that never failed: the UPDATE lets only one *)
(* delivery through, and after its mail the row is not pending any more.   *)

Posting(w, p) == hook[w].pc \in {"ledger", "email"} /\ hook[w].ev.pi = p

ThankedOnce(p) ==
  /\ receipts[p] <= 1
  /\ \A v, w \in Workers : Posting(v, p) /\ Posting(w, p) => v = w
  /\ \A w \in Workers : Posting(w, p) => receipts[p] = 0
  /\ receipts[p] > 0 => \A r \in RowsOf(p) : donations[r].status # "pending"

ReceiptInv == \A p \in Intents : Failed(p) \notin events => ThankedOnce(p)

(* A recorded intent gets no further row. *)
LEMMA NoSecondRow ==
  ASSUME IInv, [Next]_vars, NEW p \in Intents, Recorded(p)
  PROVE  RowsOf(p)' = RowsOf(p)
  <1> USE DEF IInv, Inductive
  <1>1. RowsKept
    BY StepKeeps
  <1>2. ASSUME NEW q \in Requests, donations[q] = None, donations'[q] # None
        PROVE  donations'[q].pi # p
    <2>1. Insert(q)
      BY <1>2, NewRowsAreInserted
    <2>2. ~Conflict(Input[q].key) /\ donations'[q] = NewRow(q)
      BY <1>2, <2>1 DEF Insert, TypeOK
    <2> QED BY <2>2 DEF Conflict, NewRow
  <1>3. RowsOf(p)' \subseteq RowsOf(p)
    BY <1>1, <1>2 DEF RowsOf, RowsKept
  <1> QED BY <1>1, <1>3, StaysRecorded

(* A delivery that changes a row of an intent that never failed found it   *)
(* pending, so nobody is posting and nothing was mailed.                   *)
LEMMA FirstDelivery ==
  ASSUME IInv, SettledTruthfully, ReceiptInv, NEW w \in Workers, NEW e \in events,
         HookUpdate(w, e), Failed(e.pi) \notin events
  PROVE  /\ \A v \in Workers : ~Posting(v, e.pi)
         /\ receipts[e.pi] = 0
  <1> USE DEF IInv, Inductive, TypeOK
  <1>1. e.pi \in Intents /\ e = Succeeded(e.pi) /\ Target(e) = "succeeded"
    BY EventCases
  <1>2. PICK r \in Updatable(e) : TRUE
    BY DEF HookUpdate
  <1>3. r \in RowsOf(e.pi) /\ donations[r] \in Rows /\ donations[r].pi = e.pi
    BY <1>2 DEF Updatable, RowsOf
  <1>4. donations[r].status = "pending"
    <2>1. r \in Requests /\ donations[r] # None
      BY <1>3, NoneIsNoRow DEF RowsOf
    <2>2. donations[r].status # "failed"
      <3>1. donations[r].status = "failed" => Failed(donations[r].pi) \in events
        BY <2>1 DEF SettledTruthfully
      <3> QED BY <3>1, <1>3
    <2>3. donations[r].status \in Statuses /\ donations[r].status # "succeeded"
      BY <1>1, <1>2, <1>3 DEF Updatable, Rows
    <2> QED BY <2>2, <2>3 DEF Statuses
  <1>5. ASSUME NEW v \in Workers, Posting(v, e.pi)
        PROVE  FALSE
    BY <1>3, <1>4, <1>5 DEF Posting, HookFacts
  <1>6. receipts[e.pi] \in Nat /\ ~(receipts[e.pi] > 0)
    BY <1>1, <1>3, <1>4 DEF ReceiptInv, ThankedOnce
  <1> QED BY <1>5, <1>6

LEMMA ReceiptStep ==
  ASSUME IInv, SettledTruthfully, LedgerMatchesRow, ReceiptInv, [Next]_vars
  PROVE  ReceiptInv'
  <1> USE DEF IInv, Inductive, TypeOK
  <1> SUFFICES ASSUME NEW p \in Intents, Failed(p)' \notin events'
               PROVE  ThankedOnce(p)'
    BY DEF ReceiptInv
  <1>1. RowsKept /\ Failed(p) \notin events
    BY StepKeeps DEF IntentsKept, Failed
  <1>2. ThankedOnce(p) /\ receipts[p] \in Nat
    BY <1>1 DEF ReceiptInv
  <1>3. receipts[p] > 0 => \A r \in RowsOf(p)' : donations'[r].status # "pending"
    <2> SUFFICES ASSUME receipts[p] > 0, NEW r \in RowsOf(p)'
                 PROVE  donations'[r].status # "pending"
      OBVIOUS
    <2>1. Recorded(p)
      BY DEF LedgerMatchesRow
    <2>2. r \in RowsOf(p)
      BY <2>1, NoSecondRow
    <2> QED BY <1>1, <1>2, <2>2 DEF ThankedOnce, RowsKept, RowsOf
  <1>4. ASSUME receipts' = receipts,
               \A v \in Workers : Posting(v, p)' => Posting(v, p)
        PROVE  ThankedOnce(p)'
    BY <1>2, <1>3, <1>4 DEF ThankedOnce
  <1>5. CASE hook' = hook /\ receipts' = receipts
    BY <1>4, <1>5 DEF Posting
  <1>6. ASSUME NEW w \in Workers, NEW e \in events, HookUpdate(w, e)
        PROVE  ThankedOnce(p)'
    <2>1. /\ receipts' = receipts
          /\ \A v \in Workers \ {w} : hook'[v] = hook[v]
          /\ hook'[w] = hook[w] \/ hook'[w].ev = e
          /\ hook[w].pc = "idle"
      BY <1>6 DEF HookUpdate
    <2>2. CASE e.pi # p
      BY <1>4, <2>1, <2>2 DEF Posting
    <2>3. CASE e.pi = p
      <3>1. /\ \A v \in Workers : ~Posting(v, p)
            /\ receipts[p] = 0
        BY <1>1, <1>6, <2>3, FirstDelivery
      <3>2. \A v \in Workers : Posting(v, p)' => v = w
        BY <2>1, <3>1 DEF Posting
      <3> QED BY <1>3, <2>1, <3>1, <3>2 DEF ThankedOnce
    <2> QED BY <2>2, <2>3
  <1>7. ASSUME NEW w \in Workers, NEW e \in events, HookNoUpdate(w, e)
        PROVE  ThankedOnce(p)'
    BY <1>4, <1>7 DEF HookNoUpdate, Posting
  <1>8. ASSUME NEW w \in Workers, HookExists(w) \/ HookCrash(w)
        PROVE  ThankedOnce(p)'
    <2>1. hook' = [hook EXCEPT ![w] = Idle] /\ receipts' = receipts
      BY <1>8 DEF HookExists, HookCrash
    <2>2. \A v \in Workers : Posting(v, p)' => Posting(v, p)
      BY <2>1 DEF Idle, Posting
    <2> QED BY <1>4, <2>1, <2>2
  <1>9. ASSUME NEW w \in Workers, NEW ok \in BOOLEAN, HookLedger(w, ok)
        PROVE  ThankedOnce(p)'
    <2>1. hook[w] # Idle /\ hook[w] \in HookState
      BY <1>9 DEF HookLedger, Idle
    <2>2. hook' = [hook EXCEPT ![w].pc = "email"] /\ receipts' = receipts
      BY <1>9 DEF HookLedger
    <2>3. \A v \in Workers : Posting(v, p)' => Posting(v, p)
      BY <1>9, <2>1, <2>2 DEF HookLedger, HookState, Posting
    <2> QED BY <1>4, <2>2, <2>3
  <1>10. ASSUME NEW w \in Workers, NEW ok \in BOOLEAN, HookEmail(w, ok)
         PROVE  ThankedOnce(p)'
    <2>1. /\ \A v \in Workers \ {w} : hook'[v] = hook[v]
          /\ hook'[w] = Idle
          /\ hook[w].pc = "email"
      BY <1>10 DEF HookEmail
    <2>2. \A v \in Workers : Posting(v, p)' => Posting(v, p) /\ v # w
      BY <2>1 DEF Posting, Idle
    <2>3. CASE hook[w].ev.pi # p
      <3>1. receipts'[p] = receipts[p]
        BY <1>10, <2>3 DEF HookEmail
      <3> QED BY <1>2, <1>3, <2>2, <3>1 DEF ThankedOnce
    <2>4. CASE hook[w].ev.pi = p
      <3>1. Posting(w, p)
        BY <2>1, <2>4 DEF Posting
      <3>2. receipts[p] = 0 /\ \A v \in Workers : ~Posting(v, p)'
        BY <1>2, <2>2, <3>1 DEF ThankedOnce
      <3>3. receipts'[p] \in {0, 1}
        BY <1>10, <2>4, <3>2 DEF HookEmail
      <3>4. donations' = donations
        BY <1>10 DEF HookEmail
      <3>5. \A r \in RowsOf(p)' : donations'[r].status # "pending"
        BY <2>1, <2>4, <3>4 DEF HookFacts, RowsOf
      <3> QED BY <3>2, <3>3, <3>5 DEF ThankedOnce
    <2> QED BY <2>3, <2>4
  <1>11. ASSUME NEW w \in Workers, Webhook(w)
         PROVE  ThankedOnce(p)'
    BY <1>6, <1>7, <1>8, <1>9, <1>10, <1>11 DEF Webhook, Deliver, Proceed
  <1>12. CASE UNCHANGED vars
    BY <1>5, <1>12 DEF vars
  <1>13. ASSUME NEW r \in Requests, Create(r)
         PROVE  ThankedOnce(p)'
    BY <1>5, <1>13 DEF Create, Load, CreateCustomer, PersistCustomer, Charge,
       ReplayCharge, Insert, Abort, Lookup, LookupMiss
  <1>14. CASE Environment
    BY <1>5, <1>14 DEF Environment, Confirm, ForeignCharge, Backfill, EditInitiative
  <1> QED BY <1>11, <1>12, <1>13, <1>14 DEF Next

LEMMA ReceiptInvariance == Spec => []ReceiptInv
  <1>1. Init => ReceiptInv
    BY DEF Init, ReceiptInv, ThankedOnce, Posting, Idle
  <1> QED BY <1>1, ReceiptStep, Invariance, Truthful, LedgerSound, PTL DEF Spec

(* However often an event is redelivered, and however its deliveries       *)
(* overlap or crash, a donor whose intent never failed is mailed at most   *)
(* one receipt (the UPDATE of UpdateByPaymentIntentID).                    *)
THEOREM ThankedAtMostOnce == Spec => []ReceiptNotRepeated
  <1>1. TypeOK /\ ReceiptInv => ReceiptNotRepeated
    BY DEF TypeOK, ReceiptInv, ThankedOnce, ReceiptNotRepeated
  <1> QED BY <1>1, ReceiptInvariance, TypeCorrect, PTL

------------------------------------------------------------------------------
(* Donations implements DonationBook: every step of a request, a donor, a  *)
(* backfill or a webhook delivery is one step of the book or none.         *)

USE DEF requestVars, hookVars

Opened   == {p \in Intents : pi[p].status # "absent"}
Captured == {p \in Intents : pi[p].status = "succeeded"}
Refused  == {p \in Intents : Failed(p) \in events}
Records  == [p \in Intents |-> BookOf(p)]
Booked   == {t.pi : t \in ledger}

LEMMA BookValue ==
  ASSUME OneRowPerIntent, NEW p, NEW r \in RowsOf(p)
  PROVE  BookOf(p) = donations[r].status
  <1>1. (CHOOSE q \in RowsOf(p) : TRUE) = r
    BY DEF OneRowPerIntent, RowsOf
  <1> QED BY <1>1 DEF BookOf, Recorded

LEMMA BookValueNext ==
  ASSUME OneRowPerIntent', NEW p, NEW r \in RowsOf(p)'
  PROVE  BookOf(p)' = donations'[r].status
  <1>1. (CHOOSE q \in RowsOf(p)' : TRUE) = r
    BY DEF OneRowPerIntent, RowsOf
  <1> QED BY <1>1 DEF BookOf, Recorded

(* The book of an intent changes only with the status of its row. *)
LEMMA BookUnchanged ==
  ASSUME NEW p, RowsOf(p)' = RowsOf(p),
         \A r \in RowsOf(p) : donations'[r].status = donations[r].status
  PROVE  BookOf(p)' = BookOf(p)
  BY DEF BookOf, Recorded

LEMMA SameRecords ==
  ASSUME TypeOK,
         \A r \in Requests :
           /\ donations[r] = None <=> donations'[r] = None
           /\ donations[r] # None =>
                /\ donations'[r].pi = donations[r].pi
                /\ donations'[r].status = donations[r].status
  PROVE  Records' = Records
  <1>1. ASSUME NEW p \in Intents
        PROVE  BookOf(p)' = BookOf(p)
    <2>1. RowsOf(p)' = RowsOf(p)
      BY DEF RowsOf
    <2>2. \A r \in RowsOf(p) : donations'[r].status = donations[r].status
      BY DEF RowsOf
    <2> QED BY <2>1, <2>2, BookUnchanged
  <1> QED BY <1>1 DEF Records

LEMMA AttemptStep ==
  ASSUME IInv, NEW p \in Intents, pi[p].status # "succeeded",
         NEW i \in IntentState, i.status # "absent",
         pi' = [pi EXCEPT ![p] = i],
         events' = events \cup
           (CASE i.status = "succeeded" -> {Succeeded(p)}
              [] i.status \in {"declined", "failed"} -> {Failed(p)}
              [] OTHER -> {}),
         donations' = donations, ledger' = ledger
  PROVE  Book!Attempt(p)
  <1> USE DEF IInv, TypeOK
  <1>1. p \notin Captured
    BY DEF Captured
  <1>2. Opened' = Opened \cup {p}
    BY DEF Opened
  <1>3. Captured' = IF i.status = "succeeded" THEN Captured \cup {p} ELSE Captured
    BY DEF Captured
  <1>4. Refused' = IF i.status \in {"declined", "failed"} THEN Refused \cup {p}
                                                          ELSE Refused
    <2>1. CASE i.status = "succeeded"
      BY <2>1 DEF Refused, Failed, Succeeded
    <2>2. CASE i.status \in {"declined", "failed"}
      BY <2>2 DEF Refused, Failed
    <2>3. CASE i.status \notin {"succeeded", "declined", "failed"}
      BY <2>3 DEF Refused, Failed
    <2> QED BY <2>1, <2>2, <2>3
  <1>5. Records' = Records /\ Booked' = Booked
    BY SameRecords DEF Booked
  <1> QED
    BY <1>1, <1>2, <1>3, <1>4, <1>5
    DEF Book!Attempt, Opened, Captured, Refused, Records, Booked

LEMMA Stutter ==
  ASSUME pi' = pi, events' = events, Booked' = Booked, Records' = Records
  PROVE  UNCHANGED Book!vars
  BY DEF Book!vars, Opened, Captured, Refused, Records, Booked

LEMMA CreateMaps ==
  ASSUME IInv, OneRowPerIntent', NEW r \in Requests, Create(r)
  PROVE  [Book!Next]_Book!vars
  <1> USE DEF IInv, TypeOK, Inductive
  <1> DEFINE p == Input[r].key
  <1>0. p \in Intents
    BY DonationConstants DEF InputType
  <1>1. ASSUME NEW outcome \in {"succeeded", "requires_action", "declined"},
               NEW lost \in BOOLEAN, Charge(r, outcome, lost)
        PROVE  Book!Attempt(p)
    <2> DEFINE i == [status |-> outcome,
                     challenged |-> outcome = "requires_action",
                     by |-> r, cus |-> req[r].cus]
    <2>1. i \in IntentState /\ i.status = outcome /\ outcome # "absent"
      BY DEF IntentState, IntentStatuses
    <2>2. /\ pi[p].status # "succeeded" /\ pi' = [pi EXCEPT ![p] = i]
          /\ donations' = donations /\ ledger' = ledger
      BY <1>1 DEF Charge
    <2>3. events' = events \cup
            (CASE outcome = "succeeded" -> {Succeeded(p)}
               [] outcome \in {"declined", "failed"} -> {Failed(p)}
               [] OTHER -> {})
      <3>1. CASE outcome = "succeeded"
        BY <1>1, <3>1 DEF Charge
      <3>2. CASE outcome = "declined"
        BY <1>1, <3>2 DEF Charge
      <3>3. CASE outcome = "requires_action"
        BY <1>1, <3>3 DEF Charge
      <3> QED BY <3>1, <3>2, <3>3
    <2> HIDE DEF i, p
    <2> QED BY <1>0, <2>1, <2>2, <2>3, AttemptStep
  <1>2. ASSUME Insert(r), ~Conflict(p)
        PROVE  Book!Record(p)
    <2>1. /\ donations' = [donations EXCEPT ![r] = NewRow(r)]
          /\ pi' = pi /\ events' = events /\ ledger' = ledger
      BY <1>2 DEF Insert
    <2>2. donations[r] = None /\ RowsOf(p) = {}
      BY <1>2 DEF Conflict, Recorded, RowsOf, RowKeys
    <2>3. NewRow(r) # None /\ NewRow(r).pi = p /\ NewRow(r).status = "pending"
      <3>1. NewRow(r) \in Rows
        BY DonationConstants DEF NewRow, Rows, Statuses, InputType
      <3> QED BY <3>1, NoneIsNoRow DEF NewRow
    <2>4. r \in RowsOf(p)' /\ donations'[r].status = "pending"
      BY <2>1, <2>3 DEF RowsOf
    <2>5. BookOf(p)' = "pending" /\ BookOf(p) = "none"
      BY <2>2, <2>4, BookValueNext DEF BookOf, Recorded
    <2>6. ASSUME NEW q \in Intents, q # p
          PROVE  BookOf(q)' = BookOf(q)
      <3>1. RowsOf(q)' = RowsOf(q)
        BY <2>1, <2>2, <2>3, <2>6 DEF RowsOf
      <3>2. \A x \in RowsOf(q) : donations'[x].status = donations[x].status
        BY <2>1, <2>2 DEF RowsOf
      <3> QED BY <3>1, <3>2, BookUnchanged
    <2>7. Records' = [Records EXCEPT ![p] = "pending"] /\ Records[p] = "none"
      BY <1>0, <2>5, <2>6 DEF Records
    <2>8. p \in Opened
      BY <1>0, <1>2 DEF Opened, Insert, RequestFacts
    <2>9. Opened' = Opened /\ Captured' = Captured /\ Refused' = Refused
          /\ Booked' = Booked
      BY <2>1 DEF Opened, Captured, Refused, Booked
    <2> QED
      BY <2>7, <2>8, <2>9
      DEF Book!Record, Opened, Captured, Refused, Records, Booked
  <1>3. ASSUME NEW s \in SFIDs, Lookup(r, s)
        PROVE  UNCHANGED Book!vars
    <2>1. \A q \in Requests :
            /\ donations[q] = None <=> donations'[q] = None
            /\ donations[q] # None =>
                 /\ donations'[q].pi = donations[q].pi
                 /\ donations'[q].status = donations[q].status
      BY <1>3, StoreSFID, NoneIsNoRow DEF Lookup, RowsOf
    <2> QED BY <1>3, <2>1, SameRecords, Stutter DEF Lookup, Booked
  <1>4. CASE UNCHANGED <<pi, events, donations, ledger>>
    BY <1>4, SameRecords, Stutter DEF Booked
  <1>5. Create(r) /\ ~(\E outcome \in {"succeeded", "requires_action", "declined"},
                          lost \in BOOLEAN : Charge(r, outcome, lost))
                  /\ ~(Insert(r) /\ ~Conflict(p))
                  /\ ~(\E s \in SFIDs : Lookup(r, s))
        => UNCHANGED <<pi, events, donations, ledger>>
    BY DEF Create, Load, CreateCustomer, PersistCustomer, ReplayCharge,
       Insert, Abort, LookupMiss
  <1> QED BY <1>0, <1>1, <1>2, <1>3, <1>4, <1>5 DEF Book!Next

LEMMA EnvironmentMaps ==
  ASSUME IInv, Environment
  PROVE  [Book!Next]_Book!vars
  <1> USE DEF IInv, TypeOK
  <1>1. ASSUME NEW p \in Intents, NEW ok \in BOOLEAN, Confirm(p, ok)
        PROVE  Book!Attempt(p)
    <2> DEFINE i == [pi[p] EXCEPT !.status = IF ok THEN "succeeded" ELSE "failed"]
    <2>1. i \in IntentState /\ i.status = IF ok THEN "succeeded" ELSE "failed"
      BY DEF IntentState, IntentStatuses
    <2>2. /\ pi[p].status # "succeeded" /\ pi' = [pi EXCEPT ![p] = i]
          /\ donations' = donations /\ ledger' = ledger
          /\ events' = events \cup {IF ok THEN Succeeded(p) ELSE Failed(p)}
      BY <1>1 DEF Confirm
    <2>3. events' = events \cup
            (CASE i.status = "succeeded" -> {Succeeded(p)}
               [] i.status \in {"declined", "failed"} -> {Failed(p)}
               [] OTHER -> {})
      <3>1. CASE ok
        BY <2>1, <2>2, <3>1
      <3>2. CASE ~ok
        BY <2>1, <2>2, <3>2
      <3> QED BY <3>1, <3>2
    <2>4. i.status # "absent"
      BY <2>1
    <2> HIDE DEF i
    <2> QED BY <2>1, <2>2, <2>3, <2>4, AttemptStep
  <1>2. ASSUME NEW p \in Intents, ForeignCharge(p)
        PROVE  Book!Attempt(p)
    <2> DEFINE i == [pi[p] EXCEPT !.status = "succeeded"]
    <2>1. i \in IntentState /\ i.status = "succeeded"
      BY DEF IntentState, IntentStatuses
    <2>2. /\ pi[p].status # "succeeded" /\ pi' = [pi EXCEPT ![p] = i]
          /\ donations' = donations /\ ledger' = ledger
      BY <1>2 DEF ForeignCharge
    <2>3. events' = events \cup
            (CASE i.status = "succeeded" -> {Succeeded(p)}
               [] i.status \in {"declined", "failed"} -> {Failed(p)}
               [] OTHER -> {})
      BY <1>2, <2>1 DEF ForeignCharge
    <2> HIDE DEF i
    <2> QED BY <2>1, <2>2, <2>3, AttemptStep
  <1>3. ASSUME NEW s \in SFIDs, Backfill(s)
        PROVE  UNCHANGED Book!vars
    <2>1. \A q \in Requests :
            /\ donations[q] = None <=> donations'[q] = None
            /\ donations[q] # None =>
                 /\ donations'[q].pi = donations[q].pi
                 /\ donations'[q].status = donations[q].status
      BY <1>3, StoreSFID, NoneIsNoRow DEF Backfill
    <2> QED BY <1>3, <2>1, SameRecords, Stutter DEF Backfill, Booked
  <1>4. CASE EditInitiative
    BY <1>4, SameRecords, Stutter DEF EditInitiative, Booked
  <1> QED BY <1>1, <1>2, <1>3, <1>4 DEF Environment, Book!Next

LEMMA WebhookMaps ==
  ASSUME IInv, OneRowPerIntent', NEW w \in Workers, Webhook(w)
  PROVE  [Book!Next]_Book!vars
  <1> USE DEF IInv, TypeOK, Inductive
  <1>1. ASSUME NEW e \in events, HookUpdate(w, e)
        PROVE  Book!Settle(e.pi)
    <2>1. e.pi \in Intents /\ e \in Events
      BY EventCases
    <2>2. PICK r \in Updatable(e) : TRUE
      BY <1>1 DEF HookUpdate
    <2>3. r \in RowsOf(e.pi) /\ r \in RowsOf(e.pi)'
          /\ donations'[r].status = Target(e)
      BY <1>1, <2>2, UpdateRow DEF Updatable, RowsOf
    <2>4. BookOf(e.pi)' = Target(e)
      BY <2>3, BookValueNext
    <2>5. BookOf(e.pi) = donations[r].status /\ donations[r].status # "none"
      BY <2>3, BookValue DEF RowsOf, Rows, Statuses
    <2>6. ASSUME NEW q \in Intents, q # e.pi
          PROVE  BookOf(q)' = BookOf(q)
      <3>1. RowsOf(q)' = RowsOf(q)
        BY <1>1, UpdateRow DEF RowsOf
      <3>2. \A x \in RowsOf(q) : donations'[x].status = donations[x].status
        BY <1>1, <2>6, UpdateRow DEF RowsOf, Updatable
      <3> QED BY <3>1, <3>2, BookUnchanged
    <2>7. Records' = [Records EXCEPT ![e.pi] = Target(e)]
          /\ Records[e.pi] # "none"
      BY <2>1, <2>4, <2>5, <2>6 DEF Records
    <2>8. \/ Target(e) = "succeeded" /\ e.pi \in Captured
          \/ Target(e) = "failed" /\ e.pi \in Refused
      BY <2>1, EventCases DEF Captured, Refused, EventFacts
    <2>9. Opened' = Opened /\ Captured' = Captured /\ Refused' = Refused
          /\ Booked' = Booked
      BY <1>1 DEF HookUpdate, Opened, Captured, Refused, Booked
    <2> QED
      BY <2>7, <2>8, <2>9
      DEF Book!Settle, Opened, Captured, Refused, Records, Booked
  <1>2. ASSUME NEW ok \in BOOLEAN, HookLedger(w, ok), ledger' # ledger
        PROVE  Book!Next
    <2> PICK e : e = hook[w].ev
      OBVIOUS
    <2>1. /\ e \in events /\ e = Succeeded(e.pi) /\ Recorded(e.pi)
          /\ \A r \in RowsOf(e.pi) : donations[r].status # "pending"
      BY <1>2 DEF HookLedger, HookFacts
    <2>2. e.pi \in Captured
      BY <2>1, EventCases DEF EventFacts, Captured
    <2>3. PICK r \in RowsOf(e.pi) : TRUE
      BY <2>1 DEF Recorded
    <2>4. Records[e.pi] # "none"
      <3>1. BookOf(e.pi) = donations[r].status
        BY <2>3, BookValue
      <3>2. donations[r].status # "none"
        BY <2>3 DEF RowsOf, Rows, Statuses
      <3> QED BY <2>2, <3>1, <3>2 DEF Records, Captured
    <2>5. Booked' = Booked \cup {e.pi}
      BY <1>2 DEF HookLedger, Booked
    <2>6. Opened' = Opened /\ Captured' = Captured /\ Refused' = Refused
          /\ Records' = Records
      BY <1>2, SameRecords DEF HookLedger, Opened, Captured, Refused
    <2>7. Book!Book(e.pi)
      BY <2>2, <2>4, <2>5, <2>6
      DEF Book!Book, Opened, Captured, Refused, Records, Booked
    <2> QED BY <2>1, <2>7, EventCases DEF Book!Next
  <1>3. CASE UNCHANGED <<pi, events, donations, ledger>>
    BY <1>3, SameRecords, Stutter DEF Booked
  <1>4. \A ok \in BOOLEAN : HookLedger(w, ok) =>
          UNCHANGED <<pi, events, donations>> /\ hook[w].pc = "ledger"
    BY DEF HookLedger
  <1>5. \/ \E e \in events : HookUpdate(w, e)
        \/ \E ok \in BOOLEAN : HookLedger(w, ok)
        \/ UNCHANGED <<pi, events, donations, ledger>>
    BY DEF Webhook, Deliver, Proceed, HookNoUpdate, HookExists, HookEmail,
       HookCrash
  <1>6. ASSUME NEW e \in events, HookUpdate(w, e)
        PROVE  Book!Next
    BY <1>1, <1>6, EventCases DEF Book!Next
  <1> QED BY <1>2, <1>3, <1>4, <1>5, <1>6

(* The donation service keeps the donation book. *)
THEOREM Refinement == Spec => ImplementsBook
  <1>1. Init => Book!Init
    BY DEF Init, Book!Init, BookOf, Recorded, RowsOf
  <1>2. ASSUME IInv, OneRowPerIntent', [Next]_vars
        PROVE  [Book!Next]_Book!vars
    <2>1. CASE UNCHANGED vars
      <3>1. UNCHANGED <<pi, events, donations, ledger>>
        BY <2>1 DEF vars
      <3> QED BY <1>2, <3>1, SameRecords, Stutter DEF Booked, IInv
    <2> QED
      BY <1>2, <2>1, CreateMaps, EnvironmentMaps, WebhookMaps DEF Next
  <1>3. IInv' => OneRowPerIntent'
    BY DEF IInv
  <1> QED
    BY <1>1, <1>2, <1>3, Invariance, PTL DEF Spec, ImplementsBook, Book!Spec
==============================================================================
