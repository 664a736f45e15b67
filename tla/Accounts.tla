-------------------------------- MODULE Accounts --------------------------------
(***************************************************************************)
(* One person's row of the users table and the Stripe objects it names:    *)
(* the login sync (handler/user_handler.go), the owner stub of the         *)
(* mentorship job, and the card requests of service/payment_service.go     *)
(* with the statements of infrastructure/db/user_repository.go.            *)
(*                                                                         *)
(* Every request reads the row, calls Stripe or auth-service and writes    *)
(* single statements, with nothing held in between, so two tabs of one     *)
(* person cross at every step.  A profile field is known or blank; the     *)
(* fields of a name come and go together.  Principals are Heimdall's (or   *)
(* the local bypass): no request carries an Auth0 subject.                 *)
(***************************************************************************)
EXTENDS Integers

CONSTANTS
  Requests,      \* requests that may run at the same time
  Cards,         \* payment methods the person enters
  MaxCustomers,  \* bound: Stripe customers created
  NoCard

ASSUME AccountAssumption == MaxCustomers \in Nat /\ NoCard \notin Cards

VARIABLES
  user,       \* the row: [exists, legacy, email, name, customer, card]
  job,        \* of each request: [op, at, customer, card, email, name]
  customers,  \* number of Stripe customers created, which are named 1, 2, ...
  owner,      \* of each card: the customer it was attached to, 0 for none
  detached,   \* cards detached for good
  overwritten \* did a customer replace another since a card was last saved?

accountVars == <<user, job, customers, owner, detached, overwritten>>

Customers == 0 .. MaxCustomers
Users0    == [exists : BOOLEAN, legacy : BOOLEAN, email : BOOLEAN, name : BOOLEAN,
              customer : Customers, card : Cards \cup {NoCard}]
Jobs0     == [op : {"none", "sync", "use", "attach", "delete"},
              at : {"idle", "upsert", "create", "persist", "stripe", "save", "clear"},
              customer : Customers, card : Cards \cup {NoCard},
              email : BOOLEAN, name : BOOLEAN]

AccountTypeOK ==
  /\ user \in Users0
  /\ job \in [Requests -> Jobs0]
  /\ customers \in Customers
  /\ owner \in [Cards -> Customers]
  /\ detached \subseteq Cards
  /\ overwritten \in BOOLEAN

NoJob == [op |-> "none", at |-> "idle", customer |-> 0, card |-> NoCard,
          email |-> FALSE, name |-> FALSE]

(* No row yet. *)
AccountInit ==
  /\ user = [exists |-> FALSE, legacy |-> FALSE, email |-> FALSE, name |-> FALSE,
             customer |-> 0, card |-> NoCard]
  /\ job = [r \in Requests |-> NoJob]
  /\ customers = 0
  /\ owner = [c \in Cards |-> 0]
  /\ detached = {} /\ overwritten = FALSE

-----------------------------------------------------------------------------
Goto(r, step) == job' = [job EXCEPT ![r].at = step]
End(r)        == job' = [job EXCEPT ![r] = NoJob]

(* The migration of the legacy system writes the row before it is used. *)
Migrate(mail) ==
  /\ ~user.exists
  /\ user' = [user EXCEPT !.exists = TRUE, !.legacy = TRUE, !.email = mail]
  /\ UNCHANGED <<job, customers, owner, detached, overwritten>>

(* UpsertProgram inserts an owner it does not know, and leaves others alone. *)
OwnerStub(mail) ==
  /\ user' = IF user.exists THEN user
             ELSE [user EXCEPT !.exists = TRUE, !.email = mail]
  /\ UNCHANGED <<job, customers, owner, detached, overwritten>>

(* heimdallProfile: the email of the token or of auth-service, and the     *)
(* name of auth-service; a lookup that fails leaves its field blank.       *)
Login(r, mail, nm) ==
  /\ job[r].at = "idle"
  /\ job' = [job EXCEPT ![r] = [NoJob EXCEPT !.op = "sync", !.at = "upsert",
                                             !.email = mail, !.name = nm]]
  /\ UNCHANGED <<user, customers, owner, detached, overwritten>>

(* Mutant: the row becomes what the token and auth-service said. *)
Upserted_Blanks(r) == [user EXCEPT !.exists = TRUE, !.email = job[r].email, !.name = job[r].name]

(* Upsert: the subject is blank; a blank field keeps what is stored. *)
Upserted(r) == [user EXCEPT !.exists = TRUE,
                            !.email  = job[r].email \/ user.email,
                            !.name   = job[r].name \/ user.name]
Upsert(r) ==
  /\ job[r].at = "upsert"
  /\ user' = Upserted(r)
  /\ End(r)
  /\ UNCHANGED <<customers, owner, detached, overwritten>>

(* ensureCustomer, and the same lines of the donation and subscription     *)
(* requests: without a row, or without an email, the profile must be       *)
(* synced first.  "use" stands for a setup intent, a donation or a         *)
(* subscription.                                                           *)
StartPayment(r, op, c) ==
  /\ job[r].at = "idle"
  /\ user.exists
  /\ user.customer # 0 \/ user.email
  /\ job' = [job EXCEPT ![r] = [NoJob EXCEPT
               !.op = op, !.card = c, !.customer = user.customer,
               !.at = IF user.customer = 0 THEN "create" ELSE "stripe"]]
  /\ UNCHANGED <<user, customers, owner, detached, overwritten>>

NewCustomer(r) ==
  /\ job[r].at = "create" /\ customers < MaxCustomers
  /\ customers' = customers + 1
  /\ job' = [job EXCEPT ![r].at = "persist", ![r].customer = customers + 1]
  /\ UNCHANGED <<user, owner, detached, overwritten>>

(* UpdateStripeInfo with no payment method *)
WithCustomer(r) == [user EXCEPT !.customer = job[r].customer]
SaveCustomer(r) ==
  /\ job[r].at = "persist"
  /\ user' = WithCustomer(r)
  /\ overwritten' = (overwritten \/ user.customer # 0)
  /\ Goto(r, "stripe")
  /\ UNCHANGED <<customers, owner, detached>>

Use(r) ==
  /\ job[r].at = "stripe" /\ job[r].op = "use"
  /\ End(r)
  /\ UNCHANGED <<user, customers, owner, detached, overwritten>>

(* Stripe refuses a card of another customer and one that was detached.    *)
(* The card stays attached when making it the default fails.               *)
Attach(r) ==
  /\ job[r].at = "stripe" /\ job[r].op = "attach"
  /\ LET c == job[r].card IN
       /\ c \notin detached /\ owner[c] \in {0, job[r].customer}
       /\ owner' = [owner EXCEPT ![c] = job[r].customer]
  /\ Goto(r, "save") \/ End(r)
  /\ UNCHANGED <<user, customers, detached, overwritten>>

(* Mutant: the card alone. *)
WithCard_CardOnly(r) == [user EXCEPT !.card = job[r].card]

(* UpdateStripeInfo with both: the customer the card was attached to. *)
WithCard(r) == [user EXCEPT !.customer = job[r].customer, !.card = job[r].card]
SaveCard(r) ==
  /\ job[r].at = "save"
  /\ user' = WithCard(r)
  /\ overwritten' = FALSE
  /\ End(r)
  /\ UNCHANGED <<customers, owner, detached>>

StartDelete(r) ==
  /\ job[r].at = "idle" /\ user.card # NoCard
  /\ job' = [job EXCEPT ![r] = [NoJob EXCEPT !.op = "delete", !.at = "stripe", !.card = user.card]]
  /\ UNCHANGED <<user, customers, owner, detached, overwritten>>

Detach(r) ==
  /\ job[r].at = "stripe" /\ job[r].op = "delete"
  /\ job[r].card \notin detached
  /\ detached' = detached \cup {job[r].card}
  /\ Goto(r, "clear")
  /\ UNCHANGED <<user, customers, owner, overwritten>>

(* ClearStripePaymentMethod, whatever card the row names by now. *)
ClearCard(r) ==
  /\ job[r].at = "clear"
  /\ user' = [user EXCEPT !.card = NoCard]
  /\ End(r)
  /\ UNCHANGED <<customers, owner, detached, overwritten>>

(* A call refused or lost, or the process stopped: nothing is undone. *)
RequestFails(r) ==
  /\ job[r].at # "idle"
  /\ End(r)
  /\ UNCHANGED <<user, customers, owner, detached, overwritten>>

AccountNext ==
  \/ \E b \in BOOLEAN : Migrate(b) \/ OwnerStub(b)
  \/ \E r \in Requests :
       \/ \E m, n \in BOOLEAN : Login(r, m, n)
       \/ \E c \in Cards : StartPayment(r, "attach", c)
       \/ StartPayment(r, "use", NoCard)
       \/ Upsert(r) \/ NewCustomer(r) \/ SaveCustomer(r) \/ Use(r)
       \/ Attach(r) \/ SaveCard(r)
       \/ StartDelete(r) \/ Detach(r) \/ ClearCard(r)
       \/ RequestFails(r)

AccountSpec == AccountInit /\ [][AccountNext]_accountVars

-----------------------------------------------------------------------------
(* Whatever writers cross, the row keeps what it had: the legacy subject,  *)
(* a profile field once known and a Stripe customer once stored are never  *)
(* blanked ("A blank/NULL field in u preserves whatever is already stored",*)
(* Upsert; COALESCE and NULLIF in UpdateStripeInfo).                       *)
Kept(old, new) ==
  /\ old.exists => new.exists /\ (new.legacy <=> old.legacy)
  /\ old.email => new.email
  /\ old.name => new.name
  /\ old.customer # 0 => new.customer # 0

AccountKept == [][Kept(user, user')]_accountVars

(* The saved card can be charged with the saved customer: it was attached  *)
(* to it.  Only two first requests that both create a customer break the   *)
(* pair, and the next card saved repairs it, because AttachPaymentMethod   *)
(* writes the customer it used together with the card.                     *)
CardOfCustomer ==
  user.card # NoCard /\ ~overwritten => owner[user.card] = user.customer

=============================================================================
