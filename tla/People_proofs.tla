----------------------------- MODULE People_proofs -----------------------------
(*****************************************************************************)
(* What people change through requests that take several steps: the users    *)
(* row and the Stripe objects it names, and announcements, for any people,   *)
(* requests, cards and initiatives.                                          *)
(*****************************************************************************)
EXTENDS Accounts, Announcements, TLAPS

(* A request that is about to write a customer, or uses one, has one. *)
CustomerKnown == \A r \in Requests :
  job[r].at \in {"persist", "save"} \/ (job[r].at = "stripe" /\ job[r].op # "delete")
    => job[r].customer # 0

(* The card to be saved was attached to the customer to be saved, and is   *)
(* still: Stripe never moves a card to another customer.                   *)
CardAttached == \A r \in Requests :
  job[r].at = "save" => job[r].card \in Cards /\ owner[job[r].card] = job[r].customer

(* The card to be attached or detached is one. *)
CardGiven == \A r \in Requests : job[r].op \in {"attach", "delete"} => job[r].card \in Cards

CardNeedsCustomer == user.card # NoCard => user.customer # 0

AccountInv ==
  /\ AccountTypeOK
  /\ CustomerKnown /\ CardAttached /\ CardGiven
  /\ CardNeedsCustomer /\ CardOfCustomer

Steps0 == {"idle", "upsert", "create", "persist", "stripe", "save", "clear"}
Ops0   == {"none", "sync", "use", "attach", "delete"}

LEMMA NoJobTyped == NoJob \in Jobs0
BY AccountAssumption DEF NoJob, Jobs0, Customers

(* A request moves on, ends, or begins. *)
LEMMA GotoTyped ==
  ASSUME AccountTypeOK, NEW r \in Requests, NEW step \in Steps0, Goto(r, step)
  PROVE  /\ job' \in [Requests -> Jobs0]
         /\ job'[r] = [job[r] EXCEPT !.at = step]
         /\ \A q \in Requests \ {r} : job'[q] = job[q]
<1>1. job[r] \in Jobs0 BY DEF AccountTypeOK
<1>2. [job[r] EXCEPT !.at = step] \in Jobs0 BY <1>1 DEF Jobs0, Steps0
<1> QED BY <1>2 DEF Goto, AccountTypeOK

LEMMA EndTyped ==
  ASSUME AccountTypeOK, NEW r \in Requests, End(r)
  PROVE  /\ job' \in [Requests -> Jobs0]
         /\ job'[r] = NoJob
         /\ \A q \in Requests \ {r} : job'[q] = job[q]
BY NoJobTyped DEF End, AccountTypeOK

LEMMA BeginTyped ==
  ASSUME AccountTypeOK, NEW r \in Requests, NEW j \in Jobs0, job' = [job EXCEPT ![r] = j]
  PROVE  /\ job' \in [Requests -> Jobs0]
         /\ job'[r] = j
         /\ \A q \in Requests \ {r} : job'[q] = job[q]
BY DEF AccountTypeOK

LEMMA AccountInvInit == AccountInit => AccountInv
<1> SUFFICES ASSUME AccountInit PROVE AccountInv
  OBVIOUS
<1>1. 0 \in Customers BY AccountAssumption DEF Customers
<1>2. NoJob \in Jobs0 /\ NoJob.at = "idle" /\ NoJob.op = "none" BY NoJobTyped DEF NoJob
<1>3. user \in Users0 /\ user.card = NoCard BY <1>1 DEF AccountInit, Users0
<1>4. AccountTypeOK BY <1>1, <1>2, <1>3 DEF AccountInit, AccountTypeOK
<1>5. CustomerKnown /\ CardAttached /\ CardGiven
  BY <1>2 DEF AccountInit, CustomerKnown, CardAttached, CardGiven
<1> QED BY <1>3, <1>4, <1>5 DEF AccountInv, CardNeedsCustomer, CardOfCustomer

(* Only the row of profile fields changes. *)
LEMMA ProfileStep ==
  ASSUME AccountInv, user' \in Users0, user'.customer = user.customer, user'.card = user.card,
         UNCHANGED <<job, customers, owner, detached, overwritten>>
  PROVE  AccountInv'
BY DEF AccountInv, AccountTypeOK, CustomerKnown, CardAttached, CardGiven, CardNeedsCustomer,
   CardOfCustomer

(* A request begins or ends and nothing else changes. *)
LEMMA JobStep ==
  ASSUME AccountInv, NEW r \in Requests, NEW j \in Jobs0,
         job'[r] = j, job' \in [Requests -> Jobs0],
         \A q \in Requests \ {r} : job'[q] = job[q],
         j.at \notin {"persist", "save"},
         j.at = "stripe" /\ j.op # "delete" => j.customer # 0,
         j.op \in {"attach", "delete"} => j.card \in Cards,
         user' \in Users0, user'.customer = user.customer, user'.card \in {user.card, NoCard},
         customers' = customers, owner' = owner, detached' \subseteq Cards,
         overwritten' = overwritten
  PROVE  AccountInv'
<1>1. AccountTypeOK' BY DEF AccountInv, AccountTypeOK
<1>2. CustomerKnown' BY DEF AccountInv, CustomerKnown
<1>3. CardAttached' /\ CardGiven' BY DEF AccountInv, CardAttached, CardGiven
<1>4. CardNeedsCustomer' /\ CardOfCustomer' BY DEF AccountInv, CardNeedsCustomer, CardOfCustomer
<1> QED BY <1>1, <1>2, <1>3, <1>4 DEF AccountInv

LEMMA AccountInvNext == AccountInv /\ [AccountNext]_accountVars => AccountInv'
<1> SUFFICES ASSUME AccountInv, [AccountNext]_accountVars PROVE AccountInv'
  OBVIOUS
<1>0. AccountTypeOK /\ user \in Users0 /\ NoJob \in Jobs0 /\ NoJob.at = "idle" /\ NoJob.op = "none"
  BY NoJobTyped DEF AccountInv, AccountTypeOK, NoJob
<1>1. ASSUME NEW b \in BOOLEAN, Migrate(b) \/ OwnerStub(b) PROVE AccountInv'
  <2>1. user' \in Users0 /\ user'.customer = user.customer /\ user'.card = user.card
    BY <1>0, <1>1 DEF Migrate, OwnerStub, Users0
  <2> QED BY <1>1, <2>1, ProfileStep DEF Migrate, OwnerStub
<1>2. ASSUME NEW r \in Requests, NEW m \in BOOLEAN, NEW n \in BOOLEAN, Login(r, m, n)
      PROVE  AccountInv'
  <2> DEFINE j == [NoJob EXCEPT !.op = "sync", !.at = "upsert", !.email = m, !.name = n]
  <2>1. j \in Jobs0 /\ j.at = "upsert" /\ j.op = "sync" BY <1>0 DEF NoJob, Jobs0
  <2>2. job' = [job EXCEPT ![r] = j] /\ UNCHANGED <<user, customers, owner, detached, overwritten>>
    BY <1>2 DEF Login
  <2> HIDE DEF j
  <2>3. job' \in [Requests -> Jobs0] /\ job'[r] = j /\ \A q \in Requests \ {r} : job'[q] = job[q]
    BY <1>0, <2>1, <2>2, BeginTyped
  <2>4. detached' \subseteq Cards BY <1>0, <2>2 DEF AccountTypeOK
  <2> QED BY <1>0, <2>1, <2>2, <2>3, <2>4, JobStep
<1>3. ASSUME NEW r \in Requests, Upsert(r) PROVE AccountInv'
  <2>1. user' = Upserted(r) /\ End(r) /\ UNCHANGED <<customers, owner, detached, overwritten>>
    BY <1>3 DEF Upsert
  <2>2. job[r] \in Jobs0 BY <1>0 DEF AccountTypeOK
  <2>3. user' \in Users0 /\ user'.customer = user.customer /\ user'.card = user.card
    BY <1>0, <2>1, <2>2 DEF Upserted, Users0, Jobs0
  <2>4. job' \in [Requests -> Jobs0] /\ job'[r] = NoJob /\ \A q \in Requests \ {r} : job'[q] = job[q]
    BY <1>0, <2>1, EndTyped
  <2>5. detached' \subseteq Cards BY <1>0, <2>1 DEF AccountTypeOK
  <2> QED BY <1>0, <2>1, <2>3, <2>4, <2>5, JobStep
<1>4. ASSUME NEW r \in Requests, NEW op \in {"use", "attach"}, NEW c \in Cards \cup {NoCard},
             op = "attach" => c \in Cards, StartPayment(r, op, c)
      PROVE  AccountInv'
  <2> DEFINE j == [NoJob EXCEPT !.op = op, !.card = c, !.customer = user.customer,
                                !.at = IF user.customer = 0 THEN "create" ELSE "stripe"]
  <2>1. user.customer \in Customers BY <1>0 DEF Users0
  <2>2. /\ j \in Jobs0 /\ j.op = op /\ j.card = c /\ j.customer = user.customer
        /\ j.at = IF user.customer = 0 THEN "create" ELSE "stripe"
    BY <1>0, <2>1 DEF NoJob, Jobs0
  <2>3. job' = [job EXCEPT ![r] = j] /\ UNCHANGED <<user, customers, owner, detached, overwritten>>
    BY <1>4 DEF StartPayment
  <2> HIDE DEF j
  <2>4. job' \in [Requests -> Jobs0] /\ job'[r] = j /\ \A q \in Requests \ {r} : job'[q] = job[q]
    BY <1>0, <2>2, <2>3, BeginTyped
  <2>5. detached' \subseteq Cards BY <1>0, <2>3 DEF AccountTypeOK
  <2> QED BY <1>0, <1>4, <2>2, <2>3, <2>4, <2>5, JobStep
<1>5. ASSUME NEW r \in Requests, NewCustomer(r) PROVE AccountInv'
  <2> DEFINE j == [job[r] EXCEPT !.at = "persist", !.customer = customers + 1]
  <2>1. /\ job[r].at = "create" /\ customers < MaxCustomers /\ customers' = customers + 1
        /\ job' = [job EXCEPT ![r] = j] /\ UNCHANGED <<user, owner, detached, overwritten>>
    BY <1>5, <1>0 DEF NewCustomer, AccountTypeOK
  <2>2. job[r] \in Jobs0 /\ customers \in Customers BY <1>0 DEF AccountTypeOK
  <2>3. customers + 1 \in Customers /\ customers + 1 # 0
    BY <2>1, <2>2, AccountAssumption DEF Customers
  <2>4. /\ j \in Jobs0 /\ j.at = "persist" /\ j.customer # 0
        /\ j.op = job[r].op /\ j.card = job[r].card
    BY <2>2, <2>3 DEF Jobs0
  <2> HIDE DEF j
  <2>5. job' \in [Requests -> Jobs0] /\ job'[r] = j /\ \A q \in Requests \ {r} : job'[q] = job[q]
    BY <1>0, <2>1, <2>4, BeginTyped
  <2>6. AccountTypeOK' BY <1>0, <2>1, <2>3, <2>5 DEF AccountTypeOK
  <2>7. CustomerKnown' BY <2>4, <2>5 DEF AccountInv, CustomerKnown
  <2>8. CardAttached' /\ CardGiven'
    BY <2>1, <2>4, <2>5 DEF AccountInv, CardAttached, CardGiven
  <2> QED BY <2>1, <2>6, <2>7, <2>8 DEF AccountInv, CardNeedsCustomer, CardOfCustomer
<1>6. ASSUME NEW r \in Requests, SaveCustomer(r) PROVE AccountInv'
  <2>1. /\ job[r].at = "persist" /\ user' = WithCustomer(r)
        /\ overwritten' = (overwritten \/ user.customer # 0)
        /\ Goto(r, "stripe") /\ UNCHANGED <<customers, owner, detached>>
    BY <1>6 DEF SaveCustomer
  <2>2. job[r] \in Jobs0 /\ job[r].customer # 0
    BY <1>0, <2>1 DEF AccountInv, AccountTypeOK, CustomerKnown
  <2>3. user' \in Users0 /\ user'.customer = job[r].customer /\ user'.card = user.card
    BY <1>0, <2>1, <2>2 DEF WithCustomer, Users0, Jobs0
  <2>4. /\ job' \in [Requests -> Jobs0] /\ job'[r] = [job[r] EXCEPT !.at = "stripe"]
        /\ \A q \in Requests \ {r} : job'[q] = job[q]
    BY <1>0, <2>1, GotoTyped DEF Steps0
  <2>5. /\ job'[r].at = "stripe" /\ job'[r].op = job[r].op /\ job'[r].card = job[r].card
        /\ job'[r].customer = job[r].customer
    BY <2>2, <2>4 DEF Jobs0
  <2>6. AccountTypeOK' BY <1>0, <2>1, <2>3, <2>4 DEF AccountTypeOK
  <2>7. CustomerKnown' BY <2>2, <2>4, <2>5 DEF AccountInv, CustomerKnown
  <2>8. CardAttached' /\ CardGiven' BY <2>1, <2>4, <2>5 DEF AccountInv, CardAttached, CardGiven
  <2>9. CardNeedsCustomer' BY <2>2, <2>3 DEF CardNeedsCustomer
  <2>10. CardOfCustomer'
    <3> SUFFICES ASSUME user'.card # NoCard, ~overwritten' PROVE FALSE
      BY DEF CardOfCustomer
    <3>1. user.card # NoCard BY <2>3
    <3>2. user.customer = 0 BY <2>1
    <3> QED BY <3>1, <3>2 DEF AccountInv, CardNeedsCustomer
  <2> QED BY <2>6, <2>7, <2>8, <2>9, <2>10 DEF AccountInv
<1>7. ASSUME NEW r \in Requests, Use(r) \/ RequestFails(r) PROVE AccountInv'
  <2>1. End(r) /\ UNCHANGED <<user, customers, owner, detached, overwritten>>
    BY <1>7 DEF Use, RequestFails
  <2>2. job' \in [Requests -> Jobs0] /\ job'[r] = NoJob /\ \A q \in Requests \ {r} : job'[q] = job[q]
    BY <1>0, <2>1, EndTyped
  <2>3. detached' \subseteq Cards BY <1>0, <2>1 DEF AccountTypeOK
  <2> QED BY <1>0, <2>1, <2>2, <2>3, JobStep
<1>8. ASSUME NEW r \in Requests, Attach(r) PROVE AccountInv'
  <2> DEFINE c == job[r].card
  <2>1. /\ job[r].at = "stripe" /\ job[r].op = "attach"
        /\ owner[c] \in {0, job[r].customer}
        /\ owner' = [owner EXCEPT ![c] = job[r].customer]
        /\ Goto(r, "save") \/ End(r)
        /\ UNCHANGED <<user, customers, detached, overwritten>>
    BY <1>8 DEF Attach
  <2>2. job[r] \in Jobs0 /\ job[r].customer # 0 /\ job[r].customer \in Customers /\ c \in Cards
        /\ owner \in [Cards -> Customers]
    BY <1>0, <2>1 DEF AccountInv, AccountTypeOK, CustomerKnown, CardGiven, Jobs0
  <2>3. /\ owner' \in [Cards -> Customers] /\ owner'[c] = job[r].customer
        /\ \A k \in Cards : owner[k] # 0 => owner'[k] = owner[k]
    BY <2>1, <2>2
  <2>4. /\ job' \in [Requests -> Jobs0]
        /\ \A q \in Requests \ {r} : job'[q] = job[q]
        /\ job'[r] = NoJob \/ job'[r] = [job[r] EXCEPT !.at = "save"]
    BY <1>0, <2>1, GotoTyped, EndTyped DEF Steps0
  <2>5. \/ job'[r].at = "idle" /\ job'[r].op = "none"
        \/ /\ job'[r].at = "save" /\ job'[r].op = "attach"
           /\ job'[r].card = c /\ job'[r].customer = job[r].customer
    BY <1>0, <2>1, <2>2, <2>4 DEF Jobs0
  <2>6. AccountTypeOK' BY <1>0, <2>1, <2>3, <2>4 DEF AccountTypeOK
  <2>7. CustomerKnown' BY <2>2, <2>4, <2>5 DEF AccountInv, CustomerKnown
  <2>8. CardGiven' BY <2>2, <2>4, <2>5 DEF AccountInv, CardGiven
  <2>9. CardAttached'
    <3>1. ASSUME NEW q \in Requests \ {r}, job[q].at = "save"
          PROVE  job[q].card \in Cards /\ owner'[job[q].card] = job[q].customer
      <4>1. job[q].card \in Cards /\ owner[job[q].card] = job[q].customer /\ job[q].customer # 0
        BY <3>1 DEF AccountInv, CardAttached, CustomerKnown
      <4> QED BY <2>3, <4>1
    <3> QED BY <2>2, <2>3, <2>4, <2>5, <3>1 DEF CardAttached
  <2>10. CardOfCustomer'
    <3> SUFFICES ASSUME user.card # NoCard, ~overwritten PROVE owner'[user.card] = user.customer
      BY <2>1 DEF CardOfCustomer
    <3>1. user.card \in Cards BY <1>0 DEF Users0
    <3>2. owner[user.card] = user.customer /\ user.customer # 0
      BY DEF AccountInv, CardOfCustomer, CardNeedsCustomer
    <3> QED BY <2>3, <3>1, <3>2
  <2> QED BY <2>1, <2>6, <2>7, <2>8, <2>9, <2>10 DEF AccountInv, CardNeedsCustomer
<1>9. ASSUME NEW r \in Requests, SaveCard(r) PROVE AccountInv'
  <2>1. /\ job[r].at = "save" /\ user' = WithCard(r) /\ overwritten' = FALSE
        /\ End(r) /\ UNCHANGED <<customers, owner, detached>>
    BY <1>9 DEF SaveCard
  <2>2. /\ job[r] \in Jobs0 /\ job[r].customer # 0 /\ job[r].card \in Cards
        /\ owner[job[r].card] = job[r].customer
    BY <1>0, <2>1 DEF AccountInv, AccountTypeOK, CustomerKnown, CardAttached
  <2>3. user' \in Users0 /\ user'.customer = job[r].customer /\ user'.card = job[r].card
    BY <1>0, <2>1, <2>2 DEF WithCard, Users0, Jobs0
  <2>4. job' \in [Requests -> Jobs0] /\ job'[r] = NoJob /\ \A q \in Requests \ {r} : job'[q] = job[q]
    BY <1>0, <2>1, EndTyped
  <2>5. AccountTypeOK' BY <1>0, <2>1, <2>3, <2>4 DEF AccountTypeOK
  <2>6. CustomerKnown' /\ CardAttached' /\ CardGiven'
    BY <1>0, <2>1, <2>4 DEF AccountInv, CustomerKnown, CardAttached, CardGiven
  <2>7. CardNeedsCustomer' /\ CardOfCustomer'
    BY <2>1, <2>2, <2>3 DEF CardNeedsCustomer, CardOfCustomer
  <2> QED BY <2>5, <2>6, <2>7 DEF AccountInv
<1>10. ASSUME NEW r \in Requests, StartDelete(r) PROVE AccountInv'
  <2> DEFINE j == [NoJob EXCEPT !.op = "delete", !.at = "stripe", !.card = user.card]
  <2>1. user.card \in Cards BY <1>0, <1>10 DEF Users0, StartDelete
  <2>2. j \in Jobs0 /\ j.op = "delete" /\ j.at = "stripe" /\ j.card = user.card BY <1>0, <2>1 DEF NoJob, Jobs0
  <2>3. job' = [job EXCEPT ![r] = j] /\ UNCHANGED <<user, customers, owner, detached, overwritten>>
    BY <1>10 DEF StartDelete
  <2> HIDE DEF j
  <2>4. job' \in [Requests -> Jobs0] /\ job'[r] = j /\ \A q \in Requests \ {r} : job'[q] = job[q]
    BY <1>0, <2>2, <2>3, BeginTyped
  <2>5. detached' \subseteq Cards BY <1>0, <2>3 DEF AccountTypeOK
  <2> QED BY <1>0, <2>1, <2>2, <2>3, <2>4, <2>5, JobStep
<1>11. ASSUME NEW r \in Requests, Detach(r) PROVE AccountInv'
  <2>1. /\ job[r].at = "stripe" /\ job[r].op = "delete"
        /\ detached' = detached \cup {job[r].card} /\ Goto(r, "clear")
        /\ UNCHANGED <<user, customers, owner, overwritten>>
    BY <1>11 DEF Detach
  <2> DEFINE j == [job[r] EXCEPT !.at = "clear"]
  <2>2. job[r] \in Jobs0 /\ job[r].card \in Cards
    BY <1>0, <2>1 DEF AccountInv, AccountTypeOK, CardGiven
  <2>3. j \in Jobs0 /\ j.at = "clear" /\ j.op = "delete" /\ j.card = job[r].card
    BY <2>1, <2>2 DEF Jobs0
  <2>4. job' \in [Requests -> Jobs0] /\ job'[r] = j /\ \A q \in Requests \ {r} : job'[q] = job[q]
    BY <1>0, <2>1, GotoTyped DEF Steps0
  <2> HIDE DEF j
  <2>5. detached' \subseteq Cards BY <1>0, <2>1, <2>2 DEF AccountTypeOK
  <2> QED BY <1>0, <2>1, <2>2, <2>3, <2>4, <2>5, JobStep
<1>12. ASSUME NEW r \in Requests, ClearCard(r) PROVE AccountInv'
  <2>1. /\ user' = [user EXCEPT !.card = NoCard] /\ End(r)
        /\ UNCHANGED <<customers, owner, detached, overwritten>>
    BY <1>12 DEF ClearCard
  <2>2. user' \in Users0 /\ user'.customer = user.customer /\ user'.card = NoCard
    BY <1>0, <2>1 DEF Users0
  <2>3. job' \in [Requests -> Jobs0] /\ job'[r] = NoJob /\ \A q \in Requests \ {r} : job'[q] = job[q]
    BY <1>0, <2>1, EndTyped
  <2>4. detached' \subseteq Cards BY <1>0, <2>1 DEF AccountTypeOK
  <2> QED BY <1>0, <2>1, <2>2, <2>3, <2>4, JobStep
<1>13. CASE UNCHANGED accountVars
  BY <1>13 DEF accountVars, AccountInv, AccountTypeOK, CustomerKnown, CardAttached, CardGiven,
     CardNeedsCustomer, CardOfCustomer
<1> QED BY <1>1, <1>2, <1>3, <1>4, <1>5, <1>6, <1>7, <1>8, <1>9, <1>10, <1>11, <1>12, <1>13
        DEF AccountNext

(* A row that is not there knows nothing. *)
BlankRow == ~user.exists => ~user.email /\ ~user.legacy

LEMMA BlankRowNext == AccountInv /\ BlankRow /\ [AccountNext]_accountVars => BlankRow'
<1> SUFFICES ASSUME AccountInv, BlankRow, [AccountNext]_accountVars PROVE BlankRow'
  OBVIOUS
<1>1. user \in Users0 BY DEF AccountInv, AccountTypeOK
<1>2. ASSUME NEW b \in BOOLEAN, Migrate(b) \/ OwnerStub(b) PROVE BlankRow'
  <2>1. user'.exists BY <1>1, <1>2 DEF Migrate, OwnerStub, Users0
  <2> QED BY <2>1 DEF BlankRow
<1>3. ASSUME NEW r \in Requests, Upsert(r) PROVE BlankRow'
  <2>1. user'.exists BY <1>1, <1>3 DEF Upsert, Upserted, Users0
  <2> QED BY <2>1 DEF BlankRow
<1>4. ASSUME NEW r \in Requests, SaveCustomer(r) \/ SaveCard(r) \/ ClearCard(r) PROVE BlankRow'
  <2>1. user'.exists = user.exists /\ user'.email = user.email /\ user'.legacy = user.legacy
    BY <1>1, <1>4 DEF SaveCustomer, WithCustomer, SaveCard, WithCard, ClearCard, Users0
  <2> QED BY <2>1 DEF BlankRow
<1>5. user' = user => BlankRow'
  BY DEF BlankRow
<1> QED BY <1>2, <1>3, <1>4, <1>5
        DEF AccountNext, accountVars, Login, StartPayment, NewCustomer, Use, Attach, StartDelete,
            Detach, RequestFails

LEMMA AccountInvAlways == AccountSpec => []AccountInv
BY AccountInvInit, AccountInvNext, PTL DEF AccountSpec

LEMMA BlankRowAlways == AccountSpec => []BlankRow
<1>1. AccountInit => BlankRow BY DEF AccountInit, BlankRow
<1> QED BY <1>1, BlankRowNext, AccountInvAlways, PTL DEF AccountSpec

(* Every reachable state is well typed. *)
THEOREM AccountTyped == AccountSpec => []AccountTypeOK
<1>1. AccountInv => AccountTypeOK BY DEF AccountInv
<1> QED BY <1>1, AccountInvAlways, PTL

(* The saved card was attached to the saved customer, unless first         *)
(* requests that crossed replaced the customer since it was saved.         *)
THEOREM SavedCardOfCustomer == AccountSpec => []CardOfCustomer
<1>1. AccountInv => CardOfCustomer BY DEF AccountInv
<1> QED BY <1>1, AccountInvAlways, PTL

(* No writer of the row blanks what another stored. *)
THEOREM RowKeepsWhatItHad == AccountSpec => AccountKept
<1>1. AccountInv /\ BlankRow /\ [AccountNext]_accountVars => [Kept(user, user')]_accountVars
  <2> SUFFICES ASSUME AccountInv, BlankRow, AccountNext PROVE Kept(user, user')
    OBVIOUS
  <2>0. user \in Users0 /\ \A r \in Requests : job[r] \in Jobs0
    BY DEF AccountInv, AccountTypeOK
  <2>1. ASSUME NEW b \in BOOLEAN, Migrate(b) \/ OwnerStub(b) PROVE Kept(user, user')
    <3>1. CASE user.exists
      <4>1. user' = user BY <2>1, <3>1 DEF Migrate, OwnerStub
      <4> QED BY <4>1 DEF Kept
    <3>2. CASE ~user.exists
      <4>1. user'.name = user.name /\ user'.customer = user.customer
        BY <2>0, <2>1 DEF Migrate, OwnerStub, Users0
      <4> QED BY <3>2, <4>1 DEF Kept, BlankRow
    <3> QED BY <3>1, <3>2
  <2>2. ASSUME NEW r \in Requests, Upsert(r) PROVE Kept(user, user')
    BY <2>0, <2>2 DEF Upsert, Upserted, Kept, Users0, Jobs0
  <2>3. ASSUME NEW r \in Requests, SaveCustomer(r) PROVE Kept(user, user')
    <3>1. job[r].customer # 0 BY <2>3 DEF SaveCustomer, AccountInv, CustomerKnown
    <3> QED BY <2>0, <2>3, <3>1 DEF SaveCustomer, WithCustomer, Kept, Users0
  <2>4. ASSUME NEW r \in Requests, SaveCard(r) PROVE Kept(user, user')
    <3>1. job[r].customer # 0 BY <2>4 DEF SaveCard, AccountInv, CustomerKnown
    <3> QED BY <2>0, <2>4, <3>1 DEF SaveCard, WithCard, Kept, Users0
  <2>5. ASSUME NEW r \in Requests, ClearCard(r) PROVE Kept(user, user')
    BY <2>0, <2>5 DEF ClearCard, Kept, Users0
  <2>6. user' = user => Kept(user, user')
    BY DEF Kept
  <2> QED BY <2>1, <2>2, <2>3, <2>4, <2>5, <2>6
          DEF AccountNext, Login, StartPayment, NewCustomer, Use, Attach, StartDelete, Detach,
              RequestFails
<1> QED BY <1>1, AccountInvAlways, BlankRowAlways, PTL DEF AccountSpec, AccountKept

------------------------------------------------------------------------------
(* Announcements: whoever can manage an initiative now could at some time,  *)
(* and its attribution is one it had; so is one a request has read; whoever *)
(* was let through could manage it or read it before it moved; what is      *)
(* stored belongs to an initiative that exists.                             *)
ManagedBefore == Managing(attr, writers) \subseteq managed
HadBefore     == \A d \in Drives : attr[d] \in Hosts => <<d, attr[d]>> \in had
Sound(u, e)   ==
  /\ e.at \in {"read", "allowed"} /\ e.copy \in Hosts => <<e.drive, e.copy>> \in had
  /\ e.at = "allowed" /\ e.drive \in drives => Vouched(u, e.drive, e)
AllSound      == \A u \in Editors : Sound(u, edit[u])
StoredAtHome  == \A n \in live : home[n] \in drives

NoticeInv ==
  /\ NoticeTypeOK /\ ManagedBefore /\ HadBefore /\ AllSound /\ StoredAtHome
  /\ NoticeOfManaged

LEMMA NoticeInvInit == NoticeInit => NoticeInv
<1> SUFFICES ASSUME NoticeInit PROVE NoticeInv OBVIOUS
<1>1. /\ drives = Drives /\ attr = [d \in Drives |-> NoHost] /\ had = {} /\ writers = {}
      /\ managed = {p \in Editors \X Drives : p[1] = CreatorOf[p[2]]}
      /\ home = [n \in Notices |-> NoDrive] /\ live = {} /\ written = {}
      /\ edit = [u \in Editors |-> NoEdit]
  BY DEF NoticeInit
<1>2. NoticeTypeOK BY <1>1 DEF NoticeTypeOK, Edits
<1>3. ManagedBefore BY <1>1 DEF ManagedBefore, Managing, CanManage
<1>4. HadBefore BY <1>1, AnnouncementAssumption DEF HadBefore
<1>5. AllSound BY <1>1 DEF AllSound, Sound, NoEdit
<1> QED BY <1>1, <1>2, <1>3, <1>4, <1>5 DEF NoticeInv, StoredAtHome, NoticeOfManaged

(* The world changes and no request moves. *)
LEMMA WorldMoves ==
  ASSUME NoticeInv, managed \subseteq managed', had \subseteq had', drives' \subseteq drives,
         live' \subseteq live, \A n \in live' : home[n] \in drives',
         UNCHANGED <<home, edit, written>>
  PROVE  AllSound' /\ StoredAtHome' /\ NoticeOfManaged'
<1>1. AllSound'
  <2>1. ASSUME NEW u \in Editors PROVE Sound(u, edit[u])'
    <3>1. Sound(u, edit[u]) BY DEF NoticeInv, AllSound
    <3> QED BY <3>1 DEF Sound, Vouched
  <2> QED BY <2>1 DEF AllSound
<1>2. StoredAtHome' BY DEF StoredAtHome
<1>3. NoticeOfManaged' BY DEF NoticeInv, NoticeOfManaged, Vouched
<1> QED BY <1>1, <1>2, <1>3

LEMMA NoEditTyped == NoEdit \in Edits /\ NoEdit.at = "idle"
BY DEF NoEdit, Edits

LEMMA UnderWay ==
  ASSUME NoticeTypeOK, NEW u \in Editors, edit[u] # NoEdit
  PROVE  /\ edit[u] \in Asked
         /\ edit[u].drive \in Drives /\ edit[u].notice \in Notices
         /\ edit[u].copy \in Hosts \cup {NoHost}
BY DEF NoticeTypeOK, Edits, Asked

(* One person's request moves, and the world does not. *)
LEMMA RequestMoves ==
  ASSUME NoticeInv, NEW u \in Editors, NEW e \in Edits, edit' = [edit EXCEPT ![u] = e],
         UNCHANGED <<drives, attr, had, writers, managed>>, Sound(u, e)
  PROVE  /\ edit' \in [Editors -> Edits]
         /\ ManagedBefore' /\ HadBefore' /\ AllSound'
<1>1. /\ edit' \in [Editors -> Edits] /\ edit'[u] = e
      /\ \A v \in Editors \ {u} : edit'[v] = edit[v]
  BY DEF NoticeInv, NoticeTypeOK
<1>2. ManagedBefore' BY DEF NoticeInv, ManagedBefore, Managing, CanManage
<1>3. HadBefore' BY DEF NoticeInv, HadBefore
<1>4. AllSound'
  <2>1. ASSUME NEW v \in Editors PROVE Sound(v, edit'[v])
    BY <1>1 DEF NoticeInv, AllSound
  <2> QED BY <2>1 DEF AllSound, Sound, Vouched
<1> QED BY <1>1, <1>2, <1>3, <1>4

LEMMA NoticeInvNext == NoticeInv /\ [NoticeNext]_noticeVars => NoticeInv'
<1> SUFFICES ASSUME NoticeInv, [NoticeNext]_noticeVars PROVE NoticeInv'
  OBVIOUS
<1>0. NoticeTypeOK /\ ManagedBefore /\ HadBefore /\ AllSound /\ StoredAtHome
  BY DEF NoticeInv
<1>1. ASSUME NEW d \in Drives, DropDrive(d) PROVE NoticeInv'
  <2>1. /\ drives' = drives \ {d} /\ live' = {n \in live : home[n] # d}
        /\ UNCHANGED <<attr, had, writers, managed, home, edit, written>>
    BY <1>1 DEF DropDrive
  <2>2. NoticeTypeOK' BY <1>0, <2>1 DEF NoticeTypeOK
  <2>3. ManagedBefore' BY <1>0, <2>1 DEF ManagedBefore, Managing, CanManage
  <2>4. HadBefore' BY <1>0, <2>1 DEF HadBefore
  <2>5. \A n \in live' : home[n] \in drives' BY <1>0, <2>1 DEF StoredAtHome
  <2> QED BY <2>1, <2>2, <2>3, <2>4, <2>5, WorldMoves DEF NoticeInv
<1>2. ASSUME NEW u \in Editors, NEW h \in Hosts, SetWriter(u, h) PROVE NoticeInv'
  <2>1. /\ writers' \subseteq writers \cup {<<u, h>>}
        /\ managed' = managed \cup Managing(attr, writers')
        /\ UNCHANGED <<drives, attr, had, home, live, edit, written>>
    BY <1>2 DEF SetWriter
  <2>2. Managing(attr, writers') \subseteq Editors \X Drives
    BY <1>0 DEF Managing, NoticeTypeOK
  <2>3. NoticeTypeOK'
    <3>1. managed' \subseteq Editors \X Drives BY <1>0, <2>1, <2>2 DEF NoticeTypeOK
    <3>2. writers' \subseteq Editors \X Hosts BY <1>0, <2>1 DEF NoticeTypeOK
    <3> QED BY <1>0, <2>1, <3>1, <3>2 DEF NoticeTypeOK
  <2>4. ManagedBefore' BY <2>1 DEF ManagedBefore, Managing, CanManage
  <2>5. HadBefore' BY <1>0, <2>1 DEF HadBefore
  <2> QED BY <1>0, <2>1, <2>3, <2>4, <2>5, WorldMoves DEF NoticeInv, StoredAtHome
<1>3. ASSUME NEW d \in Drives, NEW a \in Hosts \cup {NoHost}, Attribute(d, a) PROVE NoticeInv'
  <2>1. /\ attr' = [attr EXCEPT ![d] = a]
        /\ had' = IF a \in Hosts THEN had \cup {<<d, a>>} ELSE had
        /\ managed' = managed \cup Managing(attr', writers)
        /\ UNCHANGED <<drives, writers, home, live, edit, written>>
    BY <1>3 DEF Attribute
  <2>2. Managing(attr', writers) \subseteq Editors \X Drives
    BY <1>0 DEF Managing, NoticeTypeOK
  <2>3. NoticeTypeOK'
    <3>1. managed' \subseteq Editors \X Drives BY <1>0, <2>1, <2>2 DEF NoticeTypeOK
    <3>2. attr' \in [Drives -> Hosts \cup {NoHost}] BY <1>0, <2>1 DEF NoticeTypeOK
    <3>3. had' \subseteq Drives \X Hosts BY <1>0, <2>1 DEF NoticeTypeOK
    <3> QED BY <1>0, <2>1, <3>1, <3>2, <3>3 DEF NoticeTypeOK
  <2>4. ManagedBefore' BY <2>1 DEF ManagedBefore, Managing, CanManage
  <2>5. HadBefore' BY <1>0, <2>1 DEF HadBefore, NoticeTypeOK
  <2>6. had \subseteq had' BY <2>1
  <2> QED BY <1>0, <2>1, <2>3, <2>4, <2>5, <2>6, WorldMoves DEF NoticeInv, StoredAtHome
<1>4. ASSUME NEW u \in Editors, NEW op \in {"create", "write"}, NEW d \in Drives,
             NEW n \in Notices, AskEdit(u, op, d, n)
      PROVE  NoticeInv'
  <2> DEFINE e == [NoEdit EXCEPT !.at = "asked", !.op = op, !.drive = d, !.notice = n]
  <2>1. /\ edit' = [edit EXCEPT ![u] = e] /\ written' = {}
        /\ UNCHANGED <<drives, attr, had, writers, managed, home, live>>
    BY <1>4 DEF AskEdit
  <2>2. e \in Edits /\ Sound(u, e) BY DEF Edits, Asked, NoEdit, Sound
  <2> HIDE DEF e
  <2>3. edit' \in [Editors -> Edits] /\ ManagedBefore' /\ HadBefore' /\ AllSound'
    BY <2>1, <2>2, RequestMoves
  <2>4. NoticeTypeOK' BY <1>0, <2>1, <2>3 DEF NoticeTypeOK
  <2> QED BY <1>0, <2>1, <2>3, <2>4 DEF NoticeInv, StoredAtHome, NoticeOfManaged
<1>5. ASSUME NEW u \in Editors, NEW e \in Edits, Sound(u, e), edit' = [edit EXCEPT ![u] = e],
             UNCHANGED <<drives, attr, had, writers, managed, home, live, written>>
      PROVE  NoticeInv'
  <2>1. edit' \in [Editors -> Edits] /\ ManagedBefore' /\ HadBefore' /\ AllSound'
    BY <1>5, RequestMoves
  <2>2. NoticeTypeOK' BY <1>0, <1>5, <2>1 DEF NoticeTypeOK
  <2> QED BY <1>5, <2>1, <2>2 DEF NoticeInv, StoredAtHome, NoticeOfManaged, Vouched
<1>6. ASSUME NEW u \in Editors, ReadDrive(u) PROVE NoticeInv'
  <2> DEFINE e == [edit[u] EXCEPT !.at = "read", !.copy = attr[edit[u].drive]]
  <2>1. /\ edit[u].at = "asked" /\ edit' = [edit EXCEPT ![u] = e]
        /\ UNCHANGED <<drives, attr, had, writers, managed, home, live, written>>
    BY <1>6 DEF ReadDrive
  <2>2. edit[u] \in Asked /\ edit[u].drive \in Drives BY <1>0, <2>1, NoEditTyped, UnderWay
  <2>3. attr[edit[u].drive] \in Hosts \cup {NoHost} BY <1>0, <2>2 DEF NoticeTypeOK
  <2>4. e \in Edits /\ e.at = "read" /\ e.drive = edit[u].drive /\ e.copy = attr[edit[u].drive]
    BY <2>2, <2>3 DEF Edits, Asked
  <2> HIDE DEF e
  <2>5. Sound(u, e) BY <1>0, <2>2, <2>4 DEF Sound, HadBefore
  <2> QED BY <1>5, <2>1, <2>4, <2>5
<1>7. ASSUME NEW u \in Editors, AllowEdit(u) PROVE NoticeInv'
  <2> DEFINE d == edit[u].drive
             e == [edit[u] EXCEPT !.at = "allowed", !.moved = edit[u].copy # attr[d]]
  <2>1. /\ edit[u].at = "read" /\ CanManage(u, d, edit[u].copy, writers)
        /\ edit' = [edit EXCEPT ![u] = e]
        /\ UNCHANGED <<drives, attr, had, writers, managed, home, live, written>>
    BY <1>7 DEF AllowEdit
  <2>2. /\ edit[u] \in Asked /\ d \in Drives /\ edit[u].copy \in Hosts \cup {NoHost}
        /\ Sound(u, edit[u])
    BY <1>0, <2>1, NoEditTyped, UnderWay DEF AllSound
  <2>3. /\ e \in Edits /\ e.at = "allowed" /\ e.drive = d /\ e.copy = edit[u].copy
        /\ e.moved = (edit[u].copy # attr[d])
    BY <2>2 DEF Edits, Asked
  <2>4. edit[u].copy \in Hosts => <<d, edit[u].copy>> \in had BY <2>1, <2>2 DEF Sound
  <2>5. ASSUME d \in drives, CanManage(u, d, attr[d], writers) PROVE <<u, d>> \in managed
    BY <1>0, <2>5 DEF ManagedBefore, Managing
  <2>6. ASSUME d \in drives PROVE Vouched(u, d, e)
    <3>1. CASE u = CreatorOf[d] BY <2>5, <2>6, <3>1 DEF CanManage, Vouched
    <3>2. CASE <<u, edit[u].copy>> \in writers
      <4>1. edit[u].copy \in Hosts BY <1>0, <3>2 DEF NoticeTypeOK
      <4>2. CASE edit[u].copy = attr[d] BY <2>5, <2>6, <3>2, <4>2 DEF CanManage, Vouched
      <4>3. CASE edit[u].copy # attr[d] BY <2>3, <2>4, <4>1, <4>3 DEF Vouched
      <4> QED BY <4>2, <4>3
    <3> QED BY <2>1, <3>1, <3>2 DEF CanManage
  <2> HIDE DEF d, e
  <2>7. Sound(u, e) BY <2>3, <2>4, <2>6 DEF Sound
  <2> QED BY <1>5, <2>1, <2>3, <2>7
<1>8. ASSUME NEW u \in Editors PROVE Sound(u, NoEdit)
  BY NoEditTyped DEF Sound
<1>9. ASSUME NEW u \in Editors, CreateNotice(u) PROVE NoticeInv'
  <2> DEFINE d == edit[u].drive  n == edit[u].notice
  <2>1. /\ edit[u].at = "allowed" /\ d \in drives /\ home[n] = NoDrive
        /\ home' = [home EXCEPT ![n] = d] /\ live' = live \cup {n}
        /\ written' = {<<u, edit[u]>>} /\ edit' = [edit EXCEPT ![u] = NoEdit]
        /\ UNCHANGED <<drives, attr, had, writers, managed>>
    BY <1>9 DEF CreateNotice
  <2>2. edit[u] \in Asked /\ d \in Drives /\ n \in Notices /\ d # NoDrive
    BY <1>0, <2>1, NoEditTyped, UnderWay, AnnouncementAssumption
  <2>3. Vouched(u, d, edit[u]) BY <1>0, <2>1 DEF AllSound, Sound
  <2>4. /\ home' \in [Notices -> Drives \cup {NoDrive}] /\ home'[n] = d
        /\ \A m \in Notices : m # n => home'[m] = home[m]
    BY <1>0, <2>1, <2>2 DEF NoticeTypeOK
  <2>5. edit' \in [Editors -> Edits] /\ ManagedBefore' /\ HadBefore' /\ AllSound'
    BY <1>8, <2>1, NoEditTyped, RequestMoves
  <2>6. NoticeOfManaged' BY <2>1, <2>3, <2>4 DEF NoticeOfManaged, Vouched
  <2> HIDE DEF d, n
  <2>7. written' \subseteq Editors \X Asked /\ live' \subseteq Notices
    BY <1>0, <2>1, <2>2 DEF NoticeTypeOK
  <2>8. NoticeTypeOK' BY <1>0, <2>1, <2>4, <2>5, <2>7 DEF NoticeTypeOK
  <2>9. StoredAtHome' BY <1>0, <2>1, <2>2, <2>4 DEF StoredAtHome, NoticeTypeOK
  <2> QED BY <2>5, <2>6, <2>8, <2>9 DEF NoticeInv
<1>10. ASSUME NEW u \in Editors, WriteNotice(u) PROVE NoticeInv'
  <2> DEFINE d == edit[u].drive  n == edit[u].notice
  <2>1. /\ edit[u].at = "allowed" /\ n \in live /\ home[n] = d
        /\ written' = {<<u, edit[u]>>} /\ live' \in {live, live \ {n}}
        /\ edit' = [edit EXCEPT ![u] = NoEdit]
        /\ UNCHANGED <<drives, attr, had, writers, managed, home>>
    BY <1>10 DEF WriteNotice, Match
  <2>2. edit[u] \in Asked BY <1>0, <2>1, NoEditTyped, UnderWay
  <2>3. d \in drives BY <1>0, <2>1 DEF StoredAtHome
  <2>4. Vouched(u, d, edit[u]) BY <1>0, <2>1, <2>3 DEF AllSound, Sound
  <2>5. edit' \in [Editors -> Edits] /\ ManagedBefore' /\ HadBefore' /\ AllSound'
    BY <1>8, <2>1, NoEditTyped, RequestMoves
  <2>6. NoticeOfManaged' BY <2>1, <2>4 DEF NoticeOfManaged, Vouched
  <2> HIDE DEF d, n
  <2>7. written' \subseteq Editors \X Asked /\ live' \subseteq Notices
    BY <1>0, <2>1, <2>2 DEF NoticeTypeOK
  <2>8. NoticeTypeOK' BY <1>0, <2>1, <2>5, <2>7 DEF NoticeTypeOK
  <2>9. StoredAtHome' BY <1>0, <2>1 DEF StoredAtHome
  <2> QED BY <2>5, <2>6, <2>8, <2>9 DEF NoticeInv
<1>11. ASSUME NEW u \in Editors, EditFails(u) PROVE NoticeInv'
  BY <1>5, <1>8, <1>11, NoEditTyped DEF EditFails
<1>12. CASE UNCHANGED noticeVars
  BY <1>12 DEF noticeVars, NoticeInv, NoticeTypeOK, ManagedBefore, Managing, CanManage,
               HadBefore, AllSound, Sound, StoredAtHome, NoticeOfManaged, Vouched
<1> QED BY <1>1, <1>2, <1>3, <1>4, <1>6, <1>7, <1>9, <1>10, <1>11, <1>12 DEF NoticeNext

LEMMA NoticeInvAlways == NoticeSpec => []NoticeInv
BY NoticeInvInit, NoticeInvNext, PTL DEF NoticeSpec

(* Every reachable state is well typed. *)
THEOREM NoticeTyped == NoticeSpec => []NoticeTypeOK
<1>1. NoticeInv => NoticeTypeOK BY DEF NoticeInv
<1> QED BY <1>1, NoticeInvAlways, PTL

(* Announcements are written only by somebody who at some time could       *)
(* manage the initiative they belong to, whatever ids are combined and     *)
(* whatever roles, attributions and rows change between the read, the      *)
(* check and the statement; a request whose row was attributed anew        *)
(* between the read and the check is excepted, as far as the initiative    *)
(* was attributed to the entity the role was looked up at.                 *)
THEOREM WrittenByManagers == NoticeSpec => []NoticeOfManaged
<1>1. NoticeInv => NoticeOfManaged BY DEF NoticeInv
<1> QED BY <1>1, NoticeInvAlways, PTL

==================================================================================
