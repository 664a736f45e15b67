----------------------------- MODULE Reimbursement_proofs -----------------------------
(*****************************************************************************)
(* Calls to the Reimbursement Service: its token, for any number of        *)
(* callers and any lives and timeouts that TokenAssumption admits, the     *)
(* syncs of a policy, for any number of versions, and the actions on       *)
(* expense reports, for any people and reports.                            *)
(*****************************************************************************)
EXTENDS GatewayToken, PolicySync, ExpenseActions, TLAPS

(* An exchange lasts at most Timeout; the cached token outlives its use by *)
(* one exchange, and so does the token of a PATCH, which a POST may reuse. *)
Timely == \A c \in Callers :
  call[c].at \in {"fetching", "calling", "creating"} =>
    call[c].since <= now /\ now <= call[c].since + Timeout
CacheMargin == token # NoToken => token.until + Timeout <= token.ends
CallMargin  == \A c \in Callers :
  /\ call[c].at = "calling" => call[c].since + Timeout < call[c].ends
  /\ call[c].at = "creating" => call[c].since < call[c].ends

(* tokenMu is held only while the cached token has run out. *)
FetchNeeded == mutex # Nobody => ~Good

TokenInv == TokenTypeOK /\ Timely /\ CacheMargin /\ CallMargin /\ FetchNeeded

(* The clamp leaves room for two exchanges and keeps some of the life. *)
LEMMA BufferFits ==
  ASSUME NEW l \in Lives
  PROVE  Buffer(l) \in Nat /\ 2 * Timeout <= Buffer(l) /\ Buffer(l) < l
<1>1. l \in Nat /\ l > 0 /\ Margin \in Nat /\ 2 * Timeout <= Buffer(l) BY TokenAssumption
<1>2. CASE l <= 2 * Margin
  <2>1. Buffer(l) = l \div 2 BY <1>2 DEF Buffer
  <2> QED BY <1>1, <2>1
<1>3. CASE ~(l <= 2 * Margin)
  <2>1. Buffer(l) = Margin BY <1>3 DEF Buffer
  <2> QED BY <1>1, <1>3, <2>1
<1> QED BY <1>2, <1>3

(* One caller moves to a step of its request. *)
LEMMA CallTyped ==
  ASSUME TokenTypeOK, NEW c \in Callers, NEW step \in Steps, NEW ends \in Nat, To(c, step, ends)
  PROVE  /\ call' \in [Callers -> [at : Steps, since : Nat, ends : Nat]]
         /\ call'[c] = [at |-> step, since |-> now, ends |-> ends]
         /\ \A d \in Callers \ {c} : call'[d] = call[d]
BY DEF To, TokenTypeOK

LEMMA IdleTyped ==
  ASSUME TokenTypeOK, NEW c \in Callers, call' = [call EXCEPT ![c] = Idle]
  PROVE  /\ call' \in [Callers -> [at : Steps, since : Nat, ends : Nat]]
         /\ call'[c].at = "idle"
         /\ \A d \in Callers \ {c} : call'[d] = call[d]
BY DEF Idle, Steps, TokenTypeOK

LEMMA TokenInvInit == TokenInit => TokenInv
BY TokenAssumption DEF TokenInit, TokenInv, TokenTypeOK, Timely, CacheMargin, CallMargin,
   FetchNeeded, Idle, Steps

LEMMA TokenInvNext == TokenInv /\ [TokenNext]_tokenVars => TokenInv'
<1> SUFFICES ASSUME TokenInv, [TokenNext]_tokenVars PROVE TokenInv'
  OBVIOUS
<1> USE TokenAssumption
<1>0. TokenTypeOK BY DEF TokenInv
<1>1. ASSUME NEW c \in Callers, Ask(c) PROVE TokenInv'
  <2>1. To(c, "waiting", 0) /\ UNCHANGED <<now, token, mutex>> BY <1>1 DEF Ask
  <2>2. /\ call' \in [Callers -> [at : Steps, since : Nat, ends : Nat]]
        /\ call'[c] = [at |-> "waiting", since |-> now, ends |-> 0]
        /\ \A d \in Callers \ {c} : call'[d] = call[d]
    BY <1>0, <2>1, CallTyped DEF Steps
  <2> QED BY <2>1, <2>2 DEF TokenInv, TokenTypeOK, Timely, CacheMargin, CallMargin, FetchNeeded, Good
<1>2. ASSUME NEW c \in Callers, UseCached(c) PROVE TokenInv'
  <2>1. Good /\ To(c, "calling", token.ends) /\ UNCHANGED <<now, token, mutex>>
    BY <1>2 DEF UseCached
  <2>2. token \in Tokens /\ token.ends \in Nat /\ token.until \in Int /\ now \in Nat
    BY <1>0, <2>1 DEF TokenTypeOK, Good, Tokens
  <2>3. /\ call' \in [Callers -> [at : Steps, since : Nat, ends : Nat]]
        /\ call'[c] = [at |-> "calling", since |-> now, ends |-> token.ends]
        /\ \A d \in Callers \ {c} : call'[d] = call[d]
    BY <1>0, <2>1, <2>2, CallTyped DEF Steps
  <2>4. now + Timeout < token.ends
    BY <2>1, <2>2 DEF TokenInv, CacheMargin, Good
  <2> QED BY <2>1, <2>2, <2>3, <2>4
          DEF TokenInv, TokenTypeOK, Timely, CacheMargin, CallMargin, FetchNeeded, Good
<1>3. ASSUME NEW c \in Callers, StartFetch(c) PROVE TokenInv'
  <2>1. ~Good /\ mutex' = c /\ To(c, "fetching", 0) /\ UNCHANGED <<now, token>>
    BY <1>3 DEF StartFetch
  <2>2. /\ call' \in [Callers -> [at : Steps, since : Nat, ends : Nat]]
        /\ call'[c] = [at |-> "fetching", since |-> now, ends |-> 0]
        /\ \A d \in Callers \ {c} : call'[d] = call[d]
    BY <1>0, <2>1, CallTyped DEF Steps
  <2>3. now \in Nat BY <1>0 DEF TokenTypeOK
  <2> QED BY <2>1, <2>2, <2>3
          DEF TokenInv, TokenTypeOK, Timely, CacheMargin, CallMargin, FetchNeeded, Good
<1>4. ASSUME NEW c \in Callers, NEW life \in Lives, NEW issued \in 0 .. TokenTime,
             Fetched(c, life, issued)
      PROVE  TokenInv'
  <2>1. /\ call[c].at = "fetching" /\ issued \in call[c].since .. now
        /\ token' = [ends |-> issued + life, until |-> CacheUntil(life)]
        /\ mutex' = Nobody /\ To(c, "calling", issued + life) /\ now' = now
    BY <1>4 DEF Fetched
  <2>2. now \in Nat /\ issued \in Nat /\ life \in Nat /\ call[c].since \in Nat
        /\ issued + life \in Nat
    BY <1>0, <2>1 DEF TokenTypeOK
  <2>3. /\ call' \in [Callers -> [at : Steps, since : Nat, ends : Nat]]
        /\ call'[c] = [at |-> "calling", since |-> now, ends |-> issued + life]
        /\ \A d \in Callers \ {c} : call'[d] = call[d]
    BY <1>0, <2>1, <2>2, CallTyped DEF Steps
  <2>4. Buffer(life) \in Nat /\ 2 * Timeout <= Buffer(life) /\ Buffer(life) < life
    BY BufferFits
  <2>5. now <= issued + Timeout
    BY <2>1, <2>2 DEF TokenInv, Timely
  <2>6. CacheUntil(life) \in Int /\ CacheUntil(life) + Timeout <= issued + life
    BY <2>2, <2>4, <2>5 DEF CacheUntil
  <2>7. now + Timeout < issued + life
    BY <2>2, <2>4, <2>5
  <2>8. token' \in Tokens /\ token'.until + Timeout <= token'.ends
    BY <2>1, <2>2, <2>6 DEF Tokens
  <2> QED BY <2>1, <2>2, <2>3, <2>7, <2>8
          DEF TokenInv, TokenTypeOK, Timely, CacheMargin, CallMargin, FetchNeeded, Good
<1>5. ASSUME NEW c \in Callers, FetchFails(c) \/ Finish(c) PROVE TokenInv'
  <2>1. call' = [call EXCEPT ![c] = Idle] /\ UNCHANGED <<now, token>> /\ mutex' \in {mutex, Nobody}
    BY <1>5 DEF FetchFails, Finish
  <2>2. /\ call' \in [Callers -> [at : Steps, since : Nat, ends : Nat]]
        /\ call'[c].at = "idle"
        /\ \A d \in Callers \ {c} : call'[d] = call[d]
    BY <1>0, <2>1, IdleTyped
  <2> QED BY <2>1, <2>2 DEF TokenInv, TokenTypeOK, Timely, CacheMargin, CallMargin, FetchNeeded, Good
<1>6. ASSUME NEW c \in Callers, CreateWithSameHeaders(c) PROVE TokenInv'
  <2>1. call[c].at = "calling" /\ To(c, "creating", call[c].ends) /\ UNCHANGED <<now, token, mutex>>
    BY <1>6 DEF CreateWithSameHeaders
  <2>2. now \in Nat /\ call[c].ends \in Nat /\ call[c].since \in Nat
    BY <1>0 DEF TokenTypeOK
  <2>3. /\ call' \in [Callers -> [at : Steps, since : Nat, ends : Nat]]
        /\ call'[c] = [at |-> "creating", since |-> now, ends |-> call[c].ends]
        /\ \A d \in Callers \ {c} : call'[d] = call[d]
    BY <1>0, <2>1, <2>2, CallTyped DEF Steps
  <2>4. now < call[c].ends
    BY <2>1, <2>2 DEF TokenInv, Timely, CallMargin
  <2> QED BY <2>1, <2>2, <2>3, <2>4
          DEF TokenInv, TokenTypeOK, Timely, CacheMargin, CallMargin, FetchNeeded, Good
<1>7. ASSUME Tick PROVE TokenInv'
  <2>1. /\ \A c \in Callers : call[c].at \in {"idle", "waiting"} \/ now < call[c].since + Timeout
        /\ now' = now + 1 /\ UNCHANGED <<token, mutex, call>>
    BY <1>7 DEF Tick
  <2>2. now \in Nat /\ \A c \in Callers : call[c].since \in Nat
    BY <1>0 DEF TokenTypeOK
  <2>3. TokenTypeOK' BY <1>0, <2>1, <2>2 DEF TokenTypeOK
  <2>4. Timely' BY <2>1, <2>2 DEF TokenInv, Timely
  <2>5. FetchNeeded'
    BY <1>0, <2>1, <2>2 DEF TokenInv, TokenTypeOK, Tokens, FetchNeeded, Good
  <2> QED BY <2>1, <2>3, <2>4, <2>5 DEF TokenInv, CacheMargin, CallMargin
<1>8. CASE UNCHANGED tokenVars
  BY <1>8 DEF tokenVars, TokenInv, TokenTypeOK, Timely, CacheMargin, CallMargin, FetchNeeded, Good
<1> QED BY <1>1, <1>2, <1>3, <1>4, <1>5, <1>6, <1>7, <1>8 DEF TokenNext

LEMMA TokenInvAlways == TokenSpec => []TokenInv
BY TokenInvInit, TokenInvNext, PTL DEF TokenSpec

(* Every reachable state is well typed. *)
THEOREM TokenTyped == TokenSpec => []TokenTypeOK
<1>1. TokenInv => TokenTypeOK BY DEF TokenInv
<1> QED BY <1>1, TokenInvAlways, PTL

(* No request leaves with a token that has ended, not even a POST with the *)
(* headers of a PATCH that took as long as it may.                         *)
THEOREM RequestsSentUnexpired == TokenSpec => []SentUnexpired
<1>1. TokenInv => SentUnexpired
  <2> SUFFICES ASSUME TokenInv, NEW c \in Callers, call[c].at \in {"calling", "creating"}
               PROVE  call[c].since < call[c].ends
    BY DEF SentUnexpired
  <2>1. call[c].since \in Nat /\ call[c].ends \in Nat /\ Timeout \in Nat
    BY TokenAssumption DEF TokenInv, TokenTypeOK
  <2> QED BY <2>1 DEF TokenInv, CallMargin
<1> QED BY <1>1, TokenInvAlways, PTL

(* A cached token that is still good is never replaced, because whoever    *)
(* gets tokenMu looks at the cache again.                                  *)
THEOREM GoodTokenKept == TokenSpec => TokenKeptWhileGood
<1>1. TokenInv /\ [TokenNext]_tokenVars => [Good => token' = token]_tokenVars
  <2> SUFFICES ASSUME TokenInv, TokenNext, Good PROVE token' = token
    OBVIOUS
  <2>1. mutex = Nobody BY DEF TokenInv, FetchNeeded
  <2>2. ASSUME NEW c \in Callers, NEW life \in Lives, NEW issued \in 0 .. TokenTime,
               Fetched(c, life, issued)
        PROVE  FALSE
    BY <2>1, <2>2, TokenAssumption DEF Fetched
  <2> QED BY <2>2 DEF TokenNext, Ask, UseCached, StartFetch, FetchFails, CreateWithSameHeaders,
                      Finish, Tick
<1> QED BY <1>1, TokenInvAlways, PTL DEF TokenSpec, TokenKeptWhileGood

------------------------------------------------------------------------------
(* Policy syncs: what has been started is a version of the row, and the     *)
(* policy comes from what has been started.  While no two have crossed, the *)
(* one that runs was started last, and what is done left its version or a   *)
(* later one.                                                               *)
Started(v) == sync[v] # "none"

StartedWritten == \A v \in Versions : Started(v) => v <= Len(published)
PolicySynced   == policy.body # 0 => Started(policy.body)
LastRuns       == ~crossed => \A v, w \in Versions : Running(v) /\ Started(w) => w <= v
DoneIsIn       == ~crossed => \A v \in Versions : sync[v] = "done" => v <= policy.body

PolicyInv == PolicyTypeOK /\ StartedWritten /\ PolicySynced /\ LastRuns /\ DoneIsIn

LEMMA PolicyInvInit == PolicyInit => PolicyInv
<1> SUFFICES ASSUME PolicyInit PROVE PolicyInv
  OBVIOUS
<1>1. /\ published = <<>> /\ crossed = FALSE /\ policy = NoPolicy
      /\ sync = [v \in Versions |-> "none"]
  BY DEF PolicyInit
<1>2. \A v \in Versions : sync[v] = "none" BY <1>1
<1>3. sync \in [Versions -> SyncSteps] BY <1>1 DEF SyncSteps
<1>4. PolicyTypeOK
  <2>1. published \in Seq(BOOLEAN) /\ Len(published) <= MaxVersion BY <1>1, PolicyAssumption
  <2>2. policy \in [body : 0 .. MaxVersion, name : 0 .. MaxVersion]
    BY <1>1, PolicyAssumption DEF NoPolicy
  <2> QED BY <1>1, <1>3, <2>1, <2>2 DEF PolicyTypeOK
<1>5. StartedWritten /\ LastRuns /\ DoneIsIn
  BY <1>2 DEF StartedWritten, LastRuns, DoneIsIn, Started
<1>6. PolicySynced BY <1>1 DEF PolicySynced, NoPolicy
<1> QED BY <1>4, <1>5, <1>6 DEF PolicyInv

LEMMA StepTyped ==
  ASSUME PolicyTypeOK, NEW v \in Versions, NEW s \in SyncSteps, Step(v, s)
  PROVE  /\ sync' \in [Versions -> SyncSteps]
         /\ sync'[v] = s
         /\ \A w \in Versions \ {v} : sync'[w] = sync[w]
BY DEF Step, PolicyTypeOK

(* A sync that runs goes on, or ends, and may write its version. *)
LEMMA RunStep ==
  ASSUME PolicyInv, NEW v \in Versions, Running(v), NEW s \in SyncSteps \ {"none"}, Step(v, s),
         UNCHANGED <<published, crossed>>,
         policy' \in [body : 0 .. MaxVersion, name : 0 .. MaxVersion],
         policy' = policy \/ policy'.body = v, s = "done" => policy'.body = v
  PROVE  PolicyInv'
<1>1. /\ sync' \in [Versions -> SyncSteps] /\ sync'[v] = s
      /\ \A w \in Versions \ {v} : sync'[w] = sync[w]
  BY StepTyped DEF PolicyInv
<1>2. \A w \in Versions : Started(w)' <=> Started(w) BY <1>1 DEF Started, Running
<1>3. \A w \in Versions : Running(w)' => Running(w) BY <1>1 DEF Running
<1>4. v \in Nat /\ Started(v) BY PolicyAssumption DEF Versions, Running, Started
<1>5. PolicyTypeOK' BY <1>1 DEF PolicyInv, PolicyTypeOK
<1>6. StartedWritten' BY <1>2 DEF PolicyInv, StartedWritten
<1>7. policy.body \in 0 .. MaxVersion /\ (policy.body # 0 => policy.body \in Versions)
  BY PolicyAssumption DEF PolicyInv, PolicyTypeOK, Versions
<1>8. PolicySynced' BY <1>2, <1>4, <1>7 DEF PolicyInv, PolicySynced, Started
<1>9. LastRuns' BY <1>2, <1>3 DEF PolicyInv, LastRuns
<1>10. DoneIsIn'
  <2> SUFFICES ASSUME ~crossed, NEW w \in Versions, sync'[w] = "done" PROVE w <= policy'.body
    BY DEF DoneIsIn
  <2>1. CASE w = v BY <1>1, <1>4, <2>1
  <2>2. CASE w # v
    <3>1. sync[w] = "done" BY <1>1, <2>2
    <3>2. w <= policy.body BY <3>1 DEF PolicyInv, DoneIsIn
    <3>3. w <= v BY <3>1 DEF PolicyInv, LastRuns, Started
    <3> QED BY <3>2, <3>3
  <2> QED BY <2>1, <2>2
<1> QED BY <1>5, <1>6, <1>8, <1>9, <1>10 DEF PolicyInv

LEMMA PolicyInvNext == PolicyInv /\ [PolicyNext]_policyVars => PolicyInv'
<1> SUFFICES ASSUME PolicyInv, [PolicyNext]_policyVars PROVE PolicyInv'
  OBVIOUS
<1> USE PolicyAssumption
<1>0. PolicyTypeOK BY DEF PolicyInv
<1>1. ASSUME NEW pub \in BOOLEAN, WriteRow(pub) PROVE PolicyInv'
  <2> DEFINE n == Len(published) + 1
  <2>1. /\ published' = Append(published, pub) /\ policy' = policy /\ n \in Versions
        /\ published' \in Seq(BOOLEAN) /\ Len(published') = n /\ Len(published) \in Nat
    BY <1>0, <1>1 DEF WriteRow, PolicyTypeOK, Versions
  <2>2. CASE pub
    <3>1. Step(n, "started") /\ crossed' = (crossed \/ \E v \in Versions : Running(v))
      BY <1>1, <2>2 DEF WriteRow
    <3>2. /\ sync' \in [Versions -> SyncSteps] /\ sync'[n] = "started"
          /\ \A w \in Versions \ {n} : sync'[w] = sync[w]
      BY <1>0, <2>1, <3>1, StepTyped DEF SyncSteps
    <3>3. \A w \in Versions : Started(w) => w < n
      BY <2>1 DEF PolicyInv, StartedWritten, Versions
    <3>4. PolicyTypeOK' BY <1>0, <2>1, <3>1, <3>2 DEF PolicyTypeOK, Versions
    <3>5. \A w \in Versions : Started(w)' <=> Started(w) \/ w = n BY <3>2 DEF Started
    <3>6. StartedWritten'
      <4> SUFFICES ASSUME NEW w \in Versions, Started(w)' PROVE w <= n
        BY <2>1 DEF StartedWritten
      <4>1. w \in Nat /\ n \in Nat BY <2>1 DEF Versions
      <4> QED BY <3>3, <3>5, <4>1
    <3>7. policy.body # 0 => policy.body \in Versions BY <1>0 DEF PolicyTypeOK, Versions
    <3>8. PolicySynced' BY <2>1, <3>2, <3>7 DEF PolicyInv, PolicySynced, Started
    <3>9. LastRuns'
      <4> SUFFICES ASSUME ~crossed', NEW v \in Versions, NEW w \in Versions,
                          Running(v)', Started(w)'
                   PROVE  w <= v
        BY DEF LastRuns
      <4>1. v = n BY <3>1, <3>2 DEF Running
      <4>2. w \in Nat /\ n \in Nat BY <2>1 DEF Versions
      <4> QED BY <3>3, <3>5, <4>1, <4>2
    <3>10. DoneIsIn' BY <2>1, <3>1, <3>2 DEF PolicyInv, DoneIsIn
    <3> QED BY <3>4, <3>6, <3>8, <3>9, <3>10 DEF PolicyInv
  <2>3. CASE ~pub
    <3>1. UNCHANGED <<sync, crossed>> BY <1>1, <2>3 DEF WriteRow
    <3>2. PolicyTypeOK' BY <1>0, <2>1, <3>1 DEF PolicyTypeOK, Versions
    <3>3. StartedWritten' BY <2>1, <3>1 DEF PolicyInv, StartedWritten, Started, Versions
    <3> QED BY <2>1, <3>1, <3>2, <3>3
            DEF PolicyInv, PolicySynced, LastRuns, DoneIsIn, Started, Running
  <2> QED BY <2>2, <2>3
<1>2. ASSUME NEW v \in Versions, SendPatch(v) PROVE PolicyInv'
  <2>1. Running(v) /\ Step(v, "patching") /\ UNCHANGED <<published, crossed, policy>>
    BY <1>2 DEF SendPatch, Running
  <2>2. policy' \in [body : 0 .. MaxVersion, name : 0 .. MaxVersion]
    BY <1>0, <2>1 DEF PolicyTypeOK
  <2> QED BY <2>1, <2>2, RunStep DEF SyncSteps
<1>3. ASSUME NEW v \in Versions, PatchNotFound(v) PROVE PolicyInv'
  <2>1. Running(v) /\ Step(v, "creating") /\ UNCHANGED <<published, crossed, policy>>
    BY <1>3 DEF PatchNotFound, Running
  <2>2. policy' \in [body : 0 .. MaxVersion, name : 0 .. MaxVersion]
    BY <1>0, <2>1 DEF PolicyTypeOK
  <2> QED BY <2>1, <2>2, RunStep DEF SyncSteps
<1>4. ASSUME NEW v \in Versions
      PROVE  /\ UpdateBody(v) \in [body : 0 .. MaxVersion, name : 0 .. MaxVersion]
             /\ CreateBody(v) \in [body : 0 .. MaxVersion, name : 0 .. MaxVersion]
             /\ UpdateBody(v).body = v /\ CreateBody(v).body = v
  BY <1>0 DEF UpdateBody, CreateBody, PolicyTypeOK, Versions
<1>5. ASSUME NEW v \in Versions, Patched(v) \/ Posted(v) PROVE PolicyInv'
  <2>1. /\ Running(v) /\ Step(v, "done") /\ UNCHANGED <<published, crossed>>
        /\ policy' \in {UpdateBody(v), CreateBody(v)}
    BY <1>5 DEF Patched, Posted, Running
  <2> QED BY <1>4, <2>1, RunStep DEF SyncSteps
<1>6. ASSUME NEW v \in Versions, SyncFails(v) PROVE PolicyInv'
  <2>1. /\ Running(v) /\ Step(v, "failed") /\ UNCHANGED <<published, crossed>>
        /\ policy' \in {policy, UpdateBody(v), CreateBody(v)}
    BY <1>6 DEF SyncFails
  <2>2. policy \in [body : 0 .. MaxVersion, name : 0 .. MaxVersion] BY <1>0 DEF PolicyTypeOK
  <2> QED BY <1>4, <2>1, <2>2, RunStep DEF SyncSteps
<1>7. CASE UNCHANGED policyVars
  BY <1>7 DEF policyVars, PolicyInv, PolicyTypeOK, StartedWritten, PolicySynced, LastRuns,
     DoneIsIn, Started, Running
<1> QED BY <1>1, <1>2, <1>3, <1>5, <1>6, <1>7 DEF PolicyNext

LEMMA PolicyInvAlways == PolicySpec => []PolicyInv
BY PolicyInvInit, PolicyInvNext, PTL DEF PolicySpec

(* Every reachable state is well typed. *)
THEOREM PolicyTyped == PolicySpec => []PolicyTypeOK
<1>1. PolicyInv => PolicyTypeOK BY DEF PolicyInv
<1> QED BY <1>1, PolicyInvAlways, PTL

(* As long as no two syncs have run at the same time, one reported as done *)
(* left its own version in the policy, and only a later sync replaces it,  *)
(* also when a sync failed after its request was carried out.              *)
THEOREM DoneSyncKept == PolicySpec => []DoneSyncStays
<1>1. PolicyInv => DoneSyncStays
  <2> SUFFICES ASSUME PolicyInv, NEW v \in Versions, sync[v] = "done", ~crossed
               PROVE  policy.body >= v /\ sync[policy.body] # "none"
    BY DEF DoneSyncStays
  <2>1. v \in Nat /\ v # 0 /\ policy.body \in Nat
    BY PolicyAssumption DEF PolicyInv, PolicyTypeOK, Versions
  <2>2. v <= policy.body BY DEF PolicyInv, DoneIsIn
  <2>3. sync[policy.body] # "none" BY <2>1, <2>2 DEF PolicyInv, PolicySynced, Started, Versions
  <2> QED BY <2>1, <2>2, <2>3
<1> QED BY <1>1, PolicyInvAlways, PTL

------------------------------------------------------------------------------
(* Expense actions: whoever a report is mailed to now has been an approver, *)
(* and so has whoever passed the comparison, whatever the service has made  *)
(* of the report since.                                                     *)
MailedWasOne   == \A r \in Reports : approvers[r] \X {r} \subseteq wasOne
ComparedWasOne == asked.at = "acting" => <<asked.who, asked.report>> \in wasOne

ExpenseInv == ExpenseTypeOK /\ MailedWasOne /\ ComparedWasOne /\ ActedByApprover

LEMMA ExpenseInvInit == ExpenseInit => ExpenseInv
BY DEF ExpenseInit, ExpenseInv, ExpenseTypeOK, MailedWasOne, ComparedWasOne, ActedByApprover, Ready

(* A request under way is about a person with a row and a report. *)
LEMMA AskedBy ==
  ASSUME ExpenseTypeOK, asked.at \in {"listing", "acting"}
  PROVE  /\ asked \in [who : Users, report : Reports, at : {"listing", "acting"}]
         /\ asked.who \in Users /\ asked.report \in Reports
BY DEF ExpenseTypeOK, Ready

LEMMA AnswerTyped ==
  ASSUME NEW u \in AllCallers, NEW r \in Reports, NEW code \in Codes, Answer(u, r, code)
  PROVE  /\ answer' \in [who : AllCallers, report : Reports, code : Codes]
         /\ asked' = Ready /\ asked'.at = "ready"
BY DEF Answer, Ready

(* An answer ends the request; at most what it asked for was carried out. *)
LEMMA AnswerStep ==
  ASSUME ExpenseInv, NEW u \in AllCallers, NEW r \in Reports, NEW code \in Codes,
         Answer(u, r, code), UNCHANGED <<filed, approvers, wasOne>>,
         \/ UNCHANGED acted
         \/ /\ asked.at = "acting" /\ u = asked.who /\ r = asked.report
            /\ acted' = acted \cup {<<u, r>>}
  PROVE  ExpenseInv'
<1>1. /\ answer' \in [who : AllCallers, report : Reports, code : Codes]
      /\ asked' = Ready /\ asked'.at = "ready"
  BY AnswerTyped
<1>2. acted' \subseteq wasOne BY DEF ExpenseInv, ComparedWasOne, ActedByApprover
<1>3. ExpenseTypeOK' BY <1>1, <1>2 DEF ExpenseInv, ExpenseTypeOK
<1>4. MailedWasOne' /\ ActedByApprover' BY <1>2 DEF ExpenseInv, MailedWasOne, ActedByApprover
<1> QED BY <1>1, <1>3, <1>4 DEF ExpenseInv, ComparedWasOne

LEMMA ExpenseInvNext == ExpenseInv /\ [ExpenseNext]_expenseVars => ExpenseInv'
<1> SUFFICES ASSUME ExpenseInv, [ExpenseNext]_expenseVars PROVE ExpenseInv'
  OBVIOUS
<1>0. ExpenseTypeOK BY DEF ExpenseInv
<1>1. ASSUME NEW r \in Reports, DropReport(r) PROVE ExpenseInv'
  BY <1>1 DEF DropReport, ExpenseInv, ExpenseTypeOK, MailedWasOne, ComparedWasOne, ActedByApprover
<1>2. ASSUME NEW r \in Reports, NEW who \in SUBSET Users, SetReport(r, who) PROVE ExpenseInv'
  <2>1. /\ filed' = filed \cup {r} /\ approvers' = [approvers EXCEPT ![r] = who]
        /\ wasOne' = wasOne \cup (who \X {r}) /\ UNCHANGED <<asked, acted, answer>>
    BY <1>2 DEF SetReport
  <2>2. ExpenseTypeOK' BY <1>0, <2>1 DEF ExpenseTypeOK
  <2>3. MailedWasOne'
    <3> SUFFICES ASSUME NEW q \in Reports PROVE approvers'[q] \X {q} \subseteq wasOne'
      BY DEF MailedWasOne
    <3>1. approvers'[q] = IF q = r THEN who ELSE approvers[q]
      BY <1>0, <2>1 DEF ExpenseTypeOK
    <3> QED BY <2>1, <3>1 DEF ExpenseInv, MailedWasOne
  <2> QED BY <2>1, <2>2, <2>3 DEF ExpenseInv, ComparedWasOne, ActedByApprover
<1>3. ASSUME NEW u \in AllCallers, NEW r \in Reports, Refuse(u, r) PROVE ExpenseInv'
  <2>1. PICK code \in Refusals(u) : Answer(u, r, code)
    BY <1>3 DEF Refuse
  <2>2. code \in Codes BY DEF Refusals, Codes
  <2>3. UNCHANGED <<filed, approvers, wasOne, acted>> BY <1>3 DEF Refuse
  <2> QED BY <2>1, <2>2, <2>3, AnswerStep
<1>4. ASSUME NEW u \in Users, NEW r \in Reports, Admit(u, r) PROVE ExpenseInv'
  BY <1>4 DEF Admit, ExpenseInv, ExpenseTypeOK, MailedWasOne, ComparedWasOne, ActedByApprover
<1>5. ASSUME asked.at \in {"listing", "acting"}
      PROVE  asked.who \in AllCallers /\ asked.report \in Reports
  BY <1>0, <1>5, AskedBy DEF AllCallers
<1>6. ASSUME ListApprovers PROVE ExpenseInv'
  <2> DEFINE u == asked.who  r == asked.report
  <2>1. asked.at = "listing" /\ UNCHANGED <<filed, approvers, wasOne, acted>>
    BY <1>6 DEF ListApprovers
  <2>2. CASE r \in filed /\ u \in approvers[r]
    <3>1. asked' = [asked EXCEPT !.at = "acting"] /\ UNCHANGED answer
      BY <1>6, <2>2 DEF ListApprovers
    <3>2. asked \in [who : Users, report : Reports, at : {"listing", "acting"}]
      BY <1>0, <2>1, AskedBy
    <3>3. /\ asked' \in [who : Users, report : Reports, at : {"listing", "acting"}]
          /\ asked'.who = u /\ asked'.report = r /\ r \in Reports
      BY <3>1, <3>2
    <3>4. ExpenseTypeOK' BY <1>0, <2>1, <3>1, <3>3 DEF ExpenseTypeOK
    <3>5. <<u, r>> \in wasOne BY <2>2, <3>3 DEF ExpenseInv, MailedWasOne
    <3> QED BY <2>1, <3>3, <3>4, <3>5 DEF ExpenseInv, MailedWasOne, ComparedWasOne, ActedByApprover
  <2>3. CASE ~(r \in filed /\ u \in approvers[r])
    <3>1. Answer(u, r, 404) BY <1>6, <2>3 DEF ListApprovers
    <3> QED BY <1>5, <2>1, <3>1, AnswerStep DEF Codes
  <2> QED BY <2>2, <2>3
<1>7. ASSUME Act PROVE ExpenseInv'
  <2>1. /\ asked.at = "acting" /\ UNCHANGED <<filed, approvers, wasOne>>
        /\ \/ /\ Answer(asked.who, asked.report, 204)
              /\ acted' = acted \cup {<<asked.who, asked.report>>}
           \/ Answer(asked.who, asked.report, 404) /\ UNCHANGED acted
    BY <1>7 DEF Act
  <2> QED BY <1>5, <2>1, AnswerStep DEF Codes
<1>8. ASSUME Unavailable PROVE ExpenseInv'
  <2>1. /\ asked.at \in {"listing", "acting"} /\ UNCHANGED <<filed, approvers, wasOne>>
        /\ Answer(asked.who, asked.report, 503)
        /\ \/ UNCHANGED acted
           \/ asked.at = "acting" /\ acted' = acted \cup {<<asked.who, asked.report>>}
    BY <1>8 DEF Unavailable
  <2> QED BY <1>5, <2>1, AnswerStep DEF Codes
<1>9. CASE UNCHANGED expenseVars
  BY <1>9 DEF expenseVars, ExpenseInv, ExpenseTypeOK, MailedWasOne, ComparedWasOne, ActedByApprover
<1> QED BY <1>1, <1>2, <1>3, <1>4, <1>6, <1>7, <1>8, <1>9 DEF ExpenseNext

LEMMA ExpenseInvAlways == ExpenseSpec => []ExpenseInv
BY ExpenseInvInit, ExpenseInvNext, PTL DEF ExpenseSpec

(* Every reachable state is well typed. *)
THEOREM ExpenseTyped == ExpenseSpec => []ExpenseTypeOK
<1>1. ExpenseInv => ExpenseTypeOK BY DEF ExpenseInv
<1> QED BY <1>1, ExpenseInvAlways, PTL

(* An action is carried out only for somebody the report was mailed to,    *)
(* however the service reassigns and drops reports between the two calls.  *)
THEOREM ActionsOfApprovers == ExpenseSpec => []ActedByApprover
<1>1. ExpenseInv => ActedByApprover BY DEF ExpenseInv
<1> QED BY <1>1, ExpenseInvAlways, PTL

==================================================================================
