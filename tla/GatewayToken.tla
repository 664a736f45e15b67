------------------------------ MODULE GatewayToken ------------------------------
(***************************************************************************)
(* The bearer token that every call to the Reimbursement Service carries   *)
(* (infrastructure/clients/reimbursement_client.go, m2mToken): fetched     *)
(* from Auth0 by one caller at a time under tokenMu, cached until a margin *)
(* before its end, and attached to one request or, when a PATCH is         *)
(* answered 404, to the POST that follows it as well.                      *)
(*                                                                         *)
(* Time is counted in ticks.  A token's life starts when Auth0 issues it,  *)
(* at any tick of the exchange; the cache counts from the answer.          *)
(***************************************************************************)
EXTENDS Integers

CONSTANTS
  Callers,    \* goroutines that call the Reimbursement Service
  Lives,      \* the expires_in values Auth0 answers
  Timeout,    \* ReimbursementConfig.Timeout: the longest exchange
  Margin,     \* bufferSec
  TokenTime,  \* bound: the last tick considered
  NoToken, Nobody

(* The clamp for short-lived tokens: half the life. *)
Buffer(life) == IF life <= 2 * Margin THEN life \div 2 ELSE Margin

(* Two exchanges, a fetch and a PATCH, fit into the margin (10 s and 60 s  *)
(* in production, for every life above 40 s).                              *)
ASSUME TokenAssumption ==
  /\ Timeout \in Nat /\ Margin \in Nat /\ TokenTime \in Nat
  /\ Lives \subseteq Nat \ {0}
  /\ \A l \in Lives : 2 * Timeout <= Buffer(l)
  /\ Nobody \notin Callers
  /\ NoToken \notin [ends : Nat, until : Int]

VARIABLES
  now,
  token,    \* tokenVal and tokenExpiry: [ends, until], or NoToken
  mutex,    \* the caller that holds tokenMu while it fetches, or Nobody
  call      \* of each caller: [at, since, ends of the token it carries]

tokenVars == <<now, token, mutex, call>>

Tokens == [ends : Nat, until : Int]
Steps  == {"idle", "waiting", "fetching", "calling", "creating"}

TokenTypeOK ==
  /\ now \in Nat
  /\ token \in Tokens \cup {NoToken}
  /\ mutex \in Callers \cup {Nobody}
  /\ call \in [Callers -> [at : Steps, since : Nat, ends : Nat]]

Idle == [at |-> "idle", since |-> 0, ends |-> 0]
Good == token # NoToken /\ now < token.until

TokenInit ==
  /\ now = 0
  /\ token = NoToken
  /\ mutex = Nobody
  /\ call = [c \in Callers |-> Idle]

-----------------------------------------------------------------------------
To(c, step, ends) == call' = [call EXCEPT ![c] = [at |-> step, since |-> now, ends |-> ends]]

(* SyncPolicy, ProcessExpenseAction or GetExpenseApprovers reaches gatewayHeaders. *)
Ask(c) ==
  /\ call[c].at = "idle"
  /\ To(c, "waiting", 0)
  /\ UNCHANGED <<now, token, mutex>>

(* The cache is looked at with tokenMu held. *)
UseCached(c) ==
  /\ call[c].at = "waiting" /\ mutex = Nobody
  /\ Good
  /\ To(c, "calling", token.ends)
  /\ UNCHANGED <<now, token, mutex>>

(* Mutant: without a second look at the cache. *)
StartFetch_Unchecked(c) ==
  /\ call[c].at = "waiting" /\ mutex = Nobody
  /\ mutex' = c
  /\ To(c, "fetching", 0)
  /\ UNCHANGED <<now, token>>

StartFetch(c) ==
  /\ call[c].at = "waiting" /\ mutex = Nobody
  /\ ~Good
  /\ mutex' = c
  /\ To(c, "fetching", 0)
  /\ UNCHANGED <<now, token>>

(* Mutant: the margin is forgotten. *)
CacheUntil_NoMargin(life) == now + life
CacheUntil(life)          == now + (life - Buffer(life))

(* Auth0 issued the token at some tick of the exchange. *)
Fetched(c, life, issued) ==
  /\ call[c].at = "fetching" /\ mutex = c
  /\ issued \in call[c].since .. now
  /\ token' = [ends |-> issued + life, until |-> CacheUntil(life)]
  /\ mutex' = Nobody
  /\ To(c, "calling", issued + life)
  /\ UNCHANGED now

(* An error leaves the cache as it was, and the caller without a call. *)
FetchFails(c) ==
  /\ call[c].at = "fetching" /\ mutex = c
  /\ mutex' = Nobody
  /\ call' = [call EXCEPT ![c] = Idle]
  /\ UNCHANGED <<now, token>>

(* PATCH answered 404: the POST carries the headers made for the PATCH. *)
CreateWithSameHeaders(c) ==
  /\ call[c].at = "calling"
  /\ To(c, "creating", call[c].ends)
  /\ UNCHANGED <<now, token, mutex>>

Finish(c) ==
  /\ call[c].at \in {"calling", "creating"}
  /\ call' = [call EXCEPT ![c] = Idle]
  /\ UNCHANGED <<now, token, mutex>>

(* Every exchange is cut off after Timeout. *)
Tick ==
  /\ now < TokenTime
  /\ \A c \in Callers : call[c].at \in {"idle", "waiting"} \/ now < call[c].since + Timeout
  /\ now' = now + 1
  /\ UNCHANGED <<token, mutex, call>>

TokenNext ==
  \/ \E c \in Callers :
       \/ Ask(c) \/ UseCached(c) \/ StartFetch(c) \/ FetchFails(c)
       \/ \E life \in Lives, issued \in 0 .. TokenTime : Fetched(c, life, issued)
       \/ CreateWithSameHeaders(c) \/ Finish(c)
  \/ Tick

TokenSpec == TokenInit /\ [][TokenNext]_tokenVars

-----------------------------------------------------------------------------
(* A request to the gateway never leaves with a token that has ended, not  *)
(* even the POST that reuses the headers of a slow PATCH; the margin and   *)
(* its clamp for short lives are there for this (m2mToken).                *)
SentUnexpired ==
  \A c \in Callers :
    call[c].at \in {"calling", "creating"} => call[c].since < call[c].ends

(* A caller that had to wait for tokenMu looks at the cache again, so a    *)
(* token is replaced only when the cached one has run out: no two callers  *)
(* fetch tokens for the same period.                                       *)
TokenKeptWhileGood == [][Good => token' = token]_tokenVars

=============================================================================
