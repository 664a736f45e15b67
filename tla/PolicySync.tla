------------------------------- MODULE PolicySync -------------------------------
(***************************************************************************)
(* The reimbursement policy of one initiative: every update and approval   *)
(* of a published initiative starts a background sync with a snapshot      *)
(* (service/initiative_service.go, syncReimbursementPolicy), which PATCHes *)
(* the policy at the Reimbursement Service and POSTs it when there is none *)
(* (infrastructure/clients/reimbursement_client.go, SyncPolicy).           *)
(*                                                                         *)
(* A version of the row stands for the payload built from it               *)
(* (beneficiaries, categories, URL, type); the owner's name and email,     *)
(* read from another table by the goroutine, are left out.  Nothing waits  *)
(* for a sync, retries it or orders it with another.                       *)
(***************************************************************************)
EXTENDS Integers, Sequences

CONSTANT MaxVersion   \* bound: how often the row is written

ASSUME PolicyAssumption == MaxVersion \in Nat

VARIABLES
  published,  \* of each version of the row, in commit order: is it published?
  sync,       \* of each version: the step of its sync
  crossed,    \* was there ever a sync started while another was running?
  policy      \* the policy: the versions its body and its name come from, 0 for none

policyVars == <<published, sync, crossed, policy>>

Versions   == 1 .. MaxVersion
SyncSteps  == {"none", "started", "patching", "creating", "done", "failed"}
Running(v) == sync[v] \in {"started", "patching", "creating"}

PolicyTypeOK ==
  /\ published \in Seq(BOOLEAN) /\ Len(published) <= MaxVersion
  /\ sync \in [Versions -> SyncSteps]
  /\ crossed \in BOOLEAN
  /\ policy \in [body : 0 .. MaxVersion, name : 0 .. MaxVersion]

NoPolicy == [body |-> 0, name |-> 0]

PolicyInit ==
  /\ published = <<>>
  /\ sync = [v \in Versions |-> "none"]
  /\ crossed = FALSE
  /\ policy = NoPolicy

-----------------------------------------------------------------------------
(* buildPolicyPayload: the update carries everything but the name.         *)
(* Mutant: the PATCH carries the name alone. *)
UpdateBody_NameOnly(v) == [policy EXCEPT !.name = v]
UpdateBody(v) == [policy EXCEPT !.body = v]
CreateBody(v) == [body |-> v, name |-> v]

Step(v, s) == sync' = [sync EXCEPT ![v] = s]

(* Update and ProcessApproval: the row is written, and a published result  *)
(* starts a goroutine with a copy of it.                                   *)
WriteRow(pub) ==
  /\ Len(published) < MaxVersion
  /\ published' = Append(published, pub)
  /\ IF pub
     THEN /\ Step(Len(published) + 1, "started")
          /\ crossed' = (crossed \/ \E v \in Versions : Running(v))
     ELSE UNCHANGED <<sync, crossed>>
  /\ UNCHANGED policy

(* The owner's row and the headers are there: the PATCH goes out. *)
SendPatch(v) ==
  /\ sync[v] = "started"
  /\ Step(v, "patching")
  /\ UNCHANGED <<published, crossed, policy>>

Patched(v) ==
  /\ sync[v] = "patching" /\ policy # NoPolicy
  /\ policy' = UpdateBody(v)
  /\ Step(v, "done")
  /\ UNCHANGED <<published, crossed>>

(* Only a 404 leads to the POST. *)
PatchNotFound(v) ==
  /\ sync[v] = "patching" /\ policy = NoPolicy
  /\ Step(v, "creating")
  /\ UNCHANGED <<published, crossed, policy>>

Posted(v) ==
  /\ sync[v] = "creating"
  /\ policy' = CreateBody(v)
  /\ Step(v, "done")
  /\ UNCHANGED <<published, crossed>>

(* No owner row, no token, an answer other than 404, or no answer at all:  *)
(* the request may have been carried out.  The error is only logged.       *)
SyncFails(v) ==
  /\ Running(v)
  /\ Step(v, "failed")
  /\ \/ UNCHANGED policy
     \/ sync[v] = "patching" /\ policy # NoPolicy /\ policy' = UpdateBody(v)
     \/ sync[v] = "creating" /\ policy' = CreateBody(v)
  /\ UNCHANGED <<published, crossed>>

PolicyNext ==
  \/ \E pub \in BOOLEAN : WriteRow(pub)
  \/ \E v \in Versions :
       SendPatch(v) \/ Patched(v) \/ PatchNotFound(v) \/ Posted(v) \/ SyncFails(v)

PolicySpec == PolicyInit /\ [][PolicyNext]_policyVars

-----------------------------------------------------------------------------
(* What the code has instead of an order between syncs: as long as no two  *)
(* have run at the same time, a sync reported as done left its own version *)
(* in the policy, and only a later sync replaces it.  (Syncs that cross    *)
(* may leave the older version behind; nothing repairs that but the next   *)
(* update.)                                                                *)
DoneSyncStays ==
  \A v \in Versions :
    sync[v] = "done" /\ ~crossed =>
      /\ policy.body >= v
      /\ policy.body # v => sync[policy.body] # "none"

=============================================================================
