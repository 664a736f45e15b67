------------------------------ MODULE Initiatives ------------------------------
(***************************************************************************)
(* The life of one initiative: the requests of owners, managers and        *)
(* approvers (service/initiative_service.go) over its row                  *)
(* (infrastructure/db/initiative_repository.go), its Stripe product, its   *)
(* policy in the Reimbursement Service, and, through FgaSync, its access   *)
(* tuples and the reconcile job (cmd/fga-backfill).                        *)
(*                                                                         *)
(* Requests run concurrently; every external call and every SQL            *)
(* transaction is one atomic step.  What Update and ProcessApproval write  *)
(* is the whole row they read.  The row read again after a commit is       *)
(* published in the step that reads it: the wire orders nothing anyway.    *)
(* Who may call what is decided before the first step and never changes;   *)
(* cancelling the subscriptions is a step whose inside is Subscriptions.   *)
(* Statuses have their canonical spelling.  Programs written by the        *)
(* mentorship sync job are not part of this module.                        *)
(***************************************************************************)
EXTENDS FgaSync

CONSTANT Ops   \* requests that can run at the same time

VARIABLES
  row,        \* the row in initiatives: status and attribution, or None
  product,    \* the Stripe product that Create made
  policy,     \* the policy in the Reimbursement Service
  op,         \* each request: program counter, kind and the row it holds
  approved    \* whether an approval was ever written (history)

vars == <<row, product, policy, op, approved, wire, access>>

Statuses == {"submitted", "pending", "published", "hidden", "declined"}
Rows     == [status : Statuses, attribution : Targets \cup {None}]
Kinds    == {"create", "update", "attribution", "approve", "decline", "delete"}

ASSUME NoneIsNoInitiative == None \notin Rows

Idle    == [pc |-> "idle", kind |-> None, row |-> None]
Running == [pc : {"insert", "rollback", "cancel", "write", "patch", "publish",
                  "remove", "withdraw"},
            kind : Kinds, row : Rows]

(* One type invariant for the module. *)
TypeOK ==
  /\ FgaTypeOK
  /\ row \in Rows \cup {None}
  /\ product \in {"none", "live", "deleted"}
  /\ policy \in {"absent", "requested", "present"}
  /\ op \in [Ops -> Running \cup {Idle}]
  /\ approved \in BOOLEAN

Init ==
  /\ FgaInit
  /\ row = None /\ product = "none" /\ policy = "absent"
  /\ op = [o \in Ops |-> Idle]
  /\ approved = FALSE

-----------------------------------------------------------------------------
Start(o, pc, kind, r) ==
  op[o] = Idle /\ op' = [op EXCEPT ![o] = [pc |-> pc, kind |-> kind, row |-> r]]
At(o, pc)   == op[o].pc = pc
Goto(o, pc) == op' = [op EXCEPT ![o].pc = pc]
End(o)      == op' = [op EXCEPT ![o] = Idle]

(* The access the row stands for: everyone may view a published one. *)
Wanted(r) == IF r = None THEN None
             ELSE [public |-> r.status = "published", reference |-> r.attribution]

-----------------------------------------------------------------------------
(* InitiativeService.Create *)

CreateProduct(o) ==
  /\ product = "none"
  /\ \E a \in Targets \cup {None} :
       Start(o, "insert", "create", [status |-> "submitted", attribution |-> a])
  /\ product' = "live"
  /\ UNCHANGED <<row, policy, approved>> /\ UNCHANGED fgaVars

(* repo.Create: the transaction and the read after it.  Either can fail,   *)
(* and the caller cannot tell which.                                       *)
Insert(o) ==
  /\ At(o, "insert")
  /\ \/ row' = op[o].row /\ Goto(o, "publish")
     \/ row' \in {row, op[o].row} /\ Goto(o, "rollback")
  /\ UNCHANGED <<product, policy, approved>> /\ UNCHANGED fgaVars

Rollback(o) ==
  /\ At(o, "rollback")
  /\ product' \in {product, "deleted"}
  /\ End(o)
  /\ UNCHANGED <<row, policy, approved>> /\ UNCHANGED fgaVars

-----------------------------------------------------------------------------
(* InitiativeService.Update, ProcessApproval and UpdateAttribution *)

Closing == {"declined", "hidden"}

(* faulty: owners can publish what nobody reviewed *)
OwnerTransition_Publish(from) ==
  IF from = "pending" THEN {"published", "declined"} ELSE {"hidden", "declined"}

(* faulty: any text is a status *)
OwnerTransition_AnyText(from) == {"archived"}

OwnerTransition(from) ==
  CASE from = "submitted" -> {"pending", "declined"}
    [] from = "pending"   -> {"declined"}
    [] from = "published" -> {"hidden"}
    [] from = "hidden"    -> {"published"}
    [] OTHER              -> {}

(* An edit asks for a new status or leaves it alone. *)
LoadUpdate(o) ==
  /\ row # None
  /\ \/ Start(o, "write", "update", row)
     \/ \E s \in OwnerTransition(row.status) :
          Start(o, IF s \in Closing THEN "cancel" ELSE "write", "update",
                [row EXCEPT !.status = s])
  /\ UNCHANGED <<row, product, policy, approved>> /\ UNCHANGED fgaVars

Reviewable(s) == s \in {"submitted", "pending"}

LoadApproval(o) ==
  /\ row # None /\ Reviewable(row.status)
  /\ \/ Start(o, "write", "approve", [row EXCEPT !.status = "published"])
     \/ Start(o, "cancel", "decline", [row EXCEPT !.status = "declined"])
  /\ UNCHANGED <<row, product, policy, approved>> /\ UNCHANGED fgaVars

(* cancelInitiativeSubscriptions came to its end. *)
CancelSubscriptions(o) ==
  /\ At(o, "cancel")
  /\ Goto(o, "write")
  /\ UNCHANGED <<row, product, policy, approved>> /\ UNCHANGED fgaVars

(* repo.Update: every column of the row as it was read. *)
Write(o) ==
  /\ At(o, "write")
  /\ row # None
  /\ row' = op[o].row
  /\ approved' = (approved \/ op[o].kind = "approve")
  /\ Goto(o, "publish")
  /\ UNCHANGED <<product, policy>> /\ UNCHANGED fgaVars

LoadAttribution(o) ==
  /\ row # None /\ row.status = "submitted"
  /\ \E a \in Targets \cup {None} :
       Start(o, "patch", "attribution", [row EXCEPT !.attribution = a])
  /\ UNCHANGED <<row, product, policy, approved>> /\ UNCHANGED fgaVars

(* repo.UpdateAttribution: WHERE lower(status) = 'submitted' *)
Patch(o) ==
  /\ At(o, "patch")
  /\ row # None /\ row.status = "submitted"
  /\ row' = [row EXCEPT !.attribution = op[o].row.attribution]
  /\ Goto(o, "publish")
  /\ UNCHANGED <<product, policy, approved>> /\ UNCHANGED fgaVars

(* The read after the commit, syncReimbursementPolicy and syncFGAAccess.   *)
(* The tuples are skipped when the owner's lookup fails.                   *)
SyncsPolicy(kind, r) == kind \in {"update", "approve"} /\ r.status = "published"

Publish(o) ==
  /\ At(o, "publish")
  /\ row # None
  /\ policy' = IF SyncsPolicy(op[o].kind, row) /\ policy = "absent"
                 THEN "requested" ELSE policy
  /\ UpdateAccess(Wanted(row)) \/ Lost
  /\ End(o)
  /\ UNCHANGED <<row, product, approved>>

(* The goroutine of syncReimbursementPolicy *)
SyncPolicy ==
  /\ policy = "requested"
  /\ policy' \in {"present", "absent"}
  /\ UNCHANGED <<row, product, op, approved>> /\ UNCHANGED fgaVars

-----------------------------------------------------------------------------
(* InitiativeService.Delete *)

LoadDelete(o) ==
  /\ row # None
  /\ Start(o, "remove", "delete", row)
  /\ UNCHANGED <<row, product, policy, approved>> /\ UNCHANGED fgaVars

Remove(o) ==
  /\ At(o, "remove")
  /\ row # None
  /\ row' = None
  /\ Goto(o, "withdraw")
  /\ UNCHANGED <<product, policy, approved>> /\ UNCHANGED fgaVars

Withdraw(o) ==
  /\ At(o, "withdraw")
  /\ DeleteAccess \/ Lost
  /\ End(o)
  /\ UNCHANGED <<row, product, policy, approved>>

-----------------------------------------------------------------------------
(* An error return, a row that is gone, or the end of the process. *)
Fail(o) ==
  /\ op[o] # Idle
  /\ End(o)
  /\ UNCHANGED <<row, product, policy, approved>> /\ UNCHANGED fgaVars

(* faulty: the job skips what is not public *)
Reconcile_PublicOnly ==
  /\ row # None /\ row.status = "published"
  /\ UpdateAccess(Wanted(row))
  /\ UNCHANGED <<row, product, policy, op, approved>>

(* The fga-reconcile job publishes the state of the row it listed. *)
Reconcile ==
  /\ row # None
  /\ UpdateAccess(Wanted(row))
  /\ UNCHANGED <<row, product, policy, op, approved>>

FgaStep(m) == Deliver(m) /\ UNCHANGED <<row, product, policy, op, approved>>

Next ==
  \/ \E o \in Ops :
       \/ CreateProduct(o) \/ Insert(o) \/ Rollback(o)
       \/ LoadUpdate(o) \/ LoadApproval(o) \/ CancelSubscriptions(o) \/ Write(o)
       \/ LoadAttribution(o) \/ Patch(o) \/ Publish(o)
       \/ LoadDelete(o) \/ Remove(o) \/ Withdraw(o) \/ Fail(o)
  \/ SyncPolicy \/ Reconcile
  \/ \E m \in Access \cup {None} : FgaStep(m)

Spec == Init /\ [][Next]_vars

(* The job runs again and again, and a message is finally delivered.       *)
LastDelivery(m) ==
  DeliverLast(m) /\ UNCHANGED <<row, product, policy, op, approved>>
FairSpec ==
  /\ Spec /\ WF_vars(Reconcile)
  /\ \A m \in Access \cup {None} : SF_vars(LastDelivery(m))

-----------------------------------------------------------------------------
(* Before an approver's approval is written nothing of the initiative is   *)
(* open to the public: it was never published or hidden, its tuples have   *)
(* no public viewer and no reimbursement policy was asked for.  Owners may *)
(* publish again what they hid, but no sequence or interleaving of edits,  *)
(* stale writes and late messages replaces the approval.                   *)
NothingPublicBeforeApproval ==
  ~approved =>
    /\ row # None => row.status \notin {"published", "hidden"}
    /\ access # None => ~access.public
    /\ policy = "absent"

(* A row that stays as it is ends up with the tuples it stands for,        *)
(* whatever messages of earlier states are lost, late or delivered twice:  *)
(* the reconcile job repairs every existing row.                           *)
AccessConverges ==
  \A a \in Access : <>[](Wanted(row) = a) => <>[](access = a)

(* A published initiative is never re-attributed. *)
PublishedNotReattributed ==
  [][(row # None /\ row' # None /\ row.status = "published")
       => row'.attribution = row.attribution]_vars

=============================================================================
