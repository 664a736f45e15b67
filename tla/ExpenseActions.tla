----------------------------- MODULE ExpenseActions -----------------------------
(***************************************************************************)
(* Approving and rejecting expense reports through the proxy               *)
(* (handler/expense_handler.go, ProcessAction, with the approver list and  *)
(* the action of infrastructure/clients/reimbursement_client.go).  The     *)
(* caller's email is read from the user's row; the Reimbursement Service   *)
(* says who may act on a report, and may change or drop a report between   *)
(* the two calls.                                                          *)
(***************************************************************************)
EXTENDS FiniteSets

CONSTANTS
  Users,     \* people who have a row with an email
  Strangers, \* authenticated callers without a row, or without an email
  Reports,   \* report ids somebody asks for
  Anonymous  \* no principal in the request

ASSUME ExpenseAssumption ==
  /\ Users \cap Strangers = {}
  /\ Anonymous \notin Users \cup Strangers

VARIABLES
  filed,     \* the reports that exist
  approvers, \* of each report: the people it was mailed to
  asked,     \* the request being served: [who, report, at], or Ready
  wasOne,    \* <<person, report>>: the person was an approver at some time
  acted,     \* <<person, report>>: actions carried out
  answer     \* the answer given last: [who, report, code], or Silence

expenseVars == <<filed, approvers, asked, wasOne, acted, answer>>

AllCallers == Users \cup Strangers \cup {Anonymous}
Ready      == [who |-> Anonymous, report |-> "none", at |-> "ready"]
Silence    == [who |-> Anonymous, report |-> "none", code |-> 401]
Codes      == {204, 400, 401, 403, 404, 500, 503}

ExpenseTypeOK ==
  /\ filed \subseteq Reports
  /\ approvers \in [Reports -> SUBSET Users]
  /\ asked = Ready \/ asked \in [who : Users, report : Reports, at : {"listing", "acting"}]
  /\ wasOne \subseteq Users \X Reports
  /\ acted \subseteq Users \X Reports
  /\ answer = Silence \/ answer \in [who : AllCallers, report : Reports, code : Codes]

ExpenseInit ==
  /\ filed = {}
  /\ approvers = [r \in Reports |-> {}]
  /\ asked = Ready
  /\ wasOne = {} /\ acted = {} /\ answer = Silence

-----------------------------------------------------------------------------
(* The Reimbursement Service files or reassigns a report, or deletes it. *)
SetReport(r, who) ==
  /\ filed' = filed \cup {r}
  /\ approvers' = [approvers EXCEPT ![r] = who]
  /\ wasOne' = wasOne \cup (who \X {r})
  /\ UNCHANGED <<asked, acted, answer>>

DropReport(r) ==
  /\ r \in filed
  /\ filed' = filed \ {r}
  /\ UNCHANGED <<approvers, asked, wasOne, acted, answer>>

Answer(u, r, code) ==
  /\ answer' = [who |-> u, report |-> r, code |-> code]
  /\ asked' = Ready

(* What can be refused before the report is looked at: an unknown action,  *)
(* no principal, no email; the user's row may also be unreadable (500).    *)
Refusals(u) == {400} \cup (CASE u = Anonymous     -> {401}
                             [] u \in Strangers   -> {403, 500}
                             [] OTHER             -> {500})

Refuse(u, r) ==
  /\ asked = Ready
  /\ \E code \in Refusals(u) : Answer(u, r, code)
  /\ UNCHANGED <<filed, approvers, wasOne, acted>>

Admit(u, r) ==
  /\ asked = Ready
  /\ asked' = [who |-> u, report |-> r, at |-> "listing"]
  /\ UNCHANGED <<filed, approvers, wasOne, acted, answer>>

(* Mutant: the list is fetched and not compared. *)
ListApprovers_Unread ==
  /\ asked.at = "listing"
  /\ asked' = [asked EXCEPT !.at = "acting"]
  /\ UNCHANGED <<filed, approvers, wasOne, acted, answer>>

(* GetExpenseApprovers; the list is compared without regard to case. *)
ListApprovers ==
  /\ asked.at = "listing"
  /\ LET u == asked.who  r == asked.report IN
       IF r \in filed /\ u \in approvers[r]
       THEN asked' = [asked EXCEPT !.at = "acting"] /\ UNCHANGED answer
       ELSE Answer(u, r, 404)
  /\ UNCHANGED <<filed, approvers, wasOne, acted>>

(* ProcessExpenseAction: 404 of the service stays 404. *)
Act ==
  /\ asked.at = "acting"
  /\ LET u == asked.who  r == asked.report IN
       IF r \in filed
       THEN Answer(u, r, 204) /\ acted' = acted \cup {<<u, r>>}
       ELSE Answer(u, r, 404) /\ UNCHANGED acted
  /\ UNCHANGED <<filed, approvers, wasOne>>

(* Any other error of the service, or of the token, is 503; an action      *)
(* whose answer is lost may have been carried out.                         *)
Unavailable ==
  /\ asked.at \in {"listing", "acting"}
  /\ Answer(asked.who, asked.report, 503)
  /\ \/ UNCHANGED acted
     \/ /\ asked.at = "acting" /\ asked.report \in filed
        /\ acted' = acted \cup {<<asked.who, asked.report>>}
  /\ UNCHANGED <<filed, approvers, wasOne>>

ExpenseNext ==
  \/ \E r \in Reports : DropReport(r) \/ \E who \in SUBSET Users : SetReport(r, who)
  \/ \E u \in AllCallers, r \in Reports : Refuse(u, r)
  \/ \E u \in Users, r \in Reports : Admit(u, r)
  \/ ListApprovers \/ Act \/ Unavailable

ExpenseSpec == ExpenseInit /\ [][ExpenseNext]_expenseVars

-----------------------------------------------------------------------------
(* An action is carried out only for somebody the report was mailed to,    *)
(* although the list is read and the action sent in two calls.             *)
ActedByApprover == acted \subseteq wasOne

=============================================================================
