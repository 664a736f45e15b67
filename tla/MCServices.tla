------------------------------ MODULE MCServices ------------------------------
(***************************************************************************)
(* Small instances of the smaller components.  They share no variable, so  *)
(* a behaviour is one of one component, chosen at the start, while the     *)
(* others rest in their initial states.                                    *)
(***************************************************************************)
EXTENDS GatewayToken, PolicySync, ExpenseActions, Accounts, Mentorship, LedgerStats,
        B2BOrg, LedgerPages, Visibility, Announcements

(* Everybody created an initiative of their own. *)
MCCreatorOf == CHOOSE f \in [Drives -> Editors] : \A u \in Editors : \E d \in Drives : f[d] = u

VARIABLE part

vars == <<part, tokenVars, policyVars, expenseVars, accountVars, syncVars, statsVars, b2bVars, pagesVars, visVars, noticeVars>>

Parts == {"token", "policy", "expense", "account", "sync", "stats", "b2b", "pages", "visibility", "notices"}

Init ==
  /\ part \in Parts
  /\ TokenInit /\ PolicyInit /\ ExpenseInit /\ AccountInit /\ SyncInit
  /\ StatsInit /\ B2BInit /\ PagesInit /\ VisInit /\ NoticeInit

(* The other components do not move. *)
Only(p) ==
  /\ part = p /\ UNCHANGED part
  /\ p # "token" => UNCHANGED tokenVars
  /\ p # "policy" => UNCHANGED policyVars
  /\ p # "expense" => UNCHANGED expenseVars
  /\ p # "account" => UNCHANGED accountVars
  /\ p # "sync" => UNCHANGED syncVars
  /\ p # "stats" => UNCHANGED statsVars
  /\ p # "b2b" => UNCHANGED b2bVars
  /\ p # "pages" => UNCHANGED pagesVars
  /\ p # "visibility" => UNCHANGED visVars
  /\ p # "notices" => UNCHANGED noticeVars

Next ==
  \/ Only("token") /\ TokenNext
  \/ Only("policy") /\ PolicyNext
  \/ Only("expense") /\ ExpenseNext
  \/ Only("account") /\ AccountNext
  \/ Only("sync") /\ SyncNext
  \/ Only("stats") /\ StatsNext
  \/ Only("b2b") /\ B2BNext
  \/ Only("pages") /\ PagesNext
  \/ Only("visibility") /\ VisNext
  \/ Only("notices") /\ NoticeNext

(* The jobs are scheduled again and again. *)
Fairness ==
  /\ WF_vars(Only("sync") /\ SyncJob)
  /\ WF_vars(Only("stats") /\ StatsJob)
  /\ WF_vars(Only("b2b") /\ BackfillJob)

Spec == Init /\ [][Next]_vars /\ Fairness

-----------------------------------------------------------------------------
(* Every component keeps its types. *)
ServicesTypeOK ==
  /\ part \in Parts
  /\ TokenTypeOK /\ PolicyTypeOK /\ ExpenseTypeOK /\ AccountTypeOK
  /\ SyncTypeOK /\ StatsTypeOK /\ B2BTypeOK /\ PagesTypeOK
  /\ VisTypeOK /\ NoticeTypeOK

(* ProgramArrives, where the mentorship job is the one that runs. *)
ProgramsArrive == part = "sync" => ProgramArrives

===============================================================================
