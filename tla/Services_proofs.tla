---------------------------- MODULE Services_proofs ----------------------------
(*****************************************************************************)
(* The smaller components side by side, as MCServices composes them: a step  *)
(* of the composition is a step of one component and a stutter of every      *)
(* other, so it implements each of them and keeps what each was proved to    *)
(* keep.                                                                     *)
(*****************************************************************************)
EXTENDS MCServices, Reimbursement_proofs, People_proofs, Jobs_proofs, Reading_proofs

AllSteps ==
  /\ [TokenNext]_tokenVars
  /\ [PolicyNext]_policyVars
  /\ [ExpenseNext]_expenseVars
  /\ [AccountNext]_accountVars
  /\ [SyncNext]_syncVars
  /\ [StatsNext]_statsVars
  /\ [B2BNext]_b2bVars
  /\ [PagesNext]_pagesVars
  /\ [VisNext]_visVars
  /\ [NoticeNext]_noticeVars

(* Whichever component moves, every one makes one of its own steps or none. *)
LEMMA StepOfAll == [Next]_vars => AllSteps
<1> SUFFICES ASSUME [Next]_vars PROVE AllSteps OBVIOUS
<1>1. CASE Only("token") /\ TokenNext BY <1>1 DEF Only, AllSteps
<1>2. CASE Only("policy") /\ PolicyNext BY <1>2 DEF Only, AllSteps
<1>3. CASE Only("expense") /\ ExpenseNext BY <1>3 DEF Only, AllSteps
<1>4. CASE Only("account") /\ AccountNext BY <1>4 DEF Only, AllSteps
<1>5. CASE Only("sync") /\ SyncNext BY <1>5 DEF Only, AllSteps
<1>6. CASE Only("stats") /\ StatsNext BY <1>6 DEF Only, AllSteps
<1>7. CASE Only("b2b") /\ B2BNext BY <1>7 DEF Only, AllSteps
<1>8. CASE Only("pages") /\ PagesNext BY <1>8 DEF Only, AllSteps
<1>9. CASE Only("visibility") /\ VisNext BY <1>9 DEF Only, AllSteps
<1>10. CASE Only("notices") /\ NoticeNext BY <1>10 DEF Only, AllSteps
<1>11. CASE UNCHANGED vars BY <1>11 DEF vars, AllSteps
<1> QED BY <1>1, <1>2, <1>3, <1>4, <1>5, <1>6, <1>7, <1>8, <1>9, <1>10, <1>11 DEF Next

PartTyped == part \in Parts

LEMMA PartKept == PartTyped /\ [Next]_vars => PartTyped'
BY DEF Next, Only, vars, PartTyped

(* The composition implements every component: nothing a component does     *)
(* depends on the others resting.                                           *)
THEOREM ServicesImplement ==
  Spec => /\ TokenSpec /\ PolicySpec /\ ExpenseSpec /\ AccountSpec /\ SyncSpec
          /\ StatsSpec /\ B2BSpec /\ PagesSpec /\ VisSpec /\ NoticeSpec
<1>1. Init => /\ TokenInit /\ PolicyInit /\ ExpenseInit /\ AccountInit /\ SyncInit
              /\ StatsInit /\ B2BInit /\ PagesInit /\ VisInit /\ NoticeInit
  BY DEF Init
<1>2. [Next]_vars => [TokenNext]_tokenVars BY StepOfAll DEF AllSteps
<1>3. [Next]_vars => [PolicyNext]_policyVars BY StepOfAll DEF AllSteps
<1>4. [Next]_vars => [ExpenseNext]_expenseVars BY StepOfAll DEF AllSteps
<1>5. [Next]_vars => [AccountNext]_accountVars BY StepOfAll DEF AllSteps
<1>6. [Next]_vars => [SyncNext]_syncVars BY StepOfAll DEF AllSteps
<1>7. [Next]_vars => [StatsNext]_statsVars BY StepOfAll DEF AllSteps
<1>8. [Next]_vars => [B2BNext]_b2bVars BY StepOfAll DEF AllSteps
<1>9. [Next]_vars => [PagesNext]_pagesVars BY StepOfAll DEF AllSteps
<1>10. [Next]_vars => [VisNext]_visVars BY StepOfAll DEF AllSteps
<1>11. [Next]_vars => [NoticeNext]_noticeVars BY StepOfAll DEF AllSteps
<1> QED BY <1>1, <1>2, <1>3, <1>4, <1>5, <1>6, <1>7, <1>8, <1>9, <1>10, <1>11, PTL
  DEF Spec, TokenSpec, PolicySpec, ExpenseSpec, AccountSpec, SyncSpec, StatsSpec, B2BSpec, PagesSpec, VisSpec, NoticeSpec

(* ServicesTypeOK: every component keeps its types, whichever of them runs. *)
THEOREM ServicesTyped == Spec => []ServicesTypeOK
<1>1. Init => PartTyped BY DEF Init, PartTyped
<1>2. Spec => []PartTyped BY <1>1, PartKept, PTL DEF Spec
<1>3. (/\ PartTyped /\ TokenTypeOK /\ PolicyTypeOK /\ ExpenseTypeOK /\ AccountTypeOK
       /\ SyncTypeOK /\ StatsTypeOK /\ B2BTypeOK /\ PagesTypeOK /\ VisTypeOK /\ NoticeTypeOK)
      => ServicesTypeOK
  BY DEF ServicesTypeOK, PartTyped
<1> QED BY <1>2, <1>3, ServicesImplement, TokenTyped, PolicyTyped, ExpenseTyped, AccountTyped, SyncTyped, StatsTyped, B2BTyped, PagesTyped, VisTyped, NoticeTyped, PTL

(* Every safety and action property of the components, as the runs check    *)
(* them: also where any component may be the one that moves.                *)
THEOREM ServicesKeepAll ==
  Spec => /\ [](/\ SentUnexpired /\ DoneSyncStays /\ ActedByApprover /\ CardOfCustomer
                /\ SlugsUnique /\ StatsHonest /\ RowBehindStripe /\ PagesComplete
                /\ HiddenSoonGone /\ ManageToldTruth /\ NoticeOfManaged)
          /\ TokenKeptWhileGood /\ AccountKept /\ SyncPreserves
<1>1. Spec => [](SentUnexpired /\ DoneSyncStays /\ ActedByApprover /\ CardOfCustomer)
  BY ServicesImplement, RequestsSentUnexpired, DoneSyncKept, ActionsOfApprovers,
     SavedCardOfCustomer, PTL
<1>2. Spec => [](SlugsUnique /\ StatsHonest /\ RowBehindStripe /\ PagesComplete)
  BY ServicesImplement, FallbackNeverCollides, StoredTotalsHonest, StripeFirst,
     WalksAreComplete, PTL
<1>3. Spec => [](HiddenSoonGone /\ ManageToldTruth /\ NoticeOfManaged)
  BY ServicesImplement, WithdrawnIsSoonGone, ManagersToldTruth, WrittenByManagers, PTL
<1>4. Spec => TokenKeptWhileGood /\ AccountKept /\ SyncPreserves
  BY ServicesImplement, GoodTokenKept, RowKeepsWhatItHad, SyncKeepsRows, PTL
<1> QED BY <1>1, <1>2, <1>3, <1>4, PTL
================================================================================
