------------------------------- MODULE LedgerStats -------------------------------
(***************************************************************************)
(* The ledger-stats-sync job (cmd/ledger-stats-sync/syncer.go): it reads   *)
(* the active initiatives, then all balances of the Ledger in one call,    *)
(* and stores one row per initiative in a single batch                     *)
(* (infrastructure/db/ledger_stats_repository.go).                         *)
(*                                                                         *)
(* The Ledger (external) books some disbursements as credits with a        *)
(* negative amount, so the totals it reports are not what was donated and  *)
(* what was spent; mapBalance corrects them from the sponsor totals.       *)
(***************************************************************************)
EXTENDS Integers, FiniteSets, Functions

CONSTANTS
  Initiatives,
  Sponsors,     \* donors, and recipients of disbursements
  MaxPostings,  \* bound: postings to the Ledger, and failures of the job
  NoStats

ASSUME StatsAssumption == IsFiniteSet(Sponsors) /\ MaxPostings \in Nat

VARIABLES
  alive,    \* initiatives that exist and are neither archived nor draft
  ledger,   \* of each initiative, what was booked: see Books
  stats,    \* its row of initiative_ledger_stats, or NoStats
  batch,    \* the rows of the current run
  ids,      \* the initiatives the current run has read
  step,     \* where the current run is
  postings  \* postings and failures so far

statsVars == <<alive, ledger, stats, batch, ids, step, postings>>

(* other and taken: credits, positive and negative, nobody is named for.   *)
Books == [given : [Sponsors -> Nat], paid : [Sponsors -> Nat],
          spent : Nat, other : Nat, taken : Nat]
Rows1 == [raised : Nat, debited : Nat, supporters : Nat, of : Books]

StatsTypeOK ==
  /\ alive \subseteq Initiatives /\ ids \subseteq Initiatives
  /\ ledger \in [Initiatives -> Books]
  /\ stats \in [Initiatives -> Rows1 \cup {NoStats}]
  /\ batch \in [Initiatives -> Rows1 \cup {NoStats}]
  /\ step \in {"idle", "listed", "read"}
  /\ postings \in 0 .. MaxPostings

StatsInit ==
  /\ alive = Initiatives
  /\ ledger = [i \in Initiatives |-> [given |-> [s \in Sponsors |-> 0],
                                      paid  |-> [s \in Sponsors |-> 0],
                                      spent |-> 0, other |-> 0, taken |-> 0]]
  /\ stats = [i \in Initiatives |-> NoStats]
  /\ batch = [i \in Initiatives |-> NoStats]
  /\ ids = {} /\ step = "idle" /\ postings = 0

-----------------------------------------------------------------------------
(* Postings: a donation; a disbursement, booked as a negative credit of    *)
(* its recipient, as a debit, or as a negative credit nobody is named for; *)
(* a credit nobody is named for.                                           *)
Post(i) ==
  /\ postings < MaxPostings /\ postings' = postings + 1
  /\ \/ \E s \in Sponsors : ledger' = [ledger EXCEPT ![i].given[s] = @ + 2]
     \/ \E s \in Sponsors : ledger' = [ledger EXCEPT ![i].paid[s] = @ + 1]
     \/ ledger' = [ledger EXCEPT ![i].spent = @ + 1]
     \/ ledger' = [ledger EXCEPT ![i].other = @ + 1]
     \/ ledger' = [ledger EXCEPT ![i].taken = @ + 1]
  /\ UNCHANGED <<alive, stats, batch, ids, step>>

(* The foreign key of the stats row cascades. *)
DeleteInitiative(i) ==
  /\ i \in alive
  /\ alive' = alive \ {i}
  /\ stats' = [stats EXCEPT ![i] = NoStats]
  /\ UNCHANGED <<ledger, batch, ids, step, postings>>

-----------------------------------------------------------------------------
(* What the Ledger reports of its books (GetAllBalances): credits include  *)
(* the negative ones, debits are negative, a sponsor's total is the sum of *)
(* all credits under the sponsor's name.                                   *)
TotalCredit(b)     == SumFunction(b.given) - SumFunction(b.paid) + b.other - b.taken
TotalDebit(b)      == 0 - b.spent
SponsorTotal(b, s) == b.given[s] - b.paid[s]
Booked(b)          ==
  SumFunction(b.given) + SumFunction(b.paid) + b.spent + b.other + b.taken > 0

(* Mutant: the pollution stays. *)
NegSponsorAbs_None(b) == 0

(* mapBalance: the negative sponsor totals are added to both sides.        *)
NegSponsorAbs(b) ==
  LET part == [s \in Sponsors |-> IF SponsorTotal(b, s) < 0 THEN 0 - SponsorTotal(b, s) ELSE 0]
  IN  SumFunction(part)

TotalRaised(b)  == LET t == TotalCredit(b) + NegSponsorAbs(b) IN IF t < 0 THEN 0 ELSE t
(* Mutant: the sign of the debits stays. *)
TotalDebited_Signed(b) == TotalDebit(b) + NegSponsorAbs(b)
TotalDebited(b) == (0 - TotalDebit(b)) + NegSponsorAbs(b)

MapBalance(b) ==
  [raised     |-> TotalRaised(b),
   debited    |-> TotalDebited(b),
   supporters |-> Cardinality({s \in Sponsors : SponsorTotal(b, s) > 0}),
   of         |-> b]

(* Mutant: the first list is used for ever. *)
ListIDs_Once ==
  /\ step = "idle" /\ alive # {}
  /\ ids' = (IF ids = {} THEN alive ELSE ids) /\ step' = "listed"
  /\ UNCHANGED <<alive, ledger, stats, batch, postings>>

(* ListActiveSyncIDs; with nothing active the run ends. *)
ListIDs ==
  /\ step = "idle" /\ alive # {}
  /\ ids' = alive /\ step' = "listed"
  /\ UNCHANGED <<alive, ledger, stats, batch, postings>>

(* GetAllBalances and the lookups of names: initiatives the Ledger does    *)
(* not know are skipped, and a run without any row stores nothing.         *)
ReadBalances ==
  /\ step = "listed"
  /\ batch' = [i \in Initiatives |-> IF i \in ids /\ Booked(ledger[i])
                                     THEN MapBalance(ledger[i]) ELSE NoStats]
  /\ step' = "read"
  /\ UNCHANGED <<alive, ledger, stats, ids, postings>>

InBatch == {i \in Initiatives : batch[i] # NoStats}

(* BulkUpsertLedgerStats: the batch is one transaction. *)
BulkUpsert ==
  /\ step = "read" /\ InBatch \subseteq alive
  /\ stats' = [i \in Initiatives |-> IF i \in InBatch THEN batch[i] ELSE stats[i]]
  /\ step' = "idle"
  /\ UNCHANGED <<alive, ledger, batch, ids, postings>>

(* One initiative deleted meanwhile fails the whole batch. *)
BatchFails ==
  /\ step = "read" /\ ~(InBatch \subseteq alive)
  /\ step' = "idle"
  /\ UNCHANGED <<alive, ledger, stats, batch, ids, postings>>

(* A read or the batch fails, or the job is stopped. *)
RunFails ==
  /\ postings < MaxPostings /\ postings' = postings + 1
  /\ step # "idle" /\ step' = "idle"
  /\ UNCHANGED <<alive, ledger, stats, batch, ids>>

(* The scheduler keeps starting runs. *)
StatsJob == ListIDs \/ ReadBalances \/ BulkUpsert \/ BatchFails

StatsNext ==
  \/ \E i \in Initiatives : Post(i) \/ DeleteInitiative(i)
  \/ ListIDs \/ ReadBalances \/ BulkUpsert \/ BatchFails \/ RunFails

(* The job alone, with the Ledger it reads. *)
StatsSpec == StatsInit /\ [][StatsNext]_statsVars

-----------------------------------------------------------------------------
(* The stored totals claim no more than was given.  Raised less debited is *)
(* what the Ledger holds, except where more was taken in nobody's name     *)
(* than everything else makes up for: then nothing was raised, and the     *)
(* difference is too high by no more than what was taken so ("clamped",    *)
(* the test of a negative totalCredit without sponsors).                   *)
(*                                                                         *)
(* The disbursements booked as negative credits of a recipient are back    *)
(* where they belong ("their sum cancels the pollution and yields          *)
(* grossPositive", mapBalance) as long as no such recipient has also       *)
(* donated; what was taken in nobody's name stays subtracted.  Both are    *)
(* why the comment says "approximately".                                   *)
Given(b) == SumFunction(b.given) + b.other

Balanced(row) ==
  LET off == (row.raised - row.debited) - (TotalCredit(row.of) + TotalDebit(row.of)) IN
    \/ off = 0
    \/ row.raised = 0 /\ 0 < off /\ off <= row.of.taken

Honest(row) ==
  LET b == row.of IN
    /\ row.raised <= Given(b)
    /\ Balanced(row)
    /\ (\A s \in Sponsors : b.given[s] = 0 \/ b.paid[s] = 0) =>
         /\ row.raised = IF b.taken <= Given(b) THEN Given(b) - b.taken ELSE 0
         /\ row.debited = b.spent + SumFunction(b.paid)
         /\ row.supporters = Cardinality({s \in Sponsors : b.given[s] > 0})

StatsHonest == \A i \in Initiatives : stats[i] # NoStats => Honest(stats[i])

(* A batch lost to one deleted initiative is made up for by a later run:   *)
(* when the Ledger is quiet, the rows of all that remain catch up with it. *)
StatsCatchUp ==
  \A i \in Initiatives :
    []<>(i \in alive /\ Booked(ledger[i]) => stats[i] # NoStats /\ stats[i].of = ledger[i])

=============================================================================
