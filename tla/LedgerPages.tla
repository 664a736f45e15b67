------------------------------ MODULE LedgerPages ------------------------------
(***************************************************************************)
(* Walking through the transactions of an initiative, or of one donor,     *)
(* page by page: the Ledger's pages (infrastructure/clients/ledger.go,     *)
(* GetTransactions), what the service drops from them and the total it     *)
(* answers (service/initiative_service.go, GetTransactions,                *)
(* GetMyTransactions, GetAllMyTransactions, clampFilteredTotalCount), and  *)
(* a client that asks for the next page while its offset is below that     *)
(* total, as the tests and the frontend's infinite query do.               *)
(*                                                                         *)
(* The Ledger (external) lists newest first and books on while the walk    *)
(* goes on.  Some disbursements are credits with a negative amount.        *)
(***************************************************************************)
EXTENDS Integers, Sequences, FiniteSets, FiniteSetsExt

CONSTANTS
  Donors,    \* Ledger user ids
  Limit,     \* page size
  MaxRows,   \* bound: rows booked
  Everyone   \* no userID filter

ASSUME PagesAssumption == Limit \in Nat \ {0} /\ MaxRows \in Nat /\ Everyone \notin Donors

VARIABLES
  booked,  \* the Ledger's credit rows, oldest first: [donor, gift]
  walk     \* the walk: see Walks

pagesVars == <<booked, walk>>

Rows    == [donor : Donors, gift : BOOLEAN]
RowNums == 1 .. MaxRows

(* who and gifts: the filter of userID and of type=donations; honoured:    *)
(* does the Ledger apply userID?; from: rows booked when the walk began;   *)
(* shown: the rows answered; cut: was there a page that the service both   *)
(* kept and dropped rows of, with more pages behind it?                    *)
Walks == [at : {"idle", "asking", "over", "refused"}, who : Donors \cup {Everyone},
          gifts : BOOLEAN, honoured : BOOLEAN, from : 0 .. MaxRows, offset : Nat,
          shown : SUBSET RowNums, twice : BOOLEAN, cut : BOOLEAN]

PagesTypeOK == booked \in Seq(Rows) /\ Len(booked) <= MaxRows /\ walk \in Walks

PagesInit ==
  /\ booked = <<>>
  /\ walk = [at |-> "idle", who |-> Everyone, gifts |-> TRUE, honoured |-> TRUE, from |-> 0,
             offset |-> 0, shown |-> {}, twice |-> FALSE, cut |-> FALSE]

-----------------------------------------------------------------------------
Book(r) ==
  /\ Len(booked) < MaxRows
  /\ booked' = Append(booked, r)
  /\ UNCHANGED walk

StartWalk(who, gifts, honoured) ==
  /\ walk.at = "idle"
  /\ walk' = [walk EXCEPT !.at = "asking", !.who = who, !.gifts = gifts,
                          !.honoured = honoured, !.from = Len(booked)]
  /\ UNCHANGED booked

(* The rows the Ledger lists for the walk, the newest first, and its page  *)
(* offset / limit + 1: offsets are multiples of the limit.                 *)
Wanted(k) == walk.who = Everyone \/ booked[k].donor = walk.who
Listed    == {k \in DOMAIN booked : walk.honoured => Wanted(k)}
Rank(k)   == Cardinality({j \in Listed : j > k})
Page      == {k \in Listed : Rank(k) \div Limit = walk.offset \div Limit}

(* Negative credits are no donations. *)
KeptRows == {k \in Page : walk.gifts => booked[k].gift}

(* Mutant: a page that keeps nothing ends at its own offset. *)
Clamp_Kept(total, dropped, offset, kept, more) == Max({total - dropped, offset + kept})

(* clampFilteredTotalCount *)
Clamp(total, dropped, offset, kept, more) ==
  Max({total - dropped, IF more /\ kept = 0 THEN offset + Limit + 1 ELSE offset + kept})

HasMore == Cardinality(Listed) > walk.offset + Cardinality(Page)
TotalCount ==
  IF walk.gifts
  THEN Clamp(Cardinality(Listed), Cardinality(Page) - Cardinality(KeptRows),
             walk.offset, Cardinality(KeptRows), HasMore)
  ELSE Cardinality(Listed)

(* A row of somebody else shows that the Ledger ignored the filter: 503. *)
Foreign == \E k \in Page : ~Wanted(k)
RefuseForeign ==
  /\ walk.at = "asking" /\ Foreign
  /\ walk' = [walk EXCEPT !.at = "refused"]
  /\ UNCHANGED booked

NextPage ==
  /\ walk.at = "asking" /\ ~Foreign
  /\ walk' = [walk EXCEPT
       !.shown  = @ \cup KeptRows,
       !.twice  = @ \/ KeptRows \cap walk.shown # {},
       !.cut    = @ \/ (HasMore /\ KeptRows \notin {{}, Page}),
       !.offset = @ + Limit,
       !.at     = IF walk.offset + Limit < TotalCount THEN "asking" ELSE "over"]
  /\ UNCHANGED booked

PagesNext ==
  \/ \E r \in Rows : Book(r)
  \/ \E who \in Donors \cup {Everyone}, gifts, honoured \in BOOLEAN : StartWalk(who, gifts, honoured)
  \/ RefuseForeign \/ NextPage

PagesSpec == PagesInit /\ [][PagesNext]_pagesVars

-----------------------------------------------------------------------------
(* A walk shows nobody else's rows, and none twice unless rows were booked *)
(* meanwhile.  Of the rows that were there when it began it has shown      *)
(* every one that its offset has passed.  When it ends, also across pages  *)
(* of which the service kept nothing, those are all of them, except where  *)
(* the service kept some rows of a page and dropped others: that lowers    *)
(* the total by those it dropped, which may end the walk with pages left.  *)
LookedFor(k) == Wanted(k) /\ (walk.gifts => booked[k].gift)

PagesComplete ==
  /\ \A k \in walk.shown : Wanted(k)
  /\ walk.at \in {"asking", "over"} => \A k \in 1 .. walk.from :
       LookedFor(k) /\ Rank(k) < walk.offset => k \in walk.shown
  /\ walk.at = "over" =>
       /\ ~walk.cut => \A k \in 1 .. walk.from : LookedFor(k) => k \in walk.shown
       /\ Len(booked) = walk.from => ~walk.twice

=============================================================================
