----------------------------- MODULE Jobs_proofs -----------------------------
(*****************************************************************************)
(* The background jobs: "Stripe first" of the b2b_org backfill and the       *)
(* requests beside it, the mentorship sync and the ledger statistics, for    *)
(* any data they run over.                                                   *)
(*****************************************************************************)
EXTENDS B2BOrg, Mentorship, LedgerStats, FiniteSetTheorems, WellFoundedInduction,
        TLAPS

Tagged(s) == stripe[s].sub # NoSFID /\ stripe[s].item # NoSFID

(* The goroutine of a request has tagged what lies behind its step. *)
LookupBehind == \A r \in Subs \cup Dons :
  /\ lookup[r].at \in {"sub", "item", "store"} => lookup[r].sfid # NoSFID
  /\ r \in Subs /\ lookup[r].at = "item" => stripe[r].sub # NoSFID
  /\ r \in Subs /\ lookup[r].at = "store" => Tagged(r)

(* So has the backfill, or Stripe has ended the subscription. *)
BackfillBehind ==
  /\ backfill.at # "idle" => backfill.sfid # NoSFID
  /\ backfill.at \in {"item", "sub", "store"} => backfill.sub \in Subs
  /\ backfill.at = "sub" => stripe[backfill.sub].item # NoSFID
  /\ backfill.at = "store" /\ stripe[backfill.sub].live => Tagged(backfill.sub)

(* The row hears of the end after Stripe. *)
ClosedIsOver == \A s \in Subs : stripe[s].closed => ~stripe[s].live

B2BInv == B2BTypeOK /\ LookupBehind /\ BackfillBehind /\ ClosedIsOver /\ RowBehindStripe

Stripes == [live : BOOLEAN, closed : BOOLEAN, sub : Maybe, item : Maybe]
Lookups == [at : {"unsaved", "ask", "sub", "item", "store", "over"}, sfid : Maybe]
Backfills == [at : {"idle", "donations", "next", "item", "sub", "store"},
              sfid : Maybe, sub : Subs \cup {NoSFID}, todo : SUBSET Subs]

(* Stripe's objects only gain tags and never come back to life. *)
Grows == \A s \in Subs :
  /\ stripe[s].sub # NoSFID => stripe'[s].sub # NoSFID
  /\ stripe[s].item # NoSFID => stripe'[s].item # NoSFID
  /\ stripe'[s].live => stripe[s].live

LEMMA FillTyped ==
  ASSUME B2BTypeOK, NEW S, NEW m \in Maybe, Fill(S, m)
  PROVE  /\ row' \in [Subs \cup Dons -> Maybe]
         /\ \A r \in Subs \cup Dons : row'[r] = row[r] \/ r \in S
BY DEF Fill, B2BTypeOK

LEMMA LookupTyped ==
  ASSUME B2BTypeOK, NEW r \in Subs \cup Dons, NEW place, NEW m \in Maybe,
         place \in {"unsaved", "ask", "sub", "item", "store", "over"}, LookupAt(r, place, m)
  PROVE  /\ lookup' \in [Subs \cup Dons -> Lookups]
         /\ lookup'[r].at = place /\ lookup'[r].sfid = m
         /\ \A q \in (Subs \cup Dons) \ {r} : lookup'[q] = lookup[q]
<1>1. [at |-> place, sfid |-> m] \in Lookups BY DEF Lookups
<1> QED BY <1>1 DEF LookupAt, B2BTypeOK, Lookups

LEMMA BackfillTyped ==
  ASSUME B2BTypeOK, NEW place, NEW s \in Subs \cup {NoSFID}, NEW rest \in SUBSET Subs,
         place \in {"idle", "donations", "next", "item", "sub", "store"},
         BackfillAt(place, s, rest)
  PROVE  /\ backfill' \in Backfills
         /\ backfill'.at = place /\ backfill'.sub = s /\ backfill'.sfid = backfill.sfid
BY DEF BackfillAt, B2BTypeOK, Backfills

LEMMA NoRunTyped == NoRun \in Backfills /\ NoRun.at = "idle"
BY DEF NoRun, Backfills, Maybe

LEMMA B2BInvInit == B2BInit => B2BInv
<1> SUFFICES ASSUME B2BInit PROVE B2BInv
  OBVIOUS
<1>1. backfill \in Backfills /\ backfill.at = "idle" BY NoRunTyped DEF B2BInit
<1>2. B2BTypeOK BY <1>1, B2BAssumption DEF B2BInit, B2BTypeOK, Maybe, Backfills
<1>3. LookupBehind /\ ClosedIsOver /\ RowBehindStripe
  BY DEF B2BInit, LookupBehind, ClosedIsOver, RowBehindStripe
<1>4. BackfillBehind BY <1>1 DEF BackfillBehind
<1> QED BY <1>2, <1>3, <1>4 DEF B2BInv

(* What a step of one actor need not look at: the other's obligations and  *)
(* the rows stay met as long as Stripe only gains tags.                    *)
LEMMA Unmoved ==
  ASSUME B2BInv, Grows
  PROVE  /\ lookup' = lookup => LookupBehind'
         /\ backfill' = backfill => BackfillBehind'
         /\ row' = row => RowBehindStripe'
<1>1. ASSUME lookup' = lookup PROVE LookupBehind'
  BY <1>1 DEF B2BInv, LookupBehind, Grows, Tagged
<1>2. ASSUME backfill' = backfill PROVE BackfillBehind'
  BY <1>2 DEF B2BInv, BackfillBehind, Grows, Tagged
<1>3. ASSUME row' = row PROVE RowBehindStripe'
  BY <1>3 DEF B2BInv, RowBehindStripe, Grows
<1> QED BY <1>1, <1>2, <1>3

LEMMA Same == stripe' = stripe => Grows
BY DEF Grows

(* A goroutine moves to a step with nothing of Stripe behind it. *)
LEMMA LookupStep ==
  ASSUME B2BInv, NEW r \in Subs \cup Dons, NEW place, NEW m \in Maybe, LookupAt(r, place, m),
         place \in {"ask", "sub", "over"} \/ (place = "store" /\ r \notin Subs),
         place \in {"sub", "store"} => m # NoSFID,
         UNCHANGED <<match, row, stripe, backfill, stops>>
  PROVE  B2BInv'
<1>1. /\ lookup' \in [Subs \cup Dons -> Lookups]
      /\ lookup'[r].at = place /\ lookup'[r].sfid = m
      /\ \A q \in (Subs \cup Dons) \ {r} : lookup'[q] = lookup[q]
  BY LookupTyped DEF B2BInv
<1>2. LookupBehind' BY <1>1 DEF B2BInv, LookupBehind, Tagged
<1>3. B2BTypeOK' BY <1>1 DEF B2BInv, B2BTypeOK, Lookups
<1>4. BackfillBehind' /\ RowBehindStripe' BY Same, Unmoved
<1> QED BY <1>2, <1>3, <1>4 DEF B2BInv, ClosedIsOver

(* One object of a live subscription is tagged. *)
LEMMA TagTyped ==
  ASSUME B2BInv, NEW s \in Subs, NEW m \in SFIDs,
         \/ stripe' = [stripe EXCEPT ![s].sub = m]
         \/ stripe' = [stripe EXCEPT ![s].item = m]
  PROVE  /\ stripe' \in [Subs -> Stripes]
         /\ Grows /\ ClosedIsOver'
         /\ stripe'[s].sub = m \/ stripe'[s].item = m
         /\ stripe'[s].sub \in {stripe[s].sub, m} /\ stripe'[s].item \in {stripe[s].item, m}
<1>1. m \in Maybe /\ m # NoSFID BY B2BAssumption DEF Maybe
<1>2. stripe \in [Subs -> Stripes] BY DEF B2BInv, B2BTypeOK, Stripes
<1>3. /\ stripe' \in [Subs -> Stripes]
      /\ \A q \in Subs \ {s} : stripe'[q] = stripe[q]
      /\ stripe'[s] = [stripe[s] EXCEPT !.sub = m] \/ stripe'[s] = [stripe[s] EXCEPT !.item = m]
  <2>1. stripe[s] \in Stripes BY <1>2
  <2>2. [stripe[s] EXCEPT !.sub = m] \in Stripes /\ [stripe[s] EXCEPT !.item = m] \in Stripes
    BY <1>1, <2>1 DEF Stripes
  <2> QED BY <1>2, <2>2
<1>4. /\ stripe'[s].live = stripe[s].live /\ stripe'[s].closed = stripe[s].closed
      /\ stripe'[s].sub \in {stripe[s].sub, m} /\ stripe'[s].item \in {stripe[s].item, m}
      /\ stripe'[s].sub = m \/ stripe'[s].item = m
  BY <1>2, <1>3 DEF Stripes
<1>5. Grows BY <1>1, <1>3, <1>4 DEF Grows
<1>6. ClosedIsOver' BY <1>3, <1>4 DEF B2BInv, ClosedIsOver
<1> QED BY <1>3, <1>4, <1>5, <1>6

LEMMA B2BInvNext == B2BInv /\ [B2BNext]_b2bVars => B2BInv'
<1> SUFFICES ASSUME B2BInv, [B2BNext]_b2bVars PROVE B2BInv'
  OBVIOUS
<1>0. /\ B2BTypeOK /\ match \in Maybe /\ NoSFID \in Maybe
      /\ stripe \in [Subs -> Stripes] /\ lookup \in [Subs \cup Dons -> Lookups]
      /\ backfill \in Backfills /\ row \in [Subs \cup Dons -> Maybe]
      /\ Maybe \ {NoSFID} = SFIDs
  BY B2BAssumption DEF B2BInv, B2BTypeOK, Stripes, Lookups, Backfills, Maybe
<1>1. ASSUME NEW m \in Maybe, Rematch(m) PROVE B2BInv'
  BY <1>1 DEF Rematch, B2BInv, B2BTypeOK, LookupBehind, BackfillBehind, ClosedIsOver,
     RowBehindStripe, Tagged
<1>2. ASSUME NEW s \in Subs, EndSub(s) \/ CloseRow(s) PROVE B2BInv'
  <2>1. UNCHANGED <<match, row, lookup, backfill, stops>> BY <1>2 DEF EndSub, CloseRow
  <2>2. /\ stripe' \in [Subs -> Stripes]
        /\ \A q \in Subs \ {s} : stripe'[q] = stripe[q]
        /\ stripe'[s].sub = stripe[s].sub /\ stripe'[s].item = stripe[s].item
        /\ stripe'[s].live => stripe[s].live
        /\ stripe'[s].closed => ~stripe'[s].live
    <3>1. CASE EndSub(s)
      <4>1. stripe' = [stripe EXCEPT ![s].live = FALSE] BY <3>1 DEF EndSub
      <4>2. stripe'[s] = [stripe[s] EXCEPT !.live = FALSE] BY <1>0, <4>1
      <4>3. [stripe[s] EXCEPT !.live = FALSE] \in Stripes BY <1>0 DEF Stripes
      <4>4. stripe'[s].live = FALSE /\ stripe'[s].sub = stripe[s].sub /\ stripe'[s].item = stripe[s].item
        BY <1>0, <4>2 DEF Stripes
      <4> QED BY <1>0, <4>1, <4>2, <4>3, <4>4
    <3>2. CASE CloseRow(s)
      <4>1. stripe' = [stripe EXCEPT ![s].closed = TRUE] /\ ~stripe[s].live BY <3>2 DEF CloseRow
      <4>2. stripe'[s] = [stripe[s] EXCEPT !.closed = TRUE] BY <1>0, <4>1
      <4>3. [stripe[s] EXCEPT !.closed = TRUE] \in Stripes BY <1>0 DEF Stripes
      <4>4. stripe'[s].live = stripe[s].live /\ stripe'[s].sub = stripe[s].sub /\ stripe'[s].item = stripe[s].item
        BY <1>0, <4>2 DEF Stripes
      <4> QED BY <1>0, <4>1, <4>2, <4>3, <4>4
    <3> QED BY <1>2, <3>1, <3>2
  <2>3. Grows BY <2>2 DEF Grows
  <2>4. ClosedIsOver' BY <2>2 DEF B2BInv, ClosedIsOver
  <2>5. B2BTypeOK' BY <1>0, <2>1, <2>2 DEF B2BTypeOK, Stripes
  <2> QED BY <2>1, <2>3, <2>4, <2>5, Unmoved DEF B2BInv
<1>3. ASSUME NEW r \in Subs \cup Dons, SaveRow(r) \/ LookupFails(r) PROVE B2BInv'
  <2>1. PICK place \in {"ask", "over"} : LookupAt(r, place, NoSFID)
    BY <1>3 DEF SaveRow, LookupFails
  <2>2. UNCHANGED <<match, row, stripe, backfill, stops>> BY <1>3 DEF SaveRow, LookupFails
  <2> QED BY <1>0, <2>1, <2>2, LookupStep
<1>4. ASSUME NEW r \in Subs \cup Dons, AskMember(r) PROVE B2BInv'
  <2>1. UNCHANGED <<match, row, stripe, backfill, stops>> BY <1>4 DEF AskMember
  <2>2. CASE match = NoSFID
    <3>1. LookupAt(r, "over", NoSFID) BY <1>4, <2>2 DEF AskMember
    <3> QED BY <1>0, <2>1, <3>1, LookupStep
  <2>3. CASE match # NoSFID
    <3>1. LookupAt(r, IF r \in Subs THEN "sub" ELSE "store", match) BY <1>4, <2>3 DEF AskMember
    <3> QED BY <1>0, <2>1, <2>3, <3>1, LookupStep
  <2> QED BY <2>2, <2>3
<1>5. ASSUME NEW s \in Subs, TagSub(s) \/ TagItem(s) PROVE B2BInv'
  <2> DEFINE m == lookup[s].sfid
  <2>1. /\ UNCHANGED <<match, row, backfill, stops>>
        /\ lookup[s].at \in {"sub", "item"}
        /\ \/ /\ lookup[s].at = "sub" /\ stripe' = [stripe EXCEPT ![s].sub = m]
              /\ LookupAt(s, "item", m)
           \/ /\ lookup[s].at = "item" /\ stripe' = [stripe EXCEPT ![s].item = m]
              /\ LookupAt(s, "store", m)
    BY <1>5 DEF TagSub, TagItem
  <2>2. m \in SFIDs
    <3>1. m # NoSFID BY <2>1 DEF B2BInv, LookupBehind
    <3> QED BY <1>0, <3>1 DEF Lookups
  <2>3. /\ stripe' \in [Subs -> Stripes] /\ Grows /\ ClosedIsOver'
    BY <2>1, <2>2, TagTyped
  <2>4. \/ lookup[s].at = "sub" /\ stripe'[s].sub = m
        \/ lookup[s].at = "item" /\ stripe'[s].item = m
    BY <1>0, <2>1 DEF Stripes
  <2>5. m \in Maybe /\ m # NoSFID BY <1>0, <2>2, B2BAssumption
  <2>6. /\ lookup' \in [Subs \cup Dons -> Lookups]
        /\ lookup'[s].sfid = m
        /\ \/ lookup[s].at = "sub" /\ lookup'[s].at = "item"
           \/ lookup[s].at = "item" /\ lookup'[s].at = "store"
        /\ \A q \in (Subs \cup Dons) \ {s} : lookup'[q] = lookup[q]
    BY <1>0, <2>1, <2>5, LookupTyped
  <2>7. LookupBehind'
    <3> SUFFICES ASSUME NEW r \in Subs \cup Dons
                 PROVE  /\ lookup'[r].at \in {"sub", "item", "store"} => lookup'[r].sfid # NoSFID
                        /\ r \in Subs /\ lookup'[r].at = "item" => stripe'[r].sub # NoSFID
                        /\ r \in Subs /\ lookup'[r].at = "store" =>
                             stripe'[r].sub # NoSFID /\ stripe'[r].item # NoSFID
      BY DEF LookupBehind, Tagged
    <3>1. CASE r = s
      <4>1. lookup[s].at = "item" => stripe'[s].sub # NoSFID
        BY <2>3 DEF B2BInv, LookupBehind, Grows
      <4> QED BY <2>4, <2>5, <2>6, <3>1, <4>1
    <3>2. CASE r # s
      <4>1. lookup'[r] = lookup[r] BY <2>6, <3>2
      <4> QED BY <2>3, <4>1 DEF B2BInv, LookupBehind, Grows, Tagged
    <3> QED BY <3>1, <3>2
  <2>8. B2BTypeOK' BY <1>0, <2>1, <2>3, <2>6 DEF B2BTypeOK, Stripes, Lookups
  <2> QED BY <2>1, <2>3, <2>7, <2>8, Unmoved DEF B2BInv
<1>6. ASSUME NEW r \in Subs \cup Dons, StoreSFID(r) PROVE B2BInv'
  <2>1. /\ lookup[r].at = "store" /\ Fill({r}, lookup[r].sfid) /\ LookupAt(r, "over", NoSFID)
        /\ UNCHANGED <<match, stripe, backfill, stops>>
    BY <1>6 DEF StoreSFID
  <2>2. lookup[r].sfid \in Maybe BY <1>0 DEF Lookups
  <2>3. /\ row' \in [Subs \cup Dons -> Maybe]
        /\ \A q \in Subs \cup Dons : row'[q] = row[q] \/ q = r
    BY <1>0, <2>1, <2>2, FillTyped
  <2>4. /\ lookup' \in [Subs \cup Dons -> Lookups]
        /\ lookup'[r].at = "over"
        /\ \A q \in (Subs \cup Dons) \ {r} : lookup'[q] = lookup[q]
    BY <1>0, <2>1, LookupTyped
  <2>5. LookupBehind' BY <2>1, <2>4 DEF B2BInv, LookupBehind, Tagged
  <2>6. RowBehindStripe'
    <3>1. r \in Subs => Tagged(r) BY <2>1 DEF B2BInv, LookupBehind
    <3> QED BY <2>1, <2>3, <3>1 DEF B2BInv, RowBehindStripe, Tagged
  <2>7. B2BTypeOK' BY <1>0, <2>1, <2>3, <2>4 DEF B2BTypeOK, Lookups
  <2>8. BackfillBehind' BY <2>1, Same, Unmoved
  <2> QED BY <2>1, <2>5, <2>6, <2>7, <2>8 DEF B2BInv, ClosedIsOver
<1>7. ASSUME StartBackfill PROVE B2BInv'
  <2>1. /\ match # NoSFID /\ UNCHANGED <<match, row, stripe, lookup, stops>>
        /\ backfill' = [NoRun EXCEPT !.at = "donations", !.sfid = match]
    BY <1>7 DEF StartBackfill
  <2>2. backfill' \in Backfills /\ backfill'.at = "donations" /\ backfill'.sfid = match
    BY <1>0, <2>1 DEF NoRun, Backfills
  <2>3. BackfillBehind' BY <2>1, <2>2 DEF BackfillBehind
  <2>4. B2BTypeOK' BY <1>0, <2>1, <2>2 DEF B2BTypeOK, Backfills
  <2>5. LookupBehind' /\ RowBehindStripe' BY <2>1, Same, Unmoved
  <2> QED BY <2>1, <2>3, <2>4, <2>5 DEF B2BInv, ClosedIsOver
<1>8. ASSUME FillDonations PROVE B2BInv'
  <2> DEFINE rest == {s \in Subs \cap Saved : row[s] = NoSFID}
  <2>1. /\ backfill.at = "donations" /\ Fill(Dons \cap Saved, backfill.sfid)
        /\ BackfillAt("next", NoSFID, rest) /\ UNCHANGED <<match, stripe, lookup, stops>>
    BY <1>8 DEF FillDonations
  <2>2. backfill.sfid \in Maybe BY <1>0 DEF Backfills
  <2>3. /\ row' \in [Subs \cup Dons -> Maybe]
        /\ \A q \in Subs \cup Dons : row'[q] = row[q] \/ q \in Dons
    BY <1>0, <2>1, <2>2, FillTyped
  <2>4. backfill' \in Backfills /\ backfill'.at = "next" /\ backfill'.sfid = backfill.sfid
    BY <1>0, <2>1, BackfillTyped
  <2>5. BackfillBehind' BY <2>1, <2>4 DEF B2BInv, BackfillBehind
  <2>6. RowBehindStripe' BY <2>1, <2>3, B2BAssumption DEF B2BInv, RowBehindStripe
  <2>7. B2BTypeOK' BY <1>0, <2>1, <2>3, <2>4 DEF B2BTypeOK, Backfills
  <2>8. LookupBehind' BY <2>1, Same, Unmoved
  <2> QED BY <2>1, <2>5, <2>6, <2>7, <2>8 DEF B2BInv, ClosedIsOver
<1>9. ASSUME NEW s \in Subs, NextSub(s) PROVE B2BInv'
  <2> DEFINE place == IF stripe[s].closed \/ ~stripe[s].live THEN "store" ELSE "item"
  <2>1. /\ backfill.at = "next" /\ BackfillAt(place, s, backfill.todo \ {s})
        /\ UNCHANGED <<match, row, stripe, lookup, stops>>
    BY <1>9 DEF NextSub
  <2>2. backfill.todo \ {s} \in SUBSET Subs BY <1>0 DEF Backfills
  <2>3. /\ backfill' \in Backfills /\ backfill'.at = place /\ backfill'.sub = s
        /\ backfill'.sfid = backfill.sfid
    BY <1>0, <2>1, <2>2, BackfillTyped
  <2>4. place = "store" => ~stripe[s].live BY DEF B2BInv, ClosedIsOver
  <2>5. BackfillBehind' BY <2>1, <2>3, <2>4 DEF B2BInv, BackfillBehind
  <2>6. B2BTypeOK' BY <1>0, <2>1, <2>3 DEF B2BTypeOK, Backfills
  <2>7. LookupBehind' /\ RowBehindStripe' BY <2>1, Same, Unmoved
  <2> QED BY <2>1, <2>5, <2>6, <2>7 DEF B2BInv, ClosedIsOver
<1>10. ASSUME PatchItem \/ PatchSub PROVE B2BInv'
  <2> DEFINE s == backfill.sub
             m == backfill.sfid
  <2>1. /\ UNCHANGED <<match, row, lookup, stops>>
        /\ \/ /\ backfill.at = "item" /\ stripe' = [stripe EXCEPT ![s].item = m]
              /\ BackfillAt("sub", s, backfill.todo)
           \/ /\ backfill.at = "sub" /\ stripe' = [stripe EXCEPT ![s].sub = m]
              /\ BackfillAt("store", s, backfill.todo)
    BY <1>10 DEF PatchItem, PatchSub
  <2>2. s \in Subs /\ m # NoSFID BY <2>1 DEF B2BInv, BackfillBehind
  <2>3. m \in SFIDs /\ backfill.todo \in SUBSET Subs BY <1>0, <2>2 DEF Backfills
  <2>4. /\ stripe' \in [Subs -> Stripes] /\ Grows /\ ClosedIsOver'
    BY <2>1, <2>2, <2>3, TagTyped
  <2>5. \/ backfill.at = "item" /\ stripe'[s].item = m
        \/ backfill.at = "sub" /\ stripe'[s].sub = m
    BY <1>0, <2>1, <2>2 DEF Stripes
  <2>6. /\ backfill' \in Backfills /\ backfill'.sub = s /\ backfill'.sfid = m
        /\ \/ backfill.at = "item" /\ backfill'.at = "sub"
           \/ backfill.at = "sub" /\ backfill'.at = "store"
    BY <1>0, <2>1, <2>2, <2>3, BackfillTyped
  <2>7. backfill.at = "sub" => stripe'[s].item # NoSFID
    BY <2>2, <2>4 DEF B2BInv, BackfillBehind, Grows
  <2>8. BackfillBehind' BY <2>2, <2>5, <2>6, <2>7 DEF BackfillBehind, Tagged
  <2>9. B2BTypeOK' BY <1>0, <2>1, <2>4, <2>6 DEF B2BTypeOK, Stripes, Backfills
  <2> QED BY <2>1, <2>4, <2>8, <2>9, Unmoved DEF B2BInv
<1>11. ASSUME PatchFails PROVE B2BInv'
  <2>1. /\ backfill.at \in {"item", "sub"} /\ BackfillAt("next", NoSFID, backfill.todo)
        /\ UNCHANGED <<match, row, stripe, lookup>> /\ stops' \in 0 .. MaxStops
    BY <1>0, <1>11, B2BAssumption DEF PatchFails, Stop, B2BTypeOK
  <2>2. backfill.todo \in SUBSET Subs BY <1>0 DEF Backfills
  <2>3. backfill' \in Backfills /\ backfill'.at = "next" /\ backfill'.sfid = backfill.sfid
    BY <1>0, <2>1, <2>2, BackfillTyped
  <2>4. BackfillBehind' BY <2>1, <2>3 DEF B2BInv, BackfillBehind
  <2>5. B2BTypeOK' BY <1>0, <2>1, <2>3 DEF B2BTypeOK, Backfills
  <2>6. LookupBehind' /\ RowBehindStripe' BY <2>1, Same, Unmoved
  <2> QED BY <2>1, <2>4, <2>5, <2>6 DEF B2BInv, ClosedIsOver
<1>12. ASSUME StoreSubSFID PROVE B2BInv'
  <2>1. /\ backfill.at = "store" /\ Fill({backfill.sub}, backfill.sfid)
        /\ BackfillAt("next", NoSFID, backfill.todo) /\ UNCHANGED <<match, stripe, lookup, stops>>
    BY <1>12 DEF StoreSubSFID
  <2>2. backfill.sfid \in Maybe /\ backfill.todo \in SUBSET Subs BY <1>0 DEF Backfills
  <2>3. /\ row' \in [Subs \cup Dons -> Maybe]
        /\ \A q \in Subs \cup Dons : row'[q] = row[q] \/ q = backfill.sub
    BY <1>0, <2>1, <2>2, FillTyped
  <2>4. backfill' \in Backfills /\ backfill'.at = "next" /\ backfill'.sfid = backfill.sfid
    BY <1>0, <2>1, <2>2, BackfillTyped
  <2>5. BackfillBehind' BY <2>1, <2>4 DEF B2BInv, BackfillBehind
  <2>6. RowBehindStripe'
    <3>1. stripe[backfill.sub].live => Tagged(backfill.sub) BY <2>1 DEF B2BInv, BackfillBehind
    <3> QED BY <2>1, <2>3, <3>1 DEF B2BInv, RowBehindStripe, Tagged
  <2>7. B2BTypeOK' BY <1>0, <2>1, <2>3, <2>4 DEF B2BTypeOK, Backfills
  <2>8. LookupBehind' BY <2>1, Same, Unmoved
  <2> QED BY <2>1, <2>5, <2>6, <2>7, <2>8 DEF B2BInv, ClosedIsOver
<1>13. ASSUME EndBackfill \/ BackfillStops PROVE B2BInv'
  <2>1. /\ backfill' = NoRun /\ UNCHANGED <<match, row, stripe, lookup>> /\ stops' \in 0 .. MaxStops
    BY <1>0, <1>13, B2BAssumption DEF EndBackfill, BackfillStops, Stop, B2BTypeOK
  <2>2. backfill' \in Backfills /\ backfill'.at = "idle" BY <2>1, NoRunTyped
  <2>3. BackfillBehind' BY <2>2 DEF BackfillBehind
  <2>4. B2BTypeOK' BY <1>0, <2>1, <2>2 DEF B2BTypeOK, Backfills
  <2>5. LookupBehind' /\ RowBehindStripe' BY <2>1, Same, Unmoved
  <2> QED BY <2>1, <2>3, <2>4, <2>5 DEF B2BInv, ClosedIsOver
<1>14. CASE UNCHANGED b2bVars
  BY <1>14 DEF b2bVars, B2BInv, B2BTypeOK, Saved, LookupBehind, BackfillBehind, ClosedIsOver,
     RowBehindStripe, Tagged
<1> QED BY <1>1, <1>2, <1>3, <1>4, <1>5, <1>6, <1>7, <1>8, <1>9, <1>10, <1>11, <1>12, <1>13, <1>14
        DEF B2BNext

LEMMA B2BInvAlways == B2BSpec => []B2BInv
BY B2BInvInit, B2BInvNext, PTL DEF B2BSpec

(* Every reachable state is well typed. *)
THEOREM B2BTyped == B2BSpec => []B2BTypeOK
<1>1. B2BInv => B2BTypeOK BY DEF B2BInv
<1> QED BY <1>1, B2BInvAlways, PTL

(* A row that has its SFID has it in both objects of a subscription that   *)
(* Stripe still bills, whichever of its two writers stored it and whatever *)
(* failed before.                                                          *)
THEOREM StripeFirst == B2BSpec => []RowBehindStripe
<1>1. B2BInv => RowBehindStripe BY DEF B2BInv
<1> QED BY <1>1, B2BInvAlways, PTL

------------------------------------------------------------------------------
(* The mentorship sync.  A row that is stored keeps what SyncPreserves      *)
(* says; the invariant is the types and the unique slugs.                   *)
RowTypes == [kind : {"none", "mentorship", "other"}, slug : SlugNames \cup {NoSlug},
             status : CFStatuses \cup {"none"}, lists : {"empty", "filled"}]

SyncInv == SyncTypeOK /\ SlugsUnique

RowKept(p) ==
  rows[p] # NoRow =>
    /\ rows[p].kind = "other" => rows'[p] = rows[p]
    /\ rows'[p].kind = rows[p].kind
    /\ rows'[p].slug = rows[p].slug
    /\ rows[p].lists = "filled" => rows'[p].lists = "filled"

LEMMA NoRowTyped == NoRow \in RowTypes
BY DEF NoRow, RowTypes

LEMMA SyncInvInit == SyncInit => SyncInv
<1> SUFFICES ASSUME SyncInit PROVE SyncInv
  OBVIOUS
<1>1. rows \in [Programs -> RowTypes] BY NoRowTyped DEF SyncInit
<1>2. source \in [Programs -> SourceRows] BY SyncAssumption DEF SyncInit, SourceRows
<1>3. SyncTypeOK BY <1>1, <1>2, SyncAssumption DEF SyncInit, SyncTypeOK, RowTypes
<1>4. SlugsUnique BY DEF SyncInit, SlugsUnique, NoRow
<1> QED BY <1>3, <1>4 DEF SyncInv

(* One row changes, and the slugs in use with it at most by one that was   *)
(* free: no two slugs meet.                                                *)
LEMMA RowStep ==
  ASSUME SyncInv, NEW p \in Programs, NEW new \in RowTypes,
         rows' = [rows EXCEPT ![p] = new], taken' = taken,
         new.slug \in {rows[p].slug, NoSlug} \/ new.slug \notin UsedSlugs(p)
  PROVE  rows' \in [Programs -> RowTypes] /\ SlugsUnique'
<1>1. rows \in [Programs -> RowTypes] BY DEF SyncInv, SyncTypeOK, RowTypes
<1>2. /\ rows' \in [Programs -> RowTypes] /\ rows'[p] = new
      /\ \A q \in Programs \ {p} : rows'[q] = rows[q]
  BY <1>1
<1>3. ASSUME NEW q \in Programs, rows'[q].slug # NoSlug
      PROVE  rows'[q].slug \notin UsedSlugs(q)'
  <2>1. CASE q = p
    <3>1. new.slug \notin UsedSlugs(p) BY <1>2, <1>3, <2>1 DEF SyncInv, SlugsUnique
    <3>2. UsedSlugs(p)' = UsedSlugs(p) BY <1>2 DEF UsedSlugs
    <3> QED BY <1>2, <2>1, <3>1, <3>2
  <2>2. CASE q # p
    <3>1. rows[q].slug \notin UsedSlugs(q) BY <1>2, <1>3, <2>2 DEF SyncInv, SlugsUnique
    <3>2. rows[q].slug # new.slug
      BY <1>2, <1>3, <2>2, <3>1 DEF UsedSlugs
    <3>3. UsedSlugs(q)' \subseteq UsedSlugs(q) \cup {new.slug} BY <1>2 DEF UsedSlugs
    <3> QED BY <1>2, <2>2, <3>1, <3>2, <3>3
  <2> QED BY <2>1, <2>2
<1> QED BY <1>2, <1>3 DEF SlugsUnique

LEMMA FreeSlugIsFree ==
  ASSUME NEW p \in Programs
  PROVE  FreeSlug(p) \in SlugNames \cup {NoSlug} /\ (FreeSlug(p) = NoSlug \/ FreeSlug(p) \notin UsedSlugs(p))
<1>1. {Plain, Short(p), Full(p)} \subseteq SlugNames BY DEF SlugNames
<1> QED BY <1>1 DEF FreeSlug

(* What an upsert stores: a new row under a free slug, or the old row with *)
(* its kind and slug.                                                      *)
LEMMA StoredRow ==
  ASSUME SyncTypeOK, NEW p \in Programs, NEW f \in SourceRows, Valid(f), Storable(p)
  PROVE  /\ Stored(p, f) \in RowTypes
         /\ Stored(p, f).slug \in {rows[p].slug, NoSlug} \/ Stored(p, f).slug \notin UsedSlugs(p)
         /\ rows[p] # NoRow => /\ Stored(p, f).kind = rows[p].kind
                               /\ Stored(p, f).slug = rows[p].slug
                               /\ rows[p].lists = "filled" => Stored(p, f).lists = "filled"
<1>1. rows[p] \in RowTypes BY DEF SyncTypeOK, RowTypes
<1>2. Normal(f.status) \in CFStatuses BY DEF Valid
<1>3. f.lists \in {"nil", "filled"} BY DEF SourceRows
<1>4. NewLists(p, f) \in {"empty", "filled"} /\ (rows[p].lists = "filled" => NewLists(p, f) = "filled")
  BY <1>1, <1>3 DEF NewLists, RowTypes
<1>5. CASE rows[p] = NoRow
  <2>1. Stored(p, f) = Inserted(p, f) BY <1>5 DEF Stored
  <2>2. Inserted(p, f) \in RowTypes /\ Inserted(p, f).slug = FreeSlug(p)
    BY <1>2, <1>4, FreeSlugIsFree DEF Inserted, RowTypes
  <2> QED BY <1>5, <2>1, <2>2, FreeSlugIsFree
<1>6. CASE rows[p] # NoRow
  <2>1. Stored(p, f) = [rows[p] EXCEPT !.status = Normal(f.status), !.lists = NewLists(p, f)]
    BY <1>6 DEF Stored, Updated
  <2> QED BY <1>1, <1>2, <1>4, <2>1 DEF RowTypes
<1> QED BY <1>5, <1>6

LEMMA SyncStep ==
  ASSUME SyncInv, SyncNext
  PROVE  SyncInv' /\ \A p \in Programs : RowKept(p)
<1>0. /\ SyncTypeOK /\ SlugsUnique
      /\ rows \in [Programs -> RowTypes] /\ source \in [Programs -> SourceRows]
      /\ todo \subseteq Programs \X SourceRows
  BY DEF SyncInv, SyncTypeOK, RowTypes
<1> DEFINE Goal == SyncInv' /\ \A p \in Programs : RowKept(p)
<1>1. ASSUME UNCHANGED rows PROVE \A p \in Programs : RowKept(p)
  BY <1>1 DEF RowKept
<1>2. ASSUME UNCHANGED <<rows, taken>> PROVE SlugsUnique'
  BY <1>0, <1>2 DEF SlugsUnique, UsedSlugs
<1>3. ASSUME Change PROVE changes' \in 0 .. MaxChanges
  BY <1>0, <1>3, SyncAssumption DEF Change, SyncTypeOK
<1>4. ASSUME NEW p \in Programs, NEW s \in SourceStatuses, NEW o \in BOOLEAN,
             NEW l \in {"nil", "filled"}, EditSource(p, s, o, l)
      PROVE  Goal
  <2>1. source' \in [Programs -> SourceRows] BY <1>0, <1>4 DEF EditSource, SourceRows
  <2>2. SyncTypeOK' BY <1>0, <1>3, <1>4, <2>1 DEF EditSource, SyncTypeOK
  <2> QED BY <1>1, <1>2, <1>4, <2>2 DEF EditSource, SyncInv
<1>5. ASSUME NEW p \in Programs, WindowPasses(p) PROVE Goal
  <2>1. source' = [source EXCEPT ![p].recent = FALSE]
        /\ UNCHANGED <<legacy, rows, taken, todo, known, changes>>
    BY <1>5 DEF WindowPasses
  <2>2. source' \in [Programs -> SourceRows] BY <1>0, <2>1 DEF SourceRows
  <2>3. SyncTypeOK' BY <1>0, <2>1, <2>2 DEF SyncTypeOK
  <2> QED BY <1>1, <1>2, <2>1, <2>3 DEF SyncInv
<1>6. ASSUME NEW p \in Programs, CollidingId(p) PROVE Goal
  <2> DEFINE new == [NoRow EXCEPT !.kind = "other", !.status = "published"]
  <2>1. /\ rows[p] = NoRow /\ rows' = [rows EXCEPT ![p] = new] /\ Change
        /\ UNCHANGED <<source, legacy, taken, todo, known>>
    BY <1>6 DEF CollidingId
  <2>2. new \in RowTypes /\ new.slug = NoSlug BY DEF NoRow, RowTypes, CFStatuses
  <2> HIDE DEF new
  <2>3. rows' \in [Programs -> RowTypes] /\ SlugsUnique' BY <1>0, <2>1, <2>2, RowStep
  <2>4. SyncTypeOK' BY <1>0, <1>3, <2>1, <2>3 DEF SyncTypeOK, RowTypes
  <2>5. \A q \in Programs : RowKept(q) BY <1>0, <2>1 DEF RowKept
  <2> QED BY <2>3, <2>4, <2>5 DEF SyncInv
<1>7. ASSUME NEW p \in Programs, MigrateLegacy(p) PROVE Goal
  <2>1. SyncTypeOK' BY <1>0, <1>3, <1>7 DEF MigrateLegacy, SyncTypeOK
  <2> QED BY <1>1, <1>2, <1>7, <2>1 DEF MigrateLegacy, SyncInv
<1>8. ASSUME NEW p \in Programs, Decide(p, "hidden") PROVE Goal
  <2> DEFINE new == [rows[p] EXCEPT !.status = "hidden"]
  <2>1. /\ rows[p].kind = "mentorship" /\ rows' = [rows EXCEPT ![p] = new] /\ Change
        /\ UNCHANGED <<source, legacy, taken, todo, known>>
    BY <1>8 DEF Decide
  <2>2. /\ new \in RowTypes /\ new.slug = rows[p].slug /\ new.kind = rows[p].kind
        /\ new.lists = rows[p].lists
    BY <1>0 DEF RowTypes, CFStatuses
  <2> HIDE DEF new
  <2>3. rows' \in [Programs -> RowTypes] /\ SlugsUnique' BY <1>0, <2>1, <2>2, RowStep
  <2>4. SyncTypeOK' BY <1>0, <1>3, <2>1, <2>3 DEF SyncTypeOK, RowTypes
  <2>5. \A q \in Programs : RowKept(q) BY <1>0, <2>1, <2>2 DEF RowKept
  <2> QED BY <2>3, <2>4, <2>5 DEF SyncInv
<1>9. ASSUME NEW p \in Programs, NEW f \in SourceRows, Seen(p, f)
      PROVE  todo' \subseteq Programs \X SourceRows /\ UNCHANGED <<source, legacy, taken, known>>
  BY <1>0, <1>9 DEF Seen
<1>10. ASSUME NEW p \in Programs, NEW f \in SourceRows,
              Skip(p, f) \/ SkipInvalid(p, f) \/ UpsertError(p, f)
       PROVE  Goal
  <2>1. Seen(p, f) /\ UNCHANGED rows /\ (UNCHANGED changes \/ Change)
    BY <1>10 DEF Skip, SkipInvalid, UpsertError
  <2>2. SyncTypeOK' BY <1>0, <1>3, <1>9, <2>1 DEF SyncTypeOK
  <2> QED BY <1>1, <1>2, <1>9, <2>1, <2>2 DEF SyncInv
<1>11. ASSUME NEW p \in Programs, NEW f \in SourceRows, Upsert1(p, f) PROVE Goal
  <2>1. /\ Seen(p, f) /\ Valid(f) /\ Storable(p) /\ UNCHANGED changes
        /\ rows' = [rows EXCEPT ![p] = Stored(p, f)]
    BY <1>11 DEF Upsert1
  <2>2. rows' \in [Programs -> RowTypes] /\ SlugsUnique'
    BY <1>0, <1>9, <2>1, RowStep, StoredRow
  <2>3. SyncTypeOK' BY <1>0, <1>9, <2>1, <2>2 DEF SyncTypeOK, RowTypes
  <2>4. \A q \in Programs : RowKept(q)
    <3>1. rows[p].kind # "other" BY <2>1 DEF Storable
    <3> QED BY <1>0, <2>1, <3>1, StoredRow DEF RowKept
  <2> QED BY <2>2, <2>3, <2>4 DEF SyncInv
<1>12. ASSUME NEW s \in SlugNames, CreateOther(s) PROVE Goal
  <2>1. /\ s \notin taken \cup {rows[q].slug : q \in Programs} /\ taken' = taken \cup {s} /\ Change
        /\ UNCHANGED <<source, legacy, rows, todo, known>>
    BY <1>12 DEF CreateOther
  <2>2. SyncTypeOK' BY <1>0, <1>3, <2>1 DEF SyncTypeOK
  <2>3. SlugsUnique' BY <1>0, <2>1 DEF SlugsUnique, UsedSlugs
  <2> QED BY <1>1, <2>1, <2>2, <2>3 DEF SyncInv
<1>13. ASSUME StartRun PROVE Goal
  <2>1. /\ todo' = {<<p, source[p]>> : p \in Offered}
        /\ known' = legacy \cup {p \in Programs : rows[p] # NoRow}
        /\ UNCHANGED <<source, legacy, rows, taken, changes>>
    BY <1>13 DEF StartRun
  <2>2. todo' \subseteq Programs \X SourceRows BY <1>0, <2>1 DEF Offered
  <2>3. SyncTypeOK' BY <1>0, <2>1, <2>2 DEF SyncTypeOK
  <2> QED BY <1>1, <1>2, <2>1, <2>3 DEF SyncInv
<1>14. ASSUME RunAborts PROVE Goal
  <2>1. SyncTypeOK' BY <1>0, <1>3, <1>14 DEF RunAborts, SyncTypeOK
  <2> QED BY <1>1, <1>2, <1>14, <2>1 DEF RunAborts, SyncInv
<1> QED BY <1>4, <1>5, <1>6, <1>7, <1>8, <1>10, <1>11, <1>12, <1>13, <1>14 DEF SyncNext, LookAt

LEMMA SyncInvNext == SyncInv /\ [SyncNext]_syncVars => SyncInv'
<1>1. ASSUME SyncInv, UNCHANGED syncVars PROVE SyncInv'
  BY <1>1 DEF syncVars, SyncInv, SyncTypeOK, SlugsUnique, UsedSlugs
<1> QED BY <1>1, SyncStep

LEMMA SyncInvAlways == SyncSpec => []SyncInv
BY SyncInvInit, SyncInvNext, PTL DEF SyncSpec

(* Every reachable state is well typed. *)
THEOREM SyncTyped == SyncSpec => []SyncTypeOK
<1>1. SyncInv => SyncTypeOK BY DEF SyncInv
<1> QED BY <1>1, SyncInvAlways, PTL

(* No two initiatives share a slug, whatever other initiatives are created *)
(* while a run is under way, without the unique index refusing anything.   *)
THEOREM FallbackNeverCollides == SyncSpec => []SlugsUnique
<1>1. SyncInv => SlugsUnique BY DEF SyncInv
<1> QED BY <1>1, SyncInvAlways, PTL

(* No step of the job, of Jobspring or of an approver changes a row of     *)
(* another type or the slug of a row, removes one, or empties its lists.   *)
THEOREM SyncKeepsRows == SyncSpec => SyncPreserves
<1>1. SyncInv /\ [SyncNext]_syncVars => [\A p \in Programs : RowKept(p)]_syncVars
  BY SyncStep
<1> QED BY <1>1, SyncInvAlways, PTL DEF SyncSpec, SyncPreserves, RowKept

-----------------------------------------------------------------------------
(* Sums over the functions of the books: the recursion of SumFunction has a *)
(* solution, and a smallest counterexample is impossible.                   *)
(* A family of subsets of a finite set has a smallest member. *)
LEMMA SmallestMember ==
  ASSUME NEW S, IsFiniteSet(S), NEW T, T \subseteq SUBSET S, T # {}
  PROVE  \E x \in T : \A y \in T : y \subseteq x => y = x
<1>1. IsWellFoundedOn(StrictSubsetOrdering(S), SUBSET S)
  BY FS_StrictSubsetOrderingWellFounded, FS_FiniteSubsetsOfFinite
<1>2. PICK x \in T : \A y \in T : <<y, x>> \notin StrictSubsetOrdering(S)
  <2> HIDE DEF StrictSubsetOrdering
  <2> QED BY <1>1, WFMin
<1> QED BY <1>2 DEF StrictSubsetOrdering

(* The element a fold takes next. *)
Taken(s) == CHOOSE x \in s : TRUE

LEMMA TakenIn == ASSUME NEW s, s # {} PROVE Taken(s) \in s /\ s \ {Taken(s)} \subseteq s /\ s \ {Taken(s)} # s
BY DEF Taken

(* g holds the sum of f over every subset of s. *)
Sums(f, g, s) ==
  /\ g \in [SUBSET s -> Int]
  /\ \A t \in SUBSET s : g[t] = IF t = {} THEN 0 ELSE f[Taken(t)] + g[t \ {Taken(t)}]

LEMMA SumsOfSubset ==
  ASSUME NEW f, NEW g, NEW s, NEW t \in SUBSET s, Sums(f, g, s)
  PROVE  Sums(f, [r \in SUBSET t |-> g[r]], t)
<1> DEFINE h == [r \in SUBSET t |-> g[r]]
<1>1. SUBSET t \subseteq SUBSET s OBVIOUS
<1>2. h \in [SUBSET t -> Int] BY <1>1 DEF Sums
<1>3. ASSUME NEW r \in SUBSET t
      PROVE  h[r] = IF r = {} THEN 0 ELSE f[Taken(r)] + h[r \ {Taken(r)}]
  <2>1. r \ {Taken(r)} \in SUBSET t OBVIOUS
  <2>2. h[r] = g[r] /\ h[r \ {Taken(r)}] = g[r \ {Taken(r)}] BY <2>1
  <2>3. g[r] = IF r = {} THEN 0 ELSE f[Taken(r)] + g[r \ {Taken(r)}] BY <1>1 DEF Sums
  <2> QED BY <2>2, <2>3
<1> QED BY <1>2, <1>3 DEF Sums

LEMMA SumsUnique ==
  ASSUME NEW f, NEW g, NEW h, NEW s, IsFiniteSet(s), Sums(f, g, s), Sums(f, h, s)
  PROVE  \A t \in SUBSET s : g[t] = h[t]
<1> DEFINE B == {t \in SUBSET s : g[t] # h[t]}
<1> SUFFICES ASSUME B # {} PROVE FALSE OBVIOUS
<1> HIDE DEF B
<1>0. B \subseteq SUBSET s BY DEF B
<1>1. PICK t \in B : \A r \in B : r \subseteq t => r = t BY <1>0, SmallestMember
<1>2. t # {} BY DEF B, Sums
<1>3. t \ {Taken(t)} \in SUBSET s /\ t \ {Taken(t)} \notin B BY <1>0, <1>1, <1>2, TakenIn
<1>4. g[t \ {Taken(t)}] = h[t \ {Taken(t)}] BY <1>3 DEF B
<1>5. g[t] = h[t] BY <1>0, <1>2, <1>4 DEF Sums
<1> QED BY <1>5 DEF B

LEMMA SumsExist ==
  ASSUME NEW S, IsFiniteSet(S), NEW f \in [S -> Int]
  PROVE  \E g : Sums(f, g, S)
<1> DEFINE Good(t) == \E g : Sums(f, g, t)
           B == {t \in SUBSET S : ~Good(t)}
           The(t) == CHOOSE g : Sums(f, g, t)
<1> SUFFICES ASSUME B # {} PROVE FALSE OBVIOUS
<1>0. B \subseteq SUBSET S OBVIOUS
<1>1. PICK t \in B : \A r \in B : r \subseteq t => r = t
  <2> HIDE DEF B
  <2> QED BY <1>0, SmallestMember
<1>2. ASSUME NEW r \in SUBSET t, r # t PROVE Sums(f, The(r), r)
  <2>1. Good(r) BY <1>1, <1>2
  <2> QED BY <2>1
<1>3. ASSUME NEW r \in SUBSET t, r # t, NEW q \in SUBSET r PROVE The(r)[q] = The(q)[q]
  <2>1. q # t /\ q \in SUBSET t BY <1>3
  <2>2. Sums(f, The(r), r) /\ Sums(f, The(q), q) BY <1>2, <1>3, <2>1
  <2> HIDE DEF The
  <2>3. Sums(f, [p \in SUBSET q |-> The(r)[p]], q) BY <2>2, SumsOfSubset
  <2>4. IsFiniteSet(q) BY <1>3, FS_Subset
  <2>5. [p \in SUBSET q |-> The(r)[p]][q] = The(q)[q] BY <2>2, <2>3, <2>4, SumsUnique
  <2> QED BY <2>5
<1> DEFINE rest == t \ {Taken(t)}
           last == IF t = {} THEN 0 ELSE f[Taken(t)] + The(rest)[rest]
           g == [r \in SUBSET t |-> IF r = t THEN last ELSE The(r)[r]]
<1> HIDE DEF The
<1>4. t # {} => Taken(t) \in S /\ rest \in SUBSET t /\ rest # t BY TakenIn
<1>5. ASSUME NEW r \in SUBSET t, r # t PROVE The(r)[r] \in Int
  BY <1>2, <1>5 DEF Sums
<1>6. last \in Int BY <1>4, <1>5
<1>7. g \in [SUBSET t -> Int] BY <1>5, <1>6
<1>8. ASSUME NEW r \in SUBSET t
      PROVE  g[r] = IF r = {} THEN 0 ELSE f[Taken(r)] + g[r \ {Taken(r)}]
  <2>1. CASE r = t
    <3>1. t # {} => g[rest] = The(rest)[rest] BY <1>4
    <3> QED BY <2>1, <3>1
  <2>2. CASE r # t
    <3>0. g[r] = The(r)[r] BY <2>2
    <3>1. Sums(f, The(r), r) BY <1>2, <2>2
    <3>2. The(r)[r] = IF r = {} THEN 0 ELSE f[Taken(r)] + The(r)[r \ {Taken(r)}] BY <3>1 DEF Sums
    <3>3. ASSUME r # {} PROVE g[r \ {Taken(r)}] = The(r)[r \ {Taken(r)}]
      <4>1. r \ {Taken(r)} \in SUBSET r /\ r \ {Taken(r)} # t BY <3>3, TakenIn
      <4>2. The(r)[r \ {Taken(r)}] = The(r \ {Taken(r)})[r \ {Taken(r)}] BY <1>3, <2>2, <4>1
      <4>3. r \ {Taken(r)} \in SUBSET t OBVIOUS
      <4> QED BY <4>1, <4>2, <4>3
    <3> QED BY <3>0, <3>2, <3>3
  <2> QED BY <2>1, <2>2
<1>9. Sums(f, g, t)
  <2> HIDE DEF g
  <2> QED BY <1>7, <1>8 DEF Sums
<1> QED BY <1>9

(* SumFunction is the entry of that function for the whole domain. *)
LEMMA SumIsSums ==
  ASSUME NEW S, IsFiniteSet(S), NEW f \in [S -> Int]
  PROVE  \E g : Sums(f, g, S) /\ SumFunction(f) = g[S]
<1> DEFINE IsMap(g) == g = [t \in SUBSET S |-> IF t = {} THEN 0 ELSE f[Taken(t)] + g[t \ {Taken(t)}]]
           m == CHOOSE g : IsMap(g)
<1>1. PICK g : Sums(f, g, S) BY SumsExist
<1>2. IsMap(g)
  <2> DEFINE h == [t \in SUBSET S |-> IF t = {} THEN 0 ELSE f[Taken(t)] + g[t \ {Taken(t)}]]
  <2>1. \A t \in SUBSET S : g[t] = h[t] BY <1>1 DEF Sums
  <2>2. g \in [SUBSET S -> Int] BY <1>1 DEF Sums
  <2> QED BY <2>1, <2>2
<1>3. IsMap(m)
  <2> HIDE DEF IsMap
  <2> QED BY <1>2
<1>4. SumFunction(f) = m[S]
  BY DOMAIN f = S DEF SumFunction, SumFunctionOnSet, FoldFunctionOnSet, MapThenFoldSet, Taken
<1>5. \A t \in SUBSET S : m[t] = IF t = {} THEN 0 ELSE f[Taken(t)] + m[t \ {Taken(t)}]
  <2> HIDE DEF m
  <2> QED BY <1>3
<1>6. Sums(f, m, S)
  <2> DEFINE B == {t \in SUBSET S : m[t] \notin Int}
  <2> HIDE DEF m
  <2>1. B = {}
    <3> SUFFICES ASSUME B # {} PROVE FALSE OBVIOUS
    <3>0. B \subseteq SUBSET S OBVIOUS
    <3>1. PICK t \in B : \A r \in B : r \subseteq t => r = t
      <4> HIDE DEF B
      <4> QED BY <3>0, SmallestMember
    <3>2. t # {} BY <1>5
    <3>3. Taken(t) \in S /\ t \ {Taken(t)} \in SUBSET S /\ t \ {Taken(t)} \notin B BY <3>1, <3>2, TakenIn
    <3>4. m[t] = f[Taken(t)] + m[t \ {Taken(t)}] BY <1>5, <3>2
    <3> QED BY <3>3, <3>4
  <2>2. DOMAIN m = SUBSET S /\ m = [t \in SUBSET S |-> m[t]] BY <1>3
  <2>3. m \in [SUBSET S -> Int] BY <2>1, <2>2
  <2> QED BY <1>5, <2>3 DEF Sums
<1> QED BY <1>4, <1>6

(* What the books need: a sum of parts lies where its parts lie. *)
LEMMA SumsBetween ==
  ASSUME NEW S, IsFiniteSet(S), NEW f \in [S -> Nat], NEW g \in [S -> Nat], NEW h \in [S -> Nat],
         \A x \in S : h[x] <= g[x] /\ g[x] <= f[x] + h[x]
  PROVE  /\ SumFunction(f) \in Nat /\ SumFunction(g) \in Nat /\ SumFunction(h) \in Nat
         /\ SumFunction(h) <= SumFunction(g)
         /\ SumFunction(g) <= SumFunction(f) + SumFunction(h)
<1>0. f \in [S -> Int] /\ g \in [S -> Int] /\ h \in [S -> Int] OBVIOUS
<1>1. PICK F : Sums(f, F, S) /\ SumFunction(f) = F[S] BY <1>0, SumIsSums
<1>2. PICK G : Sums(g, G, S) /\ SumFunction(g) = G[S] BY <1>0, SumIsSums
<1>3. PICK H : Sums(h, H, S) /\ SumFunction(h) = H[S] BY <1>0, SumIsSums
<1> DEFINE Ok(t) == /\ F[t] \in Nat /\ G[t] \in Nat /\ H[t] \in Nat
                    /\ H[t] <= G[t] /\ G[t] <= F[t] + H[t]
           B == {t \in SUBSET S : ~Ok(t)}
<1>4. B = {}
  <2> SUFFICES ASSUME B # {} PROVE FALSE OBVIOUS
  <2>0. B \subseteq SUBSET S OBVIOUS
  <2>1. PICK t \in B : \A r \in B : r \subseteq t => r = t
    <3> HIDE DEF B
    <3> QED BY <2>0, SmallestMember
  <2>2. t # {}
    <3>1. F[{}] = 0 /\ G[{}] = 0 /\ H[{}] = 0
      <4>1. {} \in SUBSET S OBVIOUS
      <4>2. F[{}] = 0 BY <1>1, <4>1 DEF Sums
      <4>3. G[{}] = 0 BY <1>2, <4>1 DEF Sums
      <4>4. H[{}] = 0 BY <1>3, <4>1 DEF Sums
      <4> QED BY <4>2, <4>3, <4>4
    <3>2. Ok({}) BY <3>1
    <3> QED BY <3>2
  <2> DEFINE x == Taken(t)  r == t \ {Taken(t)}
  <2>3. x \in S /\ r \in SUBSET S /\ Ok(r) BY <2>1, <2>2, TakenIn
  <2>4. F[t] = f[x] + F[r] /\ G[t] = g[x] + G[r] /\ H[t] = h[x] + H[r]
    BY <1>1, <1>2, <1>3, <2>2 DEF Sums
  <2> HIDE DEF x, r
  <2>5. f[x] \in Nat /\ g[x] \in Nat /\ h[x] \in Nat /\ h[x] <= g[x] /\ g[x] <= f[x] + h[x]
    BY <2>3
  <2>6. Ok(t) BY <2>3, <2>4, <2>5
  <2> QED BY <2>6
<1>5. Ok(S) BY <1>4
<1> QED BY <1>1, <1>2, <1>3, <1>5
-----------------------------------------------------------------------------
(* What has been read is honest before it is stored.                        *)
StatsInv ==
  /\ StatsTypeOK
  /\ \A i \in Initiatives : batch[i] # NoStats => Honest(batch[i])
  /\ StatsHonest

(* mapBalance makes an honest row of whatever the Ledger has booked.        *)
LEMMA MapBalanceHonest ==
  ASSUME NEW b \in Books
  PROVE  MapBalance(b) \in Rows1 /\ Honest(MapBalance(b))
<1> DEFINE low == [s \in Sponsors |-> IF SponsorTotal(b, s) < 0 THEN 0 - SponsorTotal(b, s) ELSE 0]
           A == SumFunction(b.given)
           P == SumFunction(b.paid)
           N == SumFunction(low)
<1>1. /\ b.given \in [Sponsors -> Nat] /\ b.paid \in [Sponsors -> Nat]
      /\ b.spent \in Nat /\ b.other \in Nat /\ b.taken \in Nat
  BY DEF Books
<1>2. low \in [Sponsors -> Nat] BY <1>1 DEF SponsorTotal
<1>3. \A s \in Sponsors : low[s] <= b.paid[s] /\ b.paid[s] <= b.given[s] + low[s]
  BY <1>1 DEF SponsorTotal
<1>4. A \in Nat /\ P \in Nat /\ N \in Nat /\ N <= P /\ P <= A + N
  <2> HIDE DEF low
  <2> QED BY <1>1, <1>2, <1>3, StatsAssumption, SumsBetween
<1>5. NegSponsorAbs(b) = N BY DEF NegSponsorAbs
<1> DEFINE made == MapBalance(b)
<1> HIDE DEF low, A, P, N
<1> DEFINE due == A - P + b.other - b.taken + N
<1>6. TotalCredit(b) = A - P + b.other - b.taken /\ TotalDebit(b) = 0 - b.spent
  BY DEF TotalCredit, TotalDebit, A, P
<1>7. /\ made.raised = IF due < 0 THEN 0 ELSE due
      /\ made.debited = b.spent + N /\ made.of = b /\ due \in Int
  <2>1. TotalCredit(b) + NegSponsorAbs(b) = due BY <1>1, <1>4, <1>5, <1>6
  <2>2. TotalRaised(b) = IF due < 0 THEN 0 ELSE due
    <3> HIDE DEF due
    <3> QED BY <2>1 DEF TotalRaised
  <2>3. TotalDebited(b) = b.spent + N BY <1>1, <1>4, <1>5, <1>6 DEF TotalDebited
  <2> QED BY <1>1, <1>4, <2>2, <2>3 DEF MapBalance
<1>8. made.supporters = Cardinality({s \in Sponsors : SponsorTotal(b, s) > 0})
      /\ made.supporters \in Nat
  <2>1. {s \in Sponsors : SponsorTotal(b, s) > 0} \subseteq Sponsors OBVIOUS
  <2> QED BY <2>1, StatsAssumption, FS_Subset, FS_CardinalityType DEF MapBalance
<1>9. made \in Rows1
  <2>1. made.raised \in Nat /\ made.debited \in Nat BY <1>1, <1>4, <1>7
  <2> QED BY <2>1, <1>7, <1>8 DEF Rows1, MapBalance
<1>10. ASSUME \A s \in Sponsors : b.given[s] = 0 \/ b.paid[s] = 0
       PROVE  /\ N = P
              /\ made.supporters = Cardinality({s \in Sponsors : b.given[s] > 0})
  <2>1. \A s \in Sponsors : low[s] = b.paid[s] BY <1>1, <1>10 DEF low, SponsorTotal
  <2>2. low = b.paid BY <1>1, <1>2, <2>1
  <2>3. {s \in Sponsors : SponsorTotal(b, s) > 0} = {s \in Sponsors : b.given[s] > 0}
    BY <1>1, <1>10 DEF SponsorTotal
  <2> QED BY <2>2, <2>3, <1>8 DEF N, P
<1> HIDE DEF made
<1>11. Honest(made)
  <2>0. Given(b) = A + b.other BY DEF Given, A
  <2>1. Balanced(made)
    <3>1. TotalCredit(b) + TotalDebit(b) = A - P + b.other - b.taken - b.spent
      BY <1>1, <1>4, <1>6
    <3>2. CASE due >= 0
      <4>1. (made.raised - made.debited) - (TotalCredit(b) + TotalDebit(b)) = 0
        BY <1>1, <1>4, <1>7, <3>1, <3>2
      <4> QED BY <1>7, <4>1 DEF Balanced
    <3>3. CASE due < 0
      <4>1. made.raised = 0 BY <1>7, <3>3
      <4>2. (made.raised - made.debited) - (TotalCredit(b) + TotalDebit(b)) = 0 - due
        BY <1>1, <1>4, <1>7, <3>1, <3>3
      <4>3. 0 < 0 - due /\ 0 - due <= b.taken BY <1>1, <1>4, <3>3
      <4> QED BY <1>7, <4>1, <4>2, <4>3 DEF Balanced
    <3> QED BY <1>7, <3>2, <3>3
  <2>2. made.raised <= Given(b) BY <1>1, <1>4, <1>7, <2>0
  <2>3. ASSUME \A s \in Sponsors : b.given[s] = 0 \/ b.paid[s] = 0
        PROVE  /\ made.raised = IF b.taken <= Given(b) THEN Given(b) - b.taken ELSE 0
               /\ made.debited = b.spent + P
    <3>1. N = P BY <1>10, <2>3
    <3>2. due = Given(b) - b.taken BY <1>1, <1>4, <2>0, <3>1
    <3>3. Given(b) \in Nat BY <1>1, <1>4, <2>0
    <3> QED BY <1>1, <1>7, <3>1, <3>2, <3>3
  <2> QED BY <1>7, <1>10, <2>1, <2>2, <2>3 DEF Honest, P
<1> QED BY <1>9, <1>11 DEF made

LEMMA StatsInitInv == StatsInit => StatsInv
<1> SUFFICES ASSUME StatsInit PROVE StatsInv OBVIOUS
<1>1. ledger \in [Initiatives -> Books] BY DEF StatsInit, Books
<1>2. StatsTypeOK BY <1>1, StatsAssumption DEF StatsInit, StatsTypeOK
<1> QED BY <1>2 DEF StatsInit, StatsInv, StatsHonest

LEMMA PostTyped ==
  ASSUME StatsTypeOK, NEW i \in Initiatives, Post(i)
  PROVE  ledger' \in [Initiatives -> Books]
<1> USE DEF StatsTypeOK, Books
<1>1. CASE \E s \in Sponsors : ledger' = [ledger EXCEPT ![i].given[s] = @ + 2]
  <2>1. PICK s \in Sponsors : ledger' = [ledger EXCEPT ![i].given[s] = @ + 2] BY <1>1
  <2> DEFINE new == [ledger[i].given EXCEPT ![s] = @ + 2]
  <2>2. new \in [Sponsors -> Nat] OBVIOUS
  <2>3. ledger' = [ledger EXCEPT ![i] = [@ EXCEPT !.given = new]] BY <2>1
  <2>4. [ledger[i] EXCEPT !.given = new] \in Books BY <2>2
  <2> QED BY <2>3, <2>4
<1>2. CASE \E s \in Sponsors : ledger' = [ledger EXCEPT ![i].paid[s] = @ + 1]
  <2>1. PICK s \in Sponsors : ledger' = [ledger EXCEPT ![i].paid[s] = @ + 1] BY <1>2
  <2> DEFINE new == [ledger[i].paid EXCEPT ![s] = @ + 1]
  <2>2. new \in [Sponsors -> Nat] OBVIOUS
  <2>3. ledger' = [ledger EXCEPT ![i] = [@ EXCEPT !.paid = new]] BY <2>1
  <2>4. [ledger[i] EXCEPT !.paid = new] \in Books BY <2>2
  <2> QED BY <2>3, <2>4
<1>3. CASE ledger' = [ledger EXCEPT ![i].spent = @ + 1]
  <2> DEFINE new == ledger[i].spent + 1
  <2>1. new \in Nat OBVIOUS
  <2>2. ledger' = [ledger EXCEPT ![i] = [@ EXCEPT !.spent = new]] BY <1>3
  <2>3. [ledger[i] EXCEPT !.spent = new] \in Books BY <2>1
  <2> QED BY <2>2, <2>3
<1>4. CASE ledger' = [ledger EXCEPT ![i].other = @ + 1]
  <2> DEFINE new == ledger[i].other + 1
  <2>1. new \in Nat OBVIOUS
  <2>2. ledger' = [ledger EXCEPT ![i] = [@ EXCEPT !.other = new]] BY <1>4
  <2>3. [ledger[i] EXCEPT !.other = new] \in Books BY <2>1
  <2> QED BY <2>2, <2>3
<1>5. CASE ledger' = [ledger EXCEPT ![i].taken = @ + 1]
  <2> DEFINE new == ledger[i].taken + 1
  <2>1. new \in Nat OBVIOUS
  <2>2. ledger' = [ledger EXCEPT ![i] = [@ EXCEPT !.taken = new]] BY <1>5
  <2>3. [ledger[i] EXCEPT !.taken = new] \in Books BY <2>1
  <2> QED BY <2>2, <2>3
<1> QED BY <1>1, <1>2, <1>3, <1>4, <1>5 DEF Post

LEMMA StatsStep == StatsInv /\ [StatsNext]_statsVars => StatsInv'
<1> SUFFICES ASSUME StatsInv, [StatsNext]_statsVars PROVE StatsInv' OBVIOUS
<1>0. StatsTypeOK BY DEF StatsInv
<1> USE <1>0 DEF StatsInv, StatsHonest
<1>1. ASSUME NEW i \in Initiatives, Post(i) PROVE StatsInv'
  <2>1. postings' \in 0 .. MaxPostings BY <1>1, StatsAssumption DEF Post, StatsTypeOK
  <2>2. ledger' \in [Initiatives -> Books] BY <1>1, PostTyped
  <2> QED BY <1>1, <2>1, <2>2 DEF Post, StatsTypeOK
<1>2. ASSUME NEW i \in Initiatives, DeleteInitiative(i) PROVE StatsInv'
  BY <1>2 DEF DeleteInitiative, StatsTypeOK
<1>3. CASE ListIDs BY <1>3 DEF ListIDs, StatsTypeOK
<1>4. CASE ReadBalances
  <2>1. \A i \in Initiatives : ledger[i] \in Books BY DEF StatsTypeOK
  <2>2. \A i \in Initiatives : MapBalance(ledger[i]) \in Rows1 /\ Honest(MapBalance(ledger[i]))
    BY <2>1, MapBalanceHonest
  <2>3. batch' \in [Initiatives -> Rows1 \cup {NoStats}] BY <1>4, <2>2 DEF ReadBalances
  <2>4. \A i \in Initiatives : batch'[i] # NoStats => Honest(batch'[i])
    BY <1>4, <2>2 DEF ReadBalances
  <2> QED BY <1>4, <2>3, <2>4 DEF ReadBalances, StatsTypeOK
<1>5. CASE BulkUpsert BY <1>5 DEF BulkUpsert, StatsTypeOK
<1>6. CASE BatchFails BY <1>6 DEF BatchFails, StatsTypeOK
<1>7. CASE RunFails
  <2>1. postings' \in 0 .. MaxPostings BY <1>7, StatsAssumption DEF RunFails, StatsTypeOK
  <2> QED BY <1>7, <2>1 DEF RunFails, StatsTypeOK
<1>8. CASE UNCHANGED statsVars BY <1>8 DEF statsVars, StatsTypeOK
<1> QED BY <1>1, <1>2, <1>3, <1>4, <1>5, <1>6, <1>7, <1>8 DEF StatsNext

(* StatsTypeOK, of every state the job and the Ledger can reach.            *)
THEOREM StatsTyped == StatsSpec => []StatsTypeOK
<1>1. StatsInv => StatsTypeOK BY DEF StatsInv
<1> QED BY <1>1, StatsInitInv, StatsStep, PTL DEF StatsSpec

(* StatsHonest: whatever was booked and in whatever order, the totals the   *)
(* job stores claim no more than was given, and differ by what the Ledger   *)
(* holds except where credits taken in nobody's name leave less than        *)
(* nothing to have been raised: those rows are off by no more than what was *)
(* taken so.  They are exact, up to what was taken so, as long as no        *)
(* recipient of a disbursement booked as a negative credit has also donated *)
(* (mapBalance).                                                            *)
THEOREM StoredTotalsHonest == StatsSpec => []StatsHonest
<1>1. StatsInv => StatsHonest BY DEF StatsInv
<1> QED BY <1>1, StatsInitInv, StatsStep, PTL DEF StatsSpec

==================================================================================
