----------------------------- MODULE Reading_proofs -----------------------------
(*****************************************************************************)
(* How long a shared cache may show what was withdrawn, what a manage        *)
(* request may be told, and what a walk through transaction pages shows,     *)
(* for any people, entities, lives, waits, page sizes and rows.              *)
(*****************************************************************************)
EXTENDS Visibility, LedgerPages, FiniteSetTheorems, TLAPS

(* A request that read a published row knows for how long, at most, it may *)
(* have been withdrawn: for as long as the request has run.                *)
ShownRecently == \A u \in People :
  visit[u].at = "read" /\ visit[u].copy.status = "published" => hidden <= visit[u].age
MoneyIsPublished == \A u \in People :
  visit[u].at = "read" /\ visit[u].op = "money" => visit[u].copy.status = "published"
PublishedNow == page.status = "published" => hidden = 0

(* What a copy has left of its life it was not hidden for. *)
CopiesShort == \A v \in Urls : fresh[v] > 0 => hidden + fresh[v] <= Life + Wait

CacheInv ==
  VisTypeOK /\ ShownRecently /\ MoneyIsPublished /\ PublishedNow /\ CopiesShort

(* A request under way has seen the answer of the present. *)
SeenBy(u) == May(u, page, grants, profiles) \in visit[u].seen
SeenNow == \A u \in People : visit[u].at # "idle" => SeenBy(u)

(* A manage request that has come so far found its caller, and, unless the *)
(* row has moved, the attribution it read is the row's.                    *)
CallerFound == \A u \in People :
  visit[u].op = "manage" /\ visit[u].at \in {"known", "read"} => u \in profiles
CopyCurrent == \A u \in People :
  visit[u].at = "read" /\ ~visit[u].moved =>
    page.status # "gone" /\ visit[u].copy.attr = page.attr

ToldInv == VisTypeOK /\ SeenNow /\ CallerFound /\ CopyCurrent /\ ManageToldTruth

-----------------------------------------------------------------------------
LEMMA NoVisitTyped == NoVisit \in Visits /\ NoVisit.at = "idle" /\ Untold.code = 503
BY VisibilityAssumption DEF NoVisit, Visits, Draft, PageRow, Statuses0, Untold

(* A request begins or moves on. *)
LEMMA VisitTyped ==
  ASSUME VisTypeOK, NEW u \in People, NEW w \in Visits, visit' = [visit EXCEPT ![u] = w]
  PROVE  /\ visit' \in [People -> Visits] /\ visit'[u] = w
         /\ \A x \in People \ {u} : visit'[x] = visit[x]
BY DEF VisTypeOK

LEMMA LeaveTyped ==
  ASSUME VisTypeOK, NEW u \in People, Leave(u)
  PROVE  /\ visit' \in [People -> Visits] /\ visit'[u].at = "idle"
         /\ \A x \in People \ {u} : visit'[x] = visit[x]
<1>1. NoVisit \in Visits /\ NoVisit.at = "idle" BY NoVisitTyped
<1>2. visit' = [visit EXCEPT ![u] = NoVisit] BY DEF Leave
<1> QED BY <1>1, <1>2, VisitTyped

LEMMA MayBoolean ==
  ASSUME NEW u, NEW pg, NEW gr, NEW pf
  PROVE  May(u, pg, gr, pf) \in BOOLEAN
BY DEF May

(* Requests under way only watch. *)
LEMMA WatchTyped ==
  ASSUME VisTypeOK, NEW pg \in PageRow, NEW gr, NEW pf, Watch(pg, gr, pf)
  PROVE  /\ page' = pg /\ grants' = gr /\ profiles' = pf
         /\ visit' \in [People -> Visits]
         /\ \A u \in People :
              /\ visit'[u].at = visit[u].at /\ visit'[u].op = visit[u].op
              /\ visit'[u].age = visit[u].age /\ visit'[u].copy = visit[u].copy
              /\ visit[u].at # "idle" =>
                   /\ visit'[u].seen = visit[u].seen \cup {May(u, pg, gr, pf)}
                   /\ ~visit'[u].moved => ~visit[u].moved /\ pg.attr = page.attr /\ pg.status # "gone"
<1>1. page' = pg /\ grants' = gr /\ profiles' = pf BY DEF Watch
<1>2. visit \in [People -> Visits] BY DEF VisTypeOK
<1> DEFINE w(u) == [visit[u] EXCEPT !.seen = visit[u].seen \cup {May(u, pg, gr, pf)},
                                    !.moved = (visit[u].moved \/ pg.attr # page.attr) \/ pg.status = "gone"]
<1>3. visit' = [u \in People |-> IF visit[u].at = "idle" THEN visit[u] ELSE w(u)]
  BY DEF Watch
<1>4. ASSUME NEW u \in People
      PROVE  /\ w(u) \in Visits /\ w(u).at = visit[u].at /\ w(u).op = visit[u].op
             /\ w(u).age = visit[u].age /\ w(u).copy = visit[u].copy
             /\ w(u).seen = visit[u].seen \cup {May(u, pg, gr, pf)}
             /\ ~w(u).moved => ~visit[u].moved /\ pg.attr = page.attr /\ pg.status # "gone"
  <2>1. visit[u] \in Visits BY <1>2
  <2>2. May(u, pg, gr, pf) \in BOOLEAN BY MayBoolean
  <2>3. visit[u].seen \cup {May(u, pg, gr, pf)} \in SUBSET BOOLEAN BY <2>1, <2>2 DEF Visits
  <2>4. ((visit[u].moved \/ pg.attr # page.attr) \/ pg.status = "gone") \in BOOLEAN
    OBVIOUS
  <2> QED BY <2>1, <2>3, <2>4 DEF Visits
<1> HIDE DEF w
<1> QED BY <1>1, <1>2, <1>3, <1>4

LEMMA TypedInit == VisInit => VisTypeOK
BY NoVisitTyped, VisibilityAssumption
   DEF VisInit, VisTypeOK, Draft, PageRow, Statuses0, Urls, Forgotten, Untold

(* Every step of a request but its beginning and its end. *)
LEMMA ReadTyped ==
  ASSUME VisTypeOK, NEW u \in People, ReadPage(u)
  PROVE  /\ visit' \in [People -> Visits]
         /\ visit'[u].at = "read" /\ visit'[u].copy = page /\ visit'[u].op = visit[u].op
         /\ visit'[u].age = visit[u].age /\ visit'[u].seen = visit[u].seen
         /\ visit'[u].moved = visit[u].moved
         /\ \A x \in People \ {u} : visit'[x] = visit[x]
<1>1. visit[u] \in Visits /\ page \in PageRow BY DEF VisTypeOK
<1>2. [visit[u] EXCEPT !.at = "read", !.copy = page] \in Visits BY <1>1 DEF Visits
<1>3. visit' = [visit EXCEPT ![u] = [visit[u] EXCEPT !.at = "read", !.copy = page]]
  BY DEF ReadPage, VisTypeOK
<1> QED BY <1>1, <1>2, <1>3, VisitTyped DEF Visits

LEMMA KnownTyped ==
  ASSUME VisTypeOK, NEW u \in People, AtVisit(u, "known")
  PROVE  /\ visit' \in [People -> Visits]
         /\ visit'[u].at = "known" /\ visit'[u].op = visit[u].op
         /\ visit'[u].seen = visit[u].seen
         /\ \A x \in People \ {u} : visit'[x] = visit[x]
<1>1. visit[u] \in Visits BY DEF VisTypeOK
<1>2. [visit[u] EXCEPT !.at = "known"] \in Visits BY <1>1 DEF Visits
<1>3. visit' = [visit EXCEPT ![u] = [visit[u] EXCEPT !.at = "known"]]
  BY DEF AtVisit, VisTypeOK
<1> QED BY <1>1, <1>2, <1>3, VisitTyped DEF Visits

LEMMA OpenTyped ==
  ASSUME VisTypeOK, NEW u \in People, NEW op, NEW step, Open(u, op, step),
         \/ op \in Urls /\ step = "known"
         \/ op = "manage" /\ step = "asked"
  PROVE  /\ visit' \in [People -> Visits]
         /\ visit'[u].at = step /\ visit'[u].op = op
         /\ May(u, page, grants, profiles) \in visit'[u].seen
         /\ \A x \in People \ {u} : visit'[x] = visit[x]
<1> DEFINE w == [NoVisit EXCEPT !.op = op, !.at = step, !.seen = {May(u, page, grants, profiles)}]
<1>1. {May(u, page, grants, profiles)} \in SUBSET BOOLEAN BY MayBoolean
<1>2. /\ w \in Visits /\ w.at = step /\ w.op = op
      /\ w.seen = {May(u, page, grants, profiles)}
  BY <1>1, NoVisitTyped DEF NoVisit, Visits
<1>3. visit' = [visit EXCEPT ![u] = w] BY DEF Open
<1> HIDE DEF w
<1> QED BY <1>2, <1>3, VisitTyped

LEMMA TellTyped ==
  ASSUME VisTypeOK, NEW u \in People, NEW code \in {200, 404, 503}, Tell(u, code)
  PROVE  told' \in [code : {200, 404, 503}, seen : SUBSET BOOLEAN, moved : BOOLEAN]
BY DEF Tell, VisTypeOK, Visits

LEMMA TickTyped ==
  ASSUME VisTypeOK, Tick0
  PROVE  /\ VisTypeOK'
         /\ \A u \in People :
              /\ visit'[u].at = visit[u].at /\ visit'[u].op = visit[u].op
              /\ visit'[u].copy = visit[u].copy /\ visit'[u].seen = visit[u].seen
              /\ visit'[u].moved = visit[u].moved
              /\ visit[u].at # "idle" => visit'[u].age = visit[u].age + 1
         /\ hidden' \in Nat /\ hidden' <= hidden + 1
         /\ \A v \in Urls : fresh'[v] = IF fresh[v] = 0 THEN 0 ELSE fresh[v] - 1
         /\ page.status = "published" => hidden' = 0
<1>1. Life \in Nat \ {0} /\ Wait \in Nat \ {0} /\ Forgotten = Life + Wait
  BY VisibilityAssumption DEF Forgotten
<1>2. /\ visit \in [People -> Visits] /\ hidden \in 0 .. Forgotten /\ fresh \in [Urls -> 0 .. Life]
  BY DEF VisTypeOK
<1>3. ASSUME NEW u \in People, visit[u].at # "idle"
      PROVE  /\ [visit[u] EXCEPT !.age = visit[u].age + 1] \in Visits
             /\ [visit[u] EXCEPT !.age = visit[u].age + 1].age = visit[u].age + 1
  <2>1. visit[u].age < Wait BY <1>3 DEF Tick0
  <2>2. visit[u] \in Visits /\ visit[u].age \in 0 .. Wait BY <1>2 DEF Visits
  <2>3. visit[u].age + 1 \in 0 .. Wait BY <1>1, <2>1, <2>2
  <2> QED BY <2>2, <2>3 DEF Visits
<1>4. visit' = [u \in People |-> IF visit[u].at = "idle" THEN visit[u]
                                 ELSE [visit[u] EXCEPT !.age = visit[u].age + 1]]
  BY DEF Tick0
<1>5. /\ visit' \in [People -> Visits]
      /\ \A u \in People :
              /\ visit'[u].at = visit[u].at /\ visit'[u].op = visit[u].op
              /\ visit'[u].copy = visit[u].copy /\ visit'[u].seen = visit[u].seen
              /\ visit'[u].moved = visit[u].moved
              /\ visit[u].at # "idle" => visit'[u].age = visit[u].age + 1
  <2>1. ASSUME NEW u \in People, visit[u].at = "idle" PROVE visit'[u] = visit[u]
    BY <1>4, <2>1
  <2>2. ASSUME NEW u \in People, visit[u].at # "idle"
        PROVE  visit'[u] = [visit[u] EXCEPT !.age = visit[u].age + 1]
    BY <1>4, <2>2
  <2>3. visit' \in [People -> Visits] BY <1>2, <1>3, <1>4
  <2>4. ASSUME NEW u \in People, visit[u].at # "idle"
        PROVE  /\ visit'[u].at = visit[u].at /\ visit'[u].op = visit[u].op
               /\ visit'[u].copy = visit[u].copy /\ visit'[u].seen = visit[u].seen
               /\ visit'[u].moved = visit[u].moved
               /\ visit'[u].age = visit[u].age + 1
    <3>1. visit[u] \in Visits BY <1>2
    <3> QED BY <2>2, <2>4, <3>1 DEF Visits
  <2> QED BY <2>1, <2>3, <2>4
<1>6. /\ hidden' \in 0 .. Forgotten /\ hidden' <= hidden + 1
      /\ page.status = "published" => hidden' = 0
  BY <1>1, <1>2 DEF Tick0
<1>7. /\ fresh' \in [Urls -> 0 .. Life]
      /\ \A v \in Urls : fresh'[v] = IF fresh[v] = 0 THEN 0 ELSE fresh[v] - 1
  <2>1. fresh' = [v \in Urls |-> IF fresh[v] = 0 THEN 0 ELSE fresh[v] - 1] BY DEF Tick0
  <2>2. \A v \in Urls : (IF fresh[v] = 0 THEN 0 ELSE fresh[v] - 1) \in 0 .. Life BY <1>1, <1>2
  <2> QED BY <2>1, <2>2
<1>8. VisTypeOK' BY <1>5, <1>6, <1>7 DEF VisTypeOK, Tick0
<1>9. hidden' \in Nat BY <1>1, <1>6
<1> QED BY <1>5, <1>6, <1>7, <1>8, <1>9

(* The state that requests look at changes, and they watch. *)
Changed ==
  /\ VisTypeOK'
  /\ profiles \subseteq profiles'
  /\ Watch(page', grants', profiles')
  /\ page' \in PageRow
  /\ UNCHANGED <<fresh, told>>
  /\ hidden' \in {hidden, 0}
  /\ page'.status = "published" => hidden' = 0 \/ page.status = "published"

LEMMA ChangeStep ==
  ASSUME VisTypeOK, NEW pg \in PageRow, NEW gr, NEW pf, Watch(pg, gr, pf),
         gr \subseteq People \X Entities, profiles \subseteq pf, pf \subseteq People,
         UNCHANGED <<fresh, told>>, hidden' \in {hidden, 0},
         pg.status = "published" => hidden' = 0 \/ page.status = "published"
  PROVE  Changed
<1>1. page' = pg /\ grants' = gr /\ profiles' = pf /\ visit' \in [People -> Visits]
  BY WatchTyped
<1>2. hidden' \in 0 .. Forgotten
  BY VisibilityAssumption DEF VisTypeOK, Forgotten
<1>3. VisTypeOK' BY <1>1, <1>2 DEF VisTypeOK
<1> QED BY <1>1, <1>3 DEF Changed

LEMMA StatusChange ==
  ASSUME VisTypeOK, NEW s \in Statuses0, SetStatus(s)
  PROVE  Changed
<1> DEFINE pg == [page EXCEPT !.status = s]
<1>1. pg \in PageRow /\ pg.status = s BY DEF VisTypeOK, PageRow
<1>2. /\ Watch(pg, grants, profiles) /\ UNCHANGED <<fresh, told>>
      /\ hidden' \in {hidden, 0}
      /\ s = "published" => hidden' = 0
  BY DEF SetStatus
<1>3. grants \subseteq People \X Entities /\ profiles \subseteq People BY DEF VisTypeOK
<1> HIDE DEF pg
<1>4. pg.status = "published" => hidden' = 0 BY <1>1, <1>2
<1> QED BY <1>1, <1>2, <1>3, <1>4, ChangeStep

LEMMA AttributionChange ==
  ASSUME VisTypeOK, NEW a \in Entities \cup {Personal}, Reattribute(a)
  PROVE  Changed
<1> DEFINE pg == [page EXCEPT !.attr = a]
<1>1. pg \in PageRow /\ pg.status = page.status BY DEF VisTypeOK, PageRow
<1>2. Watch(pg, grants, profiles) /\ UNCHANGED <<fresh, hidden, told>>
  BY DEF Reattribute
<1>3. grants \subseteq People \X Entities /\ profiles \subseteq People BY DEF VisTypeOK
<1> HIDE DEF pg
<1>4. hidden' \in {hidden, 0} /\ UNCHANGED <<fresh, told>> BY <1>2
<1> QED BY <1>1, <1>2, <1>3, <1>4, ChangeStep

LEMMA GrantChange ==
  ASSUME VisTypeOK, NEW u \in People, NEW e \in Entities, SetGrant(u, e)
  PROVE  Changed
<1> DEFINE gr == IF <<u, e>> \in grants THEN grants \ {<<u, e>>} ELSE grants \cup {<<u, e>>}
<1>1. /\ grants \subseteq People \X Entities /\ profiles \subseteq People /\ page \in PageRow
  BY DEF VisTypeOK
<1>2. gr \subseteq People \X Entities BY <1>1
<1>3. Watch(page, gr, profiles) /\ UNCHANGED <<fresh, hidden, told>> BY DEF SetGrant
<1> HIDE DEF gr
<1> QED BY <1>1, <1>2, <1>3, ChangeStep

LEMMA ProfileChange ==
  ASSUME VisTypeOK, NEW u \in People, SyncUser(u)
  PROVE  Changed
<1>1. /\ grants \subseteq People \X Entities /\ profiles \cup {u} \subseteq People
      /\ page \in PageRow
  BY DEF VisTypeOK
<1>2. Watch(page, grants, profiles \cup {u}) /\ UNCHANGED <<fresh, hidden, told>>
  BY DEF SyncUser
<1> QED BY <1>1, <1>2, ChangeStep

(* The changes, by name. *)
VisChange ==
  \/ \E s \in Statuses0 : SetStatus(s)
  \/ \E a \in Entities \cup {Personal} : Reattribute(a)
  \/ \E u \in People, e \in Entities : SetGrant(u, e)
  \/ \E u \in People : SyncUser(u)

LEMMA ChangeIsSeen == ASSUME VisTypeOK, VisChange PROVE Changed
BY StatusChange, AttributionChange, GrantChange, ProfileChange DEF VisChange

-----------------------------------------------------------------------------
LEMMA CacheInvInit == VisInit => CacheInv
<1> SUFFICES ASSUME VisInit PROVE CacheInv
  OBVIOUS
<1>1. VisTypeOK BY TypedInit
<1>2. \A u \in People : visit[u].at = "idle" BY NoVisitTyped DEF VisInit
<1>3. page.status = "submitted" BY DEF VisInit, Draft
<1>4. \A v \in Urls : fresh[v] = 0 BY DEF VisInit
<1>5. ShownRecently /\ MoneyIsPublished BY <1>2 DEF ShownRecently, MoneyIsPublished
<1>6. PublishedNow /\ CopiesShort BY <1>3, <1>4 DEF PublishedNow, CopiesShort
<1> QED BY <1>1, <1>5, <1>6 DEF CacheInv

(* A request that does not end up at "read" adds nothing to look at. *)
LEMMA QuietStep ==
  ASSUME CacheInv, NEW u \in People, visit' \in [People -> Visits],
         \A x \in People \ {u} : visit'[x] = visit[x],
         visit'[u].at # "read",
         UNCHANGED <<page, grants, profiles, fresh, hidden>>,
         told' \in [code : {200, 404, 503}, seen : SUBSET BOOLEAN, moved : BOOLEAN]
  PROVE  CacheInv'
<1>1. VisTypeOK' BY DEF CacheInv, VisTypeOK
<1>2. ShownRecently' BY DEF CacheInv, ShownRecently
<1>3. MoneyIsPublished' BY DEF CacheInv, MoneyIsPublished
<1>4. PublishedNow' /\ CopiesShort' BY DEF CacheInv, PublishedNow, CopiesShort
<1> QED BY <1>1, <1>2, <1>3, <1>4 DEF CacheInv

(* A copy is stored that one request and one life bound. *)
LEMMA StoreStep ==
  ASSUME CacheInv, NEW u \in People, NEW url \in Urls, Leave(u),
         hidden <= visit[u].age,
         fresh' = [fresh EXCEPT ![url] = Life],
         UNCHANGED <<page, grants, profiles, hidden, told>>
  PROVE  CacheInv'
<1>1. /\ visit' \in [People -> Visits] /\ visit'[u].at = "idle"
      /\ \A x \in People \ {u} : visit'[x] = visit[x]
  BY LeaveTyped DEF CacheInv
<1>2. Life \in Nat /\ Wait \in Nat /\ visit[u].age \in 0 .. Wait /\ hidden \in Nat
  BY VisibilityAssumption DEF CacheInv, VisTypeOK, Visits, Forgotten
<1>3. /\ fresh \in [Urls -> 0 .. Life] /\ fresh' \in [Urls -> 0 .. Life]
      /\ fresh'[url] = Life /\ \A v \in Urls \ {url} : fresh'[v] = fresh[v]
  BY <1>2 DEF CacheInv, VisTypeOK
<1>4. hidden + Life <= Life + Wait BY <1>2
<1>5. CopiesShort' BY <1>3, <1>4 DEF CacheInv, CopiesShort
<1>6. VisTypeOK' BY <1>1, <1>3 DEF CacheInv, VisTypeOK
<1>7. ShownRecently' /\ MoneyIsPublished' /\ PublishedNow'
  BY <1>1 DEF CacheInv, ShownRecently, MoneyIsPublished, PublishedNow
<1> QED BY <1>5, <1>6, <1>7 DEF CacheInv

LEMMA CacheInvNext == CacheInv /\ [VisNext]_visVars => CacheInv'
<1> SUFFICES ASSUME CacheInv, [VisNext]_visVars PROVE CacheInv'
  OBVIOUS
<1>0. /\ VisTypeOK /\ visit \in [People -> Visits] /\ hidden \in Nat /\ Life \in Nat /\ Wait \in Nat
      /\ told \in [code : {200, 404, 503}, seen : SUBSET BOOLEAN, moved : BOOLEAN]
  BY VisibilityAssumption DEF CacheInv, VisTypeOK, Forgotten
<1>1. ASSUME VisChange PROVE CacheInv'
  <2>1. Changed BY <1>0, <1>1, ChangeIsSeen
  <2>2. \A u \in People :
          /\ visit'[u].at = visit[u].at /\ visit'[u].op = visit[u].op
          /\ visit'[u].age = visit[u].age /\ visit'[u].copy = visit[u].copy
    BY <1>0, <2>1, WatchTyped DEF Changed
  <2>3. hidden' <= hidden /\ fresh' = fresh BY <1>0, <2>1 DEF Changed
  <2>4. \A u \in People : visit[u].age \in Nat BY <1>0 DEF Visits
  <2>5. hidden' \in Nat BY <1>0, <2>1 DEF Changed
  <2>6. ShownRecently' BY <1>0, <2>2, <2>3, <2>4, <2>5 DEF CacheInv, ShownRecently
  <2>7. MoneyIsPublished' BY <2>2 DEF CacheInv, MoneyIsPublished
  <2>8. PublishedNow' BY <2>1 DEF CacheInv, PublishedNow, Changed
  <2>9. CopiesShort'
    <3>1. \A v \in Urls : fresh[v] \in Nat BY <1>0 DEF VisTypeOK
    <3> QED BY <1>0, <2>3, <2>5, <3>1 DEF CacheInv, CopiesShort
  <2> QED BY <2>1, <2>6, <2>7, <2>8, <2>9 DEF CacheInv, Changed
<1>2. ASSUME Tick0 PROVE CacheInv'
  <2>1. /\ VisTypeOK'
        /\ \A u \in People :
             /\ visit'[u].at = visit[u].at /\ visit'[u].op = visit[u].op
             /\ visit'[u].copy = visit[u].copy
             /\ visit[u].at # "idle" => visit'[u].age = visit[u].age + 1
        /\ hidden' \in Nat /\ hidden' <= hidden + 1
        /\ \A v \in Urls : fresh'[v] = IF fresh[v] = 0 THEN 0 ELSE fresh[v] - 1
        /\ page.status = "published" => hidden' = 0
    BY <1>0, <1>2, TickTyped
  <2>2. \A u \in People : visit[u].age \in Nat BY <1>0 DEF Visits
  <2>3. ShownRecently' BY <1>0, <2>1, <2>2 DEF CacheInv, ShownRecently
  <2>4. MoneyIsPublished' BY <2>1 DEF CacheInv, MoneyIsPublished
  <2>5. PublishedNow' BY <1>2, <2>1 DEF PublishedNow, Tick0
  <2>6. CopiesShort'
    <3>1. \A v \in Urls : fresh[v] \in Nat BY <1>0 DEF VisTypeOK
    <3> QED BY <1>0, <2>1, <3>1 DEF CacheInv, CopiesShort
  <2> QED BY <2>1, <2>3, <2>4, <2>5, <2>6 DEF CacheInv
<1>3. ASSUME NEW u \in People, OpenDetail(u) \/ OpenMoney(u) \/ OpenManage(u) PROVE CacheInv'
  <2>1. PICK op, step : /\ Open(u, op, step)
                        /\ \/ op \in Urls /\ step = "known"
                           \/ op = "manage" /\ step = "asked"
    BY <1>3 DEF OpenDetail, OpenMoney, OpenManage, Urls
  <2>2. /\ visit' \in [People -> Visits] /\ visit'[u].at = step
        /\ \A x \in People \ {u} : visit'[x] = visit[x]
    BY <1>0, <2>1, OpenTyped
  <2>3. told' \in [code : {200, 404, 503}, seen : SUBSET BOOLEAN, moved : BOOLEAN]
        /\ UNCHANGED <<page, grants, profiles, fresh, hidden>>
    BY <2>1 DEF Open, Untold
  <2> QED BY <2>1, <2>2, <2>3, QuietStep
<1>4. ASSUME NEW u \in People, FindCaller(u) PROVE CacheInv'
  <2>1. UNCHANGED <<page, grants, profiles, fresh, hidden>> BY <1>4 DEF FindCaller
  <2>2. CASE u \in profiles
    <3>1. AtVisit(u, "known") /\ told' = told BY <1>4, <2>2 DEF FindCaller
    <3>2. /\ visit' \in [People -> Visits] /\ visit'[u].at = "known"
          /\ \A x \in People \ {u} : visit'[x] = visit[x]
      BY <1>0, <3>1, KnownTyped
    <3> QED BY <1>0, <2>1, <3>1, <3>2, QuietStep
  <2>3. CASE u \notin profiles
    <3>1. Leave(u) /\ Tell(u, 404) BY <1>4, <2>3 DEF FindCaller
    <3>2. /\ visit' \in [People -> Visits] /\ visit'[u].at = "idle"
          /\ \A x \in People \ {u} : visit'[x] = visit[x]
      BY <1>0, <3>1, LeaveTyped
    <3>3. told' \in [code : {200, 404, 503}, seen : SUBSET BOOLEAN, moved : BOOLEAN]
      BY <1>0, <3>1, TellTyped
    <3> QED BY <2>1, <3>2, <3>3, QuietStep
  <2> QED BY <2>2, <2>3
<1>5. ASSUME NEW u \in People, ReadPage(u) PROVE CacheInv'
  <2>1. /\ visit' \in [People -> Visits]
        /\ visit'[u].at = "read" /\ visit'[u].copy = page /\ visit'[u].op = visit[u].op
        /\ visit'[u].age = visit[u].age
        /\ \A x \in People \ {u} : visit'[x] = visit[x]
    BY <1>0, <1>5, ReadTyped
  <2>2. ~Missing(visit[u].op) /\ UNCHANGED <<page, grants, profiles, fresh, hidden, told>>
    BY <1>5 DEF ReadPage
  <2>3. visit[u].age \in Nat BY <1>0 DEF Visits
  <2>4. page.status = "published" => hidden <= visit[u].age
    BY <2>3 DEF CacheInv, PublishedNow
  <2>5. ShownRecently' BY <2>1, <2>2, <2>4 DEF CacheInv, ShownRecently
  <2>6. MoneyIsPublished' BY <2>1, <2>2 DEF CacheInv, MoneyIsPublished, Missing
  <2>7. VisTypeOK' BY <1>0, <2>1, <2>2 DEF VisTypeOK
  <2> QED BY <2>2, <2>5, <2>6, <2>7 DEF CacheInv, PublishedNow, CopiesShort
<1>6. ASSUME NEW u \in People,
             ReadNothing(u) \/ AnswerManage(u) \/ ResolverDown(u) \/ VisitFails(u)
      PROVE  CacheInv'
  <2>1. Leave(u) /\ UNCHANGED <<page, grants, profiles, fresh, hidden>>
    BY <1>6 DEF ReadNothing, AnswerManage, ResolverDown, VisitFails
  <2>2. told' = told \/ \E code \in {200, 404, 503} : Tell(u, code)
    BY <1>6 DEF ReadNothing, AnswerManage, ResolverDown, VisitFails, Verdict, OutageCode
  <2>3. told' \in [code : {200, 404, 503}, seen : SUBSET BOOLEAN, moved : BOOLEAN]
    BY <1>0, <2>2, TellTyped
  <2>4. /\ visit' \in [People -> Visits] /\ visit'[u].at = "idle"
        /\ \A x \in People \ {u} : visit'[x] = visit[x]
    BY <1>0, <2>1, LeaveTyped
  <2> QED BY <2>1, <2>3, <2>4, QuietStep
<1>7. ASSUME NEW u \in People, AnswerDetail(u) PROVE CacheInv'
  <2>1. /\ visit[u].at = "read" /\ Leave(u)
        /\ UNCHANGED <<page, grants, profiles, hidden, told>>
    BY <1>7 DEF AnswerDetail
  <2>2. CASE Cacheable(u)
    <3>1. fresh' = [fresh EXCEPT !["detail"] = Life] /\ visit[u].copy.status = "published"
      BY <1>7, <2>2 DEF AnswerDetail, Cacheable
    <3>2. hidden <= visit[u].age BY <2>1, <3>1 DEF CacheInv, ShownRecently
    <3> QED BY <2>1, <3>1, <3>2, StoreStep DEF Urls
  <2>3. CASE ~Cacheable(u)
    <3>1. fresh' = fresh BY <1>7, <2>3 DEF AnswerDetail
    <3>2. /\ visit' \in [People -> Visits] /\ visit'[u].at = "idle"
          /\ \A x \in People \ {u} : visit'[x] = visit[x]
      BY <1>0, <2>1, LeaveTyped
    <3> QED BY <1>0, <2>1, <3>1, <3>2, QuietStep
  <2> QED BY <2>2, <2>3
<1>8. ASSUME NEW u \in People, AnswerMoney(u) PROVE CacheInv'
  <2>1. /\ visit[u].at = "read" /\ visit[u].op = "money" /\ Leave(u)
        /\ fresh' = [fresh EXCEPT !["money"] = Life]
        /\ UNCHANGED <<page, grants, profiles, hidden, told>>
    BY <1>8 DEF AnswerMoney
  <2>2. hidden <= visit[u].age BY <2>1 DEF CacheInv, ShownRecently, MoneyIsPublished
  <2> QED BY <2>1, <2>2, StoreStep DEF Urls
<1>9. CASE UNCHANGED visVars
  BY <1>9 DEF visVars, CacheInv, VisTypeOK, ShownRecently, MoneyIsPublished, PublishedNow, CopiesShort
<1> QED BY <1>1, <1>2, <1>3, <1>4, <1>5, <1>6, <1>7, <1>8, <1>9 DEF VisNext, VisChange

LEMMA CacheInvAlways == VisSpec => []CacheInv
BY CacheInvInit, CacheInvNext, PTL DEF VisSpec

(* Every reachable state is well typed. *)
THEOREM VisTyped == VisSpec => []VisTypeOK
<1>1. CacheInv => VisTypeOK BY DEF CacheInv
<1> QED BY <1>1, CacheInvAlways, PTL

(* What is no longer published is gone from every shared cache one request *)
(* and one cache life later.                                               *)
THEOREM WithdrawnIsSoonGone == VisSpec => []HiddenSoonGone
<1>1. CacheInv => HiddenSoonGone
  <2> SUFFICES ASSUME CacheInv, NEW v \in Urls, fresh[v] > 0 PROVE hidden < Life + Wait
    BY DEF HiddenSoonGone
  <2>1. fresh[v] \in Nat /\ hidden \in Nat /\ Life \in Nat /\ Wait \in Nat
    BY VisibilityAssumption DEF CacheInv, VisTypeOK, Forgotten
  <2> QED BY <2>1 DEF CacheInv, CopiesShort
<1> QED BY <1>1, CacheInvAlways, PTL

-----------------------------------------------------------------------------
LEMMA ToldInvInit == VisInit => ToldInv
<1> SUFFICES ASSUME VisInit PROVE ToldInv
  OBVIOUS
<1>1. VisTypeOK BY TypedInit
<1>2. \A u \in People : visit[u].at = "idle" BY NoVisitTyped DEF VisInit
<1>3. told.code = 503 BY NoVisitTyped DEF VisInit
<1> QED BY <1>1, <1>2, <1>3 DEF ToldInv, SeenNow, CallerFound, CopyCurrent, ManageToldTruth

(* One request moves on without a look at the row, or ends. *)
LEMMA MoveStep ==
  ASSUME ToldInv, VisTypeOK', NEW u \in People,
         \A x \in People \ {u} : visit'[x] = visit[x],
         visit'[u].at # "read",
         visit'[u].at # "idle" => May(u, page, grants, profiles) \in visit'[u].seen,
         visit'[u].at = "known" /\ visit'[u].op = "manage" => u \in profiles,
         UNCHANGED <<page, grants, profiles>>,
         ManageToldTruth'
  PROVE  ToldInv'
<1>1. SeenNow' BY DEF ToldInv, SeenNow, SeenBy, May
<1>2. CallerFound' BY DEF ToldInv, CallerFound
<1>3. CopyCurrent' BY DEF ToldInv, CopyCurrent
<1> QED BY <1>1, <1>2, <1>3 DEF ToldInv

(* The answer that what a request has seen allows. *)
HonestCode(u, code) ==
  ~visit[u].moved =>
    /\ code = 404 => FALSE \in visit[u].seen
    /\ code = 200 => TRUE \in visit[u].seen

LEMMA CodesDiffer == 404 # 200 /\ 503 # 200 /\ 503 # 404
OBVIOUS

LEMMA TellStep ==
  ASSUME VisTypeOK, NEW u \in People, NEW code \in {200, 404, 503}, Tell(u, code), HonestCode(u, code)
  PROVE  ManageToldTruth'
<1>1. told'.code = code /\ told'.seen = visit[u].seen /\ told'.moved = visit[u].moved
  BY DEF Tell
<1> QED BY <1>1 DEF ManageToldTruth, HonestCode

LEMMA ToldInvNext == ToldInv /\ [VisNext]_visVars => ToldInv'
<1> SUFFICES ASSUME ToldInv, [VisNext]_visVars PROVE ToldInv'
  OBVIOUS
<1>0. /\ VisTypeOK /\ visit \in [People -> Visits]
      /\ told \in [code : {200, 404, 503}, seen : SUBSET BOOLEAN, moved : BOOLEAN]
  BY DEF ToldInv, VisTypeOK
<1>1. ASSUME VisChange PROVE ToldInv'
  <2>1. Changed BY <1>0, <1>1, ChangeIsSeen
  <2>2. \A u \in People :
          /\ visit'[u].at = visit[u].at /\ visit'[u].op = visit[u].op
          /\ visit'[u].copy = visit[u].copy
          /\ visit[u].at # "idle" =>
               /\ visit'[u].seen = visit[u].seen \cup {May(u, page', grants', profiles')}
               /\ ~visit'[u].moved =>
                    ~visit[u].moved /\ page'.attr = page.attr /\ page'.status # "gone"
    BY <1>0, <2>1, WatchTyped DEF Changed
  <2>3. SeenNow' BY <2>2 DEF SeenNow, SeenBy
  <2>4. CallerFound' BY <2>1, <2>2 DEF ToldInv, CallerFound, Changed
  <2>5. CopyCurrent' BY <2>2 DEF ToldInv, CopyCurrent
  <2>6. ManageToldTruth' BY <2>1 DEF ToldInv, ManageToldTruth, Changed
  <2> QED BY <2>1, <2>3, <2>4, <2>5, <2>6 DEF ToldInv, Changed
<1>2. ASSUME Tick0 PROVE ToldInv'
  <2>1. /\ VisTypeOK'
        /\ \A u \in People :
             /\ visit'[u].at = visit[u].at /\ visit'[u].op = visit[u].op
             /\ visit'[u].copy = visit[u].copy /\ visit'[u].seen = visit[u].seen
             /\ visit'[u].moved = visit[u].moved
    BY <1>0, <1>2, TickTyped
  <2>2. UNCHANGED <<page, grants, profiles, told>> BY <1>2 DEF Tick0
  <2>3. SeenNow' BY <2>1, <2>2 DEF ToldInv, SeenNow, SeenBy, May
  <2>4. CallerFound' /\ CopyCurrent' BY <2>1, <2>2 DEF ToldInv, CallerFound, CopyCurrent
  <2>5. ManageToldTruth' BY <2>2 DEF ToldInv, ManageToldTruth
  <2> QED BY <2>1, <2>3, <2>4, <2>5 DEF ToldInv
<1>3. ASSUME NEW u \in People, OpenDetail(u) \/ OpenMoney(u) \/ OpenManage(u) PROVE ToldInv'
  <2>1. PICK op, step : /\ Open(u, op, step)
                        /\ \/ op \in Urls /\ step = "known"
                           \/ op = "manage" /\ step = "asked"
    BY <1>3 DEF OpenDetail, OpenMoney, OpenManage, Urls
  <2>2. /\ visit' \in [People -> Visits] /\ visit'[u].at = step /\ visit'[u].op = op
        /\ May(u, page, grants, profiles) \in visit'[u].seen
        /\ \A x \in People \ {u} : visit'[x] = visit[x]
    BY <1>0, <2>1, OpenTyped
  <2>3. UNCHANGED <<page, grants, profiles, fresh, hidden>> /\ told' = Untold BY <2>1 DEF Open
  <2>4. ManageToldTruth' BY <2>3 DEF ManageToldTruth, Untold
  <2>5. VisTypeOK' BY <1>0, <2>2, <2>3 DEF VisTypeOK, Untold
  <2>6. "manage" \notin Urls BY DEF Urls
  <2> QED BY <2>1, <2>2, <2>3, <2>4, <2>5, <2>6, MoveStep
<1>4. ASSUME NEW u \in People, FindCaller(u) PROVE ToldInv'
  <2>1. visit[u].at = "asked" /\ UNCHANGED <<page, grants, profiles, fresh, hidden>>
    BY <1>4 DEF FindCaller
  <2>2. CASE u \in profiles
    <3>1. AtVisit(u, "known") /\ told' = told BY <1>4, <2>2 DEF FindCaller
    <3>2. /\ visit' \in [People -> Visits] /\ visit'[u].at = "known"
          /\ visit'[u].seen = visit[u].seen
          /\ \A x \in People \ {u} : visit'[x] = visit[x]
      BY <1>0, <3>1, KnownTyped
    <3>3. VisTypeOK' BY <1>0, <2>1, <3>1, <3>2 DEF VisTypeOK
    <3>4. May(u, page, grants, profiles) \in visit'[u].seen
      BY <2>1, <3>2 DEF ToldInv, SeenNow, SeenBy
    <3>5. ManageToldTruth' BY <3>1 DEF ToldInv, ManageToldTruth
    <3> QED BY <2>1, <2>2, <3>2, <3>3, <3>4, <3>5, MoveStep
  <2>3. CASE u \notin profiles
    <3>1. Leave(u) /\ Tell(u, 404) BY <1>4, <2>3 DEF FindCaller
    <3>2. /\ visit' \in [People -> Visits] /\ visit'[u].at = "idle"
          /\ \A x \in People \ {u} : visit'[x] = visit[x]
      BY <1>0, <3>1, LeaveTyped
    <3>3. told' \in [code : {200, 404, 503}, seen : SUBSET BOOLEAN, moved : BOOLEAN]
      BY <1>0, <3>1, TellTyped
    <3>4. VisTypeOK' BY <1>0, <2>1, <3>2, <3>3 DEF VisTypeOK
    <3>5. FALSE \in visit[u].seen
      <4>1. May(u, page, grants, profiles) = FALSE BY <2>3 DEF May
      <4> QED BY <2>1, <4>1 DEF ToldInv, SeenNow, SeenBy
    <3>6. HonestCode(u, 404) BY <3>5, CodesDiffer DEF HonestCode
    <3>7. ManageToldTruth' BY <1>0, <3>1, <3>6, TellStep
    <3> QED BY <2>1, <3>2, <3>4, <3>7, MoveStep
  <2> QED BY <2>2, <2>3
<1>5. ASSUME NEW u \in People, ReadPage(u) PROVE ToldInv'
  <2>1. /\ visit' \in [People -> Visits]
        /\ visit'[u].at = "read" /\ visit'[u].copy = page /\ visit'[u].op = visit[u].op
        /\ visit'[u].seen = visit[u].seen
        /\ \A x \in People \ {u} : visit'[x] = visit[x]
    BY <1>0, <1>5, ReadTyped
  <2>2. /\ visit[u].at = "known" /\ ~Missing(visit[u].op)
        /\ UNCHANGED <<page, grants, profiles, fresh, hidden, told>>
    BY <1>5 DEF ReadPage
  <2>3. SeenNow' BY <2>1, <2>2 DEF ToldInv, SeenNow, SeenBy, May
  <2>4. CallerFound' BY <2>1, <2>2 DEF ToldInv, CallerFound
  <2>5. CopyCurrent' BY <2>1, <2>2 DEF ToldInv, CopyCurrent, Missing
  <2>6. VisTypeOK' BY <1>0, <2>1, <2>2 DEF VisTypeOK
  <2> QED BY <2>2, <2>3, <2>4, <2>5, <2>6 DEF ToldInv, ManageToldTruth
<1>6. ASSUME NEW u \in People,
             \/ ReadNothing(u) \/ AnswerManage(u) \/ ResolverDown(u) \/ VisitFails(u)
             \/ AnswerDetail(u) \/ AnswerMoney(u)
      PROVE  ToldInv'
  <2>1. Leave(u) /\ UNCHANGED <<page, grants, profiles, hidden>>
    BY <1>6 DEF ReadNothing, AnswerManage, ResolverDown, VisitFails, AnswerDetail, AnswerMoney
  <2>2. /\ visit' \in [People -> Visits] /\ visit'[u].at = "idle"
        /\ \A x \in People \ {u} : visit'[x] = visit[x]
    BY <1>0, <2>1, LeaveTyped
  <2>3. fresh' \in [Urls -> 0 .. Life]
    <3>1. Life \in 0 .. Life BY VisibilityAssumption
    <3>2. fresh \in [Urls -> 0 .. Life] BY <1>0 DEF VisTypeOK
    <3> QED BY <1>6, <3>1, <3>2
            DEF ReadNothing, AnswerManage, ResolverDown, VisitFails, AnswerDetail, AnswerMoney
  <2>4. \/ told' = told
        \/ \E code \in {200, 404, 503} : Tell(u, code) /\ HonestCode(u, code)
    <3>1. CASE ReadNothing(u)
      <4>1. CASE visit[u].op = "manage"
        <5>1. Tell(u, 404) /\ visit[u].at = "known" /\ page.status = "gone"
          BY <3>1, <4>1 DEF ReadNothing, Missing
        <5>2. May(u, page, grants, profiles) = FALSE BY <5>1 DEF May
        <5>3. FALSE \in visit[u].seen BY <5>1, <5>2 DEF ToldInv, SeenNow, SeenBy
        <5>4. HonestCode(u, 404) BY <5>3, CodesDiffer DEF HonestCode
        <5> QED BY <5>1, <5>4
      <4>2. CASE visit[u].op # "manage"
        BY <3>1, <4>2 DEF ReadNothing
      <4> QED BY <4>1, <4>2
    <3>2. CASE AnswerManage(u)
      <4>1. visit[u].at = "read" /\ visit[u].op = "manage" /\ Tell(u, Verdict(u))
        BY <3>2 DEF AnswerManage
      <4>2. SeenBy(u) /\ u \in profiles BY <4>1 DEF ToldInv, SeenNow, CallerFound
      <4>3. CASE u = Author \/ <<u, visit[u].copy.attr>> \in grants
        <5>1. Verdict(u) = 200 BY <4>3 DEF Verdict
        <5>2. ~visit[u].moved => TRUE \in visit[u].seen
          <6> SUFFICES ASSUME ~visit[u].moved PROVE TRUE \in visit[u].seen
            OBVIOUS
          <6>1. page.status # "gone" /\ visit[u].copy.attr = page.attr
            BY <4>1 DEF ToldInv, CopyCurrent
          <6>2. May(u, page, grants, profiles) = TRUE BY <4>2, <4>3, <6>1 DEF May
          <6> QED BY <4>2, <6>2 DEF SeenBy
        <5>3. HonestCode(u, 200) BY <5>2, CodesDiffer DEF HonestCode
        <5> QED BY <4>1, <5>1, <5>3
      <4>4. CASE ~(u = Author \/ <<u, visit[u].copy.attr>> \in grants)
        <5>1. Verdict(u) = 404 BY <4>4 DEF Verdict
        <5>2. ~visit[u].moved => FALSE \in visit[u].seen
          <6> SUFFICES ASSUME ~visit[u].moved PROVE FALSE \in visit[u].seen
            OBVIOUS
          <6>1. visit[u].copy.attr = page.attr
            BY <4>1 DEF ToldInv, CopyCurrent
          <6>2. May(u, page, grants, profiles) = FALSE BY <4>4, <6>1 DEF May
          <6> QED BY <4>2, <6>2 DEF SeenBy
        <5>3. HonestCode(u, 404) BY <5>2, CodesDiffer DEF HonestCode
        <5> QED BY <4>1, <5>1, <5>3
      <4> QED BY <4>3, <4>4
    <3>3. CASE ResolverDown(u)
      <4>1. Tell(u, 503) BY <3>3 DEF ResolverDown, OutageCode
      <4>2. HonestCode(u, 503) BY DEF HonestCode
      <4> QED BY <4>1, <4>2
    <3>4. CASE VisitFails(u) \/ AnswerDetail(u) \/ AnswerMoney(u)
      BY <3>4 DEF VisitFails, AnswerDetail, AnswerMoney
    <3> QED BY <1>6, <3>1, <3>2, <3>3, <3>4
  <2>5. ManageToldTruth'
    <3>1. CASE told' = told BY <3>1 DEF ToldInv, ManageToldTruth
    <3>2. CASE told' # told BY <1>0, <2>4, <3>2, TellStep
    <3> QED BY <3>1, <3>2
  <2>6. told' \in [code : {200, 404, 503}, seen : SUBSET BOOLEAN, moved : BOOLEAN]
    BY <1>0, <2>4, TellTyped
  <2>7. VisTypeOK' BY <1>0, <2>1, <2>2, <2>3, <2>6 DEF VisTypeOK
  <2>8. UNCHANGED <<page, grants, profiles>> BY <2>1
  <2>9. visit'[u].at # "read" /\ visit'[u].at # "known" BY <2>2
  <2>10. visit'[u].at # "idle" => May(u, page, grants, profiles) \in visit'[u].seen BY <2>2
  <2> QED BY <2>2, <2>5, <2>7, <2>8, <2>9, <2>10, MoveStep
<1>7. CASE UNCHANGED visVars
  <2>1. UNCHANGED <<page, grants, profiles, visit, fresh, hidden, told>> BY <1>7 DEF visVars
  <2>2. VisTypeOK' BY <1>0, <2>1 DEF VisTypeOK
  <2>3. SeenNow' BY <2>1 DEF ToldInv, SeenNow, SeenBy, May
  <2>4. CallerFound' /\ CopyCurrent' BY <2>1 DEF ToldInv, CallerFound, CopyCurrent
  <2>5. ManageToldTruth' BY <2>1 DEF ToldInv, ManageToldTruth
  <2> QED BY <2>2, <2>3, <2>4, <2>5 DEF ToldInv
<1> QED BY <1>1, <1>2, <1>3, <1>4, <1>5, <1>6, <1>7 DEF VisNext, VisChange

LEMMA ToldInvAlways == VisSpec => []ToldInv
BY ToldInvInit, ToldInvNext, PTL DEF VisSpec

(* Nobody is told that an initiative they may manage does not exist, nor   *)
(* shown one they may not, whatever changes while the request runs and     *)
(* however often fga-sync is down, unless the row moves meanwhile.         *)
THEOREM ManagersToldTruth == VisSpec => []ManageToldTruth
<1>1. ToldInv => ManageToldTruth BY DEF ToldInv
<1> QED BY <1>1, ToldInvAlways, PTL

------------------------------------------------------------------------------
(* Walks through transaction pages.  Rows keep their place from the oldest  *)
(* end; from the newest end, where the Ledger counts, they only move away.  *)
(* So a row the walk looks for and has passed is among those shown, and     *)
(* while nothing is booked those shown are the ones passed.                 *)
Unstarted   == walk.at = "idle" => walk.offset = 0 /\ walk.shown = {} /\ ~walk.twice
Aligned     == walk.from <= Len(booked) /\ walk.offset % Limit = 0
ShownOwn    == \A k \in walk.shown : k \in DOMAIN booked /\ Wanted(k)
PassedShown == walk.at \in {"asking", "over"} =>
  \A k \in 1 .. walk.from : LookedFor(k) /\ Rank(k) < walk.offset => k \in walk.shown
ShownPassed == walk.at = "asking" /\ Len(booked) = walk.from =>
  \A k \in walk.shown : Rank(k) < walk.offset
ShownOnce   == Len(booked) = walk.from => ~walk.twice
AllShown    == walk.at = "over" /\ ~walk.cut =>
  \A k \in 1 .. walk.from : LookedFor(k) => k \in walk.shown

PagesInv ==
  /\ PagesTypeOK /\ Unstarted /\ Aligned /\ ShownOwn
  /\ PassedShown /\ ShownPassed /\ ShownOnce /\ AllShown

(* The page of an offset holds the ranks from there on, Limit of them. *)
LEMMA PageSpan ==
  ASSUME NEW L \in Nat \ {0}, NEW o \in Nat, o % L = 0, NEW r \in Nat
  PROVE  (r \div L = o \div L) <=> (o <= r /\ r < o + L)
<1> DEFINE p == o \div L  q == r \div L
<1>1. o = L * p /\ p \in Nat OBVIOUS
<1>2. r = L * q + (r % L) /\ 0 <= r % L /\ r % L < L /\ q \in Nat /\ r % L \in Nat OBVIOUS
<1>3. \A m, n \in Nat : m < n => L * m + L <= L * n OBVIOUS
<1>4. L * p \in Nat /\ L * q \in Nat BY <1>1, <1>2
<1> HIDE DEF p, q
<1>5. CASE p = q BY <1>1, <1>2, <1>4, <1>5
<1>6. CASE q < p
  <2>1. L * q + L <= L * p BY <1>1, <1>2, <1>3, <1>6
  <2> QED BY <1>1, <1>2, <1>4, <1>6, <2>1
<1>7. CASE p < q
  <2>1. L * p + L <= L * q BY <1>1, <1>2, <1>3, <1>7
  <2> QED BY <1>1, <1>2, <1>4, <1>7, <2>1
<1> QED BY <1>1, <1>2, <1>5, <1>6, <1>7 DEF p, q

LEMMA NextOffset ==
  ASSUME NEW L \in Nat \ {0}, NEW o \in Nat, o % L = 0
  PROVE  (o + L) % L = 0
<1> DEFINE p == o \div L  r == o + L
<1>1. o = L * p /\ p \in Nat /\ L * (p + 1) = L * p + L OBVIOUS
<1>2. r \in Nat /\ r = L * (p + 1) BY <1>1
<1> HIDE DEF p, r
<1>3. \A q \in Nat : (L * q) % L = 0 OBVIOUS
<1> QED BY <1>1, <1>2, <1>3 DEF r

(* Ranks count from the newest listed row, each row at one of its own. *)
LEMMA Ranks ==
  ASSUME PagesTypeOK
  PROVE  /\ IsFiniteSet(Listed) /\ Listed \subseteq Nat /\ Cardinality(Listed) \in Nat
         /\ \A k : Rank(k) \in Nat
         /\ \A k \in Listed : Rank(k) < Cardinality(Listed)
         /\ \A j, k \in Listed : j < k => Rank(k) < Rank(j)
<1> DEFINE Above(k) == {j \in Listed : j > k}
<1>1. DOMAIN booked = 1 .. Len(booked) /\ Len(booked) \in Nat BY DEF PagesTypeOK
<1>2. IsFiniteSet(1 .. Len(booked)) BY <1>1, FS_Interval
<1>3. Listed \subseteq 1 .. Len(booked) BY <1>1 DEF Listed
<1>4. IsFiniteSet(Listed) /\ Listed \subseteq Nat
  <2>1. IsFiniteSet(Listed) BY <1>2, <1>3, FS_Subset, Zenon
  <2> QED BY <1>1, <1>3, <2>1
<1>5. \A k : IsFiniteSet(Above(k)) BY <1>4, FS_Subset
<1>6. \A k : Rank(k) = Cardinality(Above(k)) /\ Rank(k) \in Nat
  BY <1>5, FS_CardinalityType DEF Rank
<1>7. ASSUME NEW k \in Listed
      PROVE  IsFiniteSet(Above(k) \cup {k}) /\ Cardinality(Above(k) \cup {k}) = Rank(k) + 1
  <2>1. k \notin Above(k) BY <1>4
  <2> QED BY <1>5, <1>6, <2>1, FS_AddElement
<1> HIDE DEF Above
<1>8. Cardinality(Listed) \in Nat BY <1>4, FS_CardinalityType
<1>9. ASSUME NEW k \in Listed PROVE Rank(k) < Cardinality(Listed)
  <2>1. Above(k) \cup {k} \subseteq Listed BY DEF Above
  <2>2. Cardinality(Above(k) \cup {k}) <= Cardinality(Listed) BY <1>4, <2>1, FS_Subset
  <2> QED BY <1>6, <1>7, <1>8, <2>2
<1>10. ASSUME NEW j \in Listed, NEW k \in Listed, j < k PROVE Rank(k) < Rank(j)
  <2>1. \A i \in Listed : i > k => i > j BY <1>4, <1>10
  <2>2. k > j BY <1>4, <1>10
  <2>3. Above(k) \cup {k} \subseteq Above(j) BY <2>1, <2>2 DEF Above
  <2>4. Cardinality(Above(k) \cup {k}) <= Cardinality(Above(j)) BY <1>5, <2>3, FS_Subset
  <2> QED BY <1>6, <1>7, <2>4
<1> QED BY <1>4, <1>6, <1>8, <1>9, <1>10

LEMMA PageRows ==
  ASSUME PagesTypeOK, Aligned
  PROVE  /\ Page = {k \in Listed : walk.offset <= Rank(k) /\ Rank(k) < walk.offset + Limit}
         /\ IsFiniteSet(Page) /\ Cardinality(Page) \in Nat /\ Cardinality(Page) <= Limit
<1>1. /\ walk.offset \in Nat /\ walk.offset % Limit = 0 /\ Limit \in Nat \ {0}
      /\ \A k : Rank(k) \in Nat
  BY PagesAssumption, Ranks DEF PagesTypeOK, Walks, Aligned
<1>2. \A k : Rank(k) \div Limit = walk.offset \div Limit
             <=> (walk.offset <= Rank(k) /\ Rank(k) < walk.offset + Limit)
  BY <1>1, PageSpan
<1>3. Page = {k \in Listed : walk.offset <= Rank(k) /\ Rank(k) < walk.offset + Limit}
  BY <1>2 DEF Page
<1> DEFINE Span == walk.offset .. (walk.offset + Limit - 1)
           place == [k \in Page |-> Rank(k)]
<1>4. IsFiniteSet(Span) /\ Cardinality(Span) = Limit
  <2> DEFINE last == walk.offset + Limit - 1
  <2>1. walk.offset \in Int /\ last \in Int /\ ~(walk.offset > last)
        /\ last - walk.offset + 1 = Limit
    BY <1>1
  <2> HIDE DEF last
  <2>2. IsFiniteSet(walk.offset .. last) /\ Cardinality(walk.offset .. last) = Limit
    BY <2>1, FS_Interval
  <2> QED BY <2>2 DEF last
<1>5. place \in Injection(Page, Span)
  <2>1. place \in [Page -> Span] BY <1>1, <1>3
  <2>2. ASSUME NEW j \in Page, NEW k \in Page, place[j] = place[k] PROVE j = k
    <3>1. j \in Listed /\ k \in Listed /\ Rank(j) = Rank(k) BY <1>3, <2>2
    <3>2. j \in Nat /\ k \in Nat BY <3>1, Ranks
    <3>3. ~(j < k) /\ ~(k < j) BY <1>1, <3>1, Ranks
    <3> QED BY <3>2, <3>3
  <2> QED BY <2>1, <2>2 DEF Injection, IsInjective
<1> HIDE DEF Span, place
<1>6. IsFiniteSet(Page) /\ Cardinality(Page) <= Cardinality(Span) BY <1>4, <1>5, FS_Injection
<1>7. Cardinality(Page) \in Nat BY <1>6, FS_CardinalityType
<1> QED BY <1>3, <1>4, <1>6, <1>7

LEMMA MaxOfTwo ==
  ASSUME NEW a \in Int, NEW b \in Int
  PROVE  Max({a, b}) \in Int /\ a <= Max({a, b}) /\ b <= Max({a, b})
<1>1. \E x \in {a, b} : \A y \in {a, b} : x >= y OBVIOUS
<1>2. Max({a, b}) \in {a, b} /\ \A y \in {a, b} : Max({a, b}) >= y BY <1>1 DEF Max
<1> QED BY <1>2

(* Where the walk ends, no row lies behind the page, unless the service    *)
(* kept some of the page and dropped the rest.                             *)
LEMMA EndsAtTheEnd ==
  ASSUME PagesTypeOK, Aligned, ~(walk.offset + Limit < TotalCount),
         ~(HasMore /\ KeptRows \notin {{}, Page})
  PROVE  \A k \in Listed : Rank(k) < walk.offset + Limit
<1> DEFINE all == Cardinality(Listed)  here == Cardinality(Page)  kept == Cardinality(KeptRows)
           end == walk.offset + Limit
<1>1. walk.offset \in Nat /\ Limit \in Nat BY PagesAssumption DEF PagesTypeOK, Walks
<1>2. /\ all \in Nat
      /\ \A k \in Listed : Rank(k) < all /\ Rank(k) \in Nat
  BY Ranks
<1>3. IsFiniteSet(Page) /\ here \in Nat /\ here <= Limit BY PageRows
<1>4. IsFiniteSet(KeptRows) /\ kept \in Nat /\ (kept = 0 <=> KeptRows = {})
  BY <1>3, FS_Subset, FS_CardinalityType, FS_EmptySet DEF KeptRows
<1>5. TotalCount = IF walk.gifts THEN Clamp(all, here - kept, walk.offset, kept, HasMore) ELSE all
  BY DEF TotalCount
<1>6. HasMore <=> all > walk.offset + here BY DEF HasMore
<1>7. KeptRows = Page => kept = here OBVIOUS
<1> HIDE DEF all, here, kept
<1>8. all <= end
  <2>1. CASE ~walk.gifts BY <1>1, <1>2, <1>5, <2>1
  <2>2. CASE walk.gifts /\ ~HasMore BY <1>1, <1>2, <1>3, <1>6, <2>2
  <2>3. CASE walk.gifts /\ HasMore
    <3> DEFINE low == all - (here - kept)
               high == IF HasMore /\ kept = 0 THEN walk.offset + Limit + 1 ELSE walk.offset + kept
    <3>1. TotalCount = Max({low, high}) BY <1>5, <2>3 DEF Clamp
    <3>2. low \in Int /\ high \in Int BY <1>1, <1>2, <1>3, <1>4
    <3>3. TotalCount \in Int /\ low <= TotalCount /\ high <= TotalCount BY <3>1, <3>2, MaxOfTwo
    <3>4. TotalCount <= end BY <1>1, <3>3
    <3>5. KeptRows # {}
      <4>1. ASSUME KeptRows = {} PROVE FALSE
        <5>1. high = walk.offset + Limit + 1 BY <1>4, <2>3, <4>1
        <5> QED BY <1>1, <3>3, <3>4, <5>1
      <4> QED BY <4>1
    <3>6. kept = here BY <1>7, <2>3, <3>5
    <3>7. low = all BY <1>2, <1>3, <3>6
    <3> QED BY <1>1, <1>2, <3>3, <3>4, <3>7
  <2> QED BY <2>1, <2>2, <2>3
<1> QED BY <1>1, <1>2, <1>8

LEMMA BookedTyped ==
  ASSUME PagesTypeOK
  PROVE  /\ DOMAIN booked = 1 .. Len(booked) /\ Len(booked) \in Nat
         /\ walk \in Walks /\ walk.from \in Nat /\ walk.offset \in Nat
         /\ Listed \subseteq 1 .. Len(booked) /\ 1 .. Len(booked) \subseteq RowNums
<1>1. DOMAIN booked = 1 .. Len(booked) /\ Len(booked) \in Nat /\ Len(booked) <= MaxRows
  BY DEF PagesTypeOK
<1>2. walk \in Walks /\ walk.from \in Nat /\ walk.offset \in Nat
  BY PagesAssumption DEF PagesTypeOK, Walks
<1>3. Listed \subseteq 1 .. Len(booked) BY <1>1 DEF Listed
<1>4. 1 .. Len(booked) \subseteq RowNums BY <1>1, PagesAssumption DEF RowNums
<1> QED BY <1>1, <1>2, <1>3, <1>4

LEMMA PagesInvInit == PagesInit => PagesInv
<1> SUFFICES ASSUME PagesInit PROVE PagesInv
  OBVIOUS
<1>1. /\ booked = <<>> /\ Len(booked) = 0 /\ booked \in Seq(Rows)
      /\ walk = [at |-> "idle", who |-> Everyone, gifts |-> TRUE, honoured |-> TRUE, from |-> 0,
                 offset |-> 0, shown |-> {}, twice |-> FALSE, cut |-> FALSE]
  BY DEF PagesInit
<1>2. PagesTypeOK BY <1>1, PagesAssumption DEF PagesTypeOK, Walks
<1>3. 0 % Limit = 0 BY PagesAssumption
<1> QED BY <1>1, <1>2, <1>3
        DEF PagesInv, Unstarted, Aligned, ShownOwn, PassedShown, ShownPassed, ShownOnce, AllShown

(* The Ledger books a row. *)
LEMMA BookStep ==
  ASSUME PagesInv, NEW r \in Rows, Book(r)
  PROVE  PagesInv'
<1>0. PagesTypeOK BY DEF PagesInv
<1>1. booked' = Append(booked, r) /\ walk' = walk /\ Len(booked) < MaxRows BY DEF Book
<1>2. /\ booked' \in Seq(Rows) /\ Len(booked') = Len(booked) + 1 /\ Len(booked) \in Nat
      /\ DOMAIN booked' = 1 .. Len(booked') /\ DOMAIN booked = 1 .. Len(booked)
      /\ \A k \in DOMAIN booked : k \in DOMAIN booked' /\ booked'[k] = booked[k]
  BY <1>0, <1>1 DEF PagesTypeOK
<1>3. PagesTypeOK' BY <1>0, <1>1, <1>2, PagesAssumption DEF PagesTypeOK
<1>4. walk.from \in Nat /\ walk.from <= Len(booked) BY <1>0, BookedTyped DEF PagesInv, Aligned
<1>5. \A k \in 1 .. walk.from : k \in DOMAIN booked BY <1>2, <1>4
<1>6. \A k \in DOMAIN booked : (Wanted(k)' <=> Wanted(k)) /\ (LookedFor(k)' <=> LookedFor(k))
  BY <1>1, <1>2 DEF Wanted, LookedFor
<1>7. Listed \subseteq Listed' BY <1>1, <1>2, <1>6 DEF Listed
<1>8. IsFiniteSet(Listed')
  <2>1. IsFiniteSet(1 .. Len(booked')) BY <1>2, FS_Interval
  <2>2. Listed' \subseteq 1 .. Len(booked') BY <1>2 DEF Listed
  <2> QED BY <2>1, <2>2, FS_Subset, Zenon
<1>9. ASSUME NEW k PROVE Rank(k)' \in Nat /\ Rank(k) <= Rank(k)'
  <2> DEFINE old == {j \in Listed : j > k}  new == {j \in Listed' : j > k}
  <2>1. IsFiniteSet(new) BY <1>8, FS_Subset, Zenon
  <2>2. old \subseteq new BY <1>7
  <2>3. Cardinality(old) <= Cardinality(new) /\ Cardinality(new) \in Nat
    BY <2>1, <2>2, FS_Subset, FS_CardinalityType, Zenon
  <2> QED BY <2>3 DEF Rank
<1>10. PassedShown'
  <2> SUFFICES ASSUME walk.at \in {"asking", "over"}, NEW k \in 1 .. walk.from, LookedFor(k)',
                      Rank(k)' < walk.offset
               PROVE  k \in walk.shown
    BY <1>1 DEF PassedShown
  <2>1. LookedFor(k) BY <1>5, <1>6
  <2>2. Rank(k) \in Nat /\ walk.offset \in Nat BY <1>0, Ranks, BookedTyped
  <2>3. Rank(k) < walk.offset BY <1>9, <2>2
  <2> QED BY <2>1, <2>3 DEF PagesInv, PassedShown
<1>11. Len(booked') # walk'.from BY <1>1, <1>2, <1>4
<1>12. ShownPassed' /\ ShownOnce' BY <1>11 DEF ShownPassed, ShownOnce
<1>13. AllShown' BY <1>1, <1>5, <1>6 DEF PagesInv, AllShown
<1>14. Unstarted' BY <1>1 DEF PagesInv, Unstarted
<1>15. Aligned' BY <1>1, <1>2, <1>4 DEF PagesInv, Aligned
<1>16. ShownOwn' BY <1>1, <1>2, <1>6 DEF PagesInv, ShownOwn
<1> QED BY <1>3, <1>10, <1>12, <1>13, <1>14, <1>15, <1>16 DEF PagesInv

LEMMA StartStep ==
  ASSUME PagesInv, NEW who \in Donors \cup {Everyone}, NEW gifts \in BOOLEAN,
         NEW honoured \in BOOLEAN, StartWalk(who, gifts, honoured)
  PROVE  PagesInv'
<1>0. PagesTypeOK BY DEF PagesInv
<1>1. /\ walk.at = "idle" /\ booked' = booked
      /\ walk' = [walk EXCEPT !.at = "asking", !.who = who, !.gifts = gifts,
                              !.honoured = honoured, !.from = Len(booked)]
  BY DEF StartWalk
<1>2. /\ walk.offset = 0 /\ walk.shown = {} /\ ~walk.twice
      /\ Len(booked) \in Nat /\ Len(booked) <= MaxRows /\ walk \in Walks
  BY <1>0, <1>1, BookedTyped DEF PagesInv, Unstarted, PagesTypeOK
<1>3. /\ walk'.at = "asking" /\ walk'.from = Len(booked) /\ walk'.offset = 0
      /\ walk'.shown = {} /\ ~walk'.twice /\ walk' \in Walks
  <2> DEFINE n == Len(booked)
  <2>1. n \in 0 .. MaxRows BY <1>2, PagesAssumption
  <2> HIDE DEF n
  <2>2. walk' = [walk EXCEPT !.at = "asking", !.who = who, !.gifts = gifts,
                             !.honoured = honoured, !.from = n]
    BY <1>1 DEF n
  <2>3. walk' \in Walks BY <1>2, <2>1, <2>2 DEF Walks
  <2>4. walk'.at = "asking" /\ walk'.from = n BY <1>2, <2>2 DEF Walks
  <2>5. walk'.offset = 0 /\ walk'.shown = {} /\ walk'.twice = walk.twice
    BY <1>2, <2>2 DEF Walks
  <2> QED BY <1>2, <2>3, <2>4, <2>5 DEF n
<1>4. PagesTypeOK' BY <1>0, <1>1, <1>3 DEF PagesTypeOK
<1>5. \A k : Rank(k)' \in Nat
  <2>1. IsFiniteSet(1 .. Len(booked)) BY <1>2, FS_Interval
  <2>2. Listed' \subseteq 1 .. Len(booked) BY <1>0, <1>1, BookedTyped DEF Listed
  <2>3. \A k : IsFiniteSet({j \in Listed' : j > k}) BY <2>1, <2>2, FS_Subset, Zenon
  <2> QED BY <2>3, FS_CardinalityType DEF Rank
<1>6. PassedShown' BY <1>3, <1>5 DEF PassedShown
<1>7. Aligned' BY <1>1, <1>2, <1>3, PagesAssumption DEF Aligned
<1> QED BY <1>3, <1>4, <1>6, <1>7
        DEF PagesInv, Unstarted, ShownOwn, ShownPassed, ShownOnce, AllShown

(* A page is shown, or refused: what the walk looks for stays the same. *)
LEMMA SameWalk ==
  ASSUME UNCHANGED booked, walk'.who = walk.who, walk'.gifts = walk.gifts,
         walk'.honoured = walk.honoured
  PROVE  /\ Listed' = Listed
         /\ \A k : /\ Wanted(k)' <=> Wanted(k)
                   /\ LookedFor(k)' <=> LookedFor(k)
                   /\ Rank(k)' = Rank(k)
<1>1. \A k : Wanted(k)' <=> Wanted(k) BY DEF Wanted
<1>2. Listed' = Listed BY <1>1 DEF Listed
<1> QED BY <1>1, <1>2 DEF LookedFor, Rank

LEMMA RefuseStep ==
  ASSUME PagesInv, RefuseForeign
  PROVE  PagesInv'
<1>0. PagesTypeOK /\ walk \in Walks BY BookedTyped DEF PagesInv
<1>1. walk' = [walk EXCEPT !.at = "refused"] /\ booked' = booked BY DEF RefuseForeign
<1>2. /\ walk' \in Walks /\ walk'.at = "refused" /\ walk'.from = walk.from
      /\ walk'.offset = walk.offset /\ walk'.shown = walk.shown /\ walk'.twice = walk.twice
      /\ walk'.who = walk.who /\ walk'.gifts = walk.gifts /\ walk'.honoured = walk.honoured
  BY <1>0, <1>1 DEF Walks
<1>3. \A k : Wanted(k)' <=> Wanted(k) BY <1>1, <1>2, SameWalk
<1>4. PagesTypeOK' BY <1>0, <1>1, <1>2 DEF PagesTypeOK
<1>5. ShownOwn' BY <1>1, <1>2, <1>3 DEF PagesInv, ShownOwn
<1>6. Aligned' /\ ShownOnce' BY <1>1, <1>2 DEF PagesInv, Aligned, ShownOnce
<1> QED BY <1>2, <1>4, <1>5, <1>6 DEF PagesInv, Unstarted, PassedShown, ShownPassed, AllShown

LEMMA PageStep ==
  ASSUME PagesInv, NextPage
  PROVE  PagesInv'
<1>0. PagesTypeOK /\ Aligned /\ walk \in Walks BY BookedTyped DEF PagesInv
<1> DEFINE end == walk.offset + Limit
           cutHere == HasMore /\ KeptRows \notin {{}, Page}
           over == ~(end < TotalCount)
<1>1. /\ walk.at = "asking" /\ ~Foreign /\ booked' = booked
      /\ walk' = [walk EXCEPT
           !.shown  = @ \cup KeptRows,
           !.twice  = @ \/ KeptRows \cap walk.shown # {},
           !.cut    = @ \/ cutHere,
           !.offset = @ + Limit,
           !.at     = IF walk.offset + Limit < TotalCount THEN "asking" ELSE "over"]
  BY DEF NextPage
<1>2. /\ walk.offset \in Nat /\ Limit \in Nat \ {0} /\ end \in Nat /\ walk.offset < end
      /\ walk.from \in Nat /\ walk.from <= Len(booked) /\ Len(booked) \in Nat
      /\ DOMAIN booked = 1 .. Len(booked)
  BY <1>0, PagesAssumption, BookedTyped DEF Aligned
<1>3. /\ Page = {k \in Listed : walk.offset <= Rank(k) /\ Rank(k) < end}
      /\ \A k : Rank(k) \in Nat
  BY <1>0, PageRows, Ranks
<1>4. KeptRows \subseteq Page /\ KeptRows \subseteq DOMAIN booked /\ KeptRows \subseteq RowNums
  BY <1>0, <1>3, BookedTyped DEF KeptRows
<1>5. /\ walk' \in Walks /\ walk'.shown = walk.shown \cup KeptRows /\ walk'.offset = end
      /\ walk'.twice = (walk.twice \/ KeptRows \cap walk.shown # {})
      /\ walk'.cut = (walk.cut \/ cutHere)
      /\ walk'.at \in {"asking", "over"} /\ (walk'.at = "over" <=> over)
      /\ walk'.from = walk.from /\ walk'.who = walk.who /\ walk'.gifts = walk.gifts
      /\ walk'.honoured = walk.honoured
  <2> DEFINE shown == walk.shown \cup KeptRows
             twice == walk.twice \/ KeptRows \cap walk.shown # {}
             cut == walk.cut \/ cutHere
             at == IF end < TotalCount THEN "asking" ELSE "over"
  <2>1. /\ shown \in SUBSET RowNums /\ twice \in BOOLEAN /\ cut \in BOOLEAN
        /\ at \in {"asking", "over"} /\ (at = "over" <=> over)
    BY <1>0, <1>4 DEF Walks
  <2>2. walk' = [walk EXCEPT !.shown = shown, !.twice = twice, !.cut = cut, !.offset = end,
                             !.at = at]
    BY <1>1
  <2> HIDE DEF shown, twice, cut, at, over, cutHere, end
  <2>3. /\ walk' \in Walks /\ walk'.shown = shown /\ walk'.offset = end
        /\ walk'.twice = twice /\ walk'.cut = cut /\ walk'.at = at
        /\ walk'.from = walk.from /\ walk'.who = walk.who /\ walk'.gifts = walk.gifts
        /\ walk'.honoured = walk.honoured
    BY <1>0, <1>2, <2>1, <2>2 DEF Walks
  <2> QED BY <2>1, <2>3 DEF shown, twice, cut
<1>6. /\ Listed' = Listed
      /\ \A k : /\ Wanted(k)' <=> Wanted(k)
                /\ LookedFor(k)' <=> LookedFor(k)
                /\ Rank(k)' = Rank(k)
  BY <1>1, <1>5, SameWalk
<1> HIDE DEF cutHere, over, end
<1>7. ASSUME NEW k \in 1 .. walk.from, LookedFor(k), Rank(k) < end
      PROVE  k \in walk'.shown
  <2>1. k \in DOMAIN booked BY <1>2
  <2>2. k \in Listed BY <1>7, <2>1 DEF LookedFor, Listed
  <2>3. CASE Rank(k) < walk.offset BY <1>1, <1>5, <1>7, <2>3 DEF PagesInv, PassedShown
  <2>4. CASE walk.offset <= Rank(k)
    <3>1. k \in Page BY <1>3, <1>7, <2>2, <2>4
    <3> QED BY <1>5, <1>7, <3>1 DEF KeptRows, LookedFor
  <2> QED BY <1>2, <1>3, <2>3, <2>4
<1>8. PassedShown' BY <1>5, <1>6, <1>7 DEF PassedShown
<1>9. ASSUME Len(booked) = walk.from
      PROVE  /\ \A k \in walk'.shown : Rank(k) < end
             /\ KeptRows \cap walk.shown = {}
  <2>1. \A k \in walk.shown : Rank(k) < walk.offset BY <1>1, <1>9 DEF PagesInv, ShownPassed
  <2>2. \A k \in KeptRows : walk.offset <= Rank(k) /\ Rank(k) < end BY <1>3, <1>4
  <2>3. \A k \in walk.shown : Rank(k) < end BY <1>2, <1>3, <2>1
  <2>4. \A k \in KeptRows : ~(Rank(k) < walk.offset) BY <1>2, <1>3, <2>2
  <2> QED BY <1>5, <2>1, <2>2, <2>3, <2>4
<1>10. ShownPassed' BY <1>1, <1>5, <1>6, <1>9 DEF ShownPassed
<1>11. ShownOnce' BY <1>1, <1>5, <1>9 DEF PagesInv, ShownOnce
<1>12. AllShown'
  <2> SUFFICES ASSUME walk'.at = "over", ~walk'.cut, NEW k \in 1 .. walk.from, LookedFor(k)
               PROVE  k \in walk'.shown
    BY <1>5, <1>6 DEF AllShown
  <2>1. ~(walk.offset + Limit < TotalCount) /\ ~(HasMore /\ KeptRows \notin {{}, Page})
    BY <1>5 DEF over, end, cutHere
  <2>2. \A j \in Listed : Rank(j) < end BY <1>0, <2>1, EndsAtTheEnd DEF end
  <2>3. k \in DOMAIN booked BY <1>2
  <2>4. k \in Listed BY <2>3 DEF LookedFor, Listed
  <2> QED BY <1>7, <2>2, <2>4
<1>13. ShownOwn'
  <2>1. \A k \in KeptRows : k \in DOMAIN booked /\ Wanted(k) BY <1>1, <1>4 DEF Foreign
  <2> QED BY <1>1, <1>5, <1>6, <2>1 DEF PagesInv, ShownOwn
<1>14. Aligned'
  <2>1. end % Limit = 0 BY <1>0, <1>2, NextOffset DEF Aligned, end
  <2> QED BY <1>1, <1>2, <1>5, <2>1 DEF Aligned
<1>15. PagesTypeOK' BY <1>0, <1>1, <1>5 DEF PagesTypeOK
<1>16. Unstarted' BY <1>5 DEF Unstarted
<1> QED BY <1>8, <1>10, <1>11, <1>12, <1>13, <1>14, <1>15, <1>16 DEF PagesInv

LEMMA PagesInvNext == PagesInv /\ [PagesNext]_pagesVars => PagesInv'
<1>1. ASSUME PagesInv, UNCHANGED pagesVars PROVE PagesInv'
  <2>1. booked' = booked /\ walk' = walk BY <1>1 DEF pagesVars
  <2>2. /\ Listed' = Listed
        /\ \A k : /\ Wanted(k)' <=> Wanted(k)
                  /\ LookedFor(k)' <=> LookedFor(k)
                  /\ Rank(k)' = Rank(k)
    BY <2>1, SameWalk
  <2> QED BY <1>1, <2>1, <2>2
          DEF PagesInv, PagesTypeOK, Unstarted, Aligned, ShownOwn, PassedShown, ShownPassed,
              ShownOnce, AllShown
<1> QED BY <1>1, BookStep, StartStep, RefuseStep, PageStep DEF PagesNext

LEMMA PagesInvAlways == PagesSpec => []PagesInv
BY PagesInvInit, PagesInvNext, PTL DEF PagesSpec

(* Every reachable state is well typed. *)
THEOREM PagesTyped == PagesSpec => []PagesTypeOK
<1>1. PagesInv => PagesTypeOK BY DEF PagesInv
<1> QED BY <1>1, PagesInvAlways, PTL

(* A walk that asks while its offset is below the total it is answered has *)
(* shown every row it looks for that its offset has passed, nobody else's, *)
(* and none twice while nothing is booked.  At its end those are all that  *)
(* were there when it began, unless some page of it was kept in part (the  *)
(* code may then end the walk with pages left): for every page size, every *)
(* mix of donations and disbursements, and a Ledger that honours userID or *)
(* not.                                                                    *)
THEOREM WalksAreComplete == PagesSpec => []PagesComplete
<1>1. PagesInv => PagesComplete
  BY DEF PagesInv, ShownOwn, PassedShown, ShownOnce, AllShown, PagesComplete
<1> QED BY <1>1, PagesInvAlways, PTL

==================================================================================
