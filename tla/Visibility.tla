------------------------------- MODULE Visibility -------------------------------
(***************************************************************************)
(* Who gets to see an initiative, and who is told what: the public detail  *)
(* and transactions (handler/initiative_handler.go, GetByID and            *)
(* GetTransactions), which a shared cache may keep, and the manage read    *)
(* (GetForUser, GetTransactionsForUser), which asks fga-sync for the       *)
(* caller's role at the attributed entity (service/authz.go,               *)
(* infrastructure/fga/resolver.go).                                        *)
(*                                                                         *)
(* A request takes several reads; the row, the roles and the profiles      *)
(* change between them.  Time is counted in ticks, as ages.                *)
(***************************************************************************)
EXTENDS Integers, FiniteSets

CONSTANTS
  People,      \* callers
  Author,      \* the creator
  Approvers,   \* ALLOWED_APPROVERS
  Entities,    \* organizations and projects
  Personal,    \* attributed to nobody but the creator
  MaxVisits,   \* bound: requests under way at a time
  Life,        \* max-age and stale-while-revalidate of the public answers
  Wait         \* the longest request (the server's timeout)

ASSUME VisibilityAssumption ==
  /\ Life \in Nat \ {0} /\ Wait \in Nat \ {0}
  /\ Author \in People /\ Approvers \subseteq People
  /\ Personal \notin Entities

VARIABLES
  page,     \* the row: [status, attr]
  grants,   \* <<person, entity>>: writer at the entity, in fga-sync
  profiles, \* people with a users row
  visit,    \* of each person, the request under way: see Visits
  fresh,    \* of each public URL: ticks a shared cache may still serve its copy
  hidden,   \* ticks since the row was published, saturating at Forgotten
  told      \* the manage answer given last, until the next request: [code, seen, moved]

visVars == <<page, grants, profiles, visit, fresh, hidden, told>>

Urls      == {"detail", "money"}
Statuses0 == {"submitted", "published", "hidden", "gone"}
Forgotten == Life + Wait
PageRow   == [status : Statuses0, attr : Entities \cup {Personal}]

(* copy: the row as the request read it; seen: the answers that "may the   *)
(* caller manage it?" had during the request; moved: was the attribution   *)
(* changed, or the row deleted, during the request?                        *)
Visits == [op : Urls \cup {"manage", "none"}, at : {"idle", "asked", "known", "read"},
           age : 0 .. Wait, copy : PageRow, seen : SUBSET BOOLEAN, moved : BOOLEAN]

VisTypeOK ==
  /\ page \in PageRow
  /\ grants \subseteq People \X Entities
  /\ profiles \subseteq People
  /\ visit \in [People -> Visits]
  /\ fresh \in [Urls -> 0 .. Life]
  /\ hidden \in 0 .. Forgotten
  /\ told \in [code : {200, 404, 503}, seen : SUBSET BOOLEAN, moved : BOOLEAN]

Draft   == [status |-> "submitted", attr |-> Personal]
NoVisit == [op |-> "none", at |-> "idle", age |-> 0, copy |-> Draft, seen |-> {}, moved |-> FALSE]

Untold  == [code |-> 503, seen |-> {}, moved |-> FALSE]

VisInit ==
  /\ page = Draft
  /\ grants = {} /\ profiles = {Author}
  /\ visit = [u \in People |-> NoVisit]
  /\ fresh = [v \in Urls |-> 0]
  /\ hidden = Forgotten
  /\ told = Untold

-----------------------------------------------------------------------------
(* canManage, of the present state *)
May(u, pg, gr, pf) ==
  /\ pg.status # "gone" /\ u \in pf
  /\ u = Author \/ <<u, pg.attr>> \in gr

(* What the requests under way live through when the state changes. *)
Watch(pg, gr, pf) ==
  /\ page' = pg /\ grants' = gr /\ profiles' = pf
  /\ visit' = [u \in People |->
       IF visit[u].at = "idle" THEN visit[u]
       ELSE [visit[u] EXCEPT !.seen = @ \cup {May(u, pg, gr, pf)},
                             !.moved = @ \/ pg.attr # page.attr \/ pg.status = "gone"]]

(* Approval, decline, hiding, resubmission, deletion (see Initiatives). *)
SetStatus(s) ==
  /\ page.status # "gone" /\ s # page.status
  /\ Watch([page EXCEPT !.status = s], grants, profiles)
  /\ hidden' = IF s = "published" THEN 0 ELSE hidden
  /\ UNCHANGED <<fresh, told>>

(* By UpdateAttribution, or by an edit that writes back the row it read    *)
(* before (see Initiatives), whatever the status is by then.               *)
Reattribute(a) ==
  /\ page.status # "gone" /\ a # page.attr
  /\ Watch([page EXCEPT !.attr = a], grants, profiles)
  /\ UNCHANGED <<fresh, hidden, told>>

SetGrant(u, e) ==
  /\ Watch(page, IF <<u, e>> \in grants THEN grants \ {<<u, e>>} ELSE grants \cup {<<u, e>>}, profiles)
  /\ UNCHANGED <<fresh, hidden, told>>

SyncUser(u) ==
  /\ u \notin profiles
  /\ Watch(page, grants, profiles \cup {u})
  /\ UNCHANGED <<fresh, hidden, told>>

(* Copies age; a copy of a published row was published a moment ago. *)
Tick0 ==
  /\ \A u \in People : visit[u].at # "idle" => visit[u].age < Wait
  /\ visit' = [u \in People |-> IF visit[u].at = "idle" THEN visit[u]
                                ELSE [visit[u] EXCEPT !.age = @ + 1]]
  /\ fresh' = [v \in Urls |-> IF fresh[v] = 0 THEN 0 ELSE fresh[v] - 1]
  /\ hidden' = IF page.status = "published" THEN 0
               ELSE IF hidden = Forgotten THEN Forgotten ELSE hidden + 1
  /\ UNCHANGED <<page, grants, profiles, told>>

-----------------------------------------------------------------------------
AtVisit(u, step) == visit' = [visit EXCEPT ![u].at = step]
Leave(u)         == visit' = [visit EXCEPT ![u] = NoVisit]

Open(u, op, step) ==
  /\ visit[u].at = "idle"
  /\ Cardinality({v \in People : visit[v].at # "idle"}) < MaxVisits
  /\ visit' = [visit EXCEPT ![u] = [NoVisit EXCEPT
                 !.op = op, !.at = step, !.seen = {May(u, page, grants, profiles)}]]
  /\ told' = Untold
  /\ UNCHANGED <<page, grants, profiles, fresh, hidden>>

(* GetByID and GetTransactions ask for no caller: an anonymous reader is a *)
(* person whose role nobody looks at.  GetForUser wants the caller's row.  *)
OpenDetail(u) == Open(u, "detail", "known")
OpenMoney(u)  == Open(u, "money", "known")
OpenManage(u) == Open(u, "manage", "asked")

Tell(u, code) == told' = [code |-> code, seen |-> visit[u].seen, moved |-> visit[u].moved]

(* An unknown caller cannot own anything: 404. *)
FindCaller(u) ==
  /\ visit[u].at = "asked"
  /\ IF u \in profiles THEN AtVisit(u, "known") /\ UNCHANGED told
     ELSE Leave(u) /\ Tell(u, 404)
  /\ UNCHANGED <<page, grants, profiles, fresh, hidden>>

(* For its transactions a row must be published (CheckPublishedByID, and   *)
(* the WHERE of GetIDBySlug).                                              *)
Missing(op) == page.status = "gone" \/ (op = "money" /\ page.status # "published")

(* GetByID or GetBySlug *)
ReadPage(u) ==
  /\ visit[u].at = "known" /\ ~Missing(visit[u].op)
  /\ visit' = [visit EXCEPT ![u] = [@ EXCEPT !.at = "read", !.copy = page]]
  /\ UNCHANGED <<page, grants, profiles, fresh, hidden, told>>

ReadNothing(u) ==
  /\ visit[u].at = "known" /\ Missing(visit[u].op)
  /\ Leave(u)
  /\ IF visit[u].op = "manage" THEN Tell(u, 404) ELSE UNCHANGED told
  /\ UNCHANGED <<page, grants, profiles, fresh, hidden>>

(* GetByID, after further reads of the row's tables and of the Ledger:     *)
(* shared caches may keep the answer for a published row; an approver's is *)
(* private, no-store; others are told 404.  The mutant caches what the     *)
(* approver saw.                                                           *)
Cacheable_Approver(u) == visit[u].copy.status = "published" \/ u \in Approvers
Cacheable(u) == visit[u].copy.status = "published"
AnswerDetail(u) ==
  /\ visit[u].at = "read" /\ visit[u].op = "detail"
  /\ fresh' = IF Cacheable(u) THEN [fresh EXCEPT !["detail"] = Life] ELSE fresh
  /\ Leave(u)
  /\ UNCHANGED <<page, grants, profiles, hidden, told>>

(* writeTransactions, with the Ledger's answer: always cacheable. *)
AnswerMoney(u) ==
  /\ visit[u].at = "read" /\ visit[u].op = "money"
  /\ fresh' = [fresh EXCEPT !["money"] = Life]
  /\ Leave(u)
  /\ UNCHANGED <<page, grants, profiles, hidden, told>>

(* canManage, of the row as it was read; private, no-store. *)
Verdict(u) ==
  IF u = Author \/ <<u, visit[u].copy.attr>> \in grants THEN 200 ELSE 404

AnswerManage(u) ==
  /\ visit[u].at = "read" /\ visit[u].op = "manage"
  /\ Tell(u, Verdict(u))
  /\ Leave(u)
  /\ UNCHANGED <<page, grants, profiles, fresh, hidden>>

(* No reply of fga-sync, or one without a result for the check; the mutant *)
(* takes it for "no".                                                      *)
OutageCode_No == 404
OutageCode == 503
ResolverDown(u) ==
  /\ visit[u].at = "read" /\ visit[u].op = "manage"
  /\ u # Author /\ visit[u].copy.attr # Personal
  /\ Tell(u, OutageCode)
  /\ Leave(u)
  /\ UNCHANGED <<page, grants, profiles, fresh, hidden>>

(* Any other error: 500. *)
VisitFails(u) ==
  /\ visit[u].at # "idle"
  /\ Leave(u)
  /\ UNCHANGED <<page, grants, profiles, fresh, hidden, told>>

VisNext ==
  \/ \E s \in Statuses0 : SetStatus(s)
  \/ \E a \in Entities \cup {Personal} : Reattribute(a)
  \/ Tick0
  \/ \E u \in People :
       \/ \E e \in Entities : SetGrant(u, e)
       \/ SyncUser(u)
       \/ OpenDetail(u) \/ OpenMoney(u) \/ OpenManage(u)
       \/ FindCaller(u) \/ ReadPage(u) \/ ReadNothing(u)
       \/ AnswerDetail(u) \/ AnswerMoney(u) \/ AnswerManage(u)
       \/ ResolverDown(u) \/ VisitFails(u)

VisSpec == VisInit /\ [][VisNext]_visVars

-----------------------------------------------------------------------------
(* An initiative that was hidden, declined or deleted is gone from every   *)
(* shared cache at most one request and one cache life later, whatever     *)
(* approvers and managers read meanwhile ("Approver-only response: shared  *)
(* caches must not store it", GetByID).                                    *)
HiddenSoonGone == \A v \in Urls : fresh[v] > 0 => hidden < Life + Wait

(* Nobody is told "no such initiative" who could manage it throughout the  *)
(* request, and nobody is shown it who never could: an outage is neither   *)
(* ("must never turn that into a false/404; it must surface as 503",       *)
(* CanManage).  Only a request whose row is attributed anew or deleted     *)
(* meanwhile may be answered by a role at the former entity.               *)
ManageToldTruth ==
  ~told.moved =>
    /\ told.code = 404 => FALSE \in told.seen
    /\ told.code = 200 => TRUE \in told.seen

=============================================================================
