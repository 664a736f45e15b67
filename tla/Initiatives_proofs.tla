--------------------------- MODULE Initiatives_proofs ---------------------------
(***************************************************************************)
(* Proofs about Initiatives, for any set of requests and of targets: the   *)
(* type invariant, and that nothing is public before an approval.          *)
(***************************************************************************)
EXTENDS Initiatives, TLAPS

Unreviewed(r) == r.status \notin {"published", "hidden"}

(* What NothingPublicBeforeApproval rests on: no message on the wire and   *)
(* no request but an approval carries a state that was ever public.        *)
QuietTuples ==
  /\ access # None => ~access.public
  /\ \A m \in wire : m # None => ~m.public

QuietOps ==
  \A o \in Ops : op[o] # Idle /\ op[o].kind # "approve" => Unreviewed(op[o].row)

Quiet ==
  ~approved =>
    /\ row # None => Unreviewed(row)
    /\ policy = "absent"
    /\ QuietTuples
    /\ QuietOps

(* The row inserted is the one Create made. *)
InsertFacts ==
  \A o \in Ops : op[o].pc = "insert" => op[o].kind = "create"

IInv == TypeOK /\ Quiet /\ InsertFacts

-----------------------------------------------------------------------------
(* The actions that leave the table, the wire and the policy alone.        *)
LEMMA IdleHasNoStep ==
  ASSUME TypeOK, NEW o \in Ops, op[o].pc # "idle"
  PROVE  op[o] \in Running /\ op[o] # Idle
BY DEF TypeOK, Idle

(* A row publishes an access that is public only if it is published.       *)
LEMMA WantedType ==
  ASSUME NEW r \in Rows
  PROVE  /\ r # None
         /\ Wanted(r) \in Access
         /\ Wanted(r).public = (r.status = "published")
<1>1. r # None
  BY NoneIsNoInitiative
<1>2. r.attribution \in Targets \cup {None}
  BY DEF Rows
<1> QED BY <1>1, <1>2 DEF Wanted, Access

LEMMA OwnerTransitionType ==
  ASSUME NEW s \in Statuses, NEW t \in OwnerTransition(s)
  PROVE  /\ t \in Statuses
         /\ t \in {"published", "hidden"} => s \in {"published", "hidden"}
BY DEF Statuses, OwnerTransition

(* How a request starts, moves on and ends. *)
LEMMA StartType ==
  ASSUME TypeOK, NEW o \in Ops, NEW r \in Rows, NEW pc, NEW kind \in Kinds,
         pc \in {"insert", "rollback", "cancel", "write", "patch", "publish",
                 "remove", "withdraw"},
         Start(o, pc, kind, r)
  PROVE  /\ op' \in [Ops -> Running \cup {Idle}]
         /\ op'[o] = [pc |-> pc, kind |-> kind, row |-> r]
         /\ \A q \in Ops \ {o} : op'[q] = op[q]
<1>1. [pc |-> pc, kind |-> kind, row |-> r] \in Running
  BY DEF Running
<1> QED BY <1>1 DEF TypeOK, Start

LEMMA GotoType ==
  ASSUME TypeOK, NEW o \in Ops, NEW pc, op[o].pc # "idle",
         pc \in {"insert", "rollback", "cancel", "write", "patch", "publish",
                 "remove", "withdraw"},
         Goto(o, pc)
  PROVE  /\ op' \in [Ops -> Running \cup {Idle}]
         /\ op'[o] = [op[o] EXCEPT !.pc = pc]
         /\ \A q \in Ops \ {o} : op'[q] = op[q]
<1>1. op[o] \in Running
  BY IdleHasNoStep
<1>2. [op[o] EXCEPT !.pc = pc] \in Running
  BY <1>1 DEF Running
<1> QED BY <1>2 DEF TypeOK, Goto

LEMMA EndType ==
  ASSUME TypeOK, NEW o \in Ops, End(o)
  PROVE  /\ op' \in [Ops -> Running \cup {Idle}]
         /\ op'[o] = Idle
         /\ \A q \in Ops \ {o} : op'[q] = op[q]
BY DEF TypeOK, End

(* What a request in progress holds. *)
LEMMA HeldRow ==
  ASSUME TypeOK, NEW o \in Ops, op[o].pc # "idle"
  PROVE  op[o].row \in Rows /\ op[o].kind \in Kinds
BY IdleHasNoStep DEF Running

-----------------------------------------------------------------------------
LEMMA InitIInv ==
  Init => IInv
<1> SUFFICES ASSUME Init PROVE IInv
  OBVIOUS
<1>1. TypeOK
  BY DEF Init, FgaInit, TypeOK, FgaTypeOK
<1>2. Quiet
  BY DEF Init, FgaInit, Quiet, QuietTuples, QuietOps
<1>3. InsertFacts
  BY DEF Init, InsertFacts, Idle
<1> QED BY <1>1, <1>2, <1>3 DEF IInv

LEMMA UpdateAccessType ==
  ASSUME FgaTypeOK, NEW a \in Access, UpdateAccess(a)
  PROVE  FgaTypeOK'
BY DEF FgaTypeOK, UpdateAccess

LEMMA TypeStep ==
  TypeOK /\ [Next]_vars => TypeOK'
<1> SUFFICES ASSUME TypeOK, [Next]_vars PROVE TypeOK'
  OBVIOUS
<1> USE DEF fgaVars
<1>1. ASSUME NEW o \in Ops, CreateProduct(o) PROVE TypeOK'
  <2>1. PICK a \in Targets \cup {None} :
          Start(o, "insert", "create", [status |-> "submitted", attribution |-> a])
    BY <1>1 DEF CreateProduct
  <2>2. [status |-> "submitted", attribution |-> a] \in Rows
    BY DEF Rows, Statuses
  <2>3. op' \in [Ops -> Running \cup {Idle}]
    BY <2>1, <2>2, StartType DEF Kinds
  <2> QED BY <1>1, <2>3 DEF CreateProduct, TypeOK, FgaTypeOK
<1>2. ASSUME NEW o \in Ops, Insert(o) PROVE TypeOK'
  <2>1. op' \in [Ops -> Running \cup {Idle}]
    BY <1>2, GotoType DEF Insert, At
  <2>2. op[o].row \in Rows
    BY <1>2, HeldRow DEF Insert, At
  <2> QED BY <1>2, <2>1, <2>2 DEF Insert, TypeOK, FgaTypeOK
<1>3. ASSUME NEW o \in Ops, Rollback(o) PROVE TypeOK'
  BY <1>3, EndType DEF Rollback, TypeOK, FgaTypeOK
<1>4. ASSUME NEW o \in Ops, LoadUpdate(o) PROVE TypeOK'
  <2>1. row \in Rows
    BY <1>4 DEF LoadUpdate, TypeOK
  <2>2. CASE Start(o, "write", "update", row)
    <3>1. op' \in [Ops -> Running \cup {Idle}]
      BY <2>1, <2>2, StartType DEF Kinds
    <3> QED BY <1>4, <3>1 DEF LoadUpdate, TypeOK, FgaTypeOK
  <2>3. CASE \E s \in OwnerTransition(row.status) :
               Start(o, IF s \in Closing THEN "cancel" ELSE "write", "update",
                     [row EXCEPT !.status = s])
    <3>1. PICK s \in OwnerTransition(row.status) :
            Start(o, IF s \in Closing THEN "cancel" ELSE "write", "update",
                  [row EXCEPT !.status = s])
      BY <2>3
    <3>2. s \in Statuses
      BY <2>1, OwnerTransitionType DEF Rows
    <3>3. [row EXCEPT !.status = s] \in Rows
      BY <2>1, <3>2 DEF Rows
    <3>4. (IF s \in Closing THEN "cancel" ELSE "write")
            \in {"insert", "rollback", "cancel", "write", "patch", "publish",
                 "remove", "withdraw"}
      OBVIOUS
    <3>5. op' \in [Ops -> Running \cup {Idle}]
      BY <3>1, <3>3, <3>4, StartType DEF Kinds
    <3> QED BY <1>4, <3>5 DEF LoadUpdate, TypeOK, FgaTypeOK
  <2> QED BY <1>4, <2>2, <2>3 DEF LoadUpdate
<1>5. ASSUME NEW o \in Ops, LoadApproval(o) PROVE TypeOK'
  <2>1. row \in Rows
    BY <1>5 DEF LoadApproval, TypeOK
  <2>2. /\ [row EXCEPT !.status = "published"] \in Rows
        /\ [row EXCEPT !.status = "declined"] \in Rows
    BY <2>1 DEF Rows, Statuses
  <2>3. op' \in [Ops -> Running \cup {Idle}]
    BY <1>5, <2>2, StartType DEF LoadApproval, Kinds
  <2> QED BY <1>5, <2>3 DEF LoadApproval, TypeOK, FgaTypeOK
<1>6. ASSUME NEW o \in Ops, CancelSubscriptions(o) PROVE TypeOK'
  <2>1. op' \in [Ops -> Running \cup {Idle}]
    BY <1>6, GotoType DEF CancelSubscriptions, At
  <2> QED BY <1>6, <2>1 DEF CancelSubscriptions, TypeOK, FgaTypeOK
<1>7. ASSUME NEW o \in Ops, Write(o) PROVE TypeOK'
  <2>1. op' \in [Ops -> Running \cup {Idle}]
    BY <1>7, GotoType DEF Write, At
  <2>2. op[o].row \in Rows
    BY <1>7, HeldRow DEF Write, At
  <2>3. approved' \in BOOLEAN
    BY <1>7 DEF Write, TypeOK
  <2> QED BY <1>7, <2>1, <2>2, <2>3 DEF Write, TypeOK, FgaTypeOK
<1>8. ASSUME NEW o \in Ops, LoadAttribution(o) PROVE TypeOK'
  <2>1. row \in Rows
    BY <1>8 DEF LoadAttribution, TypeOK
  <2>2. PICK a \in Targets \cup {None} :
          Start(o, "patch", "attribution", [row EXCEPT !.attribution = a])
    BY <1>8 DEF LoadAttribution
  <2>3. [row EXCEPT !.attribution = a] \in Rows
    BY <2>1 DEF Rows
  <2>4. op' \in [Ops -> Running \cup {Idle}]
    BY <2>2, <2>3, StartType DEF Kinds
  <2> QED BY <1>8, <2>4 DEF LoadAttribution, TypeOK, FgaTypeOK
<1>9. ASSUME NEW o \in Ops, Patch(o) PROVE TypeOK'
  <2>1. op' \in [Ops -> Running \cup {Idle}]
    BY <1>9, GotoType DEF Patch, At
  <2>2. row \in Rows /\ op[o].row \in Rows
    BY <1>9, HeldRow DEF Patch, At, TypeOK
  <2>3. row' \in Rows
    BY <1>9, <2>2 DEF Patch, Rows
  <2> QED BY <1>9, <2>1, <2>3 DEF Patch, TypeOK, FgaTypeOK
<1>10. ASSUME NEW o \in Ops, Publish(o) PROVE TypeOK'
  <2>1. op' \in [Ops -> Running \cup {Idle}]
    BY <1>10, EndType DEF Publish
  <2>2. Wanted(row) \in Access
    BY <1>10, WantedType DEF Publish, TypeOK
  <2>3. FgaTypeOK'
    BY <1>10, <2>2, UpdateAccessType DEF Publish, Lost, TypeOK, FgaTypeOK
  <2>4. policy' \in {"absent", "requested", "present"}
    BY <1>10 DEF Publish, TypeOK
  <2> QED BY <1>10, <2>1, <2>3, <2>4 DEF Publish, TypeOK
<1>11. ASSUME NEW o \in Ops, LoadDelete(o) PROVE TypeOK'
  <2>1. row \in Rows
    BY <1>11 DEF LoadDelete, TypeOK
  <2>2. op' \in [Ops -> Running \cup {Idle}]
    BY <1>11, <2>1, StartType DEF LoadDelete, Kinds
  <2> QED BY <1>11, <2>2 DEF LoadDelete, TypeOK, FgaTypeOK
<1>12. ASSUME NEW o \in Ops, Remove(o) PROVE TypeOK'
  <2>1. op' \in [Ops -> Running \cup {Idle}]
    BY <1>12, GotoType DEF Remove, At
  <2> QED BY <1>12, <2>1 DEF Remove, TypeOK, FgaTypeOK
<1>13. ASSUME NEW o \in Ops, Withdraw(o) PROVE TypeOK'
  <2>1. op' \in [Ops -> Running \cup {Idle}]
    BY <1>13, EndType DEF Withdraw
  <2> QED BY <1>13, <2>1 DEF Withdraw, DeleteAccess, Lost, TypeOK, FgaTypeOK
<1>14. ASSUME NEW o \in Ops, Fail(o) PROVE TypeOK'
  BY <1>14, EndType DEF Fail, TypeOK, FgaTypeOK
<1>15. CASE SyncPolicy
  BY <1>15 DEF SyncPolicy, TypeOK, FgaTypeOK
<1>16. CASE Reconcile
  <2>1. Wanted(row) \in Access
    BY <1>16, WantedType DEF Reconcile, TypeOK
  <2>2. FgaTypeOK'
    BY <1>16, <2>1, UpdateAccessType DEF Reconcile, TypeOK
  <2> QED BY <1>16, <2>2 DEF Reconcile, TypeOK
<1>17. ASSUME NEW m \in Access \cup {None}, FgaStep(m) PROVE TypeOK'
  BY <1>17 DEF FgaStep, Deliver, Apply, TypeOK, FgaTypeOK
<1>18. CASE UNCHANGED vars
  BY <1>18 DEF vars, TypeOK, FgaTypeOK
<1> QED
  BY <1>1, <1>2, <1>3, <1>4, <1>5, <1>6, <1>7, <1>8, <1>9, <1>10, <1>11, <1>12,
     <1>13, <1>14, <1>15, <1>16, <1>17, <1>18 DEF Next

-----------------------------------------------------------------------------
(* A request that starts or ends leaves the others as they were. *)
LEMMA QuietStart ==
  ASSUME TypeOK, QuietOps, NEW o \in Ops, NEW r \in Rows, NEW pc, NEW kind \in Kinds,
         pc \in {"insert", "rollback", "cancel", "write", "patch", "publish",
                 "remove", "withdraw"},
         Start(o, pc, kind, r),
         kind # "approve" => Unreviewed(r)
  PROVE  QuietOps'
<1>1. op'[o].kind = kind /\ op'[o].row = r
  <2>1. op'[o] = [pc |-> pc, kind |-> kind, row |-> r]
    BY StartType
  <2> QED BY <2>1
<1>2. \A q \in Ops \ {o} : op'[q] = op[q]
  BY StartType
<1>3. ASSUME NEW q \in Ops, op'[q] # Idle, op'[q].kind # "approve"
      PROVE  op'[q].row.status \notin {"published", "hidden"}
  <2>1. CASE q = o
    BY <2>1, <1>1, <1>3 DEF Unreviewed
  <2>2. CASE q # o
    BY <2>2, <1>2, <1>3 DEF QuietOps, Unreviewed
  <2> QED BY <2>1, <2>2
<1> QED BY <1>3 DEF QuietOps, Unreviewed

LEMMA QuietGoto ==
  ASSUME TypeOK, QuietOps, NEW o \in Ops, NEW pc, op[o].pc # "idle",
         pc \in {"insert", "rollback", "cancel", "write", "patch", "publish",
                 "remove", "withdraw"},
         Goto(o, pc)
  PROVE  QuietOps'
<1>1. op[o] \in Running /\ op[o] # Idle
  BY IdleHasNoStep
<1>2. op'[o].kind = op[o].kind /\ op'[o].row = op[o].row
  <2>1. op'[o] = [op[o] EXCEPT !.pc = pc]
    BY GotoType
  <2> QED BY <1>1, <2>1 DEF Running
<1>3. \A q \in Ops \ {o} : op'[q] = op[q]
  BY GotoType
<1>4. ASSUME NEW q \in Ops, op'[q] # Idle, op'[q].kind # "approve"
      PROVE  op'[q].row.status \notin {"published", "hidden"}
  <2>1. CASE q = o
    BY <2>1, <1>1, <1>2, <1>4 DEF QuietOps, Unreviewed
  <2>2. CASE q # o
    BY <2>2, <1>3, <1>4 DEF QuietOps, Unreviewed
  <2> QED BY <2>1, <2>2
<1> QED BY <1>4 DEF QuietOps, Unreviewed

LEMMA QuietEnd ==
  ASSUME TypeOK, QuietOps, NEW o \in Ops, End(o)
  PROVE  QuietOps'
BY EndType DEF QuietOps, Unreviewed

(* A row that was never public publishes no public access. *)
LEMMA QuietPublish ==
  ASSUME QuietTuples, row \in Rows, Unreviewed(row), UpdateAccess(Wanted(row))
  PROVE  QuietTuples'
<1>1. ~Wanted(row).public
  BY WantedType DEF Unreviewed
<1> QED BY <1>1 DEF QuietTuples, UpdateAccess

LEMMA QuietStep ==
  IInv /\ [Next]_vars => Quiet'
<1> SUFFICES ASSUME TypeOK, Quiet, InsertFacts, [Next]_vars, ~approved'
             PROVE  /\ row' # None => Unreviewed(row')
                    /\ policy' = "absent"
                    /\ QuietTuples'
                    /\ QuietOps'
  BY DEF IInv, Quiet, Unreviewed
<1> USE DEF fgaVars
<1>a. ASSUME ~approved
      PROVE  (row # None => Unreviewed(row)) /\ policy = "absent" /\ QuietTuples /\ QuietOps
  BY <1>a DEF Quiet
<1>1. ASSUME NEW o \in Ops, CreateProduct(o)
      PROVE  (row' # None => Unreviewed(row')) /\ policy' = "absent" /\ QuietTuples' /\ QuietOps'
  <2>1. PICK a \in Targets \cup {None} :
          Start(o, "insert", "create", [status |-> "submitted", attribution |-> a])
    BY <1>1 DEF CreateProduct
  <2>2. /\ [status |-> "submitted", attribution |-> a] \in Rows
        /\ Unreviewed([status |-> "submitted", attribution |-> a])
    BY DEF Rows, Statuses, Unreviewed
  <2>3. ~approved /\ UNCHANGED <<row, policy, wire, access>>
    BY <1>1 DEF CreateProduct
  <2>4. QuietOps'
    BY <1>a, <2>1, <2>2, <2>3, QuietStart DEF Kinds
  <2> QED BY <1>a, <2>3, <2>4 DEF QuietTuples, Unreviewed
<1>2. ASSUME NEW o \in Ops, Insert(o)
      PROVE  (row' # None => Unreviewed(row')) /\ policy' = "absent" /\ QuietTuples' /\ QuietOps'
  <2>1. ~approved /\ UNCHANGED <<policy, wire, access>>
    BY <1>2 DEF Insert
  <2>2. QuietOps'
    BY <1>2, <1>a, <2>1, QuietGoto DEF Insert, At
  <2>3. op[o] # Idle /\ op[o].kind = "create"
    BY <1>2, IdleHasNoStep DEF Insert, At, InsertFacts
  <2>4. Unreviewed(op[o].row)
    BY <1>a, <2>1, <2>3 DEF QuietOps
  <2>5. row' \in {row, op[o].row}
    BY <1>2 DEF Insert
  <2> QED BY <1>a, <2>1, <2>2, <2>4, <2>5 DEF QuietTuples, Unreviewed
<1>3. ASSUME NEW o \in Ops, Rollback(o)
      PROVE  (row' # None => Unreviewed(row')) /\ policy' = "absent" /\ QuietTuples' /\ QuietOps'
  <2>1. ~approved /\ UNCHANGED <<row, policy, wire, access>>
    BY <1>3 DEF Rollback
  <2>2. QuietOps'
    BY <1>3, <1>a, <2>1, QuietEnd DEF Rollback
  <2> QED BY <1>a, <2>1, <2>2 DEF QuietTuples, Unreviewed
<1>4. ASSUME NEW o \in Ops, LoadUpdate(o)
      PROVE  (row' # None => Unreviewed(row')) /\ policy' = "absent" /\ QuietTuples' /\ QuietOps'
  <2>1. row \in Rows /\ row # None /\ ~approved /\ UNCHANGED <<row, policy, wire, access>>
    BY <1>4 DEF LoadUpdate, TypeOK
  <2>2. CASE Start(o, "write", "update", row)
    <3>1. QuietOps'
      BY <1>a, <2>1, <2>2, QuietStart DEF Kinds
    <3> QED BY <1>a, <2>1, <3>1 DEF QuietTuples, Unreviewed
  <2>3. CASE \E s \in OwnerTransition(row.status) :
               Start(o, IF s \in Closing THEN "cancel" ELSE "write", "update",
                     [row EXCEPT !.status = s])
    <3>1. PICK s \in OwnerTransition(row.status) :
            Start(o, IF s \in Closing THEN "cancel" ELSE "write", "update",
                  [row EXCEPT !.status = s])
      BY <2>3
    <3>2. s \in Statuses /\ s \notin {"published", "hidden"}
      BY <1>a, <2>1, OwnerTransitionType DEF Rows, Unreviewed
    <3>3. [row EXCEPT !.status = s] \in Rows /\ Unreviewed([row EXCEPT !.status = s])
      BY <2>1, <3>2 DEF Rows, Unreviewed
    <3>4. (IF s \in Closing THEN "cancel" ELSE "write")
            \in {"insert", "rollback", "cancel", "write", "patch", "publish",
                 "remove", "withdraw"}
      OBVIOUS
    <3>5. QuietOps'
      BY <1>a, <2>1, <3>1, <3>3, <3>4, QuietStart DEF Kinds
    <3> QED BY <1>a, <2>1, <3>5 DEF QuietTuples, Unreviewed
  <2> QED BY <1>4, <2>2, <2>3 DEF LoadUpdate
<1>5. ASSUME NEW o \in Ops, LoadApproval(o)
      PROVE  (row' # None => Unreviewed(row')) /\ policy' = "absent" /\ QuietTuples' /\ QuietOps'
  <2>1. row \in Rows /\ ~approved /\ UNCHANGED <<row, policy, wire, access>>
    BY <1>5 DEF LoadApproval, TypeOK
  <2>2. /\ [row EXCEPT !.status = "published"] \in Rows
        /\ [row EXCEPT !.status = "declined"] \in Rows
        /\ Unreviewed([row EXCEPT !.status = "declined"])
    BY <2>1 DEF Rows, Statuses, Unreviewed
  <2>3. QuietOps'
    BY <1>5, <1>a, <2>1, <2>2, QuietStart DEF LoadApproval, Kinds
  <2> QED BY <1>a, <2>1, <2>3 DEF QuietTuples, Unreviewed
<1>6. ASSUME NEW o \in Ops, CancelSubscriptions(o)
      PROVE  (row' # None => Unreviewed(row')) /\ policy' = "absent" /\ QuietTuples' /\ QuietOps'
  <2>1. ~approved /\ UNCHANGED <<row, policy, wire, access>>
    BY <1>6 DEF CancelSubscriptions
  <2>2. QuietOps'
    BY <1>6, <1>a, <2>1, QuietGoto DEF CancelSubscriptions, At
  <2> QED BY <1>a, <2>1, <2>2 DEF QuietTuples, Unreviewed
<1>7. ASSUME NEW o \in Ops, Write(o)
      PROVE  (row' # None => Unreviewed(row')) /\ policy' = "absent" /\ QuietTuples' /\ QuietOps'
  <2>1. ~approved /\ op[o].kind # "approve" /\ UNCHANGED <<policy, wire, access>>
    BY <1>7 DEF Write
  <2>2. QuietOps'
    BY <1>7, <1>a, <2>1, QuietGoto DEF Write, At
  <2>3. op[o] # Idle
    BY <1>7, IdleHasNoStep DEF Write, At
  <2>4. Unreviewed(op[o].row)
    BY <1>a, <2>1, <2>3 DEF QuietOps
  <2>5. row' = op[o].row
    BY <1>7 DEF Write
  <2> QED BY <1>a, <2>1, <2>2, <2>4, <2>5 DEF QuietTuples, Unreviewed
<1>8. ASSUME NEW o \in Ops, LoadAttribution(o)
      PROVE  (row' # None => Unreviewed(row')) /\ policy' = "absent" /\ QuietTuples' /\ QuietOps'
  <2>1. row \in Rows /\ row # None /\ ~approved /\ UNCHANGED <<row, policy, wire, access>>
    BY <1>8 DEF LoadAttribution, TypeOK
  <2>2. PICK a \in Targets \cup {None} :
          Start(o, "patch", "attribution", [row EXCEPT !.attribution = a])
    BY <1>8 DEF LoadAttribution
  <2>3. [row EXCEPT !.attribution = a] \in Rows /\ Unreviewed([row EXCEPT !.attribution = a])
    BY <1>a, <2>1 DEF Rows, Unreviewed
  <2>4. QuietOps'
    BY <1>a, <2>1, <2>2, <2>3, QuietStart DEF Kinds
  <2> QED BY <1>a, <2>1, <2>4 DEF QuietTuples, Unreviewed
<1>9. ASSUME NEW o \in Ops, Patch(o)
      PROVE  (row' # None => Unreviewed(row')) /\ policy' = "absent" /\ QuietTuples' /\ QuietOps'
  <2>1. row \in Rows /\ row # None /\ ~approved /\ UNCHANGED <<policy, wire, access>>
    BY <1>9 DEF Patch, TypeOK
  <2>2. QuietOps'
    BY <1>9, <1>a, <2>1, QuietGoto DEF Patch, At
  <2>3. row'.status = row.status
    BY <1>9, <2>1 DEF Patch, Rows
  <2> QED BY <1>a, <2>1, <2>2, <2>3 DEF QuietTuples, Unreviewed
<1>10. ASSUME NEW o \in Ops, Publish(o)
       PROVE  (row' # None => Unreviewed(row')) /\ policy' = "absent" /\ QuietTuples' /\ QuietOps'
  <2>1. row \in Rows /\ row # None /\ ~approved /\ UNCHANGED row
    BY <1>10 DEF Publish, TypeOK
  <2>2. Unreviewed(row)
    BY <1>a, <2>1
  <2>3. QuietOps'
    BY <1>10, <1>a, <2>1, QuietEnd DEF Publish
  <2>4. QuietTuples'
    <3>1. CASE UpdateAccess(Wanted(row))
      BY <3>1, <1>a, <2>1, <2>2, QuietPublish
    <3>2. CASE Lost
      BY <3>2, <1>a, <2>1 DEF Lost, QuietTuples
    <3> QED BY <1>10, <3>1, <3>2 DEF Publish
  <2>5. policy' = "absent"
    BY <1>10, <1>a, <2>1, <2>2 DEF Publish, SyncsPolicy, Unreviewed
  <2> QED BY <2>1, <2>2, <2>3, <2>4, <2>5
<1>11. ASSUME NEW o \in Ops, LoadDelete(o)
       PROVE  (row' # None => Unreviewed(row')) /\ policy' = "absent" /\ QuietTuples' /\ QuietOps'
  <2>1. row \in Rows /\ row # None /\ ~approved /\ UNCHANGED <<row, policy, wire, access>>
    BY <1>11 DEF LoadDelete, TypeOK
  <2>2. QuietOps'
    BY <1>11, <1>a, <2>1, QuietStart DEF LoadDelete, Kinds
  <2> QED BY <1>a, <2>1, <2>2 DEF QuietTuples, Unreviewed
<1>12. ASSUME NEW o \in Ops, Remove(o)
       PROVE  (row' # None => Unreviewed(row')) /\ policy' = "absent" /\ QuietTuples' /\ QuietOps'
  <2>1. ~approved /\ row' = None /\ UNCHANGED <<policy, wire, access>>
    BY <1>12 DEF Remove
  <2>2. QuietOps'
    BY <1>12, <1>a, <2>1, QuietGoto DEF Remove, At
  <2> QED BY <1>a, <2>1, <2>2 DEF QuietTuples
<1>13. ASSUME NEW o \in Ops, Withdraw(o)
       PROVE  (row' # None => Unreviewed(row')) /\ policy' = "absent" /\ QuietTuples' /\ QuietOps'
  <2>1. ~approved /\ UNCHANGED <<row, policy>>
    BY <1>13 DEF Withdraw
  <2>2. QuietOps'
    BY <1>13, <1>a, <2>1, QuietEnd DEF Withdraw
  <2>3. QuietTuples'
    BY <1>13, <1>a, <2>1 DEF Withdraw, DeleteAccess, Lost, QuietTuples
  <2> QED BY <1>a, <2>1, <2>2, <2>3 DEF Unreviewed
<1>14. ASSUME NEW o \in Ops, Fail(o)
       PROVE  (row' # None => Unreviewed(row')) /\ policy' = "absent" /\ QuietTuples' /\ QuietOps'
  <2>1. ~approved /\ UNCHANGED <<row, policy, wire, access>>
    BY <1>14 DEF Fail
  <2>2. QuietOps'
    BY <1>14, <1>a, <2>1, QuietEnd DEF Fail
  <2> QED BY <1>a, <2>1, <2>2 DEF QuietTuples, Unreviewed
<1>15. ASSUME SyncPolicy
       PROVE  (row' # None => Unreviewed(row')) /\ policy' = "absent" /\ QuietTuples' /\ QuietOps'
  BY <1>15, <1>a DEF SyncPolicy
<1>16. ASSUME Reconcile
       PROVE  (row' # None => Unreviewed(row')) /\ policy' = "absent" /\ QuietTuples' /\ QuietOps'
  <2>1. row \in Rows /\ row # None /\ ~approved /\ UNCHANGED <<row, policy, op>>
    BY <1>16 DEF Reconcile, TypeOK
  <2>2. QuietTuples'
    BY <1>16, <1>a, <2>1, QuietPublish DEF Reconcile
  <2> QED BY <1>a, <2>1, <2>2 DEF QuietOps, Unreviewed
<1>17. ASSUME NEW m \in Access \cup {None}, FgaStep(m)
       PROVE  (row' # None => Unreviewed(row')) /\ policy' = "absent" /\ QuietTuples' /\ QuietOps'
  <2>1. ~approved /\ UNCHANGED <<row, policy, op>>
    BY <1>17 DEF FgaStep
  <2>2. QuietTuples'
    BY <1>17, <1>a, <2>1 DEF FgaStep, Deliver, Apply, QuietTuples
  <2> QED BY <1>a, <2>1, <2>2 DEF QuietOps, Unreviewed
<1>18. ASSUME UNCHANGED vars
       PROVE  (row' # None => Unreviewed(row')) /\ policy' = "absent" /\ QuietTuples' /\ QuietOps'
  BY <1>18, <1>a DEF vars, QuietTuples, QuietOps, Unreviewed
<1> QED
  BY <1>1, <1>2, <1>3, <1>4, <1>5, <1>6, <1>7, <1>8, <1>9, <1>10, <1>11, <1>12,
     <1>13, <1>14, <1>15, <1>16, <1>17, <1>18 DEF Next

-----------------------------------------------------------------------------
LEMMA InsertStep ==
  IInv /\ [Next]_vars => InsertFacts'
<1> SUFFICES ASSUME TypeOK, InsertFacts, [Next]_vars, NEW q \in Ops, op'[q].pc = "insert"
             PROVE  op'[q].kind = "create"
  BY DEF IInv, InsertFacts
<1>1. ASSUME NEW o \in Ops, q = o => op'[o].pc # "insert", \A p \in Ops \ {o} : op'[p] = op[p]
      PROVE  op'[q].kind = "create"
  BY <1>1 DEF InsertFacts
<1>2. ASSUME NEW o \in Ops, NEW pc, NEW kind, NEW r, Start(o, pc, kind, r),
             pc = "insert" => kind = "create"
      PROVE  op'[q].kind = "create"
  BY <1>2 DEF Start, InsertFacts, TypeOK
<1>3. ASSUME NEW o \in Ops, NEW pc \in {"rollback", "write", "publish", "withdraw"},
             op[o].pc # "idle", Goto(o, pc)
      PROVE  op'[q].kind = "create"
  <2>1. op'[o].pc = pc /\ \A p \in Ops \ {o} : op'[p] = op[p]
    <3>1. op[o] \in Running /\ op'[o] = [op[o] EXCEPT !.pc = pc]
      BY <1>3, IdleHasNoStep, GotoType
    <3> QED BY <1>3, <3>1, GotoType DEF Running
  <2> QED BY <1>1, <2>1
<1>4. ASSUME NEW o \in Ops, End(o) PROVE op'[q].kind = "create"
  BY <1>1, <1>4, EndType DEF Idle
<1>5. ASSUME NEW o \in Ops, CreateProduct(o) PROVE op'[q].kind = "create"
  BY <1>2, <1>5 DEF CreateProduct
<1>6. ASSUME NEW o \in Ops, Insert(o) PROVE op'[q].kind = "create"
  BY <1>3, <1>6 DEF Insert, At
<1>7. ASSUME NEW o \in Ops, LoadUpdate(o) PROVE op'[q].kind = "create"
  <2>1. CASE Start(o, "write", "update", row)
    BY <1>2, <2>1
  <2>2. CASE \E s \in OwnerTransition(row.status) :
               Start(o, IF s \in Closing THEN "cancel" ELSE "write", "update",
                     [row EXCEPT !.status = s])
    BY <1>2, <2>2
  <2> QED BY <1>7, <2>1, <2>2 DEF LoadUpdate
<1>8. ASSUME NEW o \in Ops, LoadApproval(o) PROVE op'[q].kind = "create"
  BY <1>2, <1>8 DEF LoadApproval
<1>9. ASSUME NEW o \in Ops, LoadAttribution(o) \/ LoadDelete(o) PROVE op'[q].kind = "create"
  <2>1. CASE LoadAttribution(o)
    <3>1. PICK a \in Targets \cup {None} :
            Start(o, "patch", "attribution", [row EXCEPT !.attribution = a])
      BY <2>1 DEF LoadAttribution
    <3> QED BY <1>2, <3>1
  <2>2. CASE LoadDelete(o)
    BY <1>2, <2>2 DEF LoadDelete
  <2> QED BY <1>9, <2>1, <2>2
<1>10. ASSUME NEW o \in Ops, CancelSubscriptions(o) \/ Write(o) \/ Patch(o) \/ Remove(o)
       PROVE op'[q].kind = "create"
  BY <1>3, <1>10 DEF CancelSubscriptions, Write, Patch, Remove, At
<1>11. ASSUME NEW o \in Ops, Rollback(o) \/ Publish(o) \/ Withdraw(o) \/ Fail(o)
       PROVE op'[q].kind = "create"
  BY <1>4, <1>11 DEF Rollback, Publish, Withdraw, Fail
<1>12. ASSUME UNCHANGED op PROVE op'[q].kind = "create"
  BY <1>12 DEF InsertFacts
<1>13. ASSUME SyncPolicy \/ Reconcile \/ (\E m \in Access \cup {None} : FgaStep(m))
              \/ UNCHANGED vars
       PROVE op'[q].kind = "create"
  BY <1>12, <1>13 DEF SyncPolicy, Reconcile, FgaStep, vars
<1> QED
  BY <1>5, <1>6, <1>7, <1>8, <1>9, <1>10, <1>11, <1>13 DEF Next

(* IInv holds in every reachable state. *)
THEOREM Invariance ==
  Spec => []IInv
<1>1. IInv /\ [Next]_vars => IInv'
  BY TypeStep, QuietStep, InsertStep DEF IInv
<1> QED BY <1>1, InitIInv, PTL DEF Spec

(* The row, the requests and the messages are always what the code can     *)
(* make of them.                                                           *)
THEOREM TypeCorrect ==
  Spec => []TypeOK
<1>1. IInv => TypeOK
  BY DEF IInv
<1> QED BY <1>1, Invariance, PTL

(* Nothing of an initiative is public before an approval was written, for  *)
(* any number of requests at a time and any targets.                       *)
THEOREM ReviewedBeforePublic ==
  Spec => []NothingPublicBeforeApproval
<1>1. IInv => NothingPublicBeforeApproval
  BY DEF IInv, Quiet, QuietTuples, Unreviewed, NothingPublicBeforeApproval
<1> QED BY <1>1, Invariance, PTL

=============================================================================
