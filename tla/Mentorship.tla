------------------------------- MODULE Mentorship -------------------------------
(***************************************************************************)
(* The mentorship-sync job (cmd/mentorship-sync/syncer.go): each run reads *)
(* from Snowflake (infrastructure/snowflake/client.go) the programs that   *)
(* were updated lately or have an open term, then the ids Crowdfunding     *)
(* already has, and upserts, one transaction per program, those updated    *)
(* lately and those that are missing                                       *)
(* (infrastructure/db/mentorship_repository.go).                           *)
(*                                                                         *)
(* A program's id is the id of its initiative.  A row migrated from the    *)
(* old system may hold it in jobspring_project_id only; that column and    *)
(* the slug are unique (migrations 002 and 011).                           *)
(***************************************************************************)
EXTENDS Integers, FiniteSets

CONSTANTS
  Programs,        \* program ids, all with the same slug in Jobspring
  SourceStatuses,  \* program_status values of Jobspring; an unknown one also
                   \* stands for a program without an owner
  MaxChanges       \* bound: changes made by Jobspring and by users, and failures

ASSUME SyncAssumption == "published" \in SourceStatuses /\ MaxChanges \in Nat

VARIABLES
  source,   \* of each program in Snowflake: [status, recent, open, lists]
  legacy,   \* programs held in jobspring_project_id of another id's row
  rows,     \* the initiative with the program's id: [kind, slug, status, lists]
  taken,    \* slugs of all other initiatives
  todo,     \* programs the current run has still to look at, as it read them
  known,    \* ids the current run read at its start
  changes   \* number of changes so far

syncVars == <<source, legacy, rows, taken, todo, known, changes>>

(* The slug, the slug with the first eight characters of the id, with all  *)
(* of the id, or NULL.                                                     *)
Plain    == <<"slug">>
Short(p) == <<"slug", p, 8>>
Full(p)  == <<"slug", p, 36>>
NoSlug   == <<>>
SlugNames == {Plain} \cup {Short(p) : p \in Programs} \cup {Full(p) : p \in Programs}

CFStatuses == {"submitted", "pending", "published", "hidden", "declined"}

(* Run: Jobspring's statuses without an equal here; others pass as they are. *)
Normal(s) == CASE s = "hide"     -> "hidden"
               [] s = "rejected" -> "declined"
               [] OTHER          -> s

SourceRows == [status : SourceStatuses, recent : BOOLEAN, open : BOOLEAN, lists : {"nil", "filled"}]
NoRow == [kind |-> "none", slug |-> NoSlug, status |-> "none", lists |-> "empty"]

SyncTypeOK ==
  /\ source \in [Programs -> SourceRows]
  /\ legacy \subseteq Programs
  /\ rows \in [Programs -> [kind : {"none", "mentorship", "other"}, slug : SlugNames \cup {NoSlug},
                            status : CFStatuses \cup {"none"}, lists : {"empty", "filled"}]]
  /\ taken \subseteq SlugNames
  /\ todo \subseteq Programs \X SourceRows
  /\ known \subseteq Programs
  /\ changes \in 0 .. MaxChanges

SyncInit ==
  /\ source = [p \in Programs |-> [status |-> "published", recent |-> FALSE,
                                   open |-> TRUE, lists |-> "filled"]]
  /\ legacy = {}
  /\ rows = [p \in Programs |-> NoRow]
  /\ taken = {} /\ todo = {} /\ known = {}
  /\ changes = 0

-----------------------------------------------------------------------------
UsedSlugs(p) == taken \cup {rows[q].slug : q \in Programs \ {p}}

Change == changes < MaxChanges /\ changes' = changes + 1

(* Jobspring changes a program or its term; the window of recent updates   *)
(* passes.                                                                 *)
EditSource(p, s, o, l) ==
  /\ Change
  /\ source' = [source EXCEPT ![p] = [status |-> s, recent |-> TRUE, open |-> o, lists |-> l]]
  /\ UNCHANGED <<legacy, rows, taken, todo, known>>

WindowPasses(p) ==
  /\ source[p].recent
  /\ source' = [source EXCEPT ![p].recent = FALSE]
  /\ UNCHANGED <<legacy, rows, taken, todo, known, changes>>

(* Another initiative is created under a free slug; or it happens to have  *)
(* the program's id; or the migration stored the program under another id. *)
CreateOther(s) ==
  /\ Change
  /\ s \notin taken \cup {rows[q].slug : q \in Programs}
  /\ taken' = taken \cup {s}
  /\ UNCHANGED <<source, legacy, rows, todo, known>>

CollidingId(p) ==
  /\ Change
  /\ rows[p] = NoRow
  /\ rows' = [rows EXCEPT ![p] = [NoRow EXCEPT !.kind = "other", !.status = "published"]]
  /\ UNCHANGED <<source, legacy, taken, todo, known>>

MigrateLegacy(p) ==
  /\ Change
  /\ rows[p] = NoRow
  /\ legacy' = legacy \cup {p}
  /\ UNCHANGED <<source, rows, taken, todo, known>>

(* An approver's decision on a mentorship, which the next upsert undoes. *)
Decide(p, s) ==
  /\ Change
  /\ rows[p].kind = "mentorship" /\ rows[p].status # s
  /\ rows' = [rows EXCEPT ![p].status = s]
  /\ UNCHANGED <<source, legacy, taken, todo, known>>

-----------------------------------------------------------------------------
(* FetchPrograms: the recent ones, and the open ones lest any is missing.  *)
Offered == {p \in Programs : source[p].recent \/ (source[p].status = "published" /\ source[p].open)}

(* FetchPrograms, then ListKnownProgramIDs over both columns. *)
StartRun ==
  /\ todo = {}
  /\ todo' = {<<p, source[p]>> : p \in Offered}
  /\ known' = legacy \cup {p \in Programs : rows[p] # NoRow}
  /\ UNCHANGED <<source, legacy, rows, taken, changes>>

(* Mutant: only what was updated lately. *)
Due_Recent(p, f) == f.recent
Due(p, f)        == f.recent \/ p \notin known
Valid(f)         == Normal(f.status) \in CFStatuses

Seen(p, f) ==
  /\ <<p, f>> \in todo
  /\ todo' = todo \ {<<p, f>>}
  /\ UNCHANGED <<source, legacy, taken, known>>

Skip(p, f) ==
  /\ Seen(p, f)
  /\ ~Due(p, f)
  /\ UNCHANGED <<rows, changes>>

(* An unknown status, or no owner: counted as an error. *)
SkipInvalid(p, f) ==
  /\ Seen(p, f)
  /\ Due(p, f) /\ ~Valid(f)
  /\ UNCHANGED <<rows, changes>>

(* Mutant: the short fallback is taken unseen. *)
FreeSlug_Unchecked(p) == IF Plain \notin UsedSlugs(p) THEN Plain ELSE Short(p)

(* The CASE of upsertInitiative: each fallback is tried when it is free. *)
FreeSlug(p) ==
  CASE Plain \notin UsedSlugs(p)    -> Plain
    [] Plain \in UsedSlugs(p) /\ Short(p) \notin UsedSlugs(p) -> Short(p)
    [] {Plain, Short(p)} \subseteq UsedSlugs(p) /\ Full(p) \notin UsedSlugs(p) -> Full(p)
    [] OTHER                        -> NoSlug

(* Mutant: no list and an empty list are the same. *)
NewLists_Emptied(p, f) == IF f.lists = "nil" THEN "empty" ELSE f.lists

(* Lists the source does not provide are left alone. *)
NewLists(p, f) == IF f.lists = "nil" THEN rows[p].lists ELSE f.lists

Inserted(p, f) == [kind |-> "mentorship", slug |-> FreeSlug(p),
                   status |-> Normal(f.status), lists |-> NewLists(p, f)]
Updated(p, f)  == [rows[p] EXCEPT !.status = Normal(f.status), !.lists = NewLists(p, f)]

(* ON CONFLICT (id) only: a row of another type returns nothing, a program *)
(* stored under another id violates the unique jobspring_project_id.       *)
Storable(p)  == p \notin legacy /\ rows[p].kind # "other"
Stored(p, f) == IF rows[p] = NoRow THEN Inserted(p, f) ELSE Updated(p, f)

Upsert1(p, f) ==
  /\ Seen(p, f)
  /\ Due(p, f) /\ Valid(f)
  /\ Storable(p)
  /\ rows' = [rows EXCEPT ![p] = Stored(p, f)]
  /\ UNCHANGED changes

(* A refused or failed transaction is counted, and the run goes on. *)
UpsertError(p, f) ==
  /\ Seen(p, f)
  /\ Due(p, f) /\ Valid(f)
  /\ \/ ~Storable(p) /\ UNCHANGED changes
     \/ Change
  /\ UNCHANGED rows

(* The job is stopped, or one of the two reads of a run fails. *)
RunAborts ==
  /\ Change
  /\ todo # {}
  /\ todo' = {}
  /\ UNCHANGED <<source, legacy, rows, taken, known>>

LookAt(p, f) == Skip(p, f) \/ SkipInvalid(p, f) \/ Upsert1(p, f) \/ UpsertError(p, f)

(* What a run does: the scheduler keeps starting runs, and a run looks at  *)
(* all programs it was offered.                                            *)
SyncJob == StartRun \/ \E p \in Programs, f \in SourceRows : LookAt(p, f)

SyncNext ==
  \/ \E p \in Programs :
       \/ \E s \in SourceStatuses, o \in BOOLEAN, l \in {"nil", "filled"} : EditSource(p, s, o, l)
       \/ WindowPasses(p) \/ CollidingId(p) \/ MigrateLegacy(p)
       \/ Decide(p, "hidden")
       \/ \E f \in SourceRows : LookAt(p, f)
  \/ \E s \in SlugNames : CreateOther(s)
  \/ StartRun \/ RunAborts

SyncSpec == SyncInit /\ [][SyncNext]_syncVars

-----------------------------------------------------------------------------
(* Whatever Jobspring, users and failures do in between: the job never     *)
(* touches a row of another type, never takes back or rewrites the public  *)
(* slug of a row it stored before, never removes a row, and never empties  *)
(* lists the source does not provide.                                      *)
SyncPreserves ==
  [][\A p \in Programs :
       rows[p] # NoRow =>
         /\ rows[p].kind = "other" => rows'[p] = rows[p]
         /\ rows'[p].kind = rows[p].kind
         /\ rows'[p].slug = rows[p].slug
         /\ rows[p].lists = "filled" => rows'[p].lists = "filled"]_syncVars

(* No two initiatives share a slug, without the index having to refuse a   *)
(* statement: "the fallback itself can never collide" (UpsertProgram).     *)
SlugsUnique ==
  \A p \in Programs : rows[p].slug # NoSlug => rows[p].slug \notin UsedSlugs(p)

(* A published program with an open term that is missing here arrives,     *)
(* however long ago Jobspring changed it and however many runs failed,     *)
(* unless its id is held by another row.                                   *)
Expected(p) == source[p].status = "published" /\ source[p].open /\ Storable(p)
ProgramArrives ==
  \A p \in Programs : Expected(p) ~> (rows[p].kind = "mentorship" \/ ~Expected(p))

=============================================================================
