----------------------------- MODULE Announcements -----------------------------
(***************************************************************************)
(* Announcements of initiatives: the owner-scoped create, update and       *)
(* delete (service/announcement_service.go with the statements of          *)
(* infrastructure/db/announcement_repository.go).  requireOwnership reads  *)
(* the initiative, then asks for the caller's role at the entity it read   *)
(* (service/authz.go); the statement is a third step.  Roles, attributions *)
(* and initiatives change in between.  The ids in the URL are the          *)
(* caller's: an announcement may be asked for under an initiative it does  *)
(* not belong to.                                                          *)
(***************************************************************************)
EXTENDS Integers, FiniteSets

CONSTANTS
  Editors,   \* people with a row
  Drives,    \* initiatives
  CreatorOf, \* who created each
  Hosts,     \* organizations and projects to attribute one to
  NoHost,    \* personal: attributed to none
  Notices,   \* announcements
  MaxEdits,  \* bound: requests under way at a time
  NoDrive

ASSUME AnnouncementAssumption ==
  /\ NoDrive \notin Drives /\ NoHost \notin Hosts
  /\ CreatorOf \in [Drives -> Editors]

VARIABLES
  drives,  \* the initiatives that exist
  attr,    \* the attribution of each
  had,     \* <<initiative, entity>>: was attributed so at some time
  writers, \* <<person, entity>>: writer at the entity, in fga-sync
  managed, \* <<person, initiative>>: could manage it at some time
  home,    \* of each announcement: the initiative it was created for
  live,    \* the announcements that are stored
  edit,    \* of each person, the request under way: see Edits
  written  \* <<person, request>> of the last create, change or delete, until
           \* the next request

noticeVars == <<drives, attr, had, writers, managed, home, live, edit, written>>

(* copy: the attribution the request read; moved: was the row attributed   *)
(* to another one by the time the role was looked up?                      *)
NoEdit == [at |-> "idle", op |-> "none", drive |-> NoDrive, notice |-> "none",
           copy |-> NoHost, moved |-> FALSE]
Asked  == [at : {"asked", "read", "allowed"}, op : {"create", "write"}, drive : Drives,
           notice : Notices, copy : Hosts \cup {NoHost}, moved : BOOLEAN]
Edits  == Asked \cup {NoEdit}

NoticeTypeOK ==
  /\ drives \subseteq Drives
  /\ attr \in [Drives -> Hosts \cup {NoHost}]
  /\ had \subseteq Drives \X Hosts
  /\ writers \subseteq Editors \X Hosts /\ managed \subseteq Editors \X Drives
  /\ home \in [Notices -> Drives \cup {NoDrive}]
  /\ live \subseteq Notices
  /\ edit \in [Editors -> Edits]
  /\ written \subseteq Editors \X Asked

(* canManage, for an initiative of that attribution: a personal one has    *)
(* no writers, and the creator needs no role.                              *)
CanManage(u, d, a, ws) == u = CreatorOf[d] \/ <<u, a>> \in ws

Managing(at, ws) == {p \in Editors \X drives : CanManage(p[1], p[2], at[p[2]], ws)}

NoticeInit ==
  /\ drives = Drives
  /\ attr = [d \in Drives |-> NoHost]
  /\ had = {} /\ writers = {}
  /\ managed = {p \in Editors \X Drives : p[1] = CreatorOf[p[2]]}
  /\ home = [n \in Notices |-> NoDrive]
  /\ live = {} /\ written = {}
  /\ edit = [u \in Editors |-> NoEdit]

-----------------------------------------------------------------------------
(* Roles and rows change elsewhere; managed and had remember.              *)
SetWriter(u, e) ==
  /\ writers' = IF <<u, e>> \in writers THEN writers \ {<<u, e>>} ELSE writers \cup {<<u, e>>}
  /\ managed' = managed \cup Managing(attr, writers')
  /\ UNCHANGED <<drives, attr, had, home, live, edit, written>>

(* By UpdateAttribution, or by an edit that writes back the row it read    *)
(* before (see Initiatives).                                               *)
Attribute(d, a) ==
  /\ d \in drives /\ a # attr[d]
  /\ attr' = [attr EXCEPT ![d] = a]
  /\ had' = IF a \in Hosts THEN had \cup {<<d, a>>} ELSE had
  /\ managed' = managed \cup Managing(attr', writers)
  /\ UNCHANGED <<drives, writers, home, live, edit, written>>

(* The foreign key cascades to the announcements. *)
DropDrive(d) ==
  /\ drives' = drives \ {d}
  /\ live' = {n \in live : home[n] # d}
  /\ UNCHANGED <<attr, had, writers, managed, home, edit, written>>

-----------------------------------------------------------------------------
AskEdit(u, op, d, n) ==
  /\ edit[u] = NoEdit
  /\ Cardinality({v \in Editors : edit[v] # NoEdit}) < MaxEdits
  /\ edit' = [edit EXCEPT ![u] = [NoEdit EXCEPT
                 !.at = "asked", !.op = op, !.drive = d, !.notice = n]]
  /\ written' = {}
  /\ UNCHANGED <<drives, attr, had, writers, managed, home, live>>

(* requireOwnership: the row must exist, *)
ReadDrive(u) ==
  /\ edit[u].at = "asked" /\ edit[u].drive \in drives
  /\ edit' = [edit EXCEPT ![u] = [@ EXCEPT !.at = "read", !.copy = attr[edit[u].drive]]]
  /\ UNCHANGED <<drives, attr, had, writers, managed, home, live, written>>

(* and the caller manage it, as it was read.                               *)
AllowEdit(u) ==
  /\ edit[u].at = "read"
  /\ CanManage(u, edit[u].drive, edit[u].copy, writers)
  /\ edit' = [edit EXCEPT ![u] = [@ EXCEPT !.at = "allowed",
                                          !.moved = edit[u].copy # attr[edit[u].drive]]]
  /\ UNCHANGED <<drives, attr, had, writers, managed, home, live, written>>

(* INSERT: the foreign key refuses an initiative deleted meanwhile. *)
CreateNotice(u) ==
  /\ edit[u].at = "allowed" /\ edit[u].op = "create"
  /\ LET d == edit[u].drive  n == edit[u].notice IN
       /\ d \in drives /\ home[n] = NoDrive
       /\ home' = [home EXCEPT ![n] = d]
       /\ live' = live \cup {n}
  /\ written' = {<<u, edit[u]>>}
  /\ edit' = [edit EXCEPT ![u] = NoEdit]
  /\ UNCHANGED <<drives, attr, had, writers, managed>>

(* Update or Delete: WHERE id = ... AND initiative_id = ...; the mutant     *)
(* leaves the second half out.                                             *)
Match_AnyDrive(d) == live
Match(d) == {n \in live : home[n] = d}
WriteNotice(u) ==
  /\ edit[u].at = "allowed" /\ edit[u].op = "write"
  /\ edit[u].notice \in Match(edit[u].drive)
  /\ written' = {<<u, edit[u]>>}
  /\ live' \in {live, live \ {edit[u].notice}}
  /\ edit' = [edit EXCEPT ![u] = NoEdit]
  /\ UNCHANGED <<drives, attr, had, writers, managed, home>>

(* 403, 404 or an error; nothing was written. *)
EditFails(u) ==
  /\ edit[u] # NoEdit
  /\ edit' = [edit EXCEPT ![u] = NoEdit]
  /\ UNCHANGED <<drives, attr, had, writers, managed, home, live, written>>

NoticeNext ==
  \/ \E d \in Drives :
       DropDrive(d) \/ \E a \in Hosts \cup {NoHost} : Attribute(d, a)
  \/ \E u \in Editors :
       \/ \E e \in Hosts : SetWriter(u, e)
       \/ \E op \in {"create", "write"}, d \in Drives, n \in Notices : AskEdit(u, op, d, n)
       \/ ReadDrive(u) \/ AllowEdit(u) \/ CreateNotice(u) \/ WriteNotice(u) \/ EditFails(u)

NoticeSpec == NoticeInit /\ [][NoticeNext]_noticeVars

-----------------------------------------------------------------------------
(* Whatever ids a caller combines and whatever changes between the read,   *)
(* the check and the statement, announcements are written only by somebody *)
(* who at some time could manage the initiative they belong to ("scoped to *)
(* the given initiative", Delete).  Only a request whose row was           *)
(* attributed anew between the read and the check may be let through by a  *)
(* role at the entity it had read, even one granted since; the initiative  *)
(* the announcement belongs to was attributed to that entity once.         *)
Vouched(u, d, e) == <<u, d>> \in managed \/ (e.moved /\ <<d, e.copy>> \in had)

NoticeOfManaged == \A w \in written : Vouched(w[1], home[w[2].notice], w[2])

=============================================================================
