-------------------------------- MODULE FgaSync --------------------------------
(***************************************************************************)
(* The access tuples of one initiative: full-state messages published to   *)
(* fga-sync (infrastructure/fga/publisher.go) over NATS, and the tuples    *)
(* fga-sync keeps (external; its delivery is at least once).               *)
(*                                                                         *)
(* Publishing does not wait for anything: a message may be lost, and       *)
(* messages of different pods and of the reconcile job arrive in any       *)
(* order.  A message stays on the wire until its last delivery, so that    *)
(* fga-sync's retries are deliveries of their own.  The owner relation     *)
(* never changes and is left out.                                          *)
(***************************************************************************)
CONSTANTS
  Targets,   \* projects and organizations an initiative can be attributed to
  None       \* personal attribution, no row, no tuples

VARIABLES
  wire,      \* messages published and not yet finally delivered
  access     \* the tuples: public viewer and parent reference, or None

fgaVars == <<wire, access>>

(* What update_access asks for; delete_access asks for None.               *)
Access == [public : BOOLEAN, reference : Targets \cup {None}]

ASSUME NoneIsNoAccess == None \notin Access

FgaTypeOK ==
  /\ wire \subseteq Access \cup {None}
  /\ access \in Access \cup {None}

FgaInit == wire = {} /\ access = None

-----------------------------------------------------------------------------
Lost == UNCHANGED fgaVars

(* Publisher.UpdateAccess that reaches the broker *)
UpdateAccess(a) == wire' = wire \cup {a} /\ UNCHANGED access

(* Publisher.DeleteAccess; its flush sees the broker, not fga-sync.        *)
DeleteAccess == wire' = wire \cup {None} /\ UNCHANGED access

(* fga-sync replaces the tuples by what the message says.                  *)
Apply(m)       == m \in wire /\ access' = m
DeliverLast(m) == Apply(m) /\ wire' = wire \ {m}
Deliver(m)     == Apply(m) /\ wire' \in {wire, wire \ {m}}

=============================================================================
