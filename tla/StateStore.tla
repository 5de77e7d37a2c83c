------------------------------ MODULE StateStore ------------------------------
(***************************************************************************)
(* The daemon's in-memory state (src/src/daemon/state_store.{h,cpp}).      *)
(*                                                                         *)
(* StateStore has no thread of its own: each method locks mutex_ for the   *)
(* whole of its body, so a method is an operator from the record before    *)
(* the call to the record after it, and a call is one atomic step of the   *)
(* thread that makes it.  Fields nothing but status_json() reads           *)
(* (last_sync_error, node_state and the registry's address) are left out.  *)
(*                                                                         *)
(* A snapshot maps every stream id to its configuration, or to Absent.     *)
(***************************************************************************)
EXTENDS Naturals

CONSTANTS
    Streams,     \* the ids of senders and receivers, tagged with their kind
    Contents,    \* the configurations a stream can have
    Absent,      \* "this id is not in the snapshot"
    NoSnapshot   \* last_snapshot_ == std::nullopt

ASSUME SnapshotAssumption ==
    /\ Absent \notin Contents
    /\ NoSnapshot \notin [Streams -> Contents \cup {Absent}]

Snapshots == [Streams -> Contents \cup {Absent}]

EmptySnapshot == [s \in Streams |-> Absent]

HasAnyStreams(snapshot) == \E s \in Streams : snapshot[s] # Absent

DaemonStates ==
    {"starting", "connecting_ws", "connected_waiting_snapshot", "resyncing",
     "running", "degraded", "draining", "stopped"}

Stores ==
    [daemon_state               : DaemonStates,
     last_seen_revision         : Nat,
     last_applied_revision      : Nat,
     streams_registered         : BOOLEAN,
     protection_mode            : BOOLEAN,
     has_received_snapshot_changed : BOOLEAN,
     pending_drain_notification : BOOLEAN,
     last_snapshot              : Snapshots \cup {NoSnapshot}]

(* The member initialisers of StatusSnapshot and StateStore. *)
InitialStore ==
    [daemon_state               |-> "starting",
     last_seen_revision         |-> 0,
     last_applied_revision      |-> 0,
     streams_registered         |-> FALSE,
     protection_mode            |-> FALSE,
     has_received_snapshot_changed |-> FALSE,
     pending_drain_notification |-> FALSE,
     last_snapshot              |-> NoSnapshot]

-----------------------------------------------------------------------------

SetDaemonState(st, state) == [st EXCEPT !.daemon_state = state]

SetLastSeenRevision(st, rev) == [st EXCEPT !.last_seen_revision = rev]

MarkSnapshotSignalReceived(st) ==
    [st EXCEPT !.has_received_snapshot_changed = TRUE]

\* Mutant: what was applied is not kept for the next reconcile to start from.
MarkApplySuccessUnrecorded(st, rev, snapshot) ==
    [st EXCEPT !.last_applied_revision = rev,
               !.last_seen_revision    = rev,
               !.streams_registered    = HasAnyStreams(snapshot),
               !.protection_mode       = FALSE,
               !.has_received_snapshot_changed = TRUE]

MarkApplySuccess(st, rev, snapshot) ==
    [st EXCEPT !.last_applied_revision = rev,
               !.last_seen_revision    = rev,
               !.streams_registered    = HasAnyStreams(snapshot),
               !.protection_mode       = FALSE,
               !.has_received_snapshot_changed = TRUE,
               !.last_snapshot         = snapshot]

\* Mutant: the streams still count as registered after the drain.
MarkDrainedStillRegistered(st) ==
    [st EXCEPT !.protection_mode            = TRUE,
               !.pending_drain_notification = TRUE]

MarkDrained(st) ==
    [st EXCEPT !.streams_registered         = FALSE,
               !.protection_mode            = TRUE,
               !.pending_drain_notification = TRUE]

ClearLastSnapshot(st) == [st EXCEPT !.last_snapshot = NoSnapshot]

ConsumePendingDrainNotification(st) ==
    [st EXCEPT !.pending_drain_notification = FALSE]

(* What a reconcile or a drain starts from: last_snapshot().value_or({}). *)
KnownStreams(st) ==
    IF st.last_snapshot = NoSnapshot THEN EmptySnapshot ELSE st.last_snapshot

=============================================================================
