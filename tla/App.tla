--------------------------------- MODULE App ---------------------------------
(***************************************************************************)
(* The synchronisation core of nmos-sync-daemon (src/src/daemon/app.cpp)   *)
(* with the state it keeps in StateStore and the reconcile it runs through *)
(* ReconcileEngine.  What the Node does is NodeContract, what WsClient does*)
(* is Connection: their actions are taken as they stand, here joined to    *)
(* what the daemon does in the same step.                                  *)
(*                                                                         *)
(* Threads, each with a program counter in at:                             *)
(*   "sync"     App::sync_loop: waits for a request, debounces, pulls the  *)
(*              snapshot and reconciles the Node with it                   *)
(*   "message"  the WebSocket library's thread, in the message handler     *)
(*   "receive"  WsClient's receive worker, in on_connected and             *)
(*              on_disconnected                                            *)
(*   "http"     the debug server's thread, restarting the Node for a new   *)
(*              configuration (node_config_mutex_ admits one at a time)    *)
(*   "main"     App::run's loop and App::stop                              *)
(* One action is one critical section (sync_mutex_, the store's mutex_) or *)
(* the beginning or end of a call that blocks.  Time is abstract: a timed  *)
(* wait may end whenever the thread is in it.                              *)
(***************************************************************************)
EXTENDS StateStore

CONSTANTS
    Unusable,     \* configurations for which the Node's make_*_resources throw
    ListOf,       \* the list (1..6) of a stream, in apply_snapshot's order
    Revisions,    \* revisions the external project may put in a message
    MaxChanges,   \* bound: changes of the external project's data
    MaxMessages,  \* bound: data.changed messages
    MaxConnects,  \* bound: WebSocket connections
    MaxRestarts,  \* bound: Node restarts asked over HTTP
    MayStop       \* bound: whether a run includes the daemon's shutdown

ASSUME AppAssumption ==
    /\ Unusable \subseteq Contents
    /\ Absent \notin Streams
    /\ ListOf \in [Streams -> 1..6]
    /\ Revisions \subseteq Nat
    /\ {MaxChanges, MaxMessages, MaxConnects, MaxRestarts} \subseteq Nat
    /\ MayStop \in BOOLEAN

VARIABLES
    world,              \* the external project's current snapshot
    budget,             \* changes, messages, connects and restarts so far
    store,              \* App::state_store_
    sync_pending,       \* App::sync_pending_
    force_sync_pending, \* App::force_sync_pending_
    pending_revision,   \* App::pending_revision_
    retry_armed,        \* App::next_sync_not_before_ is set
    reconcile_mutex,    \* who holds App::reconcile_mutex_
    stop_requested,     \* App::stop_requested_
    connected, calling, stopping, ended,  \* of the WebSocket client
    held, stage, asked, met, crossed,     \* of the Node
    at,                 \* program counters
    call,               \* locals of a schedule_sync call, per calling thread
    job,                \* locals of perform_sync, and of a drain
    owed,               \* history: a signal no completed sync covers
    covered,            \* history: a pull is under way and no signal came since it began
    strayed             \* history: streams whose change no snapshot records

Client == INSTANCE Connection
Node == INSTANCE NodeContract

external == <<world, budget>>
request  == <<sync_pending, force_sync_pending, pending_revision, retry_armed>>
client   == <<connected, calling, stopping, ended>>
node     == <<held, stage, asked, met, crossed>>
history  == <<owed, covered, strayed>>
vars     == <<external, store, request, reconcile_mutex, stop_requested, client,
              node, at, call, job, history>>

\* The threads that call schedule_sync.
Callers == {"message", "receive", "http"}

Pcs ==
    [sync    : {"waiting", "debouncing", "delaying", "taken", "locking",
                "fetching", "applying", "failing", "retrying", "done"},
     message : {"idle", "force", "status", "enter"},
     receive : {"outside", "connected", "revision", "status", "enter",
                "disconnecting", "draining", "removing", "drained", "forgotten"},
     http    : {"idle", "stopped", "cleared", "revision", "status", "enter"},
     main    : {"starting", "running", "joining", "stopping_node", "stopped"}]

NoJob == [revision |-> 0, current |-> EmptySnapshot, next |-> EmptySnapshot,
          todo |-> {}, done |-> {}]

Jobs == [revision : Nat, current : Snapshots, next : Snapshots,
         todo : SUBSET Streams, done : SUBSET Streams]

Budgets == [changes : 0..MaxChanges, messages : 0..MaxMessages,
            connects : 0..MaxConnects, restarts : 0..MaxRestarts]

TypeOK ==
    /\ world \in Snapshots
    /\ budget \in Budgets
    /\ store \in Stores
    /\ sync_pending \in BOOLEAN
    /\ force_sync_pending \in BOOLEAN
    /\ pending_revision \in Nat
    /\ retry_armed \in BOOLEAN
    /\ reconcile_mutex \in {"free", "sync", "receive"}
    /\ stop_requested \in BOOLEAN
    /\ Client!TypeOK
    /\ Node!TypeOK
    /\ at \in Pcs
    /\ call \in [Callers -> [revision : Nat, stale : BOOLEAN]]
    /\ job \in Jobs
    /\ owed \in BOOLEAN
    /\ covered \in BOOLEAN
    /\ strayed \in SUBSET Streams

\* App::run has started the Node, the sync thread and the WebSocket client.
Init ==
    /\ world \in Snapshots
    /\ budget = [changes |-> 0, messages |-> 0, connects |-> 0, restarts |-> 0]
    /\ store = InitialStore
    /\ sync_pending = FALSE
    /\ force_sync_pending = FALSE
    /\ pending_revision = 0
    /\ retry_armed = FALSE
    /\ reconcile_mutex = "free"
    /\ stop_requested = FALSE
    /\ Client!Init
    /\ Node!Init
    /\ at = [sync |-> "waiting", message |-> "idle", receive |-> "outside",
             http |-> "idle", main |-> "starting"]
    /\ call = [c \in Callers |-> [revision |-> 0, stale |-> FALSE]]
    /\ job = NoJob
    /\ owed = FALSE
    /\ covered = FALSE
    /\ strayed = {}

Goto(thread, pc, next) ==
    /\ at[thread] = pc
    /\ at' = [at EXCEPT ![thread] = next]

-----------------------------------------------------------------------------
(* App::schedule_sync, called by thread c with call[c].revision.           *)

\* The status is read before sync_mutex_ is taken, and may be old when used.
ReadStatus(c) ==
    /\ Goto(c, "status", "enter")
    /\ call' = [call EXCEPT ![c].stale =
                   /\ call[c].revision <= store.last_applied_revision
                   /\ ~ store.protection_mode
                   /\ store.streams_registered]
    /\ UNCHANGED <<external, store, request, reconcile_mutex, stop_requested,
                   client, node, job, history>>

\* schedule_sync returns, and with it what called it.
Leave(c) ==
    /\ Goto(c, "enter", IF c = "receive" THEN "outside" ELSE "idle")
    /\ call' = [call EXCEPT ![c] = [revision |-> 0, stale |-> FALSE]]
    /\ IF c = "receive" THEN Client!Returns ELSE UNCHANGED client

RequestSync(rev) ==
    /\ sync_pending' = TRUE
    /\ pending_revision' = IF rev > pending_revision THEN rev
                                                     ELSE pending_revision
    /\ retry_armed' = FALSE

\* Mutant: a request that is not newer is dropped although a signal forces it.
EnterScheduleUnforced(c) ==
    /\ IF call[c].stale
       THEN UNCHANGED <<sync_pending, pending_revision, retry_armed>>
       ELSE RequestSync(call[c].revision)
    /\ Leave(c)
    /\ UNCHANGED <<external, store, force_sync_pending, reconcile_mutex,
                   stop_requested, node, job, history>>

EnterSchedule(c) ==
    /\ IF ~force_sync_pending /\ call[c].stale
       THEN UNCHANGED <<sync_pending, pending_revision, retry_armed>>
       ELSE RequestSync(call[c].revision)
    /\ Leave(c)
    /\ UNCHANGED <<external, store, force_sync_pending, reconcile_mutex,
                   stop_requested, node, job, history>>

\* Mutant: the revision before the last one seen, with no case for none seen.
PickRevisionUnguarded(c) ==
    /\ Goto(c, "revision", "status")
    /\ call' = [call EXCEPT ![c].revision = store.last_seen_revision - 1]
    /\ UNCHANGED <<external, store, request, reconcile_mutex, stop_requested,
                   client, node, job, history>>

\* "last_seen_revision > 0 ? last_seen_revision : 1", for on_connected and for
\* a restart of the Node.
PickRevision(c) ==
    /\ Goto(c, "revision", "status")
    /\ call' = [call EXCEPT ![c].revision =
                   IF store.last_seen_revision > 0
                   THEN store.last_seen_revision ELSE 1]
    /\ UNCHANGED <<external, store, request, reconcile_mutex, stop_requested,
                   client, node, job, history>>

-----------------------------------------------------------------------------
(* The external project, which owns the snapshot, and the message handler: *)
(* on_snapshot_changed, then schedule_sync.                                *)

\* It changes its data; that a message announces the change is not relied on.
WorldChanges ==
    /\ budget.changes < MaxChanges
    /\ \E w \in Snapshots \ {world} : world' = w
    /\ budget' = [budget EXCEPT !.changes = @ + 1]
    /\ UNCHANGED <<store, request, reconcile_mutex, stop_requested, client, node,
                   at, call, job, history>>

\* The handler may run before connected_ is raised and after it is cleared.
MessageArrives ==
    /\ budget.messages < MaxMessages
    /\ budget' = [budget EXCEPT !.messages = @ + 1]
    /\ ~stopping
    /\ Goto("message", "idle", "force")
    /\ \E rev \in Revisions :
          /\ store' = SetLastSeenRevision(MarkSnapshotSignalReceived(store), rev)
          /\ call' = [call EXCEPT !["message"].revision = rev]
    /\ owed' = TRUE
    /\ covered' = FALSE
    /\ UNCHANGED <<world, request, reconcile_mutex, stop_requested, client, node,
                   job, strayed>>

ForceSync ==
    /\ Goto("message", "force", "status")
    /\ force_sync_pending' = TRUE
    /\ UNCHANGED <<external, store, sync_pending, pending_revision, retry_armed,
                   reconcile_mutex, stop_requested, client, node, call, job,
                   history>>

-----------------------------------------------------------------------------
(* The WebSocket client, and the two callbacks it makes.                   *)

\* A connection comes up, and on_connected is called.
ConnectionOpens ==
    /\ budget.connects < MaxConnects
    /\ budget' = [budget EXCEPT !.connects = @ + 1]
    /\ Client!Opens
    /\ Goto("receive", "outside", "connected")
    /\ UNCHANGED <<world, store, request, reconcile_mutex, stop_requested, node,
                   call, job, history>>

ConnectionLost ==
    /\ Client!Lost
    /\ UNCHANGED <<external, store, request, reconcile_mutex, stop_requested, node,
                   at, call, job, history>>

\* handle_ws_connected, up to its call of schedule_sync.
HandleWsConnected ==
    /\ Goto("receive", "connected", "revision")
    /\ store' = ConsumePendingDrainNotification(
                    SetDaemonState(store, "connected_waiting_snapshot"))
    /\ UNCHANGED <<external, request, reconcile_mutex, stop_requested, client, node,
                   call, job, history>>

\* A client that is stopping gives up its connection, and calls on_disconnected.
ConnectionCloses ==
    /\ Client!Closes
    /\ Goto("receive", "outside", "disconnecting")
    /\ UNCHANGED <<external, store, request, reconcile_mutex, stop_requested, node,
                   call, job, history>>

HandleWsDisconnected ==
    /\ Goto("receive", "disconnecting", "draining")
    /\ store' = SetDaemonState(store, "draining")
    /\ UNCHANGED <<external, request, reconcile_mutex, stop_requested, client, node,
                   call, job, history>>

ClientEnds ==
    /\ Client!Ends
    /\ at["receive"] = "outside"
    /\ UNCHANGED <<external, store, request, reconcile_mutex, stop_requested, node,
                   at, call, job, history>>

-----------------------------------------------------------------------------
(* The calls that a reconcile or a drain makes of the Node, one at a time  *)
(* and with reconcile_mutex_ held, and what the Node does by itself.       *)

\* What reconcile_list will do: an operation for every stream in which the two
\* snapshots differ.  drain_all removes what is in the last one.
Differing(current, next) == {s \in Streams : current[s] # next[s]}

Adds(s) == job.current[s] = Absent

\* The lists are reconciled in order, and within a list removals and updates (in
\* the order of an unordered_map) come before additions.
Turn(s) ==
    /\ s \in job.todo
    /\ \A t \in job.todo :
          /\ ListOf[s] <= ListOf[t]
          /\ ListOf[s] = ListOf[t] /\ Adds(s) => Adds(t)

\* apply_*, update_* or remove_*.  Adding a stream the Node has updates it, and
\* updating one it lacks adds it.
CallNode(s) ==
    /\ at["sync"] = "applying" \/ at["receive"] = "removing"
    /\ Turn(s)
    /\ Node!Ask(s, job.next[s])
    /\ UNCHANGED <<external, store, request, reconcile_mutex, stop_requested, client,
                   at, call, job, history>>

CallDone ==
    /\ Node!Done
    /\ job' = [job EXCEPT !.todo = @ \ {asked.s}, !.done = @ \cup {asked.s}]
    /\ UNCHANGED <<external, store, request, reconcile_mutex, stop_requested, client,
                   at, call, history>>

\* It returns as if it were done.
CallMissed ==
    /\ Node!Missed
    /\ held[asked.s] # asked.to
    /\ job' = [job EXCEPT !.todo = @ \ {asked.s}]
    /\ strayed' = strayed \cup {asked.s}
    /\ UNCHANGED <<external, store, request, reconcile_mutex, stop_requested, client,
                   at, call, owed, covered>>

CallThrows ==
    /\ Node!Refuse
    /\ Goto("sync", "applying", "failing")
    /\ UNCHANGED <<external, store, request, reconcile_mutex, stop_requested, client,
                   call, job, history>>

\* The streams that the Node loses or changes unasked go astray.
NodeDisturbs ==
    LET disturbed == {s \in Streams : held'[s] # held[s]}
    IN  /\ strayed' = strayed \cup disturbed
        /\ job' = [job EXCEPT !.done = @ \ disturbed]
        /\ UNCHANGED <<owed, covered>>

NodeConfused ==
    /\ Node!Confuse
    /\ NodeDisturbs
    /\ UNCHANGED <<external, store, request, reconcile_mutex, stop_requested, client,
                   at, call>>

NodeReady ==
    /\ Node!Ready
    /\ UNCHANGED <<external, store, request, reconcile_mutex, stop_requested, client,
                   at, call, job, history>>

\* handle_ws_disconnected gets reconcile_mutex_, ...
DrainBegins ==
    /\ reconcile_mutex = "free"
    /\ reconcile_mutex' = "receive"
    /\ Goto("receive", "draining", "removing")
    /\ job' = [job EXCEPT !.current = KnownStreams(store),
                          !.todo = Differing(KnownStreams(store), EmptySnapshot)]
    /\ UNCHANGED <<external, store, request, stop_requested, client, node, call,
                   history>>

\* ... has removed every stream of the last snapshot, ...
Drained ==
    /\ job.todo = {}
    /\ Goto("receive", "removing", "drained")
    /\ store' = MarkDrained(store)
    /\ UNCHANGED <<external, request, reconcile_mutex, stop_requested, client, node,
                   call, job, history>>

\* ... forgets it, ...
DrainForgets ==
    /\ Goto("receive", "drained", "forgotten")
    /\ store' = ClearLastSnapshot(store)
    /\ UNCHANGED <<external, request, reconcile_mutex, stop_requested, client, node,
                   call, job, history>>

\* ... and returns.
DrainEnds ==
    /\ Goto("receive", "forgotten", "outside")
    /\ store' = SetDaemonState(store, "degraded")
    /\ reconcile_mutex' = "free"
    /\ Client!Returns
    /\ job' = [NoJob EXCEPT !.revision = job.revision]
    /\ strayed' = strayed \ job.done
    /\ UNCHANGED <<external, request, stop_requested, node, call, owed, covered>>

-----------------------------------------------------------------------------
(* App::sync_loop.                                                         *)

WakeUp ==
    /\ sync_pending /\ ~stop_requested
    /\ Goto("sync", "waiting", "debouncing")
    /\ UNCHANGED <<external, store, request, reconcile_mutex, stop_requested, client,
                   node, call, job, history>>

\* The request is taken and perform_sync entered.
TakeRequest ==
    /\ job' = [job EXCEPT !.revision = pending_revision]
    /\ sync_pending' = FALSE
    /\ force_sync_pending' = FALSE
    /\ pending_revision' = 0
    /\ retry_armed' = FALSE
    /\ at' = [at EXCEPT !["sync"] = "taken"]
    /\ UNCHANGED <<external, store, reconcile_mutex, stop_requested, client, node,
                   call, history>>

\* The debounce deadline passes.  (A signal later than the deadline restarts the
\* loop with the request still pending, which changes nothing here.)
DebounceEnds ==
    /\ at["sync"] = "debouncing"
    /\ ~stop_requested
    /\ \/ ~retry_armed /\ TakeRequest
       \/ /\ retry_armed
          /\ at' = [at EXCEPT !["sync"] = "delaying"]
          /\ UNCHANGED <<external, store, request, reconcile_mutex, stop_requested,
                         client, node, call, job, history>>

\* A retry's delay passes, or a new request cancels it.
DelayEnds ==
    /\ at["sync"] = "delaying"
    /\ ~stop_requested
    /\ \/ retry_armed /\ TakeRequest
       \/ /\ ~retry_armed
          /\ at' = [at EXCEPT !["sync"] = "waiting"]
          /\ UNCHANGED <<external, store, request, reconcile_mutex, stop_requested,
                         client, node, call, job, history>>

\* Every wait of the loop gives up once stop_requested_ is set.
SyncLoopStops ==
    /\ at["sync"] \in {"waiting", "debouncing", "delaying"}
    /\ stop_requested
    /\ at' = [at EXCEPT !["sync"] = "done"]
    /\ UNCHANGED <<external, store, request, reconcile_mutex, stop_requested, client,
                   node, call, job, history>>

-----------------------------------------------------------------------------
(* App::perform_sync.                                                      *)

\* stop_requested_ is checked before reconcile_mutex_ is waited for.
CheckStop ==
    /\ Goto("sync", "taken", IF stop_requested THEN "done" ELSE "locking")
    /\ UNCHANGED <<external, store, request, reconcile_mutex, stop_requested, client,
                   node, call, job, history>>

\* The mutex is taken, the last snapshot copied and the REST request sent.
BeginFetch ==
    /\ reconcile_mutex = "free"
    /\ reconcile_mutex' = "sync"
    /\ Goto("sync", "locking", "fetching")
    /\ store' = SetDaemonState(store, "resyncing")
    /\ job' = [job EXCEPT !.current = KnownStreams(store)]
    /\ covered' = TRUE
    /\ UNCHANGED <<external, request, stop_requested, client, node, call, owed,
                   strayed>>

FetchReplies ==
    /\ Goto("sync", "fetching", "applying")
    /\ job' = [job EXCEPT !.next = world,
                          !.todo = Differing(job.current, world)]
    /\ UNCHANGED <<external, store, request, reconcile_mutex, stop_requested, client,
                   node, call, history>>

\* fetch_snapshot throws: timeout, HTTP error, or a document that is no snapshot.
FetchFails ==
    /\ Goto("sync", "fetching", "failing")
    /\ UNCHANGED <<external, store, request, reconcile_mutex, stop_requested, client,
                   node, call, job, history>>

\* mark_apply_success, "running", and reconcile_mutex_ is released.
SyncSucceeds ==
    /\ job.todo = {}
    /\ Goto("sync", "applying", "waiting")
    /\ store' = SetDaemonState(MarkApplySuccess(store, job.revision, job.next),
                               "running")
    /\ reconcile_mutex' = "free"
    /\ job' = NoJob
    /\ owed' = (owed /\ ~covered)
    /\ covered' = FALSE
    /\ strayed' = strayed \ job.done
    /\ UNCHANGED <<external, request, stop_requested, client, node, call>>

\* The catch block: "degraded", and sync.failed is sent.
ReportFailure ==
    /\ Goto("sync", "failing", "retrying")
    /\ store' = SetDaemonState(store, "degraded")
    /\ UNCHANGED <<external, request, reconcile_mutex, stop_requested, client, node,
                   call, job, history>>

\* Mutant: a failed sync is reported and not asked for again.
GiveUp ==
    /\ Goto("sync", "retrying", "waiting")
    /\ reconcile_mutex' = "free"
    /\ job' = NoJob
    /\ covered' = FALSE
    /\ strayed' = strayed \cup job.done
    /\ UNCHANGED <<external, store, request, stop_requested, client, node, call, owed>>

\* The request is put back with a delay, under sync_mutex_, and reconcile_mutex_ is
\* released.
RetryLater ==
    /\ Goto("sync", "retrying", "waiting")
    /\ sync_pending' = TRUE
    /\ pending_revision' = IF job.revision > pending_revision
                           THEN job.revision ELSE pending_revision
    /\ retry_armed' = TRUE
    /\ reconcile_mutex' = "free"
    /\ job' = NoJob
    /\ covered' = FALSE
    /\ strayed' = strayed \cup job.done
    /\ UNCHANGED <<external, store, force_sync_pending, stop_requested, client, node,
                   call, owed>>

-----------------------------------------------------------------------------
(* App::restart_node_runtime, for PUT or PATCH of the Node's configuration.*)

RestartStop ==
    /\ budget.restarts < MaxRestarts
    /\ budget' = [budget EXCEPT !.restarts = @ + 1]
    /\ at["main"] \in {"starting", "running", "joining"}
    /\ Goto("http", "idle", "stopped")
    /\ Node!Stop
    /\ NodeDisturbs
    /\ UNCHANGED <<world, store, request, reconcile_mutex, stop_requested, client,
                   call>>

\* The last snapshot is forgotten; what the Node still caches is not.
RestartClears ==
    /\ Goto("http", "stopped", "cleared")
    /\ store' = ClearLastSnapshot(store)
    /\ strayed' = strayed \cup {s \in Streams : held[s] # Absent}
    /\ UNCHANGED <<external, request, reconcile_mutex, stop_requested, client, node,
                   call, job, owed, covered>>

\* start() returns before the cached streams are there again.
RestartStarts ==
    /\ Goto("http", "cleared", "revision")
    /\ Node!Start
    /\ UNCHANGED <<external, store, request, reconcile_mutex, stop_requested, client,
                   call, job, history>>

\* start() returned false; update_node_config puts the old document back and
\* restarts again, which is a RestartStop like any other.
RestartFails ==
    /\ Goto("http", "cleared", "idle")
    /\ Node!StartFails
    /\ UNCHANGED <<external, store, request, reconcile_mutex, stop_requested, client,
                   call, job, history>>

-----------------------------------------------------------------------------
(* App::run after it has started the threads, and App::stop.               *)

\* The last statement before run()'s loop; the receive worker already runs.
ConnectingWs ==
    /\ Goto("main", "starting", "running")
    /\ store' = SetDaemonState(store, "connecting_ws")
    /\ UNCHANGED <<external, request, reconcile_mutex, stop_requested, client, node,
                   call, job, history>>

\* SIGINT or SIGTERM.
RequestStop ==
    /\ MayStop
    /\ ~stop_requested
    /\ stop_requested' = TRUE
    /\ UNCHANGED <<external, store, request, reconcile_mutex, client, node, at, call,
                   job, history>>

\* stop() tells the WebSocket client to stop, ...
StopWs ==
    /\ stop_requested
    /\ Goto("main", "running", "joining")
    /\ Client!Stops
    /\ UNCHANGED <<external, store, request, reconcile_mutex, stop_requested, node,
                   call, job, history>>

\* ... joins its workers, then the sync thread, and closes the HTTP server.
Joined ==
    /\ ended
    /\ at["sync"] = "done" /\ at["http"] = "idle"
    /\ Goto("main", "joining", "stopping_node")
    /\ UNCHANGED <<external, store, request, reconcile_mutex, stop_requested, client,
                   node, call, job, history>>

StopNode ==
    /\ Goto("main", "stopping_node", "stopped")
    /\ Node!Stop
    /\ NodeDisturbs
    /\ store' = SetDaemonState(store, "stopped")
    /\ UNCHANGED <<external, request, reconcile_mutex, stop_requested, client, call>>

-----------------------------------------------------------------------------

Message ==
    \/ MessageArrives \/ ForceSync \/ ReadStatus("message") \/ EnterSchedule("message")

OnConnected ==
    \/ HandleWsConnected \/ PickRevision("receive") \/ ReadStatus("receive")
    \/ EnterSchedule("receive")

OnDisconnected ==
    HandleWsDisconnected \/ DrainBegins \/ Drained \/ DrainForgets \/ DrainEnds

Connecting ==
    \/ ConnectionOpens \/ ConnectionLost \/ ConnectionCloses \/ ClientEnds
    \/ OnConnected \/ OnDisconnected

CallEnds == CallDone \/ CallMissed \/ CallThrows

Calls == (\E s \in Streams : CallNode(s)) \/ CallEnds

Sync ==
    \/ WakeUp \/ DebounceEnds \/ DelayEnds \/ SyncLoopStops \/ CheckStop
    \/ BeginFetch \/ FetchReplies \/ FetchFails \/ SyncSucceeds
    \/ ReportFailure \/ RetryLater

Http ==
    \/ RestartStop \/ RestartClears \/ RestartStarts \/ RestartFails
    \/ PickRevision("http") \/ ReadStatus("http") \/ EnterSchedule("http")

Main == ConnectingWs \/ RequestStop \/ StopWs \/ Joined \/ StopNode

Next ==
    \/ WorldChanges \/ Message \/ Connecting \/ Sync \/ Calls
    \/ NodeConfused \/ NodeReady \/ Http \/ Main

Spec == Init /\ [][Next]_vars

-----------------------------------------------------------------------------
(* What the daemon's own threads promise: a step that is possible is taken *)
(* in the end, and the external project's REST interface answers in the    *)
(* end if it is asked again and again.  A call of the Node ends, which     *)
(* NodeResources shows of it.  The external project's changes, the network,*)
(* and the requests to restart or stop are not fair.                       *)

Fairness ==
    /\ WF_vars(ForceSync \/ ReadStatus("message") \/ EnterSchedule("message"))
    /\ WF_vars(OnConnected)
    /\ WF_vars(Sync \/ Calls)
    /\ SF_vars(FetchReplies)
    /\ WF_vars(RestartClears \/ RestartStarts \/ RestartFails
                \/ PickRevision("http") \/ ReadStatus("http")
                \/ EnterSchedule("http"))

FairSpec == Spec /\ Fairness

-----------------------------------------------------------------------------
(* Properties                                                              *)

\* The message thread has a signal it is sure to turn into a request: it has yet
\* to set the force flag, or the flag it set is still there.
MessagePromises ==
    \/ at["message"] = "force"
    \/ at["message"] \in {"status", "enter"} /\ force_sync_pending

\* Every data.changed the daemon received is covered by a completed sync, or by
\* one that is requested, about to be requested, or under way with a pull begun
\* after the signal.  schedule_sync may drop a request, on a status read before
\* its lock; the force flag is set in another critical section, and the sync
\* thread may clear it in between.
NoSignalForgotten ==
    owed =>
        \/ stop_requested
        \/ MessagePromises
        \/ sync_pending
        \/ at["sync"] \in {"taken", "locking", "failing", "retrying"}
        \/ at["sync"] \in {"fetching", "applying"} /\ covered

\* While nothing is being reconciled, the Node holds just the streams of the last
\* snapshot, but for the streams that strayed: a failed sync had already changed
\* them, a restart made the daemon forget them, the starting Node missed the call
\* for them, or it lost or changed them unasked.
OnlyStrayedStreamsDiffer ==
    reconcile_mutex = "free" =>
        \A s \in Streams \ strayed : held[s] = KnownStreams(store)[s]

\* The status the daemon reports about its streams is the truth about the Node:
\* if none strayed, streams_registered says whether it holds any.
ReportedRegistrationIsTrue ==
    reconcile_mutex = "free" /\ strayed = {} =>
        (store.streams_registered <=> HasAnyStreams(held))

\* "degraded" is never a resting state: a daemon that is not stopping and reports
\* it is about to ask for a sync, has asked for one or has begun one, whatever
\* on_connected, on_disconnected and run() write to the same field.
DegradedIsRetried ==
    store.daemon_state = "degraded" /\ ~stop_requested =>
        sync_pending \/ at["sync"] \in {"taken", "locking", "retrying"}

\* A call that throws although its configuration can be used.
UsableRefused ==
    /\ asked.to \in Node!Usable
    /\ at["sync"] = "applying" /\ at'["sync"] = "failing"

\* Every signal is followed by a sync whose pull began after it and which
\* succeeded, unless the daemon is stopped, if the Node is up in the end, the
\* external project ends up with configurations the Node accepts, and the Node
\* does not refuse them for ever because of a call that crossed its start.
EverySignalIsServed ==
    /\ <>[](stage = "up")
    /\ <>[](\A s \in Streams : world[s] \notin Unusable)
    /\ <>[][~UsableRefused]_vars
    => (owed ~> (~owed \/ stop_requested))

-----------------------------------------------------------------------------
(* What the design document asks (NMOS_SYNC_DAEMON_OPENCODE_TASKS.md) and  *)
(* the code does not do.                                                   *)

\* Rule 10: a lost connection to the external project removes the registered
\* streams, before the client reconnects.
DisconnectDrains ==
    [][~connected /\ connected' /\ budget.connects > 0 => ~HasAnyStreams(held)]_vars

\* Task 6.5: after an apply, the recorded state is the state of the Node, here
\* for the streams whose calls never crossed a start of the Node.
StateMatchesAppliedResult ==
    reconcile_mutex = "free" /\ store.last_snapshot # NoSnapshot =>
        \A s \in Streams \ crossed : held[s] = store.last_snapshot[s]

=============================================================================
