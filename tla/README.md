# A verification of nmos-client in TLA+

nmos-sync-daemon keeps an NMOS Node in step with an external project: it listens
to that project's WebSocket, pulls a snapshot of streams over REST when it is told
that something changed, and adds, updates and removes senders and receivers of the
Node. The modules here model the code that decides when that happens and what it
does to the Node; TLC checks them on small instances and TLAPS proves the main
results for every instance.

Paths below are relative to `src/src/`; `DOC` is
`src/NMOS_SYNC_DAEMON_OPENCODE_TASKS.md`.

## The system

| Component | State | Operations | Modelled in |
|---|---|---|---|
| Synchronisation core, `daemon/app.cpp` | the request (`sync_pending_`, `force_sync_pending_`, `pending_revision_`, `next_sync_not_before_`), `stop_requested_`, `reconcile_mutex_` | `run`, `stop`, `schedule_sync`, `sync_loop`, `perform_sync`, the WebSocket handlers, `restart_node_runtime` | `App` |
| State store, `daemon/state_store.cpp` | the status fields and the last snapshot | its setters and `mark_*` | `StateStore` |
| WebSocket client, `daemon/ws_client.cpp` | `connected_`, `client_`, the send queue, `last_activity_` | three workers, the library's handlers, `send_json`, `stop` | `WsClient`, contract in `Connection` |
| Reconcile engine, `daemon/reconcile_engine.cpp` | none | `apply_snapshot`, `drain_all` | `Reconcile`, `Endpoints`; as the core sees them, `App` |
| Snapshot client and DTOs, `daemon/snapshot_client.cpp`, `daemon/dto.cpp` | none | pull, parse, compare, the effective clock | `Reconcile`, `App`, `StateStore`; not the parsing |
| Node runtime, `daemon/node_runtime.cpp` | the Node | start, stop, apply, update, remove, clock, devices | `Endpoints`, `App`, `NodeResources` |
| Node life cycle, `node.cpp` 1002-1088, 2000-2391 | `lifecycle_state_`, `stop_requested_`, `needs_model_reset_`, `thread_`, `node_model_.shutdown` | `start`, `stop`, the worker, `thread_run` | `NodeLifecycle` |
| Node resources, `node.cpp` 1943-1994, 2393-4042 | the NMOS model, the caches, the id lists, the locks, `runtime_interfaces_`, `ptp_domain_number_` | add, update, remove, reinsert, `set_ptp_clock`, `set_runtime_interfaces` | their steps and locks in `NodeResources`, what they write in `Endpoints` |
| IS-05, `node.cpp` 509-644, 732-806, 1145-1941 | `endpoint_staged`, `endpoint_active`, constraints and transport file of each stream | activation handler, auto resolver, `set_transportfile` | `Endpoints`; the locks of an activation in `NodeResources` |
| Node configuration, `app.cpp` 140-222, `node.cpp` 688-707, `daemon/http_debug_server.cpp` | a JSON file, `node_config_mutex_`, the reported Node state and registration | `GET`, `PUT` and `PATCH` of the settings, restart and roll-back, the registration handler | `ConfigUpdate` |
| Daemon configuration, video formats, stand-alone node, build and packaging | - | - | not modelled, see the end |

How they interact: `main` runs `App::run` in a thread and turns a signal into
`request_stop`. `App` starts the Node, the debug server, the sync thread and the
client. The client's receive worker calls `on_connected` and `on_disconnected`; the
library's thread calls `on_snapshot_changed`; both end in `schedule_sync`, which
wakes the sync thread. The sync thread pulls and reconciles under
`reconcile_mutex_`; the drain of `on_disconnected` takes the same mutex. A `PUT` of
the configuration restarts the Node from the debug server's thread, under
`node_config_mutex_` and *not* under `reconcile_mutex_`. Inside the Node a worker
thread owns the server, whose own threads insert the device, reinsert the cached
streams and apply IS-05 activations, under the model's write lock and two mutexes.

What is hard here, and what the properties are for: signals merged, forced and
retried by four threads; a store that describes a Node other threads change; lost
notifications; a connection that dies in the middle of coming up; a write lock that
is released inside an operation; a restart under a running sync; a sender that a
snapshot, a controller, the library's thread and a reinsertion write in turn; a file
that is truncated, written, read back and rolled back while the process may die; and
the order of the shutdown. `PROJECT.json` lists each at its line under `hazards`.

What makes each part correct:

- core and store: no signal is forgotten; the store says of the Node what is true, or
  the stream is known to have strayed; a failure is retried; every signal is served;
- client: the send worker is woken, stale messages are few, a lost link is given up,
  the callbacks keep their contract;
- Node life cycle: one worker, "running" means served, `start()` tells the truth;
- Node resources: cache, model and device list agree, no call leaves half a stream;
- IS-05: what the snapshot says is what a sender does, what a sender does is what its
  cache says, its address is one the host has, its SDP file is of what is active, and
  a running stream is not cut by a sync;
- configuration: file, Node, reported state and answers agree across failures,
  roll-backs, readers and deaths.

## The modules

- `StateStore`: the store's fields as a record and its methods as operators.
- `App` (extends `StateStore`): one action for each critical section or blocking
  call of each thread. The WebSocket client and the Node are not modelled again here:
  `App` takes the actions of `Connection` and `NodeContract` and joins each to what the
  daemon does in the same step (`ConnectionOpens` is `Client!Opens` and the receive
  worker's entry of `on_connected`; `CallNode` is `Node!Ask`; `CallDone`, `CallMissed`
  and `CallThrows` are `Node!Done`, `Node!Missed` and `Node!Refuse` and what the
  reconcile does next). So whatever a Node of the contract may do, `App` meets: a call
  takes a step to ask and one to answer, and stops, starts and the reinsertion come in
  between. A drain goes stream by stream and then through its three sections
  (`Drained`, `DrainForgets`, `DrainEnds`); a failed sync reports (`ReportFailure`) and
  asks again (`RetryLater`) in two. History variables: `owed` and `covered` record which
  signals no sync covers, `strayed` which streams changed behind the store's back.
- `WsClient`: the three workers, the handler of the library, a sender and the
  caller of `stop()`. The window between a worker's look at its predicate and its
  sleep (`parking`) is a state of its own, which is where notifications get lost.
- `Connection`: what `App` may expect of the client: at most one callback at a time,
  `on_disconnected` only from a client that is stopping, no callback after the receive
  worker has ended. `WsClient` implements it.
- `NodeContract`: what a Node promises the daemon about its streams. It holds a
  configuration or none of each stream (`held`) and is somewhere in its life (`stage`);
  a call is asked for and answered (`asked`), and stops and starts come at any moment, as
  `restart_node_runtime` takes no `reconcile_mutex_`. They lose nothing, but for copies
  not added yet when a stop interrupts the reinsertion. A call that meets a starting
  Node, or is met by a start (`met`), may return without effect (`Missed`), and its stream
  (`crossed`) may from then on be doubled, overwritten, lost or refused: a stream added
  before `thread_run` copies the caches is indeed added twice. `NodeResources`
  implements it.
- `NodePhases`: the order in which a Node is started, gets its device, shuts down and is
  joined. `ConfigUpdate`, which has the calls the daemon makes and the threads they
  meet, implements it; `NodeResources`, whose starts and stops come by themselves,
  goes through the same phases.
- `NodeLifecycle`: `start()` and `stop()` as any number of callers run them, the
  worker and the server's thread, which may end by itself when a stream cannot be
  reinserted (`ServerInit`). `stop()` needs the model's write lock (`StopShuts`).
- `NodeResources`: each resource of a stream goes in or out in an action of its
  own, because `insert_resource_after` and `remove_resource_after` release the write
  lock while they wait. The reinsertion runs the same actions as a second thread.
- `ConfigUpdate` (extends `NodeLifecycle`): requests of the debug server as clients of
  `start()` and `stop()`, `App::run` as another, the file with its write in two steps,
  each call that can fail, and the death of the process at any moment, after which
  systemd starts it again with the file alone. `App::stop` is there with its order:
  `Stop` (the client's threads and the sync thread are waited for, while requests are
  still taken), `Close` (the listener is closed), `Leave` (the requests are over, the
  Node is stopped), `Left`.
- `Reconcile`: the maps and differences of `reconcile_list` on lists that may hold an id
  twice, and the one clock a list of PTP ports stands for. A stream's configuration is
  a sequence of one leg or two.
- `Endpoints` (extends `Reconcile`): the staged and active endpoint of each stream, its
  constraints, its scheduled activation and its SDP file; `apply_snapshot` call by
  call; controllers; the library's activation thread with the resolver and the
  handler; a restart with its reset, its copied caches and the reinsertion that goes on
  beside the next sync. A call of `NodeRuntime` is one step here, since each writes the
  connection resource and the cache under the model's write lock; its inner steps are
  `NodeResources`'. A `PATCH` may ask for an activation or not, and may call off one
  that is pending, be it the Node's own. Restarts come at any time, also during a
  reinsertion, whose remaining copies are then gone; a sync that throws, or whose calls
  meet a Node that is down, is left to `App` and `NodeResources`. `writer` is a history
  variable: who decided last about a stream.
- `MCApp`, `MCNodeResources`, `MCConfigUpdate`, `MCEndpoints`: instances for TLC.
- `AppProofs`, `WsClientProofs`, `NodeLifecycleProofs`, `NodeResourcesProofs`,
  `ConfigUpdateProofs`, `EndpointsProofs`: proofs.

How they fit: `App` is built on the actions of `Connection` and `NodeContract`, and
`WsClient` and `NodeResources` implement these two, so what is shown of `App` is shown
of it with this client and this Node. In `NodeResources` `held` says what caches, copies
and a call in flight come to for a caller. `NodeResources` and `ConfigUpdate` are tied by
`NodePhases` (`servicePhase` in both). `ConfigUpdate` runs on `NodeLifecycle`'s own
actions; `Endpoints` uses `Reconcile`'s operators. `Endpoints` is tied to the others by
what it says only: no refinement connects it.

Definitions whose comment begins "Mutant:" are not part of any specification. They
are plausible errors in the code; put in the place of the definition they follow or
precede, each makes the property it was written for fail.

## What the runs show

| Run | Question | Instance |
|---|---|---|
| `App_sync` | Is every received signal covered by a sync, is a `degraded` daemon about to try again, and is what it reports of its streams true, when syncs fail halfway and the shutdown's drain comes in between? | one stream, a refused configuration, one change, two messages, one connection, a stop |
| `App_restart` | What may the store and the Node differ about when the Node is restarted under a sync, or again while it is still starting? | two streams in different lists, one change, two restarts, one connection |
| `App_live` | Is every signal served in the end, over failed pulls, refused streams and restarts that may fail? | one stream, a refused configuration, one change, one message, two restarts |
| `WsClient_workers` | Is the send worker always woken; what may a cleaned-up connection leave to the next; does the client implement `Connection`; is a lost or silent connection given up; does `stop()` return? | one successful handshake and the attempts after it, one text, a queue of two |
| `ConfigUpdate_calls` | Do file, Node, reported state, registration and answers agree after updates that are merged, refused, fail, are rolled back or cut off; does a reader ever see what may yet be taken back; do requests and the daemon come to an end; do starts and stops tell the truth, and take the Node through its phases with the device brought back? | two requests and `App::run`, two updates or deaths, ten calls |
| `NodeResources_calls` | Do cache, model and device list agree after failed calls, restarts under calls and interrupted reinsertions; does a call do what it is told or fail without a trace; what is a stream lost to; is `NodeContract` kept? | an ancillary sender, a receiver, three calls, two stops and starts at any moment |
| `NodeResources_live` | Do calls return when the Node restarts under them? | a sender, three calls, two restarts |
| `Endpoints_sync` | Does the Node end up with what the snapshot says, do endpoints, caches and SDP files agree, do syncs leave running streams alone, does every sender go out? | a sender and a receiver, three snapshots (a duplicate id, legs that come and go, clocks of several ports, interfaces that move), two syncs or drains, one `PATCH` of a controller, any number of cancellations, two restarts |

The bounds are the constants named `Max*`, with `MayStop`, which says whether a run
includes the daemon's shutdown. They are small because the hazards are about the *order*
of a few steps: a lost signal takes one signal, a second caller of `schedule_sync` and
one sync; a stray stream takes one failed sync and one more; a duplicate takes one
stream and one restart; an update that must not be seen takes two requests, one
roll-back and a death; a sender that keeps an old address takes two changes of the
interfaces; a stream that a stop drops halfway through its reinsertion takes two
restarts. Two streams are needed where one is done when the other fails or is cut off
(`App_restart`, `NodeResources_calls`) and where receivers come before senders
(`Endpoints_sync`).
`App_sync`'s messages carry the revision 1, which is newer than nothing applied and then
equal to what is; `App_live`'s carry 0, older than the fallback 1 that a restart asks
with. Every other revision is the proofs'. A Node that may be stopped and started under a
call has many states: `App_sync` has no restart, but begins with a Node that is still
starting, so that its calls may cross that start; `App_restart` has the restarts, at any
point of a sync, and no failing stream. `WsClient_workers` has few connections because its
liveness properties are about one; its safety properties are proved for any number.
Nothing keeps calls and restarts apart in either run of `NodeResources`.
`NodeResources_live` has no receiver because `NodeResources_v_deadlock` shows that calls
for receivers may not return. What the passing runs check about safety is proved for any
bounds. Deadlock is not checked where the bounds, or a daemon that has stopped, end a
behaviour.

### Where the code and its documents differ

Each of these is a run that checks one statement and finds it violated:

- `App_v_disconnect` - a lost connection drains nothing (DOC rule 10, Task 7.4): the
  close handler has cleared `connected_` before the worker asks for it, so
  `on_disconnected` is called for a stopping client only.
- `App_v_stray` - after a restart the Node keeps streams no snapshot has (DOC 449):
  the daemon forgets the last snapshot, the Node reinserts what it had.
- `WsClient_v_zombie` - a connection closed before `connected_` is raised is watched
  for ever; no reconnection (DOC 463).
- `NodeResources_v_deadlock` - removing a receiver and activating one wait on each
  other.

Differences read in the code, which need no run:

- `handle_ws_connected` asks for a pull itself, before any signal (DOC 719 names the
  signal as the only trigger), and `force_sync_pending_` lets a revision that is not
  newer through (DOC 486). `App` models both.
- Retries and debounced requests pull while the client is disconnected (DOC 94-96).
- A sync that has passed its check of `stop_requested_` and waits for the drain of the
  shutdown registers the streams again after it (`app.cpp` 404; DOC 92). `App_sync` has
  this, and `ReportedRegistrationIsTrue` says only that the store then reports it. A sync
  that fails halfway leaves its changes in the Node, and if the external project takes
  its own back, the next sync finds nothing to do (`app.cpp` 421; DOC 449): such streams
  are `strayed`.
- A stream that a sync adds, updates or removes while the Node is starting, or whose call
  a restart comes under, may be added twice, overwritten by its copy, or lost with the
  copies behind it when the reinsertion stumbles over it (`app.cpp` 205-222, `node.cpp`
  2449-2518). The daemon notices nothing: `Missed` and `Confuse` of `NodeContract`,
  `crossed` in `NodeResources`.
- A reinsertion that throws ends `thread_run` (`node.cpp` 2288-2326), which leaves what
  comes after it undone: `resolve_auto` and `set_transportfile` are unset, and 2422, 3228
  and 4038 call them. That the server's thread ends is modelled, what these calls then do
  is not.
- `WsClient::stop` notifies without `send_queue_mutex_` (`ws_client.cpp` 71): a send
  worker between its predicate and its sleep misses it, and unless a cleanup of the
  receive worker follows, the join does not return. `StopReturnsFromConnection` is
  therefore about stops that come before a cleanup.
- `Node::Impl::stop` sets "stopped" in a section after its join: a `start()` of another
  thread in between leaves a served Node that is "stopped". The daemon makes these
  calls one after the other, which `ConfigUpdate` shows of it.
- A restart makes every receiver listen again, also one a controller has disabled:
  `make_*_receiver_resources` never looks at `enable` (3524-3753). Receivers keep an
  active `interface_ip` that no interface has any more; only senders are activated
  again when the interfaces change. The properties about addresses are therefore about
  senders.
- `initialize_sender_endpoint_enable` (798) joins the two switches of a sender, and the
  activation handler writes them back apart: a controller that turns off the first leg
  alone makes a later restart or change of interfaces turn off the second as well.
- When the address of a sender's first leg vanishes, the leg falls back on the first
  interface that has one, also if the second leg is configured to that one and another
  interface is free (550, 575): both legs then share it.
- A clock that is pulled while the node resource is absent is lost until it changes
  again, and one with an identity that is not valid keeps the old identity and lock but
  takes the domain (2393). `effective_gmid` (713) skips ports without an identity and
  the other two do not, so identity and domain may be of different ports.
- The reinsertion's copies may overwrite what the next sync has just written; the store
  holds the snapshot as applied, so the next sync sees no difference. `writer` records
  it, and `SnapshotIsApplied` speaks of the streams the snapshot had the last word on.
- The configuration file is truncated in place (`node.cpp` 695): a death in between
  leaves a file that no later process can start from, nor any update repair, since an
  update reads it first (`app.cpp` 176). `ConfigUpdate`'s `spoiled` records it.
- A `PATCH` that sets `selected_registry_uri` to null leaves the fields derived from it.
- Observed-changed events are dropped while the client is disconnected, and not sent
  again after a reconnection (DOC 8.1).
- DOC 476 calls the message `snapshot.changed`; `dto.cpp` 887 accepts `data.changed`.

## Fairness

Threads are fair: a step that a thread can take and keeps being able to take is
taken (weak fairness of each thread's steps), because the operating system schedules
them and every sleep in the code is timed. Strong fairness is assumed where a thread
waits for a lock that others keep taking and releasing (`Push` in `WsClient`, calls
in `NodeResources`, requests served under `node_config_mutex_` in `ConfigUpdate`), and for the outcome of a pull that is
repeated (`FetchReplies` in `App`): a service that is asked again and again answers in
the end. The external project's changes, the network, the peer's
silence, requests over HTTP, calls of `send_json`, of `start()` and of `stop()`, and
activations by controllers are never fair, and neither are failures and deaths. In
`Endpoints` a sync that has begun goes on, the library's thread finds each scheduled
activation, and the reinsertion goes on. A close asked of the library completes: it has a
time-out.

Where the code justifies no fairness, a property has a premise instead, and says it:

- `EverySignalIsServed`: in the end the Node is up, the external project's streams are
  such as the Node accepts, and no call for one of these is refused any more, as one for
  a stream that has crossed a start might be for ever.
- `DaemonEnds`: `App::stop` gets past the joins of the client's workers and of the sync
  thread (`[]<>(pc[Main] # "joining")`). Neither is certain: `WsClient::stop` may
  miss its send worker, and the sync thread may be in the deadlock of
  `NodeResources_v_deadlock`. And no `stop()` of the Node waits for ever for the model's
  write lock (`ModelLockIsLetGo`), which that deadlock keeps. What remains is what the
  property is about: that requests, roll-backs and failed starts never keep the daemon.
- `RequestsAreAnswered`: `ModelLockIsLetGo` again.
- `StopReturnsFromConnection`: the stop comes before a cleanup of the receive worker.

## What is proved

For all values of the constants, from the named assumptions on them
(`StoreAssumption`, `AppAssumption`, `WsClientAssumption`, `LifecycleAssumption`,
`NodeAssumption`, `ConfigAssumption`, `ReconcileAssumption`, `EndpointsAssumption`, `AbsentAssumption`):
they say only that bounds are numbers, that values which stand for different things
differ, which list a stream is in, and who the clients of `start()` and `stop()` are.

- `App`: `TypeCorrect`, `SignalsKept`, `StoreMatchesNode`, `ReportIsTrue`,
  `DegradedRecovers`: for any client that keeps `Connection` and any Node that keeps
  `NodeContract`, since these are the steps `App` is made of. `NoSignalForgotten` is inductive with the types: each of its
  disjuncts is a place a signal may be in, and each step moves it from one to the
  next. `OnlyStrayedStreamsDiffer` speaks of a free mutex only; its strengthening
  `StreamsTracked` says what holds in the middle of a reconcile (the Node agrees with
  the store and with the job's first snapshot on the streams not yet changed, with
  the second on those that are). `RegistrationTracked` does the same for the reported
  registration, and `DegradedTracked` adds that a drain belongs to a client that is
  stopping, whose daemon is.
- `WsClient`: `TypeCorrect`; `SenderAlwaysWoken`, with `SenderTracked` (a worker about
  to sleep looked at an empty queue); `ClientImplementsConnection`, with `FlagTracked`
  (`connected_` only in the phases after it was raised, and a worker that has left its
  watch with the flag up is stopping); `StaleMessagesAreFew`, with `Numbered`
  (connections are counted upwards) and `StaleTracked` (a sender that has looked at the
  flag for an old connection has no stale message in the queue yet).
- `NodeLifecycle`: `TypeCorrect`, `RunningAlwaysServes` and `NeverTwoWorkers`, with
  `ThreadTracked` (a thread object is joinable as long as there is a worker) and
  `SignalTracked` (the stop signal is up only in the state "stopping").
- `NodeResources`: `TypeCorrect`, `CacheMatches`, `NothingHalfUpdated`,
  `SendersComplete`, `StreamsKept`, `CallsDoIt` and `NodeKeepsContract`, for any streams,
  and for calls, activations, stops and starts that come at any moment. Nothing is
  assumed of when they come; what a call that crosses a start may do to its stream is in
  the statements, which speak of the streams outside `crossed`. `PhaseTracked` says
  where the server's thread is in each phase; `OneCopy` that such a stream is in
  the cache, among the copies or in the reinsertion's hand, once; `StreamsTracked` which
  resources it has at each point of a call or of the reinsertion, and `PartsTracked`
  keeps what `SendersAreComplete` needs of it when a stop cuts a call short. `held` is
  the copy if there is one, so moving a stream from the cache to the copies and back is a
  stutter of `NodeContract`; a step of the reinsertion that meets a crossed stream is
  `Confuse`. `CallsDoIt` adds `KindTracked` (which steps a call of each kind goes
  through). `ResourcesKeepPhases`: the phases of `NodePhases` are kept.
- `ConfigUpdate`: twelve theorems, for any number of requests, payloads and deaths:
  `ConfigTypeCorrect`; `UpdatesAddUp`, `NoDirtyReads`, `SelectionIsNamed`,
  `SettingsAreLoaded`, `ReportedStateIsTrue`, `RegistrationIsTrue`; and of the life
  cycle under these callers `DaemonRunningServes`, `DevicesAreThere`,
  `DaemonNeverTwoWorkers`, `StartIsTruthful`. The argument: `MutexTracked` makes the
  requests that call `start()` and `stop()` one at a time; `RequestsOfARunningDaemon`
  keeps `App::run` out of their way; with both, `CallsTracked`, `StopWorks`,
  `StartWorks` and `StatesTracked` say where the worker is at each point of a call; and
  `UpdateTracked`, `SettingsTracked` and `ReportTracked` say what file, settings and
  report are at each point of an update. A file that a death leaves without an answer
  counts as `spoiled`, until an update is accepted. `DaemonKeepsPhases` refines
  `NodePhases`: with `CallersExclude` (nobody stops while another starts),
  `ServerTracked` says that the server's thread begins with the ports, in an empty
  model, and ends for a shutdown, which lasts until the join, or by an exception with
  the device in place.
- `Endpoints`: `Invariance`, `TypeCorrect`, `LegsAgreeHolds`, `TransportFilesHold`,
  `SendersUseAnInterfaceHolds`, `SendersSettleHolds`, `SnapshotIsAppliedHolds`,
  `SyncsKeepConnectionsHolds`, for any streams, snapshots and hosts. The invariant has a
  part for each stream (`StreamsOK`: the lists of legs are as long as the cached
  configuration, the file is of what is active, what is active or will be after the
  activation uses an interface and is what the cache says) and one for the sync
  (`SnapshotsOK`: a stream the snapshot decided about, and the job has done with,
  matches it, active or about to be). Restarts that interrupt a reinsertion and
  activations that are called off are among the steps.

Only model-checked: the liveness properties (`EverySignalIsServed`,
`LostLinkIsNoticed`, `IdleLinkIsDropped`, `StopReturnsFromConnection`,
`RequestsAreAnswered`, `DaemonEnds`, `CallsReturn`, `SendersGoOut`: the prover has no
rules for fairness and `ENABLED` here). Nothing is proved by induction over data, and no
module declares a recursive operator.

## What is not modelled

- Text: the parsing and printing of JSON (`dto.cpp`, `config.cpp`), of SDP files and of
  URIs, the debug pages' layout, logs. A document is what it says, or torn.
- Values that no decision here depends on: formats, sample rates, ports, labels, tags,
  ids, the NMOS resources' other fields; the tables of `video_format.cpp`. `equivalent`
  compares them like the rest, and `Endpoints` has one field of each kind.
- More than one address of an interface; SDP files that controllers send to receivers.
- What a Node whose reinsertion threw does with the callbacks it has not set.
- The event callbacks of `NodeRuntime` and `App`'s sender and receiver events: they
  change nothing but the client's queue, which is `WsClient`'s, and the mirrored
  receivers of the debug pages.
- A `stop()` called from the Node's own worker: the daemon has no such caller.
- The daemon's own configuration, read once; the stand-alone program; the build.
- Memory: the pointer `gate_` after the worker has returned.
- nmos-cpp and cpprestsdk, except as `PROJECT.json` marks external definitions: a wait
  with a delay of 0 releases its lock, closing a server sets `shutdown` and joins its
  threads, a close handler is called once from a thread of the library, a `PATCH` is
  checked against the constraints and refused while an activation is pending, unless it
  calls that off.

## Plan

Done, in the order of their weight: `StateStore` and `App` with their proofs;
`WsClient` with its proofs; `NodeLifecycle` and `NodeResources` with their proofs;
`ConfigUpdate` with its proofs; `Reconcile` and `Endpoints` with their proofs; the
contracts `Connection`, `NodeContract` and `NodePhases` with the four refinements
(`WsClient` of the first, `NodeResources` of the second and third, `ConfigUpdate` of the
third), and `App` on the actions of the first two.

Next:

1. The calls of a Node whose reinsertion threw (`resolve_auto`, `set_transportfile`).
2. `App`'s events on their way to the backend.
