---------------------------- MODULE NodeLifecycle ----------------------------
(***************************************************************************)
(* Starting and stopping a Node (src/src/node.cpp, Node::Impl): start() and *)
(* stop() as their callers run them, the worker thread that start() makes  *)
(* and stop() joins, and the thread of the library's server that inserts   *)
(* the device and the streams and waits for the shutdown.                  *)
(*                                                                         *)
(* lifecycle_mutex_ is held for a moment only: what it protects is one     *)
(* action.  thread_mutex_ is held by stop() for as long as it joins, and   *)
(* start() needs both.  The callers are ConfigUpdate's.                       *)
(***************************************************************************)
EXTENDS Naturals

CONSTANTS
    Clients,    \* threads that call start() and stop()
    Nobody,     \* who holds a free mutex
    MaxCalls    \* bound: calls

ASSUME LifecycleAssumption ==
    /\ Nobody \notin Clients
    /\ MaxCalls \in Nat

VARIABLES
    lifecycle_state,
    stop_requested,
    needs_model_reset,
    joinable,        \* thread_.joinable()
    thread_mutex,    \* which stop() holds thread_mutex_, joining
    shutdown,        \* node_model_.shutdown
    has_device,      \* the node and device resources are in node_model_
    worker,          \* program counter of nmos_node_start
    server,          \* that of thread_run
    at,              \* those of the clients
    started,         \* what each client's last start() returned
    calls            \* calls so far

life == <<lifecycle_state, stop_requested, needs_model_reset>>
node == <<shutdown, has_device>>
vars == <<life, joinable, thread_mutex, node, worker, server, at, started, calls>>

ClientPcs == {"idle", "starting", "shutting", "locking", "joining", "finishing"}

TypeOK ==
    /\ lifecycle_state \in {"stopped", "starting", "running", "stopping"}
    /\ stop_requested \in BOOLEAN /\ needs_model_reset \in BOOLEAN
    /\ joinable \in BOOLEAN
    /\ shutdown \in BOOLEAN /\ has_device \in BOOLEAN
    /\ thread_mutex \in Clients \cup {Nobody}
    /\ worker \in {"none", "entering", "opening", "announcing", "serving", "closing",
                   "leaving", "ended"}
    /\ server \in {"none", "init", "running", "ended"}
    /\ at \in [Clients -> ClientPcs]
    /\ started \in [Clients -> BOOLEAN]
    /\ calls \in 0..MaxCalls

Init ==
    /\ lifecycle_state = "stopped"
    /\ stop_requested = FALSE
    /\ needs_model_reset = FALSE
    /\ joinable = FALSE
    /\ thread_mutex = Nobody
    /\ shutdown = FALSE
    /\ has_device = FALSE
    /\ worker = "none"
    /\ server = "none"
    /\ at = [c \in Clients |-> "idle"]
    /\ started = [c \in Clients |-> FALSE]
    /\ calls = 0

-----------------------------------------------------------------------------
(* start()                                                                 *)

Call(c) ==
    /\ at[c] = "idle"
    /\ calls < MaxCalls
    /\ calls' = calls + 1

StartAnswers(c, answer) ==
    /\ at' = [at EXCEPT ![c] = "idle"]
    /\ started' = [started EXCEPT ![c] = answer]

\* The state it takes for a start to make a thread.
MayStart == lifecycle_state = "stopped" /\ ~joinable

\* Both mutexes are held: the Node is running or may not start.
StartRefused(c) ==
    /\ Call(c)
    /\ thread_mutex = Nobody
    /\ ~MayStart
    /\ StartAnswers(c, lifecycle_state = "running")
    /\ UNCHANGED <<life, joinable, thread_mutex, node, worker, server>>

ResetModelState ==
    IF needs_model_reset
    THEN shutdown' = FALSE /\ has_device' = FALSE
    ELSE UNCHANGED node

\* Both mutexes are held; the worker begins, or there is no thread for it.
StartSpawns(c) ==
    /\ Call(c)
    /\ thread_mutex = Nobody
    /\ MayStart
    /\ stop_requested' = FALSE
    /\ needs_model_reset' = FALSE
    /\ ResetModelState
    /\ \/ /\ lifecycle_state' = "starting"
          /\ joinable' = TRUE
          /\ worker' = "entering"
          /\ server' = "none"
          /\ at' = [at EXCEPT ![c] = "starting"]
          /\ UNCHANGED started
       \/ /\ lifecycle_state' = "stopped"
          /\ StartAnswers(c, FALSE)
          /\ UNCHANGED <<joinable, worker, server>>
    /\ UNCHANGED thread_mutex

StartReturns(c) ==
    /\ at[c] = "starting"
    /\ lifecycle_state # "starting"
    /\ StartAnswers(c, lifecycle_state = "running")
    /\ UNCHANGED <<life, joinable, thread_mutex, node, worker, server, calls>>

-----------------------------------------------------------------------------
(* stop()                                                                  *)

\* Mutant: only the state is set.
StopSignalsNobody(c) ==
    /\ Call(c)
    /\ at' = [at EXCEPT ![c] = "shutting"]
    /\ lifecycle_state' = IF lifecycle_state = "stopped" THEN "stopped" ELSE "stopping"
    /\ UNCHANGED <<stop_requested, needs_model_reset, joinable, thread_mutex, node, worker,
                   server, started>>

\* Mutant: the worker is told to stop and the state is left as it was.
StopSignalsKeepingState(c) ==
    /\ Call(c)
    /\ at' = [at EXCEPT ![c] = "shutting"]
    /\ stop_requested' = (stop_requested \/ lifecycle_state # "stopped")
    /\ UNCHANGED <<lifecycle_state, needs_model_reset, joinable, thread_mutex, node, worker,
                   server, started>>

StopSignals(c) ==
    /\ Call(c)
    /\ at' = [at EXCEPT ![c] = "shutting"]
    /\ IF lifecycle_state # "stopped"
       THEN lifecycle_state' = "stopping" /\ stop_requested' = TRUE
       ELSE UNCHANGED <<lifecycle_state, stop_requested>>
    /\ UNCHANGED <<needs_model_reset, joinable, thread_mutex, node, worker, server, started>>

\* It needs the model's write lock, which is not modelled: ConfigFairness takes it
\* into account that one of NodeResources' threads may keep it.
StopShuts(c) ==
    /\ at[c] = "shutting"
    /\ at' = [at EXCEPT ![c] = "locking"]
    /\ shutdown' = TRUE
    /\ UNCHANGED <<life, joinable, thread_mutex, has_device, worker, server, started, calls>>

StopTakesThread(c) ==
    /\ at[c] = "locking"
    /\ thread_mutex = Nobody
    /\ IF joinable
       THEN at' = [at EXCEPT ![c] = "joining"] /\ thread_mutex' = c
       ELSE at' = [at EXCEPT ![c] = "finishing"] /\ UNCHANGED thread_mutex
    /\ UNCHANGED <<life, joinable, node, worker, server, started, calls>>

\* Mutant: the thread is detached instead of joined.
StopDetaches(c) ==
    /\ at[c] = "joining"
    /\ joinable' = FALSE
    /\ thread_mutex' = Nobody
    /\ at' = [at EXCEPT ![c] = "finishing"]
    /\ UNCHANGED <<life, node, worker, server, started, calls>>

StopJoins(c) ==
    /\ at[c] = "joining"
    /\ worker = "ended"
    /\ worker' = "none"
    /\ joinable' = FALSE
    /\ thread_mutex' = Nobody
    /\ at' = [at EXCEPT ![c] = "finishing"]
    /\ UNCHANGED <<life, node, server, started, calls>>

\* Mutant: the model is kept for the next start.
StopEndsKeepingModel(c) ==
    /\ at[c] = "finishing"
    /\ at' = [at EXCEPT ![c] = "idle"]
    /\ lifecycle_state' = "stopped"
    /\ stop_requested' = FALSE
    /\ UNCHANGED <<needs_model_reset, joinable, thread_mutex, node, worker, server, started,
                   calls>>

\* The last section of stop(), under lifecycle_mutex_ alone.
StopEnds(c) ==
    /\ at[c] = "finishing"
    /\ at' = [at EXCEPT ![c] = "idle"]
    /\ lifecycle_state' = "stopped"
    /\ stop_requested' = FALSE
    /\ needs_model_reset' = TRUE
    /\ UNCHANGED <<joinable, thread_mutex, node, worker, server, started, calls>>

-----------------------------------------------------------------------------
(* The worker: nmos_node_start, and the end of the lambda around it.       *)

WorkerGoes(pc, next) ==
    /\ worker = pc
    /\ worker' = next
    /\ UNCHANGED <<joinable, thread_mutex, at, started, calls>>

WorkerEnters ==
    /\ WorkerGoes("entering", "opening")
    /\ shutdown' = FALSE
    /\ UNCHANGED <<life, has_device, server>>

\* Settings, callbacks and ports; any of them may throw.
OpenFails ==
    /\ WorkerGoes("opening", "leaving")
    /\ UNCHANGED <<life, node, server>>

\* The server opens its ports and begins its threads, thread_run among them.
ServerOpens ==
    /\ WorkerGoes("opening", "announcing")
    /\ server' = "init"
    /\ UNCHANGED <<life, node>>

WorkerAnnounces ==
    /\ WorkerGoes("announcing", "serving")
    /\ lifecycle_state' = IF lifecycle_state = "starting" THEN "running" ELSE lifecycle_state
    /\ UNCHANGED <<stop_requested, needs_model_reset, node, server>>

\* wait_for_stop_signal is over, and the server begins to close.
WorkerStops ==
    /\ stop_requested
    /\ WorkerGoes("serving", "closing")
    /\ shutdown' = TRUE
    /\ UNCHANGED <<life, has_device, server>>

\* The server has joined its threads.
ServerCloses ==
    /\ server = "ended"
    /\ WorkerGoes("closing", "leaving")
    /\ UNCHANGED <<life, node, server>>

\* nmos_node_start resets "starting"; the lambda then sets the state in any case.
WorkerReportsFailure ==
    /\ worker = "leaving" /\ lifecycle_state = "starting"
    /\ lifecycle_state' = "stopped"
    /\ UNCHANGED <<stop_requested, needs_model_reset, joinable, thread_mutex, node, worker,
                   server, at, started, calls>>

WorkerEnds ==
    /\ lifecycle_state # "starting"
    /\ WorkerGoes("leaving", "ended")
    /\ lifecycle_state' = "stopped"
    /\ stop_requested' = FALSE
    /\ UNCHANGED <<needs_model_reset, node, server>>

\* init: the resources are inserted, which fails if they are there or the Node is
\* shutting down, and then the streams that were cached, which may fail as well; an
\* exception ends the thread and nothing else.
ServerInit ==
    /\ server = "init"
    /\ server' \in IF shutdown \/ has_device THEN {"ended"} ELSE {"running", "ended"}
    /\ has_device' = (has_device \/ ~shutdown)
    /\ UNCHANGED <<life, joinable, thread_mutex, shutdown, worker, at, started, calls>>

ServerShuts ==
    /\ server = "running"
    /\ shutdown
    /\ server' = "ended"
    /\ UNCHANGED <<life, joinable, thread_mutex, node, worker, at, started, calls>>

-----------------------------------------------------------------------------

Start(c) == StartRefused(c) \/ StartSpawns(c)

\* What a call does once it has begun.
Proceed(c) ==
    \/ StartReturns(c)
    \/ StopShuts(c) \/ StopTakesThread(c) \/ StopJoins(c) \/ StopEnds(c)

Worker ==
    \/ WorkerEnters \/ OpenFails \/ ServerOpens \/ WorkerAnnounces
    \/ WorkerStops \/ ServerCloses \/ WorkerReportsFailure \/ WorkerEnds

Server == ServerInit \/ ServerShuts

Next ==
    \/ \E c \in Clients : Start(c) \/ StopSignals(c) \/ Proceed(c)
    \/ Worker \/ Server

Spec == Init /\ [][Next]_vars

-----------------------------------------------------------------------------
(* Properties                                                              *)

\* A thread is made only when the one before has ended and been joined: otherwise
\* assigning thread_ ends the process.
OneWorker == [][worker' = "entering" /\ worker # "entering" => worker = "none"]_vars

\* "running" means that the worker serves, whoever calls what meanwhile.
RunningServes == lifecycle_state = "running" => worker = "serving"

Quiet == \A c \in Clients : at[c] = "idle"

\* Between calls, a Node that is served has its device, once init is over, also when
\* an exception has ended that.
ServedNodeHasDevice ==
    Quiet /\ worker = "serving" /\ server \in {"running", "ended"} =>
        has_device

\* A client alone is told the truth by start(), until it calls stop().
StartTellsTheTruth ==
    [][\A c \in Clients :
          StartReturns(c) =>
              IF started'[c] THEN worker' = "serving"
                             ELSE worker' \in {"leaving", "ended"}]_vars

=============================================================================
