----------------------------- MODULE ConfigUpdate -----------------------------
(***************************************************************************)
(* Changing the Node's settings over the debug HTTP server                 *)
(* (src/src/daemon/http_debug_server.cpp, App::update_node_config and      *)
(* App::restart_node_runtime in app.cpp): the document is written to the   *)
(* Node's configuration file and the Node restarted, which reads the file  *)
(* as it starts; if it does not start, the document before is written back *)
(* and the Node restarted again.  The calls of start() and stop() are      *)
(* those of NodeLifecycle: a request is one of its clients, and so is the  *)
(* thread that runs App::run.                                              *)
(*                                                                         *)
(* The process may die at any moment; systemd starts it again, and the     *)
(* file is all it finds.                                                   *)
(***************************************************************************)
EXTENDS NodeLifecycle

CONSTANTS
    Requests,      \* threads of the HTTP server that serve a request
    Main,          \* the thread of App::run
    Registries,    \* registries a document may name
    Malformed,     \* what selected_registry_uri may not be
    Null,          \* a JSON null
    Torn,          \* what a file that was not written to its end holds
    Payloads,      \* the objects requests send
    MaxEvents      \* bound: requests that change the settings and deaths of the process

\* registry stands for registry_address, registration_port, registry_version,
\* highest_pri and lowest_pri, which are set together.
Fields == {"selected_registry_uri", "registry"}
Objects == UNION {[F -> Registries \cup {Malformed, Null}] : F \in SUBSET Fields}

ASSUME ConfigAssumption ==
    /\ Main \notin Requests
    /\ Clients = Requests \cup {Main}
    /\ Torn \notin Objects
    /\ Malformed \notin Registries /\ Null \notin Registries /\ Null # Malformed
    /\ Payloads \subseteq Objects
    /\ MaxEvents \in Nat

VARIABLES
    file,            \* the Node's configuration file
    settings,        \* node_model_.settings, as effective_settings() returns them
    config_mutex,    \* who holds node_config_mutex_
    node_state,      \* what the state store reports of the Node
    registered,      \* the registration status the state store reports
    pc,              \* program counters of the requests and of App::run
    request,         \* what each request was sent and has worked out
    events,          \* updates and deaths so far
    accepted,        \* history: the document the answers so far add up to
    spoiled          \* history: a write failed, or the process died in the middle of an
                     \* update, and nothing made up for it

config == <<file, settings, config_mutex, node_state, registered, pc, request, events,
            accepted, spoiled>>
cvars == <<vars, config>>

RequestRecords ==
    [kind : {"none", "get", "put", "patch"}, payload : Objects,
     previous : Objects \cup {Torn}, next : Objects \cup {Torn}, rollback : BOOLEAN]

NoRequest == [kind |-> "none", payload |-> [f \in {} |-> Null], previous |-> Torn, next |-> Torn,
              rollback |-> FALSE]

RequestPcs == {"idle", "locking", "reading", "preparing", "opening", "writing", "restarting",
               "stopping", "cleared", "starting"}
MainPcs == {"boot", "booting", "up", "joining", "closing", "leaving", "exited"}

\* Where the HTTP server takes requests.
Listening == {"up", "joining"}

ConfigTypeOK ==
    /\ file \in Objects \cup {Torn}
    /\ settings \in Objects \cup {Torn}
    /\ config_mutex \in Requests \cup {Nobody}
    /\ node_state \in {"starting", "running", "restarting", "stopping", "stopped"}
    /\ registered \in BOOLEAN
    /\ pc \in [Clients -> RequestPcs \cup MainPcs]
    /\ pc[Main] \in MainPcs /\ \A r \in Requests : pc[r] \in RequestPcs
    /\ request \in [Requests -> RequestRecords]
    /\ events \in 0..MaxEvents
    /\ accepted \in Objects \cup {Torn}
    /\ spoiled \in BOOLEAN

\* A registry that was selected is the one the document names.
SelectionHolds(document) ==
    "selected_registry_uri" \in DOMAIN document =>
        /\ "registry" \in DOMAIN document
        /\ document["registry"] = document["selected_registry_uri"]

\* What a process begins with, beside the file.
ProcessBegins ==
    /\ settings = Torn
    /\ config_mutex = Nobody
    /\ node_state = "starting"
    /\ registered = FALSE
    /\ pc = [c \in Clients |-> IF c = Main THEN "boot" ELSE "idle"]
    /\ request = [r \in Requests |-> NoRequest]

\* The file that was installed selects no registry, or as an update would have.
ConfigInit ==
    /\ Init
    /\ ProcessBegins
    /\ file \in {d \in Payloads : SelectionHolds(d) /\ \A f \in DOMAIN d : d[f] \in Registries}
    /\ events = 0
    /\ accepted = file
    /\ spoiled = FALSE

-----------------------------------------------------------------------------
(* Documents                                                               *)

\* merge_objects: the patch's fields win, and those that are null are removed.
MergeObjects(base, patch) ==
    [f \in {g \in DOMAIN base \cup DOMAIN patch : g \in DOMAIN patch => patch[g] # Null} |->
        IF f \in DOMAIN patch THEN patch[f] ELSE base[f]]

Without(document, field) == [f \in DOMAIN document \ {field} |-> document[f]]

\* Mutant: fields the document has already are kept.
ApplySelectionOnce(document) ==
    IF "selected_registry_uri" \notin DOMAIN document \/ "registry" \in DOMAIN document
    THEN document
    ELSE [f \in Fields |-> document["selected_registry_uri"]]

\* apply_selected_registry_settings, of a selection that is not refused.
ApplySelection(document) ==
    IF "selected_registry_uri" \notin DOMAIN document THEN document
    ELSE IF document["selected_registry_uri"] = Null
         THEN Without(document, "selected_registry_uri")
         ELSE [f \in Fields |-> document["selected_registry_uri"]]

Refused(document) ==
    "selected_registry_uri" \in DOMAIN document /\ document["selected_registry_uri"] = Malformed

-----------------------------------------------------------------------------
(* Requests                                                                *)

Go(c, from, to) == pc[c] = from /\ pc' = [pc EXCEPT ![c] = to]

Receive(r) ==
    /\ pc[Main] \in Listening
    /\ Go(r, "idle", "locking")
    /\ \/ /\ request' = [request EXCEPT ![r].kind = "get"]
          /\ UNCHANGED events
       \/ /\ events < MaxEvents
          /\ events' = events + 1
          /\ \E kind \in {"put", "patch"}, payload \in Payloads :
                request' = [request EXCEPT ![r].kind = kind, ![r].payload = payload]
    /\ UNCHANGED <<vars, file, settings, config_mutex, node_state, registered, accepted, spoiled>>

\* Mutant: readers do not wait for updates.
LockUpdates(r) ==
    /\ Go(r, "locking", IF request[r].kind = "get" THEN "reading" ELSE "preparing")
    /\ IF request[r].kind = "get"
       THEN UNCHANGED config_mutex
       ELSE config_mutex = Nobody /\ config_mutex' = r
    /\ UNCHANGED <<vars, file, settings, node_state, registered, request, events, accepted,
                   spoiled>>

Lock(r) ==
    /\ config_mutex = Nobody
    /\ config_mutex' = r
    /\ Go(r, "locking", IF request[r].kind = "get" THEN "reading" ELSE "preparing")
    /\ UNCHANGED <<vars, file, settings, node_state, registered, request, events, accepted,
                   spoiled>>

\* The answer is sent, or an exception makes it an error, and the mutex released.
Answer(r) ==
    /\ pc' = [pc EXCEPT ![r] = "idle"]
    /\ request' = [request EXCEPT ![r] = NoRequest]
    /\ config_mutex' = IF config_mutex = r THEN Nobody ELSE config_mutex

\* GET of the settings: the file is read and parsed.
Read(r) ==
    /\ pc[r] = "reading"
    /\ Answer(r)
    /\ UNCHANGED <<vars, file, settings, node_state, registered, events, accepted, spoiled>>

\* The file that is there is read, also for a PUT, and the next one worked out.
Prepare(r) ==
    /\ pc[r] = "preparing"
    /\ LET document == IF request[r].kind = "put" THEN request[r].payload
                       ELSE MergeObjects(file, request[r].payload)
       IN  IF file = Torn \/ Refused(document)
           THEN Answer(r)
           ELSE /\ Go(r, "preparing", "opening")
                /\ request' = [request EXCEPT ![r].previous = file,
                                              ![r].next = ApplySelection(document)]
                /\ UNCHANGED config_mutex
    /\ UNCHANGED <<vars, file, settings, node_state, registered, events, accepted, spoiled>>

\* The document an update writes: the new one, or the one before to roll back.
Written(r) == IF request[r].rollback THEN request[r].previous ELSE request[r].next

\* The file is opened, which empties it.
Truncate(r) ==
    /\ Go(r, "opening", "writing")
    /\ file' = Torn
    /\ UNCHANGED <<vars, settings, config_mutex, node_state, registered, request, events,
                   accepted, spoiled>>

\* The file cannot be opened.  The first write throws to the caller; that of a
\* roll-back leaves the file that did not work.
OpenRefused(r) ==
    /\ pc[r] = "opening"
    /\ Answer(r)
    /\ spoiled' = (spoiled \/ request[r].rollback)
    /\ UNCHANGED <<vars, file, settings, node_state, registered, events, accepted>>

Write(r) ==
    /\ Go(r, "writing", "restarting")
    /\ file' = Written(r)
    /\ UNCHANGED <<vars, settings, config_mutex, node_state, registered, request, events,
                   accepted, spoiled>>

\* The disk is full: noticed while the document is written, which ends the update ...
WriteThrows(r) ==
    /\ pc[r] = "writing"
    /\ Answer(r)
    /\ spoiled' = TRUE
    /\ UNCHANGED <<vars, file, settings, node_state, registered, events, accepted>>

\* ... or not, since the last of it is written by the destructor.
WriteLost(r) ==
    /\ Go(r, "writing", "restarting")
    /\ spoiled' = (spoiled \/ request[r].rollback)
    /\ UNCHANGED <<vars, file, settings, config_mutex, node_state, registered, request, events,
                   accepted>>

\* Mutant: start() alone is called, which answers that the Node is running.
RestartStopsNothing(r) ==
    /\ Go(r, "restarting", "cleared")
    /\ node_state' = "restarting"
    /\ UNCHANGED <<vars, file, settings, config_mutex, registered, request, events, accepted,
                   spoiled>>

\* restart_node_runtime: stop() begins.
RestartStops(r) ==
    /\ Go(r, "restarting", "stopping")
    /\ StopSignals(r)
    /\ node_state' = "restarting"
    /\ UNCHANGED <<file, settings, config_mutex, registered, request, events, accepted, spoiled>>

\* Mutant: the status is left to the Node that starts.
KeepStatus(r) ==
    /\ at[r] = "idle"
    /\ Go(r, "stopping", "cleared")
    /\ UNCHANGED <<vars, file, settings, config_mutex, node_state, registered, request, events,
                   accepted, spoiled>>

\* stop() has returned, and the registration status is cleared.
ClearStatus(r) ==
    /\ at[r] = "idle"
    /\ Go(r, "stopping", "cleared")
    /\ registered' = FALSE
    /\ UNCHANGED <<vars, file, settings, config_mutex, node_state, request, events, accepted,
                   spoiled>>

RestartStarts(r) ==
    /\ Go(r, "cleared", "starting")
    /\ Start(r)
    /\ UNCHANGED <<file, settings, config_mutex, node_state, registered, request, events,
                   accepted, spoiled>>

\* Mutant: the state is set for a success only, not for that of a roll-back.
RestartSucceedsSilently(r) ==
    /\ pc[r] = "starting" /\ at[r] = "idle" /\ started[r]
    /\ node_state' = IF request[r].rollback THEN node_state ELSE "running"
    /\ Answer(r)
    /\ IF request[r].rollback THEN UNCHANGED <<accepted, spoiled>>
       ELSE accepted' = request[r].next /\ spoiled' = FALSE
    /\ UNCHANGED <<vars, file, settings, registered, events>>

\* start() has returned true: the new document's answer is its success, that of a
\* roll-back the failure before.
RestartSucceeds(r) ==
    /\ pc[r] = "starting" /\ at[r] = "idle" /\ started[r]
    /\ node_state' = "running"
    /\ Answer(r)
    /\ IF request[r].rollback THEN UNCHANGED <<accepted, spoiled>>
       ELSE accepted' = request[r].next /\ spoiled' = FALSE
    /\ UNCHANGED <<vars, file, settings, registered, events>>

\* Mutant: the Node is started again with the file as it is.
RestartRetries(r) ==
    /\ pc[r] = "starting" /\ at[r] = "idle" /\ ~started[r]
    /\ node_state' = "stopped"
    /\ IF request[r].rollback
       THEN Answer(r)
       ELSE /\ pc' = [pc EXCEPT ![r] = "restarting"]
            /\ request' = [request EXCEPT ![r].rollback = TRUE]
            /\ UNCHANGED config_mutex
    /\ UNCHANGED <<vars, file, settings, registered, events, accepted, spoiled>>

\* start() has returned false: the document before is written, once.
RestartFails(r) ==
    /\ pc[r] = "starting" /\ at[r] = "idle" /\ ~started[r]
    /\ node_state' = "stopped"
    /\ IF request[r].rollback
       THEN Answer(r)
       ELSE /\ pc' = [pc EXCEPT ![r] = "opening"]
            /\ request' = [request EXCEPT ![r].rollback = TRUE]
            /\ UNCHANGED config_mutex
    /\ UNCHANGED <<vars, file, settings, registered, events, accepted, spoiled>>

-----------------------------------------------------------------------------
(* App::run                                                                *)

Boot ==
    /\ Go(Main, "boot", "booting")
    /\ Start(Main)
    /\ UNCHANGED <<file, settings, config_mutex, node_state, registered, request, events,
                   accepted, spoiled>>

\* run() opens the HTTP server, or returns 1.
Booted ==
    /\ at[Main] = "idle"
    /\ Go(Main, "booting", IF started[Main] THEN "up" ELSE "exited")
    /\ node_state' = IF started[Main] THEN "running" ELSE "stopped"
    /\ UNCHANGED <<vars, file, settings, config_mutex, registered, request, events, accepted,
                   spoiled>>

\* App::stop() first stops the WebSocket client, which joins its threads, and joins
\* the sync thread.  Neither need ever return (WsClient, NodeResources).
Stop ==
    /\ Go(Main, "up", "joining")
    /\ UNCHANGED <<vars, file, settings, config_mutex, node_state, registered, request, events,
                   accepted, spoiled>>

\* Then the listener is closed, and takes no further request ...
Close ==
    /\ Go(Main, "joining", "closing")
    /\ UNCHANGED <<vars, file, settings, config_mutex, node_state, registered, request, events,
                   accepted, spoiled>>

\* Mutant: the Node is stopped under the requests that are being served.
LeaveAtOnce ==
    /\ Go(Main, "closing", "leaving")
    /\ node_state' = "stopping"
    /\ StopSignals(Main)
    /\ UNCHANGED <<file, settings, config_mutex, registered, request, events, accepted, spoiled>>

\* ... and waits for those it has, before the Node is stopped.
Leave ==
    /\ \A r \in Requests : pc[r] = "idle"
    /\ Go(Main, "closing", "leaving")
    /\ node_state' = "stopping"
    /\ StopSignals(Main)
    /\ UNCHANGED <<file, settings, config_mutex, registered, request, events, accepted, spoiled>>

Left ==
    /\ at[Main] = "idle"
    /\ Go(Main, "leaving", "exited")
    /\ node_state' = "stopped"
    /\ UNCHANGED <<vars, file, settings, config_mutex, registered, request, events, accepted,
                   spoiled>>

\* Init' and ProcessBegins'.
ProcessIsNew ==
    /\ lifecycle_state' = "stopped"
    /\ stop_requested' = FALSE /\ needs_model_reset' = FALSE
    /\ joinable' = FALSE /\ thread_mutex' = Nobody
    /\ shutdown' = FALSE /\ has_device' = FALSE
    /\ worker' = "none" /\ server' = "none"
    /\ at' = [c \in Clients |-> "idle"]
    /\ started' = [c \in Clients |-> FALSE]
    /\ calls' = 0
    /\ settings' = Torn
    /\ config_mutex' = Nobody
    /\ node_state' = "starting" /\ registered' = FALSE
    /\ pc' = [c \in Clients |-> IF c = Main THEN "boot" ELSE "idle"]
    /\ request' = [r \in Requests |-> NoRequest]

\* The process dies, or has ended, and systemd starts another.  The file stays as it
\* was: torn, or with a document whose Node had not answered yet.
Crash ==
    /\ events < MaxEvents
    /\ events' = events + 1
    /\ ProcessIsNew
    /\ spoiled' = (file # accepted)
    /\ UNCHANGED <<file, accepted>>

-----------------------------------------------------------------------------
(* The Node                                                                *)

\* nmos_node_start reads the file; it fails if there is no document in it.
WorkerReads ==
    /\ (ServerOpens /\ file # Torn) \/ OpenFails
    /\ settings' = file
    /\ UNCHANGED <<file, config_mutex, node_state, registered, pc, request, events, accepted,
                   spoiled>>

WorkerGoesOn ==
    /\ WorkerEnters \/ WorkerAnnounces \/ WorkerStops \/ ServerCloses \/ WorkerReportsFailure
       \/ WorkerEnds
    /\ UNCHANGED config

ServerGoesOn == Server /\ UNCHANGED config

\* A thread of the library reports a registration, or the loss of one.
RegistrationChanges ==
    /\ worker \in {"announcing", "serving", "closing"}
    /\ registered' \in BOOLEAN \ {registered}
    /\ UNCHANGED <<vars, file, settings, config_mutex, node_state, pc, request, events, accepted,
                   spoiled>>

CallGoesOn(c) == Proceed(c) /\ UNCHANGED config

-----------------------------------------------------------------------------

\* What a request does once it has been received.
Serve(r) ==
    \/ Lock(r) \/ Read(r) \/ Prepare(r)
    \/ Truncate(r) \/ OpenRefused(r) \/ Write(r) \/ WriteThrows(r) \/ WriteLost(r)
    \/ RestartStops(r) \/ ClearStatus(r) \/ RestartStarts(r)
    \/ RestartSucceeds(r) \/ RestartFails(r)

Run == Boot \/ Booted \/ Leave \/ Left

ConfigNext ==
    \/ \E r \in Requests : Receive(r) \/ Serve(r)
    \/ Run \/ Stop \/ Close \/ Crash
    \/ \E c \in Clients : CallGoesOn(c)
    \/ WorkerReads \/ WorkerGoesOn \/ ServerGoesOn \/ RegistrationChanges

ConfigSpec == ConfigInit /\ [][ConfigNext]_cvars

\* Threads run, and a mutex that keeps being released is taken.  Nothing is fair
\* about requests, signals, registrations and crashes, nor about what App::stop()
\* waits for before it closes the listener, or the model's lock.
ConfigFairness ==
    /\ \A r \in Requests : SF_cvars(Serve(r))
    /\ WF_cvars(Run)
    /\ \A c \in Clients : WF_cvars(at[c] # "shutting" /\ CallGoesOn(c))
    /\ WF_cvars(WorkerReads \/ WorkerGoesOn)
    /\ WF_cvars(ServerGoesOn)

ConfigFairSpec == ConfigSpec /\ ConfigFairness

-----------------------------------------------------------------------------
(* Properties                                                              *)

\* Between updates, however many were made, refused and rolled back, the file is
\* what the successful ones add up to, unless a write failed.
FileIsWhatWasAccepted ==
    config_mutex = Nobody /\ ~spoiled => file = accepted

\* Between updates, a Node that is reported to be running has read that file.
RunningNodeHasTheFile ==
    config_mutex = Nobody /\ ~spoiled /\ node_state = "running" => settings = file

\* Between updates, the Node is reported to be running if and only if it is served,
\* also when a roll-back has failed.
ReportedNodeStateIsTrue ==
    config_mutex = Nobody /\ pc[Main] \in Listening =>
        (node_state = "running" <=> worker = "serving")

\* A reader is answered with what was accepted, never with a document that may yet
\* be rolled back, or half of one, unless a write failed.
ReadersSeeWhatWasAccepted ==
    [][\A r \in Requests : pc[r] = "reading" /\ pc'[r] = "idle" =>
          spoiled \/ file = accepted]_cvars

\* A document that selects a registry names it, whatever patches and replacements
\* made it.
SelectedRegistryIsNamed == file # Torn => SelectionHolds(file)

\* The reported registration is one of the Node that is there, not of the one before
\* a restart.
RegistrationIsOfThisNode ==
    registered /\ config_mutex = Nobody /\ pc[Main] \in {"booting"} \cup Listening =>
        worker \in {"announcing", "serving", "closing"}

\* The phase of the Node.  A thread that ended without its device while nobody shuts
\* the Node down, or a device in the way of the one to insert, is none of them.
servicePhase ==
    LET begun == worker \notin {"none", "entering"}
        threads == server \in {"init", "running"}
    IN  CASE worker = "none" -> "down"
          [] worker = "entering" -> "starting"
          [] begun /\ shutdown /\ threads -> "closing"
          [] begun /\ shutdown /\ ~threads -> "closed"
          [] begun /\ ~shutdown /\ server \in {"running", "ended"} /\ has_device -> "serving"
          [] begun /\ ~shutdown /\ server \in {"none", "init"} /\ ~has_device -> "starting"
          [] OTHER -> "broken"

Phases == INSTANCE NodePhases WITH phase <- servicePhase

\* However requests, roll-backs, failures and the shutdown follow each other, a Node
\* goes through its phases in order: a worker begins when nothing of the one before
\* is left, its device goes into an empty model and stays until a stop() that ends
\* with the worker.
ImplementsNodePhases == Phases!Spec

\* No stop() waits for ever for the model's write lock.
ModelLockIsLetGo == \A c \in Clients : []<>(at[c] # "shutting")

\* Requests are answered, also when the daemon is told to stop in between, unless one
\* of them waits for the model for ever.
RequestsAreAnswered ==
    ModelLockIsLetGo => \A r \in Requests : pc[r] # "idle" ~> pc[r] = "idle"

\* A daemon that is told to stop ends, if the WebSocket client's stop() and the sync
\* thread do and nothing keeps the model: whatever requests, updates and roll-backs
\* are under way, they do not keep it, and it waits for nothing else.
DaemonEnds ==
    []<>(pc[Main] # "joining") /\ ModelLockIsLetGo =>
        (pc[Main] = "joining" ~> pc[Main] \in {"exited", "boot"})

=============================================================================
