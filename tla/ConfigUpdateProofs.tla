-------------------------- MODULE ConfigUpdateProofs --------------------------
(***************************************************************************)
(* What holds of changing the Node's settings for any number of requests,  *)
(* any payloads, any number of deaths of the process, and writes and       *)
(* starts that fail whenever they like.                                    *)
(***************************************************************************)
EXTENDS ConfigUpdate, NodeLifecycleProofs

-----------------------------------------------------------------------------
(* The inductive invariant.                                                *)

\* The mutex is held from the lock to the answer.
MutexTracked == \A r \in Requests : config_mutex = r <=> pc[r] \notin {"idle", "locking"}

\* App::run leaves the Node alone while there are requests.
RequestsOfARunningDaemon ==
    pc[Main] \notin {"up", "joining", "closing"} => \A r \in Requests : pc[r] = "idle"

StopPcs == {"shutting", "locking", "joining", "finishing"}

\* Who is inside stop() and start(), and where it called them.
CallsTracked ==
    /\ \A r \in Requests :
          /\ at[r] \in StopPcs => pc[r] = "stopping"
          /\ at[r] = "starting" => pc[r] = "starting"
    /\ at[Main] \in StopPcs => pc[Main] = "leaving"
    /\ at[Main] = "starting" => pc[Main] = "booting"

Down == {"none", "leaving", "ended"}

\* A stop() that has joined the worker, or found none, leaves none behind.
StopWorks ==
    /\ \A c \in Clients : at[c] = "finishing" => worker = "none"
    /\ \A r \in Requests : pc[r] = "cleared" \/ (pc[r] = "stopping" /\ at[r] = "idle") =>
          lifecycle_state = "stopped" /\ worker = "none"
    /\ pc[Main] = "boot" => lifecycle_state = "stopped" /\ worker = "none"

\* A start() that has returned told the truth, and it still holds.
StartWorks ==
    /\ \A c \in Clients : at[c] = "starting" => worker # "none"
    /\ \A c \in Clients : pc[c] \in {"starting", "booting"} /\ at[c] = "idle" =>
          lifecycle_state = IF started[c] THEN "running" ELSE "stopped"

\* The states on the way are those of a call in progress.
StatesTracked ==
    /\ lifecycle_state = "stopped" => worker \in Down
    /\ lifecycle_state = "starting" => \E c \in Clients : at[c] = "starting"
    /\ lifecycle_state = "stopping" \/ worker = "closing" =>
          \E c \in Clients : at[c] \in StopPcs

\* What the state store reports of the Node is its state, but during a restart.
ReportTracked ==
    /\ node_state = "running" => lifecycle_state = "running"
    /\ pc[Main] \in {"up", "joining", "closing"} /\ node_state # "running" =>
          \/ lifecycle_state = "stopped"
          \/ \E r \in Requests : pc[r] \in {"stopping", "starting"}

\* A Node that is up has read the file as it is, but for an update on its way.
SettingsTracked ==
    worker \in {"announcing", "serving"} =>
        \/ settings = file /\ file # Torn
        \/ \E r \in Requests : pc[r] \in {"writing", "restarting", "stopping"}
        \/ spoiled /\ \A r \in Requests : pc[r] # "starting"

\* What an update in progress has done to the file.
UpdateTracked ==
    \A r \in Requests : config_mutex = r =>
        /\ pc[r] \in {"reading", "preparing"} /\ ~spoiled => file = accepted
        /\ pc[r] \notin {"reading", "preparing"} =>
              /\ request[r].previous \in Objects /\ request[r].next \in Objects
              /\ SelectionHolds(request[r].previous) /\ SelectionHolds(request[r].next)
              /\ ~spoiled => request[r].previous = accepted
        /\ pc[r] = "opening" /\ ~request[r].rollback /\ ~spoiled => file = accepted
        /\ pc[r] = "writing" => file = Torn
        /\ pc[r] \in {"restarting", "stopping", "cleared", "starting"} =>
              \/ file = Torn /\ (request[r].rollback => spoiled)
              \/ file = IF request[r].rollback THEN request[r].previous ELSE request[r].next

\* A registration is reported while there is a Node, and until it is cleared.
RegistrationTracked ==
    registered => \/ worker \in {"announcing", "serving", "closing"}
                  \/ \E r \in Requests : pc[r] = "stopping"
                  \/ pc[Main] \in {"leaving", "exited"}

\* The model is empty when a server is to fill it, and the Node shuts down for a
\* stop() alone.
DeviceTracked ==
    /\ worker \in {"entering", "opening"} => ~has_device
    /\ server = "init" => ~has_device /\ worker \in {"announcing", "serving", "closing"}
    /\ server = "running" => has_device /\ worker \in {"announcing", "serving", "closing"}
    /\ shutdown /\ worker \in {"opening", "announcing", "serving", "closing"} =>
          \E c \in Clients : at[c] \in StopPcs
    /\ server = "ended" /\ worker \in {"announcing", "serving"} =>
          has_device \/ \E c \in Clients : at[c] \in StopPcs
    /\ \A r \in Requests : pc[r] = "cleared" \/ (pc[r] = "stopping" /\ at[r] = "idle") =>
          needs_model_reset \/ ~has_device
    /\ pc[Main] = "boot" => needs_model_reset \/ ~has_device

CInv ==
    /\ ConfigTypeOK /\ IInv
    /\ FileIsWhatWasAccepted /\ SelectedRegistryIsNamed
    /\ MutexTracked /\ RequestsOfARunningDaemon
    /\ CallsTracked /\ StopWorks /\ StartWorks /\ StatesTracked
    /\ DeviceTracked /\ ReportTracked /\ SettingsTracked /\ UpdateTracked /\ RegistrationTracked

-----------------------------------------------------------------------------
(* Documents.                                                              *)

\* An object is a function from some of the fields.
LEMMA ObjectIs ==
    ASSUME NEW F \in SUBSET Fields, NEW d \in [F -> Registries \cup {Malformed, Null}]
    PROVE  d \in Objects
PROOF
    BY DEF Objects

\* What an object is a function of, and to.
LEMMA ObjectHas ==
    ASSUME NEW d \in Objects
    PROVE  /\ DOMAIN d \subseteq Fields
           /\ d \in [DOMAIN d -> Registries \cup {Malformed, Null}]
PROOF
<1>1. PICK F \in SUBSET Fields : d \in [F -> Registries \cup {Malformed, Null}]
    BY DEF Objects
<1> QED
    BY <1>1

\* A thread with no request is of the type too.
LEMMA NoRequestTyped == NoRequest \in RequestRecords
PROOF
<1>1. [f \in {} |-> Null] \in Objects
    <2>1. {} \in SUBSET Fields
        OBVIOUS
    <2>2. [f \in {} |-> Null] \in [{} -> Registries \cup {Malformed, Null}]
        OBVIOUS
    <2> QED
        BY <2>1, <2>2, ObjectIs
<1> QED
    BY <1>1 DEF NoRequest, RequestRecords

\* merge_objects makes an object of two.
LEMMA MergeIsObject ==
    ASSUME NEW base \in Objects, NEW patch \in Objects
    PROVE  MergeObjects(base, patch) \in Objects
PROOF
<1> DEFINE F == {g \in DOMAIN base \cup DOMAIN patch : g \in DOMAIN patch => patch[g] # Null}
<1>1. F \in SUBSET Fields
    BY ObjectHas
<1>2. MergeObjects(base, patch) \in [F -> Registries \cup {Malformed, Null}]
    BY ObjectHas DEF MergeObjects
<1> QED
    BY <1>1, <1>2, ObjectIs

\* apply_selected_registry_settings leaves an object in which a selection holds.
LEMMA SelectionApplied ==
    ASSUME NEW d \in Objects
    PROVE  ApplySelection(d) \in Objects /\ SelectionHolds(ApplySelection(d))
PROOF
<1>1. CASE "selected_registry_uri" \notin DOMAIN d
    BY <1>1 DEF ApplySelection, SelectionHolds
<1>2. CASE "selected_registry_uri" \in DOMAIN d /\ d["selected_registry_uri"] = Null
    <2> DEFINE F == DOMAIN d \ {"selected_registry_uri"}
    <2>1. F \in SUBSET Fields
        BY ObjectHas
    <2>2. ApplySelection(d) = [f \in F |-> d[f]]
        BY <1>2 DEF ApplySelection, Without
    <2>3. [f \in F |-> d[f]] \in [F -> Registries \cup {Malformed, Null}]
        BY ObjectHas
    <2> QED
        BY <2>1, <2>2, <2>3, ObjectIs DEF SelectionHolds
<1>3. CASE "selected_registry_uri" \in DOMAIN d /\ d["selected_registry_uri"] # Null
    <2>1. ApplySelection(d) = [f \in Fields |-> d["selected_registry_uri"]]
        BY <1>3 DEF ApplySelection
    <2>2. d["selected_registry_uri"] \in Registries \cup {Malformed, Null}
        BY <1>3, ObjectHas
    <2>3. ApplySelection(d) \in Objects
        BY <2>1, <2>2, ObjectIs
    <2> QED
        BY <2>1, <2>3 DEF SelectionHolds, Fields
<1> QED
    BY <1>1, <1>2, <1>3

-----------------------------------------------------------------------------
(* The Node's life cycle, below the requests.                              *)

\* A step of the daemon is one of the Node's life cycle, or the process is new.
LEMMA LifecycleStep ==
    ASSUME [ConfigNext]_cvars
    PROVE  [Next]_vars \/ ProcessIsNew
PROOF
<1>1. ASSUME NEW r \in Requests, Receive(r) \/ Serve(r) PROVE [Next]_vars
    BY <1>1, ConfigAssumption DEF ConfigAssumption, Receive, Serve, Lock, Read, Prepare,
        Truncate, OpenRefused, Write, WriteThrows, WriteLost, RestartStops, ClearStatus,
        RestartStarts, RestartSucceeds, RestartFails, Next
<1>2. CASE Run \/ Stop \/ Close \/ Crash
    BY <1>2, ConfigAssumption DEF ConfigAssumption, Run, Boot, Booted, Leave, Left, Stop, Close,
           Crash,
        Next
<1>3. CASE \E c \in Clients : CallGoesOn(c)
    BY <1>3 DEF CallGoesOn, Next
<1>4. CASE WorkerReads \/ WorkerGoesOn \/ ServerGoesOn \/ RegistrationChanges
    BY <1>4 DEF WorkerReads, WorkerGoesOn, ServerGoesOn, RegistrationChanges, Next, Worker
<1>5. CASE UNCHANGED cvars
    BY <1>5 DEF cvars
<1> QED
    BY <1>1, <1>2, <1>3, <1>4, <1>5 DEF ConfigNext

\* What NodeLifecycle promises of a Node survives the death of the process.
LEMMA LifecycleKept ==
    ASSUME IInv, [ConfigNext]_cvars
    PROVE  IInv'
PROOF
<1>1. CASE [Next]_vars
    BY <1>1, TypePreserved, ThreadTrackedPreserved, SignalTrackedPreserved,
       RunningServesPreserved DEF IInv
<1>2. CASE ProcessIsNew
    <2>1. at' \in [Clients -> ClientPcs] /\ started' \in [Clients -> BOOLEAN]
        BY <1>2 DEF ProcessIsNew, ClientPcs
    <2>2. calls' \in 0..MaxCalls
        BY <1>2, LifecycleAssumption DEF LifecycleAssumption, ProcessIsNew
    <2>3. TypeOK'
        BY <1>2, <2>1, <2>2 DEF ProcessIsNew, TypeOK
    <2> QED
        BY <1>2, <2>3 DEF ProcessIsNew, IInv, ThreadTracked, SignalTracked, RunningServes
<1> QED
    BY <1>1, <1>2, LifecycleStep

-----------------------------------------------------------------------------
(* One lemma per part of the invariant.                                    *)

\* The daemon's variables keep their types.
LEMMA ConfigTypePreserved ==
    ASSUME ConfigTypeOK, TypeOK, [ConfigNext]_cvars
    PROVE  ConfigTypeOK'
PROOF
<1>1. ASSUME NEW r \in Requests, Receive(r) PROVE ConfigTypeOK'
    <2>1. request' \in [Requests -> RequestRecords]
        BY <1>1 DEF Receive, Go, ConfigTypeOK, RequestRecords
    <2>2. pc' \in [Clients -> RequestPcs \cup MainPcs] /\ pc'[Main] \in MainPcs
          /\ \A q \in Requests : pc'[q] \in RequestPcs
        BY <1>1, ConfigAssumption DEF Receive, Go, ConfigAssumption, ConfigTypeOK,
               RequestPcs, MainPcs
    <2>3. events' \in 0..MaxEvents
        BY <1>1, ConfigAssumption DEF Receive, Go, ConfigAssumption, ConfigTypeOK
    <2> QED
        BY <1>1, <2>1, <2>2, <2>3 DEF Receive, Go, ConfigTypeOK
<1>2. ASSUME NEW r \in Requests, Lock(r) PROVE ConfigTypeOK'
    BY <1>2, ConfigAssumption DEF Lock, Go, ConfigAssumption, ConfigTypeOK, RequestPcs,
           MainPcs
<1>3. ASSUME NEW r \in Requests, Read(r) PROVE ConfigTypeOK'
    BY <1>3, ConfigAssumption, NoRequestTyped DEF Read, Answer, ConfigAssumption,
           ConfigTypeOK, RequestPcs, MainPcs
<1>4. ASSUME NEW r \in Requests, Prepare(r) PROVE ConfigTypeOK'
    <2>1. request' \in [Requests -> RequestRecords]
        <3>1. CASE request' = [request EXCEPT ![r] = NoRequest]
            BY <3>1, NoRequestTyped DEF ConfigTypeOK
        <3> DEFINE document == IF request[r].kind = "put" THEN request[r].payload
                               ELSE MergeObjects(file, request[r].payload)
        <3>2. CASE /\ file # Torn
                   /\ request' = [request EXCEPT ![r].previous = file,
                                                 ![r].next = ApplySelection(document)]
            <4>1. document \in Objects
                BY <3>2, MergeIsObject DEF ConfigTypeOK, RequestRecords
            <4>2. ApplySelection(document) \in Objects
                BY <4>1, SelectionApplied
            <4> HIDE DEF document
            <4> QED
                BY <3>2, <4>2 DEF ConfigTypeOK, RequestRecords
        <3> QED
            BY <1>4, <3>1, <3>2 DEF Prepare, Answer, Go
    <2>2. pc' \in [Clients -> RequestPcs \cup MainPcs] /\ pc'[Main] \in MainPcs
          /\ \A q \in Requests : pc'[q] \in RequestPcs
        BY <1>4, ConfigAssumption DEF Prepare, Answer, Go, ConfigAssumption, ConfigTypeOK,
               RequestPcs, MainPcs
    <2>3. config_mutex' \in Requests \cup {Nobody}
        BY <1>4 DEF Prepare, Answer, Go, ConfigTypeOK
    <2> QED
        BY <1>4, <2>1, <2>2, <2>3 DEF Prepare, ConfigTypeOK
<1>5. ASSUME NEW r \in Requests, Truncate(r) PROVE ConfigTypeOK'
    BY <1>5, ConfigAssumption DEF Truncate, Go, ConfigAssumption, ConfigTypeOK,
           RequestPcs, MainPcs
<1>6. ASSUME NEW r \in Requests, OpenRefused(r) PROVE ConfigTypeOK'
    BY <1>6, ConfigAssumption, NoRequestTyped DEF OpenRefused, Answer, ConfigAssumption,
           ConfigTypeOK, RequestPcs, MainPcs
<1>7. ASSUME NEW r \in Requests, Write(r) PROVE ConfigTypeOK'
    BY <1>7, ConfigAssumption DEF Write, Written, Go, ConfigAssumption, ConfigTypeOK,
           RequestPcs, MainPcs, RequestRecords
<1>8. ASSUME NEW r \in Requests, WriteThrows(r) PROVE ConfigTypeOK'
    BY <1>8, ConfigAssumption, NoRequestTyped DEF WriteThrows, Answer, ConfigAssumption,
           ConfigTypeOK, RequestPcs, MainPcs
<1>9. ASSUME NEW r \in Requests, WriteLost(r) PROVE ConfigTypeOK'
    BY <1>9, ConfigAssumption DEF WriteLost, Go, ConfigAssumption, ConfigTypeOK,
           RequestPcs, MainPcs
<1>10. ASSUME NEW r \in Requests, RestartStops(r) PROVE ConfigTypeOK'
    BY <1>10, ConfigAssumption DEF RestartStops, Go, StopSignals, Call, ConfigAssumption,
           ConfigTypeOK, RequestPcs, MainPcs
<1>11. ASSUME NEW r \in Requests, ClearStatus(r) PROVE ConfigTypeOK'
    BY <1>11, ConfigAssumption DEF ClearStatus, Go, ConfigAssumption, ConfigTypeOK,
           RequestPcs, MainPcs
<1>12. ASSUME NEW r \in Requests, RestartStarts(r) PROVE ConfigTypeOK'
    BY <1>12, ConfigAssumption DEF RestartStarts, Go, ConfigAssumption, ConfigTypeOK,
           RequestPcs
<1>13. ASSUME NEW r \in Requests, RestartSucceeds(r) PROVE ConfigTypeOK'
    <2>1. accepted' \in Objects \cup {Torn} /\ spoiled' \in BOOLEAN
        BY <1>13 DEF RestartSucceeds, Answer, ConfigTypeOK, RequestRecords
    <2>2. request' \in [Requests -> RequestRecords]
        BY <1>13, NoRequestTyped DEF RestartSucceeds, Answer, ConfigTypeOK
    <2> QED
        BY <1>13, <2>1, <2>2, ConfigAssumption DEF RestartSucceeds, Answer,
               ConfigAssumption, ConfigTypeOK, RequestPcs, MainPcs
<1>14. ASSUME NEW r \in Requests, RestartFails(r) PROVE ConfigTypeOK'
    <2>1. request' \in [Requests -> RequestRecords]
        <3>1. CASE request[r].rollback
            BY <3>1, <1>14, NoRequestTyped DEF RestartFails, Answer, ConfigTypeOK
        <3>2. CASE ~request[r].rollback
            <4>1. request' = [request EXCEPT ![r].rollback = TRUE]
                BY <3>2, <1>14 DEF RestartFails, Answer
            <4>2. request \in [Requests -> RequestRecords]
                BY DEF ConfigTypeOK
            <4> QED
                BY <4>1, <4>2 DEF RequestRecords
        <3> QED
            BY <3>1, <3>2
    <2> QED
        BY <1>14, <2>1, ConfigAssumption DEF RestartFails, Answer, ConfigAssumption,
               ConfigTypeOK, RequestPcs, MainPcs
<1>15. CASE Boot
    BY <1>15, ConfigAssumption DEF Boot, Go, ConfigAssumption, ConfigTypeOK, MainPcs
<1>16. CASE Booted
    BY <1>16, ConfigAssumption DEF Booted, Go, ConfigAssumption, ConfigTypeOK, RequestPcs,
           MainPcs
<1>17. CASE Close
    BY <1>17, ConfigAssumption DEF Close, Go, ConfigAssumption, ConfigTypeOK, RequestPcs,
           MainPcs
<1>18. CASE Leave
    BY <1>18, ConfigAssumption DEF Leave, Go, StopSignals, Call, ConfigAssumption,
           ConfigTypeOK, RequestPcs, MainPcs
<1>19. CASE Left
    BY <1>19, ConfigAssumption DEF Left, Go, ConfigAssumption, ConfigTypeOK, RequestPcs,
           MainPcs
<1>20. CASE Crash
    <2>1. request' \in [Requests -> RequestRecords]
        BY <1>20, NoRequestTyped DEF Crash, ProcessIsNew
    <2>2. pc' \in [Clients -> RequestPcs \cup MainPcs] /\ pc'[Main] \in MainPcs
          /\ \A q \in Requests : pc'[q] \in RequestPcs
        BY <1>20, ConfigAssumption DEF Crash, ProcessIsNew, ConfigAssumption, RequestPcs,
               MainPcs
    <2>3. events' \in 0..MaxEvents
        BY <1>20, ConfigAssumption DEF Crash, ProcessIsNew, ConfigAssumption, ConfigTypeOK
    <2> QED
        BY <1>20, <2>1, <2>2, <2>3 DEF Crash, ProcessIsNew, ConfigTypeOK
<1>21. ASSUME NEW c \in Clients, StartReturns(c), UNCHANGED config PROVE ConfigTypeOK'
    BY <1>21, ConfigAssumption DEF StartReturns, StartAnswers, config, ConfigAssumption,
           ConfigTypeOK, RequestPcs, MainPcs
<1>22. ASSUME NEW c \in Clients, StopShuts(c), UNCHANGED config PROVE ConfigTypeOK'
    BY <1>22, ConfigAssumption DEF StopShuts, config, ConfigAssumption, ConfigTypeOK,
           RequestPcs, MainPcs
<1>23. ASSUME NEW c \in Clients, StopTakesThread(c), UNCHANGED config PROVE ConfigTypeOK'
    BY <1>23, ConfigAssumption DEF StopTakesThread, config, ConfigAssumption,
           ConfigTypeOK, RequestPcs, MainPcs
<1>24. ASSUME NEW c \in Clients, StopJoins(c), UNCHANGED config PROVE ConfigTypeOK'
    BY <1>24, ConfigAssumption DEF StopJoins, config, ConfigAssumption, ConfigTypeOK,
           RequestPcs, MainPcs
<1>25. ASSUME NEW c \in Clients, StopEnds(c), UNCHANGED config PROVE ConfigTypeOK'
    BY <1>25, ConfigAssumption DEF StopEnds, config, ConfigAssumption, ConfigTypeOK,
           RequestPcs, MainPcs
<1>26. CASE WorkerReads
    BY <1>26, ConfigAssumption DEF WorkerReads, ServerOpens, OpenFails, WorkerGoes,
           ConfigAssumption, ConfigTypeOK, RequestPcs, MainPcs
<1>27. CASE RegistrationChanges
    BY <1>27, ConfigAssumption DEF RegistrationChanges, ConfigAssumption, ConfigTypeOK,
           RequestPcs, MainPcs
<1>28. CASE WorkerEnters /\ UNCHANGED config
    BY <1>28, ConfigAssumption DEF WorkerEnters, WorkerGoes, config, ConfigAssumption,
           ConfigTypeOK, RequestPcs, MainPcs
<1>29. CASE WorkerAnnounces /\ UNCHANGED config
    BY <1>29, ConfigAssumption DEF WorkerAnnounces, WorkerGoes, config, ConfigAssumption,
           ConfigTypeOK, RequestPcs, MainPcs
<1>30. CASE WorkerStops /\ UNCHANGED config
    BY <1>30, ConfigAssumption DEF WorkerStops, WorkerGoes, config, ConfigAssumption,
           ConfigTypeOK, RequestPcs, MainPcs
<1>31. CASE ServerCloses /\ UNCHANGED config
    BY <1>31, ConfigAssumption DEF ServerCloses, WorkerGoes, config, ConfigAssumption,
           ConfigTypeOK, RequestPcs, MainPcs
<1>32. CASE WorkerReportsFailure /\ UNCHANGED config
    BY <1>32, ConfigAssumption DEF WorkerReportsFailure, config, ConfigAssumption,
           ConfigTypeOK, RequestPcs, MainPcs
<1>33. CASE WorkerEnds /\ UNCHANGED config
    BY <1>33, ConfigAssumption DEF WorkerEnds, WorkerGoes, config, ConfigAssumption,
           ConfigTypeOK, RequestPcs, MainPcs
<1>34. CASE ServerInit /\ UNCHANGED config
    BY <1>34, ConfigAssumption DEF ServerInit, config, ConfigAssumption, ConfigTypeOK,
           RequestPcs, MainPcs
<1>35. CASE ServerShuts /\ UNCHANGED config
    BY <1>35, ConfigAssumption DEF ServerShuts, config, ConfigAssumption, ConfigTypeOK,
           RequestPcs, MainPcs
<1>36. CASE UNCHANGED cvars
    BY <1>36 DEF cvars, vars, config, life, node, ConfigTypeOK, RequestPcs, MainPcs
<1>37. CASE Stop
    BY <1>37, ConfigAssumption DEF Stop, Go, ConfigAssumption, ConfigTypeOK, RequestPcs,
           MainPcs
<1> QED
        BY <1>1, <1>2, <1>3, <1>4, <1>5, <1>6, <1>7, <1>8, <1>9, <1>10, <1>11, <1>12,
        <1>13, <1>14, <1>15, <1>16, <1>17, <1>18, <1>19, <1>20, <1>21, <1>22, <1>23,
        <1>24, <1>25, <1>26, <1>27, <1>28, <1>29, <1>30, <1>31, <1>32, <1>33, <1>34,
        <1>35, <1>36, <1>37
    DEF ConfigNext, Serve, Run, CallGoesOn, Proceed, WorkerGoesOn, ServerGoesOn, Server

\* Every step keeps MutexTracked.
LEMMA MutexTrackedPreserved ==
    ASSUME CInv, [ConfigNext]_cvars
    PROVE  MutexTracked'
PROOF
<1>1. ASSUME NEW r \in Requests, Receive(r) PROVE MutexTracked'
    BY <1>1 DEF Receive, Go, CInv, MutexTracked
<1>2. ASSUME NEW r \in Requests, Lock(r) PROVE MutexTracked'
    BY <1>2, ConfigAssumption, LifecycleAssumption DEF Lock, Go, CInv, ConfigAssumption,
           LifecycleAssumption, ConfigTypeOK, MutexTracked
<1>3. ASSUME NEW r \in Requests, Read(r) PROVE MutexTracked'
    BY <1>3, ConfigAssumption, LifecycleAssumption DEF Read, Answer, CInv,
           ConfigAssumption, LifecycleAssumption, ConfigTypeOK, MutexTracked
<1>4. ASSUME NEW r \in Requests, Prepare(r) PROVE MutexTracked'
    BY <1>4, ConfigAssumption, LifecycleAssumption DEF Prepare, Answer, Go, CInv,
           ConfigAssumption, LifecycleAssumption, ConfigTypeOK, MutexTracked
<1>5. ASSUME NEW r \in Requests, Truncate(r) PROVE MutexTracked'
    BY <1>5 DEF Truncate, Go, CInv, MutexTracked
<1>6. ASSUME NEW r \in Requests, OpenRefused(r) PROVE MutexTracked'
    BY <1>6, ConfigAssumption, LifecycleAssumption DEF OpenRefused, Answer, CInv,
           ConfigAssumption, LifecycleAssumption, ConfigTypeOK, MutexTracked
<1>7. ASSUME NEW r \in Requests, Write(r) PROVE MutexTracked'
    BY <1>7 DEF Write, Go, CInv, MutexTracked
<1>8. ASSUME NEW r \in Requests, WriteThrows(r) PROVE MutexTracked'
    BY <1>8, ConfigAssumption, LifecycleAssumption DEF WriteThrows, Answer, CInv,
           ConfigAssumption, LifecycleAssumption, ConfigTypeOK, MutexTracked
<1>9. ASSUME NEW r \in Requests, WriteLost(r) PROVE MutexTracked'
    BY <1>9 DEF WriteLost, Go, CInv, MutexTracked
<1>10. ASSUME NEW r \in Requests, RestartStops(r) PROVE MutexTracked'
    BY <1>10 DEF RestartStops, Go, CInv, MutexTracked
<1>11. ASSUME NEW r \in Requests, ClearStatus(r) PROVE MutexTracked'
    BY <1>11 DEF ClearStatus, Go, CInv, MutexTracked
<1>12. ASSUME NEW r \in Requests, RestartStarts(r) PROVE MutexTracked'
    BY <1>12 DEF RestartStarts, Go, CInv, MutexTracked
<1>13. ASSUME NEW r \in Requests, RestartSucceeds(r) PROVE MutexTracked'
    BY <1>13, ConfigAssumption, LifecycleAssumption DEF RestartSucceeds, Answer, CInv,
           ConfigAssumption, LifecycleAssumption, ConfigTypeOK, MutexTracked
<1>14. ASSUME NEW r \in Requests, RestartFails(r) PROVE MutexTracked'
    BY <1>14, ConfigAssumption, LifecycleAssumption DEF RestartFails, Answer, CInv,
           ConfigAssumption, LifecycleAssumption, ConfigTypeOK, MutexTracked
<1>15. CASE Boot
    BY <1>15 DEF Boot, Go, CInv, MutexTracked
<1>16. CASE Booted
    BY <1>16 DEF Booted, Go, CInv, MutexTracked
<1>17. CASE Close
    BY <1>17 DEF Close, Go, CInv, MutexTracked
<1>18. CASE Leave
    BY <1>18 DEF Leave, Go, CInv, MutexTracked
<1>19. CASE Left
    BY <1>19 DEF Left, Go, CInv, MutexTracked
<1>20. CASE Crash
    BY <1>20, ConfigAssumption, LifecycleAssumption DEF Crash, ProcessIsNew,
           ConfigAssumption, LifecycleAssumption, MutexTracked
<1>21. ASSUME NEW c \in Clients, StartReturns(c), UNCHANGED config PROVE MutexTracked'
    BY <1>21 DEF config, CInv, MutexTracked
<1>22. ASSUME NEW c \in Clients, StopShuts(c), UNCHANGED config PROVE MutexTracked'
    BY <1>22 DEF config, CInv, MutexTracked
<1>23. ASSUME NEW c \in Clients, StopTakesThread(c), UNCHANGED config PROVE MutexTracked'
    BY <1>23 DEF config, CInv, MutexTracked
<1>24. ASSUME NEW c \in Clients, StopJoins(c), UNCHANGED config PROVE MutexTracked'
    BY <1>24 DEF config, CInv, MutexTracked
<1>25. ASSUME NEW c \in Clients, StopEnds(c), UNCHANGED config PROVE MutexTracked'
    BY <1>25 DEF config, CInv, MutexTracked
<1>26. CASE WorkerReads
    BY <1>26 DEF WorkerReads, CInv, MutexTracked
<1>27. CASE RegistrationChanges
    BY <1>27 DEF RegistrationChanges, CInv, MutexTracked
<1>28. CASE WorkerEnters /\ UNCHANGED config
    BY <1>28 DEF config, CInv, MutexTracked
<1>29. CASE WorkerAnnounces /\ UNCHANGED config
    BY <1>29 DEF config, CInv, MutexTracked
<1>30. CASE WorkerStops /\ UNCHANGED config
    BY <1>30 DEF config, CInv, MutexTracked
<1>31. CASE ServerCloses /\ UNCHANGED config
    BY <1>31 DEF config, CInv, MutexTracked
<1>32. CASE WorkerReportsFailure /\ UNCHANGED config
    BY <1>32 DEF config, CInv, MutexTracked
<1>33. CASE WorkerEnds /\ UNCHANGED config
    BY <1>33 DEF config, CInv, MutexTracked
<1>34. CASE ServerInit /\ UNCHANGED config
    BY <1>34 DEF config, CInv, MutexTracked
<1>35. CASE ServerShuts /\ UNCHANGED config
    BY <1>35 DEF config, CInv, MutexTracked
<1>36. CASE UNCHANGED cvars
    BY <1>36 DEF cvars, config, CInv, MutexTracked
<1>37. CASE Stop
    BY <1>37 DEF Stop, Go, CInv, MutexTracked
<1> QED
        BY <1>1, <1>2, <1>3, <1>4, <1>5, <1>6, <1>7, <1>8, <1>9, <1>10, <1>11, <1>12,
        <1>13, <1>14, <1>15, <1>16, <1>17, <1>18, <1>19, <1>20, <1>21, <1>22, <1>23,
        <1>24, <1>25, <1>26, <1>27, <1>28, <1>29, <1>30, <1>31, <1>32, <1>33, <1>34,
        <1>35, <1>36, <1>37
    DEF ConfigNext, Serve, Run, CallGoesOn, Proceed, WorkerGoesOn, ServerGoesOn, Server

\* Every step keeps RequestsOfARunningDaemon.
LEMMA RequestsOfARunningDaemonPreserved ==
    ASSUME CInv, [ConfigNext]_cvars
    PROVE  RequestsOfARunningDaemon'
PROOF
<1>1. ASSUME NEW r \in Requests, Receive(r) PROVE RequestsOfARunningDaemon'
    BY <1>1 DEF Receive, Go, Listening, RequestsOfARunningDaemon
<1>2. ASSUME NEW r \in Requests, Lock(r) PROVE RequestsOfARunningDaemon'
    BY <1>2 DEF Lock, Go, CInv, RequestsOfARunningDaemon
<1>3. ASSUME NEW r \in Requests, Read(r) PROVE RequestsOfARunningDaemon'
    BY <1>3 DEF Read, Answer, CInv, RequestsOfARunningDaemon
<1>4. ASSUME NEW r \in Requests, Prepare(r) PROVE RequestsOfARunningDaemon'
    BY <1>4, ConfigAssumption DEF Prepare, Answer, Go, CInv, ConfigAssumption,
           ConfigTypeOK, RequestsOfARunningDaemon
<1>5. ASSUME NEW r \in Requests, Truncate(r) PROVE RequestsOfARunningDaemon'
    BY <1>5 DEF Truncate, Go, CInv, RequestsOfARunningDaemon
<1>6. ASSUME NEW r \in Requests, OpenRefused(r) PROVE RequestsOfARunningDaemon'
    BY <1>6 DEF OpenRefused, Answer, CInv, RequestsOfARunningDaemon
<1>7. ASSUME NEW r \in Requests, Write(r) PROVE RequestsOfARunningDaemon'
    BY <1>7 DEF Write, Go, CInv, RequestsOfARunningDaemon
<1>8. ASSUME NEW r \in Requests, WriteThrows(r) PROVE RequestsOfARunningDaemon'
    BY <1>8 DEF WriteThrows, Answer, CInv, RequestsOfARunningDaemon
<1>9. ASSUME NEW r \in Requests, WriteLost(r) PROVE RequestsOfARunningDaemon'
    BY <1>9 DEF WriteLost, Go, CInv, RequestsOfARunningDaemon
<1>10. ASSUME NEW r \in Requests, RestartStops(r) PROVE RequestsOfARunningDaemon'
    BY <1>10 DEF RestartStops, Go, CInv, RequestsOfARunningDaemon
<1>11. ASSUME NEW r \in Requests, ClearStatus(r) PROVE RequestsOfARunningDaemon'
    BY <1>11 DEF ClearStatus, Go, CInv, RequestsOfARunningDaemon
<1>12. ASSUME NEW r \in Requests, RestartStarts(r) PROVE RequestsOfARunningDaemon'
    BY <1>12 DEF RestartStarts, Go, CInv, RequestsOfARunningDaemon
<1>13. ASSUME NEW r \in Requests, RestartSucceeds(r) PROVE RequestsOfARunningDaemon'
    BY <1>13 DEF RestartSucceeds, Answer, CInv, RequestsOfARunningDaemon
<1>14. ASSUME NEW r \in Requests, RestartFails(r) PROVE RequestsOfARunningDaemon'
    BY <1>14, ConfigAssumption DEF RestartFails, Answer, CInv, ConfigAssumption,
           ConfigTypeOK, RequestsOfARunningDaemon
<1>15. CASE Boot
    BY <1>15 DEF Boot, Go, CInv, RequestsOfARunningDaemon
<1>16. CASE Booted
    BY <1>16 DEF Booted, Go, CInv, RequestsOfARunningDaemon
<1>17. CASE Close
    BY <1>17 DEF Close, Go, RequestsOfARunningDaemon
<1>18. CASE Leave
    BY <1>18 DEF Leave, Go, RequestsOfARunningDaemon
<1>19. CASE Left
    BY <1>19 DEF Left, Go, CInv, RequestsOfARunningDaemon
<1>20. CASE Crash
    BY <1>20, ConfigAssumption DEF Crash, ProcessIsNew, ConfigAssumption,
           RequestsOfARunningDaemon
<1>21. ASSUME NEW c \in Clients, StartReturns(c), UNCHANGED config PROVE RequestsOfARunningDaemon'
    BY <1>21 DEF config, CInv, RequestsOfARunningDaemon
<1>22. ASSUME NEW c \in Clients, StopShuts(c), UNCHANGED config PROVE RequestsOfARunningDaemon'
    BY <1>22 DEF config, CInv, RequestsOfARunningDaemon
<1>23. ASSUME NEW c \in Clients, StopTakesThread(c), UNCHANGED config PROVE RequestsOfARunningDaemon'
    BY <1>23 DEF config, CInv, RequestsOfARunningDaemon
<1>24. ASSUME NEW c \in Clients, StopJoins(c), UNCHANGED config PROVE RequestsOfARunningDaemon'
    BY <1>24 DEF config, CInv, RequestsOfARunningDaemon
<1>25. ASSUME NEW c \in Clients, StopEnds(c), UNCHANGED config PROVE RequestsOfARunningDaemon'
    BY <1>25 DEF config, CInv, RequestsOfARunningDaemon
<1>26. CASE WorkerReads
    BY <1>26 DEF WorkerReads, CInv, RequestsOfARunningDaemon
<1>27. CASE RegistrationChanges
    BY <1>27 DEF RegistrationChanges, CInv, RequestsOfARunningDaemon
<1>28. CASE WorkerEnters /\ UNCHANGED config
    BY <1>28 DEF config, CInv, RequestsOfARunningDaemon
<1>29. CASE WorkerAnnounces /\ UNCHANGED config
    BY <1>29 DEF config, CInv, RequestsOfARunningDaemon
<1>30. CASE WorkerStops /\ UNCHANGED config
    BY <1>30 DEF config, CInv, RequestsOfARunningDaemon
<1>31. CASE ServerCloses /\ UNCHANGED config
    BY <1>31 DEF config, CInv, RequestsOfARunningDaemon
<1>32. CASE WorkerReportsFailure /\ UNCHANGED config
    BY <1>32 DEF config, CInv, RequestsOfARunningDaemon
<1>33. CASE WorkerEnds /\ UNCHANGED config
    BY <1>33 DEF config, CInv, RequestsOfARunningDaemon
<1>34. CASE ServerInit /\ UNCHANGED config
    BY <1>34 DEF config, CInv, RequestsOfARunningDaemon
<1>35. CASE ServerShuts /\ UNCHANGED config
    BY <1>35 DEF config, CInv, RequestsOfARunningDaemon
<1>36. CASE UNCHANGED cvars
    BY <1>36 DEF cvars, config, CInv, RequestsOfARunningDaemon
<1>37. CASE Stop
    BY <1>37 DEF Stop, Go, RequestsOfARunningDaemon
<1> QED
        BY <1>1, <1>2, <1>3, <1>4, <1>5, <1>6, <1>7, <1>8, <1>9, <1>10, <1>11, <1>12,
        <1>13, <1>14, <1>15, <1>16, <1>17, <1>18, <1>19, <1>20, <1>21, <1>22, <1>23,
        <1>24, <1>25, <1>26, <1>27, <1>28, <1>29, <1>30, <1>31, <1>32, <1>33, <1>34,
        <1>35, <1>36, <1>37
    DEF ConfigNext, Serve, Run, CallGoesOn, Proceed, WorkerGoesOn, ServerGoesOn, Server

\* Every step keeps CallsTracked.
LEMMA CallsTrackedPreserved ==
    ASSUME CInv, [ConfigNext]_cvars
    PROVE  CallsTracked'
PROOF
<1>1. ASSUME NEW r \in Requests, Receive(r) PROVE CallsTracked'
    BY <1>1 DEF Receive, Go, CInv, vars, CallsTracked
<1>2. ASSUME NEW r \in Requests, Lock(r) PROVE CallsTracked'
    BY <1>2 DEF Lock, Go, CInv, vars, CallsTracked
<1>3. ASSUME NEW r \in Requests, Read(r) PROVE CallsTracked'
    BY <1>3 DEF Read, Answer, CInv, vars, CallsTracked
<1>4. ASSUME NEW r \in Requests, Prepare(r) PROVE CallsTracked'
    BY <1>4, ConfigAssumption DEF Prepare, Answer, Go, CInv, ConfigAssumption,
           ConfigTypeOK, vars, CallsTracked
<1>5. ASSUME NEW r \in Requests, Truncate(r) PROVE CallsTracked'
    BY <1>5 DEF Truncate, Go, CInv, vars, CallsTracked
<1>6. ASSUME NEW r \in Requests, OpenRefused(r) PROVE CallsTracked'
    BY <1>6 DEF OpenRefused, Answer, CInv, vars, CallsTracked
<1>7. ASSUME NEW r \in Requests, Write(r) PROVE CallsTracked'
    BY <1>7 DEF Write, Go, CInv, vars, CallsTracked
<1>8. ASSUME NEW r \in Requests, WriteThrows(r) PROVE CallsTracked'
    BY <1>8 DEF WriteThrows, Answer, CInv, vars, CallsTracked
<1>9. ASSUME NEW r \in Requests, WriteLost(r) PROVE CallsTracked'
    BY <1>9 DEF WriteLost, Go, CInv, vars, CallsTracked
<1>10. ASSUME NEW r \in Requests, RestartStops(r) PROVE CallsTracked'
    BY <1>10 DEF RestartStops, Go, StopSignals, CInv, ConfigTypeOK, IInv, TypeOK,
           CallsTracked, RequestsOfARunningDaemon
<1>11. ASSUME NEW r \in Requests, ClearStatus(r) PROVE CallsTracked'
    BY <1>11 DEF ClearStatus, Go, CInv, vars, CallsTracked, StopPcs
<1>12. ASSUME NEW r \in Requests, RestartStarts(r) PROVE CallsTracked'
    BY <1>12, ConfigAssumption DEF RestartStarts, Go, Start, StartRefused, StartSpawns,
           StartAnswers, CInv, ConfigAssumption, ConfigTypeOK, IInv, TypeOK, CallsTracked,
           StopPcs
<1>13. ASSUME NEW r \in Requests, RestartSucceeds(r) PROVE CallsTracked'
    BY <1>13 DEF RestartSucceeds, Answer, CInv, vars, CallsTracked
<1>14. ASSUME NEW r \in Requests, RestartFails(r) PROVE CallsTracked'
    BY <1>14, ConfigAssumption DEF RestartFails, Answer, CInv, ConfigAssumption,
           ConfigTypeOK, vars, CallsTracked
<1>15. CASE Boot
    BY <1>15, ConfigAssumption DEF Boot, Go, Start, StartRefused, StartSpawns,
           StartAnswers, CInv, ConfigAssumption, ConfigTypeOK, IInv, TypeOK, CallsTracked,
           StopPcs
<1>16. CASE Booted
    BY <1>16 DEF Booted, Go, CInv, vars, CallsTracked
<1>17. CASE Close
    BY <1>17 DEF Close, Go, CInv, vars, CallsTracked
<1>18. CASE Leave
    BY <1>18 DEF Leave, Go, StopSignals, CInv, ConfigTypeOK, IInv, TypeOK, CallsTracked
<1>19. CASE Left
    BY <1>19 DEF Left, Go, CInv, vars, CallsTracked, StopPcs
<1>20. CASE Crash
    BY <1>20, ConfigAssumption DEF Crash, ProcessIsNew, ConfigAssumption, CallsTracked,
           StopPcs
<1>21. ASSUME NEW c \in Clients, StartReturns(c), UNCHANGED config PROVE CallsTracked'
    BY <1>21 DEF StartReturns, StartAnswers, config, CInv, CallsTracked, StopPcs
<1>22. ASSUME NEW c \in Clients, StopShuts(c), UNCHANGED config PROVE CallsTracked'
    BY <1>22 DEF StopShuts, config, CInv, CallsTracked, StopPcs
<1>23. ASSUME NEW c \in Clients, StopTakesThread(c), UNCHANGED config PROVE CallsTracked'
    BY <1>23, ConfigAssumption DEF StopTakesThread, config, CInv, ConfigAssumption, IInv,
           TypeOK, CallsTracked, StopPcs
<1>24. ASSUME NEW c \in Clients, StopJoins(c), UNCHANGED config PROVE CallsTracked'
    BY <1>24 DEF StopJoins, config, CInv, CallsTracked, StopPcs
<1>25. ASSUME NEW c \in Clients, StopEnds(c), UNCHANGED config PROVE CallsTracked'
    BY <1>25 DEF StopEnds, config, CInv, CallsTracked, StopPcs
<1>26. CASE WorkerReads
    BY <1>26 DEF WorkerReads, ServerOpens, OpenFails, WorkerGoes, CInv, CallsTracked
<1>27. CASE RegistrationChanges
    BY <1>27 DEF RegistrationChanges, CInv, vars, CallsTracked
<1>28. CASE WorkerEnters /\ UNCHANGED config
    BY <1>28 DEF WorkerEnters, WorkerGoes, config, CInv, CallsTracked
<1>29. CASE WorkerAnnounces /\ UNCHANGED config
    BY <1>29 DEF WorkerAnnounces, WorkerGoes, config, CInv, CallsTracked
<1>30. CASE WorkerStops /\ UNCHANGED config
    BY <1>30 DEF WorkerStops, WorkerGoes, config, CInv, CallsTracked
<1>31. CASE ServerCloses /\ UNCHANGED config
    BY <1>31 DEF ServerCloses, WorkerGoes, config, CInv, CallsTracked
<1>32. CASE WorkerReportsFailure /\ UNCHANGED config
    BY <1>32 DEF WorkerReportsFailure, config, CInv, CallsTracked
<1>33. CASE WorkerEnds /\ UNCHANGED config
    BY <1>33 DEF WorkerEnds, WorkerGoes, config, CInv, CallsTracked
<1>34. CASE ServerInit /\ UNCHANGED config
    BY <1>34 DEF ServerInit, config, CInv, CallsTracked
<1>35. CASE ServerShuts /\ UNCHANGED config
    BY <1>35 DEF ServerShuts, config, CInv, CallsTracked
<1>36. CASE UNCHANGED cvars
    BY <1>36 DEF cvars, vars, config, CInv, CallsTracked
<1>37. CASE Stop
    BY <1>37 DEF Stop, Go, CInv, vars, CallsTracked
<1> QED
        BY <1>1, <1>2, <1>3, <1>4, <1>5, <1>6, <1>7, <1>8, <1>9, <1>10, <1>11, <1>12,
        <1>13, <1>14, <1>15, <1>16, <1>17, <1>18, <1>19, <1>20, <1>21, <1>22, <1>23,
        <1>24, <1>25, <1>26, <1>27, <1>28, <1>29, <1>30, <1>31, <1>32, <1>33, <1>34,
        <1>35, <1>36, <1>37
    DEF ConfigNext, Serve, Run, CallGoesOn, Proceed, WorkerGoesOn, ServerGoesOn, Server

\* Every step keeps StopWorks.
LEMMA StopWorksPreserved ==
    ASSUME CInv, [ConfigNext]_cvars
    PROVE  StopWorks'
PROOF
<1>1. ASSUME NEW r \in Requests, Receive(r) PROVE StopWorks'
    BY <1>1 DEF Receive, Go, CInv, vars, life, StopWorks
<1>2. ASSUME NEW r \in Requests, Lock(r) PROVE StopWorks'
    BY <1>2 DEF Lock, Go, CInv, vars, life, StopWorks
<1>3. ASSUME NEW r \in Requests, Read(r) PROVE StopWorks'
    BY <1>3 DEF Read, Answer, CInv, vars, MutexTracked, RequestsOfARunningDaemon,
           StopWorks
<1>4. ASSUME NEW r \in Requests, Prepare(r) PROVE StopWorks'
    BY <1>4, ConfigAssumption DEF Prepare, Answer, Go, CInv, ConfigAssumption,
           ConfigTypeOK, vars, MutexTracked, RequestsOfARunningDaemon, StopWorks
<1>5. ASSUME NEW r \in Requests, Truncate(r) PROVE StopWorks'
    BY <1>5 DEF Truncate, Go, CInv, vars, MutexTracked, RequestsOfARunningDaemon,
           StopWorks
<1>6. ASSUME NEW r \in Requests, OpenRefused(r) PROVE StopWorks'
    BY <1>6 DEF OpenRefused, Answer, CInv, vars, MutexTracked, RequestsOfARunningDaemon,
           StopWorks
<1>7. ASSUME NEW r \in Requests, Write(r) PROVE StopWorks'
    BY <1>7 DEF Write, Go, CInv, vars, MutexTracked, RequestsOfARunningDaemon, StopWorks
<1>8. ASSUME NEW r \in Requests, WriteThrows(r) PROVE StopWorks'
    BY <1>8 DEF WriteThrows, Answer, CInv, vars, MutexTracked, RequestsOfARunningDaemon,
           StopWorks
<1>9. ASSUME NEW r \in Requests, WriteLost(r) PROVE StopWorks'
    BY <1>9 DEF WriteLost, Go, CInv, vars, MutexTracked, RequestsOfARunningDaemon,
           StopWorks
<1>10. ASSUME NEW r \in Requests, RestartStops(r) PROVE StopWorks'
    BY <1>10 DEF RestartStops, Go, StopSignals, CInv, ConfigTypeOK, IInv, TypeOK,
           StopWorks
<1>11. ASSUME NEW r \in Requests, ClearStatus(r) PROVE StopWorks'
    BY <1>11 DEF ClearStatus, Go, CInv, vars, life, StopWorks
<1>12. ASSUME NEW r \in Requests, RestartStarts(r) PROVE StopWorks'
    BY <1>12, ConfigAssumption DEF RestartStarts, Go, Start, StartRefused, StartSpawns,
           CInv, ConfigAssumption, ConfigTypeOK, IInv, TypeOK, MutexTracked,
           RequestsOfARunningDaemon, CallsTracked, StopPcs, StopWorks
<1>13. ASSUME NEW r \in Requests, RestartSucceeds(r) PROVE StopWorks'
    BY <1>13 DEF RestartSucceeds, Answer, CInv, vars, MutexTracked,
           RequestsOfARunningDaemon, StopWorks
<1>14. ASSUME NEW r \in Requests, RestartFails(r) PROVE StopWorks'
    BY <1>14, ConfigAssumption DEF RestartFails, Answer, CInv, ConfigAssumption,
           ConfigTypeOK, vars, MutexTracked, RequestsOfARunningDaemon, StopWorks
<1>15. CASE Boot
    BY <1>15, ConfigAssumption DEF Boot, Go, Start, StartRefused, StartSpawns, CInv,
           ConfigAssumption, ConfigTypeOK, IInv, TypeOK, RequestsOfARunningDaemon,
           CallsTracked, StopPcs, StopWorks
<1>16. CASE Booted
    BY <1>16 DEF Booted, Go, CInv, vars, RequestsOfARunningDaemon, StopWorks
<1>17. CASE Close
    BY <1>17 DEF Close, Go, CInv, vars, life, StopWorks
<1>18. CASE Leave
    BY <1>18 DEF Leave, Go, StopSignals, CInv, StopWorks
<1>19. CASE Left
    BY <1>19 DEF Left, Go, CInv, vars, RequestsOfARunningDaemon, StopWorks
<1>20. CASE Crash
    BY <1>20 DEF Crash, ProcessIsNew, StopWorks
<1>21. ASSUME NEW c \in Clients, StartReturns(c), UNCHANGED config PROVE StopWorks'
    BY <1>21 DEF StartReturns, StartAnswers, config, CInv, life, CallsTracked, StopWorks
<1>22. ASSUME NEW c \in Clients, StopShuts(c), UNCHANGED config PROVE StopWorks'
    BY <1>22 DEF StopShuts, config, CInv, life, StopWorks
<1>23. ASSUME NEW c \in Clients, StopTakesThread(c), UNCHANGED config PROVE StopWorks'
    BY <1>23, ConfigAssumption DEF StopTakesThread, config, CInv, ConfigAssumption, IInv,
           TypeOK, MutexTracked, RequestsOfARunningDaemon, CallsTracked, StopPcs,
           StopWorks, ThreadTracked
<1>24. ASSUME NEW c \in Clients, StopJoins(c), UNCHANGED config PROVE StopWorks'
    BY <1>24 DEF StopJoins, config, CInv, StopWorks
<1>25. ASSUME NEW c \in Clients, StopEnds(c), UNCHANGED config PROVE StopWorks'
    BY <1>25 DEF StopEnds, CInv, StopWorks
<1>26. CASE WorkerReads
    BY <1>26 DEF WorkerReads, ServerOpens, OpenFails, WorkerGoes, CInv, StopWorks
<1>27. CASE RegistrationChanges
    BY <1>27 DEF RegistrationChanges, CInv, vars, StopWorks
<1>28. CASE WorkerEnters /\ UNCHANGED config
    BY <1>28 DEF WorkerEnters, WorkerGoes, config, CInv, StopWorks
<1>29. CASE WorkerAnnounces /\ UNCHANGED config
    BY <1>29 DEF WorkerAnnounces, WorkerGoes, config, CInv, StopWorks
<1>30. CASE WorkerStops /\ UNCHANGED config
    BY <1>30 DEF WorkerStops, WorkerGoes, config, CInv, StopWorks
<1>31. CASE ServerCloses /\ UNCHANGED config
    BY <1>31 DEF ServerCloses, WorkerGoes, config, CInv, StopWorks
<1>32. CASE WorkerReportsFailure /\ UNCHANGED config
    BY <1>32 DEF WorkerReportsFailure, config, CInv, StopWorks
<1>33. CASE WorkerEnds /\ UNCHANGED config
    BY <1>33 DEF WorkerEnds, WorkerGoes, config, CInv, StopWorks
<1>34. CASE ServerInit /\ UNCHANGED config
    BY <1>34 DEF ServerInit, config, CInv, life, StopWorks
<1>35. CASE ServerShuts /\ UNCHANGED config
    BY <1>35 DEF ServerShuts, config, CInv, life, StopWorks
<1>36. CASE UNCHANGED cvars
    BY <1>36 DEF cvars, vars, config, life, CInv, StopWorks
<1>37. CASE Stop
    BY <1>37 DEF Stop, Go, CInv, vars, life, StopWorks
<1> QED
        BY <1>1, <1>2, <1>3, <1>4, <1>5, <1>6, <1>7, <1>8, <1>9, <1>10, <1>11, <1>12,
        <1>13, <1>14, <1>15, <1>16, <1>17, <1>18, <1>19, <1>20, <1>21, <1>22, <1>23,
        <1>24, <1>25, <1>26, <1>27, <1>28, <1>29, <1>30, <1>31, <1>32, <1>33, <1>34,
        <1>35, <1>36, <1>37
    DEF ConfigNext, Serve, Run, CallGoesOn, Proceed, WorkerGoesOn, ServerGoesOn, Server

\* Every step keeps StartWorks.
LEMMA StartWorksPreserved ==
    ASSUME CInv, [ConfigNext]_cvars
    PROVE  StartWorks'
PROOF
<1>1. ASSUME NEW r \in Requests, Receive(r) PROVE StartWorks'
    BY <1>1 DEF Receive, Go, CInv, vars, life, StartWorks
<1>2. ASSUME NEW r \in Requests, Lock(r) PROVE StartWorks'
    BY <1>2 DEF Lock, Go, CInv, vars, life, StartWorks
<1>3. ASSUME NEW r \in Requests, Read(r) PROVE StartWorks'
    BY <1>3 DEF Read, Answer, CInv, vars, life, StartWorks
<1>4. ASSUME NEW r \in Requests, Prepare(r) PROVE StartWorks'
    BY <1>4 DEF Prepare, Answer, Go, CInv, ConfigTypeOK, vars, life, StartWorks
<1>5. ASSUME NEW r \in Requests, Truncate(r) PROVE StartWorks'
    BY <1>5 DEF Truncate, Go, CInv, vars, life, StartWorks
<1>6. ASSUME NEW r \in Requests, OpenRefused(r) PROVE StartWorks'
    BY <1>6 DEF OpenRefused, Answer, CInv, vars, life, StartWorks
<1>7. ASSUME NEW r \in Requests, Write(r) PROVE StartWorks'
    BY <1>7 DEF Write, Go, CInv, vars, life, StartWorks
<1>8. ASSUME NEW r \in Requests, WriteThrows(r) PROVE StartWorks'
    BY <1>8 DEF WriteThrows, Answer, CInv, vars, life, StartWorks
<1>9. ASSUME NEW r \in Requests, WriteLost(r) PROVE StartWorks'
    BY <1>9 DEF WriteLost, Go, CInv, vars, life, StartWorks
<1>10. ASSUME NEW r \in Requests, RestartStops(r) PROVE StartWorks'
    BY <1>10, ConfigAssumption DEF RestartStops, Go, StopSignals, CInv, ConfigAssumption,
           MutexTracked, RequestsOfARunningDaemon, StartWorks
<1>11. ASSUME NEW r \in Requests, ClearStatus(r) PROVE StartWorks'
    BY <1>11 DEF ClearStatus, Go, CInv, vars, life, StartWorks
<1>12. ASSUME NEW r \in Requests, RestartStarts(r) PROVE StartWorks'
    BY <1>12, ConfigAssumption DEF RestartStarts, Go, Start, StartRefused, StartSpawns,
           StartAnswers, CInv, ConfigAssumption, IInv, TypeOK, life, MutexTracked,
           RequestsOfARunningDaemon, StopWorks, StartWorks, SignalTracked
<1>13. ASSUME NEW r \in Requests, RestartSucceeds(r) PROVE StartWorks'
    BY <1>13 DEF RestartSucceeds, Answer, CInv, vars, life, StartWorks
<1>14. ASSUME NEW r \in Requests, RestartFails(r) PROVE StartWorks'
    BY <1>14 DEF RestartFails, Answer, CInv, ConfigTypeOK, vars, life, StartWorks
<1>15. CASE Boot
    BY <1>15, ConfigAssumption DEF Boot, Go, Start, StartRefused, StartSpawns,
           StartAnswers, CInv, ConfigAssumption, IInv, TypeOK, life,
           RequestsOfARunningDaemon, StopWorks, StartWorks, SignalTracked
<1>16. CASE Booted
    BY <1>16 DEF Booted, Go, CInv, vars, life, StartWorks
<1>17. CASE Close
    BY <1>17 DEF Close, Go, CInv, vars, life, StartWorks
<1>18. CASE Leave
    BY <1>18, ConfigAssumption DEF Leave, Go, StopSignals, CInv, ConfigAssumption,
           StartWorks
<1>19. CASE Left
    BY <1>19 DEF Left, Go, CInv, vars, life, StartWorks
<1>20. CASE Crash
    BY <1>20 DEF Crash, ProcessIsNew, StartWorks
<1>21. ASSUME NEW c \in Clients, StartReturns(c), UNCHANGED config PROVE StartWorks'
    BY <1>21, ConfigAssumption, LifecycleAssumption DEF StartReturns, StartAnswers,
           config, CInv, ConfigAssumption, LifecycleAssumption, ConfigTypeOK, IInv,
           TypeOK, life, node, MutexTracked, RequestsOfARunningDaemon, CallsTracked,
           StartWorks, StatesTracked
<1>22. ASSUME NEW c \in Clients, StopShuts(c), UNCHANGED config PROVE StartWorks'
    BY <1>22 DEF StopShuts, config, CInv, life, StartWorks
<1>23. ASSUME NEW c \in Clients, StopTakesThread(c), UNCHANGED config PROVE StartWorks'
    BY <1>23 DEF StopTakesThread, config, CInv, IInv, TypeOK, life, StartWorks
<1>24. ASSUME NEW c \in Clients, StopJoins(c), UNCHANGED config PROVE StartWorks'
    BY <1>24, ConfigAssumption DEF StopJoins, config, CInv, ConfigAssumption,
           MutexTracked, RequestsOfARunningDaemon, CallsTracked, StopPcs, StartWorks
<1>25. ASSUME NEW c \in Clients, StopEnds(c), UNCHANGED config PROVE StartWorks'
    BY <1>25, ConfigAssumption DEF StopEnds, config, CInv, ConfigAssumption, MutexTracked,
           RequestsOfARunningDaemon, CallsTracked, StopPcs, StartWorks
<1>26. CASE WorkerReads
    BY <1>26 DEF WorkerReads, ServerOpens, OpenFails, WorkerGoes, CInv, life, StartWorks
<1>27. CASE RegistrationChanges
    BY <1>27 DEF RegistrationChanges, CInv, vars, life, StartWorks
<1>28. CASE WorkerEnters /\ UNCHANGED config
    BY <1>28 DEF WorkerEnters, WorkerGoes, config, CInv, life, StartWorks
<1>29. CASE WorkerAnnounces /\ UNCHANGED config
    BY <1>29 DEF WorkerAnnounces, WorkerGoes, config, CInv, StartWorks
<1>30. CASE WorkerStops /\ UNCHANGED config
    BY <1>30 DEF WorkerStops, WorkerGoes, config, CInv, life, StartWorks
<1>31. CASE ServerCloses /\ UNCHANGED config
    BY <1>31 DEF ServerCloses, WorkerGoes, config, CInv, life, StartWorks
<1>32. CASE WorkerReportsFailure /\ UNCHANGED config
    BY <1>32 DEF WorkerReportsFailure, config, CInv, StartWorks
<1>33. CASE WorkerEnds /\ UNCHANGED config
    BY <1>33 DEF WorkerEnds, WorkerGoes, config, CInv, IInv, StartWorks, RunningServes
<1>34. CASE ServerInit /\ UNCHANGED config
    BY <1>34 DEF ServerInit, config, CInv, life, StartWorks
<1>35. CASE ServerShuts /\ UNCHANGED config
    BY <1>35 DEF ServerShuts, config, CInv, life, StartWorks
<1>36. CASE UNCHANGED cvars
    BY <1>36 DEF cvars, vars, config, life, CInv, StartWorks
<1>37. CASE Stop
    BY <1>37 DEF Stop, Go, CInv, vars, life, StartWorks
<1> QED
        BY <1>1, <1>2, <1>3, <1>4, <1>5, <1>6, <1>7, <1>8, <1>9, <1>10, <1>11, <1>12,
        <1>13, <1>14, <1>15, <1>16, <1>17, <1>18, <1>19, <1>20, <1>21, <1>22, <1>23,
        <1>24, <1>25, <1>26, <1>27, <1>28, <1>29, <1>30, <1>31, <1>32, <1>33, <1>34,
        <1>35, <1>36, <1>37
    DEF ConfigNext, Serve, Run, CallGoesOn, Proceed, WorkerGoesOn, ServerGoesOn, Server

\* Every step keeps StatesTracked.
LEMMA StatesTrackedPreserved ==
    ASSUME CInv, [ConfigNext]_cvars
    PROVE  StatesTracked'
PROOF
<1>1. ASSUME NEW r \in Requests, Receive(r) PROVE StatesTracked'
    BY <1>1 DEF Receive, CInv, vars, life, StatesTracked
<1>2. ASSUME NEW r \in Requests, Lock(r) PROVE StatesTracked'
    BY <1>2 DEF Lock, CInv, vars, life, StatesTracked
<1>3. ASSUME NEW r \in Requests, Read(r) PROVE StatesTracked'
    BY <1>3 DEF Read, CInv, vars, life, StatesTracked
<1>4. ASSUME NEW r \in Requests, Prepare(r) PROVE StatesTracked'
    BY <1>4 DEF Prepare, CInv, vars, life, StatesTracked
<1>5. ASSUME NEW r \in Requests, Truncate(r) PROVE StatesTracked'
    BY <1>5 DEF Truncate, CInv, vars, life, StatesTracked
<1>6. ASSUME NEW r \in Requests, OpenRefused(r) PROVE StatesTracked'
    BY <1>6 DEF OpenRefused, CInv, vars, life, StatesTracked
<1>7. ASSUME NEW r \in Requests, Write(r) PROVE StatesTracked'
    BY <1>7 DEF Write, CInv, vars, life, StatesTracked
<1>8. ASSUME NEW r \in Requests, WriteThrows(r) PROVE StatesTracked'
    BY <1>8 DEF WriteThrows, CInv, vars, life, StatesTracked
<1>9. ASSUME NEW r \in Requests, WriteLost(r) PROVE StatesTracked'
    BY <1>9 DEF WriteLost, CInv, vars, life, StatesTracked
<1>10. ASSUME NEW r \in Requests, RestartStops(r) PROVE StatesTracked'
    BY <1>10, ConfigAssumption DEF RestartStops, StopSignals, CInv, ConfigAssumption,
           IInv, TypeOK, StopPcs, StatesTracked
<1>11. ASSUME NEW r \in Requests, ClearStatus(r) PROVE StatesTracked'
    BY <1>11 DEF ClearStatus, CInv, vars, life, StatesTracked
<1>12. ASSUME NEW r \in Requests, RestartStarts(r) PROVE StatesTracked'
    BY <1>12, ConfigAssumption DEF RestartStarts, Go, Start, StartRefused, StartSpawns,
           MayStart, CInv, ConfigAssumption, IInv, TypeOK, StopWorks, StatesTracked,
           ThreadTracked
<1>13. ASSUME NEW r \in Requests, RestartSucceeds(r) PROVE StatesTracked'
    BY <1>13 DEF RestartSucceeds, CInv, vars, life, StatesTracked
<1>14. ASSUME NEW r \in Requests, RestartFails(r) PROVE StatesTracked'
    BY <1>14 DEF RestartFails, CInv, vars, life, StatesTracked
<1>15. CASE Boot
    BY <1>15, ConfigAssumption DEF Boot, Go, Start, StartRefused, StartSpawns, MayStart,
           CInv, ConfigAssumption, IInv, TypeOK, StopWorks, StatesTracked, ThreadTracked
<1>16. CASE Booted
    BY <1>16 DEF Booted, CInv, vars, life, StatesTracked
<1>17. CASE Close
    BY <1>17 DEF Close, CInv, vars, life, StatesTracked
<1>18. CASE Leave
    BY <1>18, ConfigAssumption DEF Leave, StopSignals, CInv, ConfigAssumption, IInv,
           TypeOK, StopPcs, StatesTracked
<1>19. CASE Left
    BY <1>19 DEF Left, CInv, vars, life, StatesTracked
<1>20. CASE Crash
    BY <1>20 DEF Crash, ProcessIsNew, Down, StatesTracked
<1>21. ASSUME NEW c \in Clients, StartReturns(c), UNCHANGED config PROVE StatesTracked'
    BY <1>21 DEF StartReturns, StartAnswers, CInv, life, StopPcs, StatesTracked
<1>22. ASSUME NEW c \in Clients, StopShuts(c), UNCHANGED config PROVE StatesTracked'
    BY <1>22 DEF StopShuts, CInv, life, StopPcs, StatesTracked
<1>23. ASSUME NEW c \in Clients, StopTakesThread(c), UNCHANGED config PROVE StatesTracked'
    BY <1>23 DEF StopTakesThread, CInv, IInv, TypeOK, life, StopPcs, StatesTracked
<1>24. ASSUME NEW c \in Clients, StopJoins(c), UNCHANGED config PROVE StatesTracked'
    BY <1>24 DEF StopJoins, CInv, life, StopPcs, Down, StatesTracked
<1>25. ASSUME NEW c \in Clients, StopEnds(c), UNCHANGED config PROVE StatesTracked'
    BY <1>25 DEF StopEnds, CInv, StopWorks, Down, StatesTracked
<1>26. CASE WorkerReads
    BY <1>26 DEF WorkerReads, ServerOpens, OpenFails, WorkerGoes, CInv, life, Down,
           StatesTracked
<1>27. CASE RegistrationChanges
    BY <1>27 DEF RegistrationChanges, CInv, vars, life, StatesTracked
<1>28. CASE WorkerEnters /\ UNCHANGED config
    BY <1>28 DEF WorkerEnters, WorkerGoes, CInv, life, Down, StatesTracked
<1>29. CASE WorkerAnnounces /\ UNCHANGED config
    BY <1>29 DEF WorkerAnnounces, WorkerGoes, CInv, Down, StatesTracked
<1>30. CASE WorkerStops /\ UNCHANGED config
    BY <1>30 DEF WorkerStops, WorkerGoes, CInv, IInv, life, StatesTracked, SignalTracked
<1>31. CASE ServerCloses /\ UNCHANGED config
    BY <1>31 DEF ServerCloses, WorkerGoes, CInv, life, Down, StatesTracked
<1>32. CASE WorkerReportsFailure /\ UNCHANGED config
    BY <1>32 DEF WorkerReportsFailure, Down, StatesTracked
<1>33. CASE WorkerEnds /\ UNCHANGED config
    BY <1>33 DEF WorkerEnds, WorkerGoes, Down, StatesTracked
<1>34. CASE ServerInit /\ UNCHANGED config
    BY <1>34 DEF ServerInit, CInv, life, StatesTracked
<1>35. CASE ServerShuts /\ UNCHANGED config
    BY <1>35 DEF ServerShuts, CInv, life, StatesTracked
<1>36. CASE UNCHANGED cvars
    BY <1>36 DEF cvars, vars, life, CInv, StatesTracked
<1>37. CASE Stop
    BY <1>37 DEF Stop, CInv, vars, life, StatesTracked
<1> QED
        BY <1>1, <1>2, <1>3, <1>4, <1>5, <1>6, <1>7, <1>8, <1>9, <1>10, <1>11, <1>12,
        <1>13, <1>14, <1>15, <1>16, <1>17, <1>18, <1>19, <1>20, <1>21, <1>22, <1>23,
        <1>24, <1>25, <1>26, <1>27, <1>28, <1>29, <1>30, <1>31, <1>32, <1>33, <1>34,
        <1>35, <1>36, <1>37
    DEF ConfigNext, Serve, Run, CallGoesOn, Proceed, WorkerGoesOn, ServerGoesOn, Server

\* Every step keeps ReportTracked.
LEMMA ReportTrackedPreserved ==
    ASSUME CInv, [ConfigNext]_cvars
    PROVE  ReportTracked'
PROOF
<1>1. ASSUME NEW r \in Requests, Receive(r) PROVE ReportTracked'
    BY <1>1 DEF Receive, Go, CInv, vars, life, ReportTracked
<1>2. ASSUME NEW r \in Requests, Lock(r) PROVE ReportTracked'
    BY <1>2 DEF Lock, Go, CInv, vars, life, ReportTracked
<1>3. ASSUME NEW r \in Requests, Read(r) PROVE ReportTracked'
    BY <1>3 DEF Read, Answer, CInv, vars, life, ReportTracked
<1>4. ASSUME NEW r \in Requests, Prepare(r) PROVE ReportTracked'
    BY <1>4 DEF Prepare, CInv, vars, life, MutexTracked, RequestsOfARunningDaemon,
           ReportTracked
<1>5. ASSUME NEW r \in Requests, Truncate(r) PROVE ReportTracked'
    BY <1>5 DEF Truncate, Go, CInv, vars, life, ReportTracked
<1>6. ASSUME NEW r \in Requests, OpenRefused(r) PROVE ReportTracked'
    BY <1>6 DEF OpenRefused, Answer, CInv, vars, life, ReportTracked
<1>7. ASSUME NEW r \in Requests, Write(r) PROVE ReportTracked'
    BY <1>7 DEF Write, Go, CInv, vars, life, ReportTracked
<1>8. ASSUME NEW r \in Requests, WriteThrows(r) PROVE ReportTracked'
    BY <1>8 DEF WriteThrows, Answer, CInv, vars, life, ReportTracked
<1>9. ASSUME NEW r \in Requests, WriteLost(r) PROVE ReportTracked'
    BY <1>9 DEF WriteLost, Go, CInv, vars, life, ReportTracked
<1>10. ASSUME NEW r \in Requests, RestartStops(r) PROVE ReportTracked'
    BY <1>10, ConfigAssumption DEF RestartStops, Go, CInv, ConfigAssumption, ConfigTypeOK,
           ReportTracked
<1>11. ASSUME NEW r \in Requests, ClearStatus(r) PROVE ReportTracked'
    BY <1>11 DEF ClearStatus, Go, CInv, vars, life, StopWorks, ReportTracked
<1>12. ASSUME NEW r \in Requests, RestartStarts(r) PROVE ReportTracked'
    BY <1>12, ConfigAssumption DEF RestartStarts, Go, CInv, ConfigAssumption,
           ConfigTypeOK, StopWorks, ReportTracked
<1>13. ASSUME NEW r \in Requests, RestartSucceeds(r) PROVE ReportTracked'
    BY <1>13, ConfigAssumption DEF RestartSucceeds, CInv, ConfigAssumption, vars, life,
           StartWorks, ReportTracked
<1>14. ASSUME NEW r \in Requests, RestartFails(r) PROVE ReportTracked'
    BY <1>14 DEF RestartFails, Answer, CInv, ConfigTypeOK, vars, life, StartWorks,
           ReportTracked
<1>15. CASE Boot
    BY <1>15 DEF Boot, Go, CInv, StopWorks, ReportTracked
<1>16. CASE Booted
    BY <1>16, ConfigAssumption DEF Booted, Go, CInv, ConfigAssumption, vars, life,
           StartWorks, ReportTracked
<1>17. CASE Close
    BY <1>17 DEF Close, Go, CInv, vars, life, ReportTracked
<1>18. CASE Leave
    BY <1>18, ConfigAssumption DEF Leave, Go, CInv, ConfigAssumption, ConfigTypeOK,
           ReportTracked
<1>19. CASE Left
    BY <1>19 DEF Left, Go, ReportTracked
<1>20. CASE Crash
    BY <1>20 DEF Crash, ProcessIsNew, ReportTracked
<1>21. ASSUME NEW c \in Clients, StartReturns(c), UNCHANGED config PROVE ReportTracked'
    BY <1>21 DEF StartReturns, config, CInv, life, ReportTracked
<1>22. ASSUME NEW c \in Clients, StopShuts(c), UNCHANGED config PROVE ReportTracked'
    BY <1>22 DEF StopShuts, config, CInv, life, ReportTracked
<1>23. ASSUME NEW c \in Clients, StopTakesThread(c), UNCHANGED config PROVE ReportTracked'
    BY <1>23 DEF StopTakesThread, config, CInv, life, ReportTracked
<1>24. ASSUME NEW c \in Clients, StopJoins(c), UNCHANGED config PROVE ReportTracked'
    BY <1>24 DEF StopJoins, config, CInv, life, ReportTracked
<1>25. ASSUME NEW c \in Clients, StopEnds(c), UNCHANGED config PROVE ReportTracked'
    BY <1>25 DEF StopEnds, config, CInv, IInv, StopWorks, RunningServes, ReportTracked
<1>26. CASE WorkerReads
    BY <1>26 DEF WorkerReads, ServerOpens, OpenFails, CInv, life, ReportTracked
<1>27. CASE RegistrationChanges
    BY <1>27 DEF RegistrationChanges, CInv, vars, life, ReportTracked
<1>28. CASE WorkerEnters /\ UNCHANGED config
    BY <1>28 DEF WorkerEnters, config, CInv, life, ReportTracked
<1>29. CASE WorkerAnnounces /\ UNCHANGED config
    BY <1>29 DEF WorkerAnnounces, config, CInv, ReportTracked
<1>30. CASE WorkerStops /\ UNCHANGED config
    BY <1>30 DEF WorkerStops, config, CInv, life, ReportTracked
<1>31. CASE ServerCloses /\ UNCHANGED config
    BY <1>31 DEF ServerCloses, config, CInv, life, ReportTracked
<1>32. CASE WorkerReportsFailure /\ UNCHANGED config
    BY <1>32 DEF WorkerReportsFailure, config, CInv, ReportTracked
<1>33. CASE WorkerEnds /\ UNCHANGED config
    BY <1>33 DEF WorkerEnds, WorkerGoes, config, CInv, IInv, RunningServes, ReportTracked
<1>34. CASE ServerInit /\ UNCHANGED config
    BY <1>34 DEF ServerInit, config, CInv, life, ReportTracked
<1>35. CASE ServerShuts /\ UNCHANGED config
    BY <1>35 DEF ServerShuts, config, CInv, life, ReportTracked
<1>36. CASE UNCHANGED cvars
    BY <1>36 DEF cvars, vars, config, life, CInv, ReportTracked
<1>37. CASE Stop
    BY <1>37 DEF Stop, Go, CInv, vars, life, ReportTracked
<1> QED
        BY <1>1, <1>2, <1>3, <1>4, <1>5, <1>6, <1>7, <1>8, <1>9, <1>10, <1>11, <1>12,
        <1>13, <1>14, <1>15, <1>16, <1>17, <1>18, <1>19, <1>20, <1>21, <1>22, <1>23,
        <1>24, <1>25, <1>26, <1>27, <1>28, <1>29, <1>30, <1>31, <1>32, <1>33, <1>34,
        <1>35, <1>36, <1>37
    DEF ConfigNext, Serve, Run, CallGoesOn, Proceed, WorkerGoesOn, ServerGoesOn, Server

\* Every step keeps SettingsTracked.
LEMMA SettingsTrackedPreserved ==
    ASSUME CInv, [ConfigNext]_cvars
    PROVE  SettingsTracked'
PROOF
<1>1. ASSUME NEW r \in Requests, Receive(r) PROVE SettingsTracked'
    BY <1>1 DEF Receive, Go, CInv, vars, SettingsTracked
<1>2. ASSUME NEW r \in Requests, Lock(r) PROVE SettingsTracked'
    BY <1>2 DEF Lock, Go, CInv, vars, SettingsTracked
<1>3. ASSUME NEW r \in Requests, Read(r) PROVE SettingsTracked'
    BY <1>3 DEF Read, Answer, CInv, vars, SettingsTracked
<1>4. ASSUME NEW r \in Requests, Prepare(r) PROVE SettingsTracked'
    BY <1>4, ConfigAssumption DEF Prepare, Answer, Go, CInv, ConfigAssumption,
           ConfigTypeOK, vars, SettingsTracked
<1>5. ASSUME NEW r \in Requests, Truncate(r) PROVE SettingsTracked'
    BY <1>5, ConfigAssumption DEF Truncate, Go, CInv, ConfigAssumption, ConfigTypeOK,
           SettingsTracked
<1>6. ASSUME NEW r \in Requests, OpenRefused(r) PROVE SettingsTracked'
    BY <1>6 DEF OpenRefused, Answer, CInv, IInv, TypeOK, vars, ThreadTracked,
           SettingsTracked
<1>7. ASSUME NEW r \in Requests, Write(r) PROVE SettingsTracked'
    BY <1>7 DEF Write, Go, SettingsTracked
<1>8. ASSUME NEW r \in Requests, WriteThrows(r) PROVE SettingsTracked'
    BY <1>8 DEF WriteThrows, Answer, CInv, MutexTracked, SettingsTracked
<1>9. ASSUME NEW r \in Requests, WriteLost(r) PROVE SettingsTracked'
    BY <1>9 DEF WriteLost, Go, SettingsTracked
<1>10. ASSUME NEW r \in Requests, RestartStops(r) PROVE SettingsTracked'
    BY <1>10 DEF RestartStops, Go, SettingsTracked
<1>11. ASSUME NEW r \in Requests, ClearStatus(r) PROVE SettingsTracked'
    BY <1>11 DEF ClearStatus, Go, CInv, vars, StopWorks, SettingsTracked
<1>12. ASSUME NEW r \in Requests, RestartStarts(r) PROVE SettingsTracked'
    BY <1>12 DEF RestartStarts, Go, Start, StartRefused, StartSpawns, CInv, StopWorks,
           SettingsTracked
<1>13. ASSUME NEW r \in Requests, RestartSucceeds(r) PROVE SettingsTracked'
    BY <1>13 DEF RestartSucceeds, Answer, CInv, vars, SettingsTracked
<1>14. ASSUME NEW r \in Requests, RestartFails(r) PROVE SettingsTracked'
    BY <1>14 DEF RestartFails, CInv, vars, MutexTracked, SettingsTracked
<1>15. CASE Boot
    BY <1>15 DEF Boot, Go, Start, StartRefused, StartSpawns, StartAnswers, CInv,
           SettingsTracked
<1>16. CASE Booted
    BY <1>16 DEF Booted, Go, CInv, vars, SettingsTracked
<1>17. CASE Close
    BY <1>17 DEF Close, Go, CInv, vars, SettingsTracked
<1>18. CASE Leave
    BY <1>18 DEF Leave, Go, StopSignals, CInv, SettingsTracked
<1>19. CASE Left
    BY <1>19 DEF Left, Go, CInv, vars, SettingsTracked
<1>20. CASE Crash
    BY <1>20 DEF Crash, ProcessIsNew, SettingsTracked
<1>21. ASSUME NEW c \in Clients, StartReturns(c), UNCHANGED config PROVE SettingsTracked'
    BY <1>21 DEF StartReturns, config, CInv, SettingsTracked
<1>22. ASSUME NEW c \in Clients, StopShuts(c), UNCHANGED config PROVE SettingsTracked'
    BY <1>22 DEF StopShuts, config, CInv, SettingsTracked
<1>23. ASSUME NEW c \in Clients, StopTakesThread(c), UNCHANGED config PROVE SettingsTracked'
    BY <1>23 DEF StopTakesThread, config, CInv, SettingsTracked
<1>24. ASSUME NEW c \in Clients, StopJoins(c), UNCHANGED config PROVE SettingsTracked'
    BY <1>24 DEF StopJoins, SettingsTracked
<1>25. ASSUME NEW c \in Clients, StopEnds(c), UNCHANGED config PROVE SettingsTracked'
    BY <1>25 DEF StopEnds, config, CInv, SettingsTracked
<1>26. CASE WorkerReads
    BY <1>26 DEF WorkerReads, OpenFails, WorkerGoes, SettingsTracked
<1>27. CASE RegistrationChanges
    BY <1>27 DEF RegistrationChanges, CInv, vars, SettingsTracked
<1>28. CASE WorkerEnters /\ UNCHANGED config
    BY <1>28 DEF WorkerEnters, WorkerGoes, SettingsTracked
<1>29. CASE WorkerAnnounces /\ UNCHANGED config
    BY <1>29 DEF WorkerAnnounces, WorkerGoes, config, CInv, SettingsTracked
<1>30. CASE WorkerStops /\ UNCHANGED config
    BY <1>30 DEF WorkerStops, WorkerGoes, SettingsTracked
<1>31. CASE ServerCloses /\ UNCHANGED config
    BY <1>31 DEF ServerCloses, WorkerGoes, SettingsTracked
<1>32. CASE WorkerReportsFailure /\ UNCHANGED config
    BY <1>32 DEF WorkerReportsFailure, SettingsTracked
<1>33. CASE WorkerEnds /\ UNCHANGED config
    BY <1>33 DEF WorkerEnds, WorkerGoes, SettingsTracked
<1>34. CASE ServerInit /\ UNCHANGED config
    BY <1>34 DEF ServerInit, config, CInv, SettingsTracked
<1>35. CASE ServerShuts /\ UNCHANGED config
    BY <1>35 DEF ServerShuts, config, CInv, SettingsTracked
<1>36. CASE UNCHANGED cvars
    BY <1>36 DEF cvars, vars, config, CInv, SettingsTracked
<1>37. CASE Stop
    BY <1>37 DEF Stop, Go, CInv, vars, SettingsTracked
<1> QED
        BY <1>1, <1>2, <1>3, <1>4, <1>5, <1>6, <1>7, <1>8, <1>9, <1>10, <1>11, <1>12,
        <1>13, <1>14, <1>15, <1>16, <1>17, <1>18, <1>19, <1>20, <1>21, <1>22, <1>23,
        <1>24, <1>25, <1>26, <1>27, <1>28, <1>29, <1>30, <1>31, <1>32, <1>33, <1>34,
        <1>35, <1>36, <1>37
    DEF ConfigNext, Serve, Run, CallGoesOn, Proceed, WorkerGoesOn, ServerGoesOn, Server

\* Every step keeps UpdateTracked.
LEMMA UpdateTrackedPreserved ==
    ASSUME CInv, [ConfigNext]_cvars
    PROVE  UpdateTracked'
PROOF
<1>1. ASSUME NEW r \in Requests, Receive(r) PROVE UpdateTracked'
    BY <1>1 DEF Receive, Go, CInv, ConfigTypeOK, UpdateTracked, RequestRecords
<1>2. ASSUME NEW r \in Requests, Lock(r) PROVE UpdateTracked'
    BY <1>2, ConfigAssumption DEF Lock, Go, CInv, ConfigAssumption, ConfigTypeOK,
           UpdateTracked, FileIsWhatWasAccepted
<1>3. ASSUME NEW r \in Requests, Read(r) PROVE UpdateTracked'
    BY <1>3, ConfigAssumption, LifecycleAssumption DEF Read, Answer, CInv,
           ConfigAssumption, LifecycleAssumption, UpdateTracked
<1>4. ASSUME NEW r \in Requests, Prepare(r) PROVE UpdateTracked'
    <2> DEFINE document == IF request[r].kind = "put" THEN request[r].payload
                           ELSE MergeObjects(file, request[r].payload)
    <2>1. CASE Answer(r)
        BY <2>1, <1>4, ConfigAssumption, LifecycleAssumption DEF Prepare, Answer, CInv,
               ConfigAssumption, LifecycleAssumption, UpdateTracked
    <2>2. CASE /\ file # Torn
               /\ Go(r, "preparing", "opening")
               /\ request' = [request EXCEPT ![r].previous = file,
                                             ![r].next = ApplySelection(document)]
               /\ UNCHANGED config_mutex
        <3>1. document \in Objects
            BY <2>2, MergeIsObject DEF CInv, ConfigTypeOK, RequestRecords
        <3>2. ApplySelection(document) \in Objects /\ SelectionHolds(ApplySelection(document))
            BY <3>1, SelectionApplied
        <3> HIDE DEF document
        <3>3. file \in Objects /\ SelectionHolds(file) /\ (~spoiled => file = accepted)
            BY <2>2, <1>4 DEF Prepare, CInv, ConfigTypeOK, SelectedRegistryIsNamed,
                   UpdateTracked,
                MutexTracked
        <3>4. /\ request'[r].previous = file
              /\ request'[r].next = ApplySelection(document)
            BY <2>2 DEF CInv, ConfigTypeOK, RequestRecords
        <3>5. pc'[r] = "opening" /\ \A q \in Requests : config_mutex' = q => q = r
            BY <2>2, <1>4, ConfigAssumption DEF Prepare, Go, CInv, ConfigTypeOK,
                   ConfigAssumption,
                MutexTracked
        <3>6. UNCHANGED <<file, accepted, spoiled>>
            BY <1>4 DEF Prepare
        <3> QED
            BY <3>2, <3>3, <3>4, <3>5, <3>6 DEF UpdateTracked
    <2> QED
        BY <1>4, <2>1, <2>2 DEF Prepare
<1>5. ASSUME NEW r \in Requests, Truncate(r) PROVE UpdateTracked'
    BY <1>5, ConfigAssumption DEF Truncate, Go, CInv, ConfigAssumption, ConfigTypeOK,
           MutexTracked, UpdateTracked
<1>6. ASSUME NEW r \in Requests, OpenRefused(r) PROVE UpdateTracked'
    BY <1>6, ConfigAssumption, LifecycleAssumption DEF OpenRefused, Answer, CInv,
           ConfigAssumption, LifecycleAssumption, MutexTracked, UpdateTracked
<1>7. ASSUME NEW r \in Requests, Write(r) PROVE UpdateTracked'
    BY <1>7, ConfigAssumption DEF Write, Written, Go, CInv, ConfigAssumption,
           ConfigTypeOK, MutexTracked, UpdateTracked
<1>8. ASSUME NEW r \in Requests, WriteThrows(r) PROVE UpdateTracked'
    BY <1>8, ConfigAssumption, LifecycleAssumption DEF WriteThrows, Answer, CInv,
           ConfigAssumption, LifecycleAssumption, UpdateTracked
<1>9. ASSUME NEW r \in Requests, WriteLost(r) PROVE UpdateTracked'
    BY <1>9 DEF WriteLost, Go, CInv, ConfigTypeOK, UpdateTracked, RequestRecords
<1>10. ASSUME NEW r \in Requests, RestartStops(r) PROVE UpdateTracked'
    BY <1>10 DEF RestartStops, Go, CInv, UpdateTracked
<1>11. ASSUME NEW r \in Requests, ClearStatus(r) PROVE UpdateTracked'
    BY <1>11 DEF ClearStatus, Go, CInv, UpdateTracked
<1>12. ASSUME NEW r \in Requests, RestartStarts(r) PROVE UpdateTracked'
    BY <1>12 DEF RestartStarts, Go, CInv, UpdateTracked
<1>13. ASSUME NEW r \in Requests, RestartSucceeds(r) PROVE UpdateTracked'
    BY <1>13, ConfigAssumption, LifecycleAssumption DEF RestartSucceeds, Answer, CInv,
           ConfigAssumption, LifecycleAssumption, MutexTracked, UpdateTracked
<1>14. ASSUME NEW r \in Requests, RestartFails(r) PROVE UpdateTracked'
    BY <1>14, ConfigAssumption, LifecycleAssumption DEF RestartFails, Answer, CInv,
           ConfigAssumption, LifecycleAssumption, ConfigTypeOK, UpdateTracked,
           RequestRecords
<1>15. CASE Boot
    BY <1>15 DEF Boot, Go, CInv, UpdateTracked
<1>16. CASE Booted
    BY <1>16 DEF Booted, Go, CInv, UpdateTracked
<1>17. CASE Close
    BY <1>17 DEF Close, Go, CInv, UpdateTracked
<1>18. CASE Leave
    BY <1>18 DEF Leave, Go, CInv, UpdateTracked
<1>19. CASE Left
    BY <1>19 DEF Left, Go, CInv, UpdateTracked
<1>20. CASE Crash
    BY <1>20, ConfigAssumption, LifecycleAssumption DEF Crash, ProcessIsNew,
           ConfigAssumption, LifecycleAssumption, UpdateTracked
<1>21. ASSUME NEW c \in Clients, StartReturns(c), UNCHANGED config PROVE UpdateTracked'
    BY <1>21 DEF config, CInv, UpdateTracked
<1>22. ASSUME NEW c \in Clients, StopShuts(c), UNCHANGED config PROVE UpdateTracked'
    BY <1>22 DEF config, CInv, UpdateTracked
<1>23. ASSUME NEW c \in Clients, StopTakesThread(c), UNCHANGED config PROVE UpdateTracked'
    BY <1>23 DEF config, CInv, UpdateTracked
<1>24. ASSUME NEW c \in Clients, StopJoins(c), UNCHANGED config PROVE UpdateTracked'
    BY <1>24 DEF config, CInv, UpdateTracked
<1>25. ASSUME NEW c \in Clients, StopEnds(c), UNCHANGED config PROVE UpdateTracked'
    BY <1>25 DEF config, CInv, UpdateTracked
<1>26. CASE WorkerReads
    BY <1>26 DEF WorkerReads, CInv, UpdateTracked
<1>27. CASE RegistrationChanges
    BY <1>27 DEF RegistrationChanges, CInv, UpdateTracked
<1>28. CASE WorkerEnters /\ UNCHANGED config
    BY <1>28 DEF config, CInv, UpdateTracked
<1>29. CASE WorkerAnnounces /\ UNCHANGED config
    BY <1>29 DEF config, CInv, UpdateTracked
<1>30. CASE WorkerStops /\ UNCHANGED config
    BY <1>30 DEF config, CInv, UpdateTracked
<1>31. CASE ServerCloses /\ UNCHANGED config
    BY <1>31 DEF config, CInv, UpdateTracked
<1>32. CASE WorkerReportsFailure /\ UNCHANGED config
    BY <1>32 DEF config, CInv, UpdateTracked
<1>33. CASE WorkerEnds /\ UNCHANGED config
    BY <1>33 DEF config, CInv, UpdateTracked
<1>34. CASE ServerInit /\ UNCHANGED config
    BY <1>34 DEF config, CInv, UpdateTracked
<1>35. CASE ServerShuts /\ UNCHANGED config
    BY <1>35 DEF config, CInv, UpdateTracked
<1>36. CASE UNCHANGED cvars
    BY <1>36 DEF cvars, config, CInv, UpdateTracked
<1>37. CASE Stop
    BY <1>37 DEF Stop, Go, CInv, UpdateTracked
<1> QED
        BY <1>1, <1>2, <1>3, <1>4, <1>5, <1>6, <1>7, <1>8, <1>9, <1>10, <1>11, <1>12,
        <1>13, <1>14, <1>15, <1>16, <1>17, <1>18, <1>19, <1>20, <1>21, <1>22, <1>23,
        <1>24, <1>25, <1>26, <1>27, <1>28, <1>29, <1>30, <1>31, <1>32, <1>33, <1>34,
        <1>35, <1>36, <1>37
    DEF ConfigNext, Serve, Run, CallGoesOn, Proceed, WorkerGoesOn, ServerGoesOn, Server

\* Every step keeps FileIsWhatWasAccepted.
LEMMA FilePreserved ==
    ASSUME CInv, [ConfigNext]_cvars
    PROVE  FileIsWhatWasAccepted'
PROOF
<1>1. ASSUME NEW r \in Requests, Receive(r) PROVE FileIsWhatWasAccepted'
    BY <1>1 DEF Receive, CInv, FileIsWhatWasAccepted
<1>2. ASSUME NEW r \in Requests, Lock(r) PROVE FileIsWhatWasAccepted'
    BY <1>2 DEF Lock, CInv, FileIsWhatWasAccepted
<1>3. ASSUME NEW r \in Requests, Read(r) PROVE FileIsWhatWasAccepted'
    BY <1>3 DEF Read, Answer, CInv, UpdateTracked, FileIsWhatWasAccepted
<1>4. ASSUME NEW r \in Requests, Prepare(r) PROVE FileIsWhatWasAccepted'
    BY <1>4 DEF Prepare, Answer, CInv, UpdateTracked, FileIsWhatWasAccepted
<1>5. ASSUME NEW r \in Requests, Truncate(r) PROVE FileIsWhatWasAccepted'
    BY <1>5, ConfigAssumption, LifecycleAssumption DEF Truncate, Go, CInv,
           ConfigAssumption, LifecycleAssumption, MutexTracked, FileIsWhatWasAccepted
<1>6. ASSUME NEW r \in Requests, OpenRefused(r) PROVE FileIsWhatWasAccepted'
    BY <1>6 DEF OpenRefused, Answer, CInv, UpdateTracked, FileIsWhatWasAccepted
<1>7. ASSUME NEW r \in Requests, Write(r) PROVE FileIsWhatWasAccepted'
    BY <1>7, ConfigAssumption DEF Write, Go, CInv, ConfigAssumption, MutexTracked,
           UpdateTracked, FileIsWhatWasAccepted
<1>8. ASSUME NEW r \in Requests, WriteThrows(r) PROVE FileIsWhatWasAccepted'
    BY <1>8 DEF WriteThrows, FileIsWhatWasAccepted
<1>9. ASSUME NEW r \in Requests, WriteLost(r) PROVE FileIsWhatWasAccepted'
    BY <1>9 DEF WriteLost, CInv, FileIsWhatWasAccepted
<1>10. ASSUME NEW r \in Requests, RestartStops(r) PROVE FileIsWhatWasAccepted'
    BY <1>10 DEF RestartStops, CInv, FileIsWhatWasAccepted
<1>11. ASSUME NEW r \in Requests, ClearStatus(r) PROVE FileIsWhatWasAccepted'
    BY <1>11 DEF ClearStatus, CInv, FileIsWhatWasAccepted
<1>12. ASSUME NEW r \in Requests, RestartStarts(r) PROVE FileIsWhatWasAccepted'
    BY <1>12 DEF RestartStarts, CInv, FileIsWhatWasAccepted
<1>13. ASSUME NEW r \in Requests, RestartSucceeds(r) PROVE FileIsWhatWasAccepted'
    BY <1>13, ConfigAssumption DEF RestartSucceeds, CInv, ConfigAssumption, IInv,
           MutexTracked, StartWorks, RunningServes, UpdateTracked, SettingsTracked,
           FileIsWhatWasAccepted
<1>14. ASSUME NEW r \in Requests, RestartFails(r) PROVE FileIsWhatWasAccepted'
    BY <1>14 DEF RestartFails, Answer, CInv, UpdateTracked, FileIsWhatWasAccepted
<1>15. CASE Boot
    BY <1>15 DEF Boot, CInv, FileIsWhatWasAccepted
<1>16. CASE Booted
    BY <1>16 DEF Booted, CInv, FileIsWhatWasAccepted
<1>17. CASE Close
    BY <1>17 DEF Close, CInv, FileIsWhatWasAccepted
<1>18. CASE Leave
    BY <1>18 DEF Leave, CInv, FileIsWhatWasAccepted
<1>19. CASE Left
    BY <1>19 DEF Left, CInv, FileIsWhatWasAccepted
<1>20. CASE Crash
    BY <1>20 DEF Crash, FileIsWhatWasAccepted
<1>21. ASSUME NEW c \in Clients, StartReturns(c), UNCHANGED config PROVE FileIsWhatWasAccepted'
    BY <1>21 DEF config, CInv, FileIsWhatWasAccepted
<1>22. ASSUME NEW c \in Clients, StopShuts(c), UNCHANGED config PROVE FileIsWhatWasAccepted'
    BY <1>22 DEF config, CInv, FileIsWhatWasAccepted
<1>23. ASSUME NEW c \in Clients, StopTakesThread(c), UNCHANGED config PROVE FileIsWhatWasAccepted'
    BY <1>23 DEF config, CInv, FileIsWhatWasAccepted
<1>24. ASSUME NEW c \in Clients, StopJoins(c), UNCHANGED config PROVE FileIsWhatWasAccepted'
    BY <1>24 DEF config, CInv, FileIsWhatWasAccepted
<1>25. ASSUME NEW c \in Clients, StopEnds(c), UNCHANGED config PROVE FileIsWhatWasAccepted'
    BY <1>25 DEF config, CInv, FileIsWhatWasAccepted
<1>26. CASE WorkerReads
    BY <1>26 DEF WorkerReads, CInv, FileIsWhatWasAccepted
<1>27. CASE RegistrationChanges
    BY <1>27 DEF RegistrationChanges, CInv, FileIsWhatWasAccepted
<1>28. CASE WorkerEnters /\ UNCHANGED config
    BY <1>28 DEF config, CInv, FileIsWhatWasAccepted
<1>29. CASE WorkerAnnounces /\ UNCHANGED config
    BY <1>29 DEF config, CInv, FileIsWhatWasAccepted
<1>30. CASE WorkerStops /\ UNCHANGED config
    BY <1>30 DEF config, CInv, FileIsWhatWasAccepted
<1>31. CASE ServerCloses /\ UNCHANGED config
    BY <1>31 DEF config, CInv, FileIsWhatWasAccepted
<1>32. CASE WorkerReportsFailure /\ UNCHANGED config
    BY <1>32 DEF config, CInv, FileIsWhatWasAccepted
<1>33. CASE WorkerEnds /\ UNCHANGED config
    BY <1>33 DEF config, CInv, FileIsWhatWasAccepted
<1>34. CASE ServerInit /\ UNCHANGED config
    BY <1>34 DEF config, CInv, FileIsWhatWasAccepted
<1>35. CASE ServerShuts /\ UNCHANGED config
    BY <1>35 DEF config, CInv, FileIsWhatWasAccepted
<1>36. CASE UNCHANGED cvars
    BY <1>36 DEF cvars, config, CInv, FileIsWhatWasAccepted
<1>37. CASE Stop
    BY <1>37 DEF Stop, CInv, FileIsWhatWasAccepted
<1> QED
        BY <1>1, <1>2, <1>3, <1>4, <1>5, <1>6, <1>7, <1>8, <1>9, <1>10, <1>11, <1>12,
        <1>13, <1>14, <1>15, <1>16, <1>17, <1>18, <1>19, <1>20, <1>21, <1>22, <1>23,
        <1>24, <1>25, <1>26, <1>27, <1>28, <1>29, <1>30, <1>31, <1>32, <1>33, <1>34,
        <1>35, <1>36, <1>37
    DEF ConfigNext, Serve, Run, CallGoesOn, Proceed, WorkerGoesOn, ServerGoesOn, Server

\* Every step keeps SelectedRegistryIsNamed.
LEMMA SelectionPreserved ==
    ASSUME CInv, [ConfigNext]_cvars
    PROVE  SelectedRegistryIsNamed'
PROOF
<1>1. ASSUME NEW r \in Requests, Receive(r) PROVE SelectedRegistryIsNamed'
    BY <1>1 DEF Receive, CInv, SelectedRegistryIsNamed
<1>2. ASSUME NEW r \in Requests, Lock(r) PROVE SelectedRegistryIsNamed'
    BY <1>2 DEF Lock, CInv, SelectedRegistryIsNamed
<1>3. ASSUME NEW r \in Requests, Read(r) PROVE SelectedRegistryIsNamed'
    BY <1>3 DEF Read, CInv, SelectedRegistryIsNamed
<1>4. ASSUME NEW r \in Requests, Prepare(r) PROVE SelectedRegistryIsNamed'
    BY <1>4 DEF Prepare, CInv, SelectedRegistryIsNamed
<1>5. ASSUME NEW r \in Requests, Truncate(r) PROVE SelectedRegistryIsNamed'
    BY <1>5 DEF Truncate, SelectedRegistryIsNamed
<1>6. ASSUME NEW r \in Requests, OpenRefused(r) PROVE SelectedRegistryIsNamed'
    BY <1>6 DEF OpenRefused, CInv, SelectedRegistryIsNamed
<1>7. ASSUME NEW r \in Requests, Write(r) PROVE SelectedRegistryIsNamed'
    BY <1>7 DEF Write, Written, Go, CInv, MutexTracked, UpdateTracked,
           SelectedRegistryIsNamed
<1>8. ASSUME NEW r \in Requests, WriteThrows(r) PROVE SelectedRegistryIsNamed'
    BY <1>8 DEF WriteThrows, CInv, SelectedRegistryIsNamed
<1>9. ASSUME NEW r \in Requests, WriteLost(r) PROVE SelectedRegistryIsNamed'
    BY <1>9 DEF WriteLost, CInv, SelectedRegistryIsNamed
<1>10. ASSUME NEW r \in Requests, RestartStops(r) PROVE SelectedRegistryIsNamed'
    BY <1>10 DEF RestartStops, CInv, SelectedRegistryIsNamed
<1>11. ASSUME NEW r \in Requests, ClearStatus(r) PROVE SelectedRegistryIsNamed'
    BY <1>11 DEF ClearStatus, CInv, SelectedRegistryIsNamed
<1>12. ASSUME NEW r \in Requests, RestartStarts(r) PROVE SelectedRegistryIsNamed'
    BY <1>12 DEF RestartStarts, CInv, SelectedRegistryIsNamed
<1>13. ASSUME NEW r \in Requests, RestartSucceeds(r) PROVE SelectedRegistryIsNamed'
    BY <1>13 DEF RestartSucceeds, CInv, SelectedRegistryIsNamed
<1>14. ASSUME NEW r \in Requests, RestartFails(r) PROVE SelectedRegistryIsNamed'
    BY <1>14 DEF RestartFails, CInv, SelectedRegistryIsNamed
<1>15. CASE Boot
    BY <1>15 DEF Boot, CInv, SelectedRegistryIsNamed
<1>16. CASE Booted
    BY <1>16 DEF Booted, CInv, SelectedRegistryIsNamed
<1>17. CASE Close
    BY <1>17 DEF Close, CInv, SelectedRegistryIsNamed
<1>18. CASE Leave
    BY <1>18 DEF Leave, CInv, SelectedRegistryIsNamed
<1>19. CASE Left
    BY <1>19 DEF Left, CInv, SelectedRegistryIsNamed
<1>20. CASE Crash
    BY <1>20 DEF Crash, CInv, SelectedRegistryIsNamed
<1>21. ASSUME NEW c \in Clients, StartReturns(c), UNCHANGED config PROVE SelectedRegistryIsNamed'
    BY <1>21 DEF config, CInv, SelectedRegistryIsNamed
<1>22. ASSUME NEW c \in Clients, StopShuts(c), UNCHANGED config PROVE SelectedRegistryIsNamed'
    BY <1>22 DEF config, CInv, SelectedRegistryIsNamed
<1>23. ASSUME NEW c \in Clients, StopTakesThread(c), UNCHANGED config PROVE SelectedRegistryIsNamed'
    BY <1>23 DEF config, CInv, SelectedRegistryIsNamed
<1>24. ASSUME NEW c \in Clients, StopJoins(c), UNCHANGED config PROVE SelectedRegistryIsNamed'
    BY <1>24 DEF config, CInv, SelectedRegistryIsNamed
<1>25. ASSUME NEW c \in Clients, StopEnds(c), UNCHANGED config PROVE SelectedRegistryIsNamed'
    BY <1>25 DEF config, CInv, SelectedRegistryIsNamed
<1>26. CASE WorkerReads
    BY <1>26 DEF WorkerReads, CInv, SelectedRegistryIsNamed
<1>27. CASE RegistrationChanges
    BY <1>27 DEF RegistrationChanges, CInv, SelectedRegistryIsNamed
<1>28. CASE WorkerEnters /\ UNCHANGED config
    BY <1>28 DEF config, CInv, SelectedRegistryIsNamed
<1>29. CASE WorkerAnnounces /\ UNCHANGED config
    BY <1>29 DEF config, CInv, SelectedRegistryIsNamed
<1>30. CASE WorkerStops /\ UNCHANGED config
    BY <1>30 DEF config, CInv, SelectedRegistryIsNamed
<1>31. CASE ServerCloses /\ UNCHANGED config
    BY <1>31 DEF config, CInv, SelectedRegistryIsNamed
<1>32. CASE WorkerReportsFailure /\ UNCHANGED config
    BY <1>32 DEF config, CInv, SelectedRegistryIsNamed
<1>33. CASE WorkerEnds /\ UNCHANGED config
    BY <1>33 DEF config, CInv, SelectedRegistryIsNamed
<1>34. CASE ServerInit /\ UNCHANGED config
    BY <1>34 DEF config, CInv, SelectedRegistryIsNamed
<1>35. CASE ServerShuts /\ UNCHANGED config
    BY <1>35 DEF config, CInv, SelectedRegistryIsNamed
<1>36. CASE UNCHANGED cvars
    BY <1>36 DEF cvars, config, CInv, SelectedRegistryIsNamed
<1>37. CASE Stop
    BY <1>37 DEF Stop, CInv, SelectedRegistryIsNamed
<1> QED
        BY <1>1, <1>2, <1>3, <1>4, <1>5, <1>6, <1>7, <1>8, <1>9, <1>10, <1>11, <1>12,
        <1>13, <1>14, <1>15, <1>16, <1>17, <1>18, <1>19, <1>20, <1>21, <1>22, <1>23,
        <1>24, <1>25, <1>26, <1>27, <1>28, <1>29, <1>30, <1>31, <1>32, <1>33, <1>34,
        <1>35, <1>36, <1>37
    DEF ConfigNext, Serve, Run, CallGoesOn, Proceed, WorkerGoesOn, ServerGoesOn, Server

\* Every step keeps RegistrationTracked.
LEMMA RegistrationTrackedPreserved ==
    ASSUME CInv, [ConfigNext]_cvars
    PROVE  RegistrationTracked'
PROOF
<1>1. ASSUME NEW r \in Requests, Receive(r) PROVE RegistrationTracked'
    BY <1>1 DEF Receive, Go, CInv, vars, RegistrationTracked
<1>2. ASSUME NEW r \in Requests, Lock(r) PROVE RegistrationTracked'
    BY <1>2 DEF Lock, Go, CInv, vars, RegistrationTracked
<1>3. ASSUME NEW r \in Requests, Read(r) PROVE RegistrationTracked'
    BY <1>3 DEF Read, Answer, CInv, vars, RegistrationTracked
<1>4. ASSUME NEW r \in Requests, Prepare(r) PROVE RegistrationTracked'
    BY <1>4 DEF Prepare, CInv, vars, MutexTracked, RequestsOfARunningDaemon,
           RegistrationTracked
<1>5. ASSUME NEW r \in Requests, Truncate(r) PROVE RegistrationTracked'
    BY <1>5 DEF Truncate, Go, CInv, vars, RegistrationTracked
<1>6. ASSUME NEW r \in Requests, OpenRefused(r) PROVE RegistrationTracked'
    BY <1>6 DEF OpenRefused, Answer, CInv, vars, RegistrationTracked
<1>7. ASSUME NEW r \in Requests, Write(r) PROVE RegistrationTracked'
    BY <1>7 DEF Write, Go, CInv, vars, RegistrationTracked
<1>8. ASSUME NEW r \in Requests, WriteThrows(r) PROVE RegistrationTracked'
    BY <1>8 DEF WriteThrows, Answer, CInv, vars, RegistrationTracked
<1>9. ASSUME NEW r \in Requests, WriteLost(r) PROVE RegistrationTracked'
    BY <1>9 DEF WriteLost, Go, CInv, vars, RegistrationTracked
<1>10. ASSUME NEW r \in Requests, RestartStops(r) PROVE RegistrationTracked'
    BY <1>10 DEF RestartStops, Go, StopSignals, CInv, RegistrationTracked
<1>11. ASSUME NEW r \in Requests, ClearStatus(r) PROVE RegistrationTracked'
    BY <1>11 DEF ClearStatus, RegistrationTracked
<1>12. ASSUME NEW r \in Requests, RestartStarts(r) PROVE RegistrationTracked'
    BY <1>12 DEF RestartStarts, Go, Start, StartRefused, StartSpawns, StartAnswers,
           MayStart, CInv, Down, StatesTracked, RegistrationTracked
<1>13. ASSUME NEW r \in Requests, RestartSucceeds(r) PROVE RegistrationTracked'
    BY <1>13 DEF RestartSucceeds, Answer, CInv, vars, RegistrationTracked
<1>14. ASSUME NEW r \in Requests, RestartFails(r) PROVE RegistrationTracked'
    BY <1>14 DEF RestartFails, CInv, vars, MutexTracked, RequestsOfARunningDaemon,
           RegistrationTracked
<1>15. CASE Boot
    BY <1>15 DEF Boot, Go, Start, StartRefused, StartSpawns, StartAnswers, MayStart, CInv,
           Down, StatesTracked, RegistrationTracked
<1>16. CASE Booted
    BY <1>16 DEF Booted, Go, CInv, vars, RegistrationTracked
<1>17. CASE Close
    BY <1>17 DEF Close, Go, CInv, vars, RegistrationTracked
<1>18. CASE Leave
    BY <1>18 DEF Leave, Go, StopSignals, CInv, RegistrationTracked
<1>19. CASE Left
    BY <1>19 DEF Left, Go, RegistrationTracked
<1>20. CASE Crash
    BY <1>20 DEF Crash, ProcessIsNew, RegistrationTracked
<1>21. ASSUME NEW c \in Clients, StartReturns(c), UNCHANGED config PROVE RegistrationTracked'
    BY <1>21 DEF StartReturns, config, CInv, RegistrationTracked
<1>22. ASSUME NEW c \in Clients, StopShuts(c), UNCHANGED config PROVE RegistrationTracked'
    BY <1>22 DEF StopShuts, config, CInv, RegistrationTracked
<1>23. ASSUME NEW c \in Clients, StopTakesThread(c), UNCHANGED config PROVE RegistrationTracked'
    BY <1>23 DEF StopTakesThread, config, CInv, RegistrationTracked
<1>24. ASSUME NEW c \in Clients, StopJoins(c), UNCHANGED config PROVE RegistrationTracked'
    BY <1>24 DEF StopJoins, config, CInv, RegistrationTracked
<1>25. ASSUME NEW c \in Clients, StopEnds(c), UNCHANGED config PROVE RegistrationTracked'
    BY <1>25 DEF StopEnds, config, CInv, RegistrationTracked
<1>26. CASE WorkerReads
    BY <1>26 DEF WorkerReads, ServerOpens, OpenFails, WorkerGoes, CInv,
           RegistrationTracked
<1>27. CASE RegistrationChanges
    BY <1>27 DEF RegistrationChanges, vars, RegistrationTracked
<1>28. CASE WorkerEnters /\ UNCHANGED config
    BY <1>28 DEF WorkerEnters, WorkerGoes, config, CInv, RegistrationTracked
<1>29. CASE WorkerAnnounces /\ UNCHANGED config
    BY <1>29 DEF WorkerAnnounces, WorkerGoes, RegistrationTracked
<1>30. CASE WorkerStops /\ UNCHANGED config
    BY <1>30 DEF WorkerStops, WorkerGoes, RegistrationTracked
<1>31. CASE ServerCloses /\ UNCHANGED config
    BY <1>31, ConfigAssumption DEF ServerCloses, WorkerGoes, config, CInv,
           ConfigAssumption, CallsTracked, StatesTracked, RegistrationTracked
<1>32. CASE WorkerReportsFailure /\ UNCHANGED config
    BY <1>32 DEF WorkerReportsFailure, config, CInv, RegistrationTracked
<1>33. CASE WorkerEnds /\ UNCHANGED config
    BY <1>33 DEF WorkerEnds, WorkerGoes, config, CInv, RegistrationTracked
<1>34. CASE ServerInit /\ UNCHANGED config
    BY <1>34 DEF ServerInit, config, CInv, RegistrationTracked
<1>35. CASE ServerShuts /\ UNCHANGED config
    BY <1>35 DEF ServerShuts, config, CInv, RegistrationTracked
<1>36. CASE UNCHANGED cvars
    BY <1>36 DEF cvars, vars, config, CInv, RegistrationTracked
<1>37. CASE Stop
    BY <1>37 DEF Stop, Go, CInv, vars, RegistrationTracked
<1> QED
        BY <1>1, <1>2, <1>3, <1>4, <1>5, <1>6, <1>7, <1>8, <1>9, <1>10, <1>11, <1>12,
        <1>13, <1>14, <1>15, <1>16, <1>17, <1>18, <1>19, <1>20, <1>21, <1>22, <1>23,
        <1>24, <1>25, <1>26, <1>27, <1>28, <1>29, <1>30, <1>31, <1>32, <1>33, <1>34,
        <1>35, <1>36, <1>37
    DEF ConfigNext, Serve, Run, CallGoesOn, Proceed, WorkerGoesOn, ServerGoesOn, Server

\* Every step keeps DeviceTracked.
LEMMA DeviceTrackedPreserved ==
    ASSUME CInv, [ConfigNext]_cvars
    PROVE  DeviceTracked'
PROOF
<1>1. ASSUME NEW r \in Requests, Receive(r) PROVE DeviceTracked'
    BY <1>1 DEF Receive, Go, CInv, vars, life, node, DeviceTracked
<1>2. ASSUME NEW r \in Requests, Lock(r) PROVE DeviceTracked'
    BY <1>2 DEF Lock, Go, CInv, vars, life, node, DeviceTracked
<1>3. ASSUME NEW r \in Requests, Read(r) PROVE DeviceTracked'
    BY <1>3 DEF Read, Answer, CInv, vars, node, MutexTracked, RequestsOfARunningDaemon,
           DeviceTracked
<1>4. ASSUME NEW r \in Requests, Prepare(r) PROVE DeviceTracked'
    BY <1>4, ConfigAssumption DEF Prepare, Answer, Go, CInv, ConfigAssumption,
           ConfigTypeOK, vars, node, MutexTracked, RequestsOfARunningDaemon, DeviceTracked
<1>5. ASSUME NEW r \in Requests, Truncate(r) PROVE DeviceTracked'
    BY <1>5 DEF Truncate, Go, CInv, vars, node, MutexTracked, RequestsOfARunningDaemon,
           DeviceTracked
<1>6. ASSUME NEW r \in Requests, OpenRefused(r) PROVE DeviceTracked'
    BY <1>6 DEF OpenRefused, Answer, CInv, vars, node, MutexTracked,
           RequestsOfARunningDaemon, DeviceTracked
<1>7. ASSUME NEW r \in Requests, Write(r) PROVE DeviceTracked'
    BY <1>7 DEF Write, Go, CInv, vars, node, MutexTracked, RequestsOfARunningDaemon,
           DeviceTracked
<1>8. ASSUME NEW r \in Requests, WriteThrows(r) PROVE DeviceTracked'
    BY <1>8 DEF WriteThrows, Answer, CInv, vars, node, MutexTracked,
           RequestsOfARunningDaemon, DeviceTracked
<1>9. ASSUME NEW r \in Requests, WriteLost(r) PROVE DeviceTracked'
    BY <1>9 DEF WriteLost, Go, CInv, vars, node, MutexTracked, RequestsOfARunningDaemon,
           DeviceTracked
<1>10. ASSUME NEW r \in Requests, RestartStops(r) PROVE DeviceTracked'
    BY <1>10 DEF RestartStops, Go, StopSignals, CInv, ConfigTypeOK, IInv, TypeOK, node,
           StopPcs, DeviceTracked
<1>11. ASSUME NEW r \in Requests, ClearStatus(r) PROVE DeviceTracked'
    BY <1>11 DEF ClearStatus, Go, CInv, vars, life, node, DeviceTracked
<1>12. ASSUME NEW r \in Requests, RestartStarts(r) PROVE DeviceTracked'
    BY <1>12 DEF RestartStarts, Go, Start, StartRefused, StartSpawns, ResetModelState,
           CInv, life, node, StopWorks, DeviceTracked
<1>13. ASSUME NEW r \in Requests, RestartSucceeds(r) PROVE DeviceTracked'
    BY <1>13 DEF RestartSucceeds, Answer, CInv, vars, node, MutexTracked,
           RequestsOfARunningDaemon, DeviceTracked
<1>14. ASSUME NEW r \in Requests, RestartFails(r) PROVE DeviceTracked'
    BY <1>14, ConfigAssumption DEF RestartFails, Answer, CInv, ConfigAssumption,
           ConfigTypeOK, vars, MutexTracked, RequestsOfARunningDaemon, StartWorks, Down,
           StatesTracked, DeviceTracked
<1>15. CASE Boot
    BY <1>15 DEF Boot, Go, Start, StartRefused, StartSpawns, ResetModelState, CInv, life,
           node, StopWorks, DeviceTracked
<1>16. CASE Booted
    BY <1>16 DEF Booted, Go, CInv, vars, node, RequestsOfARunningDaemon, DeviceTracked
<1>17. CASE Close
    BY <1>17 DEF Close, Go, CInv, vars, life, node, DeviceTracked
<1>18. CASE Leave
    BY <1>18 DEF Leave, Go, StopSignals, CInv, node, StopPcs, DeviceTracked
<1>19. CASE Left
    BY <1>19 DEF Left, Go, CInv, vars, node, RequestsOfARunningDaemon, DeviceTracked
<1>20. CASE Crash
    BY <1>20 DEF Crash, ProcessIsNew, DeviceTracked
<1>21. ASSUME NEW c \in Clients, StartReturns(c), UNCHANGED config PROVE DeviceTracked'
    BY <1>21 DEF StartReturns, StartAnswers, config, CInv, node, CallsTracked, StopPcs,
           StopWorks, StartWorks, DeviceTracked
<1>22. ASSUME NEW c \in Clients, StopShuts(c), UNCHANGED config PROVE DeviceTracked'
    BY <1>22 DEF StopShuts, config, CInv, life, StopPcs, DeviceTracked
<1>23. ASSUME NEW c \in Clients, StopTakesThread(c), UNCHANGED config PROVE DeviceTracked'
    BY <1>23, ConfigAssumption DEF StopTakesThread, config, CInv, ConfigAssumption, IInv,
           TypeOK, node, MutexTracked, RequestsOfARunningDaemon, CallsTracked, StopPcs,
           DeviceTracked
<1>24. ASSUME NEW c \in Clients, StopJoins(c), UNCHANGED config PROVE DeviceTracked'
    BY <1>24 DEF StopJoins, config, CInv, StopWorks, DeviceTracked
<1>25. ASSUME NEW c \in Clients, StopEnds(c), UNCHANGED config PROVE DeviceTracked'
    BY <1>25 DEF StopEnds, CInv, StopWorks, DeviceTracked
<1>26. CASE WorkerReads
    BY <1>26 DEF WorkerReads, ServerOpens, OpenFails, WorkerGoes, CInv, node,
           DeviceTracked
<1>27. CASE RegistrationChanges
    BY <1>27 DEF RegistrationChanges, CInv, vars, node, StopWorks, DeviceTracked
<1>28. CASE WorkerEnters /\ UNCHANGED config
    BY <1>28 DEF WorkerEnters, WorkerGoes, CInv, DeviceTracked
<1>29. CASE WorkerAnnounces /\ UNCHANGED config
    BY <1>29 DEF WorkerAnnounces, WorkerGoes, config, CInv, node, DeviceTracked
<1>30. CASE WorkerStops /\ UNCHANGED config
    BY <1>30 DEF WorkerStops, WorkerGoes, config, CInv, IInv, StopWorks, StatesTracked,
           SignalTracked, DeviceTracked
<1>31. CASE ServerCloses /\ UNCHANGED config
    BY <1>31 DEF ServerCloses, WorkerGoes, config, CInv, StopWorks, DeviceTracked
<1>32. CASE WorkerReportsFailure /\ UNCHANGED config
    BY <1>32 DEF WorkerReportsFailure, config, CInv, StopWorks, DeviceTracked
<1>33. CASE WorkerEnds /\ UNCHANGED config
    BY <1>33 DEF WorkerEnds, WorkerGoes, config, CInv, StopWorks, DeviceTracked
<1>34. CASE ServerInit /\ UNCHANGED config
    BY <1>34 DEF ServerInit, config, CInv, StopWorks, DeviceTracked
<1>35. CASE ServerShuts /\ UNCHANGED config
    BY <1>35 DEF ServerShuts, config, CInv, StopWorks, DeviceTracked
<1>36. CASE UNCHANGED cvars
    BY <1>36 DEF cvars, vars, config, life, node, CInv, DeviceTracked
<1>37. CASE Stop
    BY <1>37 DEF Stop, Go, CInv, vars, life, node, DeviceTracked
<1> QED
        BY <1>1, <1>2, <1>3, <1>4, <1>5, <1>6, <1>7, <1>8, <1>9, <1>10, <1>11, <1>12,
        <1>13, <1>14, <1>15, <1>16, <1>17, <1>18, <1>19, <1>20, <1>21, <1>22, <1>23,
        <1>24, <1>25, <1>26, <1>27, <1>28, <1>29, <1>30, <1>31, <1>32, <1>33, <1>34,
        <1>35, <1>36, <1>37
    DEF ConfigNext, Serve, Run, CallGoesOn, Proceed, WorkerGoesOn, ServerGoesOn, Server

-----------------------------------------------------------------------------
(* The invariant and what follows from it.                                 *)

\* The invariant holds at first.
LEMMA Initially == ConfigInit => CInv
PROOF
<1> SUFFICES ASSUME ConfigInit PROVE CInv
    OBVIOUS
<1>1. TypeOK
    <2>1. at \in [Clients -> ClientPcs] /\ started \in [Clients -> BOOLEAN]
        BY DEF ConfigInit, Init, ClientPcs
    <2>2. calls \in 0..MaxCalls
        BY LifecycleAssumption DEF ConfigInit, Init, LifecycleAssumption
    <2> QED
        BY <2>1, <2>2 DEF ConfigInit, Init, TypeOK
<1>2. IInv
    BY <1>1 DEF ConfigInit, Init, IInv, ThreadTracked, SignalTracked, RunningServes
<1>3. ConfigTypeOK
    <2>1. request \in [Requests -> RequestRecords]
        BY NoRequestTyped DEF ConfigInit, ProcessBegins
    <2>2. pc \in [Clients -> RequestPcs \cup MainPcs] /\ pc[Main] \in MainPcs
          /\ \A q \in Requests : pc[q] \in RequestPcs
        BY ConfigAssumption DEF ConfigInit, ProcessBegins, ConfigAssumption, RequestPcs,
               MainPcs
    <2>3. events \in 0..MaxEvents
        BY ConfigAssumption DEF ConfigInit, ConfigAssumption
    <2>4. file \in Objects /\ accepted = file
        BY ConfigAssumption DEF ConfigInit, ConfigAssumption
    <2> QED
        BY <2>1, <2>2, <2>3, <2>4 DEF ConfigInit, ProcessBegins, ConfigTypeOK
<1>4. FileIsWhatWasAccepted /\ SelectedRegistryIsNamed
    BY DEF ConfigInit, FileIsWhatWasAccepted, SelectedRegistryIsNamed
<1>5. MutexTracked /\ RequestsOfARunningDaemon /\ UpdateTracked /\ RegistrationTracked
    BY ConfigAssumption, LifecycleAssumption DEF ConfigInit, ProcessBegins,
           ConfigAssumption,
        LifecycleAssumption, MutexTracked, RequestsOfARunningDaemon, UpdateTracked,
        RegistrationTracked
<1>6. CallsTracked /\ StopWorks /\ StartWorks /\ StatesTracked /\ DeviceTracked
    BY ConfigAssumption DEF ConfigInit, Init, ProcessBegins, ConfigAssumption,
           CallsTracked,
        StopPcs, StopWorks, StartWorks, StatesTracked, Down, DeviceTracked
<1>7. ReportTracked /\ SettingsTracked
    BY ConfigAssumption DEF ConfigInit, Init, ProcessBegins, ConfigAssumption,
           ReportTracked,
        SettingsTracked
<1> QED
    BY <1>2, <1>3, <1>4, <1>5, <1>6, <1>7 DEF CInv

\* The invariant holds at first and after every step.
LEMMA ConfigInvariance == ConfigSpec => []CInv
PROOF
<1>1. CInv /\ [ConfigNext]_cvars => CInv'
    <2> SUFFICES ASSUME CInv, [ConfigNext]_cvars PROVE CInv'
        OBVIOUS
    <2>1. IInv' /\ ConfigTypeOK'
        BY LifecycleKept, ConfigTypePreserved DEF CInv, IInv
    <2>2. FileIsWhatWasAccepted' /\ SelectedRegistryIsNamed' /\ UpdateTracked'
        BY FilePreserved, SelectionPreserved, UpdateTrackedPreserved
    <2>3. MutexTracked' /\ RequestsOfARunningDaemon' /\ CallsTracked'
        BY MutexTrackedPreserved, RequestsOfARunningDaemonPreserved, CallsTrackedPreserved
    <2>4. StopWorks' /\ StartWorks' /\ StatesTracked' /\ DeviceTracked'
        BY StopWorksPreserved, StartWorksPreserved, StatesTrackedPreserved,
           DeviceTrackedPreserved
    <2>5. ReportTracked' /\ SettingsTracked' /\ RegistrationTracked'
        BY ReportTrackedPreserved, SettingsTrackedPreserved, RegistrationTrackedPreserved
    <2> QED
        BY <2>1, <2>2, <2>3, <2>4, <2>5 DEF CInv
<1> QED
    BY Initially, <1>1, PTL DEF ConfigSpec

\* The variables keep their types, whatever is sent and whatever fails.
THEOREM ConfigTypeCorrect == ConfigSpec => [](ConfigTypeOK /\ TypeOK)
PROOF
<1>1. CInv => ConfigTypeOK /\ TypeOK
    BY DEF CInv, IInv
<1> QED
    BY <1>1, ConfigInvariance, PTL

\* node_config_mutex_ is held from the reading of the document before to the answer
\* (app.cpp:175): successful updates add up in the file, and refused ones leave
\* nothing there, unless a write failed.
THEOREM UpdatesAddUp == ConfigSpec => []FileIsWhatWasAccepted
PROOF
<1>1. CInv => FileIsWhatWasAccepted
    BY DEF CInv
<1> QED
    BY <1>1, ConfigInvariance, PTL

\* Readers of the settings (app.cpp:150) are never answered with a document that an
\* update may still take back.
THEOREM NoDirtyReads == ConfigSpec => ReadersSeeWhatWasAccepted
PROOF
<1>1. ASSUME CInv, NEW r \in Requests, pc[r] = "reading"
      PROVE  spoiled \/ file = accepted
    BY <1>1 DEF CInv, MutexTracked, UpdateTracked
<1>2. CInv => [\A r \in Requests : pc[r] = "reading" /\ pc'[r] = "idle" =>
                  spoiled \/ file = accepted]_cvars
    BY <1>1
<1> QED
    BY <1>2, ConfigInvariance, PTL DEF ReadersSeeWhatWasAccepted

\* apply_selected_registry_settings runs on what is written, not on what was sent.
THEOREM SelectionIsNamed == ConfigSpec => []SelectedRegistryIsNamed
PROOF
<1>1. CInv => SelectedRegistryIsNamed
    BY DEF CInv
<1> QED
    BY <1>1, ConfigInvariance, PTL

\* With the mutex free, no request is in the middle of an update.
LEMMA NobodyUpdates ==
    ASSUME CInv, config_mutex = Nobody, NEW r \in Requests
    PROVE  pc[r] \in {"idle", "locking"}
PROOF
    BY ConfigAssumption, LifecycleAssumption DEF CInv, MutexTracked, ConfigAssumption,
        LifecycleAssumption

\* A Node that is reported to be running serves with the settings in the file.
THEOREM SettingsAreLoaded == ConfigSpec => []RunningNodeHasTheFile
PROOF
<1>1. CInv => RunningNodeHasTheFile
    BY NobodyUpdates DEF CInv, IInv, RunningServes, ReportTracked, SettingsTracked,
        RunningNodeHasTheFile
<1> QED
    BY <1>1, ConfigInvariance, PTL

\* set_node_state follows the Node through restarts, roll-backs and failures of both.
THEOREM ReportedStateIsTrue == ConfigSpec => []ReportedNodeStateIsTrue
PROOF
<1>1. CInv => ReportedNodeStateIsTrue
    BY NobodyUpdates DEF CInv, IInv, RunningServes, ReportTracked, StatesTracked, Down,
        ReportedNodeStateIsTrue, Listening
<1> QED
    BY <1>1, ConfigInvariance, PTL

\* The registration status is cleared after the Node's threads are joined
\* (app.cpp:211-212), so that none of them writes it afterwards.
THEOREM RegistrationIsTrue == ConfigSpec => []RegistrationIsOfThisNode
PROOF
<1>1. CInv => RegistrationIsOfThisNode
    BY NobodyUpdates DEF CInv, RegistrationTracked, RegistrationIsOfThisNode,
        Listening
<1> QED
    BY <1>1, ConfigInvariance, PTL

\* RunningAlwaysServes, of a daemon that may die and come back.
THEOREM DaemonRunningServes == ConfigSpec => []RunningServes
PROOF
<1>1. CInv => RunningServes
    BY DEF CInv, IInv
<1> QED
    BY <1>1, ConfigInvariance, PTL

\* No caller is inside start() or stop(), and the Node serves: it has its device, also
\* after restarts that failed.
THEOREM DevicesAreThere == ConfigSpec => []ServedNodeHasDevice
PROOF
<1>1. CInv => ServedNodeHasDevice
    BY DEF CInv, DeviceTracked, ServedNodeHasDevice, Quiet, StopPcs
<1> QED
    BY <1>1, ConfigInvariance, PTL

\* NeverTwoWorkers, of the same daemon.
THEOREM DaemonNeverTwoWorkers == ConfigSpec => OneWorker
PROOF
<1>1. ASSUME CInv, [ConfigNext]_cvars, worker' = "entering", worker # "entering"
      PROVE  worker = "none"
    BY <1>1, LifecycleStep, OneWorkerStep DEF CInv, ProcessIsNew
<1>2. CInv /\ [ConfigNext]_cvars =>
          [worker' = "entering" /\ worker # "entering" => worker = "none"]_vars
    BY <1>1
<1> QED
    BY <1>2, ConfigInvariance, PTL DEF ConfigSpec, OneWorker

\* The callers of start() exclude each other, by the mutex and because App::stop()
\* waits for the HTTP server: what start() returns is so when it returns.
THEOREM StartIsTruthful == ConfigSpec => StartTellsTheTruth
PROOF
<1>1. ASSUME CInv, NEW c \in Clients, StartReturns(c)
      PROVE  IF started'[c] THEN worker' = "serving" ELSE worker' \in {"leaving", "ended"}
    <2>1. started'[c] = (lifecycle_state = "running") /\ worker' = worker
        BY <1>1 DEF StartReturns, StartAnswers, CInv, IInv, TypeOK
    <2>2. lifecycle_state # "starting" /\ at[c] = "starting"
        BY <1>1 DEF StartReturns
    <2>3. worker # "none"
        BY <1>1, <2>2 DEF CInv, StartWorks
    <2>4. ASSUME NEW d \in Clients, at[d] \in StopPcs PROVE FALSE
        <3>1. c # d
            BY <2>2, <2>4 DEF StopPcs
        <3>2. CASE c = Main
            <4>1. pc[Main] = "booting" /\ d \in Requests
                BY <1>1, <2>2, <3>1, <3>2, ConfigAssumption DEF CInv, CallsTracked,
                       ConfigAssumption
            <4> QED
                BY <1>1, <2>4, <4>1 DEF CInv, CallsTracked, RequestsOfARunningDaemon
        <3>3. CASE d = Main
            <4>1. pc[Main] = "leaving" /\ c \in Requests
                BY <1>1, <2>4, <3>1, <3>3, ConfigAssumption DEF CInv, CallsTracked,
                       ConfigAssumption
            <4> QED
                BY <1>1, <2>2, <4>1 DEF CInv, CallsTracked, RequestsOfARunningDaemon
        <3>4. CASE c \in Requests /\ d \in Requests
            BY <1>1, <2>2, <2>4, <3>1, <3>4 DEF CInv, CallsTracked, MutexTracked
        <3> QED
            BY <3>2, <3>3, <3>4, ConfigAssumption DEF ConfigAssumption
    <2>5. lifecycle_state \in {"running", "stopped"}
        <3>1. lifecycle_state # "stopping"
            BY <1>1, <2>4 DEF CInv, StatesTracked
        <3> QED
            BY <1>1, <2>2, <3>1 DEF CInv, IInv, TypeOK
    <2>6. CASE lifecycle_state = "running"
        BY <1>1, <2>1, <2>6 DEF CInv, IInv, RunningServes
    <2>7. CASE lifecycle_state = "stopped"
        <3>1. worker \in Down
            BY <1>1, <2>7 DEF CInv, StatesTracked
        <3> QED
            BY <2>1, <2>3, <2>7, <3>1 DEF Down
    <2> QED
        BY <2>5, <2>6, <2>7
<1>2. CInv =>
          [\A c \in Clients : StartReturns(c) =>
              IF started'[c] THEN worker' = "serving"
                             ELSE worker' \in {"leaving", "ended"}]_vars
    BY <1>1
<1> QED
    BY <1>2, ConfigInvariance, PTL DEF StartTellsTheTruth

-----------------------------------------------------------------------------
(* The phases of the Node.                                                 *)

\* The callers of start() and stop() exclude each other.
LEMMA CallersExclude ==
    ASSUME CInv, NEW c \in Clients, NEW d \in Clients
    PROVE  at[c] = "starting" => at[d] \notin StopPcs
PROOF
<1>1. \A r \in Requests, q \in Requests :
          pc[r] \notin {"idle", "locking"} /\ pc[q] \notin {"idle", "locking"} => r = q
    BY DEF CInv, MutexTracked
<1>2. /\ at[c] = "starting" => IF c = Main THEN pc[c] = "booting" ELSE pc[c] = "starting"
      /\ at[d] \in StopPcs => IF d = Main THEN pc[d] = "leaving" ELSE pc[d] = "stopping"
    BY ConfigAssumption DEF CInv, CallsTracked, ConfigAssumption
<1>3. /\ c # Main => c \in Requests
      /\ d # Main => d \in Requests
    BY ConfigAssumption DEF ConfigAssumption
<1> QED
    BY <1>1, <1>2, <1>3 DEF CInv, RequestsOfARunningDaemon

\* What the daemon does to the life cycle, and when it begins a start or a stop.
LEMMA DaemonStep ==
    ASSUME CInv, [ConfigNext]_cvars
    PROVE  \/ UNCHANGED vars
           \/ ProcessIsNew
           \/ \E c \in Clients : StartRefused(c) \/ Proceed(c)
           \/ \E c \in Clients :
                 /\ StartSpawns(c)
                 /\ needs_model_reset \/ ~has_device
                 /\ \A d \in Clients : at[d] \notin StopPcs
           \/ \E c \in Clients :
                 /\ StopSignals(c)
                 /\ \A d \in Clients : at[d] # "starting"
           \/ Worker \/ Server
PROOF
<1>1. ASSUME NEW r \in Requests, RestartStarts(r)
      PROVE  /\ Start(r) /\ r \in Clients
             /\ needs_model_reset \/ ~has_device
             /\ \A d \in Clients : at[d] \notin StopPcs
    <2>1. pc[r] = "cleared" /\ Start(r) /\ r \in Clients
        BY <1>1, ConfigAssumption DEF RestartStarts, Go, ConfigAssumption
    <2>2. needs_model_reset \/ ~has_device
        BY <2>1 DEF CInv, DeviceTracked
    <2>3. pc[Main] # "leaving" /\ \A q \in Requests : pc[q] # "stopping"
        BY <2>1 DEF CInv, MutexTracked, RequestsOfARunningDaemon
    <2> QED
        BY <2>1, <2>2, <2>3, ConfigAssumption DEF CInv, CallsTracked, ConfigAssumption
<1>2. CASE Boot
    <2>1. pc[Main] = "boot" /\ Start(Main) /\ Main \in Clients
        BY <1>2, ConfigAssumption DEF Boot, Go, ConfigAssumption
    <2>2. needs_model_reset \/ ~has_device
        BY <2>1 DEF CInv, DeviceTracked
    <2>3. \A q \in Requests : pc[q] = "idle"
        BY <2>1 DEF CInv, RequestsOfARunningDaemon
    <2>4. \A d \in Clients : at[d] \notin StopPcs
        BY <2>1, <2>3, ConfigAssumption DEF CInv, CallsTracked, ConfigAssumption
    <2> QED
        BY <2>1, <2>2, <2>4 DEF Start
<1>3. ASSUME NEW r \in Requests, RestartStops(r)
      PROVE  /\ StopSignals(r) /\ r \in Clients
             /\ \A d \in Clients : at[d] # "starting"
    <2>1. pc[r] = "restarting" /\ StopSignals(r) /\ r \in Clients
        BY <1>3, ConfigAssumption DEF RestartStops, Go, ConfigAssumption
    <2>2. pc[Main] # "booting" /\ \A q \in Requests : pc[q] # "starting"
        BY <2>1 DEF CInv, MutexTracked, RequestsOfARunningDaemon
    <2> QED
        BY <2>1, <2>2, ConfigAssumption DEF CInv, CallsTracked, ConfigAssumption
<1>4. CASE Leave
    <2>1. /\ pc[Main] = "closing" /\ StopSignals(Main) /\ Main \in Clients
          /\ \A q \in Requests : pc[q] = "idle"
        BY <1>4, ConfigAssumption DEF Leave, Go, ConfigAssumption
    <2>2. \A d \in Clients : at[d] # "starting"
        BY <2>1, ConfigAssumption DEF CInv, CallsTracked, ConfigAssumption
    <2> QED
        BY <2>1, <2>2
<1>5. ASSUME NEW r \in Requests, Receive(r) \/ Serve(r), ~RestartStarts(r), ~RestartStops(r)
      PROVE  UNCHANGED vars
    BY <1>5 DEF Receive, Serve, Lock, Read, Prepare, Truncate, OpenRefused, Write,
           WriteThrows,
        WriteLost, ClearStatus, RestartSucceeds, RestartFails
<1>6. CASE Booted \/ Left \/ Stop \/ Close
    BY <1>6 DEF Booted, Left, Stop, Close
<1>7. CASE Crash
    BY <1>7 DEF Crash
<1>8. CASE \E c \in Clients : CallGoesOn(c)
    BY <1>8 DEF CallGoesOn
<1>9. CASE WorkerReads \/ WorkerGoesOn \/ ServerGoesOn \/ RegistrationChanges
    BY <1>9 DEF WorkerReads, WorkerGoesOn, ServerGoesOn, RegistrationChanges, Worker
<1>10. CASE UNCHANGED cvars
    BY <1>10 DEF cvars
<1> QED
    BY <1>1, <1>2, <1>3, <1>4, <1>5, <1>6, <1>7, <1>8, <1>9, <1>10 DEF ConfigNext, Run,
           Start

\* The server's thread begins with the ports open, in a model that has no device,
\* ends for a shutdown, or by an exception when it has inserted the device, and a
\* shutdown lasts until the worker is joined.
ServerTracked ==
    /\ worker \in {"entering", "opening", "announcing"} => lifecycle_state = "starting"
    /\ worker \in {"entering", "opening"} => server = "none"
    /\ worker # "none" /\ server = "none" => ~has_device
    /\ worker # "none" /\ server = "ended" => shutdown \/ has_device
    /\ \A c \in Clients : at[c] \in {"locking", "joining"} /\ worker # "none" => shutdown

\* The server's thread runs while the worker has its ports.
LEMMA ServerHasWorker ==
    ASSUME CInv, server \in {"init", "running"}
    PROVE  worker \in {"announcing", "serving", "closing"}
PROOF
    BY DEF CInv, DeviceTracked

\* Nobody stops a Node that is being started.
LEMMA StartIsAlone ==
    ASSUME CInv, ServerTracked, worker \in {"entering", "opening", "announcing"}
    PROVE  \A c \in Clients : at[c] \notin StopPcs
PROOF
<1>1. PICK c \in Clients : at[c] = "starting"
    BY DEF CInv, StatesTracked, ServerTracked
<1>2. ASSUME NEW d \in Clients PROVE at[d] \notin StopPcs
    BY <1>1, CallersExclude
<1> QED
    BY <1>2

\* Every step keeps ServerTracked.
LEMMA ServerTrackedPreserved ==
    ASSUME CInv, ServerTracked, [ConfigNext]_cvars
    PROVE  ServerTracked'
PROOF
<1> USE DEF ServerTracked
<1>0. /\ at \in [Clients -> ClientPcs] /\ (joinable <=> worker # "none")
    BY DEF CInv, IInv, TypeOK, ThreadTracked
<1>1. CASE UNCHANGED vars
    BY <1>1 DEF vars, life, node
<1>2. CASE ProcessIsNew
    BY <1>2 DEF ProcessIsNew
<1>3. ASSUME NEW c \in Clients, StartRefused(c) PROVE ServerTracked'
    BY <1>0, <1>3 DEF StartRefused, StartAnswers, Call, life, node
<1>4. ASSUME NEW c \in Clients, StartSpawns(c), needs_model_reset \/ ~has_device,
             \A d \in Clients : at[d] \notin StopPcs
      PROVE  ServerTracked'
    <2>1. worker = "none" /\ \A d \in Clients : at'[d] \notin {"locking", "joining"}
        BY <1>0, <1>4 DEF StartSpawns, StartAnswers, MayStart, StopPcs
    <2>2. ~has_device'
        BY <1>4 DEF StartSpawns, ResetModelState, node
    <2> QED
        BY <1>4, <2>1, <2>2 DEF StartSpawns, StartAnswers
<1>5. ASSUME NEW c \in Clients, StopSignals(c), \A d \in Clients : at[d] # "starting"
      PROVE  ServerTracked'
    <2>1. worker \notin {"entering", "opening", "announcing"}
        BY <1>5 DEF CInv, StatesTracked
    <2> QED
        BY <1>0, <1>5, <2>1 DEF StopSignals, node
<1>6. ASSUME NEW c \in Clients, StartReturns(c) PROVE ServerTracked'
    BY <1>0, <1>6 DEF StartReturns, StartAnswers, life, node
<1>7. ASSUME NEW c \in Clients, StopShuts(c) PROVE ServerTracked'
    BY <1>7 DEF StopShuts, life
<1>8. ASSUME NEW c \in Clients, StopTakesThread(c) PROVE ServerTracked'
    BY <1>0, <1>8 DEF StopTakesThread, life, node
<1>9. ASSUME NEW c \in Clients, StopJoins(c) PROVE ServerTracked'
    BY <1>9 DEF StopJoins
<1>10. ASSUME NEW c \in Clients, StopEnds(c) PROVE ServerTracked'
    <2>1. worker = "none"
        BY <1>10 DEF StopEnds, CInv, StopWorks
    <2> QED
        BY <2>1, <1>10 DEF StopEnds, node
<1>11. CASE WorkerEnters
    BY <1>11, StartIsAlone DEF WorkerEnters, WorkerGoes, life, StopPcs
<1>12. CASE OpenFails \/ ServerOpens
    BY <1>12 DEF OpenFails, ServerOpens, WorkerGoes, life, node
<1>13. CASE WorkerAnnounces
    BY <1>13 DEF WorkerAnnounces, WorkerGoes, node
<1>14. CASE WorkerStops
    BY <1>14 DEF WorkerStops, WorkerGoes, life
<1>15. CASE ServerCloses \/ WorkerReportsFailure \/ WorkerEnds
    BY <1>15 DEF ServerCloses, WorkerReportsFailure, WorkerEnds, WorkerGoes, life, node
<1>16. CASE ServerInit
    <2>1. ~has_device /\ worker \in {"announcing", "serving", "closing"}
        BY <1>16 DEF ServerInit, CInv, DeviceTracked
    <2> QED
        BY <1>16, <2>1 DEF ServerInit, life
<1>17. CASE ServerShuts
    BY <1>17, ServerHasWorker DEF ServerShuts, life, node
<1> QED
    BY <1>1, <1>2, <1>3, <1>4, <1>5, <1>6, <1>7, <1>8, <1>9, <1>10, <1>11, <1>12, <1>13,
           <1>14,
       <1>15, <1>16, <1>17, DaemonStep DEF Proceed, Worker, Server

\* Every step is one of the phases', or none.
LEMMA PhaseStep ==
    ASSUME CInv, ServerTracked, [ConfigNext]_cvars
    PROVE  Phases!Next \/ UNCHANGED servicePhase
PROOF
<1> USE DEF servicePhase, Phases!Next
<1>0. joinable <=> worker # "none"
    BY DEF CInv, IInv, ThreadTracked
<1>1. CASE UNCHANGED <<worker, server, shutdown, has_device>>
    BY <1>1
<1>2. CASE ProcessIsNew
    BY <1>2 DEF ProcessIsNew, Phases!Die
<1>3. ASSUME NEW c \in Clients, StartRefused(c) \/ StartReturns(c) \/ StopSignals(c)
                                \/ StopTakesThread(c) \/ StopEnds(c)
      PROVE  UNCHANGED <<worker, server, shutdown, has_device>>
    BY <1>3 DEF StartRefused, StartReturns, StopSignals, StopTakesThread, StopEnds, node
<1>4. ASSUME NEW c \in Clients, StartSpawns(c)
      PROVE  Phases!Next \/ UNCHANGED servicePhase
    <2>1. worker = "none" /\ worker' \in {"none", "entering"}
        BY <1>0, <1>4 DEF StartSpawns, MayStart
    <2> QED
        BY <2>1 DEF Phases!Start
<1>5. ASSUME NEW c \in Clients, StopShuts(c)
      PROVE  Phases!Next \/ UNCHANGED servicePhase
    <2>1. shutdown' = TRUE /\ UNCHANGED <<worker, server, has_device>>
        BY <1>5 DEF StopShuts
    <2>2. server \in {"none", "init", "running", "ended"}
        BY DEF CInv, IInv, TypeOK
    <2>3. server = "init" => ~has_device
        BY DEF CInv, DeviceTracked
    <2> QED
        BY <2>1, <2>2, <2>3 DEF ServerTracked, Phases!Shut
<1>6. ASSUME NEW c \in Clients, StopJoins(c)
      PROVE  Phases!Next \/ UNCHANGED servicePhase
    <2>1. /\ worker = "ended" /\ worker' = "none" /\ shutdown
          /\ server \notin {"init", "running"}
        BY <1>6, ServerHasWorker DEF StopJoins, ServerTracked
    <2> QED
        BY <2>1 DEF Phases!Joined
<1>7. CASE WorkerEnters
    <2>1. /\ worker = "entering" /\ worker' = "opening" /\ ~shutdown'
          /\ server' = "none" /\ ~has_device'
        BY <1>7 DEF WorkerEnters, WorkerGoes, ServerTracked
    <2> QED
        BY <2>1
<1>8. CASE OpenFails \/ ServerOpens
    <2>1. /\ worker = "opening" /\ worker' \in {"leaving", "announcing"}
          /\ UNCHANGED node /\ server = "none" /\ server' \in {"none", "init"} /\ ~has_device
        BY <1>8 DEF OpenFails, ServerOpens, WorkerGoes, ServerTracked
    <2>2. ~shutdown
        BY <2>1, StartIsAlone DEF CInv, DeviceTracked
    <2> QED
        BY <2>1, <2>2 DEF node
<1>9. CASE WorkerAnnounces \/ ServerCloses \/ WorkerReportsFailure \/ WorkerEnds
    <2>1. /\ worker \notin {"none", "entering"} /\ worker' \notin {"none", "entering"}
          /\ UNCHANGED <<server, shutdown, has_device>>
        BY <1>9 DEF WorkerAnnounces, ServerCloses, WorkerReportsFailure, WorkerEnds,
               WorkerGoes,
            node
    <2> QED
        BY <2>1
<1>10. CASE WorkerStops
    <2>1. /\ worker = "serving" /\ worker' = "closing"
          /\ shutdown' = TRUE /\ UNCHANGED <<server, has_device>>
        BY <1>10 DEF WorkerStops, WorkerGoes
    <2>2. server \in {"none", "init", "running", "ended"}
        BY DEF CInv, IInv, TypeOK
    <2>3. server = "init" => ~has_device
        BY DEF CInv, DeviceTracked
    <2> QED
        BY <2>1, <2>2, <2>3 DEF ServerTracked, Phases!Shut
<1>11. CASE ServerInit
    <2>1. /\ server = "init" /\ UNCHANGED <<shutdown, worker>>
          /\ server' \in {"running", "ended"} /\ (shutdown => server' = "ended")
          /\ ~has_device /\ has_device' = ~shutdown
        BY <1>11 DEF ServerInit, CInv, DeviceTracked
    <2>2. worker \notin {"none", "entering"}
        BY <2>1, ServerHasWorker
    <2> QED
        BY <2>1, <2>2 DEF Phases!Serve, Phases!Close
<1>12. CASE ServerShuts
    <2>1. server = "running" /\ server' = "ended" /\ shutdown /\ UNCHANGED <<shutdown, worker>>
        BY <1>12 DEF ServerShuts, node
    <2>2. worker \notin {"none", "entering"}
        BY <2>1, ServerHasWorker
    <2> QED
        BY <2>1, <2>2 DEF Phases!Close
<1>13. CASE UNCHANGED vars
    BY <1>13 DEF vars, node
<1> QED
    BY <1>1, <1>2, <1>3, <1>4, <1>5, <1>6, <1>7, <1>8, <1>9, <1>10, <1>11, <1>12, <1>13,
       DaemonStep DEF Proceed, Worker, Server

\* ImplementsNodePhases for any number of requests, failures and deaths: what
\* NodeResources takes for granted of starts and stops is what the daemon's calls and
\* the Node's threads come to.
THEOREM DaemonKeepsPhases == ConfigSpec => ImplementsNodePhases
PROOF
<1>1. ConfigInit => Phases!Init /\ ServerTracked
    BY DEF ConfigInit, Init, servicePhase, Phases!Init, ServerTracked
<1>2. CInv /\ ServerTracked /\ [ConfigNext]_cvars => ServerTracked'
    BY ServerTrackedPreserved
<1>3. CInv /\ ServerTracked /\ [ConfigNext]_cvars => [Phases!Next]_servicePhase
    BY PhaseStep
<1> QED
    BY <1>1, <1>2, <1>3, ConfigInvariance, PTL DEF ConfigSpec, Phases!Spec,
           ImplementsNodePhases

=============================================================================
