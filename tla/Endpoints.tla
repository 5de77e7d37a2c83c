------------------------------ MODULE Endpoints ------------------------------
(***************************************************************************)
(* From the backend's snapshot to what a sender sends: the IS-05 endpoints *)
(* of the streams (src/src/node.cpp), the daemon's syncs that write them,  *)
(* the controllers that PATCH them, the library's thread that activates    *)
(* them, device and clock changes, and restarts of the Node.               *)
(*                                                                         *)
(* A call of NodeRuntime is one step: each holds the model's write lock    *)
(* when it writes the connection resource and the cache.  What may go wrong*)
(* between the resources of one stream is NodeResources' subject, and what *)
(* a failing sync leaves behind is App's.                                  *)
(***************************************************************************)
EXTENDS Reconcile

CONSTANTS
    Automatic,    \* "auto", a transport parameter the Node is to choose
    Absent,       \* no such resource, stream or job
    Host,         \* the interfaces of the host
    ListOf,       \* the list of a snapshot that a stream is in, in the order
                  \* a sync takes them: receivers' 1 to 3, senders' 4 to 6
    Offers,       \* the snapshots the backend may have
    MaxSyncs,     \* bound: syncs and drains
    MaxPatches,   \* bound: requests of controllers
    MaxRestarts   \* bound: restarts of the Node

ASSUME EndpointsAssumption ==
    /\ Automatic \notin Destinations \cup Addresses \cup {Unset}
    /\ Host \in Devices
    /\ ListOf \in [Streams -> 1..6]
    /\ \A s \in Streams : s \in Receivers <=> ListOf[s] \in 1..3
    /\ Offers \subseteq Snapshots
    /\ {MaxSyncs, MaxPatches, MaxRestarts} \subseteq Nat

VARIABLES
    runtime_interfaces,  \* runtime_interfaces_
    clock,               \* the node resource's clock, and ptp_domain_number_
    cache,               \* video_senders ... ancillary_receivers
    connections,         \* node_model_.connection_resources
    todo,                \* reinsert_cached_resources' copies, not yet added
    last_snapshot,       \* StateStore's last applied snapshot
    job,                 \* the sync or drain under way
    writer,              \* history: who last decided about a stream
    budget               \* syncs, requests and restarts so far

node == <<runtime_interfaces, clock, cache, connections>>
daemon == <<last_snapshot, job>>
vars == <<node, todo, daemon, writer, budget>>

Senders == Streams \ Receivers

\* A leg of an endpoint's transport parameters; source is a receiver's
\* interface_ip and a sender's source_ip.
Legs == [enabled : BOOLEAN, ip : Destinations \cup {Unset, Automatic},
         source : Addresses \cup {Unset, Automatic}]

LegLists == UNION {[1..n -> Legs] : n \in 1..2}

Endpoint == [master : BOOLEAN, legs : LegLists]

Clocks == [gmid : Gmids \cup {Unset}, locked : BOOLEAN, domain : 0..127]

NoFile == [legs |-> <<>>, clock |-> Absent]

\* scheduled says whether an activation is waiting, and who asked for it.
Connections ==
    [staged : Endpoint, active : Endpoint,
     allowed : UNION {[1..n -> Addresses \cup {Unset}] : n \in 1..2},
     scheduled : {"no", "node", "controller"},
     file : [legs : LegLists, clock : Clocks] \cup {NoFile}]

Jobs == [from : Snapshots, next : Snapshots, clock : BOOLEAN, devices : BOOLEAN,
         left : SUBSET Streams]

\* Who last decided about a stream; "cancel" is a controller that called the Node's
\* own activation off.
Writers == {"snapshot", "controller", "reinsertion", "cancel"}

\* Absent is none of the things it stands for the absence of.
ASSUME AbsentAssumption == Absent \notin Configs \cup Connections \cup Jobs

TypeOK ==
    /\ runtime_interfaces \in Devices
    /\ clock \in Clocks
    /\ cache \in [Streams -> Configs \cup {Absent}]
    /\ connections \in [Streams -> Connections \cup {Absent}]
    /\ todo \in [Streams -> Configs \cup {Absent}]
    /\ last_snapshot \in Snapshots
    /\ job \in Jobs \cup {Absent}
    /\ writer \in [Streams -> Writers]
    /\ budget \in [syncs : 0..MaxSyncs, patches : 0..MaxPatches,
                   restarts : 0..MaxRestarts]

None == [s \in Streams |-> Absent]

\* The node resource's first clock has the identity 00-00-00-00-00-00-00-00.
\* The Node is up for the first time, and nothing was synced yet.
Init ==
    /\ runtime_interfaces = Host
    /\ clock = [gmid |-> Unset, locked |-> FALSE, domain |-> 127]
    /\ cache = None
    /\ connections = None
    /\ todo = None
    /\ last_snapshot = EmptySnapshot
    /\ job = Absent
    /\ writer = [s \in Streams |-> "snapshot"]
    /\ budget = [syncs |-> 0, patches |-> 0, restarts |-> 0]

-----------------------------------------------------------------------------
(* Which interface a leg uses.                                             *)

NoDevice == [name |-> Unset, ip |-> Unset]

\* The first of some of the devices, or the one given if they are none.
FirstOf(devices, some, otherwise) ==
    IF some = {} THEN otherwise ELSE devices[Min(some)]

WithAddress(devices) == {i \in DOMAIN devices : devices[i].ip # Unset}

AddressesOf(devices) == {devices[i].ip : i \in WithAddress(devices)}

Configured(devices, ip) == {i \in WithAddress(devices) : devices[i].ip = ip}

\* select_runtime_interface_leg
SelectPrimary(devices, ip) ==
    FirstOf(devices, Configured(devices, ip),
        FirstOf(devices, WithAddress(devices),
            FirstOf(devices, DOMAIN devices, NoDevice)))

\* select_redundancy_runtime_interface_leg
SelectRedundancy(devices, ip, primary) ==
    FirstOf(devices, Configured(devices, ip),
        FirstOf(devices,
                {i \in WithAddress(devices) : devices[i].name # primary.name},
                primary))

\* select_runtime_interfaces: the address of each leg of a stream.
Selection(devices, config) ==
    LET primary == SelectPrimary(devices, config[1].source)
    IN  [i \in DOMAIN config |->
            IF i = 1 THEN primary.ip
            ELSE SelectRedundancy(devices, config[i].source, primary).ip]

\* receiver_multicast_ip_or_default
DestinationOf(s, config, i) ==
    IF s \in Receivers /\ config[i].ip = Unset THEN config[1].ip ELSE config[i].ip

-----------------------------------------------------------------------------
(* make_*_resources, replace_*_resources                                   *)

\* A sender's first leg switches the second off as well.
LegEnabled(config, i) == config[1].enable /\ config[i].enable

\* Senders begin with every address "auto", and receivers listening.
MakeLeg(s, config, devices, i) ==
    IF s \in Receivers
    THEN [enabled |-> TRUE, ip |-> DestinationOf(s, config, i),
          source |-> Selection(devices, config)[i]]
    ELSE [enabled |-> LegEnabled(config, i), ip |-> Automatic, source |-> Automatic]

MasterEnabled(s, config) == s \in Receivers \/ config[1].enable

MakeEndpoint(s, config, devices) ==
    [master |-> MasterEnabled(s, config),
     legs |-> [i \in DOMAIN config |-> MakeLeg(s, config, devices, i)]]

\* Mutant: a sender is left to the controllers to activate.
MakeUnscheduled(s, config, devices) ==
    LET made == MakeEndpoint(s, config, devices)
    IN  [staged |-> made, active |-> made,
         allowed |-> Selection(devices, config),
         scheduled |-> "no",
         file |-> NoFile]

\* A sender is to be activated at once; a receiver waits for a controller.
MakeConnection(s, config, devices) ==
    LET made == MakeEndpoint(s, config, devices)
    IN  [staged |-> made, active |-> made,
         allowed |-> Selection(devices, config),
         scheduled |-> IF s \in Receivers THEN "no" ELSE "node",
         file |-> NoFile]

\* set_transportfile: the SDP file of a sender, from what is active.
FileOf(s, active, clk) ==
    IF s \in Receivers THEN NoFile ELSE [legs |-> active.legs, clock |-> clk]

\* Mutant: what was active is kept, however many legs it has.
ReplaceKeeping(s, old, config, devices) ==
    [MakeConnection(s, config, devices) EXCEPT
        !.active = old.active,
        !.file = FileOf(s, old.active, clock)]

\* Mutant: nothing that was active is kept.
ReplaceAfresh(s, old, config, devices) ==
    LET new == MakeConnection(s, config, devices)
    IN  [new EXCEPT !.file = FileOf(s, new.active, clock)]

\* What is active is kept if it has as many legs as the new configuration.
Replace(s, old, config, devices) ==
    LET new == MakeConnection(s, config, devices)
        active == IF DOMAIN old.active.legs = DOMAIN config THEN old.active
                                                            ELSE new.active
    IN  [new EXCEPT !.active = active, !.file = FileOf(s, active, clock)]

\* add_* and update_*: each does the other's work if the stream is there or not.
Write(s, config) ==
    /\ cache' = [cache EXCEPT ![s] = config]
    /\ connections' = [connections EXCEPT ![s] =
           IF cache[s] # Absent THEN Replace(s, @, config, runtime_interfaces)
                                ELSE MakeConnection(s, config, runtime_interfaces)]

\* remove_*: a stream that is not cached is left alone.
Remove(s) ==
    /\ cache' = [cache EXCEPT ![s] = Absent]
    /\ connections' = [connections EXCEPT ![s] =
                          IF cache[s] # Absent THEN Absent ELSE @]

-----------------------------------------------------------------------------
(* A sync (apply_snapshot) or a drain (drain_all), call by call.           *)

BeginSync(next) ==
    /\ job = Absent
    /\ budget.syncs < MaxSyncs
    /\ job' = [from |-> last_snapshot, next |-> next,
               clock |-> last_snapshot.ptp_clock # next.ptp_clock,
               devices |-> last_snapshot.devices # next.devices,
               left |-> Changed(last_snapshot, next) \cup Added(last_snapshot, next)]
    /\ budget' = [budget EXCEPT !.syncs = @ + 1]
    /\ UNCHANGED <<node, todo, last_snapshot, writer>>

\* The connection to the backend is lost.
BeginDrain ==
    /\ job = Absent
    /\ budget.syncs < MaxSyncs
    /\ job' = [from |-> last_snapshot, next |-> EmptySnapshot, clock |-> FALSE,
               devices |-> FALSE, left |-> Ids(last_snapshot.streams)]
    /\ budget' = [budget EXCEPT !.syncs = @ + 1]
    /\ UNCHANGED <<node, todo, last_snapshot, writer>>

\* Mutant: the files of the senders keep the old clock.
SetClockOnly ==
    /\ job # Absent /\ job.clock
    /\ job' = [job EXCEPT !.clock = FALSE]
    /\ LET gmid == EffectiveGmid(job.next.ptp_clock)
       IN  clock' = [gmid |-> IF gmid \in Gmids THEN gmid ELSE clock.gmid,
                     locked |-> IF gmid \in Gmids
                                THEN EffectiveLocked(job.next.ptp_clock)
                                ELSE clock.locked,
                     domain |-> EffectiveDomain(job.next.ptp_clock)]
    /\ UNCHANGED <<runtime_interfaces, cache, connections, todo, last_snapshot,
                   writer, budget>>

\* set_ptp_clock: the domain is taken in any case, identity and lock only with
\* an identity that is valid; every sender's file is made again.
SetPtpClock ==
    /\ job # Absent /\ job.clock
    /\ job' = [job EXCEPT !.clock = FALSE]
    /\ LET gmid == EffectiveGmid(job.next.ptp_clock)
       IN  clock' = [gmid |-> IF gmid \in Gmids THEN gmid ELSE clock.gmid,
                     locked |-> IF gmid \in Gmids
                                THEN EffectiveLocked(job.next.ptp_clock)
                                ELSE clock.locked,
                     domain |-> EffectiveDomain(job.next.ptp_clock)]
    /\ connections' = [s \in Streams |->
           IF connections[s] = Absent THEN Absent
           ELSE [connections[s] EXCEPT !.file = FileOf(s, connections[s].active, clock')]]
    /\ UNCHANGED <<runtime_interfaces, cache, todo, last_snapshot, writer, budget>>

\* Mutant: only the streams added from now on use the new interfaces.
AssignInterfaces ==
    /\ job # Absent /\ ~job.clock /\ job.devices
    /\ job' = [job EXCEPT !.devices = FALSE]
    /\ runtime_interfaces' = job.next.devices
    /\ UNCHANGED <<clock, cache, connections, todo, last_snapshot, writer, budget>>

\* set_runtime_interfaces: every cached stream is made again.
SetRuntimeInterfaces ==
    /\ job # Absent /\ ~job.clock /\ job.devices
    /\ job' = [job EXCEPT !.devices = FALSE]
    /\ runtime_interfaces' = job.next.devices
    /\ connections' = [s \in Streams |->
           IF cache[s] = Absent THEN connections[s]
           ELSE Replace(s, connections[s], cache[s], job.next.devices)]
    /\ UNCHANGED <<clock, cache, todo, last_snapshot, writer, budget>>

\* One list after the other, and in a list what is removed or updated before what
\* is added, in any order.
Turn(s) ==
    /\ job # Absent /\ ~job.clock /\ ~job.devices
    /\ s \in job.left
    /\ \A t \in job.left :
           \/ ListOf[s] < ListOf[t]
           \/ ListOf[s] = ListOf[t] /\ (t \in Ids(job.from.streams) =>
                                           s \in Ids(job.from.streams))

Apply(s) ==
    /\ Turn(s)
    /\ IF s \in Ids(job.next.streams)
       THEN Write(s, MakeMap(job.next.streams)[s])
       ELSE Remove(s)
    /\ job' = [job EXCEPT !.left = @ \ {s}]
    /\ writer' = [writer EXCEPT ![s] = "snapshot"]
    /\ UNCHANGED <<runtime_interfaces, clock, todo, last_snapshot, budget>>

\* mark_apply_success, or the end of a drain.
EndSync ==
    /\ job # Absent /\ ~job.clock /\ ~job.devices /\ job.left = {}
    /\ last_snapshot' = job.next
    /\ job' = Absent
    /\ UNCHANGED <<node, todo, writer, budget>>

-----------------------------------------------------------------------------
(* IS-05.                                                                  *)

\* What a controller may write to a leg: a source must be the address the
\* constraints allow.
LegEdits(leg, allowed) ==
    {[leg EXCEPT !.enabled = on] : on \in BOOLEAN}
    \cup {[leg EXCEPT !.ip = ip] : ip \in Destinations \cup {Automatic}}
    \cup {[leg EXCEPT !.source = ip] : ip \in {allowed} \ {Unset}}

WithMaster(endpoint, on) == [endpoint EXCEPT !.master = on]

WithLeg(endpoint, i, leg) == [endpoint EXCEPT !.legs[i] = leg]

Edits(s) ==
    LET old == connections[s]
    IN  {WithMaster(old.staged, on) : on \in BOOLEAN}
        \cup UNION {{WithLeg(old.staged, i, leg) :
                        leg \in LegEdits(old.staged.legs[i], old.allowed[i])} :
                    i \in DOMAIN old.staged.legs}

\* A PATCH, with an activation or without one.  The endpoint is locked while an
\* activation is pending.
Patch(s) ==
    /\ budget.patches < MaxPatches
    /\ connections[s] # Absent
    /\ connections[s].scheduled = "no"
    /\ \E staged \in Edits(s), asked \in {"no", "controller"} :
           connections' = [connections EXCEPT ![s].staged = staged,
                                              ![s].scheduled = asked]
    /\ budget' = [budget EXCEPT !.patches = @ + 1]
    /\ UNCHANGED <<runtime_interfaces, clock, cache, todo, daemon, writer>>

\* One that calls the pending activation off, be it a controller's or the Node's.
CancelPatch(s) ==
    /\ connections[s] # Absent
    /\ connections[s].scheduled # "no"
    /\ connections' = [connections EXCEPT ![s].scheduled = "no"]
    /\ writer' = [writer EXCEPT ![s] =
                     IF connections[s].scheduled = "node" THEN "cancel" ELSE @]
    /\ UNCHANGED <<runtime_interfaces, clock, cache, todo, daemon, budget>>

\* The auto resolver.
Resolve(s, legs) ==
    [i \in DOMAIN legs |->
        [legs[i] EXCEPT
            !.ip = IF @ = Automatic THEN DestinationOf(s, cache[s], i) ELSE @,
            !.source = IF @ = Automatic THEN Selection(runtime_interfaces, cache[s])[i]
                                   ELSE @]]

\* Mutant: the handler forgets the second leg.
CachedFirst(s, endpoint) ==
    [i \in DOMAIN endpoint.legs |->
        IF i = 1 THEN [enable |-> endpoint.legs[i].enabled /\ endpoint.master,
                       ip |-> endpoint.legs[i].ip,
                       source |-> endpoint.legs[i].source]
        ELSE cache[s][i]]

\* The activation handler: the configuration the endpoint has become.
ObservedEnable(endpoint, i) == endpoint.legs[i].enabled /\ (i = 1 => endpoint.master)

Observed(s, endpoint) ==
    [i \in DOMAIN endpoint.legs |->
        [enable |-> ObservedEnable(endpoint, i),
         ip |-> endpoint.legs[i].ip,
         source |-> endpoint.legs[i].source]]

\* The library's thread finds a scheduled activation.
Activate(s) ==
    LET old == connections[s]
        active == [master |-> old.staged.master, legs |-> Resolve(s, old.staged.legs)]
    IN  /\ old # Absent
        /\ old.scheduled # "no"
        /\ connections' = [connections EXCEPT ![s] =
               [old EXCEPT !.active = active, !.scheduled = "no",
                           !.file = FileOf(s, active, clock)]]
        /\ cache' = [cache EXCEPT ![s] = Observed(s, active)]
        /\ writer' = [writer EXCEPT ![s] =
                         IF old.scheduled = "controller" \/ @ = "cancel"
                         THEN "controller" ELSE @]
        /\ UNCHANGED <<runtime_interfaces, clock, todo, daemon, budget>>

-----------------------------------------------------------------------------
(* Restarts of the Node.                                                   *)

\* The model is reset, the device is there again, and the caches are copied and
\* emptied.  What an earlier restart had copied and not yet added is lost: nothing
\* can be added to a Node that is told to stop.  The domain number and the interfaces
\* are kept, or the host's are taken if there are none; the store forgets what was
\* applied.
Restart ==
    /\ budget.restarts < MaxRestarts
    /\ runtime_interfaces' = IF runtime_interfaces = <<>> THEN Host
                                                          ELSE runtime_interfaces
    /\ clock' = [clock EXCEPT !.gmid = Unset, !.locked = FALSE]
    /\ cache' = None
    /\ connections' = None
    /\ todo' = cache
    /\ last_snapshot' = EmptySnapshot
    /\ writer' = [s \in Streams |->
                     IF cache[s] # Absent THEN "reinsertion" ELSE writer[s]]
    /\ budget' = [budget EXCEPT !.restarts = @ + 1]
    /\ UNCHANGED job

\* The copies are added while a sync may go on: the lists of senders first.
Reinserted(s) == IF s \in Receivers THEN ListOf[s] + 6 ELSE ListOf[s]

Reinsert(s) ==
    /\ todo[s] # Absent
    /\ \A t \in Streams : todo[t] # Absent => Reinserted(s) <= Reinserted(t)
    /\ Write(s, todo[s])
    /\ todo' = [todo EXCEPT ![s] = Absent]
    /\ writer' = [writer EXCEPT ![s] = "reinsertion"]
    /\ UNCHANGED <<runtime_interfaces, clock, daemon, budget>>

-----------------------------------------------------------------------------

Sync ==
    \/ SetPtpClock \/ SetRuntimeInterfaces
    \/ \E s \in Streams : Apply(s)
    \/ EndSync

Next ==
    \/ \E next \in Offers : BeginSync(next)
    \/ BeginDrain \/ Sync
    \/ \E s \in Streams : Patch(s) \/ CancelPatch(s) \/ Activate(s) \/ Reinsert(s)
    \/ Restart

Spec == Init /\ [][Next]_vars

\* The sync thread, the library's and the one that reinserts go on; snapshots,
\* controllers and restarts come when they like.
Fairness ==
    /\ WF_vars(Sync)
    /\ WF_vars(\E s \in Streams : Reinsert(s))
    /\ \A s \in Streams : WF_vars(Activate(s))

FairSpec == Spec /\ Fairness

-----------------------------------------------------------------------------
(* Properties                                                              *)

\* No activation is pending, and none of the Node's own was called off.
Settled(s) ==
    connections[s] # Absent /\ connections[s].scheduled = "no" /\ writer[s] # "cancel"

Sends(s, i) ==
    connections[s].active.master /\ connections[s].active.legs[i].enabled

\* Between two syncs the Node has the streams of the last snapshot, wherever no
\* controller and no reinsertion had the last word: no others, and each sender
\* sends, leg by leg, to the snapshot's destinations and only if the snapshot
\* enables it.
SnapshotIsApplied ==
    job = Absent =>
        \A s \in Streams :
            writer[s] = "snapshot" =>
                LET wanted == MakeMap(last_snapshot.streams)
                IN  /\ s \in DOMAIN wanted <=> cache[s] # Absent
                    /\ s \in Senders /\ Settled(s) =>
                           \A i \in DOMAIN wanted[s] :
                               /\ connections[s].active.legs[i].ip = wanted[s][i].ip
                               /\ Sends(s, i) <=> wanted[s][1].enable /\ wanted[s][i].enable

\* A sender with no activation pending sends what its cached configuration says,
\* which is what the backend was told and what a restart reinserts.
SendersSettle ==
    \A s \in Senders : Settled(s) =>
        \A i \in DOMAIN connections[s].active.legs :
            LET leg == connections[s].active.legs[i]
            IN  /\ cache[s][i].ip = leg.ip
                /\ cache[s][i].source = leg.source
                /\ cache[s][i].enable <=> IF i = 1 THEN Sends(s, i) ELSE leg.enabled

\* Each leg of such a sender uses an address some interface has, if any has one,
\* also after the interfaces, the configuration or the process of the Node changed.
SendersUseAnInterface ==
    AddressesOf(runtime_interfaces) # {} =>
        \A s \in Senders : Settled(s) =>
            \A i \in DOMAIN connections[s].active.legs :
                connections[s].active.legs[i].source \in AddressesOf(runtime_interfaces)

\* The endpoints and the cached configuration of a stream agree on its legs.
LegsAgree ==
    \A s \in Streams :
        IF connections[s] = Absent THEN cache[s] = Absent
        ELSE /\ cache[s] # Absent
             /\ DOMAIN connections[s].active.legs = DOMAIN cache[s]
             /\ DOMAIN connections[s].staged.legs = DOMAIN cache[s]

\* A sender's SDP file, once it has one, is of what is active and of the clock.
TransportFilesAreCurrent ==
    \A s \in Senders :
        connections[s] # Absent /\ connections[s].file # NoFile =>
            connections[s].file = FileOf(s, connections[s].active, clock)

\* Neither a snapshot nor a change of the interfaces interrupts a stream: what is
\* active changes by an activation, or with the number of legs.
SyncsKeepConnections ==
    [][\A s \in Streams :
          connections[s] # Absent /\ connections'[s] # Absent =>
              \/ connections'[s].active = connections[s].active
              \/ connections[s].scheduled # "no" /\ connections'[s].scheduled = "no"
              \/ DOMAIN connections'[s].active.legs # DOMAIN connections[s].active.legs]_vars

\* A sender that was added or changed is activated in the end, unless it is removed
\* or a controller calls that off: no leg of it waits for an address for ever.
SendersGoOut ==
    \A s \in Senders :
        cache[s] # Absent ~>
            \/ cache[s] = Absent \/ writer[s] = "cancel"
            \/ \A i \in DOMAIN connections[s].active.legs :
                   connections[s].active.legs[i].ip # Automatic

=============================================================================
