---------------------------- MODULE NodeResources ----------------------------
(***************************************************************************)
(* The streams a Node holds (src/src/node.cpp): the resources of each in   *)
(* the NMOS model, the cache they are made again from after a restart, the *)
(* list of ids the device resource shows, and the locks around them.       *)
(*                                                                         *)
(* Threads: "reconcile" makes the calls of NodeRuntime, "reinsert" is the  *)
(* server thread that puts the cached streams back after a start, and      *)
(* "activate" is the library's thread that applies IS-05 activations.      *)
(*                                                                         *)
(* The model's write lock protects everything; sender_mutex_ and           *)
(* receiver_mutex_ protect the caches too.  insert_resource_after and      *)
(* remove_resource_after wait on a condition first, which releases the     *)
(* write lock for a moment even if the delay is 0: every resource goes in  *)
(* or out in an action of its own.                                         *)
(***************************************************************************)
EXTENDS Integers, Sequences

CONSTANTS
    Streams,      \* ids of streams
    Receivers,    \* those of receivers; the others are senders
    Ancillary,    \* the ancillary ones of both
    Contents,     \* configurations of a stream
    Unusable,     \* those make_*_resources refuses
    Absent,       \* no such resource
    MaxCalls,     \* bound: calls of NodeRuntime
    MaxRestarts   \* bound: restarts of the Node

ASSUME NodeAssumption ==
    /\ Receivers \cup Ancillary \subseteq Streams
    /\ Unusable \subseteq Contents
    /\ Absent \notin Contents \cup Streams
    /\ \A some \in SUBSET Streams : some # Absent
    /\ {MaxCalls, MaxRestarts} \subseteq Nat

VARIABLES
    resources,       \* node_model_: the resources of each stream
    device,          \* the streams the device resource lists, or that it is Absent
    ids,             \* sender_ids_, receiver_ids_: how often each is in them
    cache,           \* video_senders ... ancillary_receivers: what each stream has there
    model_lock,      \* who holds node_model_'s write lock between two actions
    receiver_mutex,  \* who holds receiver_mutex_ between two actions
    shutdown,        \* node_model_.shutdown
    phase,           \* of the Node's life
    todo,            \* reinsert_cached_resources' copies, not yet added
    at,              \* program counters
    op,              \* the call a thread is in
    budget,          \* calls and restarts so far
    met,             \* history: the call of NodeRuntime has met a starting Node
    crossed          \* history: the streams of calls that ever did

model == <<resources, device, ids, cache>>
locks == <<model_lock, receiver_mutex>>
life  == <<shutdown, phase>>
past  == <<met, crossed>>
vars  == <<model, locks, life, todo, at, op, budget, past>>

Workers == {"reconcile", "reinsert"}
Threads == Workers \cup {"activate"}

Senders == Streams \ Receivers

\* "endpoint" is the sender or receiver resource, "connection" its IS-05 twin.
Parts == {"source", "flow", "endpoint", "connection"}

PartsOf(s) == IF s \in Receivers THEN {"endpoint", "connection"} ELSE Parts

InsertOrder(s) == IF s \in Receivers THEN <<"endpoint", "connection">>
                  ELSE <<"source", "flow", "endpoint", "connection">>

\* Mutant: a sender's source goes first.
RemoveOrderAsInserted(s) == InsertOrder(s)

RemoveOrder(s) == IF s \in Receivers THEN <<"connection", "endpoint">>
                  ELSE <<"endpoint", "connection", "source", "flow">>

NoOp == [kind |-> "none", step |-> 0]

Ops == [kind : {"add", "update", "remove"}, s : Streams, content : Contents,
        step : 1..4] \cup {NoOp}

WorkerPcs ==
    {"idle", "add_check", "add_lock", "inserting", "caching",
     "update_check", "update_lock", "recaching",
     "remove_check", "remove_lock", "remove_mutex", "removing", "uncaching"}

Pcs == WorkerPcs \cup {"device", "copy_senders", "copy_receivers", "next", "finding"}

TypeOK ==
    /\ resources \in [Streams -> [Parts -> Contents \cup {Absent}]]
    /\ device = Absent \/ device \subseteq Streams
    /\ ids \in [Streams -> Nat]
    /\ cache \in [Streams -> Seq(Contents)]
    /\ model_lock \in {"free", "reconcile", "reinsert", "activate"}
    /\ receiver_mutex \in {"free"} \cup Workers
    /\ shutdown \in BOOLEAN
    /\ phase \in {"up", "starting", "failed", "stopping", "down"}
    /\ todo \in [Streams -> Seq(Contents)]
    /\ at \in [Threads -> Pcs]
    /\ at["reconcile"] \in WorkerPcs /\ at["activate"] \in {"idle", "finding"}
    /\ op \in [Workers -> Ops]
    /\ budget \in [calls : 0..MaxCalls, restarts : 0..MaxRestarts]
    /\ met \in BOOLEAN
    /\ crossed \subseteq Streams

NoEntries == [s \in Streams |-> <<>>]

NoResources == [s \in Streams |-> [p \in Parts |-> Absent]]

\* start() has returned for the first time.
Init ==
    /\ resources = NoResources
    /\ device = Absent
    /\ ids = [s \in Streams |-> 0]
    /\ cache = NoEntries
    /\ model_lock = "free"
    /\ receiver_mutex = "free"
    /\ shutdown = FALSE
    /\ phase = "starting"
    /\ todo = NoEntries
    /\ at = [t \in Threads |-> IF t = "reinsert" THEN "device" ELSE "idle"]
    /\ op = [t \in Workers |-> NoOp]
    /\ budget = [calls |-> 0, restarts |-> 0]
    /\ met = FALSE
    /\ crossed = {}

-----------------------------------------------------------------------------

Cached(s) == cache[s] # <<>>

\* find_*_by_id in the cache, under its mutex.
CacheFree(s) == s \in Receivers => receiver_mutex = "free"

Goto(t, pc, next) ==
    /\ at[t] = pc
    /\ at' = [at EXCEPT ![t] = next]

\* The device is modified if it is in the model.
DeviceLists(counts) ==
    device' = IF device = Absent THEN Absent ELSE {s \in Streams : counts[s] > 0}

\* A Node that shuts down is down for its callers when no copy is left to fail.
Reinserting ==
    \/ at["reinsert"] \notin {"idle", "next"}
    \/ todo # NoEntries

\* The Node as its callers may see it.
stage ==
    IF phase = "stopping" THEN IF Reinserting THEN "starting" ELSE "down"
                          ELSE phase

\* A call returns.  The thread that reinserts goes on with the next stream.
Return(t) ==
    /\ op' = [op EXCEPT ![t] = NoOp]
    /\ at' = [at EXCEPT ![t] = IF t = "reinsert" THEN "next" ELSE "idle"]
    /\ UNCHANGED todo

\* A call throws.  thread_run catches it, and the copies not yet added are gone.
Throw(t) ==
    /\ op' = [op EXCEPT ![t] = NoOp]
    /\ at' = [at EXCEPT ![t] = IF t = "reinsert" THEN "next" ELSE "idle"]
    /\ todo' = IF t = "reinsert" THEN NoEntries ELSE todo

-----------------------------------------------------------------------------
(* NodeRuntime's calls.                                                    *)

Call(kind, s, content) ==
    /\ budget.calls < MaxCalls
    /\ at["reconcile"] = "idle"
    /\ at' = [at EXCEPT !["reconcile"] =
                 CASE kind = "add" -> "add_check"
                   [] kind = "update" -> "update_check"
                   [] kind = "remove" -> IF s \in Receivers THEN "remove_lock"
                                         ELSE "remove_check"]
    /\ op' = [op EXCEPT !["reconcile"] =
                 [kind |-> kind, s |-> s, content |-> content, step |-> 1]]
    /\ budget' = [budget EXCEPT !.calls = @ + 1]
    /\ met' = (stage = "starting")
    /\ crossed' = IF stage = "starting" THEN crossed \cup {s} ELSE crossed
    /\ UNCHANGED <<model, locks, life, todo>>

-----------------------------------------------------------------------------
(* add_*_sender, add_*_receiver                                            *)

\* Mutant: adding a stream that is there changes nothing.
AddCheckKeeping(t) ==
    /\ at[t] = "add_check"
    /\ CacheFree(op[t].s)
    /\ IF Cached(op[t].s) THEN Return(t)
       ELSE /\ at' = [at EXCEPT ![t] = "add_lock"]
            /\ UNCHANGED <<todo, op>>
    /\ UNCHANGED <<model, locks, life, budget, past>>

AddCheck(t) ==
    /\ at[t] = "add_check"
    /\ CacheFree(op[t].s)
    /\ Goto(t, "add_check", IF Cached(op[t].s) THEN "update_check" ELSE "add_lock")
    /\ UNCHANGED <<model, locks, life, todo, op, budget, past>>

\* add_ancillary_sender is the one that does not erase what is left of an older
\* stream with the same id.
Erases(s) == s \in Receivers \/ s \notin Ancillary

\* The write lock is taken, and the resources are made.
AddLock(t) ==
    /\ at[t] = "add_lock"
    /\ model_lock = "free"
    /\ IF op[t].content \in Unusable
       THEN Throw(t) /\ UNCHANGED resources
       ELSE /\ resources' = [resources EXCEPT ![op[t].s] =
                   IF Erases(op[t].s) THEN [p \in Parts |-> Absent] ELSE @]
            /\ at' = [at EXCEPT ![t] = "inserting"]
            /\ UNCHANGED <<todo, op>>
    /\ UNCHANGED <<device, ids, cache, locks, life, budget, past>>

\* insert_resource_after, after its wait: it fails if the Node is shutting down
\* or the resource is there already, and what this call inserted is erased.  The
\* lock stays taken after the last resource.
InsertPart(t) ==
    LET s == op[t].s
        order == InsertOrder(s)
        part == order[op[t].step]
        earlier == {order[i] : i \in 1..op[t].step - 1}
    IN  /\ at[t] = "inserting"
        /\ model_lock = "free"
        /\ IF shutdown \/ resources[s][part] # Absent
           THEN /\ resources' = [resources EXCEPT ![s] =
                       [p \in Parts |-> IF p \in earlier THEN Absent ELSE @[p]]]
                /\ Throw(t)
                /\ UNCHANGED model_lock
           ELSE /\ resources' = [resources EXCEPT ![s][part] = op[t].content]
                /\ IF op[t].step = Len(order)
                   THEN /\ model_lock' = t
                        /\ at' = [at EXCEPT ![t] = "caching"]
                        /\ UNCHANGED op
                   ELSE /\ op' = [op EXCEPT ![t].step = @ + 1]
                        /\ UNCHANGED <<model_lock, at>>
                /\ UNCHANGED todo
        /\ UNCHANGED <<device, ids, cache, receiver_mutex, life, budget, past>>

AddCaches(t) ==
    /\ at[t] = "caching"
    /\ CacheFree(op[t].s)
    /\ cache' = [cache EXCEPT ![op[t].s] = Append(@, op[t].content)]
    /\ ids' = [ids EXCEPT ![op[t].s] = @ + 1]
    /\ DeviceLists(ids')
    /\ model_lock' = "free"
    /\ Return(t)
    /\ UNCHANGED <<resources, receiver_mutex, life, budget, past>>

-----------------------------------------------------------------------------
(* update_*_sender, update_*_receiver                                      *)

UpdateCheck(t) ==
    /\ at[t] = "update_check"
    /\ CacheFree(op[t].s)
    /\ Goto(t, "update_check", IF Cached(op[t].s) THEN "update_lock" ELSE "add_check")
    /\ UNCHANGED <<model, locks, life, todo, op, budget, past>>

Replace(s, parts, content) ==
    resources' = [resources EXCEPT ![s] =
                     [p \in Parts |-> IF p \in parts /\ @[p] # Absent
                                      THEN content ELSE @[p]]]

\* replace_*_resources: the node resources that are there are replaced, and the
\* connection only if none of them is missing.
UpdateLock(t) ==
    LET s == op[t].s
        node_parts == PartsOf(s) \ {"connection"}
        whole == \A p \in node_parts : resources[s][p] # Absent
    IN  /\ at[t] = "update_lock"
        /\ model_lock = "free"
        /\ IF op[t].content \in Unusable
           THEN Throw(t) /\ UNCHANGED <<resources, model_lock>>
           ELSE /\ Replace(s, IF whole THEN PartsOf(s) ELSE node_parts, op[t].content)
                /\ IF whole /\ resources[s]["connection"] # Absent
                   THEN /\ model_lock' = t
                        /\ at' = [at EXCEPT ![t] = "recaching"]
                        /\ UNCHANGED <<todo, op>>
                   ELSE Throw(t) /\ UNCHANGED model_lock
        /\ UNCHANGED <<device, ids, cache, receiver_mutex, life, budget, past>>

\* Mutant: an update leaves the cache as it was.
UpdateCachesNothing(t) ==
    /\ at[t] = "recaching"
    /\ CacheFree(op[t].s)
    /\ model_lock' = "free"
    /\ Return(t)
    /\ UNCHANGED <<model, receiver_mutex, life, budget, past>>

\* replace_cached_by_id replaces the first entry it finds.
UpdateCaches(t) ==
    LET s == op[t].s
    IN  /\ at[t] = "recaching"
        /\ CacheFree(s)
        /\ cache' = [cache EXCEPT ![s] =
                        IF Cached(s) THEN <<op[t].content>> \o Tail(@) ELSE @]
        /\ model_lock' = "free"
        /\ Return(t)
        /\ UNCHANGED <<resources, device, ids, receiver_mutex, life, budget, past>>

-----------------------------------------------------------------------------
(* remove_*_sender, remove_*_receiver                                      *)

RemoveCheck(t) ==
    /\ at[t] = "remove_check"
    /\ IF Cached(op[t].s)
       THEN /\ at' = [at EXCEPT ![t] = "remove_lock"]
            /\ UNCHANGED <<todo, op>>
       ELSE Return(t)
    /\ UNCHANGED <<model, locks, life, budget, past>>

RemoveLock(t) ==
    /\ at[t] = "remove_lock"
    /\ model_lock = "free"
    /\ Goto(t, "remove_lock", IF op[t].s \in Receivers THEN "remove_mutex"
                                                      ELSE "removing")
    /\ model_lock' = IF op[t].s \in Receivers THEN t ELSE "free"
    /\ UNCHANGED <<model, receiver_mutex, life, todo, op, budget, past>>

\* Mutant: the id is taken off the list without looking for it.
ForgetWithoutLooking(s) ==
    /\ ids' = [ids EXCEPT ![s] = @ - 1]
    /\ DeviceLists(ids')

Forget(s) ==
    /\ ids' = [ids EXCEPT ![s] = IF @ > 0 THEN @ - 1 ELSE 0]
    /\ DeviceLists(ids')

\* A receiver: the mutex is taken, and kept while the resources are removed; the
\* id is taken off first.
RemoveMutex(t) ==
    LET s == op[t].s
    IN  /\ at[t] = "remove_mutex"
        /\ receiver_mutex = "free"
        /\ IF Cached(s)
           THEN /\ receiver_mutex' = t
                /\ Forget(s)
                /\ at' = [at EXCEPT ![t] = "removing"]
                /\ UNCHANGED <<todo, op>>
           ELSE Return(t) /\ UNCHANGED <<receiver_mutex, ids, device>>
        /\ model_lock' = "free"
        /\ UNCHANGED <<resources, cache, life, budget, past>>

\* Mutant: a resource is removed only from a Node that is not shutting down.
RemovePartOfRunningNode(t) ==
    LET s == op[t].s
        part == RemoveOrder(s)[op[t].step]
    IN  /\ at[t] = "removing"
        /\ model_lock = "free"
        /\ ~shutdown
        /\ resources' = [resources EXCEPT ![s][part] = Absent]
        /\ IF op[t].step = Len(RemoveOrder(s))
           THEN /\ model_lock' = t
                /\ at' = [at EXCEPT ![t] = "uncaching"]
                /\ UNCHANGED op
           ELSE /\ op' = [op EXCEPT ![t].step = @ + 1]
                /\ UNCHANGED <<model_lock, at>>
        /\ UNCHANGED <<device, ids, cache, receiver_mutex, life, todo, budget, past>>

\* remove_resource_after, whose result nobody looks at: it erases nothing from a
\* Node that is shutting down.
RemovePart(t) ==
    LET s == op[t].s
        part == RemoveOrder(s)[op[t].step]
    IN  /\ at[t] = "removing"
        /\ model_lock = "free"
        /\ resources' = IF shutdown THEN resources
                        ELSE [resources EXCEPT ![s][part] = Absent]
        /\ IF op[t].step = Len(RemoveOrder(s))
           THEN /\ model_lock' = t
                /\ at' = [at EXCEPT ![t] = "uncaching"]
                /\ UNCHANGED op
           ELSE /\ op' = [op EXCEPT ![t].step = @ + 1]
                /\ UNCHANGED <<model_lock, at>>
        /\ UNCHANGED <<device, ids, cache, receiver_mutex, life, todo, budget, past>>

\* Mutant: a sender's id stays in the list.
UncacheOnly(t) ==
    /\ at[t] = "uncaching"
    /\ cache' = [cache EXCEPT ![op[t].s] = <<>>]
    /\ receiver_mutex' = IF op[t].s \in Receivers THEN "free" ELSE receiver_mutex
    /\ model_lock' = "free"
    /\ Return(t)
    /\ UNCHANGED <<resources, device, ids, life, budget, past>>

\* Every entry of the stream leaves the cache, a sender's id the list.
Uncache(t) ==
    LET s == op[t].s
    IN  /\ at[t] = "uncaching"
        /\ cache' = [cache EXCEPT ![s] = <<>>]
        /\ IF s \in Receivers
           THEN receiver_mutex' = "free" /\ UNCHANGED <<ids, device>>
           ELSE Forget(s) /\ UNCHANGED receiver_mutex
        /\ model_lock' = "free"
        /\ Return(t)
        /\ UNCHANGED <<resources, life, budget, past>>

-----------------------------------------------------------------------------
(* An IS-05 activation of a stream: the library's thread holds the write   *)
(* lock while the handler looks for the stream in the caches.              *)

ActivationBegins ==
    /\ \E s \in Streams : \A p \in PartsOf(s) : resources[s][p] # Absent
    /\ ~shutdown
    /\ model_lock = "free"
    /\ Goto("activate", "idle", "finding")
    /\ model_lock' = "activate"
    /\ UNCHANGED <<model, receiver_mutex, life, todo, op, budget, past>>

Activated ==
    /\ receiver_mutex = "free"
    /\ Goto("activate", "finding", "idle")
    /\ model_lock' = "free"
    /\ UNCHANGED <<model, receiver_mutex, life, todo, op, budget, past>>

-----------------------------------------------------------------------------
(* The life of the Node.                                                   *)

\* stop() tells everyone; no more than the flag, yet.
StopShuts ==
    /\ phase \in {"up", "starting", "failed"}
    /\ budget.restarts < MaxRestarts
    /\ model_lock = "free"
    /\ shutdown' = TRUE
    /\ phase' = "stopping"
    /\ budget' = [budget EXCEPT !.restarts = @ + 1]
    /\ UNCHANGED <<model, locks, todo, at, op, past>>

\* The worker, and with it the server's threads, have been joined.
Stopped ==
    /\ phase = "stopping"
    /\ at["reinsert"] = "idle" /\ at["activate"] = "idle"
    /\ phase' = "down"
    /\ UNCHANGED <<model, locks, shutdown, todo, at, op, budget, past>>

\* Mutant: the caches are cleared with the model.
StartForgetting ==
    /\ phase = "down"
    /\ model_lock = "free"
    /\ resources' = NoResources
    /\ device' = Absent
    /\ ids' = [s \in Streams |-> 0]
    /\ cache' = NoEntries
    /\ shutdown' = FALSE
    /\ phase' = "starting"
    /\ at' = [at EXCEPT !["reinsert"] = "device"]
    /\ UNCHANGED <<locks, todo, op, budget, past>>

\* reset_model_state, and a new worker, which has begun its server or has failed
\* to.  A call of NodeRuntime may be under way.
Start ==
    /\ phase = "down"
    /\ model_lock = "free"
    /\ resources' = NoResources
    /\ device' = Absent
    /\ ids' = [s \in Streams |-> 0]
    /\ shutdown' = FALSE
    /\ \/ /\ phase' = "starting"
          /\ at' = [at EXCEPT !["reinsert"] = "device"]
       \/ phase' = "failed" /\ UNCHANGED at
    /\ met' = (op["reconcile"] # NoOp \/ met)
    /\ crossed' = IF op["reconcile"] = NoOp THEN crossed
                  ELSE crossed \cup {op["reconcile"].s}
    /\ UNCHANGED <<cache, locks, todo, op, budget>>

\* init_device; without a device nothing is reinserted.
InitDevice ==
    /\ model_lock = "free"
    /\ Goto("reinsert", "device", IF shutdown THEN "next" ELSE "copy_senders")
    /\ device' = IF shutdown THEN device ELSE {}
    /\ UNCHANGED <<resources, ids, cache, locks, life, todo, op, budget, past>>

\* Of some entries those of the streams in a set.
Of(entries, some) == [s \in Streams |-> IF s \in some THEN entries[s] ELSE <<>>]

\* reinsert_cached_resources: the caches, if they are not all empty, are copied
\* and emptied, ...
CopySenders ==
    /\ receiver_mutex = "free"
    /\ Goto("reinsert", "copy_senders",
            IF cache = NoEntries THEN "next" ELSE "copy_receivers")
    /\ todo' = Of(cache, Senders)
    /\ cache' = Of(cache, Receivers)
    /\ UNCHANGED <<resources, device, ids, locks, life, op, budget, past>>

CopyReceivers ==
    /\ receiver_mutex = "free"
    /\ Goto("reinsert", "copy_receivers", "next")
    /\ todo' = [s \in Streams |-> IF s \in Receivers THEN cache[s] ELSE todo[s]]
    /\ cache' = Of(cache, Senders)
    /\ UNCHANGED <<resources, device, ids, locks, life, op, budget, past>>

\* ... and each copy is added as NodeRuntime adds it, those of senders first.
ReinsertNext ==
    /\ Goto("reinsert", "next", "add_check")
    /\ \E s \in Streams :
          /\ todo[s] # <<>>
          /\ s \in Receivers => \A r \in Senders : todo[r] = <<>>
          /\ op' = [op EXCEPT !["reinsert"] =
                       [kind |-> "add", s |-> s, content |-> Head(todo[s]), step |-> 1]]
          /\ todo' = [todo EXCEPT ![s] = Tail(@)]
    /\ UNCHANGED <<model, locks, life, budget, past>>

\* init() is over.
Reinserted ==
    /\ todo = NoEntries
    /\ Goto("reinsert", "next", "idle")
    /\ phase' = IF phase = "starting" THEN "up" ELSE phase
    /\ UNCHANGED <<model, locks, shutdown, todo, op, budget, past>>

-----------------------------------------------------------------------------

\* A call that is under way, of NodeRuntime or of the reinsertion.
Step(t) ==
    \/ AddCheck(t) \/ AddLock(t) \/ InsertPart(t) \/ AddCaches(t)
    \/ UpdateCheck(t) \/ UpdateLock(t) \/ UpdateCaches(t)
    \/ RemoveCheck(t) \/ RemoveLock(t) \/ RemoveMutex(t) \/ RemovePart(t)
    \/ Uncache(t)

Calls == \E kind \in {"add", "update", "remove"}, s \in Streams, c \in Contents :
             Call(kind, s, c)

Reinsert == InitDevice \/ CopySenders \/ CopyReceivers \/ ReinsertNext \/ Reinserted

Next ==
    \/ Calls \/ \E t \in Workers : Step(t)
    \/ ActivationBegins \/ Activated
    \/ StopShuts \/ Stopped \/ Start \/ Reinsert

Spec == Init /\ [][Next]_vars

\* A thread gets the lock it waits for if the lock keeps being released.  Nothing
\* is fair about calls, activations and restarts.
Fairness ==
    /\ \A t \in Workers : SF_vars(Step(t))
    /\ WF_vars(Activated)

FairSpec == Spec /\ Fairness

-----------------------------------------------------------------------------
(* Properties                                                              *)

\* Nothing is under way, and the Node is up with its cached streams reinserted.
Quiet == phase = "up" /\ at["reconcile"] = "idle"

Whole(s) == \A p \in PartsOf(s) : resources[s][p] # Absent
Gone(s) == \A p \in Parts : resources[s][p] = Absent

\* Whatever calls failed, and whatever was done to a Node that was down, a Node
\* that is up has every cached stream once, complete and listed, and of the others
\* no trace; but for the streams of calls that met a starting Node, of which
\* reconcile and the reinsertion may both have added some.
CacheMatchesModel ==
    Quiet => \A s \in Streams \ crossed :
        \/ /\ Len(cache[s]) = 1
           /\ Whole(s) /\ ids[s] = 1 /\ s \in device
        \/ cache[s] = <<>> /\ Gone(s) /\ ids[s] = 0 /\ s \notin device

\* No stream is half updated: its resources are made from its cached form.
NoHalfUpdate ==
    Quiet => \A s \in Streams \ crossed, p \in Parts :
        Cached(s) => resources[s][p] \in {Absent, Head(cache[s])}

\* A sender in the model has its flow and its source, also halfway through a call
\* or a restart.
SendersAreComplete ==
    \A s \in Senders \ crossed :
        resources[s]["endpoint"] # Absent =>
            resources[s]["source"] # Absent /\ resources[s]["flow"] # Absent

\* What the Node will have again after a restart, copies in flight included.
Kept(s) ==
    \/ Cached(s)
    \/ todo[s] # <<>>
    \/ op["reinsert"] # NoOp /\ op["reinsert"].s = s

\* A stream is lost only to a call that removes it, to a stop that interrupts the
\* reinsertion, or to a call that the reinsertion stumbles over.
RestartsKeepStreams ==
    [][\A s \in Streams :
          Kept(s) /\ ~Kept(s)' =>
              \/ at["reconcile"] = "uncaching" /\ op["reconcile"].s = s
              \/ at["reinsert"] = "inserting" /\ shutdown
              \/ op["reinsert"] # NoOp /\ crossed # {}]_vars

\* What the Node holds, as its callers see it: a copy that is to be added, or is
\* being added, and else what is cached.
held ==
    [s \in Streams |->
        IF op["reinsert"] # NoOp /\ op["reinsert"].s = s THEN op["reinsert"].content
        ELSE IF todo[s] # <<>> THEN Head(todo[s])
        ELSE IF Cached(s) THEN Head(cache[s])
        ELSE Absent]

asked ==
    LET call == op["reconcile"]
    IN  IF call = NoOp THEN [s |-> Absent, to |-> Absent]
        ELSE [s |-> call.s, to |-> IF call.kind = "remove" THEN Absent ELSE call.content]

Contract == INSTANCE NodeContract

\* Calls, the reinsertion and restarts, whenever they come, keep the contract that
\* App is built on: through a stop and a start every stream comes back as it was,
\* it is added, changed or removed only as a call asks, and only a call that meets
\* a starting Node may be without effect.
ImplementsNodeContract == Contract!Spec

\* The phase of the Node, as its worker and its server's thread have it.
servicePhase ==
    CASE phase = "down" -> "down"
      [] phase = "failed" -> "starting"
      [] phase = "starting" -> IF at["reinsert"] = "device" THEN "starting" ELSE "serving"
      [] phase = "up" -> "serving"
      [] phase = "stopping" -> IF at["reinsert"] = "idle" THEN "closed" ELSE "closing"

Phases == INSTANCE NodePhases WITH phase <- servicePhase

\* The Node goes through the phases that its life cycle gives it.
ImplementsNodePhases == Phases!Spec

\* A call that has not met a starting Node has done what it was asked for when it
\* ends, or has thrown and changed nothing of what the Node holds.  It throws only
\* for a configuration the Node refuses, or for a stream that is not whole in the
\* model: because the Node shuts down, is down or has failed to start, or because an
\* earlier call crossed its reinsertion.
CallsDoAsTold ==
    [][at["reconcile"] # "idle" /\ at'["reconcile"] = "idle" =>
          LET call == op["reconcile"]
              s == call.s
          IN  \/ met
              \/ held'[s] = IF call.kind = "remove" THEN Absent ELSE call.content
              \/ /\ UNCHANGED held
                 /\ call.kind # "remove"
                 /\ \/ call.content \in Unusable
                    \/ s \in crossed
                    \/ (shutdown \/ phase = "failed") /\ ~(Cached(s) /\ Whole(s))]_vars

\* A call of NodeRuntime returns or throws, whether the Node is up or down.
CallsReturn == at["reconcile"] # "idle" ~> at["reconcile"] = "idle"

-----------------------------------------------------------------------------
(* What the documents ask and the code does not always do.                 *)

\* SECURITY_AUDIT_REPORT_2026-03-04.md, H-02: one locking strategy for callbacks
\* and receivers.  Nobody waits for receiver_mutex_ with the write lock in hand
\* while the thread that has receiver_mutex_ needs the write lock to go on.
LocksAreOrdered ==
    ~ /\ receiver_mutex # "free"
      /\ model_lock \notin {"free", receiver_mutex}

=============================================================================
