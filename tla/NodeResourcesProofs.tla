------------------------- MODULE NodeResourcesProofs -------------------------
(***************************************************************************)
(* What holds of the streams a Node holds for any streams, configurations, *)
(* calls and restarts, whenever these come.                                *)
(***************************************************************************)
EXTENDS NodeResources, TLAPS

-----------------------------------------------------------------------------
(* The types, and what a call in progress consists of.                     *)

CallPcs == WorkerPcs \ {"idle"}

Early == {"add_check", "add_lock", "update_check", "update_lock",
          "remove_check", "remove_lock", "remove_mutex"}

CallOps == [kind : {"add", "update", "remove"}, s : Streams, content : Contents,
            step : 1..4]

Last(s) == IF s \in Receivers THEN 2 ELSE 4

OpsOK ==
    \A t \in Workers :
        /\ at[t] \in CallPcs => op[t] \in CallOps
        /\ at[t] \notin CallPcs => op[t] = NoOp
        /\ at[t] \in Early => op[t].step = 1
        /\ at[t] \in {"inserting", "removing"} => op[t].step <= Last(op[t].s)

TInv == TypeOK /\ OpsOK

-----------------------------------------------------------------------------
(* Who may be at work when.                                                *)

\* Nothing is reinserted while the Node is up, has failed to start or is down.
Parked == phase \in {"up", "failed", "down"} => at["reinsert"] = "idle"

\* A call that meets a starting Node is one of a crossed stream, so that the
\* reinsertion has every other stream to itself.
PhaseTracked ==
    /\ Parked
    /\ shutdown <=> phase \in {"stopping", "down"}
    /\ at["reconcile"] \in CallPcs /\ stage = "starting" => met
    /\ at["reconcile"] \in CallPcs /\ met => op["reconcile"].s \in crossed
    /\ \/ phase = "up"
       \/ phase = "starting" /\ at["reinsert"] # "device"
       => device # Absent

Holding == {"caching", "recaching", "remove_mutex", "uncaching"}

LocksTracked ==
    /\ \A t \in Workers : at[t] \in Holding => model_lock = t
    /\ at["activate"] = "finding" => model_lock = "activate"
    /\ \A t \in Workers : at[t] = "caching" => ~shutdown

\* The reinsertion only adds, but for streams a call has crossed it at.
Adds == {"add_check", "add_lock", "inserting", "caching"}

ReinsertionAdds ==
    /\ at["reinsert"] \in CallPcs =>
          \/ at["reinsert"] \in Adds
          \/ op["reinsert"].s \in crossed
    /\ at["reinsert"] \in CallPcs => op["reinsert"].kind = "add"
    /\ at["reinsert"] \in {"idle", "device", "copy_senders"} => todo = NoEntries
    /\ at["reinsert"] = "copy_receivers" => \A s \in Receivers : todo[s] = <<>>

-----------------------------------------------------------------------------
(* A stream that no call has crossed is in at most one place.              *)

Good == Contents \ Unusable

Slots == {<<>>} \cup {<<c>> : c \in Good}

Adding(t, s) == at[t] \in Adds /\ op[t].s = s

\* Only what can be made is kept or on its way.
UsableOnly ==
    /\ cache \in [Streams -> Seq(Good)] /\ todo \in [Streams -> Seq(Good)]
    /\ at["reinsert"] \in CallPcs => op["reinsert"].content \in Good
    /\ \A t \in Workers : at[t] \in {"inserting", "caching", "recaching"} =>
          op[t].content \in Good

\* A call that met no reinsertion finds the cache as it left it.
CallTracked ==
    LET pc == at["reconcile"]
        entries == cache[op["reconcile"].s]
    IN  pc \in CallPcs /\ ~met =>
            /\ pc \in {"add_lock", "inserting", "caching"} => entries = <<>>
            /\ \/ pc \in {"update_lock", "recaching", "removing", "uncaching"}
               \/ pc = "remove_lock" /\ op["reconcile"].s \in Senders
               => entries # <<>>

OneCopy ==
    /\ UsableOnly
    /\ CallTracked
    /\ \A s \in Streams \ crossed :
          /\ cache[s] \in Slots /\ todo[s] \in Slots
          /\ cache[s] = <<>> \/ todo[s] = <<>>
          /\ Adding("reinsert", s) => cache[s] = <<>> /\ todo[s] = <<>>

-----------------------------------------------------------------------------
(* What a Node that is starting or up has of such a stream.                *)

Has(s, content, parts) ==
    \A p \in Parts : resources[s][p] = IF p \in parts THEN content ELSE Absent

In(s) == cache[s] # <<>> /\ Has(s, Head(cache[s]), PartsOf(s)) /\ ids[s] = 1

Out(s) == cache[s] = <<>> /\ Has(s, Absent, {}) /\ ids[s] = 0

Inserted(s, k) == {InsertOrder(s)[i] : i \in 1..k - 1}
Removed(s, k) == {RemoveOrder(s)[i] : i \in 1..k - 1}

\* What a call in progress has made of its stream.
Done(t) ==
    LET s == op[t].s
        content == op[t].content
        k == op[t].step
    IN  /\ at[t] \in {"add_check", "update_check", "remove_check", "remove_lock",
                      "remove_mutex"} => In(s) \/ Out(s)
        /\ at[t] = "add_lock" => Out(s)
        /\ at[t] = "inserting" =>
              cache[s] = <<>> /\ ids[s] = 0 /\ Has(s, content, Inserted(s, k))
        /\ at[t] = "caching" =>
              cache[s] = <<>> /\ ids[s] = 0 /\ Has(s, content, PartsOf(s))
        /\ at[t] = "update_lock" => In(s)
        /\ at[t] = "recaching" =>
              cache[s] # <<>> /\ ids[s] = 1 /\ Has(s, content, PartsOf(s))
        /\ at[t] = "remove_lock" /\ s \in Senders => In(s)
        /\ at[t] = "remove_mutex" => s \in Receivers
        /\ at[t] = "removing" =>
              /\ cache[s] # <<>> /\ ids[s] = IF s \in Receivers THEN 0 ELSE 1
              /\ Has(s, Head(cache[s]), PartsOf(s) \ Removed(s, k))
        /\ at[t] = "uncaching" =>
              /\ cache[s] # <<>> /\ ids[s] = IF s \in Receivers THEN 0 ELSE 1
              /\ Has(s, Absent, {})

\* Streams whose copies have not been taken yet.
Waiting(s) ==
    \/ at["reinsert"] \in {"device", "copy_senders"}
    \/ at["reinsert"] = "copy_receivers" /\ s \in Receivers

\* Which call is at which stream.
Busy(t, s) == at[t] \in CallPcs /\ op[t].s = s

Tracked(s) ==
    /\ device # Absent => (s \in device <=> ids[s] > 0)
    /\ \A t \in Workers : Busy(t, s) => Done(t)
    /\ (\A t \in Workers : ~Busy(t, s)) =>
          IF Waiting(s) THEN Has(s, Absent, {}) /\ ids[s] = 0 ELSE In(s) \/ Out(s)

StreamsTracked ==
    phase \in {"up", "starting"} => \A s \in Streams \ crossed : Tracked(s)

\* What a call has made of a sender's resources, on a Node that shuts down too.
Underway(t) ==
    LET s == op[t].s
    IN  /\ at[t] = "inserting" /\ s \in Senders \ crossed =>
              /\ op[t].step \in {2, 3} => resources[s]["endpoint"] = Absent
              /\ \A p \in Inserted(s, op[t].step) : resources[s][p] # Absent
        /\ at[t] = "removing" /\ s \in Senders \ crossed /\ ~shutdown =>
              (op[t].step > 1 => resources[s]["endpoint"] = Absent)

\* Also while it shuts down: no sender without its source and flow.
PartsTracked == SendersAreComplete /\ \A t \in Workers : Underway(t)

\* The part that holds whatever the Node has in its model, and all of it.
SInv == TInv /\ PhaseTracked /\ LocksTracked /\ ReinsertionAdds /\ OneCopy

EInv == SInv /\ StreamsTracked /\ PartsTracked

-----------------------------------------------------------------------------
(* Facts about the orders in which resources go in and out.                *)

\* The threads that run the calls, and the activation's.
LEMMA ThreadFacts ==
    /\ Workers = {"reconcile", "reinsert"}
    /\ Threads = {"reconcile", "reinsert", "activate"}
PROOF
    BY DEF Workers, Threads

\* The parts go in and out one by one, each of them once.
LEMMA Orders ==
    ASSUME NEW s \in Streams
    PROVE  /\ Len(InsertOrder(s)) = Last(s) /\ Len(RemoveOrder(s)) = Last(s)
           /\ Last(s) \in 1..4
           /\ \A k \in 1..Last(s) : InsertOrder(s)[k] \in Parts /\ RemoveOrder(s)[k] \in Parts
           /\ PartsOf(s) \subseteq Parts
PROOF
<1>1. CASE s \in Receivers
    BY <1>1 DEF InsertOrder, RemoveOrder, Last, Parts, PartsOf
<1>2. CASE s \notin Receivers
    BY <1>2 DEF InsertOrder, RemoveOrder, Last, Parts, PartsOf
<1> QED
    BY <1>1, <1>2

-----------------------------------------------------------------------------
(* Types                                                                   *)

\* What a call in progress is made of.
LEMMA CallInProgress ==
    ASSUME TInv, NEW t \in Workers, at[t] \in CallPcs
    PROVE  /\ op[t] \in CallOps /\ op[t].s \in Streams /\ op[t].content \in Contents
           /\ op[t].step \in 1..4 /\ op[t] # NoOp
PROOF
<1>1. op[t] \in CallOps
    BY DEF TInv, OpsOK
<1> QED
    BY <1>1 DEF CallOps, NoOp

\* The part of the types that is about calls in progress.
ControlOK ==
    /\ at \in [Threads -> Pcs]
    /\ at["reconcile"] \in WorkerPcs /\ at["activate"] \in {"idle", "finding"}
    /\ op \in [Workers -> Ops]
    /\ OpsOK

\* A call goes on to another program counter, ...
LEMMA Moves ==
    ASSUME ControlOK, NEW t \in Workers, at[t] \in CallPcs,
           NEW pc \in CallPcs,
           at' = [at EXCEPT ![t] = pc], op' = op,
           pc \in Early \cup {"inserting", "removing"} => op[t].step = 1
    PROVE  ControlOK'
PROOF
<1>1. op[t] \in CallOps
    BY DEF ControlOK, OpsOK
<1>2. op[t].s \in Streams /\ Last(op[t].s) >= 1
    BY <1>1 DEF CallOps, Last
<1>3. at' \in [Threads -> Pcs] /\ at'["reconcile"] \in WorkerPcs
      /\ at'["activate"] \in {"idle", "finding"}
    BY ThreadFacts DEF ControlOK, CallPcs, WorkerPcs, Pcs
<1>4. ASSUME NEW u \in Workers
      PROVE  /\ at'[u] \in CallPcs => op'[u] \in CallOps
             /\ at'[u] \notin CallPcs => op'[u] = NoOp
             /\ at'[u] \in Early => op'[u].step = 1
             /\ at'[u] \in {"inserting", "removing"} => op'[u].step <= Last(op'[u].s)
    BY <1>1, <1>2, ThreadFacts DEF ControlOK, OpsOK
<1> QED
    BY <1>3, <1>4 DEF ControlOK, OpsOK

\* ... or to its next resource, ...
LEMMA Advances ==
    ASSUME ControlOK, NEW t \in Workers, at[t] \in {"inserting", "removing"},
           op[t].step # Last(op[t].s),
           at' = at, op' = [op EXCEPT ![t].step = @ + 1]
    PROVE  ControlOK'
PROOF
<1>1. op[t] \in CallOps /\ op[t].step <= Last(op[t].s)
    BY DEF ControlOK, OpsOK, CallPcs, WorkerPcs
<1>2. op'[t] \in CallOps /\ op'[t].step <= Last(op'[t].s) /\ op'[t] \in Ops
    BY <1>1 DEF CallOps, Last, ControlOK, Ops
<1>3. \A u \in Workers : u # t => op'[u] = op[u]
    BY DEF ControlOK
<1>4. op' \in [Workers -> Ops]
    BY <1>2, <1>3 DEF ControlOK
<1>5. ASSUME NEW u \in Workers
      PROVE  /\ at'[u] \in CallPcs => op'[u] \in CallOps
             /\ at'[u] \notin CallPcs => op'[u] = NoOp
             /\ at'[u] \in Early => op'[u].step = 1
             /\ at'[u] \in {"inserting", "removing"} => op'[u].step <= Last(op'[u].s)
    <2>1. CASE u = t
        BY <2>1, <1>2 DEF CallPcs, WorkerPcs, Early
    <2>2. CASE u # t
        BY <2>2, <1>3 DEF ControlOK, OpsOK
    <2> QED
        BY <2>1, <2>2
<1> QED
    BY <1>4, <1>5 DEF ControlOK, OpsOK

\* ... or ends.
LEMMA Ends ==
    ASSUME ControlOK, NEW t \in Workers,
           op' = [op EXCEPT ![t] = NoOp],
           at' = [at EXCEPT ![t] = IF t = "reinsert" THEN "next" ELSE "idle"]
    PROVE  ControlOK'
PROOF
<1>1. at' \in [Threads -> Pcs] /\ at'["reconcile"] \in WorkerPcs
      /\ at'["activate"] \in {"idle", "finding"}
    BY ThreadFacts DEF ControlOK, WorkerPcs, Pcs
<1>2. op' \in [Workers -> Ops] /\ op'[t] = NoOp /\ \A u \in Workers : u # t => op'[u] = op[u]
    BY DEF ControlOK, Ops
<1>3. at'[t] \in {"next", "idle"} /\ \A u \in Workers : u # t => at'[u] = at[u]
    BY ThreadFacts DEF ControlOK
<1>4. ASSUME NEW u \in Workers
      PROVE  /\ at'[u] \in CallPcs => op'[u] \in CallOps
             /\ at'[u] \notin CallPcs => op'[u] = NoOp
             /\ at'[u] \in Early => op'[u].step = 1
             /\ at'[u] \in {"inserting", "removing"} => op'[u].step <= Last(op'[u].s)
    <2>1. CASE u = t
        BY <2>1, <1>2, <1>3 DEF CallPcs, WorkerPcs, Early
    <2>2. CASE u # t
        BY <2>2, <1>2, <1>3 DEF ControlOK, OpsOK
    <2> QED
        BY <2>1, <2>2
<1> QED
    BY <1>1, <1>2, <1>4 DEF ControlOK, OpsOK

\* The part of the types that is about the Node.
DataOK ==
    /\ resources \in [Streams -> [Parts -> Contents \cup {Absent}]]
    /\ device = Absent \/ device \subseteq Streams
    /\ ids \in [Streams -> Nat]
    /\ cache \in [Streams -> Seq(Contents)]
    /\ model_lock \in {"free", "reconcile", "reinsert", "activate"}
    /\ receiver_mutex \in {"free"} \cup Workers
    /\ shutdown \in BOOLEAN
    /\ phase \in {"up", "starting", "failed", "stopping", "down"}
    /\ todo \in [Streams -> Seq(Contents)]
    /\ budget \in [calls : 0..MaxCalls, restarts : 0..MaxRestarts]
    /\ met \in BOOLEAN
    /\ crossed \subseteq Streams

\* The two parts are all of it.
LEMMA TypeParts == TInv <=> ControlOK /\ DataOK
PROOF
    BY DEF TInv, TypeOK, ControlOK, DataOK

\* A call that throws leaves copies or none.
LEMMA ThrowKeepsTypes ==
    ASSUME DataOK, NEW t \in Workers, Throw(t)
    PROVE  todo' \in [Streams -> Seq(Contents)]
PROOF
<1>1. NoEntries \in [Streams -> Seq(Contents)]
    BY DEF NoEntries
<1> QED
    BY <1>1 DEF Throw, DataOK

\* What the device lists are streams.
LEMMA DeviceTypes ==
    ASSUME NEW counts, DeviceLists(counts)
    PROVE  device' = Absent \/ device' \subseteq Streams
PROOF
    BY DEF DeviceLists

\* AddCheck keeps the types.
LEMMA AddCheckTypes ==
    ASSUME NodeAssumption, TInv, NEW t \in Workers, AddCheck(t)
    PROVE  TInv'
PROOF
<1>1. at[t] \in CallPcs
    BY DEF AddCheck, Goto, CallPcs, WorkerPcs
<1>2. /\ op[t] \in CallOps /\ op[t].s \in Streams /\ op[t].content \in Contents
      /\ op[t].step \in 1..4
    BY <1>1, CallInProgress
<1>3. ControlOK'
    BY <1>1, <1>2, Moves, TypeParts
    DEF AddCheck, Goto, CallPcs, WorkerPcs, Early, OpsOK, TInv
<1>4. DataOK'
    BY <1>2, TypeParts, ThreadFacts
    DEF NodeAssumption, AddCheck, Goto, Cached, CacheFree, DataOK, vars, model, locks,
        life, past
<1> QED
    BY <1>3, <1>4 DEF TInv, TypeOK, ControlOK, DataOK

\* AddLock keeps the types.
LEMMA AddLockTypes ==
    ASSUME NodeAssumption, TInv, NEW t \in Workers, AddLock(t)
    PROVE  TInv'
PROOF
<1>1. at[t] \in CallPcs
    BY DEF AddLock, CallPcs, WorkerPcs
<1>2. /\ op[t] \in CallOps /\ op[t].s \in Streams /\ op[t].content \in Contents
      /\ op[t].step \in 1..4
    BY <1>1, CallInProgress
<1>3. ControlOK'
    <2>1. CASE op[t].content \in Unusable
        BY <2>1, Ends, TypeParts DEF AddLock, Throw
    <2>2. CASE op[t].content \notin Unusable
        BY <2>2, <1>1, <1>2, Moves, TypeParts
        DEF AddLock, CallPcs, WorkerPcs, Early, OpsOK, TInv
    <2> QED
        BY <2>1, <2>2
<1>4. DataOK'
    <2>1. CASE op[t].content \in Unusable
        BY <2>1, TypeParts, ThrowKeepsTypes DEF AddLock, DataOK, locks, life, past
    <2>2. CASE op[t].content \notin Unusable
        <3>1. resources' = [resources EXCEPT ![op[t].s] =
                  IF Erases(op[t].s) THEN [p \in Parts |-> Absent] ELSE @]
            BY <2>2 DEF AddLock
        <3>2. [p \in Parts |-> Absent] \in [Parts -> Contents \cup {Absent}]
            OBVIOUS
        <3>3. resources' \in [Streams -> [Parts -> Contents \cup {Absent}]]
            BY <3>1, <3>2, <1>2, TypeParts DEF DataOK
        <3> QED
            BY <2>2, <3>3, TypeParts DEF AddLock, DataOK, locks, life, past
    <2> QED
        BY <2>1, <2>2
<1> QED
    BY <1>3, <1>4 DEF TInv, TypeOK, ControlOK, DataOK

\* InsertPart keeps the types.
LEMMA InsertPartTypes ==
    ASSUME NodeAssumption, TInv, NEW t \in Workers, InsertPart(t)
    PROVE  TInv'
PROOF
<1>1. at[t] \in CallPcs
    BY DEF InsertPart, CallPcs, WorkerPcs
<1>2. /\ op[t] \in CallOps /\ op[t].s \in Streams /\ op[t].content \in Contents
      /\ op[t].step \in 1..4
    BY <1>1, CallInProgress
<1>3. ControlOK'
    <2> DEFINE fails == shutdown \/ resources[op[t].s][InsertOrder(op[t].s)[op[t].step]] # Absent
    <2>1. CASE fails
        BY <2>1, Ends, TypeParts DEF InsertPart, Throw
    <2>2. CASE ~fails /\ op[t].step = Len(InsertOrder(op[t].s))
        BY <2>2, <1>1, <1>2, Moves, TypeParts DEF InsertPart, CallPcs, WorkerPcs, Early
    <2>3. CASE ~fails /\ op[t].step # Len(InsertOrder(op[t].s))
        BY <2>3, <1>2, Advances, Orders, TypeParts DEF InsertPart
    <2> QED
        BY <2>1, <2>2, <2>3
<1>4. DataOK'
    <2> DEFINE stream == op[t].s
               part == InsertOrder(stream)[op[t].step]
               earlier == {InsertOrder(stream)[i] : i \in 1..op[t].step - 1}
               fails == shutdown \/ resources[stream][part] # Absent
    <2>1. CASE fails
        <3>1. resources' = [resources EXCEPT ![stream] =
                  [p \in Parts |-> IF p \in earlier THEN Absent ELSE @[p]]]
            BY <2>1 DEF InsertPart
        <3>2. resources' \in [Streams -> [Parts -> Contents \cup {Absent}]]
            <4> HIDE DEF earlier
            <4>1. /\ resources \in [Streams -> [Parts -> Contents \cup {Absent}]]
                  /\ stream \in Streams
                BY <1>2, TypeParts DEF DataOK
            <4>2. [p \in Parts |-> IF p \in earlier THEN Absent ELSE resources[stream][p]]
                      \in [Parts -> Contents \cup {Absent}]
                BY <4>1
            <4> HIDE DEF stream
            <4> QED
                BY <3>1, <4>1, <4>2
        <3>3. Throw(t) /\ UNCHANGED <<device, ids, cache, receiver_mutex, life, past, budget, model_lock>>
            BY <2>1 DEF InsertPart
        <3> QED
            BY <3>2, <3>3, TypeParts, ThrowKeepsTypes DEF DataOK, life, past
    <2>2. CASE ~fails
        <3>1. /\ resources' = [resources EXCEPT ![stream][part] = op[t].content]
              /\ model_lock' \in {t, model_lock}
              /\ UNCHANGED <<device, ids, cache, receiver_mutex, life, past, budget, todo>>
            BY <2>2 DEF InsertPart
        <3> HIDE DEF part
        <3> QED
            BY <3>1, <1>2, TypeParts, ThreadFacts DEF DataOK, life, past
    <2> QED
        BY <2>1, <2>2
<1> QED
    BY <1>3, <1>4 DEF TInv, TypeOK, ControlOK, DataOK

\* AddCaches keeps the types.
LEMMA AddCachesTypes ==
    ASSUME NodeAssumption, TInv, NEW t \in Workers, AddCaches(t)
    PROVE  TInv'
PROOF
<1>1. at[t] \in CallPcs
    BY DEF AddCaches, CallPcs, WorkerPcs
<1>2. /\ op[t] \in CallOps /\ op[t].s \in Streams /\ op[t].content \in Contents
      /\ op[t].step \in 1..4
    BY <1>1, CallInProgress
<1>3. ControlOK'
    BY Ends, TypeParts DEF AddCaches, Return
<1>4. DataOK'
    BY <1>2, TypeParts, ThreadFacts, DeviceTypes
    DEF NodeAssumption, AddCaches, Return, DataOK, vars, model, locks, life, past
<1> QED
    BY <1>3, <1>4 DEF TInv, TypeOK, ControlOK, DataOK

\* UpdateCheck keeps the types.
LEMMA UpdateCheckTypes ==
    ASSUME NodeAssumption, TInv, NEW t \in Workers, UpdateCheck(t)
    PROVE  TInv'
PROOF
<1>1. at[t] \in CallPcs
    BY DEF UpdateCheck, Goto, CallPcs, WorkerPcs
<1>2. /\ op[t] \in CallOps /\ op[t].s \in Streams /\ op[t].content \in Contents
      /\ op[t].step \in 1..4
    BY <1>1, CallInProgress
<1>3. ControlOK'
    BY <1>1, <1>2, Moves, TypeParts
    DEF UpdateCheck, Goto, CallPcs, WorkerPcs, Early, OpsOK, TInv
<1>4. DataOK'
    BY <1>2, TypeParts, ThreadFacts
    DEF NodeAssumption, UpdateCheck, Goto, DataOK, vars, model, locks, life, past
<1> QED
    BY <1>3, <1>4 DEF TInv, TypeOK, ControlOK, DataOK

\* UpdateLock keeps the types.
LEMMA UpdateLockTypes ==
    ASSUME NodeAssumption, TInv, NEW t \in Workers, UpdateLock(t)
    PROVE  TInv'
PROOF
<1>1. at[t] \in CallPcs
    BY DEF UpdateLock, CallPcs, WorkerPcs
<1>2. /\ op[t] \in CallOps /\ op[t].s \in Streams /\ op[t].content \in Contents
      /\ op[t].step \in 1..4
    BY <1>1, CallInProgress
<1>3. ControlOK'
    <2>1. CASE /\ at' = [at EXCEPT ![t] = "recaching"]
               /\ op' = op
        BY <2>1, <1>1, Moves, TypeParts DEF CallPcs, WorkerPcs, Early
    <2>2. CASE Throw(t)
        BY <2>2, Ends, TypeParts DEF Throw
    <2> QED
        BY <2>1, <2>2 DEF UpdateLock
<1>4. DataOK'
    <2>1. resources' \in [Streams -> [Parts -> Contents \cup {Absent}]]
        <3>1. ASSUME NEW parts, Replace(op[t].s, parts, op[t].content)
              PROVE  resources' \in [Streams -> [Parts -> Contents \cup {Absent}]]
            BY <3>1, <1>2, TypeParts DEF Replace, DataOK
        <3>2. resources' = resources \/ \E parts : Replace(op[t].s, parts, op[t].content)
            BY DEF UpdateLock
        <3> QED
            BY <3>1, <3>2, TypeParts DEF DataOK
    <2>2. todo' \in [Streams -> Seq(Contents)]
        BY TypeParts, ThrowKeepsTypes DEF UpdateLock, DataOK
    <2>3. /\ model_lock' \in {t, model_lock}
          /\ UNCHANGED <<device, ids, cache, receiver_mutex, life, past, budget>>
        BY DEF UpdateLock
    <2> QED
        BY <2>1, <2>2, <2>3, TypeParts, ThreadFacts DEF DataOK, life, past
<1> QED
    BY <1>3, <1>4 DEF TInv, TypeOK, ControlOK, DataOK

\* UpdateCaches keeps the types.
LEMMA UpdateCachesTypes ==
    ASSUME NodeAssumption, TInv, NEW t \in Workers, UpdateCaches(t)
    PROVE  TInv'
PROOF
<1>1. at[t] \in CallPcs
    BY DEF UpdateCaches, CallPcs, WorkerPcs
<1>2. /\ op[t] \in CallOps /\ op[t].s \in Streams /\ op[t].content \in Contents
      /\ op[t].step \in 1..4
    BY <1>1, CallInProgress
<1>3. ControlOK'
    BY Ends, TypeParts DEF UpdateCaches, Return
<1>4. DataOK'
    BY <1>2, TypeParts, ThreadFacts
    DEF NodeAssumption, UpdateCaches, Return, Cached, DataOK, vars, model, locks, life, past
<1> QED
    BY <1>3, <1>4 DEF TInv, TypeOK, ControlOK, DataOK

\* RemoveCheck keeps the types.
LEMMA RemoveCheckTypes ==
    ASSUME NodeAssumption, TInv, NEW t \in Workers, RemoveCheck(t)
    PROVE  TInv'
PROOF
<1>1. at[t] \in CallPcs
    BY DEF RemoveCheck, CallPcs, WorkerPcs
<1>2. /\ op[t] \in CallOps /\ op[t].s \in Streams /\ op[t].content \in Contents
      /\ op[t].step \in 1..4
    BY <1>1, CallInProgress
<1>3. ControlOK'
    <2>1. CASE Cached(op[t].s)
        BY <2>1, <1>1, <1>2, Moves, TypeParts
        DEF RemoveCheck, CallPcs, WorkerPcs, Early, OpsOK, TInv
    <2>2. CASE ~Cached(op[t].s)
        BY <2>2, Ends, TypeParts DEF RemoveCheck, Return
    <2> QED
        BY <2>1, <2>2
<1>4. DataOK'
    BY <1>2, TypeParts, ThreadFacts
    DEF NodeAssumption, RemoveCheck, Return, DataOK, vars, model, locks, life, past
<1> QED
    BY <1>3, <1>4 DEF TInv, TypeOK, ControlOK, DataOK

\* RemoveLock keeps the types.
LEMMA RemoveLockTypes ==
    ASSUME NodeAssumption, TInv, NEW t \in Workers, RemoveLock(t)
    PROVE  TInv'
PROOF
<1>1. at[t] \in CallPcs
    BY DEF RemoveLock, Goto, CallPcs, WorkerPcs
<1>2. /\ op[t] \in CallOps /\ op[t].s \in Streams /\ op[t].content \in Contents
      /\ op[t].step \in 1..4
    BY <1>1, CallInProgress
<1>3. ControlOK'
    BY <1>1, <1>2, Moves, TypeParts
    DEF RemoveLock, Goto, CallPcs, WorkerPcs, Early, OpsOK, TInv
<1>4. DataOK'
    BY <1>2, TypeParts, ThreadFacts
    DEF NodeAssumption, RemoveLock, Goto, DataOK, vars, model, locks, life, past
<1> QED
    BY <1>3, <1>4 DEF TInv, TypeOK, ControlOK, DataOK

\* RemoveMutex keeps the types.
LEMMA RemoveMutexTypes ==
    ASSUME NodeAssumption, TInv, NEW t \in Workers, RemoveMutex(t)
    PROVE  TInv'
PROOF
<1>1. at[t] \in CallPcs
    BY DEF RemoveMutex, CallPcs, WorkerPcs
<1>2. /\ op[t] \in CallOps /\ op[t].s \in Streams /\ op[t].content \in Contents
      /\ op[t].step \in 1..4
    BY <1>1, CallInProgress
<1>3. ControlOK'
    <2>1. CASE Cached(op[t].s)
        BY <2>1, <1>1, <1>2, Moves, TypeParts
        DEF RemoveMutex, CallPcs, WorkerPcs, Early, OpsOK, TInv
    <2>2. CASE ~Cached(op[t].s)
        BY <2>2, Ends, TypeParts DEF RemoveMutex, Return
    <2> QED
        BY <2>1, <2>2
<1>4. DataOK'
    <2>1. CASE Cached(op[t].s)
        BY <2>1, <1>2, TypeParts, ThreadFacts, DeviceTypes
        DEF RemoveMutex, Forget, DataOK, life, past
    <2>2. CASE ~Cached(op[t].s)
        BY <2>2, <1>2, TypeParts DEF RemoveMutex, Return, DataOK, life, past
    <2> QED
        BY <2>1, <2>2
<1> QED
    BY <1>3, <1>4 DEF TInv, TypeOK, ControlOK, DataOK

\* RemovePart keeps the types.
LEMMA RemovePartTypes ==
    ASSUME NodeAssumption, TInv, NEW t \in Workers, RemovePart(t)
    PROVE  TInv'
PROOF
<1>1. at[t] \in CallPcs
    BY DEF RemovePart, CallPcs, WorkerPcs
<1>2. /\ op[t] \in CallOps /\ op[t].s \in Streams /\ op[t].content \in Contents
      /\ op[t].step \in 1..4
    BY <1>1, CallInProgress
<1>3. ControlOK'
    <2>1. CASE op[t].step = Len(RemoveOrder(op[t].s))
        BY <2>1, <1>1, <1>2, Moves, TypeParts DEF RemovePart, CallPcs, WorkerPcs, Early
    <2>2. CASE op[t].step # Len(RemoveOrder(op[t].s))
        BY <2>2, <1>2, Advances, Orders, TypeParts DEF RemovePart
    <2> QED
        BY <2>1, <2>2
<1>4. DataOK'
    BY <1>2, TypeParts, ThreadFacts
    DEF NodeAssumption, RemovePart, DataOK, vars, model, locks, life, past
<1> QED
    BY <1>3, <1>4 DEF TInv, TypeOK, ControlOK, DataOK

\* Uncache keeps the types.
LEMMA UncacheTypes ==
    ASSUME NodeAssumption, TInv, NEW t \in Workers, Uncache(t)
    PROVE  TInv'
PROOF
<1>1. at[t] \in CallPcs
    BY DEF Uncache, CallPcs, WorkerPcs
<1>2. /\ op[t] \in CallOps /\ op[t].s \in Streams /\ op[t].content \in Contents
      /\ op[t].step \in 1..4
    BY <1>1, CallInProgress
<1>3. ControlOK'
    BY Ends, TypeParts DEF Uncache, Return
<1>4. DataOK'
    <2>1. ids' \in [Streams -> Nat] /\ (device' = Absent \/ device' \subseteq Streams)
        <3>1. CASE op[t].s \in Receivers
            BY <3>1, TypeParts DEF Uncache, DataOK
        <3>2. CASE op[t].s \notin Receivers
            <4>1. /\ ids' = [ids EXCEPT ![op[t].s] = IF @ > 0 THEN @ - 1 ELSE 0]
                  /\ DeviceLists(ids')
                BY <3>2 DEF Uncache, Forget
            <4>2. ids' \in [Streams -> Nat]
                BY <4>1, <1>2, TypeParts DEF DataOK
            <4> QED
                BY <4>1, <4>2, DeviceTypes
        <3> QED
            BY <3>1, <3>2
    <2> QED
        BY <1>2, <2>1, TypeParts DEF Uncache, Return, DataOK, life, past
<1> QED
    BY <1>3, <1>4 DEF TInv, TypeOK, ControlOK, DataOK

\* Every step of a call keeps the types.
LEMMA StepTypes ==
    ASSUME NodeAssumption, TInv, NEW t \in Workers, Step(t)
    PROVE  TInv'
PROOF
    BY AddCheckTypes, AddLockTypes, InsertPartTypes, AddCachesTypes, UpdateCheckTypes,
       UpdateLockTypes, UpdateCachesTypes, RemoveCheckTypes, RemoveLockTypes,
       RemoveMutexTypes, RemovePartTypes, UncacheTypes DEF Step

\* A thread that is in no call goes on to something that is none either.
LEMMA Wanders ==
    ASSUME ControlOK, NEW t \in Threads, at[t] \notin CallPcs, NEW pc \in Pcs,
           pc \notin CallPcs, op' = op, at' = [at EXCEPT ![t] = pc],
           t = "reconcile" => pc = "idle",
           t = "activate" => pc \in {"idle", "finding"}
    PROVE  ControlOK'
PROOF
<1>1. at' \in [Threads -> Pcs] /\ at'["reconcile"] \in WorkerPcs
      /\ at'["activate"] \in {"idle", "finding"}
    BY ThreadFacts DEF ControlOK, WorkerPcs
<1>2. at'[t] = pc /\ \A u \in Threads : u # t => at'[u] = at[u]
    BY DEF ControlOK
<1>3. ASSUME NEW u \in Workers
      PROVE  /\ at'[u] \in CallPcs => op'[u] \in CallOps
             /\ at'[u] \notin CallPcs => op'[u] = NoOp
             /\ at'[u] \in Early => op'[u].step = 1
             /\ at'[u] \in {"inserting", "removing"} => op'[u].step <= Last(op'[u].s)
    <2>1. CASE u = t
        BY <2>1, <1>2 DEF ControlOK, OpsOK, CallPcs, WorkerPcs, Early
    <2>2. CASE u # t
        BY <2>2, <1>2, ThreadFacts DEF ControlOK, OpsOK
    <2> QED
        BY <2>1, <2>2
<1> QED
    BY <1>1, <1>3 DEF ControlOK, OpsOK

\* A thread that is in no call begins one.
LEMMA Begins ==
    ASSUME ControlOK, NEW t \in Workers, at[t] \notin CallPcs,
           NEW pc \in Early, NEW call \in CallOps, call.step = 1,
           op' = [op EXCEPT ![t] = call], at' = [at EXCEPT ![t] = pc]
    PROVE  ControlOK'
PROOF
<1>1. at' \in [Threads -> Pcs] /\ at'["reconcile"] \in WorkerPcs
      /\ at'["activate"] \in {"idle", "finding"}
    BY ThreadFacts DEF ControlOK, Early, WorkerPcs, Pcs
<1>2. op' \in [Workers -> Ops]
    BY DEF ControlOK, Ops, CallOps
<1>3. at'[t] = pc /\ op'[t] = call
      /\ \A u \in Workers : u # t => at'[u] = at[u] /\ op'[u] = op[u]
    BY ThreadFacts DEF ControlOK
<1>4. ASSUME NEW u \in Workers
      PROVE  /\ at'[u] \in CallPcs => op'[u] \in CallOps
             /\ at'[u] \notin CallPcs => op'[u] = NoOp
             /\ at'[u] \in Early => op'[u].step = 1
             /\ at'[u] \in {"inserting", "removing"} => op'[u].step <= Last(op'[u].s)
    <2>1. CASE u = t
        BY <2>1, <1>3 DEF Early, CallPcs, WorkerPcs
    <2>2. CASE u # t
        BY <2>2, <1>3 DEF ControlOK, OpsOK
    <2> QED
        BY <2>1, <2>2
<1> QED
    BY <1>1, <1>2, <1>4 DEF ControlOK, OpsOK

\* NodeRuntime's calls keep the types.
LEMMA CallsTypes ==
    ASSUME NodeAssumption, TInv, Calls
    PROVE  TInv'
PROOF
<1>1. PICK kind \in {"add", "update", "remove"}, s \in Streams, c \in Contents :
          Call(kind, s, c)
    BY DEF Calls
<1> DEFINE call == [kind |-> kind, s |-> s, content |-> c, step |-> 1]
<1>2. call \in CallOps /\ call.step = 1
    BY DEF CallOps
<1>3. PICK pc \in Early : at' = [at EXCEPT !["reconcile"] = pc]
    BY <1>1 DEF Call, Early
<1>4. op' = [op EXCEPT !["reconcile"] = call] /\ at["reconcile"] = "idle"
    BY <1>1 DEF Call
<1>5. ControlOK'
    <2> HIDE DEF call
    <2> QED
        BY <1>2, <1>3, <1>4, Begins, TypeParts, ThreadFacts DEF CallPcs, WorkerPcs
<1>6. DataOK'
    <2>1. budget \in [calls : 0..MaxCalls, restarts : 0..MaxRestarts] /\ MaxCalls \in Nat
        BY TypeParts DEF NodeAssumption, DataOK
    <2>2. budget' = [budget EXCEPT !.calls = @ + 1] /\ budget.calls < MaxCalls
        BY <1>1 DEF Call
    <2>3. budget' \in [calls : 0..MaxCalls, restarts : 0..MaxRestarts]
        BY <2>1, <2>2
    <2> QED
        BY <1>1, <2>3, TypeParts DEF Call, DataOK, model, locks, life, past
<1> QED
    BY <1>5, <1>6 DEF TInv, TypeOK, ControlOK, DataOK

\* Activations keep the types.
LEMMA ActivationTypes ==
    ASSUME NodeAssumption, TInv, ActivationBegins \/ Activated
    PROVE  TInv'
PROOF
<1>1. PICK pc \in {"idle", "finding"} : at' = [at EXCEPT !["activate"] = pc]
    BY DEF ActivationBegins, Activated, Goto
<1>2. op' = op /\ at["activate"] \in {"idle", "finding"}
    BY DEF ActivationBegins, Activated, Goto
<1>3. ControlOK'
    BY <1>1, <1>2, Wanders, TypeParts, ThreadFacts DEF CallPcs, WorkerPcs, Pcs
<1>4. DataOK'
    BY TypeParts DEF ActivationBegins, Activated, DataOK, model, life, past
<1> QED
    BY <1>3, <1>4 DEF TInv, TypeOK, ControlOK, DataOK

\* Stops and starts keep the types.
LEMMA LifeTypes ==
    ASSUME NodeAssumption, TInv, Parked, StopShuts \/ Stopped \/ Start
    PROVE  TInv'
PROOF
<1>1. CASE StopShuts
    <2>1. ControlOK'
        BY <1>1, TypeParts DEF StopShuts, ControlOK, OpsOK
    <2>2. DataOK'
        <3>1. budget \in [calls : 0..MaxCalls, restarts : 0..MaxRestarts] /\ MaxRestarts \in Nat
            BY TypeParts DEF NodeAssumption, DataOK
        <3>2. budget' = [budget EXCEPT !.restarts = @ + 1] /\ budget.restarts < MaxRestarts
            BY <1>1 DEF StopShuts
        <3>3. budget' \in [calls : 0..MaxCalls, restarts : 0..MaxRestarts]
            BY <3>1, <3>2
        <3> QED
            BY <1>1, <3>3, TypeParts DEF StopShuts, DataOK, model, locks, past
    <2> QED
        BY <2>1, <2>2 DEF TInv, TypeOK, ControlOK, DataOK
<1>2. CASE Stopped
    <2>1. ControlOK'
        BY <1>2, TypeParts DEF Stopped, ControlOK, OpsOK
    <2>2. DataOK'
        BY <1>2, TypeParts DEF Stopped, DataOK, model, locks, past
    <2> QED
        BY <2>1, <2>2 DEF TInv, TypeOK, ControlOK, DataOK
<1>3. CASE Start
    <2>1. ControlOK'
        <3>1. CASE at' = [at EXCEPT !["reinsert"] = "device"]
            BY <1>3, <3>1, Wanders, TypeParts, ThreadFacts
            DEF Parked, Start, CallPcs, WorkerPcs, Pcs
        <3>2. CASE UNCHANGED at
            BY <1>3, <3>2, TypeParts DEF Start, ControlOK, OpsOK
        <3> QED
            BY <1>3, <3>1, <3>2 DEF Start
    <2>2. DataOK'
        <3>1. met' \in BOOLEAN /\ crossed' \subseteq Streams
            <4>1. op["reconcile"] # NoOp => op["reconcile"].s \in Streams
                BY CallInProgress, ThreadFacts DEF TInv, OpsOK
            <4> QED
                BY <1>3, <4>1, TypeParts DEF Start, DataOK
        <3>2. shutdown' = FALSE /\ phase' \in {"starting", "failed"}
            BY <1>3 DEF Start
        <3>3. /\ resources' = NoResources /\ device' = Absent
              /\ ids' = [s \in Streams |-> 0]
              /\ UNCHANGED <<cache, locks, todo, budget>>
            BY <1>3 DEF Start
        <3> QED
            BY <3>1, <3>2, <3>3, TypeParts DEF DataOK, locks, NoResources
    <2> QED
        BY <2>1, <2>2 DEF TInv, TypeOK, ControlOK, DataOK
<1> QED
    BY <1>1, <1>2, <1>3

\* Copies of entries are entries.
LEMMA OfTypes ==
    ASSUME NEW some, NEW entries \in [Streams -> Seq(Contents)]
    PROVE  Of(entries, some) \in [Streams -> Seq(Contents)]
PROOF
    BY DEF Of

\* The reinsertion keeps the types.
LEMMA ReinsertTypes ==
    ASSUME NodeAssumption, TInv, Reinsert
    PROVE  TInv'
PROOF
<1>1. CASE InitDevice
    <2>1. ControlOK'
        BY <1>1, Wanders, TypeParts, ThreadFacts
        DEF InitDevice, Goto, CallPcs, WorkerPcs, Pcs
    <2>2. DataOK'
        BY <1>1, TypeParts DEF InitDevice, DataOK, model, locks, life, past
    <2> QED
        BY <2>1, <2>2, TypeParts DEF TInv, TypeOK, ControlOK, DataOK
<1>2. CASE CopySenders
    <2>1. ControlOK'
        BY <1>2, Wanders, TypeParts, ThreadFacts
        DEF CopySenders, Goto, CallPcs, WorkerPcs, Pcs
    <2>2. DataOK'
        BY <1>2, TypeParts, OfTypes DEF CopySenders, DataOK, locks, life, past
    <2> QED
        BY <2>1, <2>2 DEF TInv, TypeOK, ControlOK, DataOK
<1>3. CASE CopyReceivers
    <2>1. ControlOK'
        BY <1>3, Wanders, TypeParts, ThreadFacts
        DEF CopyReceivers, Goto, CallPcs, WorkerPcs, Pcs
    <2>2. DataOK'
        BY <1>3, TypeParts, OfTypes DEF CopyReceivers, DataOK, locks, life, past
    <2> QED
        BY <2>1, <2>2 DEF TInv, TypeOK, ControlOK, DataOK
<1>4. CASE ReinsertNext
    <2>1. PICK s \in Streams :
              /\ todo[s] # <<>>
              /\ op' = [op EXCEPT !["reinsert"] =
                           [kind |-> "add", s |-> s, content |-> Head(todo[s]), step |-> 1]]
              /\ todo' = [todo EXCEPT ![s] = Tail(@)]
        BY <1>4 DEF ReinsertNext
    <2>2. todo[s] \in Seq(Contents) /\ Head(todo[s]) \in Contents
          /\ Tail(todo[s]) \in Seq(Contents)
        BY <2>1, TypeParts DEF DataOK
    <2> DEFINE call == [kind |-> "add", s |-> s, content |-> Head(todo[s]), step |-> 1]
    <2>3. call \in CallOps /\ call.step = 1
        BY <2>2 DEF CallOps
    <2>4. at' = [at EXCEPT !["reinsert"] = "add_check"] /\ at["reinsert"] \notin CallPcs
        BY <1>4 DEF ReinsertNext, Goto, CallPcs, WorkerPcs
    <2>5. op' = [op EXCEPT !["reinsert"] = call]
        BY <2>1
    <2>6. ControlOK'
        <3> HIDE DEF call
        <3> QED
            BY <2>3, <2>4, <2>5, Begins, TypeParts, ThreadFacts DEF Early
    <2>7. DataOK'
        BY <1>4, <2>1, <2>2, TypeParts DEF ReinsertNext, DataOK, model, locks, life, past
    <2> QED
        BY <2>6, <2>7 DEF TInv, TypeOK, ControlOK, DataOK
<1>5. CASE Reinserted
    <2>1. ControlOK'
        BY <1>5, Wanders, TypeParts, ThreadFacts
        DEF Reinserted, Goto, CallPcs, WorkerPcs, Pcs
    <2>2. DataOK'
        BY <1>5, TypeParts DEF Reinserted, DataOK, model, locks, past
    <2> QED
        BY <2>1, <2>2 DEF TInv, TypeOK, ControlOK, DataOK
<1> QED
    BY <1>1, <1>2, <1>3, <1>4, <1>5 DEF Reinsert

\* A step of a call changes only its own thread's program counter, and not the
\* Node's life.
LEMMA StepMoves ==
    ASSUME TInv, NEW t \in Workers, Step(t)
    PROVE  /\ at[t] \in CallPcs /\ at' = [at EXCEPT ![t] = at'[t]]
           /\ at'[t] \in CallPcs \/ at'[t] = IF t = "reinsert" THEN "next" ELSE "idle"
           /\ UNCHANGED <<phase, shutdown>>
PROOF
<1>1. at \in [Threads -> Pcs] /\ t \in Threads
    BY ThreadFacts DEF TInv, TypeOK
<1> USE DEF CallPcs, WorkerPcs, life, past
<1>2. CASE AddCheck(t)
    BY <1>1, <1>2 DEF AddCheck, Goto
<1>3. CASE AddLock(t)
    BY <1>1, <1>3 DEF AddLock, Throw
<1>4. CASE InsertPart(t)
    BY <1>1, <1>4 DEF InsertPart, Throw
<1>5. CASE AddCaches(t)
    BY <1>1, <1>5 DEF AddCaches, Return
<1>6. CASE UpdateCheck(t)
    BY <1>1, <1>6 DEF UpdateCheck, Goto
<1>7. CASE UpdateLock(t)
    BY <1>1, <1>7 DEF UpdateLock, Throw
<1>8. CASE UpdateCaches(t)
    BY <1>1, <1>8 DEF UpdateCaches, Return
<1>9. CASE RemoveCheck(t)
    BY <1>1, <1>9 DEF RemoveCheck, Return
<1>10. CASE RemoveLock(t)
    BY <1>1, <1>10 DEF RemoveLock, Goto
<1>11. CASE RemoveMutex(t)
    BY <1>1, <1>11 DEF RemoveMutex, Return
<1>12. CASE RemovePart(t)
    BY <1>1, <1>12 DEF RemovePart
<1>13. CASE Uncache(t)
    BY <1>1, <1>13 DEF Uncache, Return
<1> QED
    BY <1>2, <1>3, <1>4, <1>5, <1>6, <1>7, <1>8, <1>9, <1>10, <1>11, <1>12, <1>13 DEF Step

\* The reinsertion runs only while the Node starts or stops.
LEMMA ParkedHolds ==
    ASSUME TInv, Parked, Next
    PROVE  Parked'
PROOF
<1>1. at \in [Threads -> Pcs] /\ phase \in {"up", "starting", "failed", "stopping", "down"}
    BY DEF TInv, TypeOK
<1>2. CASE Calls
    BY <1>1, <1>2 DEF Calls, Call, Parked, life, past
<1>3. ASSUME NEW t \in Workers, Step(t)
      PROVE  Parked'
    BY <1>1, <1>3, StepMoves, ThreadFacts DEF Parked, CallPcs
<1>4. CASE ActivationBegins \/ Activated
    <2>1. at'["reinsert"] = at["reinsert"] /\ phase' = phase
        BY <1>1, <1>4, ThreadFacts DEF ActivationBegins, Activated, Goto, life, past
    <2> QED
        BY <2>1 DEF Parked
<1>5. CASE StopShuts \/ Stopped \/ Start
    BY <1>1, <1>5 DEF StopShuts, Stopped, Start, Parked
<1>6. CASE Reinsert
    BY <1>1, <1>6, ThreadFacts
    DEF Reinsert, InitDevice, CopySenders, CopyReceivers, ReinsertNext, Reinserted, Goto,
        Parked, life, past
<1> QED
    BY <1>2, <1>3, <1>4, <1>5, <1>6 DEF Next

\* A Node that starts for the first time.
LEMMA InitTypes ==
    ASSUME NodeAssumption, Init
    PROVE  TInv /\ Parked
PROOF
<1>1. ControlOK
    BY ThreadFacts DEF Init, ControlOK, OpsOK, Ops, Pcs, WorkerPcs, CallPcs, Early
<1>2. budget \in [calls : 0..MaxCalls, restarts : 0..MaxRestarts]
    <2>1. 0 \in 0..MaxCalls /\ 0 \in 0..MaxRestarts
        BY DEF NodeAssumption
    <2> QED
        BY <2>1 DEF Init
<1>3. NoEntries \in [Streams -> Seq(Contents)]
    BY DEF NoEntries
<1>4. NoResources \in [Streams -> [Parts -> Contents \cup {Absent}]]
    BY DEF NoResources
<1>5. DataOK
    BY <1>2, <1>3, <1>4 DEF Init, DataOK
<1>6. Parked
    BY ThreadFacts DEF Init, Parked
<1> QED
    BY <1>1, <1>5, <1>6, TypeParts

\* Every step keeps the types.
LEMMA NextTypes ==
    ASSUME NodeAssumption, TInv, Parked, Next
    PROVE  TInv'
PROOF
    BY CallsTypes, StepTypes, ActivationTypes, LifeTypes, ReinsertTypes DEF Next

\* A thread is in a call exactly when its program counter says so.
LEMMA TypesKept ==
    ASSUME NodeAssumption
    PROVE  Spec => []TInv
PROOF
<1>1. Init => TInv /\ Parked
    BY InitTypes
<1>2. TInv /\ Parked /\ [Next]_vars => (TInv /\ Parked)'
    <2> SUFFICES ASSUME TInv, Parked, [Next]_vars
                 PROVE  (TInv /\ Parked)'
        OBVIOUS
    <2>1. CASE UNCHANGED vars
        BY <2>1 DEF vars, model, locks, life, past, TInv, TypeOK, OpsOK, Parked
    <2>2. CASE Next
        BY <2>2, ParkedHolds, NextTypes
    <2> QED
        BY <2>1, <2>2
<1> QED
    BY <1>1, <1>2, PTL DEF Spec

\* Whatever calls, activations and restarts come when: the variables keep their
\* types.
THEOREM TypeCorrect ==
    ASSUME NodeAssumption
    PROVE  Spec => []TypeOK
PROOF
<1>1. TInv => TypeOK
    BY DEF TInv
<1> QED
    BY <1>1, TypesKept, PTL

-----------------------------------------------------------------------------
(* Who is at work, and who holds what.                                     *)

\* What a step of a call does to the entries, the copies and the call itself.
LEMMA StepCopies ==
    ASSUME TInv, NEW t \in Workers, Step(t)
    PROVE  /\ todo' \in {todo, NoEntries} /\ (todo' # todo => t = "reinsert")
           /\ op' = [op EXCEPT ![t] = op'[t]]
           /\ at'[t] \in CallPcs =>
                 /\ op'[t].s = op[t].s /\ op'[t].content = op[t].content
                 /\ op'[t].kind = op[t].kind
           /\ cache' = [cache EXCEPT ![op[t].s] = cache'[op[t].s]]
           /\ at[t] \notin {"caching", "recaching", "uncaching"} => cache' = cache
PROOF
<1>1. /\ op \in [Workers -> Ops] /\ at \in [Threads -> Pcs] /\ t \in Threads
      /\ cache \in [Streams -> Seq(Contents)]
    BY ThreadFacts DEF TInv, TypeOK
<1>2. op[t] \in CallOps /\ op[t].s \in Streams
    BY StepMoves, CallInProgress
<1>3. at'[t] \in CallPcs => at'[t] \notin {"next", "idle"}
    BY DEF CallPcs, WorkerPcs
<1> USE DEF model
<1>4. CASE AddCheck(t)
    BY <1>1, <1>2, <1>4 DEF AddCheck, Goto
<1>5. CASE AddLock(t)
    BY <1>1, <1>2, <1>3, <1>5 DEF AddLock, Throw
<1>6. CASE InsertPart(t)
    <2> DEFINE fails ==
            shutdown \/ resources[op[t].s][InsertOrder(op[t].s)[op[t].step]] # Absent
    <2>1. \/ op' = op
          \/ op' = [op EXCEPT ![t].step = @ + 1]
          \/ op' = [op EXCEPT ![t] = NoOp] /\ at'[t] \in {"next", "idle"}
        <3>1. CASE fails
            <4>1. Throw(t)
                BY <1>6, <3>1 DEF InsertPart
            <4> QED
                BY <1>1, <4>1 DEF Throw
        <3>2. CASE ~fails
            BY <1>6, <3>2 DEF InsertPart
        <3> QED
            BY <3>1, <3>2
    <2>2. /\ todo' \in {todo, NoEntries} /\ (todo' # todo => t = "reinsert")
          /\ cache' = cache
        BY <1>6 DEF InsertPart, Throw
    <2> QED
        BY <1>1, <1>2, <1>3, <2>1, <2>2 DEF CallOps
<1>7. CASE AddCaches(t)
    BY <1>1, <1>2, <1>3, <1>7 DEF AddCaches, Return
<1>8. CASE UpdateCheck(t)
    BY <1>1, <1>2, <1>8 DEF UpdateCheck, Goto
<1>9. CASE UpdateLock(t)
    BY <1>1, <1>2, <1>3, <1>9 DEF UpdateLock, Throw
<1>10. CASE UpdateCaches(t)
    BY <1>1, <1>2, <1>3, <1>10 DEF UpdateCaches, Return
<1>11. CASE RemoveCheck(t)
    BY <1>1, <1>2, <1>3, <1>11 DEF RemoveCheck, Return
<1>12. CASE RemoveLock(t)
    BY <1>1, <1>2, <1>12 DEF RemoveLock, Goto
<1>13. CASE RemoveMutex(t)
    BY <1>1, <1>2, <1>3, <1>13 DEF RemoveMutex, Return
<1>14. CASE RemovePart(t)
    <2>1. op' = op \/ op' = [op EXCEPT ![t].step = @ + 1]
        BY <1>1, <1>14 DEF RemovePart
    <2>2. todo' = todo /\ cache' = cache
        BY <1>14 DEF RemovePart
    <2> QED
        BY <1>1, <1>2, <2>1, <2>2 DEF CallOps
<1>15. CASE Uncache(t)
    BY <1>1, <1>2, <1>3, <1>15 DEF Uncache, Return
<1> QED
    BY <1>4, <1>5, <1>6, <1>7, <1>8, <1>9, <1>10, <1>11, <1>12, <1>13, <1>14, <1>15 DEF Step

\* It rewrites no history, and the device stays where it is.
LEMMA StepPast ==
    ASSUME NodeAssumption, TInv, NEW t \in Workers, Step(t)
    PROVE  UNCHANGED <<met, crossed>> /\ (device' = Absent <=> device = Absent)
PROOF
<1>1. UNCHANGED <<met, crossed>>
    BY DEF Step, AddCheck, AddLock, InsertPart, AddCaches, UpdateCheck, UpdateLock,
           UpdateCaches, RemoveCheck, RemoveLock, RemoveMutex, RemovePart, Uncache, past
<1>2. device' = device \/ \E counts : DeviceLists(counts)
    BY DEF Step, AddCheck, AddLock, InsertPart, AddCaches, UpdateCheck, UpdateLock,
           UpdateCaches, RemoveCheck, RemoveLock, RemoveMutex, RemovePart, Uncache, Forget,
           model
<1>3. \A some \in SUBSET Streams : some # Absent
    BY DEF NodeAssumption
<1> QED
    BY <1>1, <1>2, <1>3 DEF DeviceLists

\* The stage depends on the phase, the reinsertion and its copies only.
LEMMA SameStage ==
    ASSUME UNCHANGED <<phase, todo>>, at'["reinsert"] = at["reinsert"]
    PROVE  stage' = stage /\ (Reinserting' <=> Reinserting)
PROOF
    BY DEF stage, Reinserting

\* A step of a call does not make a Node that is reinserting of one that is not.
LEMMA StepStage ==
    ASSUME TInv, NEW t \in Workers, Step(t)
    PROVE  /\ t = "reconcile" => stage' = stage /\ (Reinserting' <=> Reinserting)
           /\ stage' = "starting" => stage = "starting"
PROOF
<1> USE ThreadFacts
<1>1. /\ at \in [Threads -> Pcs] /\ at[t] \in CallPcs /\ phase' = phase
      /\ at' = [at EXCEPT ![t] = at'[t]]
      /\ todo' # todo => t = "reinsert"
    BY StepMoves, StepCopies DEF TInv, TypeOK
<1>2. t = "reconcile" => stage' = stage /\ (Reinserting' <=> Reinserting)
    BY <1>1, SameStage
<1>3. t = "reinsert" => Reinserting
    BY <1>1 DEF Reinserting, CallPcs, WorkerPcs
<1> QED
    BY <1>1, <1>2, <1>3 DEF stage

\* Calls and restarts cross streams, whatever comes when.
LEMMA PhaseHolds ==
    ASSUME NodeAssumption, TInv, PhaseTracked, ReinsertionAdds, Next
    PROVE  PhaseTracked'
PROOF
<1> USE ThreadFacts
<1>1. /\ at \in [Threads -> Pcs] /\ op \in [Workers -> Ops]
      /\ phase \in {"up", "starting", "failed", "stopping", "down"}
    BY DEF TInv, TypeOK
<1>2. CASE Calls
    <2>1. PICK kind \in {"add", "update", "remove"}, s \in Streams, c \in Contents :
              Call(kind, s, c)
        BY <1>2 DEF Calls
    <2>2. op'["reconcile"].s = s
        BY <1>1, <2>1 DEF Call
    <2>3. stage' = stage /\ at'["reinsert"] = at["reinsert"]
          /\ UNCHANGED <<phase, shutdown, device>>
        BY <1>1, <2>1, SameStage DEF Call, life, model
    <2>4. met' = (stage = "starting") /\ (stage = "starting" => s \in crossed')
        BY <2>1 DEF Call
    <2> QED
        BY <2>2, <2>3, <2>4 DEF PhaseTracked, Parked
<1>3. ASSUME NEW t \in Workers, Step(t)
      PROVE  PhaseTracked'
    <2>1. /\ at[t] \in CallPcs /\ at' = [at EXCEPT ![t] = at'[t]]
          /\ UNCHANGED <<phase, shutdown>>
          /\ op' = [op EXCEPT ![t] = op'[t]]
          /\ at'[t] \in CallPcs => op'[t].s = op[t].s
        BY <1>3, StepMoves, StepCopies
    <2>2. /\ UNCHANGED <<met, crossed>> /\ (device' = Absent <=> device = Absent)
          /\ stage' = "starting" => stage = "starting"
        BY <1>3, StepPast, StepStage
    <2>3. at'["reconcile"] \in CallPcs =>
              at["reconcile"] \in CallPcs /\ op'["reconcile"].s = op["reconcile"].s
        BY <1>1, <2>1
    <2>4. /\ at'["reinsert"] = "idle" => at["reinsert"] = "idle"
          /\ at["reinsert"] = "idle" => at'["reinsert"] = "idle"
          /\ at["reinsert"] = "device" => at'["reinsert"] = "device"
        BY <1>1, <1>3, StepMoves DEF CallPcs, WorkerPcs
    <2> QED
        BY <2>1, <2>2, <2>3, <2>4 DEF PhaseTracked, Parked
<1>4. CASE ActivationBegins \/ Activated
    <2>1. /\ at'["reinsert"] = at["reinsert"] /\ at'["reconcile"] = at["reconcile"]
          /\ UNCHANGED <<phase, shutdown, todo, op, met, crossed, device>>
        BY <1>1, <1>4 DEF ActivationBegins, Activated, Goto, life, past, model
    <2> QED
        BY <2>1, SameStage DEF PhaseTracked, Parked
<1>5. CASE StopShuts
    <2>1. /\ phase \in {"up", "starting", "failed"} /\ phase' = "stopping" /\ shutdown'
          /\ UNCHANGED <<at, todo, op, met, crossed>>
        BY <1>5 DEF StopShuts, past
    <2>2. phase \in {"up", "failed"} => ~Reinserting
        BY <2>1 DEF PhaseTracked, Parked, ReinsertionAdds, Reinserting
    <2>3. stage' = "starting" => stage = "starting"
        BY <2>1, <2>2 DEF stage, Reinserting
    <2> QED
        BY <2>1, <2>3 DEF PhaseTracked, Parked
<1>6. CASE Stopped
    <2>1. /\ phase = "stopping" /\ phase' = "down" /\ at["reinsert"] = "idle"
          /\ UNCHANGED <<at, todo, op, met, crossed, shutdown>>
        BY <1>6 DEF Stopped, past
    <2> QED
        BY <2>1 DEF PhaseTracked, Parked, stage
<1>7. CASE Start
    <2>1. /\ phase' \in {"starting", "failed"} /\ ~shutdown' /\ op' = op
          /\ phase' = "starting" => at'["reinsert"] = "device"
          /\ phase' = "failed" => at' = at
          /\ at'["reconcile"] = at["reconcile"] /\ phase = "down"
        BY <1>1, <1>7 DEF Start
    <2>2. at["reinsert"] = "idle"
        BY <2>1 DEF PhaseTracked, Parked
    <2>3. at["reconcile"] \in CallPcs =>
              op["reconcile"] # NoOp /\ met' /\ op["reconcile"].s \in crossed'
        BY <1>7, CallInProgress DEF Start
    <2> QED
        BY <2>1, <2>2, <2>3 DEF PhaseTracked, Parked
<1>8. CASE InitDevice \/ CopySenders \/ CopyReceivers \/ ReinsertNext
    <2>1. /\ at["reinsert"] \notin CallPcs \cup {"idle"} /\ at'["reinsert"] # "idle"
          /\ at'["reconcile"] = at["reconcile"]
          /\ op'["reconcile"] = op["reconcile"]
          /\ UNCHANGED <<phase, shutdown, met, crossed>>
        BY <1>1, <1>8
        DEF InitDevice, CopySenders, CopyReceivers, ReinsertNext, Goto, life, past, CallPcs,
            WorkerPcs
    <2>2. Reinserting
        BY <1>8
        DEF InitDevice, CopySenders, CopyReceivers, ReinsertNext, Goto, Reinserting, NoEntries
    <2>3. stage' = "starting" => stage = "starting"
        BY <2>1, <2>2 DEF stage
    <2>4. phase = "starting" => device' # Absent
        <3>1. CASE InitDevice
            BY <3>1 DEF InitDevice, NodeAssumption, PhaseTracked
        <3>2. CASE ~InitDevice
            BY <1>8, <3>2
            DEF CopySenders, CopyReceivers, ReinsertNext, Goto, model, PhaseTracked
        <3> QED
            BY <3>1, <3>2
    <2>5. phase \in {"starting", "stopping"}
        BY <1>1, <2>1 DEF PhaseTracked, Parked
    <2> QED
        BY <2>1, <2>3, <2>4, <2>5 DEF PhaseTracked, Parked
<1>9. CASE Reinserted
    <2>1. /\ at["reinsert"] = "next" /\ at'["reinsert"] = "idle"
          /\ at'["reconcile"] = at["reconcile"]
          /\ phase' = IF phase = "starting" THEN "up" ELSE phase
          /\ UNCHANGED <<shutdown, todo, op, met, crossed, device>> /\ todo = NoEntries
        BY <1>1, <1>9 DEF Reinserted, Goto, past, model
    <2>2. phase \in {"starting", "stopping"}
        BY <1>1, <2>1 DEF PhaseTracked, Parked
    <2>3. stage' # "starting"
        BY <2>1, <2>2 DEF stage, Reinserting
    <2> QED
        BY <2>1, <2>2, <2>3 DEF PhaseTracked, Parked
<1> QED
    BY <1>2, <1>3, <1>4, <1>5, <1>6, <1>7, <1>8, <1>9 DEF Next, Reinsert

\* How a step of a call treats the write lock: it takes it if it is free, gives
\* back its own, or leaves it alone.
LEMMA StepLocks ==
    ASSUME TInv, LocksTracked, NEW t \in Workers, Step(t)
    PROVE  /\ \/ model_lock' = model_lock /\ (at'[t] \in Holding => at[t] \in Holding)
              \/ model_lock = "free" /\ model_lock' = t
              \/ at[t] \in Holding /\ at'[t] \notin Holding
           /\ at'[t] = "caching" => at[t] = "inserting" /\ ~shutdown
           /\ shutdown' = shutdown
PROOF
<1>1. at \in [Threads -> Pcs] /\ t \in Threads
    BY ThreadFacts DEF TInv, TypeOK
<1> USE DEF Holding, life, locks
<1>2. CASE AddCheck(t)
    BY <1>1, <1>2 DEF AddCheck, Goto
<1>3. CASE AddLock(t)
    BY <1>1, <1>3 DEF AddLock, Throw
<1>4. CASE InsertPart(t)
    BY <1>1, <1>4 DEF InsertPart, Throw
<1>5. CASE AddCaches(t)
    BY <1>1, <1>5 DEF AddCaches, Return
<1>6. CASE UpdateCheck(t)
    BY <1>1, <1>6 DEF UpdateCheck, Goto
<1>7. CASE UpdateLock(t)
    BY <1>1, <1>7 DEF UpdateLock, Throw
<1>8. CASE UpdateCaches(t)
    BY <1>1, <1>8 DEF UpdateCaches, Return
<1>9. CASE RemoveCheck(t)
    BY <1>1, <1>9 DEF RemoveCheck, Return
<1>10. CASE RemoveLock(t)
    BY <1>1, <1>10 DEF RemoveLock, Goto
<1>11. CASE RemoveMutex(t)
    BY <1>1, <1>11 DEF RemoveMutex, Return
<1>12. CASE RemovePart(t)
    BY <1>1, <1>12 DEF RemovePart
<1>13. CASE Uncache(t)
    BY <1>1, <1>13 DEF Uncache, Return
<1> QED
    BY <1>2, <1>3, <1>4, <1>5, <1>6, <1>7, <1>8, <1>9, <1>10, <1>11, <1>12, <1>13 DEF Step

\* Whoever is between taking the write lock and giving it back has it, and no
\* Node begins to stop before a call that has inserted everything caches it.
LEMMA LocksHold ==
    ASSUME TInv, LocksTracked, Next
    PROVE  LocksTracked'
PROOF
<1>1. at \in [Threads -> Pcs] /\ "free" \notin Threads
    BY ThreadFacts DEF TInv, TypeOK
<1>2. CASE Calls
    <2>1. PICK pc \in Early \ {"remove_mutex"} : at' = [at EXCEPT !["reconcile"] = pc]
        BY <1>2 DEF Calls, Call, Early
    <2> QED
        BY <1>1, <1>2, <2>1, ThreadFacts
        DEF Calls, Call, LocksTracked, Holding, Early, locks, life
<1>3. ASSUME NEW t \in Workers, Step(t)
      PROVE  LocksTracked'
    <2>1. at' = [at EXCEPT ![t] = at'[t]]
        BY <1>3, StepMoves
    <2>2. \A u \in Threads : u # t => at'[u] = at[u]
        BY <1>1, <2>1
    <2>3. at[t] \in Holding => model_lock = t
        BY DEF LocksTracked
    <2>4. t \in Threads /\ t # "activate"
        BY ThreadFacts
    <2>5. "caching" \in Holding
        BY DEF Holding
    <2> QED
        BY <1>1, <1>3, <2>2, <2>3, <2>4, <2>5, StepLocks, ThreadFacts DEF LocksTracked
<1>4. CASE ActivationBegins \/ Activated
    BY <1>1, <1>4, ThreadFacts
    DEF ActivationBegins, Activated, Goto, LocksTracked, Holding, life
<1>5. CASE StopShuts \/ Stopped \/ Start
    BY <1>1, <1>5, ThreadFacts
    DEF StopShuts, Stopped, Start, LocksTracked, Holding, locks
<1>6. CASE Reinsert
    <2>1. /\ at' = [at EXCEPT !["reinsert"] = at'["reinsert"]]
          /\ at'["reinsert"] \notin Holding
          /\ model_lock' = model_lock /\ shutdown' = shutdown
        BY <1>1, <1>6, ThreadFacts
        DEF Reinsert, InitDevice, CopySenders, CopyReceivers, ReinsertNext, Reinserted, Goto,
            Holding, locks, life
    <2>2. \A u \in Threads : u # "reinsert" => at'[u] = at[u]
        BY <1>1, <2>1
    <2> QED
        BY <2>1, <2>2, ThreadFacts DEF LocksTracked, Holding
<1> QED
    BY <1>2, <1>3, <1>4, <1>5, <1>6 DEF Next


-----------------------------------------------------------------------------
(* Where the copies of a stream are.                                       *)

\* A slot that is filled has one configuration, and it can be used.
LEMMA SlotFacts ==
    ASSUME NEW slot \in Slots, slot # <<>>
    PROVE  Head(slot) \in Good /\ Tail(slot) = <<>> /\ Len(slot) = 1 /\ slot = <<Head(slot)>>
PROOF
<1>1. PICK c \in Good : slot = <<c>>
    BY DEF Slots
<1> QED
    BY <1>1

\* While a call that has met no reinsertion is under way none does anything.
LEMMA Undisturbed ==
    ASSUME TInv, PhaseTracked, ReinsertionAdds, at["reconcile"] \in CallPcs,
           ~met \/ op["reconcile"].s \notin crossed
    PROVE  ~met /\ at["reinsert"] \in {"idle", "next"} /\ todo = NoEntries
PROOF
<1>1. ~met
    BY DEF PhaseTracked
<1>2. stage # "starting"
    BY <1>1 DEF PhaseTracked
<1>3. phase \in {"up", "starting", "failed", "stopping", "down"}
    BY DEF TInv, TypeOK
<1>4. CASE phase = "stopping"
    BY <1>1, <1>2, <1>4 DEF stage, Reinserting
<1>5. CASE phase # "stopping"
    BY <1>1, <1>2, <1>3, <1>5 DEF stage, PhaseTracked, Parked, ReinsertionAdds
<1> QED
    BY <1>4, <1>5

\* How a call comes to where it relies on what it has seen, and what it caches.
LEMMA StepSees ==
    ASSUME TInv, NEW t \in Workers, Step(t)
    PROVE  LET s == op[t].s
               content == op[t].content
           IN  /\ at[t] = "caching" => cache'[s] = Append(cache[s], content)
               /\ at[t] = "recaching" =>
                     cache'[s] = IF cache[s] = <<>> THEN <<>>
                                 ELSE <<content>> \o Tail(cache[s])
               /\ at[t] = "uncaching" => cache'[s] = <<>>
               /\ at[t] \in {"caching", "recaching", "uncaching"} => at'[t] \notin CallPcs
               /\ at'[t] = "add_lock" => cache[s] = <<>>
               /\ at'[t] \in {"inserting", "caching"} =>
                     \/ at[t] = "inserting"
                     \/ at[t] = "add_lock" /\ content \notin Unusable
               /\ at'[t] = "update_lock" => cache[s] # <<>>
               /\ at'[t] = "recaching" => at[t] = "update_lock" /\ content \notin Unusable
               /\ at'[t] = "remove_lock" => cache[s] # <<>>
               /\ at'[t] = "removing" =>
                     \/ at[t] = "removing" \/ cache[s] # <<>>
                     \/ at[t] = "remove_lock" /\ s \in Senders
               /\ at'[t] = "uncaching" => at[t] = "removing"
               /\ at'[t] = "add_check" => at[t] = "update_check" /\ cache[s] = <<>>
               /\ at'[t] = "update_check" => at[t] = "add_check" /\ cache[s] # <<>>
               /\ at'[t] = "remove_mutex" => at[t] = "remove_lock"
               /\ at'[t] # "remove_check"
PROOF
<1>1. /\ at \in [Threads -> Pcs] /\ t \in Threads
      /\ cache \in [Streams -> Seq(Contents)] /\ op[t].s \in Streams
    BY StepMoves, CallInProgress, ThreadFacts DEF TInv, TypeOK
<1> USE DEF CallPcs, WorkerPcs, Cached
<1>2. CASE AddCheck(t)
    BY <1>1, <1>2 DEF AddCheck, Goto
<1>3. CASE AddLock(t)
    BY <1>1, <1>3 DEF AddLock, Throw
<1>4. CASE InsertPart(t)
    BY <1>1, <1>4 DEF InsertPart, Throw
<1>5. CASE AddCaches(t)
    BY <1>1, <1>5 DEF AddCaches, Return
<1>6. CASE UpdateCheck(t)
    BY <1>1, <1>6 DEF UpdateCheck, Goto
<1>7. CASE UpdateLock(t)
    BY <1>1, <1>7 DEF UpdateLock, Throw
<1>8. CASE UpdateCaches(t)
    BY <1>1, <1>8 DEF UpdateCaches, Return
<1>9. CASE RemoveCheck(t)
    BY <1>1, <1>9 DEF RemoveCheck, Return
<1>10. CASE RemoveLock(t)
    BY <1>1, <1>10 DEF RemoveLock, Goto, Senders
<1>11. CASE RemoveMutex(t)
    BY <1>1, <1>11 DEF RemoveMutex, Return
<1>12. CASE RemovePart(t)
    BY <1>1, <1>12 DEF RemovePart
<1>13. CASE Uncache(t)
    BY <1>1, <1>13 DEF Uncache, Return
<1> QED
    BY <1>2, <1>3, <1>4, <1>5, <1>6, <1>7, <1>8, <1>9, <1>10, <1>11, <1>12, <1>13 DEF Step

\* The reinsertion adds each copy, and finds no older one unless a call made it.
LEMMA ReinsertionHolds ==
    ASSUME NodeAssumption, TInv, PhaseTracked, ReinsertionAdds, OneCopy, Next
    PROVE  ReinsertionAdds'
PROOF
<1> USE ThreadFacts
<1>1. at \in [Threads -> Pcs] /\ op \in [Workers -> Ops] /\ crossed \subseteq Streams
    BY DEF TInv, TypeOK
<1>2. CASE Calls
    <2>1. /\ at'["reinsert"] = at["reinsert"] /\ op'["reinsert"] = op["reinsert"]
          /\ todo' = todo /\ crossed \subseteq crossed'
        BY <1>1, <1>2 DEF Calls, Call
    <2> QED
        BY <2>1 DEF ReinsertionAdds
<1>3. CASE Step("reconcile")
    <2>1. /\ at'["reinsert"] = at["reinsert"] /\ op'["reinsert"] = op["reinsert"]
          /\ todo' = todo /\ crossed' = crossed
        BY <1>1, <1>3, StepMoves, StepCopies, StepPast
    <2> QED
        BY <2>1 DEF ReinsertionAdds
<1>4. CASE Step("reinsert")
    <2>1. /\ at["reinsert"] \in CallPcs /\ crossed' = crossed
          /\ at'["reinsert"] \in CallPcs \cup {"next"}
          /\ at'["reinsert"] \in CallPcs =>
                op'["reinsert"].s = op["reinsert"].s /\ op'["reinsert"].kind = "add"
        BY <1>4, StepMoves, StepCopies, StepPast DEF ReinsertionAdds
    <2>2. ASSUME at'["reinsert"] \in CallPcs, op["reinsert"].s \notin crossed
          PROVE  at'["reinsert"] \in Adds
        <3> DEFINE s == op["reinsert"].s
        <3>1. at["reinsert"] \in Adds /\ s \in Streams
            BY <2>1, <2>2, CallInProgress DEF ReinsertionAdds
        <3>2. cache[s] = <<>>
            BY <2>2, <3>1 DEF OneCopy, Adding
        <3> HIDE DEF s
        <3> QED
            BY <1>4, <2>2, <3>1, <3>2, StepSees, ThreadFacts DEF s, Adds, CallPcs, WorkerPcs
    <2>3. "next" \notin CallPcs \cup {"idle", "device", "copy_senders", "copy_receivers"}
        BY DEF CallPcs, WorkerPcs
    <2>4. at'["reinsert"] \notin {"idle", "device", "copy_senders", "copy_receivers"}
        BY <2>1, <2>3 DEF CallPcs, WorkerPcs
    <2> QED
        BY <2>1, <2>2, <2>4 DEF ReinsertionAdds
<1>5. CASE ActivationBegins \/ Activated \/ StopShuts \/ Stopped
    <2>1. at'["reinsert"] = at["reinsert"] /\ UNCHANGED <<todo, op, crossed>>
        BY <1>1, <1>5 DEF ActivationBegins, Activated, StopShuts, Stopped, Goto, past
    <2> QED
        BY <2>1 DEF ReinsertionAdds
<1>6. CASE Start
    <2>1. /\ phase = "down" /\ UNCHANGED <<todo, op>> /\ crossed \subseteq crossed'
          /\ at'["reinsert"] \in {"device", "idle"}
        BY <1>1, <1>6 DEF Start, PhaseTracked, Parked
    <2> QED
        BY <2>1 DEF ReinsertionAdds, PhaseTracked, Parked, CallPcs, WorkerPcs
<1>7. CASE InitDevice
    BY <1>1, <1>7 DEF InitDevice, Goto, ReinsertionAdds, CallPcs, WorkerPcs
<1>8. CASE CopySenders
    <2>1. /\ at'["reinsert"] \in {"copy_receivers", "next"}
          /\ todo' = Of(cache, Senders)
        BY <1>1, <1>8 DEF CopySenders, Goto
    <2> QED
        BY <2>1, <1>1 DEF NodeAssumption, Of, Senders, ReinsertionAdds, CallPcs, WorkerPcs
<1>9. CASE CopyReceivers
    BY <1>1, <1>9 DEF CopyReceivers, Goto, ReinsertionAdds, CallPcs, WorkerPcs
<1>10. CASE ReinsertNext
    BY <1>1, <1>10 DEF ReinsertNext, Goto, ReinsertionAdds, Adds
<1>11. CASE Reinserted
    BY <1>1, <1>11 DEF Reinserted, Goto, ReinsertionAdds, CallPcs, WorkerPcs
<1> QED
    BY <1>2, <1>3, <1>4, <1>5, <1>6, <1>7, <1>8, <1>9, <1>10, <1>11 DEF Next, Reinsert

\* A step of a call caches what can be made only.
LEMMA StepUsable ==
    ASSUME TInv, OneCopy, NEW t \in Workers, Step(t)
    PROVE  UsableOnly'
PROOF
<1> USE ThreadFacts
<1> DEFINE s == op[t].s
           content == op[t].content
<1>1. /\ at \in [Threads -> Pcs] /\ at[t] \in CallPcs /\ op \in [Workers -> Ops]
      /\ at' = [at EXCEPT ![t] = at'[t]] /\ op' = [op EXCEPT ![t] = op'[t]]
      /\ at'[t] \in CallPcs => op'[t].content = content
      /\ s \in Streams /\ content \in Contents
      /\ cache' = [cache EXCEPT ![s] = cache'[s]] /\ todo' \in {todo, NoEntries}
    BY StepMoves, StepCopies, CallInProgress DEF TInv, TypeOK
<1>2. cache \in [Streams -> Seq(Good)] /\ todo \in [Streams -> Seq(Good)]
    BY DEF OneCopy, UsableOnly
<1>3. at[t] \in {"inserting", "caching", "recaching"} => content \in Good
    BY DEF OneCopy, UsableOnly
<1>4. cache'[s] \in Seq(Good)
    <2>1. cache[s] \in Seq(Good)
        BY <1>1, <1>2
    <2>2. CASE at[t] = "caching"
        <3>1. cache'[s] = Append(cache[s], content)
            BY <2>2, StepSees
        <3> HIDE DEF s, content
        <3> QED
            BY <1>3, <2>1, <2>2, <3>1
    <2>3. CASE at[t] = "recaching"
        <3>1. cache'[s] = IF cache[s] = <<>> THEN <<>> ELSE <<content>> \o Tail(cache[s])
            BY <2>3, StepSees
        <3> HIDE DEF s, content
        <3>2. cache[s] # <<>> => Tail(cache[s]) \in Seq(Good) /\ <<content>> \in Seq(Good)
            BY <1>3, <2>1, <2>3
        <3> QED
            BY <3>1, <3>2
    <2>4. CASE at[t] \notin {"caching", "recaching"}
        <3>1. cache' = cache \/ cache'[s] = <<>>
            BY <2>4, StepCopies, StepSees
        <3>2. <<>> \in Seq(Good)
            OBVIOUS
        <3> HIDE DEF s
        <3> QED
            BY <2>1, <3>1, <3>2
    <2> QED
        BY <2>2, <2>3, <2>4
<1>5. cache' \in [Streams -> Seq(Good)]
    <2> HIDE DEF s
    <2> QED
        BY <1>1, <1>2, <1>4
<1>6. todo' \in [Streams -> Seq(Good)]
    <2>1. <<>> \in Seq(Good)
        OBVIOUS
    <2>2. NoEntries \in [Streams -> Seq(Good)]
        BY <2>1 DEF NoEntries
    <2> QED
        BY <1>1, <1>2, <2>2
<1>7. at'["reinsert"] \in CallPcs => op'["reinsert"].content \in Good
    BY <1>1 DEF OneCopy, UsableOnly
<1>8. at'[t] \in {"inserting", "caching", "recaching"} => content \in Good
    BY <1>1, <1>3, StepSees DEF Good
<1>9. ASSUME NEW u \in Workers, at'[u] \in {"inserting", "caching", "recaching"}
      PROVE  op'[u].content \in Good
    <2>1. CASE u = t
        BY <1>1, <1>8, <1>9, <2>1 DEF CallPcs, WorkerPcs
    <2>2. CASE u # t
        BY <1>1, <1>9, <2>2 DEF OneCopy, UsableOnly
    <2> QED
        BY <2>1, <2>2
<1> QED
    BY <1>5, <1>6, <1>7, <1>9 DEF UsableOnly

\* What a call that has met no reinsertion has seen in the cache stays there.
LEMMA StepCallTracked ==
    ASSUME NodeAssumption, TInv, PhaseTracked, ReinsertionAdds, OneCopy,
           NEW t \in Workers, Step(t)
    PROVE  CallTracked'
PROOF
<1> USE ThreadFacts
<1>1. /\ at \in [Threads -> Pcs] /\ at[t] \in CallPcs
      /\ at' = [at EXCEPT ![t] = at'[t]] /\ UNCHANGED <<met, crossed>>
    BY StepMoves, StepPast DEF TInv, TypeOK
<1>2. SUFFICES ASSUME at'["reconcile"] \in CallPcs, ~met
               PROVE  CallTracked'
    BY <1>1 DEF CallTracked
<1>3. CASE t = "reinsert"
    <2>1. at["reconcile"] \in CallPcs
        BY <1>1, <1>2, <1>3
    <2> QED
        BY <1>1, <1>2, <1>3, <2>1, Undisturbed DEF CallPcs, WorkerPcs
<1>4. CASE t = "reconcile"
    <2>1. /\ op'[t].s = op[t].s
          /\ at[t] \notin {"caching", "recaching", "uncaching"} => cache' = cache
        BY <1>2, <1>4, StepCopies
    <2>2. at[t] \notin {"caching", "recaching", "uncaching"}
        BY <1>2, <1>4, StepSees
    <2>3. LET entries == cache[op[t].s]
          IN  /\ at[t] \in {"add_lock", "inserting", "caching"} => entries = <<>>
              /\ \/ at[t] \in {"update_lock", "recaching", "removing", "uncaching"}
                 \/ at[t] = "remove_lock" /\ op[t].s \in Senders
                 => entries # <<>>
        BY <1>1, <1>2, <1>4 DEF OneCopy, CallTracked
    <2>4. LET entries == cache[op[t].s]
          IN  /\ at'[t] \in {"add_lock", "inserting", "caching"} => entries = <<>>
              /\ \/ at'[t] \in {"update_lock", "recaching", "removing", "uncaching"}
                 \/ at'[t] = "remove_lock" /\ op[t].s \in Senders
                 => entries # <<>>
        BY <2>3, StepSees
    <2> QED
        BY <1>4, <2>1, <2>2, <2>4 DEF CallTracked
<1> QED
    BY <1>3, <1>4

\* A step of a call leaves a stream that no call has crossed in one place.
LEMMA StepSlots ==
    ASSUME NodeAssumption, TInv, PhaseTracked, ReinsertionAdds, OneCopy,
           NEW t \in Workers, Step(t), NEW r \in Streams \ crossed
    PROVE  /\ cache'[r] \in Slots /\ todo'[r] \in Slots
           /\ cache'[r] = <<>> \/ todo'[r] = <<>>
           /\ Adding("reinsert", r)' => cache'[r] = <<>> /\ todo'[r] = <<>>
PROOF
<1> USE ThreadFacts
<1> DEFINE s == op[t].s
<1>1. /\ at \in [Threads -> Pcs] /\ at[t] \in CallPcs /\ op \in [Workers -> Ops]
      /\ at' = [at EXCEPT ![t] = at'[t]] /\ op' = [op EXCEPT ![t] = op'[t]]
      /\ at'[t] \in CallPcs => op'[t].s = s
      /\ s \in Streams /\ cache \in [Streams -> Seq(Contents)] /\ crossed' = crossed
      /\ cache' = [cache EXCEPT ![s] = cache'[s]] /\ todo' \in {todo, NoEntries}
    BY StepMoves, StepCopies, StepPast, CallInProgress DEF TInv, TypeOK
<1>2. /\ cache[r] \in Slots /\ todo[r] \in Slots
      /\ cache[r] = <<>> \/ todo[r] = <<>>
      /\ Adding("reinsert", r) => cache[r] = <<>> /\ todo[r] = <<>>
    BY DEF OneCopy
<1>3. todo'[r] \in {todo[r], <<>>} /\ <<>> \in Slots
    BY <1>1 DEF NoEntries, Slots
<1>4. CASE r # s
    <2>1. cache'[r] = cache[r]
        BY <1>1, <1>4
    <2>2. Adding("reinsert", r)' => Adding("reinsert", r)
        BY <1>1, <1>4 DEF Adding, Adds, CallPcs, WorkerPcs
    <2> QED
        BY <1>2, <1>3, <2>1, <2>2
<1>5. CASE r = s
    <2>1. CASE t = "reconcile"
        <3>1. ~met /\ at["reinsert"] \in {"idle", "next"} /\ todo = NoEntries
            BY <1>1, <1>5, <2>1, Undisturbed
        <3>2. at'["reinsert"] \notin Adds /\ todo'[r] = <<>>
            BY <1>1, <2>1, <3>1 DEF NoEntries, Adds
        <3>3. at[t] = "caching" => cache[s] = <<>>
            BY <1>1, <2>1, <3>1 DEF OneCopy, CallTracked
        <3>4. at[t] \in {"caching", "recaching"} => op[t].content \in Good
            BY DEF OneCopy, UsableOnly
        <3>5. cache'[r] \in Slots
            <4>1. CASE at[t] = "caching"
                <5>1. cache'[s] = Append(<<>>, op[t].content)
                    BY <3>3, <4>1, StepSees
                <5> QED
                    BY <1>5, <3>4, <4>1, <5>1 DEF Slots
            <4>2. CASE at[t] = "recaching"
                <5>1. cache'[s] = IF cache[s] = <<>> THEN <<>>
                                  ELSE <<op[t].content>> \o Tail(cache[s])
                    BY <4>2, StepSees
                <5>2. cache[s] # <<>> => Tail(cache[s]) = <<>>
                    BY <1>2, <1>5, SlotFacts
                <5>3. cache[s] # <<>> => cache'[s] = <<op[t].content>>
                    <6>1. <<op[t].content>> \o <<>> = <<op[t].content>>
                        BY <3>4, <4>2
                    <6> QED
                        BY <5>1, <5>2, <6>1
                <5> QED
                    BY <1>3, <1>5, <3>4, <4>2, <5>1, <5>3 DEF Slots
            <4>3. CASE at[t] \notin {"caching", "recaching"}
                <5>1. cache' = cache \/ cache'[s] = <<>>
                    BY <4>3, StepCopies, StepSees
                <5> QED
                    BY <1>2, <1>3, <1>5, <5>1
            <4> QED
                BY <4>1, <4>2, <4>3
        <3> QED
            BY <1>3, <3>2, <3>5 DEF Adding, Slots
    <2>2. CASE t = "reinsert"
        <3>1. at[t] \in Adds
            BY <1>1, <1>5, <2>2 DEF ReinsertionAdds
        <3>2. cache[r] = <<>> /\ todo[r] = <<>>
            BY <1>2, <1>5, <2>2, <3>1 DEF Adding
        <3>3. CASE at[t] = "caching"
            <4>1. cache'[s] = Append(<<>>, op[t].content) /\ at'[t] \notin CallPcs
                BY <1>5, <3>2, <3>3, StepSees
            <4>2. op[t].content \in Good
                BY <3>3 DEF OneCopy, UsableOnly
            <4> QED
                BY <1>3, <1>5, <2>2, <3>2, <4>1, <4>2
                DEF Slots, Adding, Adds, CallPcs, WorkerPcs
        <3>4. CASE at[t] # "caching"
            <4>1. cache' = cache
                BY <3>1, <3>4, StepCopies DEF Adds
            <4> QED
                BY <1>2, <1>3, <3>2, <4>1
        <3> QED
            BY <3>3, <3>4
    <2> QED
        BY <2>1, <2>2
<1> QED
    BY <1>4, <1>5

\* A step of a call leaves every stream in one place.
LEMMA StepOneCopy ==
    ASSUME NodeAssumption, TInv, PhaseTracked, ReinsertionAdds, OneCopy,
           NEW t \in Workers, Step(t)
    PROVE  OneCopy'
PROOF
<1>1. crossed' = crossed
    BY StepPast
<1> QED
    BY <1>1, StepUsable, StepCallTracked, StepSlots DEF OneCopy

\* Wherever the copies go, a stream is in one place.
LEMMA OneCopyHolds ==
    ASSUME NodeAssumption, TInv, PhaseTracked, ReinsertionAdds, OneCopy, Next
    PROVE  OneCopy'
PROOF
<1> USE ThreadFacts
<1>1. /\ at \in [Threads -> Pcs] /\ op \in [Workers -> Ops] /\ <<>> \in Slots
      /\ cache \in [Streams -> Seq(Good)] /\ todo \in [Streams -> Seq(Good)]
    BY DEF TInv, TypeOK, OneCopy, UsableOnly, Slots
<1>2. CASE Calls
    <2>1. PICK kind \in {"add", "update", "remove"}, s \in Streams, c \in Contents :
              Call(kind, s, c)
        BY <1>2 DEF Calls
    <2>2. /\ \/ at'["reconcile"] \in {"add_check", "update_check", "remove_check"}
             \/ at'["reconcile"] = "remove_lock" /\ s \in Receivers
          /\ op'["reconcile"].s = s
        BY <1>1, <2>1 DEF Call
    <2>3. /\ at'["reinsert"] = at["reinsert"] /\ op'["reinsert"] = op["reinsert"]
          /\ UNCHANGED <<cache, todo>> /\ crossed \subseteq crossed'
        BY <1>1, <2>1 DEF Call, model
    <2>4. CallTracked'
        BY <2>2 DEF CallTracked, Senders
    <2>5. UsableOnly'
        BY <2>2, <2>3 DEF OneCopy, UsableOnly
    <2> QED
        BY <2>3, <2>4, <2>5 DEF OneCopy, Adding
<1>3. ASSUME NEW t \in Workers, Step(t)
      PROVE  OneCopy'
    BY <1>3, StepOneCopy
<1>4. CASE ActivationBegins \/ Activated \/ StopShuts \/ Stopped \/ InitDevice \/ Reinserted
    <2>1. /\ at'["reconcile"] = at["reconcile"]
          /\ at'["reinsert"] = at["reinsert"] \/ at'["reinsert"] \notin CallPcs
          /\ UNCHANGED <<cache, todo, op, met, crossed>>
        BY <1>1, <1>4
        DEF ActivationBegins, Activated, StopShuts, Stopped, InitDevice, Reinserted, Goto,
            model, past, CallPcs, WorkerPcs
    <2> QED
        BY <2>1 DEF OneCopy, UsableOnly, CallTracked, Adding, Adds, CallPcs, WorkerPcs
<1>5. CASE Start
    <2>1. /\ at'["reconcile"] = at["reconcile"]
          /\ at'["reinsert"] = at["reinsert"] \/ at'["reinsert"] \notin CallPcs
          /\ UNCHANGED <<cache, todo, op>> /\ crossed \subseteq crossed'
        BY <1>1, <1>5 DEF Start, CallPcs, WorkerPcs
    <2>2. at["reconcile"] \in CallPcs => met'
        BY <1>5, CallInProgress DEF Start
    <2> QED
        BY <2>1, <2>2 DEF OneCopy, UsableOnly, CallTracked, Adding, Adds, CallPcs, WorkerPcs
<1>6. CASE CopySenders \/ CopyReceivers
    <2>1. /\ at["reinsert"] \in {"copy_senders", "copy_receivers"}
          /\ at'["reconcile"] = at["reconcile"]
          /\ at'["reinsert"] \in {"copy_receivers", "next"}
          /\ UNCHANGED <<op, met, crossed>>
        BY <1>1, <1>6 DEF CopySenders, CopyReceivers, Goto, past
    <2>2. /\ \A s \in Streams :
                /\ cache'[s] \in {cache[s], <<>>} /\ todo'[s] \in {todo[s], cache[s], <<>>}
                /\ cache'[s] = <<>> \/ todo'[s] \in {todo[s], <<>>}
          /\ cache' = [s \in Streams |-> cache'[s]] /\ todo' = [s \in Streams |-> todo'[s]]
        <3>1. CASE CopySenders
            BY <3>1 DEF CopySenders, Of, Senders
        <3>2. CASE CopyReceivers
            BY <3>2 DEF CopyReceivers, Of, Senders
        <3> QED
            BY <1>6, <3>1, <3>2
    <2>3. CallTracked'
        BY <2>1, Undisturbed DEF CallTracked
    <2>4. UsableOnly'
        <3>1. <<>> \in Seq(Good)
            OBVIOUS
        <3>2. cache' \in [Streams -> Seq(Good)] /\ todo' \in [Streams -> Seq(Good)]
            BY <1>1, <2>2, <3>1
        <3> QED
            BY <2>1, <3>2 DEF OneCopy, UsableOnly, CallPcs, WorkerPcs
    <2>5. ASSUME NEW s \in Streams \ crossed
          PROVE  /\ cache'[s] \in Slots /\ todo'[s] \in Slots
                 /\ cache'[s] = <<>> \/ todo'[s] = <<>>
        BY <1>1, <2>2 DEF OneCopy
    <2> QED
        BY <2>1, <2>3, <2>4, <2>5 DEF OneCopy, Adding, Adds
<1>7. CASE ReinsertNext
    <2>1. PICK s \in Streams :
              /\ todo[s] # <<>>
              /\ op' = [op EXCEPT !["reinsert"] =
                           [kind |-> "add", s |-> s, content |-> Head(todo[s]), step |-> 1]]
              /\ todo' = [todo EXCEPT ![s] = Tail(@)]
        BY <1>7 DEF ReinsertNext
    <2>2. Head(todo[s]) \in Good /\ Tail(todo[s]) \in Seq(Good) /\ todo # NoEntries
        BY <1>1, <2>1 DEF NoEntries
    <2>3. s \notin crossed => Tail(todo[s]) = <<>> /\ cache[s] = <<>>
        BY <2>1, SlotFacts DEF OneCopy
    <2>4. /\ at'["reconcile"] = at["reconcile"] /\ at'["reinsert"] = "add_check"
          /\ UNCHANGED <<cache, met, crossed>>
        BY <1>1, <1>7 DEF ReinsertNext, Goto, model, past
    <2>5. /\ op'["reconcile"] = op["reconcile"]
          /\ op'["reinsert"].s = s /\ op'["reinsert"].content \in Good
        BY <1>1, <2>1, <2>2
    <2>6. todo' \in [Streams -> Seq(Good)]
        BY <1>1, <2>1, <2>2
    <2>7. CallTracked'
        BY <2>2, <2>4, Undisturbed DEF CallTracked
    <2>8. UsableOnly'
        BY <1>1, <2>4, <2>5, <2>6 DEF OneCopy, UsableOnly
    <2>9. ASSUME NEW r \in Streams \ crossed
          PROVE  /\ todo'[r] \in Slots
                 /\ cache[r] = <<>> \/ todo'[r] = <<>>
                 /\ r = s => cache[r] = <<>> /\ todo'[r] = <<>>
        BY <1>1, <2>1, <2>3 DEF OneCopy
    <2> QED
        BY <2>4, <2>5, <2>7, <2>8, <2>9 DEF OneCopy, Adding
<1> QED
    BY <1>2, <1>3, <1>4, <1>5, <1>6, <1>7 DEF Next, Reinsert

-----------------------------------------------------------------------------
(* What a Node that is starting or up has of each stream.                  *)

\* Each resource goes in once, and all of them make the stream.
LEMMA InsertedGrows ==
    ASSUME NEW s \in Streams, NEW k \in 1..Last(s)
    PROVE  /\ InsertOrder(s)[k] \in Parts /\ InsertOrder(s)[k] \notin Inserted(s, k)
           /\ Inserted(s, k + 1) = Inserted(s, k) \cup {InsertOrder(s)[k]}
           /\ Inserted(s, 1) = {}
           /\ k = Last(s) => Inserted(s, k + 1) = PartsOf(s)
PROOF
<1>1. CASE s \in Receivers
    <2>1. InsertOrder(s) = <<"endpoint", "connection">> /\ Last(s) = 2
          /\ PartsOf(s) = {"endpoint", "connection"}
        BY <1>1 DEF InsertOrder, Last, PartsOf
    <2>2. /\ Inserted(s, 1) = {}
          /\ Inserted(s, 2) = {"endpoint"}
          /\ Inserted(s, 3) = {"endpoint", "connection"}
        BY <2>1 DEF Inserted
    <2>3. k = 1 \/ k = 2
        BY <2>1
    <2> QED
        BY <2>1, <2>2, <2>3 DEF Parts
<1>2. CASE s \notin Receivers
    <2>1. InsertOrder(s) = <<"source", "flow", "endpoint", "connection">> /\ Last(s) = 4
          /\ PartsOf(s) = {"source", "flow", "endpoint", "connection"}
        BY <1>2 DEF InsertOrder, Last, PartsOf, Parts
    <2>2. /\ Inserted(s, 1) = {}
          /\ Inserted(s, 2) = {"source"}
          /\ Inserted(s, 3) = {"source", "flow"}
          /\ Inserted(s, 4) = {"source", "flow", "endpoint"}
          /\ Inserted(s, 5) = {"source", "flow", "endpoint", "connection"}
        BY <2>1 DEF Inserted
    <2>3. k = 1 \/ k = 2 \/ k = 3 \/ k = 4
        BY <2>1
    <2> QED
        BY <2>1, <2>2, <2>3 DEF Parts
<1> QED
    BY <1>1, <1>2

\* Each resource goes out once, and all of them were the stream.
LEMMA RemovedGrows ==
    ASSUME NEW s \in Streams, NEW k \in 1..Last(s)
    PROVE  /\ RemoveOrder(s)[k] \in Parts
           /\ Removed(s, k + 1) = Removed(s, k) \cup {RemoveOrder(s)[k]}
           /\ Removed(s, 1) = {}
           /\ k = Last(s) => PartsOf(s) \ Removed(s, k + 1) = {}
PROOF
<1>1. CASE s \in Receivers
    <2>1. RemoveOrder(s) = <<"connection", "endpoint">> /\ Last(s) = 2
          /\ PartsOf(s) = {"endpoint", "connection"}
        BY <1>1 DEF RemoveOrder, Last, PartsOf
    <2>2. /\ Removed(s, 1) = {}
          /\ Removed(s, 2) = {"connection"}
          /\ Removed(s, 3) = {"connection", "endpoint"}
        BY <2>1 DEF Removed
    <2>3. k = 1 \/ k = 2
        BY <2>1
    <2> QED
        BY <2>1, <2>2, <2>3 DEF Parts
<1>2. CASE s \notin Receivers
    <2>1. RemoveOrder(s) = <<"endpoint", "connection", "source", "flow">> /\ Last(s) = 4
          /\ PartsOf(s) = {"source", "flow", "endpoint", "connection"}
        BY <1>2 DEF RemoveOrder, Last, PartsOf, Parts
    <2>2. /\ Removed(s, 1) = {}
          /\ Removed(s, 2) = {"endpoint"}
          /\ Removed(s, 3) = {"endpoint", "connection"}
          /\ Removed(s, 4) = {"endpoint", "connection", "source"}
          /\ Removed(s, 5) = {"endpoint", "connection", "source", "flow"}
        BY <2>1 DEF Removed
    <2>3. k = 1 \/ k = 2 \/ k = 3 \/ k = 4
        BY <2>1
    <2> QED
        BY <2>1, <2>2, <2>3 DEF Parts
<1> QED
    BY <1>1, <1>2

\* Nobody else is at a stream that a call has not crossed, and no copy of it waits.
LEMMA Alone ==
    ASSUME TInv, PhaseTracked, ReinsertionAdds, NEW t \in Workers, at[t] \in CallPcs,
           op[t].s \notin crossed
    PROVE  /\ \A u \in Workers : Busy(u, op[t].s) => u = t
           /\ at["reinsert"] \in CallPcs \cup {"idle", "next"}
PROOF
    BY ThreadFacts, Undisturbed DEF Busy, CallPcs, WorkerPcs

\* A step of a call leaves the other streams alone, and the device lists the ids.
LEMMA StepFrame ==
    ASSUME TInv, NEW t \in Workers, Step(t)
    PROVE  /\ \A r \in Streams : r # op[t].s =>
                 resources'[r] = resources[r] /\ ids'[r] = ids[r] /\ cache'[r] = cache[r]
           /\ UNCHANGED <<ids, device>> \/ DeviceLists(ids')
PROOF
<1> DEFINE s == op[t].s
<1>1. /\ resources \in [Streams -> [Parts -> Contents \cup {Absent}]]
      /\ ids \in [Streams -> Nat] /\ cache \in [Streams -> Seq(Contents)] /\ s \in Streams
    BY StepMoves, CallInProgress DEF TInv, TypeOK
<1>2. \A r \in Streams : r # s => cache'[r] = cache[r]
    <2> HIDE DEF s
    <2>1. cache' = [cache EXCEPT ![s] = cache'[s]]
        BY StepCopies DEF s
    <2> QED
        BY <1>1, <2>1
<1>3. UNCHANGED <<ids, device>> \/ DeviceLists(ids')
    BY DEF Step, AddCheck, AddLock, InsertPart, AddCaches, UpdateCheck, UpdateLock,
           UpdateCaches, RemoveCheck, RemoveLock, RemoveMutex, RemovePart, Uncache, Forget,
           model
<1>4. \A r \in Streams : r # s => ids'[r] = ids[r]
    <2>1. ids' = ids \/ \E n : ids' = [ids EXCEPT ![s] = n]
        BY DEF Step, AddCheck, AddLock, InsertPart, AddCaches, UpdateCheck, UpdateLock,
               UpdateCaches, RemoveCheck, RemoveLock, RemoveMutex, RemovePart, Uncache,
               Forget, model
    <2> QED
        BY <1>1, <2>1
<1>5. \A r \in Streams : r # s => resources'[r] = resources[r]
    <2>1. CASE InsertPart(t)
        BY <1>1, <2>1 DEF InsertPart
    <2>2. CASE RemovePart(t)
        BY <1>1, <2>2 DEF RemovePart
    <2>3. CASE UpdateLock(t)
        BY <1>1, <2>3 DEF UpdateLock, Replace
    <2>4. CASE AddLock(t)
        BY <1>1, <2>4 DEF AddLock
    <2>5. CASE ~(InsertPart(t) \/ RemovePart(t) \/ UpdateLock(t) \/ AddLock(t))
        BY <2>5
        DEF Step, AddCheck, AddCaches, UpdateCheck, UpdateCaches, RemoveCheck, RemoveLock,
            RemoveMutex, Uncache, model
    <2> QED
        BY <2>1, <2>2, <2>3, <2>4, <2>5
<1> QED
    BY <1>2, <1>3, <1>4, <1>5

\* The device lists a stream that has ids after a step if it did before.
LEMMA StepLists ==
    ASSUME NodeAssumption, TInv, NEW t \in Workers, Step(t), NEW r \in Streams,
           device # Absent => (r \in device <=> ids[r] > 0)
    PROVE  device' # Absent => (r \in device' <=> ids'[r] > 0)
PROOF
<1>1. CASE UNCHANGED <<ids, device>>
    BY <1>1
<1>2. CASE DeviceLists(ids')
    BY <1>2, StepPast DEF DeviceLists
<1> QED
    BY <1>1, <1>2, StepFrame

\* A thread at a stream of a Node that is starting or up, which no call has crossed.
Minding(t, s) ==
    /\ SInv /\ StreamsTracked /\ phase \in {"up", "starting"}
    /\ s \in Streams \ crossed /\ s = op[t].s

\* What is known when a call makes a step.
LEMMA AtWork ==
    ASSUME NodeAssumption, NEW t \in Workers, NEW s, Minding(t, s), Step(t)
    PROVE  /\ op[t].s = s /\ s \in Streams
           /\ op[t].content \in Contents /\ op[t].step \in 1..4
           /\ at[t] \in {"inserting", "removing"} => op[t].step \in 1..Last(s)
           /\ at[t] \in Early => op[t].step = 1
           /\ at \in [Threads -> Pcs] /\ t \in Threads /\ op \in [Workers -> Ops]
           /\ resources \in [Streams -> [Parts -> Contents \cup {Absent}]]
           /\ ids \in [Streams -> Nat] /\ cache \in [Streams -> Seq(Contents)]
           /\ cache[s] \in Slots /\ Done(t) /\ ~shutdown
PROOF
<1>1. at[t] \in CallPcs /\ s = op[t].s
    BY StepMoves DEF Minding, SInv
<1>2. op[t].s \in Streams /\ op[t].content \in Contents /\ op[t].step \in 1..4
      /\ op[t] \in CallOps
    BY <1>1, CallInProgress DEF Minding, SInv
<1>3. /\ at[t] \in {"inserting", "removing"} => op[t].step \in 1..Last(op[t].s)
      /\ at[t] \in Early => op[t].step = 1
    <2>1. at[t] \in {"inserting", "removing"} => op[t].step <= Last(op[t].s)
        BY DEF Minding, SInv, TInv, OpsOK
    <2>2. Last(op[t].s) \in Nat
        BY DEF Last
    <2> QED
        BY <1>2, <2>1, <2>2 DEF Minding, SInv, TInv, OpsOK
<1>4. Done(t) /\ ~shutdown
    BY <1>1 DEF Minding, StreamsTracked, Tracked, Busy, SInv, PhaseTracked
<1>5. cache[s] \in Slots
    BY DEF Minding, SInv, OneCopy
<1> QED
    BY <1>1, <1>2, <1>3, <1>4, <1>5, ThreadFacts DEF Minding, SInv, TInv, TypeOK

\* What a step of a call has to do for its stream to stay accounted for.
LEMMA StreamMoves ==
    ASSUME NodeAssumption, NEW t \in Workers, NEW s, Minding(t, s), Step(t),
           at'[t] \in CallPcs => Done(t)',
           at'[t] \notin CallPcs => In(s)' \/ Out(s)'
    PROVE  Tracked(s)'
PROOF
<1> USE ThreadFacts
<1>1. /\ at[t] \in CallPcs /\ at' = [at EXCEPT ![t] = at'[t]]
      /\ at'[t] \in CallPcs \/ at'[t] = IF t = "reinsert" THEN "next" ELSE "idle"
      /\ op' = [op EXCEPT ![t] = op'[t]] /\ (at'[t] \in CallPcs => op'[t].s = s)
      /\ at \in [Threads -> Pcs] /\ op \in [Workers -> Ops] /\ s \in Streams
      /\ s = op[t].s /\ s \notin crossed
    BY StepMoves, StepCopies, CallInProgress DEF Minding, SInv, TInv, TypeOK
<1>2. /\ \A u \in Workers : Busy(u, s) => u = t
      /\ at["reinsert"] \in CallPcs \cup {"idle", "next"}
    BY <1>1, Alone DEF Minding, SInv
<1>3. \A u \in Workers : Busy(u, s)' => u = t
    BY <1>1, <1>2 DEF Busy
<1>4. ~Waiting(s)'
    BY <1>1, <1>2 DEF Waiting, CallPcs, WorkerPcs
<1>5. device' # Absent => (s \in device' <=> ids'[s] > 0)
    BY <1>1, StepLists DEF Minding, StreamsTracked, Tracked, SInv
<1>6. Busy(t, s)' <=> at'[t] \in CallPcs
    BY <1>1 DEF Busy
<1> QED
    BY <1>3, <1>4, <1>5, <1>6 DEF Tracked

\* The other streams stay as they are.
LEMMA OthersTracked ==
    ASSUME NodeAssumption, TInv, NEW t \in Workers, Step(t),
           NEW r \in Streams, r # op[t].s, Tracked(r)
    PROVE  Tracked(r)'
PROOF
<1> USE ThreadFacts
<1>1. /\ at[t] \in CallPcs /\ at' = [at EXCEPT ![t] = at'[t]]
      /\ at'[t] \in CallPcs \/ at'[t] = IF t = "reinsert" THEN "next" ELSE "idle"
      /\ op' = [op EXCEPT ![t] = op'[t]] /\ (at'[t] \in CallPcs => op'[t].s = op[t].s)
      /\ at \in [Threads -> Pcs] /\ op \in [Workers -> Ops]
    BY StepMoves, StepCopies DEF TInv, TypeOK
<1>2. resources'[r] = resources[r] /\ ids'[r] = ids[r] /\ cache'[r] = cache[r]
    BY StepFrame
<1>3. device' # Absent => (r \in device' <=> ids'[r] > 0)
    BY StepLists DEF Tracked
<1>4. ~Busy(t, r) /\ ~Busy(t, r)'
    BY <1>1 DEF Busy
<1>5. \A u \in Workers : u # t => at'[u] = at[u] /\ op'[u] = op[u]
    BY <1>1
<1>6. \A u \in Workers : Busy(u, r)' <=> Busy(u, r)
    BY <1>4, <1>5 DEF Busy
<1>7. ASSUME NEW u \in Workers, Busy(u, r)'
      PROVE  Done(u)'
    <2>1. /\ at'[u] = at[u] /\ op'[u] = op[u] /\ op[u].s = r /\ op'[u].s = r
          /\ op'[u].content = op[u].content /\ op'[u].step = op[u].step /\ Done(u)
        BY <1>4, <1>5, <1>6, <1>7 DEF Busy, Tracked
    <2> QED
        BY <1>2, <2>1 DEF Done, In, Out, Has
<1>8. Waiting(r)' <=> Waiting(r)
    BY <1>1 DEF Waiting, CallPcs, WorkerPcs
<1> QED
    BY <1>2, <1>3, <1>6, <1>7, <1>8 DEF Tracked, In, Out, Has

\* AddCheck changes nothing, and goes on to add a stream that is not there.
LEMMA AddCheckTracked ==
    ASSUME NodeAssumption, NEW t \in Workers, NEW s, Minding(t, s), AddCheck(t)
    PROVE  Tracked(s)'
PROOF
<1>1. Step(t)
    BY DEF Step
<1>0. s \in Streams /\ s = op[t].s
    BY <1>1, AtWork
<1>2. at[t] = "add_check" /\ (In(s) \/ Out(s))
    BY <1>0, <1>1, AtWork DEF AddCheck, Done
<1>3. /\ UNCHANGED <<resources, device, ids, cache, op>>
      /\ at'[t] = IF cache[s] # <<>> THEN "update_check" ELSE "add_lock"
    BY <1>0, <1>1, AtWork DEF AddCheck, Goto, Cached, model
<1>4. Done(t)'
    BY <1>0, <1>2, <1>3 DEF Done, In, Out, Has
<1>5. at'[t] \in CallPcs
    BY <1>3 DEF CallPcs, WorkerPcs
<1> QED
    BY <1>0, <1>1, <1>3, <1>4, <1>5, AtWork, StreamMoves

\* AddLock begins with no resource.
LEMMA AddLockTracked ==
    ASSUME NodeAssumption, NEW t \in Workers, NEW s, Minding(t, s), AddLock(t)
    PROVE  Tracked(s)'
PROOF
<1>1. Step(t)
    BY DEF Step
<1>0. s \in Streams /\ s = op[t].s
    BY <1>1, AtWork
<1>2. /\ at[t] = "add_lock" /\ Out(s) /\ op[t].step = 1 /\ s \in Streams
      /\ UNCHANGED <<device, ids, cache>>
    BY <1>0, <1>1, AtWork DEF AddLock, Done, Early
<1>3. CASE op[t].content \in Unusable
    <2>1. UNCHANGED resources /\ at'[t] \notin CallPcs
        BY <1>1, <1>3, AtWork DEF AddLock, Throw, CallPcs, WorkerPcs
    <2>2. Out(s)'
        BY <1>2, <2>1 DEF Out, Has
    <2> QED
        BY <1>0, <1>1, <1>2, <2>1, <2>2, AtWork, StreamMoves
<1>4. CASE op[t].content \notin Unusable
    <2>1. /\ resources' = [resources EXCEPT ![s] =
                  IF Erases(s) THEN [p \in Parts |-> Absent] ELSE @]
          /\ at' = [at EXCEPT ![t] = "inserting"] /\ op' = op
        BY <1>0, <1>4 DEF AddLock
    <2>2. at'[t] = "inserting"
        BY <1>1, <2>1, AtWork
    <2>3. \A p \in Parts : resources'[s][p] = Absent
        BY <1>1, <1>2, <2>1, AtWork DEF Out, Has
    <2>4. Inserted(s, 1) = {}
        BY <1>2, InsertedGrows, Orders
    <2>5. Done(t)'
        BY <1>0, <1>2, <2>1, <2>2, <2>3, <2>4 DEF Done, Out, Has
    <2>6. \A r \in Streams : r # s => resources'[r] = resources[r]
        BY <1>1, <2>1, AtWork
    <2>7. at'[t] \in CallPcs
        BY <2>2 DEF CallPcs, WorkerPcs
    <2> QED
        BY <1>0, <1>1, <1>2, <2>5, <2>6, <2>7, AtWork, StreamMoves
<1> QED
    BY <1>3, <1>4

\* InsertPart finds no resource in its place, and adds the next one.
LEMMA InsertPartTracked ==
    ASSUME NodeAssumption, NEW t \in Workers, NEW s, Minding(t, s), InsertPart(t)
    PROVE  Tracked(s)'
PROOF
<1>1. Step(t)
    BY DEF Step
<1>2. at[t] = "inserting"
    BY DEF InsertPart
<1>3. PICK c \in Contents, k \in 1..Last(s) :
          s \in Streams /\ s = op[t].s /\ c = op[t].content /\ k = op[t].step
    BY <1>1, <1>2, AtWork
<1>4. cache[s] = <<>> /\ ids[s] = 0 /\ Has(s, c, Inserted(s, k))
    BY <1>1, <1>2, <1>3, AtWork DEF Done
<1>5. PICK part \in Parts : part = InsertOrder(s)[k]
    BY <1>3, InsertedGrows
<1>6. resources[s][part] = Absent
    BY <1>3, <1>4, <1>5, InsertedGrows DEF Has
<1>7. /\ resources' = [resources EXCEPT ![s][part] = c]
      /\ IF k = Last(s) THEN at' = [at EXCEPT ![t] = "caching"] /\ op' = op
                        ELSE op' = [op EXCEPT ![t].step = @ + 1] /\ at' = at
      /\ UNCHANGED <<device, ids, cache>>
    BY <1>1, <1>3, <1>5, <1>6, AtWork, Orders DEF InsertPart
<1>8. /\ \A r \in Streams : r # s => resources'[r] = resources[r]
      /\ \A p \in Parts : resources'[s][p] = IF p = part THEN c ELSE resources[s][p]
    BY <1>1, <1>7, AtWork
<1>9. Has(s, c, Inserted(s, k + 1))'
    BY <1>3, <1>4, <1>5, <1>8, InsertedGrows DEF Has
<1>10. Done(t)' /\ at'[t] \in CallPcs
    <2>1. CASE k = Last(s)
        <3>1. at'[t] = "caching" /\ op' = op
            BY <1>1, <1>7, <2>1, AtWork
        <3>2. Has(s, c, PartsOf(s))'
            BY <1>3, <1>9, <2>1, InsertedGrows
        <3> QED
            BY <1>3, <1>4, <1>7, <3>1, <3>2 DEF Done, CallPcs, WorkerPcs
    <2>2. CASE k # Last(s)
        <3>1. at'[t] = "inserting" /\ op'[t].s = s /\ op'[t].content = c
              /\ op'[t].step = k + 1
            <4>1. op[t] \in CallOps
                BY <1>1, StepMoves, CallInProgress DEF Minding, SInv
            <4> QED
                <5>1. op' = [op EXCEPT ![t].step = k + 1] /\ at' = at
                    BY <1>3, <1>7, <2>2
                <5>2. op \in [Workers -> Ops]
                    BY <1>1, AtWork
                <5> QED
                    BY <1>2, <1>3, <4>1, <5>1, <5>2 DEF CallOps
        <3> QED
            BY <1>4, <1>7, <1>9, <3>1 DEF Done, CallPcs, WorkerPcs
    <2> QED
        BY <2>1, <2>2
<1> QED
    BY <1>1, <1>3, <1>7, <1>8, <1>10, AtWork, StreamMoves

\* AddCaches makes an entry of a stream that has all its resources, and lists it.
LEMMA AddCachesTracked ==
    ASSUME NodeAssumption, NEW t \in Workers, NEW s, Minding(t, s), AddCaches(t)
    PROVE  Tracked(s)'
PROOF
<1>1. Step(t)
    BY DEF Step
<1>2. at[t] = "caching"
    BY DEF AddCaches
<1>3. PICK c \in Contents : s \in Streams /\ s = op[t].s /\ c = op[t].content
    BY <1>1, AtWork
<1>4. cache[s] = <<>> /\ ids[s] = 0 /\ Has(s, c, PartsOf(s))
    BY <1>1, <1>2, <1>3, AtWork DEF Done
<1>5. /\ cache' = [cache EXCEPT ![s] = Append(@, c)] /\ ids' = [ids EXCEPT ![s] = @ + 1]
      /\ resources' = resources
    BY <1>1, <1>3, AtWork DEF AddCaches
<1>6. cache'[s] = <<c>> /\ ids'[s] = 1 /\ \A r \in Streams : r # s => ids'[r] = ids[r]
    <2>1. Append(<<>>, c) = <<c>>
        OBVIOUS
    <2> QED
        BY <1>1, <1>4, <1>5, <2>1, AtWork
<1>7. In(s)'
    BY <1>4, <1>5, <1>6 DEF In, Has
<1>8. at'[t] \notin CallPcs
    BY <1>1, AtWork DEF AddCaches, Return, CallPcs, WorkerPcs
<1> QED
    BY <1>1, <1>3, <1>5, <1>6, <1>7, <1>8, StreamMoves

\* UpdateCheck changes nothing, and goes on to update a stream that is there.
LEMMA UpdateCheckTracked ==
    ASSUME NodeAssumption, NEW t \in Workers, NEW s, Minding(t, s), UpdateCheck(t)
    PROVE  Tracked(s)'
PROOF
<1>1. Step(t)
    BY DEF Step
<1>2. s \in Streams /\ s = op[t].s
    BY <1>1, AtWork
<1>3. at[t] = "update_check" /\ (In(s) \/ Out(s))
    BY <1>1, <1>2, AtWork DEF UpdateCheck, Done
<1>4. /\ UNCHANGED <<resources, device, ids, cache, op>>
      /\ at'[t] = IF cache[s] # <<>> THEN "update_lock" ELSE "add_check"
    BY <1>1, <1>2, AtWork DEF UpdateCheck, Goto, Cached, model
<1>5. Done(t)'
    BY <1>2, <1>3, <1>4 DEF Done, In, Out, Has
<1>6. at'[t] \in CallPcs
    BY <1>4 DEF CallPcs, WorkerPcs
<1> QED
    BY <1>1, <1>2, <1>4, <1>5, <1>6, AtWork, StreamMoves

\* UpdateLock replaces every resource of a stream that has them all, or none.
LEMMA UpdateLockTracked ==
    ASSUME NodeAssumption, NEW t \in Workers, NEW s, Minding(t, s), UpdateLock(t)
    PROVE  Tracked(s)'
PROOF
<1>1. Step(t)
    BY DEF Step
<1>2. PICK c \in Contents : s \in Streams /\ s = op[t].s /\ c = op[t].content
    BY <1>1, AtWork
<1>3. /\ at[t] = "update_lock" /\ In(s)
      /\ UNCHANGED <<device, ids, cache>>
    BY <1>1, <1>2, AtWork DEF UpdateLock, Done
<1>4. \A p \in Parts : resources[s][p] # Absent <=> p \in PartsOf(s)
    <2>1. Head(cache[s]) # Absent
        BY <1>1, <1>3, AtWork, SlotFacts DEF In, NodeAssumption
    <2> QED
        BY <1>3, <2>1 DEF In, Has
<1>5. CASE c \in Unusable
    <2>1. resources' = resources /\ at'[t] \notin CallPcs
        BY <1>1, <1>2, <1>5, AtWork DEF UpdateLock, Throw, CallPcs, WorkerPcs
    <2>2. In(s)'
        BY <1>3, <2>1 DEF In, Has
    <2> QED
        BY <1>1, <1>2, <1>3, <2>1, <2>2, AtWork, StreamMoves
<1>6. CASE c \notin Unusable
    <2>1. /\ \A p \in PartsOf(s) \ {"connection"} : resources[s][p] # Absent
          /\ resources[s]["connection"] # Absent
        BY <1>2, <1>4, Orders DEF PartsOf, Parts
    <2>2. /\ Replace(s, PartsOf(s), c)
          /\ at' = [at EXCEPT ![t] = "recaching"] /\ op' = op
        BY <1>2, <1>6, <2>1 DEF UpdateLock
    <2>3. /\ \A r \in Streams : r # s => resources'[r] = resources[r]
          /\ \A p \in Parts : resources'[s][p] = IF p \in PartsOf(s) THEN c ELSE Absent
        BY <1>1, <1>4, <2>2, AtWork DEF Replace
    <2>4. at'[t] = "recaching"
        BY <1>1, <2>2, AtWork
    <2>5. Done(t)' /\ at'[t] \in CallPcs
        BY <1>2, <1>3, <2>2, <2>3, <2>4 DEF Done, In, Has, CallPcs, WorkerPcs
    <2> QED
        BY <1>1, <1>2, <1>3, <2>3, <2>5, AtWork, StreamMoves
<1> QED
    BY <1>5, <1>6

\* UpdateCaches makes the entry match the resources again.
LEMMA UpdateCachesTracked ==
    ASSUME NodeAssumption, NEW t \in Workers, NEW s, Minding(t, s), UpdateCaches(t)
    PROVE  Tracked(s)'
PROOF
<1>1. Step(t)
    BY DEF Step
<1>2. at[t] = "recaching"
    BY DEF UpdateCaches
<1>3. PICK c \in Contents : s \in Streams /\ s = op[t].s /\ c = op[t].content
    BY <1>1, AtWork
<1>4. cache[s] # <<>> /\ ids[s] = 1 /\ Has(s, c, PartsOf(s))
    BY <1>1, <1>2, <1>3, AtWork DEF Done
<1>5. /\ cache'[s] = <<c>> \o Tail(cache[s])
      /\ UNCHANGED <<resources, device, ids>>
    BY <1>1, <1>3, <1>4, AtWork DEF UpdateCaches, Cached
<1>6. cache'[s] = <<c>>
    <2>1. Tail(cache[s]) = <<>>
        BY <1>1, <1>4, AtWork, SlotFacts
    <2>2. <<c>> \o <<>> = <<c>>
        OBVIOUS
    <2> QED
        BY <1>5, <2>1, <2>2
<1>7. In(s)'
    BY <1>4, <1>5, <1>6 DEF In, Has
<1>8. at'[t] \notin CallPcs
    BY <1>1, AtWork DEF UpdateCaches, Return, CallPcs, WorkerPcs
<1> QED
    BY <1>1, <1>3, <1>5, <1>7, <1>8, AtWork, StreamMoves

\* RemoveCheck changes nothing, and returns if the stream is not there.
LEMMA RemoveCheckTracked ==
    ASSUME NodeAssumption, NEW t \in Workers, NEW s, Minding(t, s), RemoveCheck(t)
    PROVE  Tracked(s)'
PROOF
<1>1. Step(t)
    BY DEF Step
<1>2. s \in Streams /\ s = op[t].s
    BY <1>1, AtWork
<1>3. /\ at[t] = "remove_check" /\ (In(s) \/ Out(s))
      /\ UNCHANGED <<resources, device, ids, cache>>
    BY <1>1, <1>2, AtWork DEF RemoveCheck, Done, model
<1>4. CASE cache[s] # <<>>
    <2>1. at'[t] = "remove_lock" /\ op' = op
        BY <1>1, <1>2, <1>4, AtWork DEF RemoveCheck, Cached
    <2>2. Done(t)' /\ at'[t] \in CallPcs
        BY <1>2, <1>3, <1>4, <2>1 DEF Done, In, Out, Has, CallPcs, WorkerPcs
    <2> QED
        BY <1>1, <1>2, <1>3, <2>2, AtWork, StreamMoves
<1>5. CASE cache[s] = <<>>
    <2>1. at'[t] \notin CallPcs
        BY <1>1, <1>2, <1>5, AtWork DEF RemoveCheck, Cached, Return, CallPcs, WorkerPcs
    <2>2. Out(s)'
        BY <1>3, <1>5 DEF In, Out, Has
    <2> QED
        BY <1>1, <1>2, <1>3, <2>1, <2>2, AtWork, StreamMoves
<1> QED
    BY <1>4, <1>5

\* RemoveLock changes nothing: a sender's resources can go, a receiver is looked for
\* again.
LEMMA RemoveLockTracked ==
    ASSUME NodeAssumption, NEW t \in Workers, NEW s, Minding(t, s), RemoveLock(t)
    PROVE  Tracked(s)'
PROOF
<1>1. Step(t)
    BY DEF Step
<1>2. s \in Streams /\ s = op[t].s
    BY <1>1, AtWork
<1>3. /\ at[t] = "remove_lock" /\ (In(s) \/ Out(s)) /\ op[t].step = 1
      /\ s \notin Receivers => In(s)
      /\ UNCHANGED <<resources, device, ids, cache, op>>
    BY <1>1, <1>2, AtWork DEF RemoveLock, Done, Early, Senders, model
<1>4. at'[t] = IF s \in Receivers THEN "remove_mutex" ELSE "removing"
    BY <1>1, <1>2, AtWork DEF RemoveLock, Goto
<1>5. Removed(s, 1) = {}
    BY <1>2, RemovedGrows, Orders
<1>6. Done(t)' /\ at'[t] \in CallPcs
    <2>1. CASE s \in Receivers
        BY <1>2, <1>3, <1>4, <2>1 DEF Done, In, Out, Has, Senders, CallPcs, WorkerPcs
    <2>2. CASE s \notin Receivers
        BY <1>2, <1>3, <1>4, <1>5, <2>2 DEF Done, In, Has, CallPcs, WorkerPcs
    <2> QED
        BY <2>1, <2>2
<1> QED
    BY <1>1, <1>2, <1>3, <1>6, AtWork, StreamMoves

\* RemoveMutex takes the id of a receiver that is there off the list.
LEMMA RemoveMutexTracked ==
    ASSUME NodeAssumption, NEW t \in Workers, NEW s, Minding(t, s), RemoveMutex(t)
    PROVE  Tracked(s)'
PROOF
<1>1. Step(t)
    BY DEF Step
<1>2. s \in Streams /\ s = op[t].s
    BY <1>1, AtWork
<1>3. /\ at[t] = "remove_mutex" /\ (In(s) \/ Out(s)) /\ s \in Receivers
      /\ op[t].step = 1
      /\ UNCHANGED <<resources, cache>>
    BY <1>1, <1>2, AtWork DEF RemoveMutex, Done, Early
<1>4. CASE cache[s] # <<>>
    <2>1. In(s)
        BY <1>3, <1>4 DEF Out
    <2>2. at'[t] = "removing" /\ op' = op
        BY <1>1, <1>2, <1>4, AtWork DEF RemoveMutex, Cached
    <2>3. /\ ids' = [ids EXCEPT ![s] = IF @ > 0 THEN @ - 1 ELSE 0]
        BY <1>1, <1>2, <1>4, AtWork DEF RemoveMutex, Cached, Forget
    <2>4. ids'[s] = 0 /\ \A r \in Streams : r # s => ids'[r] = ids[r]
        BY <1>1, <2>1, <2>3, AtWork DEF In
    <2>5. Removed(s, 1) = {}
        BY <1>2, RemovedGrows, Orders
    <2>6. Done(t)' /\ at'[t] \in CallPcs
        BY <1>2, <1>3, <2>1, <2>2, <2>4, <2>5 DEF Done, In, Has, CallPcs, WorkerPcs
    <2> QED
        BY <1>1, <1>2, <1>3, <2>3, <2>4, <2>6, StreamMoves
<1>5. CASE cache[s] = <<>>
    <2>1. at'[t] \notin CallPcs /\ UNCHANGED <<ids, device>>
        BY <1>1, <1>2, <1>5, AtWork DEF RemoveMutex, Cached, Return, CallPcs, WorkerPcs
    <2>2. Out(s)'
        BY <1>3, <1>5, <2>1 DEF In, Out, Has
    <2> QED
        BY <1>1, <1>2, <1>3, <2>1, <2>2, AtWork, StreamMoves
<1> QED
    BY <1>4, <1>5

\* RemovePart takes the next resource out.
LEMMA RemovePartTracked ==
    ASSUME NodeAssumption, NEW t \in Workers, NEW s, Minding(t, s), RemovePart(t)
    PROVE  Tracked(s)'
PROOF
<1>1. Step(t)
    BY DEF Step
<1>2. at[t] = "removing"
    BY DEF RemovePart
<1>3. PICK k \in 1..Last(s) : s \in Streams /\ s = op[t].s /\ k = op[t].step
    BY <1>1, <1>2, AtWork
<1>4. PICK c : c = Head(cache[s])
    OBVIOUS
<1>5. /\ cache[s] # <<>> /\ ids[s] = IF s \in Receivers THEN 0 ELSE 1
      /\ Has(s, c, PartsOf(s) \ Removed(s, k))
    BY <1>1, <1>2, <1>3, <1>4, AtWork DEF Done
<1>6. PICK part \in Parts : part = RemoveOrder(s)[k]
    BY <1>3, RemovedGrows
<1>7. /\ resources' = [resources EXCEPT ![s][part] = Absent]
      /\ IF k = Last(s) THEN at' = [at EXCEPT ![t] = "uncaching"] /\ op' = op
                        ELSE op' = [op EXCEPT ![t].step = @ + 1] /\ at' = at
      /\ UNCHANGED <<device, ids, cache>>
    BY <1>1, <1>3, <1>6, AtWork, Orders DEF RemovePart
<1>8. /\ \A r \in Streams : r # s => resources'[r] = resources[r]
      /\ \A p \in Parts : resources'[s][p] = IF p = part THEN Absent ELSE resources[s][p]
    BY <1>1, <1>7, AtWork
<1>9. Has(s, c, PartsOf(s) \ Removed(s, k + 1))'
    BY <1>3, <1>5, <1>6, <1>8, RemovedGrows DEF Has
<1>10. Done(t)' /\ at'[t] \in CallPcs
    <2>1. CASE k = Last(s)
        <3>1. at'[t] = "uncaching" /\ op' = op
            BY <1>1, <1>7, <2>1, AtWork
        <3>2. PartsOf(s) \ Removed(s, k + 1) = {}
            BY <1>3, <2>1, RemovedGrows
        <3>3. Has(s, Absent, {})'
            BY <1>9, <3>2 DEF Has
        <3> QED
            BY <1>3, <1>5, <1>7, <3>1, <3>3 DEF Done, CallPcs, WorkerPcs
    <2>2. CASE k # Last(s)
        <3>1. at'[t] = "removing" /\ op'[t].s = s /\ op'[t].step = k + 1
            <4>1. op[t] \in CallOps
                BY <1>1, StepMoves, CallInProgress DEF Minding, SInv
            <4> QED
                <5>1. op' = [op EXCEPT ![t].step = k + 1] /\ at' = at
                    BY <1>3, <1>7, <2>2
                <5>2. op \in [Workers -> Ops]
                    BY <1>1, AtWork
                <5> QED
                    BY <1>2, <1>3, <4>1, <5>1, <5>2 DEF CallOps
        <3>2. Head(cache'[s]) = c
            BY <1>4, <1>7
        <3> QED
            BY <1>5, <1>7, <1>9, <3>1, <3>2 DEF Done, Has, CallPcs, WorkerPcs
    <2> QED
        BY <2>1, <2>2
<1> QED
    BY <1>1, <1>3, <1>7, <1>8, <1>10, AtWork, StreamMoves

\* Uncache leaves no trace of a stream without resources.
LEMMA UncacheTracked ==
    ASSUME NodeAssumption, NEW t \in Workers, NEW s, Minding(t, s), Uncache(t)
    PROVE  Tracked(s)'
PROOF
<1>1. Step(t)
    BY DEF Step
<1>2. s \in Streams /\ s = op[t].s
    BY <1>1, AtWork
<1>3. /\ at[t] = "uncaching" /\ resources' = resources
      /\ ids[s] = IF s \in Receivers THEN 0 ELSE 1
      /\ Has(s, Absent, {})
    BY <1>1, <1>2, AtWork DEF Uncache, Done
<1>4. cache'[s] = <<>> /\ at'[t] \notin CallPcs
    BY <1>1, <1>2, AtWork DEF Uncache, Return, CallPcs, WorkerPcs
<1>5. /\ ids'[s] = 0 /\ \A r \in Streams : r # s => ids'[r] = ids[r]
    <2>1. CASE s \in Receivers
        BY <1>1, <1>2, <1>3, <2>1, AtWork DEF Uncache
    <2>2. CASE s \notin Receivers
        <3>1. /\ ids' = [ids EXCEPT ![s] = IF @ > 0 THEN @ - 1 ELSE 0]
                BY <1>1, <1>2, <2>2, AtWork DEF Uncache, Forget
        <3> QED
            BY <1>1, <1>3, <2>2, <3>1, AtWork
    <2> QED
        BY <2>1, <2>2
<1>6. Out(s)'
    BY <1>3, <1>4, <1>5 DEF Out, Has
<1> QED
    BY <1>1, <1>2, <1>3, <1>4, <1>5, <1>6, StreamMoves

\* Every step of a call, of a Node that is starting or up.
LEMMA StepTracked ==
    ASSUME NodeAssumption, SInv, StreamsTracked, phase \in {"up", "starting"},
           NEW t \in Workers, Step(t), NEW r \in Streams \ crossed
    PROVE  Tracked(r)'
PROOF
<1>1. CASE r = op[t].s
    <2>1. Minding(t, r)
        BY <1>1 DEF Minding
    <2> QED
        BY <2>1, AddCheckTracked, AddLockTracked, InsertPartTracked, AddCachesTracked,
           UpdateCheckTracked, UpdateLockTracked, UpdateCachesTracked, RemoveCheckTracked,
           RemoveLockTracked, RemoveMutexTracked, RemovePartTracked, UncacheTracked DEF Step
<1>2. CASE r # op[t].s
    BY <1>2, OthersTracked DEF SInv, StreamsTracked
<1> QED
    BY <1>1, <1>2

\* A call that meets no reinsertion begins on a Node that has each stream or not.
LEMMA CallsTracked ==
    ASSUME NodeAssumption, SInv, StreamsTracked, Calls, phase \in {"up", "starting"},
           NEW r \in Streams \ crossed'
    PROVE  Tracked(r)'
PROOF
<1> USE ThreadFacts
<1>1. PICK kind \in {"add", "update", "remove"}, s \in Streams, c \in Contents :
          Call(kind, s, c)
    BY DEF Calls
<1>2. at \in [Threads -> Pcs] /\ op \in [Workers -> Ops]
    BY DEF SInv, TInv, TypeOK
<1>3. /\ UNCHANGED <<resources, device, ids, cache>> /\ crossed \subseteq crossed'
      /\ op'["reconcile"].s = s /\ op'["reinsert"] = op["reinsert"]
      /\ at["reconcile"] = "idle" /\ at'["reinsert"] = at["reinsert"]
      /\ \/ at'["reconcile"] \in {"add_check", "update_check", "remove_check"}
         \/ at'["reconcile"] = "remove_lock" /\ s \in Receivers
    BY <1>1, <1>2 DEF Call, model
<1>4. Tracked(r)
    BY <1>3 DEF StreamsTracked
<1>5. /\ Busy("reinsert", r)' <=> Busy("reinsert", r)
      /\ ~Busy("reconcile", r) /\ (Busy("reconcile", r)' => r = s)
      /\ Waiting(r)' <=> Waiting(r)
    BY <1>3 DEF Busy, Waiting, CallPcs
<1>6. Busy("reinsert", r) => Done("reinsert")'
    BY <1>3, <1>4 DEF Tracked, Done, In, Out, Has
<1>7. CASE r # s
    BY <1>3, <1>4, <1>5, <1>6, <1>7 DEF Tracked, In, Out, Has
<1>8. CASE r = s
    <2>1. stage # "starting"
        BY <1>1, <1>8 DEF Call
    <2>2. at["reinsert"] = "idle"
        BY <2>1 DEF stage, SInv, PhaseTracked, Parked
    <2>3. ~Busy("reinsert", r) /\ ~Waiting(r)
        BY <2>2 DEF Busy, Waiting, CallPcs
    <2>4. In(r) \/ Out(r)
        BY <1>4, <1>5, <2>3 DEF Tracked
    <2>5. (In(r) \/ Out(r))'
        BY <1>3, <2>4 DEF In, Out, Has
    <2>6. Done("reconcile")'
        BY <1>3, <1>8, <2>5 DEF Done, Senders
    <2> QED
        BY <1>3, <1>4, <1>5, <2>3, <2>5, <2>6 DEF Tracked
<1> QED
    BY <1>7, <1>8

\* Activations change no stream.
LEMMA ActivationTracked ==
    ASSUME SInv, ActivationBegins \/ Activated, NEW r \in Streams, Tracked(r)
    PROVE  Tracked(r)'
PROOF
<1>1. at \in [Threads -> Pcs]
    BY DEF SInv, TInv, TypeOK
<1>2. /\ \A t \in Workers : at'[t] = at[t]
      /\ at'["reinsert"] = at["reinsert"]
      /\ UNCHANGED <<resources, device, ids, cache, op>>
    BY <1>1, ThreadFacts DEF ActivationBegins, Activated, Goto, model
<1>3. \A t \in Workers : Done(t) => Done(t)'
    BY <1>2 DEF Done, In, Out, Has
<1> QED
    BY <1>2, <1>3 DEF Tracked, Busy, Waiting, In, Out, Has

\* A Node starts with no stream, and a call under way has crossed its own.
LEMMA StartTracked ==
    ASSUME SInv, Start, phase' = "starting", NEW r \in Streams \ crossed'
    PROVE  Tracked(r)'
PROOF
<1> USE ThreadFacts
<1>1. at \in [Threads -> Pcs]
    BY DEF SInv, TInv, TypeOK
<1>2. /\ at'["reinsert"] = "device" /\ at'["reconcile"] = at["reconcile"] /\ op' = op
      /\ resources' = NoResources /\ device' = Absent /\ ids' = [s \in Streams |-> 0]
    BY <1>1 DEF Start
<1>3. Waiting(r)' /\ Has(r, Absent, {})' /\ ids'[r] = 0
    BY <1>2 DEF Waiting, Has, NoResources
<1>4. ~Busy("reinsert", r)'
    BY <1>2 DEF Busy, CallPcs, WorkerPcs
<1>5. ~Busy("reconcile", r)'
    <2>1. Busy("reconcile", r)' => op["reconcile"] # NoOp /\ op["reconcile"].s = r
        BY <1>2, CallInProgress DEF Busy, SInv
    <2> QED
        BY <2>1 DEF Start
<1> QED
    BY <1>2, <1>3, <1>4, <1>5 DEF Tracked

\* The reinsertion takes the copies and adds one after the other.
LEMMA ReinsertTracked ==
    ASSUME NodeAssumption, SInv, StreamsTracked, Reinsert, phase' \in {"up", "starting"},
           NEW s \in Streams \ crossed
    PROVE  Tracked(s)'
PROOF
<1> USE ThreadFacts
<1>1. at \in [Threads -> Pcs] /\ op \in [Workers -> Ops] /\ cache[s] \in Slots
    BY DEF SInv, TInv, TypeOK, OneCopy
<1>2. /\ at["reinsert"] \in {"device", "copy_senders", "copy_receivers", "next"}
      /\ at' = [at EXCEPT !["reinsert"] = at'["reinsert"]]
      /\ op'["reconcile"] = op["reconcile"]
      /\ UNCHANGED <<resources, ids>>
    BY <1>1
    DEF Reinsert, InitDevice, CopySenders, CopyReceivers, ReinsertNext, Reinserted, Goto, model
<1>3. phase = "starting"
    <2>1. phase' = phase \/ phase = "starting"
        BY DEF Reinsert, InitDevice, CopySenders, CopyReceivers, ReinsertNext, Reinserted,
               life
    <2>2. phase # "up"
        BY <1>2 DEF SInv, PhaseTracked, Parked
    <2> QED
        BY <2>1, <2>2
<1>4. Tracked(s) /\ ~shutdown
    BY <1>3 DEF StreamsTracked, SInv, PhaseTracked
<1>5. ~Busy("reconcile", s) /\ ~Busy("reconcile", s)'
    BY <1>1, <1>2, <1>3 DEF Busy, stage, SInv, PhaseTracked
<1>6. ~Busy("reinsert", s)
    BY <1>2 DEF Busy, CallPcs, WorkerPcs
<1>7. IF Waiting(s) THEN Has(s, Absent, {}) /\ ids[s] = 0 ELSE In(s) \/ Out(s)
    BY <1>4, <1>5, <1>6 DEF Tracked
<1>8. device' # Absent => (s \in device' <=> ids'[s] > 0)
    <2>1. CASE InitDevice
        <3>1. device' = {} /\ Waiting(s)
            BY <1>4, <2>1 DEF InitDevice, Goto, Waiting
        <3> QED
            BY <1>2, <1>7, <3>1
    <2>2. CASE ~InitDevice
        BY <1>2, <1>4, <2>2
        DEF Reinsert, CopySenders, CopyReceivers, ReinsertNext, Reinserted, model, Tracked
    <2> QED
        BY <2>1, <2>2
<1>9. SUFFICES
          /\ Busy("reinsert", s)' => Done("reinsert")'
          /\ ~Busy("reinsert", s)' => IF Waiting(s)' THEN Has(s, Absent, {})' /\ ids'[s] = 0
                                                    ELSE In(s)' \/ Out(s)'
    BY <1>5, <1>8 DEF Tracked
<1>10. CASE InitDevice
    <2>1. at'["reinsert"] = "copy_senders" /\ at["reinsert"] = "device"
        BY <1>1, <1>4, <1>10 DEF InitDevice, Goto
    <2> QED
        BY <1>2, <1>7, <2>1 DEF Waiting, Has, Busy, CallPcs, WorkerPcs
<1>11. CASE CopySenders
    <2>1. /\ at["reinsert"] = "copy_senders" /\ at'["reinsert"] \in {"next", "copy_receivers"}
          /\ at'["reinsert"] = "next" => cache = NoEntries
          /\ cache' = Of(cache, Receivers)
        BY <1>1, <1>11 DEF CopySenders, Goto
    <2>2. Has(s, Absent, {})' /\ ids'[s] = 0
        BY <1>2, <1>7, <2>1 DEF Waiting, Has
    <2>3. at'["reinsert"] = "next" \/ s \notin Receivers => cache'[s] = <<>>
        BY <2>1 DEF Of, NoEntries
    <2> QED
        BY <2>1, <2>2, <2>3 DEF Waiting, Out, Busy, CallPcs, WorkerPcs
<1>12. CASE CopyReceivers
    <2>1. /\ at'["reinsert"] = "next" /\ at["reinsert"] = "copy_receivers"
          /\ cache' = Of(cache, Senders)
        BY <1>1, <1>12 DEF CopyReceivers, Goto
    <2>2. In(s)' \/ Out(s)'
        <3>1. CASE s \in Receivers
            <4>1. Has(s, Absent, {}) /\ ids[s] = 0
                BY <1>7, <2>1, <3>1 DEF Waiting
            <4>2. cache'[s] = <<>>
                BY <2>1, <3>1 DEF Of, Senders
            <4> QED
                BY <1>2, <4>1, <4>2 DEF Out, Has
        <3>2. CASE s \notin Receivers
            <4>1. In(s) \/ Out(s)
                BY <1>7, <2>1, <3>2 DEF Waiting
            <4>2. cache'[s] = cache[s]
                BY <2>1, <3>2 DEF Of, Senders
            <4> QED
                BY <1>2, <4>1, <4>2 DEF In, Out, Has
        <3> QED
            BY <3>1, <3>2
    <2> QED
        BY <2>1, <2>2 DEF Waiting, Busy, CallPcs, WorkerPcs
<1>13. CASE ReinsertNext
    <2>1. /\ at'["reinsert"] = "add_check" /\ at["reinsert"] = "next"
          /\ cache' = cache
        BY <1>1, <1>13 DEF ReinsertNext, Goto, model
    <2>2. In(s)' \/ Out(s)'
        BY <1>2, <1>7, <2>1 DEF Waiting, In, Out, Has
    <2> QED
        BY <2>1, <2>2 DEF Waiting, Done, Busy
<1>14. CASE Reinserted
    <2>1. /\ at'["reinsert"] = "idle" /\ at["reinsert"] = "next"
          /\ cache' = cache
        BY <1>1, <1>14 DEF Reinserted, Goto, model
    <2> QED
        BY <1>2, <1>7, <2>1 DEF Waiting, In, Out, Has, Busy, CallPcs, WorkerPcs
<1> QED
    BY <1>10, <1>11, <1>12, <1>13, <1>14 DEF Reinsert

\* Which streams calls have crossed is not forgotten.
LEMMA CrossedGrows ==
    ASSUME NodeAssumption, TInv, Next
    PROVE  crossed \subseteq crossed'
PROOF
<1>1. ASSUME NEW t \in Workers, Step(t)
      PROVE  crossed' = crossed
    BY <1>1, StepPast
<1> QED
    BY <1>1
    DEF Next, Calls, Call, ActivationBegins, Activated, StopShuts, Stopped, Start, Reinsert,
        InitDevice, CopySenders, CopyReceivers, ReinsertNext, Reinserted, past

\* A Node that is starting or up has of each stream what its entry says, or what the
\* call in progress has come to.
LEMMA StreamsHold ==
    ASSUME NodeAssumption, SInv, StreamsTracked, Next
    PROVE  StreamsTracked'
PROOF
<1>1. SUFFICES ASSUME phase' \in {"up", "starting"}, NEW s \in Streams \ crossed'
               PROVE  Tracked(s)'
    BY DEF StreamsTracked
<1>2. s \notin crossed
    BY CrossedGrows DEF SInv
<1>3. CASE Start
    BY <1>1, <1>3, StartTracked DEF Start
<1>4. CASE StopShuts \/ Stopped
    BY <1>1, <1>4 DEF StopShuts, Stopped
<1>5. CASE Reinsert
    BY <1>1, <1>2, <1>5, ReinsertTracked
<1>6. CASE Calls
    BY <1>1, <1>6, CallsTracked DEF Calls, Call, life
<1>7. CASE ActivationBegins \/ Activated
    BY <1>1, <1>2, <1>7, ActivationTracked DEF ActivationBegins, Activated, life, StreamsTracked
<1>8. ASSUME NEW t \in Workers, Step(t)
      PROVE  Tracked(s)'
    <2>1. phase' = phase
        BY <1>8, StepMoves DEF SInv
    <2> QED
        BY <1>1, <1>2, <1>8, <2>1, StepTracked
<1> QED
    BY <1>3, <1>4, <1>5, <1>6, <1>7, <1>8 DEF Next

-----------------------------------------------------------------------------
(* No sender without its source and flow.                                  *)

\* The sets of resources a sender can have at some point of a call.
LEMMA CompleteParts ==
    ASSUME NEW s \in Senders
    PROVE  /\ PartsOf(s) = Parts /\ {"source", "flow", "endpoint"} \subseteq Parts
           /\ \A k \in 1..4 :
                 /\ "endpoint" \in Inserted(s, k) => {"source", "flow"} \subseteq Inserted(s, k)
                 /\ k < 4 => "endpoint" \notin Inserted(s, k)
                 /\ k > 1 => "endpoint" \in Removed(s, k)
                 /\ k = 1 => Removed(s, k) = {}
           /\ Inserted(s, 1) = {} /\ Inserted(s, 2) = {"source"}
           /\ Inserted(s, 3) = {"source", "flow"}
           /\ Inserted(s, 4) = {"source", "flow", "endpoint"}
PROOF
<1>1. /\ InsertOrder(s) = <<"source", "flow", "endpoint", "connection">>
      /\ RemoveOrder(s) = <<"endpoint", "connection", "source", "flow">>
      /\ PartsOf(s) = Parts
    BY DEF Senders, InsertOrder, RemoveOrder, PartsOf
<1>2. /\ Inserted(s, 1) = {} /\ Inserted(s, 2) = {"source"}
      /\ Inserted(s, 3) = {"source", "flow"}
      /\ Inserted(s, 4) = {"source", "flow", "endpoint"}
    BY <1>1 DEF Inserted
<1>3. /\ Removed(s, 1) = {} /\ "endpoint" \in Removed(s, 2)
      /\ "endpoint" \in Removed(s, 3) /\ "endpoint" \in Removed(s, 4)
    BY <1>1 DEF Removed
<1>4. ASSUME NEW k \in 1..4
      PROVE  k = 1 \/ k = 2 \/ k = 3 \/ k = 4
    OBVIOUS
<1> QED
    BY <1>1, <1>2, <1>3, <1>4 DEF Parts

\* A Node that is starting or up has no such sender, since it accounts for every
\* resource.
LEMMA PartsAccounted ==
    ASSUME NodeAssumption, SInv, StreamsTracked, phase \in {"up", "starting"}
    PROVE  PartsTracked
PROOF
<1>1. ASSUME NEW s \in Senders, NEW c, NEW parts, Has(s, c, parts),
             "endpoint" \in parts => {"source", "flow"} \subseteq parts,
             resources[s]["endpoint"] # Absent
      PROVE  resources[s]["source"] # Absent /\ resources[s]["flow"] # Absent
    BY <1>1 DEF Has, Parts
<1>2. ASSUME NEW s \in Senders \ crossed, resources[s]["endpoint"] # Absent
      PROVE  resources[s]["source"] # Absent /\ resources[s]["flow"] # Absent
    <2>1. s \in Streams /\ Tracked(s)
        BY DEF Senders, StreamsTracked
    <2>2. In(s) \/ Out(s) \/ Has(s, Absent, {}) =>
              resources[s]["source"] # Absent /\ resources[s]["flow"] # Absent
        BY <1>1, <1>2, CompleteParts DEF In, Out
    <2>3. CASE \A t \in Workers : ~Busy(t, s)
        BY <2>1, <2>2, <2>3 DEF Tracked
    <2>4. ASSUME NEW t \in Workers, Busy(t, s)
          PROVE  resources[s]["source"] # Absent /\ resources[s]["flow"] # Absent
        <3>1. Done(t) /\ op[t].step \in 1..4 /\ op[t].s = s /\ at[t] \in CallPcs
            BY <2>1, <2>4, CallInProgress DEF Tracked, Busy, SInv
        <3>2. \/ In(s) \/ Out(s) \/ Has(s, Absent, {})
              \/ Has(s, op[t].content, Inserted(s, op[t].step))
              \/ Has(s, op[t].content, PartsOf(s))
              \/ Has(s, Head(cache[s]), PartsOf(s) \ Removed(s, op[t].step))
            BY <3>1 DEF Done, CallPcs, WorkerPcs
        <3>3. CASE Has(s, op[t].content, Inserted(s, op[t].step))
            BY <1>1, <1>2, <3>1, <3>3, CompleteParts
        <3>4. CASE Has(s, op[t].content, PartsOf(s))
            BY <1>1, <1>2, <3>4, CompleteParts
        <3>5. CASE Has(s, Head(cache[s]), PartsOf(s) \ Removed(s, op[t].step))
            <4>1. op[t].step = 1 \/ op[t].step > 1
                BY <3>1
            <4>2. "endpoint" \in PartsOf(s) \ Removed(s, op[t].step) =>
                      {"source", "flow"} \subseteq PartsOf(s) \ Removed(s, op[t].step)
                BY <3>1, <4>1, CompleteParts
            <4> QED
                BY <1>1, <1>2, <3>5, <4>2
        <3> QED
            BY <2>2, <3>2, <3>3, <3>4, <3>5
    <2> QED
        BY <2>3, <2>4
<1>3. ASSUME NEW t \in Workers, NEW s, s = op[t].s, s \in Senders \ crossed,
             at[t] \in {"inserting", "removing"}
      PROVE  Done(t) /\ op[t].step \in 1..4 /\ op[t].content # Absent /\ s \in Streams
    <2>1. at[t] \in CallPcs /\ s \in Streams /\ Tracked(s)
        BY <1>3 DEF CallPcs, WorkerPcs, Senders, StreamsTracked
    <2> QED
        BY <1>3, <2>1, CallInProgress DEF Tracked, Busy, SInv, NodeAssumption
<1>4. ASSUME NEW t \in Workers, at[t] = "inserting", op[t].s \in Senders \ crossed
      PROVE  /\ op[t].step \in {2, 3} => resources[op[t].s]["endpoint"] = Absent
             /\ \A p \in Inserted(op[t].s, op[t].step) : resources[op[t].s][p] # Absent
    <2>1. PICK s \in Senders \ crossed, k \in 1..4 : s = op[t].s /\ k = op[t].step
        BY <1>3, <1>4
    <2>2. Has(s, op[t].content, Inserted(s, k)) /\ op[t].content # Absent
        BY <1>3, <1>4, <2>1 DEF Done
    <2>3. k < 4 => "endpoint" \notin Inserted(s, k)
        BY <2>1, CompleteParts
    <2>4. s \in Streams /\ Last(s) = 4
        BY <2>1 DEF Last, Senders
    <2>5. Inserted(s, k) \subseteq Parts
        BY <2>1, <2>4, Orders DEF Inserted
    <2> QED
        BY <2>1, <2>2, <2>3, <2>5 DEF Has, Parts
<1>5. ASSUME NEW t \in Workers, at[t] = "removing", op[t].s \in Senders \ crossed,
             op[t].step > 1
      PROVE  resources[op[t].s]["endpoint"] = Absent
    <2>1. PICK s \in Senders \ crossed, k \in 1..4 : s = op[t].s /\ k = op[t].step
        BY <1>3, <1>5
    <2>2. Has(s, Head(cache[s]), PartsOf(s) \ Removed(s, k))
        BY <1>3, <1>5, <2>1 DEF Done
    <2>3. "endpoint" \in Removed(s, k)
        BY <1>5, <2>1, CompleteParts
    <2> QED
        BY <2>1, <2>2, <2>3 DEF Has, Parts
<1> QED
    BY <1>2, <1>4, <1>5 DEF PartsTracked, Underway, SendersAreComplete

\* On a Node that has failed to start or shuts down a call inserts a sender's parts
\* in their order or takes away what it inserted, and removes none before the sender.
LEMMA PartsStep ==
    ASSUME NodeAssumption, SInv, PartsTracked, NEW t \in Workers, Step(t)
    PROVE  PartsTracked'
PROOF
<1> USE ThreadFacts
<1>1. /\ at \in [Threads -> Pcs] /\ op \in [Workers -> Ops]
      /\ resources \in [Streams -> [Parts -> Contents \cup {Absent}]]
      /\ op[t].s \in Streams /\ op[t].content \in Contents /\ op[t].step \in 1..4
      /\ op[t] \in CallOps /\ at[t] \in CallPcs
    BY StepMoves, CallInProgress DEF SInv, TInv, TypeOK
<1>2. PICK s \in Streams, c \in Contents, k \in 1..4 :
          s = op[t].s /\ c = op[t].content /\ k = op[t].step
    BY <1>1
<1>3. /\ at' = [at EXCEPT ![t] = at'[t]] /\ op' = [op EXCEPT ![t] = op'[t]]
      /\ at'[t] \in CallPcs => op'[t].s = s
      /\ crossed' = crossed /\ shutdown' = shutdown
    BY <1>2, StepMoves, StepCopies, StepPast DEF SInv
<1>4. \A r \in Streams : r # s => resources'[r] = resources[r]
    BY <1>2, StepFrame DEF SInv
<1>5. SUFFICES ASSUME s \in Senders \ crossed
               PROVE  /\ resources'[s]["endpoint"] # Absent =>
                            resources'[s]["source"] # Absent /\ resources'[s]["flow"] # Absent
                      /\ at'[t] \in CallPcs => Underway(t)'
    <2>1. ASSUME NEW r \in Senders \ crossed, resources'[r]["endpoint"] # Absent
          PROVE  resources'[r]["source"] # Absent /\ resources'[r]["flow"] # Absent
        <3>1. r \in Streams
            BY DEF Senders
        <3> QED
            BY <1>4, <1>5, <2>1, <3>1 DEF PartsTracked, SendersAreComplete
    <2>2. ASSUME NEW u \in Workers
          PROVE  Underway(u)'
        <3>1. CASE u = t
            BY <1>3, <1>5, <3>1 DEF Underway, CallPcs, WorkerPcs
        <3>2. CASE u # t
            <4>1. at'[u] = at[u] /\ op'[u] = op[u]
                BY <1>1, <1>3, <3>2
            <4>2. ASSUME at[u] \in {"inserting", "removing"}, op[u].s \in Senders \ crossed
                  PROVE  resources'[op[u].s] = resources[op[u].s]
                <5>1. Busy(t, op[u].s) => t = u
                    BY <4>2, Alone DEF SInv, CallPcs, WorkerPcs
                <5>2. op[u].s # s /\ op[u].s \in Streams
                    BY <1>1, <1>2, <3>2, <4>2, <5>1 DEF Busy, Senders
                <5> QED
                    BY <1>4, <5>2
            <4>3. Underway(u)
                BY DEF PartsTracked
            <4> QED
                BY <1>3, <4>1, <4>2, <4>3 DEF Underway
        <3> QED
            BY <3>1, <3>2
    <2> QED
        BY <1>3, <2>1, <2>2 DEF PartsTracked, SendersAreComplete
<1>6. /\ resources[s]["endpoint"] # Absent =>
            resources[s]["source"] # Absent /\ resources[s]["flow"] # Absent
      /\ {"source", "flow", "endpoint"} \subseteq Parts /\ Last(s) = 4
      /\ Underway(t) /\ c # Absent
    BY <1>5 DEF PartsTracked, SendersAreComplete, Parts, Last, Senders, NodeAssumption
<1>7. CASE AddLock(t)
    <2>1. op[t].step = 1
        BY <1>7 DEF SInv, TInv, OpsOK, AddLock, Early
    <2>2. CASE c \in Unusable
        BY <1>1, <1>2, <1>6, <1>7, <2>2 DEF AddLock, Throw, CallPcs, WorkerPcs
    <2>3. CASE c \notin Unusable
        <3>1. at'[t] = "inserting" /\ op' = op
            BY <1>1, <1>2, <1>7, <2>3 DEF AddLock
        <3>2. Inserted(s, 1) = {}
            BY <1>5, CompleteParts
        <3>3. Underway(t)'
            BY <1>2, <2>1, <3>1, <3>2 DEF Underway
        <3> QED
            BY <1>1, <1>2, <1>6, <1>7, <2>3, <3>3 DEF AddLock
    <2> QED
        BY <2>2, <2>3
<1>8. CASE InsertPart(t)
    <2>1. /\ at[t] = "inserting"
          /\ k \in {2, 3} => resources[s]["endpoint"] = Absent
          /\ \A p \in Inserted(s, k) : resources[s][p] # Absent
        BY <1>2, <1>5, <1>6, <1>8 DEF InsertPart, Underway
    <2>2. PICK part \in Parts : part = InsertOrder(s)[k]
        BY <1>6, Orders
    <2>3. CASE shutdown \/ resources[s][part] # Absent
        <3>1. /\ resources' = [resources EXCEPT ![s] =
                    [p \in Parts |-> IF p \in Inserted(s, k) THEN Absent ELSE @[p]]]
              /\ at'[t] \notin CallPcs
            BY <1>1, <1>2, <1>8, <2>2, <2>3 DEF InsertPart, Throw, Inserted, CallPcs, WorkerPcs
        <3>2. \A p \in Parts : resources'[s][p] =
                    IF p \in Inserted(s, k) THEN Absent ELSE resources[s][p]
            BY <1>1, <3>1
        <3>3. ASSUME resources'[s]["endpoint"] # Absent
              PROVE  resources'[s]["source"] # Absent /\ resources'[s]["flow"] # Absent
            <4>1. resources[s]["endpoint"] # Absent /\ "endpoint" \notin Inserted(s, k)
                BY <1>6, <3>2, <3>3
            <4>2. k = 1
                BY <1>5, <2>1, <4>1, CompleteParts
            <4>3. Inserted(s, k) = {}
                BY <1>5, <4>2, CompleteParts
            <4> QED
                BY <1>6, <3>2, <4>1, <4>3
        <3> QED
            BY <3>1, <3>3
    <2>4. CASE ~shutdown /\ resources[s][part] = Absent
        <3>1. /\ resources' = [resources EXCEPT ![s][part] = c]
              /\ IF k = 4 THEN at' = [at EXCEPT ![t] = "caching"]
                          ELSE op' = [op EXCEPT ![t].step = @ + 1] /\ at' = at
            BY <1>2, <1>6, <1>8, <2>2, <2>4, Orders DEF InsertPart
        <3>2. \A p \in Parts : resources'[s][p] = IF p = part THEN c ELSE resources[s][p]
            BY <1>1, <3>1
        <3>3. /\ k = 1 => part = "source"
              /\ k = 2 => part = "flow"
              /\ k = 3 => part = "endpoint"
              /\ k = 4 => part = "connection"
            BY <1>5, <2>2 DEF InsertOrder, Senders
        <3>4. k = 1 \/ k = 2 \/ k = 3 \/ k = 4
            OBVIOUS
        <3>5. Inserted(s, k) \subseteq Parts
            BY <1>6, Orders DEF Inserted
        <3>6. ASSUME resources'[s]["endpoint"] # Absent
              PROVE  resources'[s]["source"] # Absent /\ resources'[s]["flow"] # Absent
            <4>1. CASE k = 3
                BY <1>5, <2>1, <3>2, <3>3, <4>1, <1>6, CompleteParts
            <4>2. CASE k # 3
                BY <1>6, <2>4, <3>2, <3>3, <3>4, <3>6, <4>2
            <4> QED
                BY <4>1, <4>2
        <3>7. CASE k = 4
            <4>1. at'[t] = "caching"
                BY <1>1, <3>1, <3>7
            <4> QED
                BY <3>6, <4>1 DEF Underway
        <3>8. CASE k # 4
            <4>1. at'[t] = "inserting" /\ op'[t].s = s /\ op'[t].step = k + 1
                BY <1>1, <1>2, <2>1, <3>1, <3>8 DEF CallOps
            <4>2. k \in {1, 2} => resources'[s]["endpoint"] = Absent
                BY <1>6, <2>1, <2>4, <3>2, <3>3
            <4>3. Inserted(s, k + 1) = Inserted(s, k) \cup {part}
                BY <1>6, <2>2, InsertedGrows
            <4>4. \A p \in Inserted(s, k + 1) : resources'[s][p] # Absent
                BY <1>6, <2>1, <3>2, <3>5, <4>3
            <4>5. k + 1 \in {2, 3} => k \in {1, 2}
                OBVIOUS
            <4> QED
                BY <3>6, <4>1, <4>2, <4>4, <4>5 DEF Underway
        <3> QED
            BY <3>7, <3>8
    <2> QED
        BY <2>3, <2>4
<1>9. CASE UpdateLock(t)
    <2>1. at'[t] \notin {"inserting", "removing"}
        BY <1>1, <1>9 DEF UpdateLock, Throw
    <2>2. CASE resources' = resources
        BY <1>6, <2>1, <2>2 DEF Underway
    <2>3. CASE resources' # resources
        <3>1. PICK parts : Replace(s, parts, c)
            BY <1>2, <1>9, <2>3 DEF UpdateLock
        <3>2. \A p \in Parts : resources'[s][p] =
                    IF p \in parts /\ resources[s][p] # Absent THEN c ELSE resources[s][p]
            BY <1>1, <3>1 DEF Replace
        <3> QED
            BY <1>6, <2>1, <3>2 DEF Underway
    <2> QED
        BY <2>2, <2>3
<1>10. CASE RemovePart(t)
    <2>1. PICK part \in Parts : part = RemoveOrder(s)[k]
        BY <1>6, Orders
    <2>2. /\ at[t] = "removing"
          /\ resources' = IF shutdown THEN resources ELSE [resources EXCEPT ![s][part] = Absent]
          /\ IF k = 4 THEN at' = [at EXCEPT ![t] = "uncaching"]
                      ELSE op' = [op EXCEPT ![t].step = @ + 1] /\ at' = at
        BY <1>2, <1>6, <1>10, <2>1, Orders DEF RemovePart
    <2>3. at'[t] \in {"removing", "uncaching"} /\ (at'[t] = "removing" => op'[t].s = s)
        BY <1>1, <1>3, <2>2 DEF CallPcs, WorkerPcs
    <2>4. CASE shutdown
        BY <1>3, <1>6, <2>2, <2>3, <2>4 DEF Underway
    <2>5. CASE ~shutdown
        <3>1. \A p \in Parts : resources'[s][p] = IF p = part THEN Absent ELSE resources[s][p]
            BY <1>1, <2>2, <2>5
        <3>2. k = 1 => part = "endpoint"
            BY <1>5, <2>1 DEF RemoveOrder, Senders
        <3>3. k > 1 => resources[s]["endpoint"] = Absent
            BY <1>2, <1>5, <1>6, <2>2, <2>5 DEF Underway
        <3>4. k = 1 \/ k > 1
            OBVIOUS
        <3>5. resources'[s]["endpoint"] = Absent
            BY <1>6, <3>1, <3>2, <3>3, <3>4
        <3> QED
            BY <2>3, <3>5 DEF Underway
    <2> QED
        BY <2>4, <2>5
<1>11. CASE ~(AddLock(t) \/ InsertPart(t) \/ UpdateLock(t) \/ RemovePart(t))
    <2>1. resources' = resources
        BY <1>11 DEF Step, AddCheck, AddCaches, UpdateCheck, UpdateCaches, RemoveCheck,
            RemoveLock, RemoveMutex, Uncache, model
    <2>2. at'[t] # "inserting"
        BY <1>1, <1>11
        DEF Step, AddCheck, AddCaches, UpdateCheck, UpdateCaches, RemoveCheck,
            RemoveLock, RemoveMutex, Uncache, Goto, Return
    <2>3. at'[t] = "removing" => op'[t].step = 1
        <3>1. at[t] \in {"remove_lock", "remove_mutex"} => op[t].step = 1
            BY DEF SInv, TInv, OpsOK, Early
        <3> QED
            BY <1>1, <1>11, <3>1
            DEF Step, AddCheck, AddCaches, UpdateCheck, UpdateCaches, RemoveCheck,
                RemoveLock, RemoveMutex, Uncache, Goto, Return
    <2> QED
        BY <1>6, <2>1, <2>2, <2>3 DEF Underway
<1> QED
    BY <1>7, <1>8, <1>9, <1>10, <1>11

\* Nor does anything else make one.
LEMMA PartsHold ==
    ASSUME NodeAssumption, SInv, PartsTracked, Next, phase' \notin {"up", "starting"}
    PROVE  PartsTracked'
PROOF
<1> USE ThreadFacts
<1>1. at \in [Threads -> Pcs] /\ op \in [Workers -> Ops]
    BY DEF SInv, TInv, TypeOK
<1>2. CASE \E t \in Workers : Step(t)
    BY <1>2, PartsStep
<1>3. CASE Start
    <2>1. /\ resources' = NoResources /\ UNCHANGED <<at, op>> /\ phase = "down"
        BY <1>3 DEF Start
    <2>2. ASSUME NEW r \in Senders, NEW p \in Parts
          PROVE  resources'[r][p] = Absent
        BY <2>1 DEF NoResources, Senders
    <2>3. ASSUME NEW u \in Workers, at[u] \in {"inserting", "removing"}
          PROVE  op[u].s \in crossed'
        <3>1. u = "reconcile" /\ at[u] \in CallPcs
            BY <2>1, <2>3 DEF SInv, PhaseTracked, Parked, CallPcs, WorkerPcs
        <3>2. op[u] # NoOp
            BY <3>1, CallInProgress DEF SInv
        <3> QED
            BY <1>3, <3>1, <3>2 DEF Start
    <2>4. \A u \in Workers : Underway(u)'
        BY <2>1, <2>3 DEF Underway
    <2> QED
        BY <2>2, <2>4 DEF PartsTracked, SendersAreComplete, Parts
<1>4. CASE ~Start /\ ~\E t \in Workers : Step(t)
    <2>1. resources' = resources /\ crossed \subseteq crossed'
        BY <1>4, CrossedGrows
        DEF Next, Calls, Call, ActivationBegins, Activated, StopShuts, Stopped, Reinsert,
            InitDevice, CopySenders, CopyReceivers, ReinsertNext, Reinserted, model, SInv
    <2>2. shutdown' \/ shutdown' = shutdown
        BY <1>4
        DEF Next, Calls, Call, ActivationBegins, Activated, StopShuts, Stopped, Reinsert,
            InitDevice, CopySenders, CopyReceivers, ReinsertNext, Reinserted, life
    <2>3. ASSUME NEW t \in Workers
          PROVE  \/ at'[t] = at[t] /\ op'[t] = op[t]
                 \/ at'[t] \notin {"inserting", "removing"}
        <3>1. CASE Calls
            <4>1. PICK pc \in Early : at' = [at EXCEPT !["reconcile"] = pc]
                BY <3>1 DEF Calls, Call, Early
            <4>2. op'["reinsert"] = op["reinsert"]
                BY <1>1, <3>1 DEF Calls, Call
            <4> QED
                BY <1>1, <4>1, <4>2 DEF Early
        <3>2. CASE ActivationBegins \/ Activated \/ StopShuts \/ Stopped
            BY <1>1, <3>2 DEF ActivationBegins, Activated, Goto, StopShuts, Stopped
        <3>3. CASE Reinsert
            <4>1. /\ at'["reconcile"] = at["reconcile"] /\ op'["reconcile"] = op["reconcile"]
                  /\ at'["reinsert"] \notin {"inserting", "removing"}
                BY <1>1, <3>3
                DEF Reinsert, InitDevice, CopySenders, CopyReceivers, ReinsertNext,
                    Reinserted, Goto
            <4> QED
                BY <4>1
        <3> QED
            BY <1>4, <3>1, <3>2, <3>3 DEF Next
    <2>4. \A t \in Workers : Underway(t)'
        BY <2>1, <2>2, <2>3 DEF PartsTracked, Underway
    <2> QED
        BY <2>1, <2>4 DEF PartsTracked, SendersAreComplete
<1> QED
    BY <1>2, <1>3, <1>4

-----------------------------------------------------------------------------
(* The streams of a Node that is up, and those it keeps.                   *)

\* A Node that is up and in no call has each stream or not.
LEMMA QuietStreams ==
    ASSUME EInv, Quiet, NEW s \in Streams \ crossed
    PROVE  /\ In(s) \/ Out(s)
           /\ device # Absent /\ (s \in device <=> ids[s] > 0)
PROOF
<1>1. /\ phase = "up" /\ at["reinsert"] = "idle" /\ at["reconcile"] = "idle"
      /\ device # Absent
    BY DEF EInv, SInv, PhaseTracked, Parked, Quiet
<1>2. Tracked(s)
    BY <1>1 DEF EInv, StreamsTracked
<1> QED
    BY <1>1, <1>2, ThreadFacts DEF Tracked, Busy, Waiting, CallPcs, WorkerPcs

\* A step of the reinsertion loses a stream only when it shuts down, or to a call.
LEMMA ReinsertionKeeps ==
    ASSUME NodeAssumption, SInv, StreamsTracked, Step("reinsert"), crossed = {},
           NEW s \in Streams, Kept(s), ~(at["reinsert"] = "inserting" /\ shutdown)
    PROVE  Kept(s)'
PROOF
<1> USE ThreadFacts
<1>1. /\ at["reinsert"] \in Adds /\ at["reinsert"] \in CallPcs
      /\ op["reinsert"].s \in Streams
    BY StepMoves, CallInProgress DEF SInv, ReinsertionAdds
<1>2. PICK r \in Streams : r = op["reinsert"].s
    BY <1>1
<1>3. Adding("reinsert", r)
    BY <1>1, <1>2 DEF Adding
<1>4. /\ cache \in [Streams -> Seq(Contents)] /\ at \in [Threads -> Pcs]
      /\ op \in [Workers -> Ops]
      /\ cache[r] = <<>> /\ op["reinsert"].content \notin Unusable
    BY <1>1, <1>3 DEF SInv, TInv, TypeOK, OneCopy, UsableOnly, Good
<1>5. ASSUME cache' = cache, todo' = todo, at'["reinsert"] \in CallPcs
      PROVE  Kept(s)'
    <2>1. op'["reinsert"].s = op["reinsert"].s
        BY <1>5, StepCopies DEF SInv
    <2>2. TInv'
        BY StepTypes DEF SInv
    <2>3. op'["reinsert"] # NoOp
        BY <1>5, <2>2 DEF TInv, OpsOK, CallOps, NoOp
    <2> QED
        BY <1>5, <2>1, <2>3 DEF Kept, Cached
<1>6. CASE AddCheck("reinsert")
    BY <1>6 DEF AddCheck, Kept, Cached, model
<1>7. CASE AddLock("reinsert")
    BY <1>4, <1>7 DEF AddLock, Kept, Cached
<1>8. CASE InsertPart("reinsert")
    <2>1. ~shutdown /\ at["reinsert"] = "inserting"
        BY <1>8 DEF InsertPart
    <2>2. phase \in {"up", "starting"}
        BY <1>1, <2>1 DEF SInv, PhaseTracked, Parked, TInv, TypeOK, Adds
    <2>3. Minding("reinsert", r)
        BY <1>2, <2>2 DEF Minding
    <2>4. PICK k \in 1..Last(r) : k = op["reinsert"].step
        BY <2>1, <2>3, AtWork
    <2>5. Has(r, op["reinsert"].content, Inserted(r, k))
        BY <2>1, <2>3, <2>4, AtWork DEF Done
    <2>6. resources[r][InsertOrder(r)[k]] = Absent
        BY <2>4, <2>5, InsertedGrows DEF Has
    <2>7. cache' = cache /\ todo' = todo
        BY <1>2, <1>8, <2>1, <2>4, <2>6 DEF InsertPart
    <2>8. at'["reinsert"] \in CallPcs
        BY <1>1, <1>2, <1>4, <1>8, <2>1, <2>4, <2>6 DEF InsertPart, CallPcs, WorkerPcs
    <2> QED
        BY <1>5, <2>7, <2>8
<1>9. CASE AddCaches("reinsert")
    <2>1. /\ cache' = [cache EXCEPT ![r] = Append(@, op["reinsert"].content)]
          /\ todo' = todo
        BY <1>2, <1>9 DEF AddCaches, Return
    <2>2. CASE s = r
        <3>1. cache'[r] = <<op["reinsert"].content>>
            BY <1>4, <2>1
        <3> QED
            BY <2>2, <3>1 DEF Kept, Cached
    <2>3. CASE s # r
        BY <1>2, <1>4, <2>1, <2>3 DEF Kept, Cached
    <2> QED
        BY <2>2, <2>3
<1> QED
    BY <1>1, <1>6, <1>7, <1>8, <1>9
    DEF Adds, Step, UpdateCheck, UpdateLock, UpdateCaches, RemoveCheck, RemoveLock,
        RemoveMutex, RemovePart, Uncache

\* A step of NodeRuntime's call loses only the stream it removes.
LEMMA CallKeeps ==
    ASSUME SInv, Step("reconcile"), NEW s \in Streams, Kept(s),
           ~(at["reconcile"] = "uncaching" /\ op["reconcile"].s = s)
    PROVE  Kept(s)'
PROOF
<1> USE ThreadFacts
<1> DEFINE r == op["reconcile"].s
<1>1. /\ todo' = todo /\ op' = [op EXCEPT !["reconcile"] = op'["reconcile"]]
      /\ cache' = [cache EXCEPT ![r] = cache'[r]]
      /\ at["reconcile"] \notin {"caching", "recaching", "uncaching"} => cache' = cache
    BY StepCopies DEF SInv
<1>2. /\ r \in Streams /\ op["reconcile"].content \in Contents
      /\ cache \in [Streams -> Seq(Contents)] /\ op \in [Workers -> Ops]
    BY StepMoves, CallInProgress DEF SInv, TInv, TypeOK
<1>3. op'["reinsert"] = op["reinsert"]
    BY <1>1, <1>2
<1>4. SUFFICES cache[s] # <<>> => cache'[s] # <<>>
    BY <1>1, <1>3 DEF Kept, Cached
<1>5. CASE s # r \/ cache' = cache
    <2> HIDE DEF r
    <2> QED
        BY <1>1, <1>2, <1>5
<1>6. CASE s = r /\ at["reconcile"] = "caching"
    <2>1. cache'[s] = Append(cache[s], op["reconcile"].content)
        BY <1>6, StepSees DEF SInv
    <2> QED
        BY <1>2, <1>6, <2>1
<1>7. CASE s = r /\ at["reconcile"] = "recaching"
    <2>1. cache[s] # <<>> => cache'[s] = <<op["reconcile"].content>> \o Tail(cache[s])
        BY <1>7, StepSees DEF SInv
    <2>2. cache[s] # <<>> => Tail(cache[s]) \in Seq(Contents)
        BY <1>2
    <2> QED
        BY <1>2, <2>1, <2>2
<1> QED
    BY <1>1, <1>5, <1>6, <1>7

\* What no step but two does, as long as no call meets the reinsertion: lose a stream.
LEMMA KeptStep ==
    ASSUME NodeAssumption, SInv, StreamsTracked, Next,
           NEW s \in Streams, Kept(s), ~Kept(s)'
    PROVE  \/ at["reconcile"] = "uncaching" /\ op["reconcile"].s = s
           \/ at["reinsert"] = "inserting" /\ shutdown
           \/ op["reinsert"] # NoOp /\ crossed # {}
PROOF
<1> USE ThreadFacts
<1>1. /\ at \in [Threads -> Pcs] /\ op \in [Workers -> Ops]
      /\ cache \in [Streams -> Seq(Contents)] /\ todo \in [Streams -> Seq(Contents)]
    BY DEF SInv, TInv, TypeOK
<1>2. ASSUME NEW t \in Workers, Step(t)
      PROVE  \/ at["reconcile"] = "uncaching" /\ op["reconcile"].s = s
             \/ at["reinsert"] = "inserting" /\ shutdown
             \/ op["reinsert"] # NoOp /\ crossed # {}
    <2>1. t = "reinsert" => op["reinsert"] # NoOp
        BY <1>2, StepMoves, CallInProgress DEF SInv
    <2> QED
        BY <1>2, <2>1, ReinsertionKeeps, CallKeeps
<1>3. CASE Calls \/ ActivationBegins \/ Activated \/ StopShuts \/ Stopped \/ Start
           \/ InitDevice \/ Reinserted
    <2>1. UNCHANGED <<cache, todo>> /\ op'["reinsert"] = op["reinsert"]
        BY <1>1, <1>3
        DEF Calls, Call, ActivationBegins, Activated, StopShuts, Stopped, Start, InitDevice,
            Reinserted, model
    <2> QED
        BY <2>1 DEF Kept, Cached
<1>4. CASE CopySenders
    <2>1. /\ at["reinsert"] = "copy_senders" /\ op' = op
          /\ todo' = Of(cache, Senders) /\ cache' = Of(cache, Receivers)
        BY <1>4 DEF CopySenders, Goto
    <2>2. todo[s] = <<>>
        BY <2>1 DEF SInv, ReinsertionAdds, NoEntries
    <2> QED
        BY <2>1, <2>2 DEF Kept, Cached, Of, Senders
<1>5. CASE CopyReceivers
    <2>1. /\ at["reinsert"] = "copy_receivers" /\ op' = op
          /\ todo' = [r \in Streams |-> IF r \in Receivers THEN cache[r] ELSE todo[r]]
          /\ cache' = Of(cache, Senders)
        BY <1>5 DEF CopyReceivers, Goto
    <2>2. s \in Receivers => todo[s] = <<>>
        BY <2>1 DEF SInv, ReinsertionAdds
    <2> QED
        BY <2>1, <2>2 DEF Kept, Cached, Of, Senders
<1>6. CASE ReinsertNext
    <2>1. PICK r \in Streams :
              /\ op' = [op EXCEPT !["reinsert"] =
                           [kind |-> "add", s |-> r, content |-> Head(todo[r]), step |-> 1]]
              /\ todo' = [todo EXCEPT ![r] = Tail(@)]
        BY <1>6 DEF ReinsertNext
    <2>2. op["reinsert"] = NoOp /\ cache' = cache
        BY <1>6 DEF ReinsertNext, Goto, model, SInv, TInv, OpsOK, CallPcs, WorkerPcs
    <2>3. op'["reinsert"] # NoOp /\ op'["reinsert"].s = r
        BY <1>1, <2>1 DEF NoOp
    <2> QED
        BY <1>1, <2>1, <2>2, <2>3 DEF Kept, Cached
<1> QED
    BY <1>2, <1>3, <1>4, <1>5, <1>6 DEF Next, Reinsert

-----------------------------------------------------------------------------
(* How the calls end.                                                      *)

\* The reinsertion is adding a copy of the stream.
Copied(s) == op["reinsert"] # NoOp /\ op["reinsert"].s = s

\* What the Node holds of a stream, before and after a step.
LEMMA Holdings ==
    ASSUME NEW s \in Streams
    PROVE  /\ Copied(s) => held[s] = op["reinsert"].content
           /\ ~Copied(s) /\ todo[s] # <<>> => held[s] = Head(todo[s])
           /\ ~Copied(s) /\ todo[s] = <<>> =>
                  held[s] = IF cache[s] # <<>> THEN Head(cache[s]) ELSE Absent
           /\ Copied(s)' => held'[s] = op'["reinsert"].content
           /\ ~Copied(s)' /\ todo'[s] # <<>> => held'[s] = Head(todo'[s])
           /\ ~Copied(s)' /\ todo'[s] = <<>> =>
                  held'[s] = IF cache'[s] # <<>> THEN Head(cache'[s]) ELSE Absent
PROOF
    BY DEF held, Copied, Cached

\* It is a function of the streams.
LEMMA HeldOfStreams ==
    /\ held = [s \in Streams |-> held[s]]
    /\ held' = [s \in Streams |-> held'[s]]
PROOF
    BY DEF held

\* And so on the cache and the copies.
LEMMA SameHeld ==
    ASSUME UNCHANGED <<cache, todo>>, op'["reinsert"] = op["reinsert"]
    PROVE  held' = held
PROOF
    BY DEF held, Cached

\* A stream is held in a configuration that a Node can use.
LEMMA HeldTyped == SInv => held \in [Streams -> Good \cup {Absent}]
PROOF
<1> SUFFICES ASSUME SInv, NEW s \in Streams
             PROVE  held[s] \in Good \cup {Absent}
    BY HeldOfStreams
<1>1. cache[s] \in Seq(Good) /\ todo[s] \in Seq(Good)
    BY DEF SInv, OneCopy, UsableOnly
<1>2. Copied(s) => op["reinsert"].content \in Good
    BY ThreadFacts DEF Copied, SInv, TInv, OpsOK, OneCopy, UsableOnly
<1> QED
    BY <1>1, <1>2, Holdings

\* A call disturbs of what is held its own stream only.
LEMMA CallHolds ==
    ASSUME NodeAssumption, SInv, Step("reconcile"), NEW s, s = op["reconcile"].s
    PROVE  /\ s \in Streams /\ held' = [held EXCEPT ![s] = held'[s]]
           /\ cache' = cache \/ Copied(s) \/ todo[s] # <<>> => held' = held
           /\ ~Copied(s) /\ todo[s] = <<>> =>
                 /\ held[s] = IF cache[s] # <<>> THEN Head(cache[s]) ELSE Absent
                 /\ held'[s] = IF cache'[s] # <<>> THEN Head(cache'[s]) ELSE Absent
           /\ stage' = stage /\ UNCHANGED <<met, crossed>>
           /\ at["reconcile"] \in CallPcs
PROOF
<1> USE ThreadFacts
<1>1. /\ at["reconcile"] \in CallPcs /\ op["reconcile"].s \in Streams
      /\ cache \in [Streams -> Seq(Contents)] /\ op \in [Workers -> Ops]
      /\ todo' = todo /\ op' = [op EXCEPT !["reconcile"] = op'["reconcile"]]
      /\ cache' = [cache EXCEPT ![s] = cache'[s]]
    BY StepMoves, StepCopies, CallInProgress DEF SInv, TInv, TypeOK
<1>2. op'["reinsert"] = op["reinsert"] /\ \A r \in Streams : Copied(r)' <=> Copied(r)
    BY <1>1 DEF Copied
<1>3. \A r \in Streams : r # s => cache'[r] = cache[r]
    BY <1>1
<1>4. \A r \in Streams : r # s => held'[r] = held[r]
    BY <1>1, <1>2, <1>3, Holdings
<1>5. cache' = cache \/ Copied(s) \/ todo[s] # <<>> => held'[s] = held[s]
    BY <1>1, <1>2, Holdings
<1>6. ~Copied(s) /\ todo[s] = <<>> =>
          /\ held[s] = IF cache[s] # <<>> THEN Head(cache[s]) ELSE Absent
          /\ held'[s] = IF cache'[s] # <<>> THEN Head(cache'[s]) ELSE Absent
    BY <1>1, <1>2, Holdings
<1>7. held' = [held EXCEPT ![s] = held'[s]]
    BY <1>4, HeldOfStreams
<1>8. held'[s] = held[s] => held' = held
    BY <1>7, HeldOfStreams
<1>9. stage' = stage /\ UNCHANGED <<met, crossed>>
    BY StepStage, StepPast DEF SInv
<1> QED
    BY <1>1, <1>5, <1>6, <1>7, <1>8, <1>9

\* A call is a removal as long as it is at the steps of one.
Removing == {"remove_check", "remove_lock", "remove_mutex", "removing", "uncaching"}

KindTracked ==
    at["reconcile"] \in CallPcs =>
        (op["reconcile"].kind = "remove" <=> at["reconcile"] \in Removing)

\* The steps of a call do not turn it into another.
LEMMA KindStep ==
    ASSUME TInv, KindTracked, Step("reconcile")
    PROVE  KindTracked'
PROOF
<1> USE ThreadFacts DEF CallPcs, WorkerPcs, Removing
<1>1. /\ op \in [Workers -> Ops] /\ at \in [Threads -> Pcs]
      /\ op["reconcile"] \in CallOps /\ at["reconcile"] \in CallPcs
    BY StepMoves DEF TInv, TypeOK, OpsOK
<1>2. /\ at'["reconcile"] \in CallPcs =>
            /\ op'["reconcile"].kind = op["reconcile"].kind
            /\ at'["reconcile"] \in Removing <=> at["reconcile"] \in Removing
    <2>1. CASE AddCheck("reconcile")
        BY <1>1, <2>1 DEF AddCheck, Goto
    <2>2. CASE AddLock("reconcile")
        BY <1>1, <2>2 DEF AddLock, Throw
    <2>3. CASE InsertPart("reconcile")
        <3>1. CASE Throw("reconcile")
            BY <1>1, <3>1 DEF Throw
        <3>2. CASE ~Throw("reconcile")
            <4>1. op' = op \/ op' = [op EXCEPT !["reconcile"].step = @ + 1]
                BY <2>3, <3>2 DEF InsertPart
            <4>2. op'["reconcile"].kind = op["reconcile"].kind
                BY <1>1, <4>1 DEF CallOps
            <4>3. at["reconcile"] = "inserting" /\ at'["reconcile"] \in {"inserting", "caching"}
                BY <1>1, <2>3, <3>2 DEF InsertPart
            <4> QED
                BY <4>2, <4>3
        <3> QED
            BY <3>1, <3>2
    <2>4. CASE AddCaches("reconcile")
        BY <1>1, <2>4 DEF AddCaches, Return
    <2>5. CASE UpdateCheck("reconcile")
        BY <1>1, <2>5 DEF UpdateCheck, Goto
    <2>6. CASE UpdateLock("reconcile")
        BY <1>1, <2>6 DEF UpdateLock, Throw
    <2>7. CASE UpdateCaches("reconcile")
        BY <1>1, <2>7 DEF UpdateCaches, Return
    <2>8. CASE RemoveCheck("reconcile")
        BY <1>1, <2>8 DEF RemoveCheck, Return
    <2>9. CASE RemoveLock("reconcile")
        BY <1>1, <2>9 DEF RemoveLock, Goto
    <2>10. CASE RemoveMutex("reconcile")
        BY <1>1, <2>10 DEF RemoveMutex, Return
    <2>11. CASE RemovePart("reconcile")
        <3>1. op' = op \/ op' = [op EXCEPT !["reconcile"].step = @ + 1]
            BY <2>11 DEF RemovePart
        <3>2. op'["reconcile"].kind = op["reconcile"].kind
            BY <1>1, <3>1 DEF CallOps
        <3>3. at["reconcile"] = "removing" /\ at'["reconcile"] \in {"removing", "uncaching"}
            BY <1>1, <2>11 DEF RemovePart
        <3> QED
            BY <3>2, <3>3
    <2>12. CASE Uncache("reconcile")
        BY <1>1, <2>12 DEF Uncache, Return
    <2> QED
        BY <2>1, <2>2, <2>3, <2>4, <2>5, <2>6, <2>7, <2>8, <2>9, <2>10, <2>11, <2>12 DEF Step
<1> QED
    BY <1>1, <1>2 DEF KindTracked

\* Nor does anything else.
LEMMA KindHolds ==
    ASSUME TInv, KindTracked, [Next]_vars
    PROVE  KindTracked'
PROOF
<1> USE ThreadFacts
<1>1. op \in [Workers -> Ops] /\ at \in [Threads -> Pcs]
    BY DEF TInv, TypeOK
<1>2. CASE Step("reconcile")
    BY <1>2, KindStep
<1>3. CASE Calls
    <2>1. PICK kind \in {"add", "update", "remove"}, s \in Streams, c \in Contents :
              Call(kind, s, c)
        BY <1>3 DEF Calls
    <2>2. op'["reconcile"] = [kind |-> kind, s |-> s, content |-> c, step |-> 1]
        BY <1>1, <2>1 DEF Call
    <2>3. /\ kind = "add" => at'["reconcile"] = "add_check"
          /\ kind = "update" => at'["reconcile"] = "update_check"
          /\ kind = "remove" => at'["reconcile"] \in {"remove_lock", "remove_check"}
        BY <1>1, <2>1 DEF Call
    <2>4. op'["reconcile"].kind = kind
        BY <2>2
    <2> QED
        BY <2>1, <2>3, <2>4 DEF KindTracked, Removing
<1>4. CASE \/ Step("reinsert") \/ ActivationBegins \/ Activated \/ StopShuts \/ Stopped
           \/ Start \/ Reinsert \/ UNCHANGED vars
    <2>1. at'["reconcile"] = at["reconcile"] /\ op'["reconcile"] = op["reconcile"]
        <3>1. CASE Step("reinsert")
            <4>1. at' = [at EXCEPT !["reinsert"] = at'["reinsert"]]
                BY <3>1, StepMoves
            <4>2. op' = [op EXCEPT !["reinsert"] = op'["reinsert"]]
                <5>1. CASE InsertPart("reinsert")
                    BY <1>1, <5>1 DEF InsertPart, Throw
                <5>2. CASE ~InsertPart("reinsert")
                    BY <1>1, <3>1, <5>2
                    DEF Step, AddCheck, AddLock, AddCaches, UpdateCheck, UpdateLock,
                        UpdateCaches, RemoveCheck, RemoveLock, RemoveMutex, RemovePart,
                        Uncache, Goto, Return, Throw
                <5> QED
                    BY <5>1, <5>2
            <4> QED
                BY <1>1, <4>1, <4>2
        <3>2. CASE ActivationBegins \/ Activated \/ StopShuts \/ Stopped \/ Start
            BY <1>1, <3>2
            DEF ActivationBegins, Activated, Goto, StopShuts, Stopped, Start
        <3>3. CASE Reinsert
            BY <1>1, <3>3
            DEF Reinsert, InitDevice, CopySenders, CopyReceivers, ReinsertNext, Reinserted,
                Goto
        <3>4. CASE UNCHANGED vars
            BY <3>4 DEF vars
        <3> QED
            BY <1>4, <3>1, <3>2, <3>3, <3>4
    <2> QED
        BY <2>1 DEF KindTracked
<1> QED
    BY <1>2, <1>3, <1>4, ThreadFacts DEF Next

\* What a call is to make of its stream.
Told(call) == IF call.kind = "remove" THEN Absent ELSE call.content

\* How a call may end: it did nothing that lasts as it met a starting Node, it did
\* what it was told, or it threw, for a reason.
Ended ==
    LET call == op["reconcile"]
        s == call.s
    IN  \/ met /\ held' = held
        \/ /\ held' = [held EXCEPT ![s] = Told(call)]
           /\ Told(call) # Absent => call.content \in Good
           /\ stage = "down" /\ Told(call) # Absent => held[s] # Absent
        \/ /\ held' = held /\ call.kind # "remove"
           /\ \/ call.content \in Unusable
              \/ s \in crossed
              \/ (shutdown \/ phase = "failed") /\ ~(Cached(s) /\ Whole(s))

\* Each of the steps that end a call ends it so.
LEMMA CallEnds ==
    ASSUME NodeAssumption, SInv, StreamsTracked, KindTracked, Step("reconcile"),
           at'["reconcile"] \notin CallPcs
    PROVE  Ended
PROOF
<1> USE ThreadFacts
<1>1. PICK s \in Streams, c \in Contents :
          /\ s = op["reconcile"].s /\ c = op["reconcile"].content
          /\ op["reconcile"].step \in 1..4
    BY StepMoves, CallInProgress DEF SInv
<1>2. /\ at["reconcile"] \in CallPcs /\ held' = [held EXCEPT ![s] = held'[s]]
      /\ cache' = cache \/ Copied(s) \/ todo[s] # <<>> => held' = held
    BY <1>1, CallHolds
<1>3. /\ at \in [Threads -> Pcs] /\ cache \in [Streams -> Seq(Good)]
      /\ phase \in {"up", "starting", "failed", "stopping", "down"}
      /\ shutdown <=> phase \in {"stopping", "down"}
      /\ \A d \in Good : d # Absent /\ d \notin Unusable /\ d \in Contents
    BY DEF SInv, TInv, TypeOK, OneCopy, UsableOnly, PhaseTracked, Good, NodeAssumption
<1>4. op["reconcile"].kind = "remove" <=> at["reconcile"] \in Removing
    BY <1>2 DEF KindTracked
<1>5. CASE Copied(s) \/ todo[s] # <<>>
    <2>1. met
        <3>1. at["reinsert"] \in {"idle", "next"} => op["reinsert"] = NoOp
            BY DEF SInv, TInv, OpsOK, CallPcs, WorkerPcs
        <3> QED
            BY <1>1, <1>2, <1>5, <3>1, Undisturbed DEF SInv, Copied, NoEntries
    <2> QED
        BY <1>2, <1>5, <2>1 DEF Ended
<1> SUFFICES ASSUME ~Copied(s) /\ todo[s] = <<>>
             PROVE  Ended
    BY <1>5
<1>6. /\ held[s] = IF cache[s] # <<>> THEN Head(cache[s]) ELSE Absent
      /\ held'[s] = IF cache'[s] # <<>> THEN Head(cache'[s]) ELSE Absent
    BY <1>1, CallHolds
<1>7. ~met => CallTracked
    BY DEF SInv, OneCopy
<1>8. ~(s \in crossed \/ shutdown \/ phase = "failed") => Minding("reconcile", s)
    BY <1>1, <1>3 DEF Minding
<1>9. CASE AddLock("reconcile")
    <2>1. c \in Unusable /\ cache' = cache
        BY <1>1, <1>3, <1>9 DEF AddLock, CallPcs, WorkerPcs
    <2> QED
        BY <1>1, <1>2, <1>4, <1>9, <2>1 DEF Ended, AddLock, Removing
<1>10. CASE InsertPart("reconcile")
    <2>1. at["reconcile"] = "inserting" /\ cache' = cache
        BY <1>10 DEF InsertPart
    <2>2. ~met => ~Cached(s)
        BY <1>1, <1>2, <1>7, <2>1 DEF CallTracked, Cached
    <2>3. s \in crossed \/ shutdown \/ phase = "failed"
        <3> SUFFICES ASSUME Minding("reconcile", s)
                     PROVE  FALSE
            BY <1>8
        <3>1. PICK k \in 1..Last(s) : k = op["reconcile"].step
            BY <2>1, AtWork
        <3>2. Has(s, c, Inserted(s, k)) /\ ~shutdown
            BY <1>1, <2>1, <3>1, AtWork DEF Done
        <3>3. resources[s][InsertOrder(s)[k]] = Absent
            BY <3>1, <3>2, InsertedGrows DEF Has
        <3> QED
            BY <1>1, <1>3, <1>10, <2>1, <3>1, <3>2, <3>3
            DEF InsertPart, CallPcs, WorkerPcs
    <2> QED
        BY <1>1, <1>2, <1>4, <2>1, <2>2, <2>3 DEF Ended, Removing
<1>11. CASE AddCaches("reconcile")
    <2>1. /\ at["reconcile"] = "caching" /\ c \in Good /\ ~shutdown
          /\ op["reconcile"].kind # "remove"
        BY <1>1, <1>4, <1>11 DEF AddCaches, SInv, LocksTracked, OneCopy, UsableOnly, Removing
    <2>2. cache'[s] = Append(cache[s], c)
        BY <1>1, <2>1, StepSees DEF SInv
    <2>3. CASE cache[s] # <<>>
        <3>1. Head(Append(cache[s], c)) = Head(cache[s]) /\ Append(cache[s], c) # <<>>
            BY <1>3, <2>1, <2>3
        <3>2. held'[s] = held[s]
            BY <1>6, <2>2, <2>3, <3>1
        <3>3. met
            BY <1>1, <1>2, <1>7, <2>1, <2>3 DEF CallTracked
        <3> QED
            BY <1>2, <3>2, <3>3, HeldOfStreams DEF Ended
    <2>4. CASE cache[s] = <<>>
        <3>1. held'[s] = c
            BY <1>6, <2>2, <2>4
        <3>2. stage # "down"
            BY <1>3, <2>1 DEF stage
        <3> QED
            BY <1>1, <1>2, <2>1, <3>1, <3>2 DEF Ended, Told
    <2> QED
        BY <2>3, <2>4
<1>12. CASE UpdateLock("reconcile")
    <2>1. at["reconcile"] = "update_lock" /\ cache' = cache
        BY <1>12 DEF UpdateLock
    <2>2. c \in Unusable \/ ~Whole(s)
        BY <1>1, <1>3, <1>12 DEF UpdateLock, Whole, PartsOf, Parts, CallPcs, WorkerPcs
    <2>3. Minding("reconcile", s) => Whole(s)
        <3> SUFFICES ASSUME Minding("reconcile", s)
                     PROVE  Whole(s)
            OBVIOUS
        <3>1. In(s)
            BY <1>1, <2>1, AtWork DEF Done
        <3>2. Head(cache[s]) # Absent
            BY <1>3, <3>1 DEF In
        <3> QED
            BY <1>1, <3>1, <3>2, Orders DEF In, Has, Whole
    <2> QED
        BY <1>1, <1>2, <1>4, <1>8, <2>1, <2>2, <2>3 DEF Ended, Removing
<1>13. CASE UpdateCaches("reconcile")
    <2>1. /\ at["reconcile"] = "recaching" /\ c \in Good
          /\ op["reconcile"].kind # "remove"
        BY <1>1, <1>4, <1>13 DEF UpdateCaches, SInv, OneCopy, UsableOnly, Removing
    <2>2. cache'[s] = IF cache[s] = <<>> THEN <<>> ELSE <<c>> \o Tail(cache[s])
        BY <1>1, <2>1, StepSees DEF SInv
    <2>3. CASE cache[s] # <<>>
        <3>1. Tail(cache[s]) \in Seq(Good) /\ Head(cache[s]) \in Good
            BY <1>3, <2>3
        <3>2. Head(<<c>> \o Tail(cache[s])) = c /\ <<c>> \o Tail(cache[s]) # <<>>
            BY <2>1, <3>1
        <3>3. held'[s] = c /\ held[s] # Absent
            BY <1>3, <1>6, <2>2, <2>3, <3>1, <3>2
        <3> QED
            BY <1>1, <1>2, <2>1, <3>3 DEF Ended, Told
    <2>4. CASE cache[s] = <<>>
        <3>1. held'[s] = held[s]
            BY <1>6, <2>2, <2>4
        <3>2. met
            BY <1>1, <1>2, <1>7, <2>1, <2>4 DEF CallTracked
        <3> QED
            BY <1>2, <3>1, <3>2, HeldOfStreams DEF Ended
    <2> QED
        BY <2>3, <2>4
<1>14. CASE RemoveCheck("reconcile") \/ RemoveMutex("reconcile") \/ Uncache("reconcile")
    <2>1. op["reconcile"].kind = "remove"
        BY <1>4, <1>14 DEF RemoveCheck, RemoveMutex, Uncache, Removing
    <2>2. held'[s] = Absent
        <3>1. CASE Uncache("reconcile")
            <4>1. cache'[s] = <<>>
                BY <1>1, <3>1, StepSees DEF SInv, Uncache
            <4> QED
                BY <1>6, <4>1
        <3>2. CASE ~Uncache("reconcile")
            <4>1. cache' = cache /\ cache[s] = <<>>
                BY <1>1, <1>3, <1>14, <3>2
                DEF RemoveCheck, RemoveMutex, Cached, model, CallPcs, WorkerPcs
            <4> QED
                BY <1>6, <4>1
        <3> QED
            BY <3>1, <3>2
    <2> QED
        BY <1>1, <1>2, <2>1, <2>2 DEF Ended, Told
<1>15. CASE \/ AddCheck("reconcile") \/ UpdateCheck("reconcile")
            \/ RemoveLock("reconcile") \/ RemovePart("reconcile")
    BY <1>3, <1>15
    DEF AddCheck, UpdateCheck, RemoveLock, RemovePart, Goto, CallPcs, WorkerPcs
<1> QED
    BY <1>9, <1>10, <1>11, <1>12, <1>13, <1>14, <1>15 DEF Step

\* Only a step of the call ends it.
LEMMA CallOver ==
    ASSUME NodeAssumption, SInv, StreamsTracked, KindTracked, [Next]_vars,
           at["reconcile"] # "idle", at'["reconcile"] = "idle"
    PROVE  Ended
PROOF
<1> USE ThreadFacts
<1>1. at \in [Threads -> Pcs] /\ at["reconcile"] \in WorkerPcs
    BY DEF SInv, TInv, TypeOK
<1>2. Step("reconcile")
    <2>1. CASE Step("reinsert")
        <3>1. at' = [at EXCEPT !["reinsert"] = at'["reinsert"]]
            BY <2>1, StepMoves DEF SInv
        <3> QED
            BY <1>1, <3>1
    <2>2. CASE Calls \/ UNCHANGED vars
        BY <1>1, <2>2 DEF Calls, Call, vars
    <2>3. CASE ActivationBegins \/ Activated \/ StopShuts \/ Stopped \/ Start \/ Reinsert
        BY <1>1, <2>3
        DEF ActivationBegins, Activated, Goto, StopShuts, Stopped, Start,
            Reinsert, InitDevice, CopySenders, CopyReceivers, ReinsertNext, Reinserted
    <2> QED
        BY <2>1, <2>2, <2>3 DEF Next
<1> QED
    BY <1>2, CallEnds DEF CallPcs

-----------------------------------------------------------------------------
(* The contract                                                            *)

\* What is asked of the Node is what the call under way is told.
LEMMA AskedIs ==
    NodeAssumption /\ TInv =>
        /\ at["reconcile"] \in CallPcs =>
              /\ asked = [s |-> op["reconcile"].s, to |-> Told(op["reconcile"])]
              /\ op["reconcile"].s \in Streams /\ op["reconcile"].content \in Contents
              /\ op["reconcile"].content # Absent
              /\ asked # Contract!NoCall /\ op["reconcile"] # NoOp
        /\ at["reconcile"] \notin CallPcs =>
              asked = Contract!NoCall /\ op["reconcile"] = NoOp
PROOF
<1> SUFFICES ASSUME NodeAssumption, TInv
             PROVE  /\ at["reconcile"] \in CallPcs =>
                          /\ asked = [s |-> op["reconcile"].s,
                                      to |-> Told(op["reconcile"])]
                          /\ op["reconcile"].s \in Streams
                          /\ op["reconcile"].content \in Contents
                          /\ op["reconcile"].content # Absent
                          /\ asked # Contract!NoCall /\ op["reconcile"] # NoOp
                    /\ at["reconcile"] \notin CallPcs =>
                          asked = Contract!NoCall /\ op["reconcile"] = NoOp
    OBVIOUS
<1>1. CASE at["reconcile"] \in CallPcs
    <2>1. /\ op["reconcile"] # NoOp /\ op["reconcile"].s \in Streams
          /\ op["reconcile"].content \in Contents
        BY <1>1, CallInProgress, ThreadFacts
    <2>2. op["reconcile"].s # Absent /\ op["reconcile"].content # Absent
        BY <2>1 DEF NodeAssumption
    <2> QED
        BY <1>1, <2>1, <2>2 DEF asked, Told, Contract!NoCall
<1>2. CASE at["reconcile"] \notin CallPcs
    <2>1. op["reconcile"] = NoOp
        BY <1>2, ThreadFacts DEF TInv, OpsOK
    <2> QED
        BY <1>2, <2>1 DEF asked, Contract!NoCall
<1> QED
    BY <1>1, <1>2

\* The steps of a call of NodeRuntime come to the three ways it may end.
LEMMA CallContract ==
    ASSUME NodeAssumption, SInv, SInv', StreamsTracked, KindTracked, Step("reconcile")
    PROVE  Contract!Next \/ UNCHANGED Contract!vars
PROOF
<1> USE ThreadFacts
<1>1. PICK s \in Streams : s = op["reconcile"].s
    BY StepMoves, CallInProgress DEF SInv
<1>2. /\ at["reconcile"] \in CallPcs /\ stage' = stage /\ UNCHANGED <<met, crossed>>
      /\ cache' = cache => held' = held
    BY <1>1, CallHolds
<1>3. /\ asked = [s |-> s, to |-> Told(op["reconcile"])] /\ asked # Contract!NoCall
      /\ op["reconcile"].content \in Contents /\ op["reconcile"].content # Absent
    BY <1>1, <1>2, AskedIs DEF SInv
<1>4. (NodeAssumption /\ TInv =>
           /\ at["reconcile"] \in CallPcs =>
                 /\ asked = [s |-> op["reconcile"].s, to |-> Told(op["reconcile"])]
                 /\ op["reconcile"].s \in Streams /\ op["reconcile"].content \in Contents
                 /\ op["reconcile"].content # Absent
                 /\ asked # Contract!NoCall /\ op["reconcile"] # NoOp
           /\ at["reconcile"] \notin CallPcs =>
                 asked = Contract!NoCall /\ op["reconcile"] = NoOp)'
    BY AskedIs, PTL
<1>5. CASE at'["reconcile"] \in CallPcs
    <2>1. /\ op'["reconcile"].s = s /\ op'["reconcile"].content = op["reconcile"].content
          /\ op'["reconcile"].kind = op["reconcile"].kind
          /\ cache' = cache
        BY <1>1, <1>5, StepCopies, StepSees DEF SInv
    <2>2. asked' = asked
        BY <1>3, <1>4, <1>5, <2>1 DEF Told, SInv
    <2> QED
        BY <1>2, <2>1, <2>2 DEF Contract!vars
<1>6. CASE at'["reconcile"] \notin CallPcs
    <2>1. Contract!Answer
        BY <1>2, <1>3, <1>4, <1>6 DEF Contract!Answer, SInv
    <2>2. /\ asked.s = s /\ asked.to = Told(op["reconcile"])
          /\ op["reconcile"].kind # "remove" => asked.to = op["reconcile"].content
        BY <1>3 DEF Told
    <2>3. CASE met /\ held' = held
        BY <2>1, <2>3 DEF Contract!Missed, Contract!Next
    <2>4. CASE /\ held' = [held EXCEPT ![s] = Told(op["reconcile"])]
               /\ Told(op["reconcile"]) # Absent => op["reconcile"].content \in Good
               /\ stage = "down" /\ Told(op["reconcile"]) # Absent => held[s] # Absent
        <3>1. asked.to \in Contract!Usable
            BY <2>2, <2>4 DEF Told, Good, Contract!Usable
        <3>2. Contract!Done
            BY <2>1, <2>2, <2>4, <3>1 DEF Contract!Done
        <3> QED
            BY <3>2 DEF Contract!Next
    <2>5. CASE /\ held' = held /\ op["reconcile"].kind # "remove"
               /\ \/ op["reconcile"].content \in Unusable
                  \/ s \in crossed
                  \/ (shutdown \/ phase = "failed") /\ ~(Cached(s) /\ Whole(s))
        <3>1. shutdown \/ phase = "failed" => stage # "up"
            BY DEF stage, SInv, PhaseTracked
        <3>2. Contract!Refuse
            BY <1>3, <2>1, <2>2, <2>5, <3>1 DEF Contract!Refuse
        <3> QED
            BY <3>2 DEF Contract!Next
    <2>6. Ended
        BY <1>6, CallEnds
    <2> QED
        BY <1>1, <2>3, <2>4, <2>5, <2>6 DEF Ended
<1> QED
    BY <1>5, <1>6

\* What is kept is held in some configuration, and nothing else is.
LEMMA KeptIsHeld ==
    NodeAssumption /\ SInv => \A s \in Streams : Kept(s) <=> held[s] # Absent
PROOF
<1> SUFFICES ASSUME NodeAssumption, SInv, NEW s \in Streams
             PROVE  Kept(s) <=> held[s] # Absent
    OBVIOUS
<1>1. /\ cache[s] \in Seq(Good) /\ todo[s] \in Seq(Good)
      /\ \A c \in Good : c # Absent
    BY DEF SInv, OneCopy, UsableOnly, Good, NodeAssumption
<1>2. Copied(s) => op["reinsert"].content \in Good
    BY ThreadFacts DEF Copied, SInv, TInv, OpsOK, OneCopy, UsableOnly
<1> QED
    BY <1>1, <1>2, Holdings DEF Kept, Copied, Cached

\* The reinsertion has a copy in hand as long as it is adding one.
LEMMA InHand ==
    TInv => /\ at["reinsert"] \in CallPcs => op["reinsert"] # NoOp
            /\ at["reinsert"] \notin CallPcs => op["reinsert"] = NoOp
PROOF
    BY CallInProgress, ThreadFacts DEF TInv, OpsOK

\* A step of the reinsertion keeps what it has in hand, or loses it.
LEMMA CopiesLast ==
    ASSUME NodeAssumption, SInv, SInv', Step("reinsert"), NEW s \in Streams \ crossed
    PROVE  held'[s] \in {held[s], Absent}
PROOF
<1> USE ThreadFacts
<1>1. PICK r \in Streams, c \in Contents :
          /\ r = op["reinsert"].s /\ c = op["reinsert"].content /\ op["reinsert"] # NoOp
    BY StepMoves, CallInProgress DEF SInv
<1>2. /\ at["reinsert"] \in CallPcs /\ todo' \in {todo, NoEntries}
      /\ op' = [op EXCEPT !["reinsert"] = op'["reinsert"]]
      /\ at'["reinsert"] \in CallPcs =>
            op'["reinsert"].s = r /\ op'["reinsert"].content = c
      /\ cache' = [cache EXCEPT ![r] = cache'[r]]
      /\ at["reinsert"] \notin {"caching", "recaching", "uncaching"} => cache' = cache
    BY <1>1, StepMoves, StepCopies DEF SInv
<1>3. /\ at'["reinsert"] \in CallPcs => op'["reinsert"] # NoOp
      /\ at'["reinsert"] \notin CallPcs => op'["reinsert"] = NoOp
    <2>1. (TInv => /\ at["reinsert"] \in CallPcs => op["reinsert"] # NoOp
                   /\ at["reinsert"] \notin CallPcs => op["reinsert"] = NoOp)'
        BY InHand, PTL
    <2> QED
        BY <2>1 DEF SInv
<1>4. /\ cache[s] = <<>> \/ todo[s] = <<>>
      /\ NoEntries[s] = <<>>
      /\ cache[s] \in Seq(Good) /\ cache \in [Streams -> Seq(Good)]
    BY DEF SInv, OneCopy, UsableOnly, NoEntries
<1>5. CASE s # r
    <2>1. ~Copied(s) /\ ~Copied(s)' /\ cache'[s] = cache[s] /\ todo'[s] \in {todo[s], <<>>}
        BY <1>1, <1>2, <1>3, <1>4, <1>5 DEF Copied, NoEntries
    <2> QED
        BY <1>4, <2>1, Holdings
<1>6. CASE s = r
    <2>1. at["reinsert"] \in Adds /\ Copied(s)
        BY <1>1, <1>2, <1>6 DEF SInv, ReinsertionAdds, Copied
    <2>2. cache[s] = <<>> /\ todo[s] = <<>> /\ held[s] = c
        BY <1>1, <1>6, <2>1, Holdings DEF SInv, OneCopy, Adding
    <2>3. todo'[s] = <<>>
        BY <1>2, <2>2 DEF NoEntries
    <2>4. CASE at'["reinsert"] \in CallPcs
        BY <1>2, <1>3, <1>6, <2>2, <2>4, Holdings DEF Copied
    <2>5. CASE at'["reinsert"] \notin CallPcs
        <3>1. ~Copied(s)'
            BY <1>3, <2>5 DEF Copied
        <3>2. CASE at["reinsert"] = "caching"
            <4>1. cache'[s] = Append(cache[s], c)
                BY <1>1, <1>6, <3>2, StepSees DEF SInv
            <4>2. cache'[s] = <<c>>
                BY <2>2, <4>1
            <4> QED
                BY <2>2, <2>3, <3>1, <4>2, Holdings
        <3>3. CASE at["reinsert"] # "caching"
            <4>1. cache' = cache
                BY <1>2, <2>1, <3>3 DEF Adds
            <4> QED
                BY <2>2, <2>3, <3>1, <4>1, Holdings
        <3> QED
            BY <3>2, <3>3
    <2> QED
        BY <2>4, <2>5
<1> QED
    BY <1>5, <1>6

\* A reinsertion that nothing has crossed shows only if a stop interrupts it.
LEMMA ReinsertionContract ==
    ASSUME NodeAssumption, SInv, SInv', StreamsTracked, Step("reinsert")
    PROVE  Contract!Next \/ UNCHANGED Contract!vars
PROOF
<1> USE ThreadFacts
<1>1. /\ at["reinsert"] \in CallPcs /\ at \in [Threads -> Pcs] /\ op \in [Workers -> Ops]
      /\ UNCHANGED <<phase, shutdown, met, crossed>>
      /\ op' = [op EXCEPT !["reinsert"] = op'["reinsert"]]
    BY StepMoves, StepCopies, StepPast DEF SInv, TInv, TypeOK
<1>2. asked' = asked
    BY <1>1 DEF asked
<1>3. phase \in {"starting", "stopping"} /\ Reinserting
    BY <1>1 DEF SInv, TInv, TypeOK, PhaseTracked, Parked, CallPcs, WorkerPcs, Reinserting
<1>4. stage = "starting" /\ stage' \in {"starting", "down"}
    BY <1>1, <1>3 DEF stage
<1>5. held' \in [Streams -> Contract!Usable]
    <2>1. (SInv => held \in [Streams -> Good \cup {Absent}])'
        BY HeldTyped, PTL
    <2> QED
        BY <2>1 DEF Good, Contract!Usable
<1>6. \A s \in Streams \ crossed : held'[s] \in {held[s], Absent}
    BY CopiesLast
<1>7. CASE stage' = "down"
    <2>1. Contract!Stop
        BY <1>1, <1>2, <1>4, <1>5, <1>6, <1>7 DEF Contract!Stop
    <2> QED
        BY <2>1 DEF Contract!Next
<1>8. CASE stage' = "starting" /\ crossed # {}
    <2>1. Contract!Confuse
        BY <1>1, <1>2, <1>4, <1>5, <1>6, <1>8 DEF Contract!Confuse
    <2> QED
        BY <2>1 DEF Contract!Next
<1>9. (NodeAssumption /\ SInv => \A s \in Streams : Kept(s) <=> held[s] # Absent)'
    BY KeptIsHeld, PTL
<1>10. CASE stage' = "starting" /\ crossed = {}
    <2>1. ~(at["reinsert"] = "inserting" /\ shutdown)
        <3> SUFFICES ASSUME at["reinsert"] = "inserting", shutdown
                     PROVE  FALSE
            OBVIOUS
        <3>1. InsertPart("reinsert")
            BY <1>1
            DEF Step, AddCheck, AddLock, AddCaches, UpdateCheck, UpdateLock,
                UpdateCaches, RemoveCheck, RemoveLock, RemoveMutex, RemovePart, Uncache, Goto
        <3>2. Throw("reinsert")
            BY <3>1 DEF InsertPart
        <3>3. at'["reinsert"] = "next" /\ todo' = NoEntries
            BY <1>1, <3>2 DEF Throw
        <3>4. phase' = "stopping"
            BY <1>1, <1>3 DEF SInv, PhaseTracked
        <3> QED
            BY <1>10, <3>3, <3>4 DEF stage, Reinserting
    <2>2. ASSUME NEW s \in Streams
          PROVE  held'[s] = held[s]
        <3>1. held'[s] \in {held[s], Absent}
            BY <1>6, <1>10
        <3>2. held[s] # Absent => held'[s] # Absent
            <4>1. Kept(s) <=> held[s] # Absent
                BY KeptIsHeld
            <4>2. Kept(s) => Kept(s)'
                BY <1>10, <2>1, ReinsertionKeeps
            <4> QED
                BY <1>9, <4>1, <4>2
        <3> QED
            BY <3>1, <3>2
    <2>3. held' = held
        BY <2>2, HeldOfStreams
    <2> QED
        BY <1>1, <1>2, <1>4, <1>10, <2>3 DEF Contract!vars
<1> QED
    BY <1>4, <1>7, <1>8, <1>10

\* The copies are the caches as they were, taken one after the other.
LEMMA CopiesHeld ==
    ASSUME SInv, CopySenders \/ CopyReceivers
    PROVE  held' = held /\ UNCHANGED <<phase, op>>
           /\ at["reinsert"] \in {"copy_senders", "copy_receivers"}
PROOF
<1> USE ThreadFacts
<1>1. /\ at["reinsert"] \in {"copy_senders", "copy_receivers"}
      /\ op' = op /\ phase' = phase
    BY DEF CopySenders, CopyReceivers, Goto, life
<1>2. op["reinsert"] = NoOp
    BY <1>1 DEF SInv, TInv, OpsOK, CallPcs, WorkerPcs
<1>3. \A s \in Streams : ~Copied(s) /\ ~Copied(s)'
    BY <1>1, <1>2 DEF Copied
<1>5. ASSUME NEW s \in Streams
      PROVE  held'[s] = held[s]
    <2>1. CASE CopySenders
        <3>1. todo[s] = <<>>
            BY <2>1 DEF CopySenders, Goto, SInv, ReinsertionAdds, NoEntries
        <3>2. todo'[s] = (IF s \in Senders THEN cache[s] ELSE <<>>)
              /\ cache'[s] = (IF s \in Receivers THEN cache[s] ELSE <<>>)
            BY <2>1 DEF CopySenders, Of
        <3> QED
            BY <1>3, <3>1, <3>2, Holdings DEF Senders
    <2>2. CASE CopyReceivers
        <3>1. s \in Receivers => todo[s] = <<>>
            BY <2>2 DEF CopyReceivers, Goto, SInv, ReinsertionAdds
        <3>2. todo'[s] = (IF s \in Receivers THEN cache[s] ELSE todo[s])
              /\ cache'[s] = (IF s \in Senders THEN cache[s] ELSE <<>>)
            BY <2>2 DEF CopyReceivers, Of
        <3> QED
            BY <1>3, <3>1, <3>2, Holdings DEF Senders
    <2> QED
        BY <2>1, <2>2
<1> QED
    BY <1>1, <1>5, HeldOfStreams

\* The next copy is taken in hand.
LEMMA NextHeld ==
    ASSUME SInv, ReinsertNext
    PROVE  held' = held /\ stage' = stage /\ asked' = asked
PROOF
<1> USE ThreadFacts
<1>1. PICK s \in Streams :
          /\ todo[s] # <<>>
          /\ op' = [op EXCEPT !["reinsert"] =
                       [kind |-> "add", s |-> s, content |-> Head(todo[s]), step |-> 1]]
          /\ todo' = [todo EXCEPT ![s] = Tail(@)]
    BY DEF ReinsertNext
<1>2. /\ op \in [Workers -> Ops] /\ todo \in [Streams -> Seq(Contents)]
      /\ at \in [Threads -> Pcs]
      /\ cache' = cache /\ op["reinsert"] = NoOp /\ phase' = phase
      /\ at["reinsert"] = "next" /\ at'["reinsert"] = "add_check"
    BY DEF SInv, TInv, TypeOK, OpsOK, ReinsertNext, Goto, model, life, CallPcs, WorkerPcs
<1>3. op'["reinsert"] # NoOp /\ op'["reinsert"].s = s /\ op'["reinsert"].content = Head(todo[s])
    BY <1>1, <1>2 DEF NoOp
<1>4. \A r \in Streams : ~Copied(r) /\ (Copied(r)' <=> r = s)
    BY <1>2, <1>3 DEF Copied
<1>5. \A r \in Streams : r # s => todo'[r] = todo[r]
    BY <1>1, <1>2
<1>6. \A r \in Streams : held'[r] = held[r]
    BY <1>1, <1>2, <1>3, <1>4, <1>5, Holdings
<1>7. todo # NoEntries
    BY <1>1 DEF NoEntries
<1>8. stage' = stage
    BY <1>2, <1>7 DEF stage, Reinserting
<1>9. asked' = asked
    BY <1>1, <1>2 DEF asked
<1> QED
    BY <1>6, <1>8, <1>9, HeldOfStreams

\* Stops and starts are what the contract says, whatever is under way.
LEMMA LifeContract ==
    ASSUME NodeAssumption, SInv, StopShuts \/ Stopped \/ Start
    PROVE  Contract!Next \/ UNCHANGED Contract!vars
PROOF
<1> USE ThreadFacts
<1>1. UNCHANGED <<cache, todo, op>>
    BY DEF StopShuts, Stopped, Start, model
<1>2. held' = held /\ asked' = asked
    BY <1>1, SameHeld DEF asked
<1>3. held \in [Streams -> Contract!Usable]
    BY HeldTyped DEF Good, Contract!Usable
<1>4. at["reinsert"] = "idle" => ~Reinserting
    BY DEF Reinserting, SInv, ReinsertionAdds
<1>5. CASE StopShuts
    <2>1. /\ phase \in {"up", "starting", "failed"} /\ phase' = "stopping" /\ at' = at
          /\ UNCHANGED <<met, crossed>>
        BY <1>5 DEF StopShuts, past
    <2>2. phase # "starting" => ~Reinserting
        BY <1>4, <2>1 DEF SInv, PhaseTracked, Parked
    <2>3. Reinserting' <=> Reinserting
        BY <1>1, <2>1 DEF Reinserting
    <2>4. stage' = stage \/ (stage # "down" /\ stage' = "down")
        BY <2>1, <2>2, <2>3 DEF stage
    <2>5. stage' = stage \/ Contract!Stop
        BY <1>2, <1>3, <2>1, <2>4 DEF Contract!Stop
    <2> QED
        BY <1>2, <2>1, <2>5 DEF Contract!Next, Contract!vars
<1>6. CASE Stopped
    <2>1. /\ phase = "stopping" /\ phase' = "down" /\ at["reinsert"] = "idle"
          /\ UNCHANGED <<met, crossed>>
        BY <1>6 DEF Stopped, past
    <2>2. stage = "down" /\ stage' = "down"
        BY <1>4, <2>1 DEF stage
    <2> QED
        BY <1>2, <2>1, <2>2 DEF Contract!vars
<1>7. CASE Start
    <2>1. /\ stage = "down" /\ stage' = phase' /\ phase' \in {"starting", "failed"}
        BY <1>7 DEF Start, stage
    <2>2. /\ asked = Contract!NoCall <=> op["reconcile"] = NoOp
          /\ op["reconcile"] # NoOp => asked.s = op["reconcile"].s
        BY AskedIs DEF SInv
    <2>3. /\ met' = (asked # Contract!NoCall \/ met)
          /\ crossed' = IF asked = Contract!NoCall THEN crossed ELSE crossed \cup {asked.s}
        BY <1>7, <2>2 DEF Start
    <2>4. Contract!Begin(phase')
        BY <1>2, <2>1, <2>3 DEF Contract!Begin
    <2>5. Contract!Start \/ Contract!StartFails
        BY <2>1, <2>4 DEF Contract!Start, Contract!StartFails
    <2> QED
        BY <2>5 DEF Contract!Next
<1> QED
    BY <1>5, <1>6, <1>7

\* Every step of the Node is one of the contract, or none.
LEMMA ContractStep ==
    ASSUME NodeAssumption, SInv, SInv', StreamsTracked, KindTracked, [Next]_vars
    PROVE  Contract!Next \/ UNCHANGED Contract!vars
PROOF
<1> USE ThreadFacts
<1>1. /\ at \in [Threads -> Pcs] /\ op \in [Workers -> Ops]
      /\ phase \in {"up", "starting", "failed", "stopping", "down"}
    BY DEF SInv, TInv, TypeOK
<1>2. CASE \E t \in Workers : Step(t)
    BY <1>2, ReinsertionContract, CallContract
<1>3. CASE ActivationBegins \/ Activated \/ UNCHANGED vars
    <2>1. /\ UNCHANGED <<cache, todo, phase, op, met, crossed>>
          /\ at'["reinsert"] = at["reinsert"]
        BY <1>1, <1>3 DEF ActivationBegins, Activated, Goto, vars, model, life, past
    <2>2. held' = held /\ stage' = stage
        BY <2>1, SameStage, SameHeld
    <2> QED
        BY <2>1, <2>2 DEF Contract!vars, asked
<1>4. CASE Calls
    <2>1. PICK kind \in {"add", "update", "remove"}, s \in Streams, c \in Contents :
              Call(kind, s, c)
        BY <1>4 DEF Calls
    <2>2. /\ UNCHANGED <<cache, todo, phase>> /\ op'["reinsert"] = op["reinsert"]
          /\ at'["reinsert"] = at["reinsert"] /\ at["reconcile"] = "idle"
          /\ op'["reconcile"] = [kind |-> kind, s |-> s, content |-> c, step |-> 1]
          /\ met' = (stage = "starting")
          /\ crossed' = IF stage = "starting" THEN crossed \cup {s} ELSE crossed
        BY <1>1, <2>1 DEF Call, model, life
    <2>3. held' = held /\ stage' = stage
        BY <2>2, SameStage, SameHeld
    <2>4. asked = Contract!NoCall
        BY <2>2, AskedIs DEF SInv, CallPcs
    <2>5. PICK to \in Contents \cup {Absent} : to = IF kind = "remove" THEN Absent ELSE c
        OBVIOUS
    <2>6. op'["reconcile"] # NoOp
        BY <2>2 DEF NoOp
    <2>7. asked' = [s |-> s, to |-> to]
        BY <2>2, <2>5, <2>6 DEF asked
    <2>8. Contract!Ask(s, to)
        BY <2>2, <2>3, <2>4, <2>7 DEF Contract!Ask
    <2> QED
        BY <2>8 DEF Contract!Next
<1>5. CASE StopShuts \/ Stopped \/ Start
    BY <1>5, LifeContract
<1>6. CASE ReinsertNext
    BY <1>6, NextHeld DEF Contract!vars, ReinsertNext, past
<1>7. CASE InitDevice \/ CopySenders \/ CopyReceivers \/ Reinserted
    <2>1. held' = held /\ op' = op /\ UNCHANGED <<met, crossed>>
        <3>1. CASE InitDevice \/ Reinserted
            BY <3>1, SameHeld DEF InitDevice, Reinserted, model, past
        <3>2. CASE CopySenders \/ CopyReceivers
            BY <3>2, CopiesHeld DEF CopySenders, CopyReceivers, past
        <3> QED
            BY <1>7, <3>1, <3>2
    <2>2. asked' = asked
        BY <2>1 DEF asked
    <2>3. phase \in {"starting", "stopping"}
        BY <1>1, <1>7
        DEF SInv, PhaseTracked, Parked, InitDevice, CopySenders, CopyReceivers, Reinserted,
            Goto
    <2>4. \/ stage' = stage
          \/ stage # "down" /\ stage' = "down"
          \/ stage = "starting" /\ stage' = "up"
        <3>1. CASE InitDevice
            <4>1. phase' = phase /\ Reinserting
                BY <3>1 DEF InitDevice, life, Goto, Reinserting
            <4> QED
                BY <2>3, <4>1 DEF stage
        <3>2. CASE CopySenders \/ CopyReceivers
            <4>1. phase' = phase /\ Reinserting
                BY <3>2 DEF CopySenders, CopyReceivers, life, Goto, Reinserting
            <4> QED
                BY <2>3, <4>1 DEF stage
        <3>3. CASE Reinserted
            <4>1. /\ todo = NoEntries /\ todo' = NoEntries
                  /\ at["reinsert"] = "next" /\ at'["reinsert"] = "idle"
                  /\ phase' = IF phase = "starting" THEN "up" ELSE phase
                BY <1>1, <3>3 DEF Reinserted, Goto
            <4> QED
                BY <2>3, <4>1 DEF stage, Reinserting
        <3> QED
            BY <1>7, <3>1, <3>2, <3>3
    <2>5. held \in [Streams -> Contract!Usable]
        BY HeldTyped DEF Good, Contract!Usable
    <2>6. CASE stage' = stage
        BY <2>1, <2>2, <2>6 DEF Contract!vars
    <2>7. CASE stage # "down" /\ stage' = "down"
        <3>1. Contract!Stop
            BY <2>1, <2>2, <2>5, <2>7 DEF Contract!Stop
        <3> QED
            BY <3>1 DEF Contract!Next
    <2>8. CASE stage = "starting" /\ stage' = "up"
        <3>1. Contract!Ready
            BY <2>1, <2>2, <2>8 DEF Contract!Ready
        <3> QED
            BY <3>1 DEF Contract!Next
    <2> QED
        BY <2>4, <2>6, <2>7, <2>8
<1> QED
    BY <1>2, <1>3, <1>4, <1>5, <1>6, <1>7 DEF Next, Reinsert

\* A Node that starts for the first time holds no stream.
LEMMA ContractInit == Init => Contract!Init
PROOF
<1> SUFFICES ASSUME Init
             PROVE  Contract!Init
    OBVIOUS
<1>1. /\ op["reinsert"] = NoOp /\ op["reconcile"] = NoOp
      /\ \A s \in Streams : cache[s] = <<>> /\ todo[s] = <<>>
    BY ThreadFacts DEF Init, NoEntries
<1>2. held = [s \in Streams |-> Absent]
    BY <1>1, Holdings, HeldOfStreams DEF Copied
<1>3. stage = "starting" /\ asked = Contract!NoCall
    BY <1>1 DEF Init, stage, asked, Contract!NoCall
<1> QED
    BY <1>2, <1>3 DEF Init, Contract!Init

-----------------------------------------------------------------------------
(* The theorems                                                            *)

\* The inductive invariant.
LEMMA Invariance ==
    ASSUME NodeAssumption
    PROVE  Spec => []EInv
PROOF
<1> USE ThreadFacts
<1>1. Init => SInv /\ StreamsTracked
    <2> SUFFICES ASSUME Init
                 PROVE  SInv /\ StreamsTracked
        OBVIOUS
    <2>1. TInv
        BY InitTypes
    <2>2. /\ at["reinsert"] = "device" /\ at["reconcile"] = "idle" /\ at["activate"] = "idle"
          /\ phase = "starting" /\ stage = "starting" /\ shutdown = FALSE /\ todo = NoEntries
        BY DEF Init, stage
    <2>3. PhaseTracked /\ LocksTracked /\ ReinsertionAdds
        BY <2>2
        DEF PhaseTracked, Parked, LocksTracked, Holding, ReinsertionAdds, CallPcs, WorkerPcs
    <2>4. OneCopy
        BY <2>2
        DEF Init, OneCopy, UsableOnly, CallTracked, NoEntries, Slots, Adding, Adds, CallPcs,
            WorkerPcs
    <2>5. StreamsTracked
        BY <2>2
        DEF Init, StreamsTracked, Tracked, Busy, NoResources, NoEntries, Waiting, Has, CallPcs,
            WorkerPcs
    <2> QED
        BY <2>1, <2>3, <2>4, <2>5 DEF SInv
<1>2. SInv /\ StreamsTracked /\ [Next]_vars => (SInv /\ StreamsTracked)'
    <2> SUFFICES ASSUME SInv, StreamsTracked, [Next]_vars
                 PROVE  (SInv /\ StreamsTracked)'
        OBVIOUS
    <2>1. CASE UNCHANGED vars
        <3> USE <2>1 DEF vars, model, locks, life, past
        <3>1. TInv'
            BY DEF SInv, TInv, TypeOK, OpsOK
        <3>2. stage' = stage
            BY SameStage
        <3>3. (PhaseTracked /\ LocksTracked /\ ReinsertionAdds)'
            BY <3>2 DEF SInv, PhaseTracked, Parked, LocksTracked, ReinsertionAdds
        <3>4. OneCopy'
            BY DEF SInv, OneCopy, UsableOnly, CallTracked, Adding
        <3>5. \A r \in Streams : /\ In(r)' = In(r) /\ Out(r)' = Out(r)
                                 /\ Waiting(r)' = Waiting(r)
                                 /\ Has(r, Absent, {})' = Has(r, Absent, {})
            BY DEF In, Out, Waiting, Has
        <3>6. \A t \in Workers : Done(t) => Done(t)'
            BY DEF Done, In, Out, Has
        <3>7. \A r \in Streams : Tracked(r) => Tracked(r)'
            BY <3>5, <3>6 DEF Tracked, Busy
        <3>8. StreamsTracked'
            BY <3>7 DEF StreamsTracked
        <3> QED
            BY <3>1, <3>3, <3>4, <3>8 DEF SInv
    <2>2. CASE Next
        <3>1. TInv'
            BY <2>2, NextTypes DEF SInv, PhaseTracked
        <3>2. (PhaseTracked /\ LocksTracked /\ ReinsertionAdds /\ OneCopy)'
            BY <2>2, PhaseHolds, LocksHold, ReinsertionHolds, OneCopyHolds DEF SInv
        <3> QED
            BY <2>2, <3>1, <3>2, StreamsHold DEF SInv
    <2> QED
        BY <2>1, <2>2
<1>3. SInv /\ StreamsTracked /\ phase \in {"up", "starting"} => PartsTracked
    BY PartsAccounted
<1>4. SInv /\ PartsTracked /\ [Next]_vars /\ ~(phase \in {"up", "starting"})' =>
          PartsTracked'
    <2>1. UNCHANGED vars /\ PartsTracked => PartsTracked'
        BY DEF vars, model, life, past, PartsTracked, SendersAreComplete, Underway
    <2> QED
        BY <2>1, PartsHold
<1>5. Init => phase \in {"up", "starting"}
    BY DEF Init
<1> QED
    BY <1>1, <1>2, <1>3, <1>4, <1>5, PTL DEF Spec, EInv

\* CacheMatchesModel for any streams, and calls and restarts that come at any time:
\* whatever failed and whatever was done to a Node that was down, a Node that is up
\* has what its caches say, once and completely, and nothing else.
THEOREM CacheMatches ==
    ASSUME NodeAssumption
    PROVE  Spec => []CacheMatchesModel
PROOF
<1>1. EInv => CacheMatchesModel
    <2> SUFFICES ASSUME EInv, Quiet, NEW s \in Streams \ crossed
                 PROVE  \/ /\ Len(cache[s]) = 1
                           /\ Whole(s) /\ ids[s] = 1 /\ s \in device
                        \/ cache[s] = <<>> /\ Gone(s) /\ ids[s] = 0 /\ s \notin device
        BY DEF CacheMatchesModel
    <2>1. /\ In(s) \/ Out(s)
          /\ s \in device <=> ids[s] > 0
        BY QuietStreams
    <2>2. CASE In(s)
        <3>1. cache[s] \in Slots /\ cache[s] # <<>>
            BY <2>2 DEF In, EInv, SInv, OneCopy
        <3>2. Head(cache[s]) # Absent /\ Len(cache[s]) = 1
            BY <3>1, SlotFacts DEF NodeAssumption, Good
        <3> QED
            BY <2>1, <2>2, <3>2, Orders DEF In, Has, Whole
    <2>3. CASE Out(s)
        BY <2>1, <2>3 DEF Out, Has, Gone
    <2> QED
        BY <2>1, <2>2, <2>3
<1> QED
    BY <1>1, Invariance, PTL

\* NoHalfUpdate likewise: the resources of a stream are made from one configuration,
\* the one a restart would make them from.
THEOREM NothingHalfUpdated ==
    ASSUME NodeAssumption
    PROVE  Spec => []NoHalfUpdate
PROOF
<1>1. EInv => NoHalfUpdate
    <2> SUFFICES ASSUME EInv, Quiet, NEW s \in Streams \ crossed, NEW p \in Parts, Cached(s)
                 PROVE  resources[s][p] \in {Absent, Head(cache[s])}
        BY DEF NoHalfUpdate
    <2>1. In(s)
        BY QuietStreams DEF Cached, Out
    <2> QED
        BY <2>1 DEF In, Has
<1> QED
    BY <1>1, Invariance, PTL

\* SendersAreComplete at every moment, halfway through a call, while the Node starts
\* and while it shuts down under a call.
THEOREM SendersComplete ==
    ASSUME NodeAssumption
    PROVE  Spec => []SendersAreComplete
PROOF
<1>1. EInv => SendersAreComplete
    BY DEF EInv, PartsTracked
<1> QED
    BY <1>1, Invariance, PTL

\* RestartsKeepStreams for any number of calls and restarts: no step but the end of a
\* removal, a stop during the reinsertion, and a reinsertion that a call has crossed
\* loses a stream.
THEOREM StreamsKept ==
    ASSUME NodeAssumption
    PROVE  Spec => RestartsKeepStreams
PROOF
<1>1. EInv /\ [Next]_vars =>
          [\A s \in Streams :
              Kept(s) /\ ~Kept(s)' =>
                  \/ at["reconcile"] = "uncaching" /\ op["reconcile"].s = s
                  \/ at["reinsert"] = "inserting" /\ shutdown
                  \/ op["reinsert"] # NoOp /\ crossed # {}]_vars
    BY KeptStep DEF EInv
<1> QED
    BY <1>1, Invariance, PTL DEF Spec, RestartsKeepStreams

\* Every call is at the steps of its kind.
LEMMA KindsTracked ==
    ASSUME NodeAssumption
    PROVE  Spec => []KindTracked
PROOF
<1>1. Init => KindTracked
    BY ThreadFacts DEF Init, KindTracked, CallPcs
<1>2. EInv /\ KindTracked /\ [Next]_vars => KindTracked'
    BY KindHolds DEF EInv, SInv
<1> QED
    BY <1>1, <1>2, Invariance, PTL DEF Spec

\* ImplementsNodeContract for any streams, configurations and number of calls and
\* restarts, of which any may overlap: what App is built on is what the caches, the
\* copies, the locks and the resources come to.
THEOREM NodeKeepsContract ==
    ASSUME NodeAssumption
    PROVE  Spec => ImplementsNodeContract
PROOF
<1>1. Init => Contract!Init
    BY ContractInit
<1>2. EInv /\ EInv' /\ KindTracked /\ [Next]_vars => [Contract!Next]_(Contract!vars)
    BY ContractStep DEF EInv
<1> QED
    BY <1>1, <1>2, Invariance, KindsTracked, PTL
    DEF Spec, Contract!Spec, ImplementsNodeContract

\* CallsDoAsTold likewise: a call that has not met a starting Node neither fails
\* without a reason nor half does what it was asked for, whenever a stop comes.
THEOREM CallsDoIt ==
    ASSUME NodeAssumption
    PROVE  Spec => CallsDoAsTold
PROOF
<1> DEFINE AsTold ==
        LET call == op["reconcile"]
            s == call.s
        IN  \/ met
            \/ held'[s] = IF call.kind = "remove" THEN Absent ELSE call.content
            \/ /\ UNCHANGED held
               /\ call.kind # "remove"
               /\ \/ call.content \in Unusable
                  \/ s \in crossed
                  \/ (shutdown \/ phase = "failed") /\ ~(Cached(s) /\ Whole(s))
<1>1. ASSUME EInv, KindTracked, [Next]_vars,
             at["reconcile"] # "idle", at'["reconcile"] = "idle"
      PROVE  AsTold
    <2>1. Ended
        BY <1>1, CallOver DEF EInv
    <2>2. op["reconcile"].s \in Streams
        BY <1>1, CallInProgress, ThreadFacts DEF EInv, SInv, TInv, TypeOK, CallPcs
    <2>3. held = [s \in Streams |-> held[s]]
        BY HeldOfStreams
    <2> QED
        BY <2>1, <2>2, <2>3 DEF Ended, Told
<1> HIDE DEF AsTold
<1>2. EInv /\ KindTracked /\ [Next]_vars =>
          [at["reconcile"] # "idle" /\ at'["reconcile"] = "idle" => AsTold]_vars
    BY <1>1
<1>3. Spec => [][at["reconcile"] # "idle" /\ at'["reconcile"] = "idle" => AsTold]_vars
    BY <1>2, KindsTracked, Invariance, PTL DEF Spec
<1> QED
    BY <1>3 DEF CallsDoAsTold, AsTold

\* A step of the reinsertion that is no step of a call goes on to another.
LEMMA ReinsertionGoesOn ==
    ASSUME TInv, NEW t \in Workers, Step(t)
    PROVE  /\ phase' = phase
           /\ at["reinsert"] \in {"device", "idle"} => at'["reinsert"] = at["reinsert"]
           /\ at["reinsert"] \notin {"device", "idle"} =>
                 at'["reinsert"] \notin {"device", "idle"}
PROOF
<1> USE ThreadFacts
<1>1. at \in [Threads -> Pcs]
    BY DEF TInv, TypeOK
<1>2. /\ phase' = phase /\ at[t] \in CallPcs /\ at' = [at EXCEPT ![t] = at'[t]]
      /\ at'[t] \in CallPcs \/ at'[t] = IF t = "reinsert" THEN "next" ELSE "idle"
    BY StepMoves
<1> QED
    BY <1>1, <1>2 DEF CallPcs, WorkerPcs

\* ImplementsNodePhases for all constants.
THEOREM ResourcesKeepPhases ==
    ASSUME NodeAssumption
    PROVE  Spec => ImplementsNodePhases
PROOF
<1>1. Init => Phases!Init
    BY ThreadFacts DEF Init, Phases!Init, servicePhase
<1>2. TInv /\ Parked /\ [Next]_vars => [Phases!Next]_servicePhase
    <2> SUFFICES ASSUME TInv, Parked, [Next]_vars
                 PROVE  Phases!Next \/ UNCHANGED servicePhase
        OBVIOUS
    <2> USE ThreadFacts
    <2>1. at \in [Threads -> Pcs] /\ phase \in {"up", "starting", "failed", "stopping", "down"}
        BY DEF TInv, TypeOK
    <2>2. CASE \E t \in Workers : Step(t)
        BY <2>1, <2>2, ReinsertionGoesOn DEF servicePhase
    <2>3. CASE Calls \/ ActivationBegins \/ Activated \/ UNCHANGED vars
        <3>1. phase' = phase /\ at'["reinsert"] = at["reinsert"]
            BY <2>1, <2>3 DEF Calls, Call, ActivationBegins, Activated, Goto, vars, life
        <3> QED
            BY <3>1 DEF servicePhase
    <2>4. CASE StopShuts
        <3>1. /\ phase \in {"up", "starting", "failed"} /\ phase' = "stopping"
              /\ at' = at
            BY <2>4 DEF StopShuts
        <3> QED
            BY <3>1 DEF servicePhase, Phases!Next, Phases!Shut, Parked
    <2>5. CASE Stopped
        BY <2>5 DEF Stopped, servicePhase, Phases!Next, Phases!Joined
    <2>6. CASE Start
        BY <2>1, <2>6 DEF Start, servicePhase, Phases!Next, Phases!Start
    <2>7. CASE InitDevice
        <3>1. /\ phase' = phase /\ at["reinsert"] = "device"
              /\ at'["reinsert"] \in {"next", "copy_senders"}
            BY <2>1, <2>7 DEF InitDevice, Goto, life
        <3> QED
            BY <2>1, <3>1 DEF servicePhase, Phases!Next, Phases!Serve
    <2>8. CASE CopySenders \/ CopyReceivers \/ ReinsertNext
        <3>1. /\ phase' = phase
              /\ at["reinsert"] \in {"copy_senders", "copy_receivers", "next"}
              /\ at'["reinsert"] \in {"copy_receivers", "next", "add_check"}
            BY <2>1, <2>8 DEF CopySenders, CopyReceivers, ReinsertNext, Goto, life
        <3> QED
            BY <2>1, <3>1 DEF servicePhase
    <2>9. CASE Reinserted
        <3>1. /\ at["reinsert"] = "next" /\ at'["reinsert"] = "idle"
              /\ phase' = IF phase = "starting" THEN "up" ELSE phase
            BY <2>1, <2>9 DEF Reinserted, Goto
        <3> QED
            BY <2>1, <3>1 DEF servicePhase, Phases!Next, Phases!Close
    <2> QED
        BY <2>2, <2>3, <2>4, <2>5, <2>6, <2>7, <2>8, <2>9 DEF Next, Reinsert
<1>3. Spec => []EInv
    BY Invariance
<1>4. EInv => TInv /\ Parked
    BY DEF EInv, SInv, PhaseTracked
<1> QED
    BY <1>1, <1>2, <1>3, <1>4, PTL DEF Spec, Phases!Spec, ImplementsNodePhases
=====
