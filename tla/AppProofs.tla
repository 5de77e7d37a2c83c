------------------------------ MODULE AppProofs ------------------------------
(***************************************************************************)
(* Proofs about App, for every set of streams, of configurations and of    *)
(* revisions, and for every value of the bounds.                           *)
(***************************************************************************)
EXTENDS App, TLAPS

USE SnapshotAssumption, AppAssumption

-----------------------------------------------------------------------------
(* What the operators App is built from return.                            *)

LEMMA EmptyType == EmptySnapshot \in Snapshots
BY DEF EmptySnapshot, Snapshots

\* StateStore's methods keep the store's fields in their types.
LEMMA StoreTypes ==
    ASSUME NEW st \in Stores
    PROVE  /\ KnownStreams(st) \in Snapshots
           /\ \A state \in DaemonStates : SetDaemonState(st, state) \in Stores
           /\ \A rev \in Nat : SetLastSeenRevision(st, rev) \in Stores
           /\ MarkSnapshotSignalReceived(st) \in Stores
           /\ \A rev \in Nat, snapshot \in Snapshots :
                 MarkApplySuccess(st, rev, snapshot) \in Stores
           /\ MarkDrained(st) \in Stores
           /\ ClearLastSnapshot(st) \in Stores
           /\ ConsumePendingDrainNotification(st) \in Stores
           /\ st.last_seen_revision \in Nat
           /\ st.last_applied_revision \in Nat
           /\ st.protection_mode \in BOOLEAN
           /\ st.streams_registered \in BOOLEAN
<1> USE DEF Stores
<1>1. KnownStreams(st) \in Snapshots
  BY EmptyType DEF KnownStreams
<1>2. \A state \in DaemonStates : SetDaemonState(st, state) \in Stores
  BY DEF SetDaemonState
<1>3. \A rev \in Nat : SetLastSeenRevision(st, rev) \in Stores
  BY DEF SetLastSeenRevision
<1>4. MarkSnapshotSignalReceived(st) \in Stores
  BY DEF MarkSnapshotSignalReceived
<1>5. \A rev \in Nat, snapshot \in Snapshots :
         MarkApplySuccess(st, rev, snapshot) \in Stores
  BY DEF MarkApplySuccess, HasAnyStreams
<1>6. MarkDrained(st) \in Stores /\ ClearLastSnapshot(st) \in Stores
  BY DEF MarkDrained, ClearLastSnapshot
<1>7. ConsumePendingDrainNotification(st) \in Stores
  BY DEF ConsumePendingDrainNotification
<1> QED
  BY <1>1, <1>2, <1>3, <1>4, <1>5, <1>6, <1>7

\* The work of a sync or a drain keeps its type in each of the changes made to it.
LEMMA JobTypes ==
    /\ NoJob \in Jobs
    /\ \A j \in Jobs :
          /\ j.revision \in Nat /\ j.current \in Snapshots /\ j.next \in Snapshots
          /\ j.todo \in SUBSET Streams /\ j.done \in SUBSET Streams
          /\ \A rev \in Nat : [j EXCEPT !.revision = rev] \in Jobs
          /\ \A snapshot \in Snapshots :
                /\ [j EXCEPT !.current = snapshot] \in Jobs
                /\ \A todo \in SUBSET Streams :
                      /\ [j EXCEPT !.next = snapshot, !.todo = todo] \in Jobs
                      /\ [j EXCEPT !.current = snapshot, !.todo = todo] \in Jobs
          /\ \A todo, done \in SUBSET Streams :
                /\ [j EXCEPT !.todo = todo] \in Jobs
                /\ [j EXCEPT !.done = done] \in Jobs
                /\ [j EXCEPT !.todo = todo, !.done = done] \in Jobs
BY EmptyType DEF Jobs, NoJob

\* A bound that is checked first is never passed.
LEMMA BudgetTypes ==
    /\ budget \in Budgets /\ budget.changes < MaxChanges
          => [budget EXCEPT !.changes = @ + 1] \in Budgets
    /\ budget \in Budgets /\ budget.messages < MaxMessages
          => [budget EXCEPT !.messages = @ + 1] \in Budgets
    /\ budget \in Budgets /\ budget.connects < MaxConnects
          => [budget EXCEPT !.connects = @ + 1] \in Budgets
    /\ budget \in Budgets /\ budget.restarts < MaxRestarts
          => [budget EXCEPT !.restarts = @ + 1] \in Budgets
BY DEF Budgets


-----------------------------------------------------------------------------
(* The two contracts App is built on.                                      *)

\* Every step of theirs keeps their variables in their types.
LEMMA ClientTypes == Client!TypeOK /\ [Client!Next]_client => Client!TypeOK'
<1> SUFFICES ASSUME Client!TypeOK, [Client!Next]_client
             PROVE  Client!TypeOK'
  OBVIOUS
<1>1. /\ connected \in BOOLEAN /\ stopping \in BOOLEAN /\ ended \in BOOLEAN
      /\ calling \in {"none", "on_connected", "on_disconnected"}
  BY DEF Client!TypeOK
<1>2. connected' \in BOOLEAN /\ stopping' \in BOOLEAN /\ ended' \in BOOLEAN
  BY <1>1 DEF Client!Next, Client!Opens, Client!Lost, Client!Closes,
              Client!Returns, Client!Stops, Client!Ends, client
<1>3. calling' \in {"none", "on_connected", "on_disconnected"}
  BY <1>1 DEF Client!Next, Client!Opens, Client!Lost, Client!Closes,
              Client!Returns, Client!Stops, Client!Ends, client
<1> QED
  BY <1>2, <1>3 DEF Client!TypeOK

\* The actions of NodeContract keep its types, whoever takes them.
LEMMA NodeTypes == Node!TypeOK /\ [Node!Next]_node => Node!TypeOK'
<1> SUFFICES ASSUME Node!TypeOK, [Node!Next]_node
             PROVE  Node!TypeOK'
  OBVIOUS
<1> USE DEF Node!TypeOK
<1>1. ASSUME NEW s \in Streams, NEW to \in Contents \cup {Absent}, Node!Ask(s, to)
      PROVE  Node!TypeOK'
  BY <1>1 DEF Node!Ask
<1>2. asked # Node!NoCall => asked.s \in Streams
  OBVIOUS
<1>3. ASSUME Node!Done PROVE Node!TypeOK'
  BY <1>2, <1>3 DEF Node!Done, Node!Answer
<1>4. ASSUME Node!Refuse \/ Node!Missed PROVE Node!TypeOK'
  BY <1>4 DEF Node!Refuse, Node!Missed, Node!Answer
<1>5. ASSUME Node!Confuse \/ Node!Stop \/ Node!Ready PROVE Node!TypeOK'
  BY <1>5 DEF Node!Confuse, Node!Stop, Node!Ready
<1>6. ASSUME Node!Start \/ Node!StartFails PROVE Node!TypeOK'
  BY <1>2, <1>6 DEF Node!Start, Node!StartFails, Node!Begin
<1>7. CASE UNCHANGED node
  BY <1>7 DEF node
<1> QED
  BY <1>1, <1>3, <1>4, <1>5, <1>6, <1>7 DEF Node!Next

\* What App does with the client and with the Node is a step of each contract.
LEMMA ContractSteps ==
    TypeOK /\ [Next]_vars => [Client!Next]_client /\ [Node!Next]_node
<1> SUFFICES ASSUME TypeOK, [Next]_vars
             PROVE  [Client!Next]_client /\ [Node!Next]_node
  OBVIOUS
<1>1. ASSUME NEW s \in Streams, CallNode(s)
      PROVE  [Client!Next]_client /\ [Node!Next]_node
  <2>1. job.next[s] \in Contents \cup {Absent}
    <3>1. job.next \in Snapshots
      BY JobTypes DEF TypeOK
    <3> QED
      BY <3>1 DEF Snapshots
  <2> QED
    BY <1>1, <2>1 DEF CallNode, Node!Next, client
<1>2. ASSUME WorldChanges
      PROVE  [Client!Next]_client /\ [Node!Next]_node
  BY <1>2 DEF WorldChanges, Client!Next, Node!Next, client, node
<1>3. ASSUME Message
      PROVE  [Client!Next]_client /\ [Node!Next]_node
  BY <1>3 DEF Message, MessageArrives, ForceSync, ReadStatus, EnterSchedule,
              Leave, Client!Next, Node!Next, client, node
<1>4. ASSUME ConnectionOpens \/ ConnectionLost \/ ConnectionCloses \/ ClientEnds
      PROVE  [Client!Next]_client /\ [Node!Next]_node
  BY <1>4 DEF ConnectionOpens, ConnectionLost, ConnectionCloses, ClientEnds,
              Client!Next, Node!Next, client, node
<1>5. ASSUME OnConnected
      PROVE  [Client!Next]_client /\ [Node!Next]_node
  BY <1>5 DEF OnConnected, HandleWsConnected, PickRevision, ReadStatus,
              EnterSchedule, Leave, Client!Next, Node!Next, client, node
<1>6. ASSUME OnDisconnected
      PROVE  [Client!Next]_client /\ [Node!Next]_node
  BY <1>6 DEF OnDisconnected, HandleWsDisconnected, DrainBegins, Drained,
              DrainForgets, DrainEnds, Client!Next, Node!Next, client, node
<1>7. ASSUME CallEnds
      PROVE  [Client!Next]_client /\ [Node!Next]_node
  BY <1>7 DEF CallEnds, CallDone, CallMissed, CallThrows, Client!Next,
              Node!Next, client, node
<1>8. ASSUME NodeConfused \/ NodeReady
      PROVE  [Client!Next]_client /\ [Node!Next]_node
  BY <1>8 DEF NodeConfused, NodeReady, Client!Next, Node!Next, client, node
<1>9. ASSUME WakeUp \/ DebounceEnds \/ DelayEnds \/ SyncLoopStops \/ CheckStop
      PROVE  [Client!Next]_client /\ [Node!Next]_node
  BY <1>9 DEF WakeUp, DebounceEnds, DelayEnds, TakeRequest, SyncLoopStops,
              CheckStop, Client!Next, Node!Next, client, node
<1>10. ASSUME BeginFetch \/ FetchReplies \/ FetchFails
      PROVE  [Client!Next]_client /\ [Node!Next]_node
  BY <1>10 DEF BeginFetch, FetchReplies, FetchFails, Client!Next, Node!Next,
               client, node
<1>11. ASSUME SyncSucceeds \/ ReportFailure \/ RetryLater
      PROVE  [Client!Next]_client /\ [Node!Next]_node
  BY <1>11 DEF SyncSucceeds, ReportFailure, RetryLater, Client!Next,
               Node!Next, client, node
<1>12. ASSUME Http
      PROVE  [Client!Next]_client /\ [Node!Next]_node
  BY <1>12 DEF Http, RestartStop, RestartClears, RestartStarts, RestartFails,
               PickRevision, ReadStatus, EnterSchedule, Leave, Client!Next,
               Node!Next, client, node
<1>13. ASSUME Main
      PROVE  [Client!Next]_client /\ [Node!Next]_node
  BY <1>13 DEF Main, ConnectingWs, RequestStop, StopWs, Joined, StopNode,
               Client!Next, Node!Next, client, node
<1>14. CASE UNCHANGED vars
  BY <1>14 DEF vars, client, node
<1> QED
  BY <1>1, <1>2, <1>3, <1>4, <1>5, <1>6, <1>7, <1>8, <1>9, <1>10, <1>11,
     <1>12, <1>13, <1>14
     DEF Next, Connecting, Sync, Calls

-----------------------------------------------------------------------------
(* Type correctness.                                                       *)

\* TypeOK but for the variables of the client and of the Node.
OwnTypes ==
    /\ world \in Snapshots /\ budget \in Budgets /\ store \in Stores
    /\ sync_pending \in BOOLEAN /\ force_sync_pending \in BOOLEAN
    /\ pending_revision \in Nat /\ retry_armed \in BOOLEAN
    /\ reconcile_mutex \in {"free", "sync", "receive"}
    /\ stop_requested \in BOOLEAN
    /\ at \in Pcs
    /\ call \in [Callers -> [revision : Nat, stale : BOOLEAN]]
    /\ job \in Jobs
    /\ owed \in BOOLEAN /\ covered \in BOOLEAN
    /\ strayed \in SUBSET Streams

\* Taking the request keeps the types.
LEMMA TakeRequestType ==
    ASSUME OwnTypes, TakeRequest
    PROVE  OwnTypes'
<1> USE DEF OwnTypes, TakeRequest, external, history
<1>1. job' \in Jobs
  BY JobTypes
<1>2. at' \in Pcs
  BY DEF Pcs
<1> QED
  BY <1>1, <1>2

\* What the Node loses or changes unasked goes astray, and is no longer done.
LEMMA DisturbsType ==
    ASSUME OwnTypes, NodeDisturbs
    PROVE  /\ job' \in Jobs /\ strayed' \in SUBSET Streams
           /\ UNCHANGED <<owed, covered>>
<1> DEFINE disturbed == {s \in Streams : held'[s] # held[s]}
<1>1. /\ strayed' = strayed \cup disturbed
      /\ job' = [job EXCEPT !.done = @ \ disturbed]
      /\ UNCHANGED <<owed, covered>>
  BY DEF NodeDisturbs
<1>2. disturbed \in SUBSET Streams
  OBVIOUS
<1> HIDE DEF disturbed
<1>3. job.done \ disturbed \in SUBSET Streams
  BY JobTypes DEF OwnTypes
<1>4. job' \in Jobs
  BY <1>1, <1>3, JobTypes DEF OwnTypes
<1> QED
  BY <1>1, <1>2, <1>4 DEF OwnTypes

\* The stream of a call is one.
LEMMA AskedStream ==
    ASSUME Node!TypeOK, Node!Answer
    PROVE  asked.s \in Streams /\ asked.to \in Contents \cup {Absent}
BY DEF Node!TypeOK, Node!Answer

\* Each step keeps the types of what App has beside the client and the Node.
LEMMA OwnStep == OwnTypes /\ Node!TypeOK /\ [Next]_vars => OwnTypes'
<1> SUFFICES ASSUME OwnTypes, Node!TypeOK, [Next]_vars
             PROVE  OwnTypes'
  OBVIOUS
<1> USE EmptyType
    DEF OwnTypes, Goto, external, request, history, DaemonStates
<1>1. ASSUME WorldChanges PROVE OwnTypes'
  <2> USE <1>1 DEF WorldChanges
  <2>1. budget' \in Budgets
    BY BudgetTypes
  <2> QED
    BY <2>1
<1>2. ASSUME MessageArrives PROVE OwnTypes'
  <2>1. PICK rev \in Revisions :
         /\ store' = SetLastSeenRevision(MarkSnapshotSignalReceived(store), rev)
         /\ call' = [call EXCEPT !["message"].revision = rev]
    BY <1>2 DEF MessageArrives
  <2>2. rev \in Nat
    OBVIOUS
  <2>3. store' \in Stores
    BY <2>1, <2>2, StoreTypes
  <2>4. call' \in [Callers -> [revision : Nat, stale : BOOLEAN]]
    BY <2>1, <2>2
  <2>5. budget' \in Budgets
    BY <1>2, BudgetTypes DEF MessageArrives
  <2>6. at' \in Pcs
    BY <1>2 DEF MessageArrives, Pcs, Callers
  <2>7. /\ owed' = TRUE /\ covered' = FALSE
        /\ UNCHANGED <<world, request, reconcile_mutex, stop_requested, job,
                       strayed>>
    BY <1>2 DEF MessageArrives
  <2> QED
    BY <2>3, <2>4, <2>5, <2>6, <2>7
<1>3. ASSUME ForceSync PROVE OwnTypes'
  <2> USE <1>3 DEF ForceSync
  <2>1. at' \in Pcs
    BY DEF Pcs, Callers
  <2> QED
    BY <2>1
<1>4. ASSUME NEW c \in Callers, ReadStatus(c) PROVE OwnTypes'
  <2> USE <1>4 DEF ReadStatus
  <2>1. call' \in [Callers -> [revision : Nat, stale : BOOLEAN]]
    BY StoreTypes
  <2>2. at' \in Pcs
    BY DEF Pcs, Callers
  <2> QED
    BY <2>1, <2>2
<1>5. ASSUME NEW c \in Callers, EnterSchedule(c) PROVE OwnTypes'
  <2>1. call' \in [Callers -> [revision : Nat, stale : BOOLEAN]]
    BY <1>5 DEF EnterSchedule, Leave
  <2>2. at' \in Pcs
    BY <1>5 DEF EnterSchedule, Leave, Pcs, Callers
  <2>3. /\ pending_revision' \in Nat
        /\ sync_pending' \in BOOLEAN /\ retry_armed' \in BOOLEAN
    <3>1. \/ UNCHANGED <<sync_pending, pending_revision, retry_armed>>
          \/ RequestSync(call[c].revision)
      BY <1>5 DEF EnterSchedule
    <3>2. call[c].revision \in Nat
      OBVIOUS
    <3> QED
      BY <3>1, <3>2 DEF RequestSync
  <2>4. UNCHANGED <<external, store, force_sync_pending, reconcile_mutex,
                    stop_requested, job, history>>
    BY <1>5 DEF EnterSchedule
  <2> QED
    BY <2>1, <2>2, <2>3, <2>4
<1>6. ASSUME NEW c \in Callers, PickRevision(c) PROVE OwnTypes'
  <2> USE <1>6 DEF PickRevision
  <2>1. call' \in [Callers -> [revision : Nat, stale : BOOLEAN]]
    BY StoreTypes
  <2>2. at' \in Pcs
    BY DEF Pcs, Callers
  <2> QED
    BY <2>1, <2>2
<1>7. ASSUME ConnectionOpens PROVE OwnTypes'
  <2> USE <1>7 DEF ConnectionOpens
  <2>1. budget' \in Budgets
    BY BudgetTypes
  <2>2. at' \in Pcs
    BY DEF Pcs, Callers
  <2> QED
    BY <2>1, <2>2
<1>8. ASSUME ConnectionLost PROVE OwnTypes'
  BY <1>8 DEF ConnectionLost
<1>9. ASSUME HandleWsConnected PROVE OwnTypes'
  <2> USE <1>9 DEF HandleWsConnected
  <2>1. store' \in Stores
    BY StoreTypes
  <2>2. at' \in Pcs
    BY DEF Pcs, Callers
  <2> QED
    BY <2>1, <2>2
<1>10. ASSUME ConnectionCloses PROVE OwnTypes'
  <2> USE <1>10 DEF ConnectionCloses
  <2>1. at' \in Pcs
    BY DEF Pcs, Callers
  <2> QED
    BY <2>1
<1>11. ASSUME HandleWsDisconnected PROVE OwnTypes'
  <2> USE <1>11 DEF HandleWsDisconnected
  <2>1. store' \in Stores
    BY StoreTypes
  <2>2. at' \in Pcs
    BY DEF Pcs, Callers
  <2> QED
    BY <2>1, <2>2
<1>12. ASSUME ClientEnds PROVE OwnTypes'
  BY <1>12 DEF ClientEnds
<1>13. ASSUME NEW s \in Streams, CallNode(s) PROVE OwnTypes'
  BY <1>13 DEF CallNode
<1>14. ASSUME CallDone PROVE OwnTypes'
  <2> USE <1>14 DEF CallDone
  <2>1. asked.s \in Streams
    BY AskedStream DEF Node!Done
  <2>2. job' \in Jobs
    BY <2>1, JobTypes
  <2> QED
    BY <2>1, <2>2
<1>15. ASSUME CallMissed PROVE OwnTypes'
  <2> USE <1>15 DEF CallMissed
  <2>1. asked.s \in Streams
    BY AskedStream DEF Node!Missed
  <2>2. job' \in Jobs
    BY <2>1, JobTypes
  <2>3. strayed' \in SUBSET Streams
    BY <2>1
  <2> QED
    BY <2>1, <2>2, <2>3
<1>16. ASSUME CallThrows PROVE OwnTypes'
  <2> USE <1>16 DEF CallThrows
  <2>1. at' \in Pcs
    BY DEF Pcs, Callers
  <2> QED
    BY <2>1
<1>17. ASSUME NodeConfused PROVE OwnTypes'
  <2> USE <1>17 DEF NodeConfused
  <2>1. job' \in Jobs /\ strayed' \in SUBSET Streams /\ UNCHANGED <<owed, covered>>
    BY DisturbsType
  <2> QED
    BY <2>1
<1>18. ASSUME NodeReady PROVE OwnTypes'
  BY <1>18 DEF NodeReady
<1>19. ASSUME DrainBegins PROVE OwnTypes'
  <2> USE <1>19 DEF DrainBegins
  <2>1. Differing(KnownStreams(store), EmptySnapshot) \in SUBSET Streams
    BY DEF Differing
  <2>2. job' \in Jobs
    BY <2>1, StoreTypes, JobTypes
  <2>3. at' \in Pcs
    BY DEF Pcs, Callers
  <2> QED
    BY <2>1, <2>2, <2>3
<1>20. ASSUME Drained PROVE OwnTypes'
  <2> USE <1>20 DEF Drained
  <2>1. store' \in Stores
    BY StoreTypes
  <2>2. at' \in Pcs
    BY DEF Pcs, Callers
  <2> QED
    BY <2>1, <2>2
<1>21. ASSUME DrainForgets PROVE OwnTypes'
  <2> USE <1>21 DEF DrainForgets
  <2>1. store' \in Stores
    BY StoreTypes
  <2>2. at' \in Pcs
    BY DEF Pcs, Callers
  <2> QED
    BY <2>1, <2>2
<1>22. ASSUME DrainEnds PROVE OwnTypes'
  <2> USE <1>22 DEF DrainEnds
  <2>1. store' \in Stores
    BY StoreTypes
  <2>2. [NoJob EXCEPT !.revision = job.revision] \in Jobs
    BY JobTypes
  <2>3. at' \in Pcs
    BY DEF Pcs, Callers
  <2> QED
    BY <2>1, <2>2, <2>3
<1>23. ASSUME WakeUp PROVE OwnTypes'
  <2> USE <1>23 DEF WakeUp
  <2>1. at' \in Pcs
    BY DEF Pcs, Callers
  <2> QED
    BY <2>1
<1>24. ASSUME DebounceEnds PROVE OwnTypes'
  <2>1. CASE TakeRequest
    BY <2>1, TakeRequestType
  <2>2. CASE ~TakeRequest
    <3> USE <1>24, <2>2 DEF DebounceEnds
    <3>1. at' \in Pcs
      BY DEF Pcs
    <3> QED
      BY <3>1
  <2> QED
    BY <2>1, <2>2
<1>25. ASSUME DelayEnds PROVE OwnTypes'
  <2>1. CASE TakeRequest
    BY <2>1, TakeRequestType
  <2>2. CASE ~TakeRequest
    <3> USE <1>25, <2>2 DEF DelayEnds
    <3>1. at' \in Pcs
      BY DEF Pcs
    <3> QED
      BY <3>1
  <2> QED
    BY <2>1, <2>2
<1>26. ASSUME SyncLoopStops PROVE OwnTypes'
  <2> USE <1>26 DEF SyncLoopStops
  <2>1. at' \in Pcs
    BY DEF Pcs, Callers
  <2> QED
    BY <2>1
<1>27. ASSUME CheckStop PROVE OwnTypes'
  <2> USE <1>27 DEF CheckStop
  <2>1. at' \in Pcs
    BY DEF Pcs, Callers
  <2> QED
    BY <2>1
<1>28. ASSUME BeginFetch PROVE OwnTypes'
  <2> USE <1>28 DEF BeginFetch
  <2>1. store' \in Stores
    BY StoreTypes
  <2>2. job' \in Jobs
    BY JobTypes, StoreTypes
  <2>3. at' \in Pcs
    BY DEF Pcs, Callers
  <2> QED
    BY <2>1, <2>2, <2>3
<1>29. ASSUME FetchReplies PROVE OwnTypes'
  <2> USE <1>29 DEF FetchReplies
  <2>1. Differing(job.current, world) \in SUBSET Streams
    BY DEF Differing
  <2>2. job' \in Jobs
    BY <2>1, JobTypes
  <2>3. at' \in Pcs
    BY DEF Pcs, Callers
  <2> QED
    BY <2>1, <2>2, <2>3
<1>30. ASSUME FetchFails PROVE OwnTypes'
  <2> USE <1>30 DEF FetchFails
  <2>1. at' \in Pcs
    BY DEF Pcs, Callers
  <2> QED
    BY <2>1
<1>31. ASSUME SyncSucceeds PROVE OwnTypes'
  <2> USE <1>31 DEF SyncSucceeds
  <2>1. job.revision \in Nat /\ job.next \in Snapshots
    BY JobTypes
  <2>2. MarkApplySuccess(store, job.revision, job.next) \in Stores
    BY <2>1, StoreTypes
  <2>3. store' \in Stores
    BY <2>2, StoreTypes
  <2>4. job' \in Jobs
    BY JobTypes
  <2>5. at' \in Pcs
    BY DEF Pcs, Callers
  <2> QED
    BY <2>1, <2>2, <2>3, <2>4, <2>5
<1>32. ASSUME ReportFailure PROVE OwnTypes'
  <2> USE <1>32 DEF ReportFailure
  <2>1. store' \in Stores
    BY StoreTypes
  <2>2. at' \in Pcs
    BY DEF Pcs, Callers
  <2> QED
    BY <2>1, <2>2
<1>33. ASSUME RetryLater PROVE OwnTypes'
  <2> USE <1>33 DEF RetryLater
  <2>1. job.revision \in Nat /\ job.done \in SUBSET Streams
    BY JobTypes
  <2>2. job' \in Jobs
    BY JobTypes
  <2>3. at' \in Pcs
    BY DEF Pcs, Callers
  <2>4. pending_revision' \in Nat
    BY <2>1
  <2>5. strayed' \in SUBSET Streams
    BY <2>1
  <2> QED
    BY <2>1, <2>2, <2>3, <2>4, <2>5
<1>34. ASSUME RestartStop PROVE OwnTypes'
  <2> USE <1>34 DEF RestartStop
  <2>1. budget' \in Budgets
    BY BudgetTypes
  <2>2. at' \in Pcs
    BY DEF Pcs, Callers
  <2>3. job' \in Jobs /\ strayed' \in SUBSET Streams /\ UNCHANGED <<owed, covered>>
    BY DisturbsType
  <2> QED
    BY <2>1, <2>2, <2>3
<1>35. ASSUME RestartClears PROVE OwnTypes'
  <2> USE <1>35 DEF RestartClears
  <2>1. store' \in Stores
    BY StoreTypes
  <2>2. at' \in Pcs
    BY DEF Pcs, Callers
  <2> QED
    BY <2>1, <2>2
<1>36. ASSUME RestartStarts PROVE OwnTypes'
  <2> USE <1>36 DEF RestartStarts
  <2>1. at' \in Pcs
    BY DEF Pcs, Callers
  <2> QED
    BY <2>1
<1>37. ASSUME RestartFails PROVE OwnTypes'
  <2> USE <1>37 DEF RestartFails
  <2>1. at' \in Pcs
    BY DEF Pcs, Callers
  <2> QED
    BY <2>1
<1>38. ASSUME ConnectingWs PROVE OwnTypes'
  <2> USE <1>38 DEF ConnectingWs
  <2>1. store' \in Stores
    BY StoreTypes
  <2>2. at' \in Pcs
    BY DEF Pcs, Callers
  <2> QED
    BY <2>1, <2>2
<1>39. ASSUME RequestStop PROVE OwnTypes'
  BY <1>39 DEF RequestStop
<1>40. ASSUME StopWs PROVE OwnTypes'
  <2> USE <1>40 DEF StopWs
  <2>1. at' \in Pcs
    BY DEF Pcs, Callers
  <2> QED
    BY <2>1
<1>41. ASSUME Joined PROVE OwnTypes'
  <2> USE <1>41 DEF Joined
  <2>1. at' \in Pcs
    BY DEF Pcs, Callers
  <2> QED
    BY <2>1
<1>42. ASSUME StopNode PROVE OwnTypes'
  <2> USE <1>42 DEF StopNode
  <2>1. store' \in Stores
    BY StoreTypes
  <2>2. at' \in Pcs
    BY DEF Pcs, Callers
  <2>3. job' \in Jobs /\ strayed' \in SUBSET Streams /\ UNCHANGED <<owed, covered>>
    BY DisturbsType
  <2> QED
    BY <2>1, <2>2, <2>3
<1>43. CASE UNCHANGED vars
  BY <1>43 DEF vars
<1> QED
  BY <1>1, <1>2, <1>3, <1>4, <1>5, <1>6, <1>7, <1>8, <1>9, <1>10, <1>11,
     <1>12, <1>13, <1>14, <1>15, <1>16, <1>17, <1>18, <1>19, <1>20, <1>21,
     <1>22, <1>23, <1>24, <1>25, <1>26, <1>27, <1>28, <1>29, <1>30, <1>31,
     <1>32, <1>33, <1>34, <1>35, <1>36, <1>37, <1>38, <1>39, <1>40, <1>41,
     <1>42, <1>43
     DEF Next, Message, Connecting, OnConnected, OnDisconnected, Sync, Calls,
         CallEnds, Http, Main, Callers

\* Each step keeps all types.
LEMMA TypeStep == TypeOK /\ [Next]_vars => TypeOK'
<1> SUFFICES ASSUME TypeOK, [Next]_vars
             PROVE  TypeOK'
  OBVIOUS
<1>1. OwnTypes /\ Client!TypeOK /\ Node!TypeOK
  BY DEF TypeOK, OwnTypes
<1>2. OwnTypes' /\ Client!TypeOK' /\ Node!TypeOK'
  BY <1>1, OwnStep, ContractSteps, ClientTypes, NodeTypes
<1> QED
  BY <1>2 DEF TypeOK, OwnTypes

\* A daemon that has just started its threads is of the types.
LEMMA TypeInit == Init => TypeOK
<1> SUFFICES ASSUME Init
             PROVE  TypeOK
  OBVIOUS
<1>1. budget \in Budgets
  BY DEF Init, Budgets
<1>2. store \in Stores
  BY DEF Init, InitialStore, Stores, DaemonStates
<1>3. at \in Pcs
  BY DEF Init, Pcs
<1>4. call \in [Callers -> [revision : Nat, stale : BOOLEAN]]
  BY DEF Init
<1>5. job \in Jobs
  BY JobTypes DEF Init
<1>6. Client!TypeOK
  BY DEF Init, Client!Init, Client!TypeOK
<1>7. Node!TypeOK
  BY DEF Init, Node!Init, Node!TypeOK, Node!Usable
<1>8. /\ world \in Snapshots /\ pending_revision \in Nat
      /\ sync_pending \in BOOLEAN /\ force_sync_pending \in BOOLEAN
      /\ retry_armed \in BOOLEAN
      /\ reconcile_mutex \in {"free", "sync", "receive"}
      /\ stop_requested \in BOOLEAN /\ owed \in BOOLEAN /\ covered \in BOOLEAN
      /\ strayed \in SUBSET Streams
  BY DEF Init
<1> QED
  BY <1>1, <1>2, <1>3, <1>4, <1>5, <1>6, <1>7, <1>8 DEF TypeOK

\* Every variable of App stays in its type, whatever the constants are.
THEOREM TypeCorrect == Spec => []TypeOK
<1>1. Init => TypeOK
  BY TypeInit
<1>2. TypeOK /\ [Next]_vars => TypeOK'
  BY TypeStep
<1> QED
  BY <1>1, <1>2, PTL DEF Spec

-----------------------------------------------------------------------------
(* No signal is forgotten.  The invariant is inductive with the types: the *)
(* obligation of a signal passes from the message thread to the request,   *)
(* from the request to the sync thread, and back to the request when the   *)
(* sync fails.                                                             *)

LEMMA SignalStep ==
    OwnTypes /\ NoSignalForgotten /\ [Next]_vars => NoSignalForgotten'
<1> SUFFICES ASSUME OwnTypes, NoSignalForgotten, [Next]_vars
             PROVE  NoSignalForgotten'
  OBVIOUS
<1> USE DEF OwnTypes, Pcs, Callers, NoSignalForgotten, MessagePromises, Goto,
            request, history
<1>1. ASSUME WorldChanges PROVE NoSignalForgotten'
  BY <1>1 DEF WorldChanges
<1>2. ASSUME MessageArrives PROVE NoSignalForgotten'
  BY <1>2 DEF MessageArrives
<1>3. ASSUME ForceSync PROVE NoSignalForgotten'
  BY <1>3 DEF ForceSync
<1>4. ASSUME NEW c \in Callers, ReadStatus(c) PROVE NoSignalForgotten'
  BY <1>4 DEF ReadStatus
<1>5. ASSUME NEW c \in Callers, EnterSchedule(c) PROVE NoSignalForgotten'
  BY <1>5 DEF EnterSchedule, Leave, RequestSync
<1>6. ASSUME NEW c \in Callers, PickRevision(c) PROVE NoSignalForgotten'
  BY <1>6 DEF PickRevision
<1>7. ASSUME ConnectionOpens PROVE NoSignalForgotten'
  BY <1>7 DEF ConnectionOpens
<1>8. ASSUME ConnectionLost PROVE NoSignalForgotten'
  BY <1>8 DEF ConnectionLost
<1>9. ASSUME HandleWsConnected PROVE NoSignalForgotten'
  BY <1>9 DEF HandleWsConnected
<1>10. ASSUME ConnectionCloses PROVE NoSignalForgotten'
  BY <1>10 DEF ConnectionCloses
<1>11. ASSUME HandleWsDisconnected PROVE NoSignalForgotten'
  BY <1>11 DEF HandleWsDisconnected
<1>12. ASSUME ClientEnds PROVE NoSignalForgotten'
  BY <1>12 DEF ClientEnds
<1>13. ASSUME NEW s \in Streams, CallNode(s) PROVE NoSignalForgotten'
  BY <1>13 DEF CallNode
<1>14. ASSUME CallDone PROVE NoSignalForgotten'
  BY <1>14 DEF CallDone
<1>15. ASSUME CallMissed PROVE NoSignalForgotten'
  BY <1>15 DEF CallMissed
<1>16. ASSUME CallThrows PROVE NoSignalForgotten'
  BY <1>16 DEF CallThrows
<1>17. ASSUME NodeConfused PROVE NoSignalForgotten'
  BY <1>17 DEF NodeConfused, NodeDisturbs
<1>18. ASSUME NodeReady PROVE NoSignalForgotten'
  BY <1>18 DEF NodeReady
<1>19. ASSUME DrainBegins PROVE NoSignalForgotten'
  BY <1>19 DEF DrainBegins
<1>20. ASSUME Drained PROVE NoSignalForgotten'
  BY <1>20 DEF Drained
<1>21. ASSUME DrainForgets PROVE NoSignalForgotten'
  BY <1>21 DEF DrainForgets
<1>22. ASSUME DrainEnds PROVE NoSignalForgotten'
  BY <1>22 DEF DrainEnds
<1>23. ASSUME WakeUp PROVE NoSignalForgotten'
  BY <1>23 DEF WakeUp
<1>24. ASSUME DebounceEnds PROVE NoSignalForgotten'
  <2>1. CASE TakeRequest
    BY <2>1, <1>24 DEF TakeRequest, DebounceEnds
  <2>2. CASE ~TakeRequest
    <3>1. /\ Goto("sync", "debouncing", "delaying")
          /\ UNCHANGED <<store, request, client, stop_requested, history>>
      BY <2>2, <1>24 DEF DebounceEnds
    <3> QED
      BY <3>1
  <2> QED
    BY <2>1, <2>2
<1>25. ASSUME DelayEnds PROVE NoSignalForgotten'
  <2>1. CASE TakeRequest
    BY <2>1, <1>25 DEF TakeRequest, DelayEnds
  <2>2. CASE ~TakeRequest
    <3>1. /\ Goto("sync", "delaying", "waiting")
          /\ UNCHANGED <<store, request, client, stop_requested, history>>
      BY <2>2, <1>25 DEF DelayEnds
    <3> QED
      BY <3>1
  <2> QED
    BY <2>1, <2>2
<1>26. ASSUME SyncLoopStops PROVE NoSignalForgotten'
  BY <1>26 DEF SyncLoopStops
<1>27. ASSUME CheckStop PROVE NoSignalForgotten'
  BY <1>27 DEF CheckStop
<1>28. ASSUME BeginFetch PROVE NoSignalForgotten'
  BY <1>28 DEF BeginFetch
<1>29. ASSUME FetchReplies PROVE NoSignalForgotten'
  BY <1>29 DEF FetchReplies
<1>30. ASSUME FetchFails PROVE NoSignalForgotten'
  BY <1>30 DEF FetchFails
<1>31. ASSUME SyncSucceeds PROVE NoSignalForgotten'
  BY <1>31 DEF SyncSucceeds
<1>32. ASSUME ReportFailure PROVE NoSignalForgotten'
  BY <1>32 DEF ReportFailure
<1>33. ASSUME RetryLater PROVE NoSignalForgotten'
  BY <1>33 DEF RetryLater
<1>34. ASSUME RestartStop PROVE NoSignalForgotten'
  BY <1>34 DEF RestartStop, NodeDisturbs
<1>35. ASSUME RestartClears PROVE NoSignalForgotten'
  BY <1>35 DEF RestartClears
<1>36. ASSUME RestartStarts PROVE NoSignalForgotten'
  BY <1>36 DEF RestartStarts
<1>37. ASSUME RestartFails PROVE NoSignalForgotten'
  BY <1>37 DEF RestartFails
<1>38. ASSUME ConnectingWs PROVE NoSignalForgotten'
  BY <1>38 DEF ConnectingWs
<1>39. ASSUME RequestStop PROVE NoSignalForgotten'
  BY <1>39 DEF RequestStop
<1>40. ASSUME StopWs PROVE NoSignalForgotten'
  BY <1>40 DEF StopWs
<1>41. ASSUME Joined PROVE NoSignalForgotten'
  BY <1>41 DEF Joined
<1>42. ASSUME StopNode PROVE NoSignalForgotten'
  BY <1>42 DEF StopNode, NodeDisturbs
<1>43. CASE UNCHANGED vars
  BY <1>43 DEF vars
<1> QED
  BY <1>1, <1>2, <1>3, <1>4, <1>5, <1>6, <1>7, <1>8, <1>9, <1>10, <1>11,
     <1>12, <1>13, <1>14, <1>15, <1>16, <1>17, <1>18, <1>19, <1>20, <1>21,
     <1>22, <1>23, <1>24, <1>25, <1>26, <1>27, <1>28, <1>29, <1>30, <1>31,
     <1>32, <1>33, <1>34, <1>35, <1>36, <1>37, <1>38, <1>39, <1>40, <1>41,
     <1>42, <1>43
     DEF Next, Message, Connecting, OnConnected, OnDisconnected, Sync, Calls,
         CallEnds, Http, Main, Callers

\* However the message thread, the two other callers of schedule_sync and the
\* sync thread interleave, a data.changed message is never lost: a completed
\* sync has pulled after it, or a sync that will is under way or asked for.
THEOREM SignalsKept == Spec => []NoSignalForgotten
<1>1. Init => TypeOK /\ NoSignalForgotten
  BY TypeInit DEF Init, NoSignalForgotten
<1>2. TypeOK => OwnTypes
  BY DEF TypeOK, OwnTypes
<1>3. TypeOK /\ NoSignalForgotten /\ [Next]_vars
         => TypeOK' /\ NoSignalForgotten'
  BY <1>2, TypeStep, SignalStep
<1> QED
  BY <1>1, <1>3, PTL DEF Spec

-----------------------------------------------------------------------------
(* The store and the Node agree.  OnlyStrayedStreamsDiffer and             *)
(* ReportedRegistrationIsTrue speak of the moments when nothing is         *)
(* reconciled; StreamsTracked also says what holds while a sync or a drain *)
(* changes the streams one by one.                                         *)

\* The sync thread, and the receive worker, with reconcile_mutex_ held.
SyncHolds == at["sync"] \in {"fetching", "applying", "failing", "retrying"}

DrainHolds == at["receive"] \in {"removing", "drained", "forgotten"}

\* A sync or a drain whose list of work is known.
Working == DrainHolds \/ at["sync"] = "applying"

\* Streams that are as they were when the reconcile began.
Untouched == Streams \ (strayed \cup job.done)

\* reconcile_mutex_ is what lets one of the two threads work, and no call is under
\* way but for it.
MutexHeld ==
    /\ reconcile_mutex = "sync" <=> SyncHolds
    /\ reconcile_mutex = "receive" <=> DrainHolds
    /\ asked # Node!NoCall =>
          /\ at["sync"] = "applying" \/ at["receive"] = "removing"
          /\ asked.s \in job.todo /\ asked.to = job.next[asked.s]

\* What the list of work holds where there is none, or where nothing is done yet.
WorkBounded ==
    /\ reconcile_mutex = "free" \/ at["sync"] = "fetching" =>
          job.todo = {} /\ job.done = {}
    /\ at["sync"] \notin {"applying", "failing", "retrying"} =>
          job.next = EmptySnapshot
    /\ at["receive"] \in {"drained", "forgotten"} => job.todo = {}

\* But for the streams that strayed and those already changed, the Node holds both
\* what the store says and what the reconcile started from; the ones changed are
\* as the new snapshot says, and outside the list of work the two snapshots agree.
HoldsKnown ==
    /\ \A s \in Untouched : held[s] = KnownStreams(store)[s]
    /\ reconcile_mutex # "free" => \A s \in Untouched : held[s] = job.current[s]
    /\ \A s \in job.done : held[s] = job.next[s]
    /\ Working => \A s \in Untouched \ job.todo : job.current[s] = job.next[s]
    /\ at["receive"] = "forgotten" => KnownStreams(store) = EmptySnapshot

\* streams_registered is true of the Node while nothing is changed or strayed, and
\* never set between the end of a drain and the release of the mutex.
RegistrationTracked ==
    /\ strayed = {} /\ job.done = {} =>
          (store.streams_registered <=> HasAnyStreams(held))
    /\ at["receive"] \in {"drained", "forgotten"} => ~store.streams_registered

StreamsTracked ==
    MutexHeld /\ WorkBounded /\ HoldsKnown /\ RegistrationTracked

\* Which of StateStore's methods change what the next reconcile starts from.
LEMMA KnownAfter ==
    ASSUME NEW st \in Stores
    PROVE  /\ \A state \in DaemonStates :
                 KnownStreams(SetDaemonState(st, state)) = KnownStreams(st)
           /\ \A rev \in Nat :
                 KnownStreams(SetLastSeenRevision(st, rev)) = KnownStreams(st)
           /\ KnownStreams(MarkSnapshotSignalReceived(st)) = KnownStreams(st)
           /\ KnownStreams(ConsumePendingDrainNotification(st)) = KnownStreams(st)
           /\ KnownStreams(MarkDrained(st)) = KnownStreams(st)
           /\ KnownStreams(ClearLastSnapshot(st)) = EmptySnapshot
           /\ \A rev \in Nat, snapshot \in Snapshots :
                 KnownStreams(MarkApplySuccess(st, rev, snapshot)) = snapshot
<1> USE DEF Stores, KnownStreams
<1>1. ASSUME NEW state \in DaemonStates
      PROVE  KnownStreams(SetDaemonState(st, state)) = KnownStreams(st)
  BY DEF SetDaemonState
<1>2. ASSUME NEW rev \in Nat
      PROVE  KnownStreams(SetLastSeenRevision(st, rev)) = KnownStreams(st)
  BY DEF SetLastSeenRevision
<1>3. KnownStreams(MarkSnapshotSignalReceived(st)) = KnownStreams(st)
  BY DEF MarkSnapshotSignalReceived
<1>4. KnownStreams(ConsumePendingDrainNotification(st)) = KnownStreams(st)
  BY DEF ConsumePendingDrainNotification
<1>5. KnownStreams(MarkDrained(st)) = KnownStreams(st)
  BY DEF MarkDrained
<1>6. KnownStreams(ClearLastSnapshot(st)) = EmptySnapshot
  BY DEF ClearLastSnapshot
<1>7. ASSUME NEW rev \in Nat, NEW snapshot \in Snapshots
      PROVE  KnownStreams(MarkApplySuccess(st, rev, snapshot)) = snapshot
  <2>1. snapshot # NoSnapshot
    <3>1. NoSnapshot \notin Snapshots
      BY SnapshotAssumption, Zenon DEF Snapshots
    <3> QED
      BY <3>1
  <2>2. MarkApplySuccess(st, rev, snapshot).last_snapshot = snapshot
    BY DEF MarkApplySuccess
  <2> QED
    BY <2>1, <2>2
<1> QED
  BY <1>1, <1>2, <1>3, <1>4, <1>5, <1>6, <1>7

\* Which of StateStore's methods change what is reported of the streams.
LEMMA RegisteredAfter ==
    ASSUME NEW st \in Stores
    PROVE  /\ \A state \in DaemonStates :
                 SetDaemonState(st, state).streams_registered
                    = st.streams_registered
           /\ \A rev \in Nat :
                 SetLastSeenRevision(st, rev).streams_registered
                    = st.streams_registered
           /\ MarkSnapshotSignalReceived(st).streams_registered
                 = st.streams_registered
           /\ ConsumePendingDrainNotification(st).streams_registered
                 = st.streams_registered
           /\ ClearLastSnapshot(st).streams_registered = st.streams_registered
           /\ MarkDrained(st).streams_registered = FALSE
           /\ \A rev \in Nat, snapshot \in Snapshots :
                 MarkApplySuccess(st, rev, snapshot).streams_registered
                    = HasAnyStreams(snapshot)
BY DEF Stores, SetDaemonState, SetLastSeenRevision,
       MarkSnapshotSignalReceived, ConsumePendingDrainNotification,
       MarkDrained, ClearLastSnapshot, MarkApplySuccess

\* What a message writes to the store says nothing of the streams.
LEMMA RegisteredAfterMessage ==
    ASSUME NEW st \in Stores, NEW rev \in Nat
    PROVE  SetLastSeenRevision(MarkSnapshotSignalReceived(st), rev)
              .streams_registered = st.streams_registered
BY DEF Stores, SetLastSeenRevision, MarkSnapshotSignalReceived

\* After a success, registered is what the snapshot has streams.
LEMMA RegisteredAfterSuccess ==
    ASSUME NEW st \in Stores, NEW rev \in Nat, NEW snapshot \in Snapshots
    PROVE  SetDaemonState(MarkApplySuccess(st, rev, snapshot), "running")
              .streams_registered = HasAnyStreams(snapshot)
BY DEF Stores, SetDaemonState, MarkApplySuccess

\* A step that changes nothing of this: but for the revision a sync is for, for
\* other fields of the store, and for steps of the threads without the mutex.
Quiet ==
    /\ UNCHANGED <<held, asked, reconcile_mutex, strayed>>
    /\ job'.current = job.current /\ job'.next = job.next
    /\ job'.todo = job.todo /\ job'.done = job.done
    /\ KnownStreams(store') = KnownStreams(store)
    /\ store'.streams_registered = store.streams_registered
    /\ at'["sync"] = at["sync"] \/ (~SyncHolds /\ ~SyncHolds')
    /\ at'["receive"] = at["receive"] \/ (~DrainHolds /\ ~DrainHolds')

\* A quiet step leaves all of this as it is.
LEMMA QuietKeeps ==
    ASSUME StreamsTracked, Quiet
    PROVE  StreamsTracked'
<1>1. (SyncHolds' <=> SyncHolds) /\ (DrainHolds' <=> DrainHolds)
  BY DEF Quiet, SyncHolds, DrainHolds
<1>2. (Working' <=> Working) /\ Untouched' = Untouched
  BY <1>1 DEF Quiet, Working, Untouched, SyncHolds, DrainHolds
<1>3. MutexHeld'
  BY <1>1 DEF Quiet, StreamsTracked, MutexHeld, SyncHolds, DrainHolds
<1>4. WorkBounded'
  BY <1>1 DEF Quiet, StreamsTracked, WorkBounded, SyncHolds, DrainHolds
<1>5. HoldsKnown'
  BY <1>1, <1>2 DEF Quiet, StreamsTracked, HoldsKnown, DrainHolds
<1>6. RegistrationTracked'
  BY <1>1 DEF Quiet, StreamsTracked, RegistrationTracked, DrainHolds, HasAnyStreams
<1> QED
  BY <1>3, <1>4, <1>5, <1>6 DEF StreamsTracked

\* These steps are quiet.
LEMMA QuietSteps ==
    ASSUME OwnTypes,
           \/ WorldChanges \/ Message \/ OnConnected \/ HandleWsDisconnected
           \/ ConnectionOpens \/ ConnectionLost \/ ConnectionCloses \/ ClientEnds
           \/ NodeReady \/ WakeUp \/ DebounceEnds \/ DelayEnds \/ SyncLoopStops
           \/ CheckStop \/ RestartStarts \/ RestartFails
           \/ PickRevision("http") \/ ReadStatus("http") \/ EnterSchedule("http")
           \/ ConnectingWs \/ RequestStop \/ StopWs \/ Joined \/ UNCHANGED vars
    PROVE  Quiet
<1> USE DEF Quiet, OwnTypes, Pcs, SyncHolds, DrainHolds, Goto, external, request,
            node, history
<1>1. ASSUME WorldChanges PROVE Quiet
  BY <1>1 DEF WorldChanges
<1>2. ASSUME ForceSync PROVE Quiet
  BY <1>2 DEF ForceSync
<1>3. ASSUME NEW c \in Callers, ReadStatus(c) PROVE Quiet
  BY <1>3 DEF ReadStatus, Callers
<1>4. ASSUME NEW c \in Callers, EnterSchedule(c) PROVE Quiet
  BY <1>4 DEF EnterSchedule, Leave, Callers
<1>5. ASSUME NEW c \in Callers, PickRevision(c) PROVE Quiet
  BY <1>5 DEF PickRevision, Callers
<1>6. ASSUME ConnectionOpens PROVE Quiet
  BY <1>6 DEF ConnectionOpens
<1>7. ASSUME ConnectionLost PROVE Quiet
  BY <1>7 DEF ConnectionLost
<1>8. ASSUME ConnectionCloses PROVE Quiet
  BY <1>8 DEF ConnectionCloses
<1>9. ASSUME ClientEnds PROVE Quiet
  BY <1>9 DEF ClientEnds
<1>10. ASSUME NodeReady PROVE Quiet
  BY <1>10 DEF NodeReady, Node!Ready
<1>11. ASSUME WakeUp PROVE Quiet
  BY <1>11 DEF WakeUp
<1>12. ASSUME SyncLoopStops PROVE Quiet
  BY <1>12 DEF SyncLoopStops
<1>13. ASSUME CheckStop PROVE Quiet
  BY <1>13 DEF CheckStop
<1>14. ASSUME RestartStarts PROVE Quiet
  BY <1>14 DEF RestartStarts, Node!Start, Node!Begin
<1>15. ASSUME RestartFails PROVE Quiet
  BY <1>15 DEF RestartFails, Node!StartFails, Node!Begin
<1>16. ASSUME RequestStop PROVE Quiet
  BY <1>16 DEF RequestStop
<1>17. ASSUME StopWs PROVE Quiet
  BY <1>17 DEF StopWs
<1>18. ASSUME Joined PROVE Quiet
  BY <1>18 DEF Joined
<1>19. ASSUME MessageArrives PROVE Quiet
  <2>1. PICK rev \in Revisions :
           store' = SetLastSeenRevision(MarkSnapshotSignalReceived(store), rev)
    BY <1>19 DEF MessageArrives
  <2>2. rev \in Nat /\ MarkSnapshotSignalReceived(store) \in Stores
    BY StoreTypes
  <2>3. KnownStreams(store') = KnownStreams(store)
    BY <2>1, <2>2, KnownAfter
  <2>4. store'.streams_registered = store.streams_registered
    BY <2>1, <2>2, RegisteredAfterMessage
  <2> QED
    BY <1>19, <2>3, <2>4 DEF MessageArrives
<1>20. ASSUME HandleWsConnected PROVE Quiet
  <2>1. /\ "connected_waiting_snapshot" \in DaemonStates
        /\ SetDaemonState(store, "connected_waiting_snapshot") \in Stores
    BY StoreTypes DEF DaemonStates
  <2>2. store' = ConsumePendingDrainNotification(
                    SetDaemonState(store, "connected_waiting_snapshot"))
    BY <1>20 DEF HandleWsConnected
  <2>3. KnownStreams(store') = KnownStreams(store)
    BY <2>1, <2>2, KnownAfter
  <2>4. store'.streams_registered = store.streams_registered
    BY <2>2 DEF Stores, ConsumePendingDrainNotification, SetDaemonState
  <2> QED
    BY <1>20, <2>3, <2>4 DEF HandleWsConnected
<1>21. ASSUME HandleWsDisconnected PROVE Quiet
  <2>1. /\ KnownStreams(store') = KnownStreams(store)
        /\ store'.streams_registered = store.streams_registered
    BY <1>21, KnownAfter, RegisteredAfter DEF HandleWsDisconnected, DaemonStates
  <2> QED
    BY <1>21, <2>1 DEF HandleWsDisconnected
<1>22. ASSUME ConnectingWs PROVE Quiet
  <2>1. /\ KnownStreams(store') = KnownStreams(store)
        /\ store'.streams_registered = store.streams_registered
    BY <1>22, KnownAfter, RegisteredAfter DEF ConnectingWs, DaemonStates
  <2> QED
    BY <1>22, <2>1 DEF ConnectingWs
<1>23. ASSUME DebounceEnds PROVE Quiet
  <2>1. CASE TakeRequest
    <3>1. /\ job'.current = job.current /\ job'.next = job.next
          /\ job'.todo = job.todo /\ job'.done = job.done
      BY <2>1 DEF TakeRequest, Jobs
    <3> QED
      BY <1>23, <2>1, <3>1 DEF TakeRequest, DebounceEnds
  <2>2. CASE ~TakeRequest
    <3>1. /\ Goto("sync", "debouncing", "delaying")
          /\ UNCHANGED <<store, reconcile_mutex, node, job, history>>
      BY <1>23, <2>2 DEF DebounceEnds
    <3> QED
      BY <3>1
  <2> QED
    BY <2>1, <2>2
<1>24. ASSUME DelayEnds PROVE Quiet
  <2>1. CASE TakeRequest
    <3>1. /\ job'.current = job.current /\ job'.next = job.next
          /\ job'.todo = job.todo /\ job'.done = job.done
      BY <2>1 DEF TakeRequest, Jobs
    <3> QED
      BY <1>24, <2>1, <3>1 DEF TakeRequest, DelayEnds
  <2>2. CASE ~TakeRequest
    <3>1. /\ Goto("sync", "delaying", "waiting")
          /\ UNCHANGED <<store, reconcile_mutex, node, job, history>>
      BY <1>24, <2>2 DEF DelayEnds
    <3> QED
      BY <3>1
  <2> QED
    BY <2>1, <2>2
<1>25. CASE UNCHANGED vars
  BY <1>25 DEF vars
<1> QED
  BY <1>1, <1>2, <1>3, <1>4, <1>5, <1>6, <1>7, <1>8, <1>9, <1>10, <1>11,
     <1>12, <1>13, <1>14, <1>15, <1>16, <1>17, <1>18, <1>19, <1>20, <1>21,
     <1>22, <1>23, <1>24, <1>25
     DEF Message, OnConnected, Callers

\* What the Node loses or changes unasked goes astray, so what is said of the
\* other streams still holds.
LEMMA DisturbsKeep ==
    ASSUME OwnTypes, Node!TypeOK, Node!TypeOK', StreamsTracked, NodeDisturbs,
           UNCHANGED <<asked, reconcile_mutex>>,
           KnownStreams(store') = KnownStreams(store),
           store'.streams_registered = store.streams_registered,
           at'["sync"] = at["sync"], at'["receive"] = at["receive"]
    PROVE  StreamsTracked'
<1> DEFINE disturbed == {s \in Streams : held'[s] # held[s]}
<1>1. /\ strayed' = strayed \cup disturbed
      /\ job' = [job EXCEPT !.done = @ \ disturbed]
  BY DEF NodeDisturbs
<1>2. \A s \in Streams \ disturbed : held'[s] = held[s]
  OBVIOUS
<1>3. disturbed \in SUBSET Streams /\ (disturbed = {} => held' = held)
  BY DEF Node!TypeOK
<1> HIDE DEF disturbed
<1>4. /\ job'.current = job.current /\ job'.next = job.next
      /\ job'.todo = job.todo /\ job'.done = job.done \ disturbed
      /\ job.done \subseteq Streams
  BY <1>1 DEF OwnTypes, Jobs
<1>5. Untouched' = Untouched \ disturbed /\ Untouched \subseteq Streams
  BY <1>1, <1>4 DEF Untouched
<1>6. MutexHeld' /\ WorkBounded'
  BY <1>4 DEF StreamsTracked, MutexHeld, WorkBounded, SyncHolds, DrainHolds
<1>7. HoldsKnown'
  BY <1>2, <1>4, <1>5 DEF StreamsTracked, HoldsKnown, Working, DrainHolds
<1>8. RegistrationTracked'
  BY <1>1, <1>3, <1>4 DEF StreamsTracked, RegistrationTracked
<1> QED
  BY <1>6, <1>7, <1>8 DEF StreamsTracked

\* The calls, whose stream is one that remains to be done.
LEMMA CallsKeep ==
    ASSUME OwnTypes, Node!TypeOK, StreamsTracked,
           (\E s \in Streams : CallNode(s)) \/ CallEnds
    PROVE  StreamsTracked'
<1> USE DEF StreamsTracked
<1>1. ASSUME NEW s \in Streams, CallNode(s) PROVE StreamsTracked'
  <2>1. /\ s \in job.todo /\ asked' = [s |-> s, to |-> job.next[s]]
        /\ UNCHANGED <<held, strayed, store, reconcile_mutex, at, job>>
    BY <1>1 DEF CallNode, Turn, Node!Ask, history
  <2>2. at["sync"] = "applying" \/ at["receive"] = "removing"
    BY <1>1 DEF CallNode
  <2>3. MutexHeld'
    BY <2>1, <2>2 DEF MutexHeld, SyncHolds, DrainHolds
  <2>4. WorkBounded' /\ HoldsKnown' /\ RegistrationTracked'
    BY <2>1 DEF WorkBounded, HoldsKnown, RegistrationTracked, Working, Untouched,
                DrainHolds, HasAnyStreams
  <2> QED
    BY <2>3, <2>4
<1>2. ASSUME Node!Answer
      PROVE  /\ at["sync"] = "applying" \/ at["receive"] = "removing"
             /\ asked.s \in job.todo /\ asked.to = job.next[asked.s]
             /\ asked.s \in Streams /\ reconcile_mutex # "free"
             /\ at["sync"] # "fetching"
             /\ at["receive"] \notin {"drained", "forgotten"}
  BY <1>2, AskedStream DEF Node!Answer, MutexHeld, WorkBounded, SyncHolds,
                           DrainHolds
<1>3. ASSUME CallDone PROVE StreamsTracked'
  <2>1. /\ Node!Answer /\ asked' = Node!NoCall
        /\ held' = [held EXCEPT ![asked.s] = asked.to]
        /\ UNCHANGED <<strayed, store, reconcile_mutex, at>>
    BY <1>3 DEF CallDone, Node!Done, Node!Answer, history
  <2>2. /\ job'.current = job.current /\ job'.next = job.next
        /\ job'.todo = job.todo \ {asked.s} /\ job'.done = job.done \cup {asked.s}
    BY <1>3 DEF CallDone, OwnTypes, Jobs
  <2>3. /\ \A s \in Streams \ {asked.s} : held'[s] = held[s]
        /\ held'[asked.s] = job.next[asked.s]
    BY <1>2, <2>1 DEF Node!TypeOK
  <2>4. Untouched' = Untouched \ {asked.s} /\ Untouched \subseteq Streams
        /\ job.done \subseteq Streams
    BY <2>1, <2>2 DEF Untouched, OwnTypes, Jobs
  <2>5. MutexHeld' /\ WorkBounded'
    BY <1>2, <2>1, <2>2 DEF MutexHeld, WorkBounded, SyncHolds, DrainHolds
  <2>6. HoldsKnown'
    BY <1>2, <2>1, <2>2, <2>3, <2>4 DEF HoldsKnown, Working, DrainHolds
  <2>7. RegistrationTracked'
    BY <2>1, <2>2 DEF RegistrationTracked
  <2> QED
    BY <2>5, <2>6, <2>7
<1>4. ASSUME CallMissed PROVE StreamsTracked'
  <2>1. /\ Node!Answer /\ asked' = Node!NoCall
        /\ strayed' = strayed \cup {asked.s}
        /\ UNCHANGED <<held, store, reconcile_mutex, at>>
    BY <1>4 DEF CallMissed, Node!Missed, Node!Answer
  <2>2. /\ job'.current = job.current /\ job'.next = job.next
        /\ job'.todo = job.todo \ {asked.s} /\ job'.done = job.done
    BY <1>4 DEF CallMissed, OwnTypes, Jobs
  <2>3. Untouched' = Untouched \ {asked.s}
    BY <2>1, <2>2 DEF Untouched
  <2>4. MutexHeld' /\ WorkBounded'
    BY <1>2, <2>1, <2>2 DEF MutexHeld, WorkBounded, SyncHolds, DrainHolds
  <2>5. HoldsKnown'
    BY <1>2, <2>1, <2>2, <2>3 DEF HoldsKnown, Working, DrainHolds
  <2>6. RegistrationTracked'
    BY <2>1 DEF RegistrationTracked
  <2> QED
    BY <2>4, <2>5, <2>6
<1>5. ASSUME CallThrows PROVE StreamsTracked'
  <2>1. /\ Node!Answer /\ asked' = Node!NoCall
        /\ at["sync"] = "applying" /\ at'["sync"] = "failing"
        /\ at'["receive"] = at["receive"]
        /\ UNCHANGED <<held, strayed, store, reconcile_mutex, job>>
    BY <1>5 DEF CallThrows, Node!Refuse, Node!Answer, Goto, history, OwnTypes, Pcs
  <2>2. ~DrainHolds /\ SyncHolds /\ SyncHolds' /\ (DrainHolds' <=> DrainHolds)
    BY <2>1 DEF MutexHeld, SyncHolds, DrainHolds
  <2>3. MutexHeld' /\ WorkBounded'
    BY <2>1, <2>2 DEF MutexHeld, WorkBounded
  <2>4. HoldsKnown' /\ RegistrationTracked'
    BY <2>1, <2>2 DEF HoldsKnown, RegistrationTracked, Working, Untouched,
                      HasAnyStreams
  <2> QED
    BY <2>3, <2>4
<1> QED
  BY <1>1, <1>3, <1>4, <1>5 DEF CallEnds

\* The drain: it begins with what the store knows, and ends with nothing held but
\* streams that strayed.
LEMMA DrainKeeps ==
    ASSUME OwnTypes, StreamsTracked,
           DrainBegins \/ Drained \/ DrainForgets \/ DrainEnds
    PROVE  StreamsTracked'
<1> USE DEF StreamsTracked
<1>1. ASSUME DrainBegins PROVE StreamsTracked'
  <2>1. /\ reconcile_mutex = "free" /\ reconcile_mutex' = "receive"
        /\ at["receive"] = "draining" /\ at'["receive"] = "removing"
        /\ at'["sync"] = at["sync"]
        /\ UNCHANGED <<held, asked, strayed, store>>
    BY <1>1 DEF DrainBegins, Goto, node, history, OwnTypes, Pcs
  <2>2. /\ job'.current = KnownStreams(store) /\ job'.next = job.next
        /\ job'.todo = Differing(KnownStreams(store), EmptySnapshot)
        /\ job'.done = job.done
    BY <1>1 DEF DrainBegins, OwnTypes, Jobs
  <2>3. ~SyncHolds /\ ~DrainHolds /\ asked = Node!NoCall
    BY <2>1 DEF MutexHeld, SyncHolds, DrainHolds
  <2>4. job.done = {} /\ job.next = EmptySnapshot
    BY <2>1, <2>3 DEF WorkBounded, SyncHolds
  <2>5. Untouched' = Untouched /\ Untouched \subseteq Streams
    BY <2>1, <2>2 DEF Untouched
  <2>6. MutexHeld' /\ WorkBounded'
    BY <2>1, <2>2, <2>3, <2>4 DEF MutexHeld, WorkBounded, SyncHolds, DrainHolds
  <2>7. \A s \in Untouched \ job'.todo : KnownStreams(store)[s] = EmptySnapshot[s]
    BY <2>2, <2>5 DEF Differing
  <2>8. HoldsKnown'
    BY <2>1, <2>2, <2>4, <2>5, <2>7 DEF HoldsKnown
  <2>9. RegistrationTracked'
    BY <2>1, <2>2 DEF RegistrationTracked, HasAnyStreams
  <2> QED
    BY <2>6, <2>8, <2>9
<1>2. ASSUME Drained PROVE StreamsTracked'
  <2>1. /\ job.todo = {} /\ store' = MarkDrained(store)
        /\ at["receive"] = "removing" /\ at'["receive"] = "drained"
        /\ at'["sync"] = at["sync"]
        /\ UNCHANGED <<held, asked, strayed, reconcile_mutex, job>>
    BY <1>2 DEF Drained, Goto, node, history, OwnTypes, Pcs
  <2>2. DrainHolds /\ DrainHolds' /\ asked = Node!NoCall /\ ~SyncHolds
    BY <2>1 DEF MutexHeld, DrainHolds
  <2>3. job.next = EmptySnapshot
    BY <2>2 DEF WorkBounded, SyncHolds
  <2>4. MutexHeld' /\ WorkBounded'
    BY <2>1, <2>2, <2>3 DEF MutexHeld, WorkBounded, SyncHolds
  <2>5. KnownStreams(store') = KnownStreams(store) /\ ~store'.streams_registered
    BY <2>1, KnownAfter, RegisteredAfter DEF OwnTypes
  <2>6. Working /\ Untouched' = Untouched
    BY <2>1, <2>2 DEF Working, Untouched
  <2>7. HoldsKnown'
    BY <2>1, <2>2, <2>5, <2>6 DEF HoldsKnown, Working
  <2>8. \A s \in Untouched : held[s] = Absent
    BY <2>1, <2>2, <2>3, <2>6 DEF HoldsKnown, MutexHeld, EmptySnapshot, Untouched
  <2>9. RegistrationTracked'
    BY <2>1, <2>5, <2>8 DEF RegistrationTracked, HasAnyStreams, Untouched
  <2> QED
    BY <2>4, <2>7, <2>9
<1>3. ASSUME DrainForgets PROVE StreamsTracked'
  <2>1. /\ store' = ClearLastSnapshot(store)
        /\ at["receive"] = "drained" /\ at'["receive"] = "forgotten"
        /\ at'["sync"] = at["sync"]
        /\ UNCHANGED <<held, asked, strayed, reconcile_mutex, job>>
    BY <1>3 DEF DrainForgets, Goto, node, history, OwnTypes, Pcs
  <2>2. /\ DrainHolds /\ DrainHolds' /\ ~SyncHolds /\ job.todo = {}
        /\ reconcile_mutex # "free"
    BY <2>1 DEF MutexHeld, WorkBounded, DrainHolds
  <2>3. job.next = EmptySnapshot
    BY <2>2 DEF WorkBounded, SyncHolds
  <2>4. MutexHeld' /\ WorkBounded'
    BY <2>1, <2>2, <2>3 DEF MutexHeld, WorkBounded, SyncHolds
  <2>5. /\ KnownStreams(store') = EmptySnapshot
        /\ store'.streams_registered = store.streams_registered
    BY <2>1, KnownAfter, RegisteredAfter DEF OwnTypes
  <2>6. Untouched' = Untouched /\ (Working' <=> Working) /\ Working
    BY <2>1, <2>2 DEF Working, Untouched
  <2>7. HoldsKnown'
    BY <2>1, <2>2, <2>3, <2>5, <2>6 DEF HoldsKnown
  <2>8. RegistrationTracked'
    BY <2>1, <2>5 DEF RegistrationTracked, HasAnyStreams
  <2> QED
    BY <2>4, <2>7, <2>8
<1>4. ASSUME DrainEnds PROVE StreamsTracked'
  <2>1. /\ at["receive"] = "forgotten" /\ at'["receive"] = "outside"
        /\ at'["sync"] = at["sync"] /\ reconcile_mutex' = "free"
        /\ strayed' = strayed \ job.done
        /\ store' = SetDaemonState(store, "degraded")
        /\ UNCHANGED <<held, asked>>
    BY <1>4 DEF DrainEnds, Goto, node, OwnTypes, Pcs
  <2>2. /\ job' = [NoJob EXCEPT !.revision = job.revision]
        /\ job'.todo = {} /\ job'.done = {} /\ job'.next = EmptySnapshot
    BY <1>4 DEF DrainEnds, NoJob
  <2>3. /\ DrainHolds /\ ~DrainHolds' /\ ~SyncHolds /\ ~SyncHolds' /\ ~Working'
        /\ job.todo = {} /\ reconcile_mutex # "free" /\ asked = Node!NoCall
    BY <2>1 DEF MutexHeld, WorkBounded, DrainHolds, SyncHolds, Working
  <2>4. job.next = EmptySnapshot
    BY <2>3 DEF WorkBounded, SyncHolds
  <2>5. MutexHeld' /\ WorkBounded'
    BY <2>1, <2>2, <2>3 DEF MutexHeld, WorkBounded, SyncHolds
  <2>6. /\ KnownStreams(store') = EmptySnapshot
        /\ ~store'.streams_registered
    BY <2>1, KnownAfter, RegisteredAfter
    DEF OwnTypes, HoldsKnown, RegistrationTracked, DaemonStates
  <2>7. Untouched' \subseteq Untouched \cup job.done /\ Untouched' = Streams \ strayed'
    BY <2>1, <2>2 DEF Untouched
  <2>8. \A s \in Untouched' : held[s] = EmptySnapshot[s]
    BY <2>3, <2>4, <2>7 DEF HoldsKnown, Working
  <2>9. HoldsKnown'
    BY <2>1, <2>2, <2>3, <2>6, <2>8 DEF HoldsKnown
  <2>10. RegistrationTracked'
    BY <2>1, <2>6, <2>7, <2>8 DEF RegistrationTracked, HasAnyStreams, EmptySnapshot
  <2> QED
    BY <2>5, <2>9, <2>10
<1> QED
  BY <1>1, <1>2, <1>3, <1>4

\* The sync: it begins with what the store knows, and what it has done is what the
\* store knows after it, or strayed if it failed.
LEMMA SyncKeeps ==
    ASSUME OwnTypes, StreamsTracked,
           \/ BeginFetch \/ FetchReplies \/ FetchFails
           \/ SyncSucceeds \/ ReportFailure \/ RetryLater
    PROVE  StreamsTracked'
<1> USE DEF StreamsTracked
<1>1. ASSUME BeginFetch PROVE StreamsTracked'
  <2>1. /\ reconcile_mutex = "free" /\ reconcile_mutex' = "sync"
        /\ at["sync"] = "locking" /\ at'["sync"] = "fetching"
        /\ at'["receive"] = at["receive"]
        /\ UNCHANGED <<held, asked, strayed>>
    BY <1>1 DEF BeginFetch, Goto, node, OwnTypes, Pcs
  <2>2. /\ job'.current = KnownStreams(store) /\ job'.next = job.next
        /\ job'.todo = job.todo /\ job'.done = job.done
    BY <1>1 DEF BeginFetch, OwnTypes, Jobs
  <2>3. /\ KnownStreams(store') = KnownStreams(store)
        /\ store'.streams_registered = store.streams_registered
    BY <1>1, KnownAfter, RegisteredAfter DEF BeginFetch, OwnTypes, DaemonStates
  <2>4. ~DrainHolds /\ ~DrainHolds' /\ asked = Node!NoCall /\ ~Working'
    BY <2>1 DEF MutexHeld, SyncHolds, DrainHolds, Working
  <2>5. Untouched' = Untouched /\ job.done = {} /\ job.todo = {}
        /\ job.next = EmptySnapshot
    BY <2>1, <2>2 DEF Untouched, WorkBounded
  <2>6. MutexHeld' /\ WorkBounded'
    BY <2>1, <2>2, <2>4, <2>5 DEF MutexHeld, WorkBounded, SyncHolds, DrainHolds
  <2>7. HoldsKnown' /\ RegistrationTracked'
    BY <2>1, <2>2, <2>3, <2>4, <2>5
    DEF HoldsKnown, RegistrationTracked, HasAnyStreams
  <2> QED
    BY <2>6, <2>7
<1>2. ASSUME FetchReplies PROVE StreamsTracked'
  <2>1. /\ at["sync"] = "fetching" /\ at'["sync"] = "applying"
        /\ at'["receive"] = at["receive"]
        /\ UNCHANGED <<held, asked, strayed, reconcile_mutex, store>>
    BY <1>2 DEF FetchReplies, Goto, node, history, OwnTypes, Pcs
  <2>2. /\ job'.current = job.current /\ job'.next = world
        /\ job'.todo = Differing(job.current, world) /\ job'.done = job.done
    BY <1>2 DEF FetchReplies, OwnTypes, Jobs
  <2>3. /\ SyncHolds /\ SyncHolds' /\ ~DrainHolds /\ ~DrainHolds'
        /\ asked = Node!NoCall /\ job.done = {}
    BY <2>1 DEF MutexHeld, WorkBounded, SyncHolds, DrainHolds
  <2>4. Untouched' = Untouched /\ Untouched \subseteq Streams
    BY <2>1, <2>2 DEF Untouched
  <2>5. \A s \in Untouched \ job'.todo : job'.current[s] = job'.next[s]
    BY <2>2, <2>4 DEF Differing
  <2>6. MutexHeld' /\ WorkBounded'
    BY <2>1, <2>2, <2>3 DEF MutexHeld, WorkBounded, DrainHolds
  <2>7. HoldsKnown' /\ RegistrationTracked'
    BY <2>1, <2>2, <2>3, <2>4, <2>5
    DEF HoldsKnown, RegistrationTracked, HasAnyStreams, DrainHolds
  <2> QED
    BY <2>6, <2>7
<1>3. ASSUME FetchFails \/ ReportFailure PROVE StreamsTracked'
  <2>1. /\ at["sync"] \in {"fetching", "failing"}
        /\ at'["sync"] \in {"failing", "retrying"}
        /\ at'["receive"] = at["receive"]
        /\ UNCHANGED <<held, asked, strayed, reconcile_mutex, job>>
    BY <1>3 DEF FetchFails, ReportFailure, Goto, node, history, OwnTypes, Pcs
  <2>2. /\ KnownStreams(store') = KnownStreams(store)
        /\ store'.streams_registered = store.streams_registered
    BY <1>3, KnownAfter, RegisteredAfter
    DEF FetchFails, ReportFailure, OwnTypes, DaemonStates
  <2>3. /\ SyncHolds /\ SyncHolds' /\ ~DrainHolds /\ ~DrainHolds'
        /\ ~Working' /\ asked = Node!NoCall /\ reconcile_mutex # "free"
    BY <2>1 DEF MutexHeld, SyncHolds, DrainHolds, Working
  <2>4. MutexHeld' /\ WorkBounded'
    BY <2>1, <2>3 DEF MutexHeld, WorkBounded, DrainHolds
  <2>5. Untouched' = Untouched
    BY <2>1 DEF Untouched
  <2>6. HoldsKnown' /\ RegistrationTracked'
    BY <2>1, <2>2, <2>3, <2>5
    DEF HoldsKnown, RegistrationTracked, HasAnyStreams, DrainHolds
  <2> QED
    BY <2>4, <2>6
<1>4. ASSUME SyncSucceeds PROVE StreamsTracked'
  <2>1. /\ job.todo = {}
        /\ at["sync"] = "applying" /\ at'["sync"] = "waiting"
        /\ at'["receive"] = at["receive"]
        /\ reconcile_mutex' = "free"
        /\ strayed' = strayed \ job.done
        /\ UNCHANGED <<held, asked>>
    BY <1>4 DEF SyncSucceeds, Goto, node, OwnTypes, Pcs
  <2>2. job'.todo = {} /\ job'.done = {} /\ job'.next = EmptySnapshot
    BY <1>4 DEF SyncSucceeds, NoJob
  <2>3. /\ SyncHolds /\ ~SyncHolds' /\ ~DrainHolds /\ ~DrainHolds'
        /\ Working /\ ~Working' /\ asked = Node!NoCall
    BY <2>1 DEF MutexHeld, SyncHolds, DrainHolds, Working
  <2>4. job.revision \in Nat /\ job.next \in Snapshots
    BY JobTypes DEF OwnTypes
  <2>5. MarkApplySuccess(store, job.revision, job.next) \in Stores
    BY <2>4, StoreTypes DEF OwnTypes
  <2>6. /\ KnownStreams(store') = job.next
        /\ store'.streams_registered = HasAnyStreams(job.next)
    <3>1. store' = SetDaemonState(MarkApplySuccess(store, job.revision, job.next),
                                  "running")
      BY <1>4 DEF SyncSucceeds
    <3>2. KnownStreams(store')
             = KnownStreams(MarkApplySuccess(store, job.revision, job.next))
      BY <2>5, <3>1, KnownAfter DEF DaemonStates
    <3>3. KnownStreams(store') = job.next
      BY <2>4, <3>2, KnownAfter DEF OwnTypes
    <3> QED
      BY <2>4, <3>1, <3>3, RegisteredAfterSuccess DEF OwnTypes
  <2>7. \A s \in Untouched \cup job.done : held[s] = job.next[s]
    BY <2>1, <2>3 DEF HoldsKnown, MutexHeld
  <2>8. Untouched' = Streams \ strayed' /\ Untouched' \subseteq Untouched \cup job.done
    BY <2>1, <2>2 DEF Untouched
  <2>9. MutexHeld' /\ WorkBounded'
    BY <2>1, <2>2, <2>3 DEF MutexHeld, WorkBounded, DrainHolds
  <2>10. HoldsKnown'
    BY <2>1, <2>2, <2>3, <2>6, <2>7, <2>8 DEF HoldsKnown, DrainHolds
  <2>11. RegistrationTracked'
    <3>1. ASSUME strayed' = {} PROVE HasAnyStreams(held') <=> HasAnyStreams(job.next)
      BY <2>1, <2>7, <2>8, <3>1 DEF HasAnyStreams
    <3>2. at'["receive"] \notin {"drained", "forgotten"}
      BY <2>3 DEF DrainHolds
    <3> QED
      BY <2>6, <3>1, <3>2 DEF RegistrationTracked
  <2> QED
    BY <2>9, <2>10, <2>11
<1>5. ASSUME RetryLater PROVE StreamsTracked'
  <2>1. /\ at["sync"] = "retrying" /\ at'["sync"] = "waiting"
        /\ at'["receive"] = at["receive"]
        /\ reconcile_mutex' = "free"
        /\ strayed' = strayed \cup job.done
        /\ UNCHANGED <<held, asked, store>>
    BY <1>5 DEF RetryLater, Goto, node, OwnTypes, Pcs
  <2>2. job'.todo = {} /\ job'.done = {} /\ job'.next = EmptySnapshot
    BY <1>5 DEF RetryLater, NoJob
  <2>3. /\ SyncHolds /\ ~SyncHolds' /\ ~DrainHolds /\ ~DrainHolds'
        /\ ~Working' /\ asked = Node!NoCall
    BY <2>1 DEF MutexHeld, SyncHolds, DrainHolds, Working
  <2>4. Untouched' = Untouched
    BY <2>1, <2>2 DEF Untouched
  <2>5. MutexHeld' /\ WorkBounded'
    BY <2>1, <2>2, <2>3 DEF MutexHeld, WorkBounded, DrainHolds
  <2>6. HoldsKnown' /\ RegistrationTracked'
    BY <2>1, <2>2, <2>3, <2>4
    DEF HoldsKnown, RegistrationTracked, HasAnyStreams, DrainHolds
  <2> QED
    BY <2>5, <2>6
<1> QED
  BY <1>1, <1>2, <1>3, <1>4, <1>5

\* A restart and a shutdown of the Node: the daemon forgets what it knew, and with
\* it every stream that is held strays.
LEMMA RestartKeeps ==
    ASSUME OwnTypes, Node!TypeOK, Node!TypeOK', StreamsTracked,
           NodeConfused \/ RestartStop \/ RestartClears \/ StopNode
    PROVE  StreamsTracked'
<1>1. ASSUME NodeConfused \/ RestartStop PROVE StreamsTracked'
  <2>1. /\ NodeDisturbs /\ UNCHANGED <<asked, reconcile_mutex, store>>
        /\ at'["sync"] = at["sync"] /\ at'["receive"] = at["receive"]
    BY <1>1 DEF NodeConfused, RestartStop, Node!Confuse, Node!Stop, Goto, OwnTypes,
                Pcs
  <2> QED
    BY <2>1, DisturbsKeep
<1>2. ASSUME StopNode PROVE StreamsTracked'
  <2>1. /\ NodeDisturbs /\ UNCHANGED <<asked, reconcile_mutex>>
        /\ at'["sync"] = at["sync"] /\ at'["receive"] = at["receive"]
        /\ store' = SetDaemonState(store, "stopped")
    BY <1>2 DEF StopNode, Node!Stop, Goto, OwnTypes, Pcs
  <2>2. /\ KnownStreams(store') = KnownStreams(store)
        /\ store'.streams_registered = store.streams_registered
    BY <2>1, KnownAfter, RegisteredAfter DEF OwnTypes, DaemonStates
  <2> QED
    BY <2>1, <2>2, DisturbsKeep
<1>3. ASSUME RestartClears PROVE StreamsTracked'
  <2> USE DEF StreamsTracked
  <2>1. /\ store' = ClearLastSnapshot(store)
        /\ strayed' = strayed \cup {s \in Streams : held[s] # Absent}
        /\ at'["sync"] = at["sync"] /\ at'["receive"] = at["receive"]
        /\ UNCHANGED <<held, asked, reconcile_mutex, job>>
    BY <1>3 DEF RestartClears, Goto, node, OwnTypes, Pcs
  <2>2. /\ KnownStreams(store') = EmptySnapshot
        /\ store'.streams_registered = store.streams_registered
    BY <2>1, KnownAfter, RegisteredAfter DEF OwnTypes
  <2>3. /\ Untouched' \subseteq Untouched
        /\ \A s \in Untouched' : held[s] = EmptySnapshot[s]
    BY <2>1 DEF Untouched, EmptySnapshot
  <2>4. MutexHeld' /\ WorkBounded'
    BY <2>1 DEF MutexHeld, WorkBounded, SyncHolds, DrainHolds
  <2>5. HoldsKnown'
    BY <2>1, <2>2, <2>3 DEF HoldsKnown, Working, DrainHolds
  <2>6. RegistrationTracked'
    BY <2>1, <2>2 DEF RegistrationTracked, HasAnyStreams
  <2> QED
    BY <2>4, <2>5, <2>6
<1> QED
  BY <1>1, <1>2, <1>3

\* Each step keeps store, work and Node together.
LEMMA StreamsStep == TypeOK /\ StreamsTracked /\ [Next]_vars => StreamsTracked'
<1> SUFFICES ASSUME TypeOK, StreamsTracked, [Next]_vars
             PROVE  StreamsTracked'
  OBVIOUS
<1>1. OwnTypes /\ Node!TypeOK /\ Node!TypeOK'
  BY TypeStep DEF TypeOK, OwnTypes
<1>2. ASSUME Quiet PROVE StreamsTracked'
  BY <1>2, QuietKeeps
<1>3. CASE Calls
  BY <1>1, <1>3, CallsKeep DEF Calls
<1>4. CASE DrainBegins \/ Drained \/ DrainForgets \/ DrainEnds
  BY <1>1, <1>4, DrainKeeps
<1>5. CASE \/ BeginFetch \/ FetchReplies \/ FetchFails
           \/ SyncSucceeds \/ ReportFailure \/ RetryLater
  BY <1>1, <1>5, SyncKeeps
<1>6. CASE NodeConfused \/ RestartStop \/ RestartClears \/ StopNode
  BY <1>1, <1>6, RestartKeeps
<1> QED
  BY <1>1, <1>2, <1>3, <1>4, <1>5, <1>6, QuietSteps
  DEF Next, Connecting, OnDisconnected, Sync, Http, Main

\* At first there are no streams, and nothing is under way.
LEMMA StreamsInit == Init => StreamsTracked
BY DEF Init, Node!Init, StreamsTracked, MutexHeld, WorkBounded, HoldsKnown,
       RegistrationTracked, SyncHolds, DrainHolds, Working, Untouched, NoJob,
       KnownStreams, InitialStore, HasAnyStreams, EmptySnapshot

\* Between two reconciles, the Node holds what the store records of the streams
\* that did not stray, through every failed sync, drain and restart.
THEOREM StoreMatchesNode == Spec => []OnlyStrayedStreamsDiffer
<1>1. Init => TypeOK /\ StreamsTracked
  BY TypeInit, StreamsInit
<1>2. TypeOK /\ StreamsTracked /\ [Next]_vars => TypeOK' /\ StreamsTracked'
  BY TypeStep, StreamsStep
<1>3. StreamsTracked => OnlyStrayedStreamsDiffer
  BY DEF StreamsTracked, WorkBounded, HoldsKnown, Untouched,
         OnlyStrayedStreamsDiffer
<1> QED
  BY <1>1, <1>2, <1>3, PTL DEF Spec

\* As long as no stream strayed, streams_registered tells the truth between two
\* reconciles.
THEOREM ReportIsTrue == Spec => []ReportedRegistrationIsTrue
<1>1. Init => TypeOK /\ StreamsTracked
  BY TypeInit, StreamsInit
<1>2. TypeOK /\ StreamsTracked /\ [Next]_vars => TypeOK' /\ StreamsTracked'
  BY TypeStep, StreamsStep
<1>3. StreamsTracked => ReportedRegistrationIsTrue
  BY DEF StreamsTracked, WorkBounded, RegistrationTracked,
         ReportedRegistrationIsTrue
<1> QED
  BY <1>1, <1>2, <1>3, PTL DEF Spec

-----------------------------------------------------------------------------
(* A degraded daemon will sync again.                                      *)

\* Only a client that is being stopped ends its connection on its own side, so a
\* drain, the other source of "degraded", belongs to a daemon that stops.
DegradedTracked ==
    /\ stopping => stop_requested
    /\ at["receive"] \in {"disconnecting", "draining", "removing", "drained",
                          "forgotten"} => stop_requested
    /\ DegradedIsRetried

\* Each step keeps a degraded daemon at trying again.
LEMMA DegradedStep ==
    OwnTypes /\ DegradedTracked /\ [Next]_vars => DegradedTracked'
<1> SUFFICES ASSUME OwnTypes, DegradedTracked, [Next]_vars
             PROVE  DegradedTracked'
  OBVIOUS
<1> USE DEF OwnTypes, Pcs, Callers, DegradedTracked, DegradedIsRetried, Goto,
            request, client, Stores, SetDaemonState, SetLastSeenRevision,
            MarkSnapshotSignalReceived, MarkApplySuccess, MarkDrained,
            ClearLastSnapshot, ConsumePendingDrainNotification
<1>1. ASSUME WorldChanges PROVE DegradedTracked'
  BY <1>1 DEF WorldChanges
<1>2. ASSUME MessageArrives PROVE DegradedTracked'
  BY <1>2 DEF MessageArrives
<1>3. ASSUME ForceSync PROVE DegradedTracked'
  BY <1>3 DEF ForceSync
<1>4. ASSUME NEW c \in Callers, ReadStatus(c) PROVE DegradedTracked'
  BY <1>4 DEF ReadStatus
<1>5. ASSUME NEW c \in Callers, EnterSchedule(c) PROVE DegradedTracked'
  BY <1>5 DEF EnterSchedule, Leave, RequestSync, Client!Returns
<1>6. ASSUME NEW c \in Callers, PickRevision(c) PROVE DegradedTracked'
  BY <1>6 DEF PickRevision
<1>7. ASSUME ConnectionOpens PROVE DegradedTracked'
  BY <1>7 DEF ConnectionOpens, Client!Opens
<1>8. ASSUME ConnectionLost PROVE DegradedTracked'
  BY <1>8 DEF ConnectionLost, Client!Lost
<1>9. ASSUME HandleWsConnected PROVE DegradedTracked'
  BY <1>9 DEF HandleWsConnected
<1>10. ASSUME ConnectionCloses PROVE DegradedTracked'
  BY <1>10 DEF ConnectionCloses, Client!Closes
<1>11. ASSUME HandleWsDisconnected PROVE DegradedTracked'
  BY <1>11 DEF HandleWsDisconnected
<1>12. ASSUME ClientEnds PROVE DegradedTracked'
  BY <1>12 DEF ClientEnds, Client!Ends
<1>13. ASSUME NEW s \in Streams, CallNode(s) PROVE DegradedTracked'
  BY <1>13 DEF CallNode
<1>14. ASSUME CallDone PROVE DegradedTracked'
  BY <1>14 DEF CallDone
<1>15. ASSUME CallMissed PROVE DegradedTracked'
  BY <1>15 DEF CallMissed
<1>16. ASSUME CallThrows PROVE DegradedTracked'
  BY <1>16 DEF CallThrows
<1>17. ASSUME NodeConfused PROVE DegradedTracked'
  BY <1>17 DEF NodeConfused, NodeDisturbs
<1>18. ASSUME NodeReady PROVE DegradedTracked'
  BY <1>18 DEF NodeReady
<1>19. ASSUME DrainBegins PROVE DegradedTracked'
  BY <1>19 DEF DrainBegins
<1>20. ASSUME Drained PROVE DegradedTracked'
  BY <1>20 DEF Drained
<1>21. ASSUME DrainForgets PROVE DegradedTracked'
  BY <1>21 DEF DrainForgets
<1>22. ASSUME DrainEnds PROVE DegradedTracked'
  BY <1>22 DEF DrainEnds, Client!Returns
<1>23. ASSUME WakeUp PROVE DegradedTracked'
  BY <1>23 DEF WakeUp
<1>24. ASSUME DebounceEnds PROVE DegradedTracked'
  <2>1. CASE TakeRequest
    BY <2>1, <1>24 DEF TakeRequest, DebounceEnds
  <2>2. CASE ~TakeRequest
    <3>1. /\ Goto("sync", "debouncing", "delaying")
          /\ UNCHANGED <<store, request, client, stop_requested, history>>
      BY <2>2, <1>24 DEF DebounceEnds
    <3> QED
      BY <3>1
  <2> QED
    BY <2>1, <2>2
<1>25. ASSUME DelayEnds PROVE DegradedTracked'
  <2>1. CASE TakeRequest
    BY <2>1, <1>25 DEF TakeRequest, DelayEnds
  <2>2. CASE ~TakeRequest
    <3>1. /\ Goto("sync", "delaying", "waiting")
          /\ UNCHANGED <<store, request, client, stop_requested, history>>
      BY <2>2, <1>25 DEF DelayEnds
    <3> QED
      BY <3>1
  <2> QED
    BY <2>1, <2>2
<1>26. ASSUME SyncLoopStops PROVE DegradedTracked'
  BY <1>26 DEF SyncLoopStops
<1>27. ASSUME CheckStop PROVE DegradedTracked'
  BY <1>27 DEF CheckStop
<1>28. ASSUME BeginFetch PROVE DegradedTracked'
  BY <1>28 DEF BeginFetch
<1>29. ASSUME FetchReplies PROVE DegradedTracked'
  BY <1>29 DEF FetchReplies
<1>30. ASSUME FetchFails PROVE DegradedTracked'
  BY <1>30 DEF FetchFails
<1>31. ASSUME SyncSucceeds PROVE DegradedTracked'
  BY <1>31 DEF SyncSucceeds
<1>32. ASSUME ReportFailure PROVE DegradedTracked'
  BY <1>32 DEF ReportFailure
<1>33. ASSUME RetryLater PROVE DegradedTracked'
  BY <1>33 DEF RetryLater
<1>34. ASSUME RestartStop PROVE DegradedTracked'
  BY <1>34 DEF RestartStop, NodeDisturbs
<1>35. ASSUME RestartClears PROVE DegradedTracked'
  BY <1>35 DEF RestartClears
<1>36. ASSUME RestartStarts PROVE DegradedTracked'
  BY <1>36 DEF RestartStarts
<1>37. ASSUME RestartFails PROVE DegradedTracked'
  BY <1>37 DEF RestartFails
<1>38. ASSUME ConnectingWs PROVE DegradedTracked'
  BY <1>38 DEF ConnectingWs
<1>39. ASSUME RequestStop PROVE DegradedTracked'
  BY <1>39 DEF RequestStop
<1>40. ASSUME StopWs PROVE DegradedTracked'
  BY <1>40 DEF StopWs, Client!Stops
<1>41. ASSUME Joined PROVE DegradedTracked'
  BY <1>41 DEF Joined
<1>42. ASSUME StopNode PROVE DegradedTracked'
  BY <1>42 DEF StopNode, NodeDisturbs
<1>43. CASE UNCHANGED vars
  BY <1>43 DEF vars
<1> QED
  BY <1>1, <1>2, <1>3, <1>4, <1>5, <1>6, <1>7, <1>8, <1>9, <1>10, <1>11,
     <1>12, <1>13, <1>14, <1>15, <1>16, <1>17, <1>18, <1>19, <1>20, <1>21,
     <1>22, <1>23, <1>24, <1>25, <1>26, <1>27, <1>28, <1>29, <1>30, <1>31,
     <1>32, <1>33, <1>34, <1>35, <1>36, <1>37, <1>38, <1>39, <1>40, <1>41,
     <1>42, <1>43
     DEF Next, Message, Connecting, OnConnected, OnDisconnected, Sync, Calls,
         CallEnds, Http, Main, Callers

\* At first nothing is degraded.
LEMMA DegradedInit == Init => DegradedTracked
BY DEF Init, Client!Init, DegradedTracked, DegradedIsRetried, InitialStore

\* No interleaving leaves a daemon that is not stopping "degraded" with no sync
\* asked for or begun.
THEOREM DegradedRecovers == Spec => []DegradedIsRetried
<1>1. Init => TypeOK /\ DegradedTracked
  BY TypeInit, DegradedInit
<1>2. TypeOK => OwnTypes
  BY DEF TypeOK, OwnTypes
<1>3. TypeOK /\ DegradedTracked /\ [Next]_vars => TypeOK' /\ DegradedTracked'
  BY <1>2, TypeStep, DegradedStep
<1>4. DegradedTracked => DegradedIsRetried
  BY DEF DegradedTracked
<1> QED
  BY <1>1, <1>3, <1>4, PTL DEF Spec

=============================================================================
