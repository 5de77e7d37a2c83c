---------------------------- MODULE WsClientProofs ----------------------------
(***************************************************************************)
(* Proofs about WsClient, for any number of connections, messages and      *)
(* places in the queue: its types, that the send worker is woken, what the *)
(* queue holds after a cleanup, and that the client keeps the contract of  *)
(* module Connection.                                                      *)
(***************************************************************************)
EXTENDS WsClient, TLAPS

USE WsClientAssumption

-----------------------------------------------------------------------------
(* The queue as a sequence.                                                *)

\* What pop_front leaves.
LEMMA PopFront ==
    ASSUME NEW S, NEW q \in Seq(S), q # <<>>
    PROVE  /\ Tail(q) \in Seq(S)
           /\ Len(Tail(q)) = Len(q) - 1
           /\ Len(Tail(q)) \in Nat
           /\ \A i \in 1..Len(Tail(q)) : i + 1 \in 1..Len(q) /\ Tail(q)[i] = q[i + 1]
OBVIOUS

\* What push_back makes.
LEMMA PushBack ==
    ASSUME NEW S, NEW q \in Seq(S), NEW m \in S
    PROVE  /\ Append(q, m) \in Seq(S)
           /\ Len(q) \in Nat
           /\ Len(Append(q, m)) = Len(q) + 1
           /\ Append(q, m)[Len(q) + 1] = m
           /\ \A i \in 1..Len(q) : Append(q, m)[i] = q[i]
OBVIOUS

-----------------------------------------------------------------------------
(* Types                                                                   *)

LEMMA TypeStep == TypeOK /\ [Next]_vars => TypeOK'
<1> SUFFICES ASSUME TypeOK, [Next]_vars
             PROVE  TypeOK'
  OBVIOUS
<1> USE DEF TypeOK, network, history, Connections
<1>1. ASSUME Activity PROVE TypeOK'
  BY <1>1 DEF Activity
<1>2. ASSUME BadMessage PROVE TypeOK'
  <2>1. link' \in [Connections -> {"none", "open", "closing", "closed"}]
    BY <1>2 DEF BadMessage, CloseActiveClient
  <2> QED
    BY <1>2, <2>1 DEF BadMessage, CloseActiveClient
<1>3. ASSUME Silence PROVE TypeOK'
  BY <1>3 DEF Silence
<1>4. ASSUME NEW n \in Connections, LinkCloses(n) PROVE TypeOK'
  <2>1. link' \in [Connections -> {"none", "open", "closing", "closed"}]
    BY <1>4 DEF LinkCloses
  <2> QED
    BY <1>4, <2>1 DEF LinkCloses
<1>5. ASSUME HandshakeDone PROVE TypeOK'
  <2>1. at' \in Pcs
    BY <1>5 DEF HandshakeDone, Goto, Pcs, Senders
  <2>2. link' \in [Connections -> {"none", "open", "closing", "closed"}]
    BY <1>5 DEF HandshakeDone
  <2> QED
    BY <1>5, <2>1, <2>2 DEF HandshakeDone
<1>6. ASSUME HandshakeFails PROVE TypeOK'
  <2>1. at' \in Pcs
    BY <1>6 DEF HandshakeFails, Goto, Pcs, Senders
  <2> QED
    BY <1>6, <2>1 DEF HandshakeFails
<1>7. ASSUME PublishClient PROVE TypeOK'
  <2>1. at' \in Pcs
    BY <1>7 DEF PublishClient, Goto, Pcs, Senders
  <2> QED
    BY <1>7, <2>1 DEF PublishClient
<1>8. ASSUME RaiseConnected PROVE TypeOK'
  <2>1. at' \in Pcs
    BY <1>8 DEF RaiseConnected, Goto, Pcs, Senders
  <2> QED
    BY <1>8, <2>1 DEF RaiseConnected
<1>9. ASSUME OnConnectedReturns PROVE TypeOK'
  <2>1. at' \in Pcs
    BY <1>9 DEF OnConnectedReturns, Goto, Pcs, Senders
  <2> QED
    BY <1>9, <2>1 DEF OnConnectedReturns
<1>10. ASSUME WatchEnds PROVE TypeOK'
  <2>1. at' \in Pcs
    BY <1>10 DEF WatchEnds, Goto, Pcs, Senders
  <2> QED
    BY <1>10, <2>1 DEF WatchEnds
<1>11. ASSUME Exchange PROVE TypeOK'
  <2>1. at' \in Pcs
    BY <1>11 DEF Exchange, Goto, Pcs, Senders
  <2> QED
    BY <1>11, <2>1 DEF Exchange
<1>12. ASSUME ResetClient PROVE TypeOK'
  <2>1. at' \in Pcs
    BY <1>12 DEF ResetClient, Goto, Pcs, Senders
  <2>2. link' \in [Connections -> {"none", "open", "closing", "closed"}]
    BY <1>12 DEF ResetClient
  <2> QED
    BY <1>12, <2>1, <2>2 DEF ResetClient
<1>13. ASSUME ClearQueue PROVE TypeOK'
  <2>1. at' \in Pcs
    BY <1>13 DEF ClearQueue, QueueMutexFree, Goto, Pcs, Senders
  <2> QED
    BY <1>13, <2>1 DEF ClearQueue, QueueMutexFree
<1>14. ASSUME NotifyAfterCleanup PROVE TypeOK'
  <2>1. at' \in Pcs
    BY <1>14 DEF NotifyAfterCleanup, NotifySender, Goto, Pcs, Senders
  <2> QED
    BY <1>14, <2>1 DEF NotifyAfterCleanup, NotifySender
<1>15. ASSUME OnDisconnectedReturns PROVE TypeOK'
  <2>1. at' \in Pcs
    BY <1>15 DEF OnDisconnectedReturns, Goto, Pcs, Senders
  <2> QED
    BY <1>15, <2>1 DEF OnDisconnectedReturns
<1>16. ASSUME SleepEnds PROVE TypeOK'
  <2>1. at' \in Pcs
    BY <1>16 DEF SleepEnds, Goto, Pcs, Senders
  <2> QED
    BY <1>16, <2>1 DEF SleepEnds
<1>17. ASSUME SendChecks PROVE TypeOK'
  <2>1. at' \in Pcs
    BY <1>17 DEF SendChecks, Goto, Pcs, Senders
  <2>2. send_queue' \in Seq(Messages)
    <3>1. \/ send_queue' = send_queue
          \/ send_queue # <<>> /\ send_queue' = Tail(send_queue)
      BY <1>17 DEF SendChecks
    <3>2. send_queue \in Seq(Messages)
      OBVIOUS
    <3> QED
      BY <3>1, <3>2, PopFront
  <2> QED
    BY <1>17, <2>1, <2>2 DEF SendChecks
<1>18. ASSUME SendBlocks PROVE TypeOK'
  <2>1. at' \in Pcs
    BY <1>18 DEF SendBlocks, Goto, Pcs, Senders
  <2> QED
    BY <1>18, <2>1 DEF SendBlocks
<1>19. ASSUME TakeClient PROVE TypeOK'
  <2>1. at' \in Pcs
    BY <1>19 DEF TakeClient, Goto, Pcs, Senders
  <2> QED
    BY <1>19, <2>1 DEF TakeClient
<1>20. ASSUME SendOrDrop PROVE TypeOK'
  <2>1. at' \in Pcs
    BY <1>20 DEF SendOrDrop, CloseActiveClient, Goto, Pcs, Senders
  <2>2. link' \in [Connections -> {"none", "open", "closing", "closed"}]
    BY <1>20 DEF SendOrDrop, CloseActiveClient
  <2> QED
    BY <1>20, <2>1, <2>2 DEF SendOrDrop, CloseActiveClient
<1>21. ASSUME HeartbeatWakes PROVE TypeOK'
  <2>1. at' \in Pcs
    BY <1>21 DEF HeartbeatWakes, Goto, Pcs, Senders
  <2> QED
    BY <1>21, <2>1 DEF HeartbeatWakes
<1>22. ASSUME HeartbeatStops PROVE TypeOK'
  <2>1. at' \in Pcs
    BY <1>22 DEF HeartbeatStops, Goto, Pcs, Senders
  <2> QED
    BY <1>22, <2>1 DEF HeartbeatStops
<1>23. ASSUME JudgeActivity PROVE TypeOK'
  <2>1. at' \in Pcs
    BY <1>23 DEF JudgeActivity, Goto, Pcs, Senders
  <2> QED
    BY <1>23, <2>1 DEF JudgeActivity
<1>24. ASSUME QueuePing PROVE TypeOK'
  <2>1. at' \in Pcs
    BY <1>24 DEF QueuePing, Goto, Pcs, Senders
  <2>2. made' \in [Senders -> 0..MaxConnects]
    BY <1>24 DEF QueuePing, Senders
  <2> QED
    BY <1>24, <2>1, <2>2 DEF QueuePing
<1>25. ASSUME NEW t \in Senders, Push(t) PROVE TypeOK'
  <2>1. at' \in Pcs
    BY <1>25 DEF Push, QueueMutexFree, Goto, Pcs, Senders
  <2>2. send_queue' \in Seq(Messages)
    BY <1>25 DEF Push, QueueMutexFree, Messages
  <2> QED
    BY <1>25, <2>1, <2>2 DEF Push, QueueMutexFree
<1>26. ASSUME Notify("heartbeat", "sleeping") PROVE TypeOK'
  <2>1. at' \in Pcs
    BY <1>26 DEF Notify, NotifySender, Goto, Pcs, Senders
  <2> QED
    BY <1>26, <2>1 DEF Notify, NotifySender
<1>27. ASSUME HeartbeatCloses PROVE TypeOK'
  <2>1. at' \in Pcs
    BY <1>27 DEF HeartbeatCloses, CloseActiveClient, Goto, Pcs, Senders
  <2>2. link' \in [Connections -> {"none", "open", "closing", "closed"}]
    BY <1>27 DEF HeartbeatCloses, CloseActiveClient
  <2> QED
    BY <1>27, <2>1, <2>2 DEF HeartbeatCloses, CloseActiveClient
<1>28. ASSUME CallSend PROVE TypeOK'
  <2>1. at' \in Pcs
    BY <1>28 DEF CallSend, Goto, Pcs, Senders
  <2>2. made' \in [Senders -> 0..MaxConnects]
    BY <1>28 DEF CallSend, Senders
  <2> QED
    BY <1>28, <2>1, <2>2 DEF CallSend
<1>29. ASSUME Notify("caller", "idle") PROVE TypeOK'
  <2>1. at' \in Pcs
    BY <1>29 DEF Notify, NotifySender, Goto, Pcs, Senders
  <2> QED
    BY <1>29, <2>1 DEF Notify, NotifySender
<1>30. ASSUME StopRequested PROVE TypeOK'
  <2>1. at' \in Pcs
    BY <1>30 DEF StopRequested, Goto, Pcs, Senders
  <2> QED
    BY <1>30, <2>1 DEF StopRequested
<1>31. ASSUME StopNotifies PROVE TypeOK'
  <2>1. at' \in Pcs
    BY <1>31 DEF StopNotifies, NotifySender, Goto, Pcs, Senders
  <2> QED
    BY <1>31, <2>1 DEF StopNotifies, NotifySender
<1>32. ASSUME StopCloses PROVE TypeOK'
  <2>1. at' \in Pcs
    BY <1>32 DEF StopCloses, CloseActiveClient, Goto, Pcs, Senders
  <2>2. link' \in [Connections -> {"none", "open", "closing", "closed"}]
    BY <1>32 DEF StopCloses, CloseActiveClient
  <2> QED
    BY <1>32, <2>1, <2>2 DEF StopCloses, CloseActiveClient
<1>33. ASSUME JoinReceive PROVE TypeOK'
  <2>1. at' \in Pcs
    BY <1>33 DEF JoinReceive, Join, Goto, Pcs, Senders
  <2> QED
    BY <1>33, <2>1 DEF JoinReceive, Join
<1>34. ASSUME JoinSend PROVE TypeOK'
  <2>1. at' \in Pcs
    BY <1>34 DEF JoinSend, Join, Goto, Pcs, Senders
  <2> QED
    BY <1>34, <2>1 DEF JoinSend, Join
<1>35. ASSUME JoinHeartbeat PROVE TypeOK'
  <2>1. at' \in Pcs
    BY <1>35 DEF JoinHeartbeat, Join, Goto, Pcs, Senders
  <2> QED
    BY <1>35, <2>1 DEF JoinHeartbeat, Join
<1>36. CASE UNCHANGED vars
  BY <1>36 DEF vars
<1> QED
  BY <1>1, <1>2, <1>3, <1>4, <1>5, <1>6, <1>7, <1>8, <1>9, <1>10, <1>11,
     <1>12, <1>13, <1>14, <1>15, <1>16, <1>17, <1>18, <1>19, <1>20, <1>21,
     <1>22, <1>23, <1>24, <1>25, <1>26, <1>27, <1>28, <1>29, <1>30, <1>31,
     <1>32, <1>33, <1>34, <1>35, <1>36
     DEF Next, Peer, Receive, Send, Heartbeat, SendJson, Stop, Senders

\* A client that has just been started is of the types.
LEMMA TypeInit == Init => TypeOK
<1> SUFFICES ASSUME Init PROVE TypeOK
  OBVIOUS
<1>1. at \in Pcs
  BY DEF Init, Pcs
<1>2. send_queue \in Seq(Messages)
  BY DEF Init
<1>3. made \in [Senders -> 0..MaxConnects]
  BY DEF Init
<1>4. MaxConnects \in Nat /\ MaxTexts \in Nat
  OBVIOUS
<1>5. link \in [Connections -> {"none", "open", "closing", "closed"}]
  BY DEF Init
<1>6. zombies \in SUBSET Connections
  BY DEF Init
<1>7. /\ stop_requested \in BOOLEAN /\ connected \in BOOLEAN
      /\ idle \in BOOLEAN /\ was_connected \in BOOLEAN
  BY DEF Init
<1>8. /\ client \in 0..MaxConnects /\ taken \in 0..MaxConnects
      /\ last \in 0..MaxConnects /\ cleared \in 0..MaxConnects
      /\ texts \in 0..MaxTexts
  BY <1>4 DEF Init
<1> QED
  BY <1>1, <1>2, <1>3, <1>5, <1>6, <1>7, <1>8 DEF TypeOK

\* Every variable of the client stays in its type.
THEOREM TypeCorrect == Spec => []TypeOK
<1>1. Init => TypeOK
  BY TypeInit
<1>2. TypeOK /\ [Next]_vars => TypeOK'
  BY TypeStep
<1> QED
  BY <1>1, <1>2, PTL DEF Spec

-----------------------------------------------------------------------------
(* The send worker is woken.                                               *)

\* Nothing is pushed while the worker is about to block, for it holds the mutex:
\* a notification it is too early to hear is one for an empty queue.
SenderTracked ==
    /\ at["send"] = "parking" => send_queue = <<>>
    /\ SenderIsWoken

\* Each step leaves a notification on the way for a send worker that needs it.
LEMMA SenderStep == TypeOK /\ SenderTracked /\ [Next]_vars => SenderTracked'
<1> SUFFICES ASSUME TypeOK, SenderTracked, [Next]_vars
             PROVE  SenderTracked'
  OBVIOUS
<1> USE DEF TypeOK, Pcs, network, history, SenderTracked, SenderIsWoken, Goto,
            Senders
<1>1. ASSUME Activity PROVE SenderTracked'
  BY <1>1 DEF Activity
<1>2. ASSUME BadMessage PROVE SenderTracked'
  BY <1>2 DEF BadMessage, CloseActiveClient
<1>3. ASSUME Silence PROVE SenderTracked'
  BY <1>3 DEF Silence
<1>4. ASSUME NEW n \in Connections, LinkCloses(n) PROVE SenderTracked'
  BY <1>4 DEF LinkCloses
<1>5. ASSUME HandshakeDone PROVE SenderTracked'
  BY <1>5 DEF HandshakeDone
<1>6. ASSUME HandshakeFails PROVE SenderTracked'
  BY <1>6 DEF HandshakeFails
<1>7. ASSUME PublishClient PROVE SenderTracked'
  BY <1>7 DEF PublishClient
<1>8. ASSUME RaiseConnected PROVE SenderTracked'
  BY <1>8 DEF RaiseConnected
<1>9. ASSUME OnConnectedReturns PROVE SenderTracked'
  BY <1>9 DEF OnConnectedReturns
<1>10. ASSUME WatchEnds PROVE SenderTracked'
  BY <1>10 DEF WatchEnds
<1>11. ASSUME Exchange PROVE SenderTracked'
  BY <1>11 DEF Exchange
<1>12. ASSUME ResetClient PROVE SenderTracked'
  BY <1>12 DEF ResetClient
<1>13. ASSUME ClearQueue PROVE SenderTracked'
  BY <1>13 DEF ClearQueue, QueueMutexFree
<1>14. ASSUME NotifyAfterCleanup PROVE SenderTracked'
  BY <1>14 DEF NotifyAfterCleanup, NotifySender
<1>15. ASSUME OnDisconnectedReturns PROVE SenderTracked'
  BY <1>15 DEF OnDisconnectedReturns
<1>16. ASSUME SleepEnds PROVE SenderTracked'
  BY <1>16 DEF SleepEnds
<1>17. ASSUME SendChecks PROVE SenderTracked'
  BY <1>17 DEF SendChecks
<1>18. ASSUME SendBlocks PROVE SenderTracked'
  BY <1>18 DEF SendBlocks
<1>19. ASSUME TakeClient PROVE SenderTracked'
  BY <1>19 DEF TakeClient
<1>20. ASSUME SendOrDrop PROVE SenderTracked'
  BY <1>20 DEF SendOrDrop, CloseActiveClient
<1>21. ASSUME HeartbeatWakes PROVE SenderTracked'
  BY <1>21 DEF HeartbeatWakes
<1>22. ASSUME HeartbeatStops PROVE SenderTracked'
  BY <1>22 DEF HeartbeatStops
<1>23. ASSUME JudgeActivity PROVE SenderTracked'
  BY <1>23 DEF JudgeActivity
<1>24. ASSUME QueuePing PROVE SenderTracked'
  BY <1>24 DEF QueuePing
<1>25. ASSUME NEW t \in Senders, Push(t) PROVE SenderTracked'
  BY <1>25 DEF Push, QueueMutexFree
<1>26. ASSUME Notify("heartbeat", "sleeping") PROVE SenderTracked'
  BY <1>26 DEF Notify, NotifySender
<1>27. ASSUME HeartbeatCloses PROVE SenderTracked'
  BY <1>27 DEF HeartbeatCloses, CloseActiveClient
<1>28. ASSUME CallSend PROVE SenderTracked'
  BY <1>28 DEF CallSend
<1>29. ASSUME Notify("caller", "idle") PROVE SenderTracked'
  BY <1>29 DEF Notify, NotifySender
<1>30. ASSUME StopRequested PROVE SenderTracked'
  BY <1>30 DEF StopRequested
<1>31. ASSUME StopNotifies PROVE SenderTracked'
  BY <1>31 DEF StopNotifies, NotifySender
<1>32. ASSUME StopCloses PROVE SenderTracked'
  BY <1>32 DEF StopCloses, CloseActiveClient
<1>33. ASSUME JoinReceive PROVE SenderTracked'
  BY <1>33 DEF JoinReceive, Join
<1>34. ASSUME JoinSend PROVE SenderTracked'
  BY <1>34 DEF JoinSend, Join
<1>35. ASSUME JoinHeartbeat PROVE SenderTracked'
  BY <1>35 DEF JoinHeartbeat, Join
<1>36. CASE UNCHANGED vars
  BY <1>36 DEF vars
<1> QED
  BY <1>1, <1>2, <1>3, <1>4, <1>5, <1>6, <1>7, <1>8, <1>9, <1>10, <1>11,
     <1>12, <1>13, <1>14, <1>15, <1>16, <1>17, <1>18, <1>19, <1>20, <1>21,
     <1>22, <1>23, <1>24, <1>25, <1>26, <1>27, <1>28, <1>29, <1>30, <1>31,
     <1>32, <1>33, <1>34, <1>35, <1>36
     DEF Next, Peer, Receive, Send, Heartbeat, SendJson, Stop, Senders

\* At first nobody sleeps.
LEMMA SenderInit == Init => SenderTracked
BY DEF Init, SenderTracked, SenderIsWoken

\* A message never waits for a worker that sleeps with nobody to wake it.
THEOREM SenderAlwaysWoken == Spec => []SenderIsWoken
<1>1. Init => TypeOK /\ SenderTracked
  BY TypeInit, SenderInit
<1>2. TypeOK /\ SenderTracked /\ [Next]_vars => TypeOK' /\ SenderTracked'
  BY TypeStep, SenderStep
<1>3. SenderTracked => SenderIsWoken
  BY DEF SenderTracked
<1> QED
  BY <1>1, <1>2, <1>3, PTL DEF Spec

-----------------------------------------------------------------------------
(* The contract.                                                           *)

\* connected_ is raised only by the receive worker, and the watch loop is left
\* with the flag up by a client that is stopping, only.
FlagTracked ==
    /\ connected => at["receive"] \in {"announcing", "watching", "ended"}
    /\ connected /\ at["receive"] = "ended" => stop_requested

ContractKept == FlagTracked' /\ [Contract!Next]_(Contract!vars)

\* Each step of the client is one of Connection, or none of its business.
LEMMA ContractStep == TypeOK /\ FlagTracked /\ [Next]_vars => ContractKept
<1> SUFFICES ASSUME TypeOK, FlagTracked, [Next]_vars
             PROVE  ContractKept
  OBVIOUS
<1> USE DEF TypeOK, Pcs, network, history, FlagTracked, ContractKept, Goto, Senders,
            calling, Contract!vars, Contract!Next, Contract!Opens,
            Contract!Lost, Contract!Closes, Contract!Returns, Contract!Stops,
            Contract!Ends
<1>1. ASSUME Activity PROVE ContractKept
  BY <1>1 DEF Activity
<1>2. ASSUME BadMessage PROVE ContractKept
  BY <1>2 DEF BadMessage, CloseActiveClient
<1>3. ASSUME Silence PROVE ContractKept
  BY <1>3 DEF Silence
<1>4. ASSUME NEW n \in Connections, LinkCloses(n) PROVE ContractKept
  BY <1>4 DEF LinkCloses
<1>5. ASSUME HandshakeDone PROVE ContractKept
  BY <1>5 DEF HandshakeDone
<1>6. ASSUME HandshakeFails PROVE ContractKept
  BY <1>6 DEF HandshakeFails
<1>7. ASSUME PublishClient PROVE ContractKept
  BY <1>7 DEF PublishClient
<1>8. ASSUME RaiseConnected PROVE ContractKept
  BY <1>8 DEF RaiseConnected
<1>9. ASSUME OnConnectedReturns PROVE ContractKept
  BY <1>9 DEF OnConnectedReturns
<1>10. ASSUME WatchEnds PROVE ContractKept
  BY <1>10 DEF WatchEnds
<1>11. ASSUME Exchange PROVE ContractKept
  BY <1>11 DEF Exchange
<1>12. ASSUME ResetClient PROVE ContractKept
  BY <1>12 DEF ResetClient
<1>13. ASSUME ClearQueue PROVE ContractKept
  BY <1>13 DEF ClearQueue, QueueMutexFree
<1>14. ASSUME NotifyAfterCleanup PROVE ContractKept
  BY <1>14 DEF NotifyAfterCleanup, NotifySender
<1>15. ASSUME OnDisconnectedReturns PROVE ContractKept
  BY <1>15 DEF OnDisconnectedReturns
<1>16. ASSUME SleepEnds PROVE ContractKept
  BY <1>16 DEF SleepEnds
<1>17. ASSUME SendChecks PROVE ContractKept
  BY <1>17 DEF SendChecks
<1>18. ASSUME SendBlocks PROVE ContractKept
  BY <1>18 DEF SendBlocks
<1>19. ASSUME TakeClient PROVE ContractKept
  BY <1>19 DEF TakeClient
<1>20. ASSUME SendOrDrop PROVE ContractKept
  BY <1>20 DEF SendOrDrop, CloseActiveClient
<1>21. ASSUME HeartbeatWakes PROVE ContractKept
  BY <1>21 DEF HeartbeatWakes
<1>22. ASSUME HeartbeatStops PROVE ContractKept
  BY <1>22 DEF HeartbeatStops
<1>23. ASSUME JudgeActivity PROVE ContractKept
  BY <1>23 DEF JudgeActivity
<1>24. ASSUME QueuePing PROVE ContractKept
  BY <1>24 DEF QueuePing
<1>25. ASSUME NEW t \in Senders, Push(t) PROVE ContractKept
  BY <1>25 DEF Push, QueueMutexFree
<1>26. ASSUME Notify("heartbeat", "sleeping") PROVE ContractKept
  BY <1>26 DEF Notify, NotifySender
<1>27. ASSUME HeartbeatCloses PROVE ContractKept
  BY <1>27 DEF HeartbeatCloses, CloseActiveClient
<1>28. ASSUME CallSend PROVE ContractKept
  BY <1>28 DEF CallSend
<1>29. ASSUME Notify("caller", "idle") PROVE ContractKept
  BY <1>29 DEF Notify, NotifySender
<1>30. ASSUME StopRequested PROVE ContractKept
  BY <1>30 DEF StopRequested
<1>31. ASSUME StopNotifies PROVE ContractKept
  BY <1>31 DEF StopNotifies, NotifySender
<1>32. ASSUME StopCloses PROVE ContractKept
  BY <1>32 DEF StopCloses, CloseActiveClient
<1>33. ASSUME JoinReceive PROVE ContractKept
  BY <1>33 DEF JoinReceive, Join
<1>34. ASSUME JoinSend PROVE ContractKept
  BY <1>34 DEF JoinSend, Join
<1>35. ASSUME JoinHeartbeat PROVE ContractKept
  BY <1>35 DEF JoinHeartbeat, Join
<1>36. CASE UNCHANGED vars
  BY <1>36 DEF vars
<1> QED
  BY <1>1, <1>2, <1>3, <1>4, <1>5, <1>6, <1>7, <1>8, <1>9, <1>10, <1>11,
     <1>12, <1>13, <1>14, <1>15, <1>16, <1>17, <1>18, <1>19, <1>20, <1>21,
     <1>22, <1>23, <1>24, <1>25, <1>26, <1>27, <1>28, <1>29, <1>30, <1>31,
     <1>32, <1>33, <1>34, <1>35, <1>36
     DEF Next, Peer, Receive, Send, Heartbeat, SendJson, Stop, Senders

\* At first there is no connection, as Connection has it.
LEMMA ContractInit == Init => FlagTracked /\ Contract!Init
BY DEF Init, FlagTracked, calling, Contract!Init

\* Seen through is_connected() and the callbacks, the client and its threads do
\* only what Connection allows.
THEOREM ClientImplementsConnection == Spec => ImplementsConnection
<1>1. Init => TypeOK /\ FlagTracked /\ Contract!Init
  BY TypeInit, ContractInit
<1>2. TypeOK /\ FlagTracked /\ [Next]_vars =>
          TypeOK' /\ FlagTracked' /\ [Contract!Next]_(Contract!vars)
  BY TypeStep, ContractStep DEF ContractKept
<1> QED
  BY <1>1, <1>2, PTL DEF Spec, Contract!Spec, ImplementsConnection

-----------------------------------------------------------------------------
(* What a cleanup leaves in the queue.                                     *)

\* A client that counts as connected was cleaned up after no later than the
\* connection before: what is made for it is not stale.
Numbered ==
    /\ cleared <= last
    /\ at["receive"] \in {"publishing", "raising", "announcing", "watching"} =>
           cleared < last
    /\ connected => cleared < last

\* A sender on its way to push a stale message has not pushed one since the
\* queue was cleared.
StaleTracked ==
    /\ Numbered
    /\ OneStaleMessagePerSender
    /\ \A t \in Senders :
          at[t] = "pushing" /\ made[t] <= cleared =>
              \A i \in 1..Len(send_queue) : send_queue[i].by = t => ~Stale(i)

\* Each step keeps the stale messages of a sender down to one.
LEMMA StaleStep == TypeOK /\ FlagTracked /\ StaleTracked /\ [Next]_vars => StaleTracked'
<1> SUFFICES ASSUME TypeOK, FlagTracked, StaleTracked, [Next]_vars
             PROVE  StaleTracked'
  OBVIOUS
<1> USE DEF TypeOK, Pcs, network, history, FlagTracked, StaleTracked, Numbered,
            OneStaleMessagePerSender, Stale, Goto, Senders, Messages
<1>1. ASSUME Activity PROVE StaleTracked'
  BY <1>1 DEF Activity
<1>2. ASSUME BadMessage PROVE StaleTracked'
  BY <1>2 DEF BadMessage, CloseActiveClient
<1>3. ASSUME Silence PROVE StaleTracked'
  BY <1>3 DEF Silence
<1>4. ASSUME NEW n \in Connections, LinkCloses(n) PROVE StaleTracked'
  BY <1>4 DEF LinkCloses
<1>5. ASSUME HandshakeDone PROVE StaleTracked'
  BY <1>5 DEF HandshakeDone
<1>6. ASSUME HandshakeFails PROVE StaleTracked'
  BY <1>6 DEF HandshakeFails
<1>7. ASSUME PublishClient PROVE StaleTracked'
  BY <1>7 DEF PublishClient
<1>8. ASSUME RaiseConnected PROVE StaleTracked'
  BY <1>8 DEF RaiseConnected
<1>9. ASSUME OnConnectedReturns PROVE StaleTracked'
  BY <1>9 DEF OnConnectedReturns
<1>10. ASSUME WatchEnds PROVE StaleTracked'
  BY <1>10 DEF WatchEnds
<1>11. ASSUME Exchange PROVE StaleTracked'
  BY <1>11 DEF Exchange
<1>12. ASSUME ResetClient PROVE StaleTracked'
  BY <1>12 DEF ResetClient
<1>13. ASSUME ClearQueue PROVE StaleTracked'
  <2>1. send_queue' = <<>> /\ 1..Len(send_queue') = {}
    BY <1>13 DEF ClearQueue
  <2>2. Numbered'
    BY <1>13 DEF ClearQueue
  <2> QED
    BY <2>1, <2>2
<1>14. ASSUME NotifyAfterCleanup PROVE StaleTracked'
  BY <1>14 DEF NotifyAfterCleanup, NotifySender
<1>15. ASSUME OnDisconnectedReturns PROVE StaleTracked'
  BY <1>15 DEF OnDisconnectedReturns
<1>16. ASSUME SleepEnds PROVE StaleTracked'
  BY <1>16 DEF SleepEnds
<1>17. ASSUME SendChecks PROVE StaleTracked'
  <2>1. CASE UNCHANGED send_queue
    <3>1. UNCHANGED <<send_queue, cleared, made, last, connected>>
      BY <2>1, <1>17 DEF SendChecks
    <3>2. \A t \in Senders : at'[t] = at[t]
      BY <1>17 DEF SendChecks
    <3>3. Numbered'
      BY <1>17 DEF SendChecks
    <3> QED
      BY <3>1, <3>2, <3>3
  <2>2. CASE send_queue # <<>> /\ send_queue' = Tail(send_queue)
    <3>1. /\ Len(send_queue') \in Nat
          /\ \A i \in 1..Len(send_queue') :
                i + 1 \in 1..Len(send_queue) /\ send_queue'[i] = send_queue[i + 1]
      BY <2>2, PopFront
    <3>2. UNCHANGED <<cleared, made, last, connected>>
      BY <2>2, <1>17 DEF SendChecks
    <3>3. Numbered'
      BY <2>2, <1>17 DEF SendChecks
    <3>4. ASSUME NEW i \in 1..Len(send_queue'), NEW j \in 1..Len(send_queue'),
                 Stale(i)', Stale(j)', send_queue'[i].by = send_queue'[j].by
          PROVE  i = j
      <4>1. i + 1 \in 1..Len(send_queue) /\ j + 1 \in 1..Len(send_queue)
        BY <3>1
      <4>2. Stale(i + 1) /\ Stale(j + 1)
        BY <3>1, <3>2, <3>4
      <4>3. send_queue[i + 1].by = send_queue[j + 1].by
        BY <3>1, <3>4
      <4>4. i + 1 = j + 1
        BY <4>1, <4>2, <4>3
      <4> QED
        BY <4>4, <3>1
    <3>5. \A t \in Senders : at'[t] = at[t]
      BY <2>2, <1>17 DEF SendChecks
    <3>6. ASSUME NEW t \in Senders, at'[t] = "pushing", made'[t] <= cleared',
                 NEW i \in 1..Len(send_queue'), send_queue'[i].by = t
          PROVE  ~Stale(i)'
      <4>1. i + 1 \in 1..Len(send_queue) /\ send_queue[i + 1].by = t
        BY <3>1, <3>6
      <4>2. ~Stale(i + 1)
        BY <3>2, <3>5, <3>6, <4>1
      <4> QED
        BY <3>1, <3>2, <4>2
    <3> QED
      BY <3>3, <3>4, <3>6
  <2> QED
    BY <2>1, <2>2, <1>17 DEF SendChecks
<1>18. ASSUME SendBlocks PROVE StaleTracked'
  BY <1>18 DEF SendBlocks
<1>19. ASSUME TakeClient PROVE StaleTracked'
  BY <1>19 DEF TakeClient
<1>20. ASSUME SendOrDrop PROVE StaleTracked'
  BY <1>20 DEF SendOrDrop, CloseActiveClient
<1>21. ASSUME HeartbeatWakes PROVE StaleTracked'
  BY <1>21 DEF HeartbeatWakes
<1>22. ASSUME HeartbeatStops PROVE StaleTracked'
  BY <1>22 DEF HeartbeatStops
<1>23. ASSUME JudgeActivity PROVE StaleTracked'
  BY <1>23 DEF JudgeActivity
<1>24. ASSUME QueuePing PROVE StaleTracked'
  BY <1>24 DEF QueuePing
<1>25. ASSUME NEW t \in Senders, Push(t) PROVE StaleTracked'
  <2> DEFINE m == [made |-> made[t], by |-> t]
             n == Len(send_queue)
  <2>1. m \in Messages /\ m.made = made[t] /\ m.by = t
    OBVIOUS
  <2>2. send_queue' = Append(send_queue, m)
    BY <1>25 DEF Push
  <2>3. UNCHANGED <<cleared, made, last, connected>>
    BY <1>25 DEF Push
  <2> HIDE DEF m
  <2>4. /\ n \in Nat
        /\ Len(send_queue') = n + 1
        /\ send_queue'[n + 1] = m
        /\ \A i \in 1..n : send_queue'[i] = send_queue[i]
    BY <2>1, <2>2, PushBack
  <2>5. \A i \in 1..n + 1 : i \in 1..n \/ i = n + 1
    BY <2>4
  <2>6. Numbered'
    BY <1>25 DEF Push
  <2>7. at[t] = "pushing" /\ at'[t] = "notifying"
    BY <1>25 DEF Push
  <2>8. made[t] <= cleared =>
            \A i \in 1..n : send_queue[i].by = t => ~(send_queue[i].made <= cleared)
    BY <2>7
  <2>9. ASSUME NEW i \in 1..Len(send_queue'), NEW j \in 1..Len(send_queue'),
               Stale(i)', Stale(j)', send_queue'[i].by = send_queue'[j].by
        PROVE  i = j
    <3>1. CASE i \in 1..n /\ j \in 1..n
      <4>1. Stale(i) /\ Stale(j) /\ send_queue[i].by = send_queue[j].by
        BY <2>3, <2>4, <2>9, <3>1
      <4> QED
        BY <3>1, <4>1
    <3>2. CASE i \in 1..n /\ j = n + 1
      BY <2>1, <2>3, <2>4, <2>8, <2>9, <3>2
    <3>3. CASE i = n + 1 /\ j \in 1..n
      BY <2>1, <2>3, <2>4, <2>8, <2>9, <3>3
    <3>4. CASE i = n + 1 /\ j = n + 1
      BY <3>4
    <3> QED
      BY <2>4, <2>5, <3>1, <3>2, <3>3, <3>4
  <2>10. ASSUME NEW u \in Senders, u # t, at'[u] = "pushing", made'[u] <= cleared'
         PROVE  \A i \in 1..Len(send_queue') : send_queue'[i].by = u => ~Stale(i)'
    <3>1. at[u] = "pushing"
      BY <2>10, <1>25 DEF Push
    <3> QED
      BY <2>1, <2>3, <2>4, <2>5, <2>10, <3>1
  <2> QED
    BY <2>6, <2>7, <2>9, <2>10
<1>26. ASSUME Notify("heartbeat", "sleeping") PROVE StaleTracked'
  BY <1>26 DEF Notify, NotifySender
<1>27. ASSUME HeartbeatCloses PROVE StaleTracked'
  BY <1>27 DEF HeartbeatCloses, CloseActiveClient
<1>28. ASSUME CallSend PROVE StaleTracked'
  BY <1>28 DEF CallSend
<1>29. ASSUME Notify("caller", "idle") PROVE StaleTracked'
  BY <1>29 DEF Notify, NotifySender
<1>30. ASSUME StopRequested PROVE StaleTracked'
  BY <1>30 DEF StopRequested
<1>31. ASSUME StopNotifies PROVE StaleTracked'
  BY <1>31 DEF StopNotifies, NotifySender
<1>32. ASSUME StopCloses PROVE StaleTracked'
  BY <1>32 DEF StopCloses, CloseActiveClient
<1>33. ASSUME JoinReceive PROVE StaleTracked'
  BY <1>33 DEF JoinReceive, Join
<1>34. ASSUME JoinSend PROVE StaleTracked'
  BY <1>34 DEF JoinSend, Join
<1>35. ASSUME JoinHeartbeat PROVE StaleTracked'
  BY <1>35 DEF JoinHeartbeat, Join
<1>36. CASE UNCHANGED vars
  BY <1>36 DEF vars
<1> QED
  BY <1>1, <1>2, <1>3, <1>4, <1>5, <1>6, <1>7, <1>8, <1>9, <1>10, <1>11,
     <1>12, <1>13, <1>14, <1>15, <1>16, <1>17, <1>18, <1>19, <1>20, <1>21,
     <1>22, <1>23, <1>24, <1>25, <1>26, <1>27, <1>28, <1>29, <1>30, <1>31,
     <1>32, <1>33, <1>34, <1>35, <1>36
     DEF Next, Peer, Receive, Send, Heartbeat, SendJson, Stop, Senders

\* At first nothing is queued.
LEMMA StaleInit == Init => StaleTracked
BY DEF Init, StaleTracked, Numbered, OneStaleMessagePerSender, Stale, Senders

\* However the senders and the cleanup interleave, the next connection finds at
\* most one message of each sender that was not made for it.
THEOREM StaleMessagesAreFew == Spec => []OneStaleMessagePerSender
<1>1. Init => TypeOK /\ FlagTracked /\ StaleTracked
  BY TypeInit, ContractInit, StaleInit
<1>2. TypeOK /\ FlagTracked /\ StaleTracked /\ [Next]_vars =>
          TypeOK' /\ FlagTracked' /\ StaleTracked'
  BY TypeStep, ContractStep, StaleStep DEF ContractKept
<1>3. StaleTracked => OneStaleMessagePerSender
  BY DEF StaleTracked
<1> QED
  BY <1>1, <1>2, <1>3, PTL DEF Spec

=============================================================================
