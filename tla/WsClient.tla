------------------------------ MODULE WsClient ------------------------------
(***************************************************************************)
(* The WebSocket client (src/src/daemon/ws_client.cpp), thread by thread:  *)
(*   "receive"    run(): connects, calls back, watches, cleans up, sleeps  *)
(*   "send"       send_loop(): takes messages off the queue and sends them *)
(*   "heartbeat"  heartbeat_loop(): closes an idle connection or pings     *)
(*   "caller"     any thread of the daemon that calls send_json()          *)
(*   "stopper"    the thread that calls stop()                             *)
(* and the library's close handler, which runs on a thread of its own.     *)
(*                                                                         *)
(* Connections are numbered in the order of their handshakes; 0 is the null*)
(* pointer.  Time is abstract: idle says that the last activity is older   *)
(* than the heartbeat timeout.  What a message says is left out: queued    *)
(* messages are known by their sender and the connection it found connected*)
(***************************************************************************)
EXTENDS Naturals, Sequences

CONSTANTS
    MaxConnects,  \* bound: handshakes that succeed
    MaxTexts,     \* bound: calls of send_json that find the client connected
    MaxQueue      \* bound: messages in the queue

ASSUME WsClientAssumption == {MaxConnects, MaxTexts, MaxQueue} \subseteq Nat

VARIABLES
    stop_requested,  \* stop_requested_
    connected,       \* connected_
    client,          \* client_
    send_queue,      \* send_queue_
    idle,            \* last_activity_ is older than heartbeat_timeout_ms_
    at,              \* program counters
    was_connected,   \* run()'s local
    taken,           \* send_loop()'s locals: a message and the client for it
    made,            \* queue_message's: the connection it found connected
    link,            \* each connection as the library sees it
    last,            \* handshakes so far
    texts,           \* calls of send_json so far
    cleared,         \* history: the last connection whose queue was cleared
    zombies          \* history: connections lost before connected_ was raised

network == <<link, last>>
history == <<cleared, zombies>>
vars == <<stop_requested, connected, client, send_queue, idle, at, was_connected,
          taken, made, network, texts, history>>

Connections == 1..MaxConnects

\* The threads that queue messages.
Senders == {"caller", "heartbeat"}

Messages == [made : 0..MaxConnects, by : Senders]

Pcs ==
    [receive   : {"connecting", "publishing", "raising", "announcing",
                  "watching", "ended", "resetting", "clearing", "notifying",
                  "disconnecting", "sleeping", "done"},
     send      : {"checking", "parking", "waiting", "taking", "deciding", "done"},
     heartbeat : {"sleeping", "judging", "queueing", "pushing", "notifying",
                  "closing", "done"},
     caller    : {"idle", "pushing", "notifying"},
     stopper   : {"idle", "notifying", "closing", "joining_receive",
                  "joining_send", "joining_heartbeat", "stopped"}]

TypeOK ==
    /\ stop_requested \in BOOLEAN
    /\ connected \in BOOLEAN
    /\ client \in 0..MaxConnects
    /\ send_queue \in Seq(Messages)
    /\ idle \in BOOLEAN
    /\ at \in Pcs
    /\ was_connected \in BOOLEAN
    /\ taken \in 0..MaxConnects
    /\ made \in [Senders -> 0..MaxConnects]
    /\ link \in [Connections -> {"none", "open", "closing", "closed"}]
    /\ last \in 0..MaxConnects
    /\ texts \in 0..MaxTexts
    /\ cleared \in 0..MaxConnects
    /\ zombies \in SUBSET Connections

\* start() has created the three workers.
Init ==
    /\ stop_requested = FALSE
    /\ connected = FALSE
    /\ client = 0
    /\ send_queue = <<>>
    /\ idle = FALSE
    /\ at = [receive |-> "connecting", send |-> "checking",
             heartbeat |-> "sleeping", caller |-> "idle", stopper |-> "idle"]
    /\ was_connected = FALSE
    /\ taken = 0
    /\ made = [t \in Senders |-> 0]
    /\ link = [n \in Connections |-> "none"]
    /\ last = 0
    /\ texts = 0
    /\ cleared = 0
    /\ zombies = {}

Goto(thread, pc, next) ==
    /\ at[thread] = pc
    /\ at' = [at EXCEPT ![thread] = next]

-----------------------------------------------------------------------------
(* The library and the peer.                                               *)

\* client->close() on what client_ points to: it asks the library to close the
\* connection, and does nothing to one that is closed.
CloseActiveClient ==
    link' = IF client # 0 /\ link[client] = "open"
            THEN [link EXCEPT ![client] = "closing"] ELSE link

\* Mutant: no close handler is installed.
LinkClosesUnnoticed(n) ==
    /\ link[n] \in {"open", "closing"}
    /\ link' = [link EXCEPT ![n] = "closed"]
    /\ UNCHANGED <<stop_requested, connected, client, send_queue, idle, at,
                   was_connected, taken, made, last, texts, history>>

\* A connection ends: the peer or the network ended it, or a close asked for on
\* this side is complete.  The close handler runs, once.
LinkCloses(n) ==
    /\ link[n] \in {"open", "closing"}
    /\ link' = [link EXCEPT ![n] = "closed"]
    /\ connected' = FALSE
    /\ zombies' = IF at["receive"] \in {"publishing", "raising"}
                  THEN zombies \cup {n} ELSE zombies
    /\ UNCHANGED <<stop_requested, client, send_queue, idle, at, was_connected,
                   taken, made, last, texts, cleared>>

\* A message or a pong arrives: the message handler's first lines.
Activity ==
    /\ \E n \in Connections : link[n] = "open"
    /\ ~stop_requested
    /\ idle
    /\ idle' = FALSE
    /\ UNCHANGED <<stop_requested, connected, client, send_queue, at,
                   was_connected, taken, made, network, texts, history>>

\* A message that cannot be read: the handler closes the active client.
BadMessage ==
    /\ \E n \in Connections : link[n] = "open"
    /\ ~stop_requested
    /\ idle' = FALSE
    /\ CloseActiveClient
    /\ UNCHANGED <<stop_requested, connected, client, send_queue, at,
                   was_connected, taken, made, last, texts, history>>

\* heartbeat_timeout_ms_ pass without any.
Silence ==
    /\ ~idle
    /\ idle' = TRUE
    /\ UNCHANGED <<stop_requested, connected, client, send_queue, at,
                   was_connected, taken, made, network, texts, history>>

-----------------------------------------------------------------------------
(* send_queue_mutex_ and send_queue_cv_.  The send worker, when "parking", *)
(* holds the mutex, has found its predicate false and is about to block; a *)
(* notification wakes it only once it has blocked.                         *)

QueueMutexFree == at["send"] # "parking"

NotifySender(pcs) ==
    [pcs EXCEPT !["send"] = IF @ = "waiting" THEN "checking" ELSE @]

-----------------------------------------------------------------------------
(* run(), the receive worker.                                              *)

\* connect().wait() returns.
HandshakeDone ==
    /\ last < MaxConnects
    /\ Goto("receive", "connecting", "publishing")
    /\ last' = last + 1
    /\ link' = [link EXCEPT ![last + 1] = "open"]
    /\ UNCHANGED <<stop_requested, connected, client, send_queue, idle,
                   was_connected, taken, made, texts, history>>

\* connect().wait() throws.
HandshakeFails ==
    /\ Goto("receive", "connecting", "ended")
    /\ UNCHANGED <<stop_requested, connected, client, send_queue, idle,
                   was_connected, taken, made, network, texts, history>>

\* client_ is set and the clock of the heartbeat is restarted.
PublishClient ==
    /\ Goto("receive", "publishing", "raising")
    /\ client' = last
    /\ idle' = FALSE
    /\ UNCHANGED <<stop_requested, connected, send_queue, was_connected, taken,
                   made, network, texts, history>>

\* connected_ = true, whatever the close handler did since the handshake, and
\* on_connected is called.
RaiseConnected ==
    /\ Goto("receive", "raising", "announcing")
    /\ connected' = TRUE
    /\ UNCHANGED <<stop_requested, client, send_queue, idle, was_connected, taken,
                   made, network, texts, history>>

OnConnectedReturns ==
    /\ Goto("receive", "announcing", "watching")
    /\ UNCHANGED <<stop_requested, connected, client, send_queue, idle,
                   was_connected, taken, made, network, texts, history>>

\* Mutant: the watch is given up without looking why.
WatchEndsAnyhow ==
    /\ Goto("receive", "watching", "ended")
    /\ UNCHANGED <<stop_requested, connected, client, send_queue, idle,
                   was_connected, taken, made, network, texts, history>>

WatchEnds ==
    /\ stop_requested \/ ~connected
    /\ Goto("receive", "watching", "ended")
    /\ UNCHANGED <<stop_requested, connected, client, send_queue, idle,
                   was_connected, taken, made, network, texts, history>>

Exchange ==
    /\ Goto("receive", "ended", "resetting")
    /\ was_connected' = connected
    /\ connected' = FALSE
    /\ UNCHANGED <<stop_requested, client, send_queue, idle, taken, made, network,
                   texts, history>>

\* client_.reset(); only a client that is stopping still has a connection, and
\* the destructor ends it.
ResetClient ==
    /\ Goto("receive", "resetting", "clearing")
    /\ client' = 0
    /\ link' = [n \in Connections |->
                   IF link[n] \in {"open", "closing"} THEN "closed" ELSE link[n]]
    /\ UNCHANGED <<stop_requested, connected, send_queue, idle, was_connected,
                   taken, made, last, texts, history>>

\* Mutant: what the old connection did not send stays queued.
KeepQueue ==
    /\ QueueMutexFree
    /\ Goto("receive", "clearing", "notifying")
    /\ cleared' = last
    /\ UNCHANGED <<stop_requested, connected, client, send_queue, idle,
                   was_connected, taken, made, network, texts, zombies>>

ClearQueue ==
    /\ QueueMutexFree
    /\ Goto("receive", "clearing", "notifying")
    /\ send_queue' = <<>>
    /\ cleared' = last
    /\ UNCHANGED <<stop_requested, connected, client, idle, was_connected, taken,
                   made, network, texts, zombies>>

\* Mutant: nobody is notified after the cleanup.
NoNotifyAfterCleanup ==
    /\ at["receive"] = "notifying"
    /\ at' = [at EXCEPT !["receive"] = IF was_connected THEN "disconnecting"
                                                        ELSE "sleeping"]
    /\ UNCHANGED <<stop_requested, connected, client, send_queue, idle,
                   was_connected, taken, made, network, texts, history>>

\* notify_all, and on_disconnected is called if the client was connected.
NotifyAfterCleanup ==
    /\ at["receive"] = "notifying"
    /\ at' = [NotifySender(at) EXCEPT
                 !["receive"] = IF was_connected THEN "disconnecting"
                                                 ELSE "sleeping"]
    /\ UNCHANGED <<stop_requested, connected, client, send_queue, idle,
                   was_connected, taken, made, network, texts, history>>

OnDisconnectedReturns ==
    /\ Goto("receive", "disconnecting", "sleeping")
    /\ UNCHANGED <<stop_requested, connected, client, send_queue, idle,
                   was_connected, taken, made, network, texts, history>>

\* reconnect_interval_ms_ pass, or stop_requested_ skips the sleep; the loop's
\* condition is checked again.
SleepEnds ==
    /\ Goto("receive", "sleeping", IF stop_requested THEN "done"
                                                     ELSE "connecting")
    /\ UNCHANGED <<stop_requested, connected, client, send_queue, idle,
                   was_connected, taken, made, network, texts, history>>

-----------------------------------------------------------------------------
(* queue_message(), for the caller of send_json and for the heartbeat.     *)

\* connected_ was true; the message is pushed under the mutex.
Push(thread) ==
    /\ QueueMutexFree
    /\ Len(send_queue) < MaxQueue
    /\ Goto(thread, "pushing", "notifying")
    /\ send_queue' = Append(send_queue, [made |-> made[thread], by |-> thread])
    /\ UNCHANGED <<stop_requested, connected, client, idle, was_connected, taken,
                   made, network, texts, history>>

\* Mutant: the send worker is left to find the message by itself.
NotifyNobody(thread, next) ==
    /\ Goto(thread, "notifying", next)
    /\ UNCHANGED <<stop_requested, connected, client, send_queue, idle,
                   was_connected, taken, made, network, texts, history>>

\* notify_one, without the mutex.
Notify(thread, next) ==
    /\ at[thread] = "notifying"
    /\ at' = [NotifySender(at) EXCEPT ![thread] = next]
    /\ UNCHANGED <<stop_requested, connected, client, send_queue, idle,
                   was_connected, taken, made, network, texts, history>>

\* send_json(); a call that finds the client not connected returns false.
CallSend ==
    /\ texts < MaxTexts
    /\ connected
    /\ Goto("caller", "idle", "pushing")
    /\ texts' = texts + 1
    /\ made' = [made EXCEPT !["caller"] = last]
    /\ UNCHANGED <<stop_requested, connected, client, send_queue, idle,
                   was_connected, taken, network, history>>

-----------------------------------------------------------------------------
(* heartbeat_loop().                                                       *)

\* heartbeat_interval_ms_ have passed.
HeartbeatWakes ==
    /\ ~stop_requested
    /\ connected
    /\ Goto("heartbeat", "sleeping", "judging")
    /\ UNCHANGED <<stop_requested, connected, client, send_queue, idle,
                   was_connected, taken, made, network, texts, history>>

HeartbeatStops ==
    /\ stop_requested
    /\ Goto("heartbeat", "sleeping", "done")
    /\ UNCHANGED <<stop_requested, connected, client, send_queue, idle,
                   was_connected, taken, made, network, texts, history>>

\* Mutant: the timeout is not looked at, and a ping is sent for ever.
JudgeNothing ==
    /\ Goto("heartbeat", "judging", "queueing")
    /\ UNCHANGED <<stop_requested, connected, client, send_queue, idle,
                   was_connected, taken, made, network, texts, history>>

\* last_activity_ is read under its mutex.
JudgeActivity ==
    /\ Goto("heartbeat", "judging", IF idle THEN "closing" ELSE "queueing")
    /\ UNCHANGED <<stop_requested, connected, client, send_queue, idle,
                   was_connected, taken, made, network, texts, history>>

\* queue_message finds connected_, or the ping is not queued.
QueuePing ==
    /\ Goto("heartbeat", "queueing", IF connected THEN "pushing" ELSE "closing")
    /\ made' = [made EXCEPT !["heartbeat"] = last]
    /\ UNCHANGED <<stop_requested, connected, client, send_queue, idle,
                   was_connected, taken, network, texts, history>>

\* close_active_client(), whichever client is active by now.
HeartbeatCloses ==
    /\ Goto("heartbeat", "closing", "sleeping")
    /\ CloseActiveClient
    /\ UNCHANGED <<stop_requested, connected, client, send_queue, idle,
                   was_connected, taken, made, last, texts, history>>

-----------------------------------------------------------------------------
(* send_loop().                                                            *)

\* The loop's condition and the predicate of the wait, evaluated under the mutex.
SendChecks ==
    \/ /\ stop_requested
       /\ Goto("send", "checking", "done")
       /\ UNCHANGED <<stop_requested, connected, client, send_queue, idle,
                      was_connected, taken, made, network, texts, history>>
    \/ /\ ~stop_requested /\ send_queue # <<>>
       /\ Goto("send", "checking", "taking")
       /\ send_queue' = Tail(send_queue)
       /\ UNCHANGED <<stop_requested, connected, client, idle, was_connected,
                      taken, made, network, texts, history>>
    \/ /\ ~stop_requested /\ send_queue = <<>>
       /\ Goto("send", "checking", "parking")
       /\ UNCHANGED <<stop_requested, connected, client, send_queue, idle,
                      was_connected, taken, made, network, texts, history>>

\* The worker blocks, and the mutex is released.
SendBlocks ==
    /\ Goto("send", "parking", "waiting")
    /\ UNCHANGED <<stop_requested, connected, client, send_queue, idle,
                   was_connected, taken, made, network, texts, history>>

TakeClient ==
    /\ Goto("send", "taking", "deciding")
    /\ taken' = client
    /\ UNCHANGED <<stop_requested, connected, client, send_queue, idle,
                   was_connected, made, network, texts, history>>

\* The message is dropped if there is no client or it is not connected, and sent
\* otherwise.  A send that throws closes the active client.
SendOrDrop ==
    /\ Goto("send", "deciding", "checking")
    /\ taken' = 0
    /\ \/ UNCHANGED link
       \/ taken # 0 /\ connected /\ link[taken] # "open" /\ CloseActiveClient
    /\ UNCHANGED <<stop_requested, connected, client, send_queue, idle,
                   was_connected, made, last, texts, history>>

-----------------------------------------------------------------------------
(* stop().                                                                 *)

StopRequested ==
    /\ Goto("stopper", "idle", "notifying")
    /\ stop_requested' = TRUE
    /\ UNCHANGED <<connected, client, send_queue, idle, was_connected, taken,
                   made, network, texts, history>>

\* notify_all, without the mutex.
StopNotifies ==
    /\ at["stopper"] = "notifying"
    /\ at' = [NotifySender(at) EXCEPT !["stopper"] = "closing"]
    /\ UNCHANGED <<stop_requested, connected, client, send_queue, idle,
                   was_connected, taken, made, network, texts, history>>

StopCloses ==
    /\ Goto("stopper", "closing", "joining_receive")
    /\ CloseActiveClient
    /\ UNCHANGED <<stop_requested, connected, client, send_queue, idle,
                   was_connected, taken, made, last, texts, history>>

Join(worker, pc, next) ==
    /\ at[worker] = "done"
    /\ Goto("stopper", pc, next)
    /\ UNCHANGED <<stop_requested, connected, client, send_queue, idle,
                   was_connected, taken, made, network, texts, history>>

JoinReceive == Join("receive", "joining_receive", "joining_send")
JoinSend == Join("send", "joining_send", "joining_heartbeat")
JoinHeartbeat == Join("heartbeat", "joining_heartbeat", "stopped")

-----------------------------------------------------------------------------

Peer == Activity \/ BadMessage \/ Silence \/ \E n \in Connections : LinkCloses(n)

Receive ==
    \/ HandshakeDone \/ HandshakeFails \/ PublishClient \/ RaiseConnected
    \/ OnConnectedReturns \/ WatchEnds \/ Exchange \/ ResetClient \/ ClearQueue
    \/ NotifyAfterCleanup \/ OnDisconnectedReturns \/ SleepEnds

Send == SendChecks \/ SendBlocks \/ TakeClient \/ SendOrDrop

Heartbeat ==
    \/ HeartbeatWakes \/ HeartbeatStops \/ JudgeActivity \/ QueuePing
    \/ Push("heartbeat") \/ Notify("heartbeat", "sleeping") \/ HeartbeatCloses

SendJson == CallSend \/ Push("caller") \/ Notify("caller", "idle")

Stop == StopNotifies \/ StopCloses \/ JoinReceive \/ JoinSend \/ JoinHeartbeat

Next == Peer \/ Receive \/ Send \/ Heartbeat \/ SendJson \/ StopRequested \/ Stop

Spec == Init /\ [][Next]_vars

\* Every thread that can go on does; a sleep ends, a handshake ends one way or
\* the other, and a close asked for completes (the library times it out).  The
\* peer's silence, the calls of send_json and of stop are not fair.
Fairness ==
    /\ WF_vars(Receive)
    /\ WF_vars(Send)
    /\ WF_vars(Heartbeat)
    /\ SF_vars(Push("heartbeat"))
    /\ WF_vars(Notify("caller", "idle"))
    /\ SF_vars(Push("caller"))
    /\ WF_vars(Stop)
    /\ \A n \in Connections : WF_vars(link[n] = "closing" /\ LinkCloses(n))

FairSpec == Spec /\ Fairness

-----------------------------------------------------------------------------
(* Properties                                                              *)

\* The send worker never sleeps over a message: if the queue is not empty while
\* it is blocked, or about to be, a thread has yet to notify it.
SenderIsWoken ==
    at["send"] \in {"parking", "waiting"} /\ send_queue # <<>> =>
        at["caller"] = "notifying" \/ at["heartbeat"] = "notifying"

\* A queued message made for a connection the client has cleaned up after.
Stale(i) == send_queue[i].made <= cleared

\* The cleanup after a connection leaves none of its messages to the next one.  A
\* sender that had checked connected_ and not pushed yet adds one afterwards, but
\* never a second.
OneStaleMessagePerSender ==
    \A i, j \in 1..Len(send_queue) :
        Stale(i) /\ Stale(j) /\ send_queue[i].by = send_queue[j].by => i = j

\* What App is built on: see Connection.
calling ==
    IF at["receive"] = "announcing" THEN "on_connected"
    ELSE IF /\ was_connected
            /\ at["receive"] \in {"resetting", "clearing", "notifying",
                                  "disconnecting"}
         THEN "on_disconnected" ELSE "none"

Contract == INSTANCE Connection WITH stopping <- stop_requested,
                                     ended <- at["receive"] = "done"

ImplementsConnection == Contract!Spec

BeforeCleanup ==
    {"connecting", "publishing", "raising", "announcing", "watching", "ended",
     "resetting", "clearing"}

\* A connection that is lost once it was announced is given up, and the next one
\* is attempted.
LostLinkIsNoticed ==
    \A n \in Connections :
        (client = n /\ link[n] = "closed" /\ n \notin zombies) ~> client # n

\* A peer that has gone silent is not waited for for ever.
IdleLinkIsDropped ==
    \A n \in Connections :
        (client = n /\ connected /\ idle /\ n \notin zombies)
            ~> (~idle \/ client # n)

\* A client that is told to stop before the receive worker cleans up after its
\* connection joins its three workers: the cleanup's notification, made after the
\* mutex was taken, reaches a send worker the one of stop() has missed.
StopReturnsFromConnection ==
    (stop_requested /\ at["receive"] \in BeforeCleanup)
        ~> at["stopper"] = "stopped"

-----------------------------------------------------------------------------
(* What the design document asks (NMOS_SYNC_DAEMON_OPENCODE_TASKS.md) and  *)
(* the code does not always do.                                            *)

\* Task 7.1: a connection that is lost is replaced.
Reconnects ==
    \A n \in Connections :
        (client = n /\ link[n] = "closed") ~> client # n

=============================================================================
