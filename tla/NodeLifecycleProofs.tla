------------------------- MODULE NodeLifecycleProofs -------------------------
(***************************************************************************)
(* What holds of starting and stopping a Node for any number of threads    *)
(* that call start() and stop(), in any order and as often as they like.   *)
(***************************************************************************)
EXTENDS NodeLifecycle, TLAPS

-----------------------------------------------------------------------------
(* The inductive invariant.                                                *)

\* thread_ is joinable from the worker's first step until it has been joined.
ThreadTracked == joinable <=> worker # "none"

\* The stop signal is up only in the state "stopping": start() takes it down with
\* its first section, and whoever sets "stopped" takes it down too.
SignalTracked == stop_requested => lifecycle_state = "stopping"

\* The mutual support: a worker leaves "serving" for the signal alone, which is not
\* up while the state is "running".
IInv == TypeOK /\ ThreadTracked /\ SignalTracked /\ RunningServes

-----------------------------------------------------------------------------

\* The state's type is preserved by every step.
LEMMA TypePreserved ==
    ASSUME TypeOK, [Next]_vars
    PROVE  TypeOK'
PROOF
<1> USE LifecycleAssumption DEF LifecycleAssumption, TypeOK, life, node
<1>1. ASSUME NEW c \in Clients, StartRefused(c) PROVE TypeOK'
    BY <1>1 DEF StartRefused, Call, StartAnswers, ClientPcs
<1>2. ASSUME NEW c \in Clients, StartSpawns(c) PROVE TypeOK'
    <2>1. lifecycle_state' \in {"stopped", "starting", "running", "stopping"}
        BY <1>2 DEF StartSpawns, Call, StartAnswers, MayStart, ResetModelState, ClientPcs
    <2>2. stop_requested' \in BOOLEAN /\ needs_model_reset' \in BOOLEAN
        BY <1>2 DEF StartSpawns, Call, StartAnswers, MayStart, ResetModelState, ClientPcs
    <2>3. at' \in [Clients -> ClientPcs]
        BY <1>2 DEF StartSpawns, Call, StartAnswers, MayStart, ResetModelState, ClientPcs
    <2>4. started' \in [Clients -> BOOLEAN]
        BY <1>2 DEF StartSpawns, Call, StartAnswers, MayStart, ResetModelState, ClientPcs
    <2>5. joinable' \in BOOLEAN /\ shutdown' \in BOOLEAN /\ has_device' \in BOOLEAN
        BY <1>2 DEF StartSpawns, Call, StartAnswers, MayStart, ResetModelState, ClientPcs
    <2>6. calls' \in 0..MaxCalls
        BY <1>2 DEF StartSpawns, Call, StartAnswers, MayStart, ResetModelState, ClientPcs
    <2>7. UNCHANGED thread_mutex
        BY <1>2 DEF StartSpawns, Call, StartAnswers, MayStart, ResetModelState, ClientPcs
    <2> QED
        BY <1>2, <2>1, <2>2, <2>3, <2>4, <2>5, <2>6, <2>7 DEF StartSpawns, Call, StartAnswers, MayStart, ResetModelState, ClientPcs
<1>3. ASSUME NEW c \in Clients, StopSignals(c) PROVE TypeOK'
    <2>1. lifecycle_state' \in {"stopped", "starting", "running", "stopping"}
        BY <1>3 DEF StopSignals, Call, ClientPcs
    <2>2. stop_requested' \in BOOLEAN /\ needs_model_reset' \in BOOLEAN
        BY <1>3 DEF StopSignals, Call, ClientPcs
    <2>3. at' \in [Clients -> ClientPcs]
        BY <1>3 DEF StopSignals, Call, ClientPcs
    <2>4. started' \in [Clients -> BOOLEAN]
        BY <1>3 DEF StopSignals, Call, ClientPcs
    <2>5. joinable' \in BOOLEAN /\ shutdown' \in BOOLEAN /\ has_device' \in BOOLEAN
        BY <1>3 DEF StopSignals, Call, ClientPcs
    <2>6. calls' \in 0..MaxCalls
        BY <1>3 DEF StopSignals, Call, ClientPcs
    <2>7. UNCHANGED thread_mutex
        BY <1>3 DEF StopSignals, Call, ClientPcs
    <2> QED
        BY <1>3, <2>1, <2>2, <2>3, <2>4, <2>5, <2>6, <2>7 DEF StopSignals, Call, ClientPcs
<1>4. ASSUME NEW c \in Clients, StartReturns(c) PROVE TypeOK'
    BY <1>4 DEF StartReturns, StartAnswers, ClientPcs
<1>5. ASSUME NEW c \in Clients, StopShuts(c) PROVE TypeOK'
    BY <1>5 DEF StopShuts, ClientPcs
<1>6. ASSUME NEW c \in Clients, StopTakesThread(c) PROVE TypeOK'
    BY <1>6 DEF StopTakesThread, ClientPcs
<1>7. ASSUME NEW c \in Clients, StopJoins(c) PROVE TypeOK'
    BY <1>7 DEF StopJoins, ClientPcs
<1>8. ASSUME NEW c \in Clients, StopEnds(c) PROVE TypeOK'
    BY <1>8 DEF StopEnds, ClientPcs
<1>9. CASE WorkerEnters
    BY <1>9 DEF WorkerEnters, WorkerGoes, ClientPcs
<1>10. CASE OpenFails
    BY <1>10 DEF OpenFails, WorkerGoes, ClientPcs
<1>11. CASE ServerOpens
    BY <1>11 DEF ServerOpens, WorkerGoes, ClientPcs
<1>12. CASE WorkerAnnounces
    BY <1>12 DEF WorkerAnnounces, WorkerGoes, ClientPcs
<1>13. CASE WorkerStops
    BY <1>13 DEF WorkerStops, WorkerGoes, ClientPcs
<1>14. CASE ServerCloses
    BY <1>14 DEF ServerCloses, WorkerGoes, ClientPcs
<1>15. CASE WorkerReportsFailure
    BY <1>15 DEF WorkerReportsFailure, ClientPcs
<1>16. CASE WorkerEnds
    BY <1>16 DEF WorkerEnds, WorkerGoes, ClientPcs
<1>17. CASE ServerInit
    BY <1>17 DEF ServerInit, ClientPcs
<1>18. CASE ServerShuts
    BY <1>18 DEF ServerShuts, ClientPcs
<1>19. CASE UNCHANGED vars
    BY <1>19 DEF vars, ClientPcs
<1> QED
    BY <1>1, <1>2, <1>3, <1>4, <1>5, <1>6, <1>7, <1>8, <1>9, <1>10, <1>11, <1>12, <1>13, <1>14, <1>15, <1>16, <1>17, <1>18, <1>19
    DEF Next, Start, Proceed, Worker, Server

\* The thread object and the worker go together in every step.
LEMMA ThreadTrackedPreserved ==
    ASSUME TypeOK, ThreadTracked, [Next]_vars
    PROVE  ThreadTracked'
PROOF
<1> USE DEF TypeOK, ThreadTracked, life, node
<1>1. ASSUME NEW c \in Clients, StartRefused(c) PROVE ThreadTracked'
    BY <1>1 DEF StartRefused, Call, StartAnswers
<1>2. ASSUME NEW c \in Clients, StartSpawns(c) PROVE ThreadTracked'
    BY <1>2 DEF StartSpawns, Call, StartAnswers, MayStart, ResetModelState
<1>3. ASSUME NEW c \in Clients, StopSignals(c) PROVE ThreadTracked'
    BY <1>3 DEF StopSignals, Call
<1>4. ASSUME NEW c \in Clients, StartReturns(c) PROVE ThreadTracked'
    BY <1>4 DEF StartReturns, StartAnswers
<1>5. ASSUME NEW c \in Clients, StopShuts(c) PROVE ThreadTracked'
    BY <1>5 DEF StopShuts
<1>6. ASSUME NEW c \in Clients, StopTakesThread(c) PROVE ThreadTracked'
    BY <1>6 DEF StopTakesThread
<1>7. ASSUME NEW c \in Clients, StopJoins(c) PROVE ThreadTracked'
    BY <1>7 DEF StopJoins
<1>8. ASSUME NEW c \in Clients, StopEnds(c) PROVE ThreadTracked'
    BY <1>8 DEF StopEnds
<1>9. CASE WorkerEnters
    BY <1>9 DEF WorkerEnters, WorkerGoes
<1>10. CASE OpenFails
    BY <1>10 DEF OpenFails, WorkerGoes
<1>11. CASE ServerOpens
    BY <1>11 DEF ServerOpens, WorkerGoes
<1>12. CASE WorkerAnnounces
    BY <1>12 DEF WorkerAnnounces, WorkerGoes
<1>13. CASE WorkerStops
    BY <1>13 DEF WorkerStops, WorkerGoes
<1>14. CASE ServerCloses
    BY <1>14 DEF ServerCloses, WorkerGoes
<1>15. CASE WorkerReportsFailure
    BY <1>15 DEF WorkerReportsFailure
<1>16. CASE WorkerEnds
    BY <1>16 DEF WorkerEnds, WorkerGoes
<1>17. CASE ServerInit
    BY <1>17 DEF ServerInit
<1>18. CASE ServerShuts
    BY <1>18 DEF ServerShuts
<1>19. CASE UNCHANGED vars
    BY <1>19 DEF vars
<1> QED
    BY <1>1, <1>2, <1>3, <1>4, <1>5, <1>6, <1>7, <1>8, <1>9, <1>10, <1>11, <1>12, <1>13, <1>14, <1>15, <1>16, <1>17, <1>18, <1>19
    DEF Next, Start, Proceed, Worker, Server

\* The signal and the state go together in every step.
LEMMA SignalTrackedPreserved ==
    ASSUME TypeOK, SignalTracked, [Next]_vars
    PROVE  SignalTracked'
PROOF
<1> USE DEF TypeOK, SignalTracked, life, node
<1>1. ASSUME NEW c \in Clients, StartRefused(c) PROVE SignalTracked'
    BY <1>1 DEF StartRefused, Call, StartAnswers
<1>2. ASSUME NEW c \in Clients, StartSpawns(c) PROVE SignalTracked'
    BY <1>2 DEF StartSpawns, Call, StartAnswers, MayStart, ResetModelState
<1>3. ASSUME NEW c \in Clients, StopSignals(c) PROVE SignalTracked'
    BY <1>3 DEF StopSignals, Call
<1>4. ASSUME NEW c \in Clients, StartReturns(c) PROVE SignalTracked'
    BY <1>4 DEF StartReturns, StartAnswers
<1>5. ASSUME NEW c \in Clients, StopShuts(c) PROVE SignalTracked'
    BY <1>5 DEF StopShuts
<1>6. ASSUME NEW c \in Clients, StopTakesThread(c) PROVE SignalTracked'
    BY <1>6 DEF StopTakesThread
<1>7. ASSUME NEW c \in Clients, StopJoins(c) PROVE SignalTracked'
    BY <1>7 DEF StopJoins
<1>8. ASSUME NEW c \in Clients, StopEnds(c) PROVE SignalTracked'
    BY <1>8 DEF StopEnds
<1>9. CASE WorkerEnters
    BY <1>9 DEF WorkerEnters, WorkerGoes
<1>10. CASE OpenFails
    BY <1>10 DEF OpenFails, WorkerGoes
<1>11. CASE ServerOpens
    BY <1>11 DEF ServerOpens, WorkerGoes
<1>12. CASE WorkerAnnounces
    BY <1>12 DEF WorkerAnnounces, WorkerGoes
<1>13. CASE WorkerStops
    BY <1>13 DEF WorkerStops, WorkerGoes
<1>14. CASE ServerCloses
    BY <1>14 DEF ServerCloses, WorkerGoes
<1>15. CASE WorkerReportsFailure
    BY <1>15 DEF WorkerReportsFailure
<1>16. CASE WorkerEnds
    BY <1>16 DEF WorkerEnds, WorkerGoes
<1>17. CASE ServerInit
    BY <1>17 DEF ServerInit
<1>18. CASE ServerShuts
    BY <1>18 DEF ServerShuts
<1>19. CASE UNCHANGED vars
    BY <1>19 DEF vars
<1> QED
    BY <1>1, <1>2, <1>3, <1>4, <1>5, <1>6, <1>7, <1>8, <1>9, <1>10, <1>11, <1>12, <1>13, <1>14, <1>15, <1>16, <1>17, <1>18, <1>19
    DEF Next, Start, Proceed, Worker, Server

\* No step leaves the state "running" without a worker that serves.
LEMMA RunningServesPreserved ==
    ASSUME TypeOK, SignalTracked, RunningServes, [Next]_vars
    PROVE  RunningServes'
PROOF
<1> USE DEF TypeOK, SignalTracked, RunningServes, life, node
<1>1. ASSUME NEW c \in Clients, StartRefused(c) PROVE RunningServes'
    BY <1>1 DEF StartRefused, Call, StartAnswers
<1>2. ASSUME NEW c \in Clients, StartSpawns(c) PROVE RunningServes'
    BY <1>2 DEF StartSpawns, Call, StartAnswers, MayStart, ResetModelState
<1>3. ASSUME NEW c \in Clients, StopSignals(c) PROVE RunningServes'
    BY <1>3 DEF StopSignals, Call
<1>4. ASSUME NEW c \in Clients, StartReturns(c) PROVE RunningServes'
    BY <1>4 DEF StartReturns, StartAnswers
<1>5. ASSUME NEW c \in Clients, StopShuts(c) PROVE RunningServes'
    BY <1>5 DEF StopShuts
<1>6. ASSUME NEW c \in Clients, StopTakesThread(c) PROVE RunningServes'
    BY <1>6 DEF StopTakesThread
<1>7. ASSUME NEW c \in Clients, StopJoins(c) PROVE RunningServes'
    BY <1>7 DEF StopJoins
<1>8. ASSUME NEW c \in Clients, StopEnds(c) PROVE RunningServes'
    BY <1>8 DEF StopEnds
<1>9. CASE WorkerEnters
    BY <1>9 DEF WorkerEnters, WorkerGoes
<1>10. CASE OpenFails
    BY <1>10 DEF OpenFails, WorkerGoes
<1>11. CASE ServerOpens
    BY <1>11 DEF ServerOpens, WorkerGoes
<1>12. CASE WorkerAnnounces
    BY <1>12 DEF WorkerAnnounces, WorkerGoes
<1>13. CASE WorkerStops
    BY <1>13 DEF WorkerStops, WorkerGoes
<1>14. CASE ServerCloses
    BY <1>14 DEF ServerCloses, WorkerGoes
<1>15. CASE WorkerReportsFailure
    BY <1>15 DEF WorkerReportsFailure
<1>16. CASE WorkerEnds
    BY <1>16 DEF WorkerEnds, WorkerGoes
<1>17. CASE ServerInit
    BY <1>17 DEF ServerInit
<1>18. CASE ServerShuts
    BY <1>18 DEF ServerShuts
<1>19. CASE UNCHANGED vars
    BY <1>19 DEF vars
<1> QED
    BY <1>1, <1>2, <1>3, <1>4, <1>5, <1>6, <1>7, <1>8, <1>9, <1>10, <1>11, <1>12, <1>13, <1>14, <1>15, <1>16, <1>17, <1>18, <1>19
    DEF Next, Start, Proceed, Worker, Server

\* The invariant holds at first and after every step.
LEMMA Invariance == Spec => []IInv
PROOF
<1>1. Init => TypeOK
    <2> SUFFICES ASSUME Init PROVE TypeOK
        OBVIOUS
    <2>1. calls \in 0..MaxCalls
        BY LifecycleAssumption DEF Init, LifecycleAssumption
    <2>2. at \in [Clients -> ClientPcs] /\ started \in [Clients -> BOOLEAN]
        BY DEF Init, ClientPcs
    <2>3. stop_requested \in BOOLEAN /\ needs_model_reset \in BOOLEAN /\ joinable \in BOOLEAN
          /\ shutdown \in BOOLEAN /\ has_device \in BOOLEAN
        BY DEF Init
    <2> QED
        BY <2>1, <2>2, <2>3 DEF Init, TypeOK
<1>2. Init => ThreadTracked /\ SignalTracked /\ RunningServes
    BY DEF Init, ThreadTracked, SignalTracked, RunningServes
<1>3. IInv /\ [Next]_vars => IInv'
    BY TypePreserved, ThreadTrackedPreserved, SignalTrackedPreserved, RunningServesPreserved
    DEF IInv
<1> QED
    BY <1>1, <1>2, <1>3, PTL DEF Spec, IInv

\* The variables keep their types (all of Node::Impl's life-cycle fields).
THEOREM TypeCorrect == Spec => []TypeOK
PROOF
    BY Invariance, PTL DEF IInv

\* A Node whose state is "running" has a worker with open ports that waits for the
\* stop signal: start(), which answers from the state alone (node.cpp:2276-2279),
\* answers TRUE for such a Node only.
THEOREM RunningAlwaysServes == Spec => []RunningServes
PROOF
    BY Invariance, PTL DEF IInv

\* A worker begins when there is none.
LEMMA OneWorkerStep ==
    ASSUME IInv, [Next]_vars, worker' = "entering", worker # "entering"
    PROVE  worker = "none"
PROOF
<1>1. CASE \E c \in Clients : StartSpawns(c)
    BY <1>1 DEF StartSpawns, MayStart, IInv, ThreadTracked, TypeOK
<1>2. CASE \E c \in Clients : StartRefused(c) \/ StopSignals(c) \/ Proceed(c)
    BY <1>2 DEF StartRefused, StopSignals, Proceed, StartReturns, StopShuts,
        StopTakesThread, StopJoins, StopEnds
<1>3. CASE Worker \/ Server
    BY <1>3 DEF Worker, Server, WorkerEnters, OpenFails, ServerOpens,
        WorkerAnnounces, WorkerStops, ServerCloses, WorkerReportsFailure, WorkerEnds,
        WorkerGoes, ServerInit, ServerShuts
<1>4. CASE UNCHANGED vars
    BY <1>4 DEF vars
<1> QED
    BY <1>1, <1>2, <1>3, <1>4 DEF Next, Start

\* thread_ is assigned only when it is not joinable (node.cpp:2238, :2256): however
\* starts and stops overlap, the process does not end in std::terminate.
THEOREM NeverTwoWorkers == Spec => OneWorker
PROOF
<1>1. IInv /\ [Next]_vars => [worker' = "entering" /\ worker # "entering" => worker = "none"]_vars
    BY OneWorkerStep
<1> QED
    BY <1>1, Invariance, PTL DEF Spec, OneWorker

=============================================================================
