--------------------------- MODULE GcWorker_proofs ---------------------------
(***************************************************************************)
(* GcWorker for any set of callers and any number of workers.              *)
(***************************************************************************)
EXTENDS GcWorker, TLAPS

Starting == {c \in Callers : callerPc[c] \in {"create", "on"}}

\* The hand-over from one worker to the next: the status "starting" is one
\* caller's, which finds no worker and leaves gc_thread to the new one, and only
\* a worker that has been told to stop is about to write "off".
HandOver ==
  /\ \A w \in Workers : w > created => workerPc[w] = "none"
  /\ \A w \in Alive : w = gcThread
  /\ \A w \in Workers : workerPc[w] = "off" => stat = "stopping"
  /\ Starting # {} => stat = "starting"
  /\ \A c, d \in Starting : c = d
  /\ \A c \in Callers : callerPc[c] = "create" => Alive = {}
  /\ \A c \in Callers : callerPc[c] = "on" => gcThread \in Alive

IInv == TypeOK /\ OneCollector /\ StatusIsTrue /\ HandOver

USE GcWorkerAssumption

LEMMA InitIInv == Init => IInv
<1> SUFFICES ASSUME Init PROVE IInv
  OBVIOUS
<1>1. TypeOK
  <2>1. 0 \in 0..MaxWorkers
    BY DEF GcWorkerAssumption
  <2>2. /\ stat \in {"on", "starting", "stopping", "off"}
        /\ inProgress \in BOOLEAN
        /\ gcThread \in Workers \cup {Nobody}
        /\ created \in 0..MaxWorkers
    BY <2>1 DEF Init
  <2>3. /\ callerPc \in [Callers -> CallerLabels]
        /\ workerPc \in [Workers -> WorkerLabels]
    BY DEF Init, CallerLabels, WorkerLabels
  <2>4. /\ stopped \in [Callers -> Workers \cup {Nobody}]
        /\ joining \in [Callers -> Workers \cup {Nobody}]
    BY DEF Init
  <2> QED
    BY <2>2, <2>3, <2>4 DEF TypeOK
<1>2. OneCollector
  BY DEF Init, OneCollector, Alive
<1>3. StatusIsTrue
  BY DEF Init, StatusIsTrue, Alive
<1>4. HandOver
  BY DEF Init, HandOver, Alive, Starting
<1> QED
  BY <1>1, <1>2, <1>3, <1>4 DEF IInv

-----------------------------------------------------------------------------
\* A step that moves one caller, between labels that tell the invariant nothing.
LEMMA QuietCallerStep ==
  ASSUME IInv, NEW c \in Callers, StopReadThread(c)
  PROVE  IInv'
<1>1. TypeOK'
  BY DEF IInv, TypeOK, StopReadThread, CallerGoto, statVars, CallerLabels
<1>2. /\ UNCHANGED <<stat, inProgress, gcThread, created, workerPc>>
      /\ \A d \in Callers : callerPc'[d] = IF d = c THEN "join" ELSE callerPc[d]
      /\ callerPc[c] = "stopping"
  BY DEF IInv, TypeOK, StopReadThread, CallerGoto, statVars
<1>3. OneCollector'
  BY <1>2 DEF IInv, OneCollector, Alive
<1>4. StatusIsTrue' /\ HandOver'
  BY <1>2 DEF IInv, StatusIsTrue, HandOver, Alive, Starting
<1> QED
  BY <1>1, <1>3, <1>4 DEF IInv

LEMMA StartBeginStep ==
  ASSUME IInv, NEW c \in Callers, StartBegin(c)
  PROVE  IInv'
<1> USE DEF StartBegin, StartWhen, CallerGoto
<1>1. TypeOK'
  BY DEF IInv, TypeOK, CallerLabels
<1>2. /\ stat = "off" /\ stat' = "starting"
      /\ UNCHANGED <<inProgress, gcThread, created, workerPc>>
      /\ \A d \in Callers : callerPc'[d] = IF d = c THEN "create" ELSE callerPc[d]
      /\ callerPc[c] = "idle"
  BY DEF IInv, TypeOK
<1>3. Alive = {} /\ Alive' = {} /\ Starting = {}
  BY <1>2 DEF IInv, StatusIsTrue, HandOver, Alive
<1>4. OneCollector'
  BY <1>2 DEF IInv, OneCollector, Alive
<1>5. StatusIsTrue'
  BY <1>2 DEF StatusIsTrue
<1>6. HandOver'
  BY <1>2, <1>3 DEF IInv, HandOver, Alive, Starting
<1> QED
  BY <1>1, <1>4, <1>5, <1>6 DEF IInv

LEMMA StartCreateStep ==
  ASSUME IInv, NEW c \in Callers, StartCreate(c)
  PROVE  IInv'
<1> USE DEF StartCreate, CreateAs, CallerGoto, statVars
<1> DEFINE new == created + 1
<1>1. new \in Workers /\ created \in Nat
  BY DEF IInv, TypeOK, Workers
<1>2. /\ UNCHANGED <<stat, inProgress>> /\ gcThread' = new /\ created' = new
      /\ \A w \in Workers : workerPc'[w] = IF w = new THEN "loop" ELSE workerPc[w]
      /\ \A d \in Callers : callerPc'[d] = IF d = c THEN "on" ELSE callerPc[d]
      /\ callerPc[c] = "create"
  BY <1>1 DEF IInv, TypeOK
<1>3. TypeOK'
  BY <1>1 DEF IInv, TypeOK, CallerLabels, WorkerLabels, Workers
<1>4. Alive = {} /\ stat = "starting" /\ Starting = {c}
  BY <1>2 DEF IInv, HandOver, Starting
<1>5. Alive' = {new} /\ Starting' = {c}
  BY <1>1, <1>2, <1>4 DEF Alive, Starting
<1>6. \A w \in Workers : workerPc'[w] = "collect" <=> workerPc[w] = "collect"
  BY <1>2, <1>4 DEF Alive
<1>7. OneCollector'
  BY <1>2, <1>5, <1>6 DEF IInv, OneCollector
<1>8. StatusIsTrue'
  BY <1>2, <1>4, <1>5 DEF StatusIsTrue
<1>9. HandOver'
  <2>1. \A w \in Workers : w > created' => workerPc'[w] = "none"
    BY <1>1, <1>2 DEF IInv, HandOver, Workers
  <2>2. \A w \in Workers : workerPc'[w] # "off"
    BY <1>2, <1>4 DEF Alive
  <2> QED
    BY <1>2, <1>4, <1>5, <2>1, <2>2 DEF HandOver, Starting
<1> QED
  BY <1>3, <1>7, <1>8, <1>9 DEF IInv

LEMMA StartOnStep ==
  ASSUME IInv, NEW c \in Callers, StartOn(c)
  PROVE  IInv'
<1> USE DEF StartOn, CallerGoto
<1>1. TypeOK'
  BY DEF IInv, TypeOK, CallerLabels
<1>2. /\ stat' = "on" /\ UNCHANGED <<inProgress, gcThread, created, workerPc>>
      /\ \A d \in Callers : callerPc'[d] = IF d = c THEN "idle" ELSE callerPc[d]
      /\ callerPc[c] = "on"
  BY DEF IInv, TypeOK
<1>3. /\ gcThread \in Alive /\ stat = "starting" /\ Starting = {c}
      /\ \A w \in Workers : workerPc[w] # "off"
  BY <1>2 DEF IInv, HandOver, Starting
<1>4. Starting' = {} /\ Alive' = Alive
  BY <1>2, <1>3 DEF Starting, Alive
<1>5. OneCollector'
  BY <1>2 DEF IInv, OneCollector, Alive
<1>6. StatusIsTrue'
  BY <1>2, <1>3, <1>4 DEF StatusIsTrue
<1>7. HandOver'
  BY <1>2, <1>3, <1>4 DEF IInv, HandOver, Starting
<1> QED
  BY <1>1, <1>5, <1>6, <1>7 DEF IInv

LEMMA StopBeginStep ==
  ASSUME IInv, NEW c \in Callers, StopBegin(c)
  PROVE  IInv'
<1> USE DEF StopBegin, StopWith, CallerGoto
<1>1. TypeOK'
  BY DEF IInv, TypeOK, CallerLabels
<1>2. /\ stat = "on" /\ stat' = "stopping"
      /\ UNCHANGED <<inProgress, gcThread, created, workerPc>>
      /\ \A d \in Callers : callerPc'[d] = IF d = c THEN "stopping" ELSE callerPc[d]
      /\ callerPc[c] = "idle"
  BY DEF IInv, TypeOK
<1>3. OneCollector'
  BY <1>2 DEF IInv, OneCollector, Alive
<1>4. StatusIsTrue' /\ HandOver'
  BY <1>2 DEF IInv, StatusIsTrue, HandOver, Alive, Starting
<1> QED
  BY <1>1, <1>3, <1>4 DEF IInv

LEMMA StopJoinStep ==
  ASSUME IInv, NEW c \in Callers, StopJoin(c)
  PROVE  IInv'
<1> USE DEF StopJoin, CallerGoto, WorkerGoto, statVars
<1>1. TypeOK'
  BY DEF IInv, TypeOK, CallerLabels, WorkerLabels
<1>2. PICK w \in Workers : workerPc[w] = "exited" /\ workerPc' = [workerPc EXCEPT ![w] = "joined"]
  OBVIOUS
<1>3. /\ UNCHANGED <<stat, inProgress, gcThread, created>>
      /\ \A v \in Workers : workerPc'[v] = IF v = w THEN "joined" ELSE workerPc[v]
      /\ \A d \in Callers : callerPc'[d] = IF d = c THEN "idle" ELSE callerPc[d]
      /\ callerPc[c] = "join"
  BY <1>2 DEF IInv, TypeOK
<1>4. Alive' = Alive /\ Starting' = Starting
  BY <1>2, <1>3 DEF Alive, Starting
<1>5. OneCollector'
  <2>1. \A v \in Workers : workerPc'[v] = "collect" <=> workerPc[v] = "collect"
    BY <1>2, <1>3
  <2>2. \A d \in Callers : callerPc'[d] = "collect" <=> callerPc[d] = "collect"
    BY <1>3
  <2> QED
    BY <1>3, <1>4, <2>1, <2>2 DEF IInv, OneCollector
<1>6. StatusIsTrue' /\ HandOver'
  BY <1>2, <1>3, <1>4 DEF IInv, StatusIsTrue, HandOver
<1> QED
  BY <1>1, <1>5, <1>6 DEF IInv

LEMMA UserCollectStep ==
  ASSUME IInv, NEW c \in Callers, UserCollectBegin(c) \/ UserCollectEnd(c)
  PROVE  IInv'
<1> USE DEF UserCollectBegin, UserCollectEnd, CallerGoto
<1>1. TypeOK'
  BY DEF IInv, TypeOK, CallerLabels
<1>2. /\ UNCHANGED <<stat, gcThread, created, workerPc>>
      /\ \A d \in Callers : d # c => callerPc'[d] = callerPc[d]
      /\ {callerPc[c], callerPc'[c]} = {"idle", "collect"}
  BY DEF IInv, TypeOK
<1>3. Alive' = Alive /\ Starting' = Starting
  BY <1>2 DEF Alive, Starting
<1>4. OneCollector'
  <2>1. CASE UserCollectBegin(c)
    BY <1>2, <1>3, <2>1 DEF IInv, TypeOK, OneCollector
  <2>2. CASE UserCollectEnd(c)
    BY <1>2, <1>3, <2>2 DEF IInv, TypeOK, OneCollector
  <2> QED
    BY <2>1, <2>2
<1>5. StatusIsTrue'
  BY <1>2, <1>3 DEF IInv, StatusIsTrue
<1>6. HandOver'
  BY <1>2, <1>3 DEF IInv, HandOver
<1> QED
  BY <1>1, <1>4, <1>5, <1>6 DEF IInv

\* The worker's own steps but the last keep it alive and the status as it is.
LEMMA WorkerLoopStep ==
  ASSUME IInv, NEW w \in Workers,
         WorkerCollect(w) \/ WorkerSkip(w) \/ WorkerCollected(w) \/ WorkerCheck(w)
  PROVE  IInv'
<1> USE DEF WorkerCollect, WorkerSkip, WorkerCollected, WorkerCheck, CheckThen, WorkerGoto, statVars
<1>1. TypeOK'
  BY DEF IInv, TypeOK, WorkerLabels
<1>2. /\ UNCHANGED <<stat, gcThread, created, callerPc>>
      /\ \A v \in Workers : v # w => workerPc'[v] = workerPc[v]
      /\ workerPc[w] \in {"loop", "collect", "check"}
      /\ workerPc'[w] \in {"loop", "collect", "check", "off"}
      /\ workerPc'[w] = "off" => stat = "stopping"
  BY DEF IInv, TypeOK
<1>3. Alive' = Alive /\ Starting' = Starting
  BY <1>2 DEF Alive, Starting
<1>4. OneCollector'
  <2>1. CASE WorkerCollect(w)
    BY <1>2, <1>3, <2>1 DEF IInv, TypeOK, OneCollector
  <2>2. CASE WorkerCollected(w)
    <3>1. \A v \in Workers : workerPc[v] = "collect" => v = w
      BY <2>2 DEF IInv, OneCollector, Alive
    <3> QED
      BY <1>2, <1>3, <2>2, <3>1 DEF IInv, TypeOK, OneCollector
  <2>3. CASE WorkerSkip(w) \/ WorkerCheck(w)
    <3>1. \A v \in Workers : workerPc'[v] = "collect" <=> workerPc[v] = "collect"
      BY <1>2, <2>3 DEF IInv, TypeOK
    <3> QED
      BY <1>2, <1>3, <2>3, <3>1 DEF IInv, OneCollector
  <2> QED
    BY <2>1, <2>2, <2>3
<1>5. StatusIsTrue'
  BY <1>2, <1>3 DEF IInv, StatusIsTrue
<1>6. HandOver'
  <2>1. \A v \in Workers : v > created' => workerPc'[v] = "none"
    BY <1>2 DEF IInv, HandOver
  <2>2. \A v \in Workers : workerPc'[v] = "off" => stat' = "stopping"
    BY <1>2 DEF IInv, HandOver
  <2> QED
    BY <1>2, <1>3, <2>1, <2>2 DEF IInv, HandOver
<1> QED
  BY <1>1, <1>4, <1>5, <1>6 DEF IInv

LEMMA WorkerOffStep ==
  ASSUME IInv, NEW w \in Workers, WorkerOff(w)
  PROVE  IInv'
<1> USE DEF WorkerOff, WorkerGoto
<1>1. TypeOK'
  BY DEF IInv, TypeOK, WorkerLabels
<1>2. /\ stat' = "off" /\ UNCHANGED <<inProgress, gcThread, created, callerPc>>
      /\ \A v \in Workers : workerPc'[v] = IF v = w THEN "exited" ELSE workerPc[v]
      /\ workerPc[w] = "off"
  BY DEF IInv, TypeOK
<1>3. stat = "stopping" /\ Starting = {} /\ Alive = {w}
  BY <1>2 DEF IInv, HandOver, OneCollector, Alive
<1>4. Starting' = {} /\ Alive' = {}
  BY <1>2, <1>3 DEF Starting, Alive
<1>5. \A v \in Workers : workerPc'[v] = "collect" <=> workerPc[v] = "collect"
  BY <1>2
<1>6. OneCollector'
  BY <1>2, <1>4, <1>5 DEF IInv, OneCollector
<1>7. StatusIsTrue'
  BY <1>2, <1>4 DEF StatusIsTrue
<1>8. HandOver'
  <2>1. \A v \in Workers : v > created' => workerPc'[v] = "none"
    BY <1>2 DEF IInv, HandOver
  <2>2. \A v \in Workers : workerPc'[v] # "off"
    BY <1>4 DEF Alive
  <2> QED
    BY <1>2, <1>4, <2>1, <2>2 DEF HandOver, Starting
<1> QED
  BY <1>1, <1>6, <1>7, <1>8 DEF IInv

-----------------------------------------------------------------------------
LEMMA NextIInv == IInv /\ [Next]_vars => IInv'
<1> SUFFICES ASSUME IInv, [Next]_vars PROVE IInv'
  OBVIOUS
<1>1. CASE UNCHANGED vars
  BY <1>1 DEF vars, statVars, IInv, TypeOK, OneCollector, StatusIsTrue, HandOver, Alive, Starting
<1>2. ASSUME NEW c \in Callers,
             \/ StartBegin(c) \/ StopBegin(c) \/ UserCollectBegin(c) \/ CallerStep(c)
      PROVE  IInv'
  BY <1>2, StartBeginStep, StopBeginStep, UserCollectStep, StartCreateStep, StartOnStep,
     QuietCallerStep, StopJoinStep DEF CallerStep
<1>3. ASSUME NEW w \in Workers, WorkerStep(w)
      PROVE  IInv'
  BY <1>3, WorkerLoopStep, WorkerOffStep DEF WorkerStep
<1> QED
  BY <1>1, <1>2, <1>3 DEF Next

THEOREM Invariance == Spec => []IInv
<1> QED
  BY InitIInv, NextIInv, PTL DEF Spec

\* Every variable of the worker protocol keeps its type.
THEOREM TypeCorrect == Spec => []TypeOK
<1>1. IInv => TypeOK
  BY DEF IInv
<1> QED
  BY <1>1, Invariance, PTL

\* However many threads start, stop and collect, there is one worker and one
\* collection at a time.
THEOREM CollectorIsAlone == Spec => []OneCollector
<1>1. IInv => OneCollector
  BY DEF IInv
<1> QED
  BY <1>1, Invariance, PTL

\* What cs.c:715-717 says of the status while a worker runs.
THEOREM StatusHolds == Spec => []StatusIsTrue
<1>1. IInv => StatusIsTrue
  BY DEF IInv
<1> QED
  BY <1>1, Invariance, PTL
=============================================================================
