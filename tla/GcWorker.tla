------------------------------ MODULE GcWorker ------------------------------
(***************************************************************************)
(* The background collector of gc_src/cs.c: cs_start_gc, cs_stop_gc, the   *)
(* worker thread between them and the flag that keeps two collections      *)
(* apart.  Each critical section of gc_stat_lock is one step; what a       *)
(* collection does in between is in Collector.                             *)
(***************************************************************************)
EXTENDS Naturals, FiniteSets

CONSTANTS
  Callers,     \* threads that run collections
  Starters,    \* those that start and stop the worker too
  MaxWorkers,  \* bound: worker threads created in one run
  Nobody       \* no thread

Workers == 1..MaxWorkers

ASSUME GcWorkerAssumption ==
  /\ Starters \subseteq Callers
  /\ MaxWorkers \in Nat
  /\ Nobody \notin Workers

VARIABLES
  stat,         \* gc_worker_stat
  inProgress,   \* gc_in_progress
  gcThread,     \* gc_thread, the worker the last pthread_create returned
  created,      \* how many workers there have been
  callerPc,     \* where a caller is
  workerPc,     \* where a worker is, "none" before it is created
  stopped,      \* the worker a caller told to stop
  joining       \* the worker it passes to pthread_join

statVars == <<stat, inProgress>>
vars == <<statVars, gcThread, created, callerPc, workerPc, stopped, joining>>

CallerLabels == {"idle", "create", "on", "stopping", "join", "collect"}
WorkerLabels == {"none", "loop", "collect", "check", "off", "exited", "joined"}

TypeOK ==
  /\ stat \in {"on", "starting", "stopping", "off"}
  /\ inProgress \in BOOLEAN
  /\ gcThread \in Workers \cup {Nobody}
  /\ created \in 0..MaxWorkers
  /\ callerPc \in [Callers -> CallerLabels]
  /\ workerPc \in [Workers -> WorkerLabels]
  /\ stopped \in [Callers -> Workers \cup {Nobody}]
  /\ joining \in [Callers -> Workers \cup {Nobody}]

Init ==
  /\ stat = "off"
  /\ inProgress = FALSE
  /\ gcThread = Nobody
  /\ created = 0
  /\ callerPc = [c \in Callers |-> "idle"]
  /\ workerPc = [w \in Workers |-> "none"]
  /\ stopped = [c \in Callers |-> Nobody]
  /\ joining = [c \in Callers |-> Nobody]

CallerGoto(c, from, to) == callerPc[c] = from /\ callerPc' = [callerPc EXCEPT ![c] = to]
WorkerGoto(w, from, to) == workerPc[w] = from /\ workerPc' = [workerPc EXCEPT ![w] = to]

-----------------------------------------------------------------------------
\* cs_start_gc: it answers 1 and changes nothing unless the worker is off.
StartWhen(c, allowed) ==
  /\ c \in Starters
  /\ CallerGoto(c, "idle", "create")
  /\ created < MaxWorkers
  /\ stat \in allowed
  /\ stat' = "starting"
  /\ UNCHANGED <<inProgress, gcThread, created, workerPc, stopped, joining>>

\* Mutant of StartBegin: a worker that is stopping counts as off.
StartBeginTooSoon(c) == StartWhen(c, {"off", "stopping"})

StartBegin(c) == StartWhen(c, {"off"})

CreateAs(c, id) ==
  /\ CallerGoto(c, "create", "on")
  /\ created < MaxWorkers
  /\ created' = created + 1
  /\ gcThread' = id
  /\ workerPc' = [workerPc EXCEPT ![created + 1] = "loop"]
  /\ UNCHANGED <<statVars, stopped, joining>>

StartCreate(c) == CreateAs(c, created + 1)

StartOn(c) ==
  /\ CallerGoto(c, "on", "idle")
  /\ stat' = "on"
  /\ UNCHANGED <<inProgress, gcThread, created, workerPc, stopped, joining>>

\* cs_stop_gc: it answers 1 and changes nothing unless the worker is on.
\* stopped remembers which worker was on.
StopWith(c, s) ==
  /\ c \in Starters
  /\ CallerGoto(c, "idle", "stopping")
  /\ stat = "on"
  /\ stat' = s
  /\ stopped' = [stopped EXCEPT ![c] = gcThread]
  /\ UNCHANGED <<inProgress, gcThread, created, workerPc, joining>>

\* Mutant of StopBegin: the worker is not told.
StopBeginSilent(c) == StopWith(c, stat)

StopBegin(c) == StopWith(c, "stopping")

\* gc_thread is read after the lock is released.
StopReadThread(c) ==
  /\ CallerGoto(c, "stopping", "join")
  /\ joining' = [joining EXCEPT ![c] = gcThread]
  /\ UNCHANGED <<statVars, gcThread, created, workerPc, stopped>>

StopJoin(c) ==
  /\ CallerGoto(c, "join", "idle")
  /\ \E w \in Workers :
       /\ joining[c] = w
       /\ WorkerGoto(w, "exited", "joined")
  /\ stopped' = [stopped EXCEPT ![c] = Nobody]
  /\ joining' = [joining EXCEPT ![c] = Nobody]
  /\ UNCHANGED <<statVars, gcThread, created>>

\* cs_collect_garbage called by a user thread; it returns 0 at once if a
\* collection is under way.
UserCollectBegin(c) ==
  /\ CallerGoto(c, "idle", "collect")
  /\ ~inProgress
  /\ inProgress' = TRUE
  /\ UNCHANGED <<stat, gcThread, created, workerPc, stopped, joining>>

UserCollectEnd(c) ==
  /\ CallerGoto(c, "collect", "idle")
  /\ inProgress' = FALSE
  /\ UNCHANGED <<stat, gcThread, created, workerPc, stopped, joining>>

-----------------------------------------------------------------------------
\* cs_gc_worker.
WorkerCollect(w) ==
  /\ ~inProgress
  /\ WorkerGoto(w, "loop", "collect")
  /\ inProgress' = TRUE
  /\ UNCHANGED <<stat, gcThread, created, callerPc, stopped, joining>>

WorkerSkip(w) ==
  /\ inProgress
  /\ WorkerGoto(w, "loop", "check")
  /\ UNCHANGED <<statVars, gcThread, created, callerPc, stopped, joining>>

WorkerCollected(w) ==
  /\ WorkerGoto(w, "collect", "check")
  /\ inProgress' = FALSE
  /\ UNCHANGED <<stat, gcThread, created, callerPc, stopped, joining>>

CheckThen(w, stop) ==
  /\ WorkerGoto(w, "check", IF stat = "stopping" THEN stop ELSE "loop")
  /\ UNCHANGED <<statVars, gcThread, created, callerPc, stopped, joining>>

\* Mutant of WorkerCheck: the worker returns without the status of the end.
WorkerCheckReturns(w) == CheckThen(w, "exited")

WorkerCheck(w) == CheckThen(w, "off")

WorkerOff(w) ==
  /\ WorkerGoto(w, "off", "exited")
  /\ stat' = "off"
  /\ UNCHANGED <<inProgress, gcThread, created, callerPc, stopped, joining>>

-----------------------------------------------------------------------------
CallerStep(c) ==
  \/ StartCreate(c)
  \/ StartOn(c)
  \/ StopReadThread(c)
  \/ StopJoin(c)
  \/ UserCollectEnd(c)

WorkerStep(w) ==
  \/ WorkerCollect(w)
  \/ WorkerSkip(w)
  \/ WorkerCollected(w)
  \/ WorkerCheck(w)
  \/ WorkerOff(w)

Next ==
  \/ \E c \in Callers : \/ StartBegin(c) \/ StopBegin(c) \/ UserCollectBegin(c)
                        \/ CallerStep(c)
  \/ \E w \in Workers : WorkerStep(w)

Spec == Init /\ [][Next]_vars

\* Threads run on: a call or a worker that can take its next step does.
FairSpec ==
  /\ Spec
  /\ \A c \in Callers : WF_vars(CallerStep(c))
  /\ \A w \in Workers : WF_vars(WorkerStep(w))

-----------------------------------------------------------------------------
(***************************************************************************)
(* Properties.                                                             *)
(***************************************************************************)
Alive == {w \in Workers : workerPc[w] \in {"loop", "collect", "check", "off"}}

\* However starts, stops and collections of several threads are interleaved,
\* there is one worker and one collection at a time, and gc_in_progress says so.
OneCollector ==
  LET busyCallers == {c \in Callers : callerPc[c] = "collect"}
      busyWorkers == {w \in Workers : workerPc[w] = "collect"}
  IN /\ \A v, w \in Alive : v = w
     /\ \A c, d \in busyCallers : c = d
     /\ busyCallers = {} \/ busyWorkers = {}
     /\ inProgress <=> busyCallers \cup busyWorkers # {}

\* cs.c:715-717: while a worker runs the status is starting, on or stopping; and
\* when it is on or stopping gc_thread is the worker that runs.
StatusIsTrue ==
  /\ Alive # {} => stat # "off"
  /\ stat \in {"on", "stopping"} => gcThread \in Alive

\* A cs_stop_gc that has told the worker returns, whoever else starts workers
\* and collects, unless it has crossed with another: it waits for a worker it
\* did not stop, or somebody else joined the one it stopped.
Crossed(c) ==
  \/ joining[c] \notin {Nobody, stopped[c]}
  \/ \E w \in Workers : stopped[c] = w /\ workerPc[w] = "joined"

StopReturns ==
  \A c \in Callers : (callerPc[c] = "stopping") ~> (callerPc[c] = "idle" \/ Crossed(c))
=============================================================================
