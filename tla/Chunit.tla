------------------------------- MODULE Chunit -------------------------------
(***************************************************************************)
(* The test runner of testing_src: chunit.c forks a process for each test, *)
(* waits for it with a timeout and then reads what it has left in a pipe;  *)
(* assert.c is the side of the test process, whose threads may all fail an *)
(* assertion.  Processes are those of ChildProcs.  A SIGINT may end either *)
(* side at any time, and the system calls that open, fork, close and lock  *)
(* may fail.                                                               *)
(*                                                                         *)
(* A message in the pipe is its tag followed by the words of its data; a   *)
(* word stands for a write of assert.c or for a part of one that fills the *)
(* pipe.                                                                   *)
(***************************************************************************)
EXTENDS ChildProcs

CONSTANTS
  SuiteSizes,     \* number of tests of each suite of the module
  Kinds,          \* the kinds of failed assertions
  Words,          \* words of data that follow the tag of a kind
  PipeCap,        \* words the pipe holds
  MaxOthers,      \* bound: children the program forks besides the tests
  JoinsThreads    \* a test joins its threads before it returns

Threads == {"main", "helper"}

ASSUME ChunitAssumption ==
  /\ SuiteSizes \in Seq(Nat) /\ PipeCap \in Nat \ {0} /\ MaxOthers \in Nat
  /\ Words \in [Kinds -> Nat]
  /\ Kinds \cap {"void", "success", "leak", "timeout", "unexpected", "fatal"} = {}
  /\ Kinds \cap {"none", "exited", "crashed", "interrupted"} = {}  \* the rest of fate
  /\ JoinsThreads \in BOOLEAN

VARIABLES
  pc,           \* where the runner is
  suite, test,  \* the suite and the test it has come to
  shouldFail,   \* test->should_fail
  child,        \* the test process
  wfd, rfd,     \* the runner's ends of the pipe are open
  pipe,         \* words in the pipe
  stat,         \* the status of the test process, once it has been waited for
  result, errors,         \* the test run: its result and framework errors
  successes, successful,  \* of the suite, of the module
  others,       \* children forked besides the tests
  tpc,          \* where a thread of the test process is
  msg, left,    \* the message it writes and the words left of it
  mutex,        \* who has the mutex of the assertions, or "nobody"
  fate,         \* history: what the test process has done in the end
  allGood       \* history: every test so far has done what it should

runVars == <<suite, test, shouldFail, successes, successful, others, allGood>>
testVars == <<tpc, msg, left, mutex, fate>>
vars == <<procVars, pc, runVars, child, wfd, rfd, pipe, stat, result, errors, testVars>>

Init ==
  /\ ProcInit
  /\ pc = "next" /\ suite = 1 /\ test = 1
  /\ shouldFail = FALSE
  /\ child = NoPid
  /\ wfd = FALSE /\ rfd = FALSE /\ pipe = <<>>
  /\ stat = "none" /\ result = "void" /\ errors = {}
  /\ successes = 0 /\ successful = TRUE
  /\ others = 0
  /\ tpc = [t \in Threads |-> "off"]
  /\ msg = [t \in Threads |-> "void"]
  /\ left = [t \in Threads |-> 0]
  /\ mutex = "nobody"
  /\ fate = "none"
  /\ allGood = TRUE

At(label) == life = "up" /\ pc = label

Error(e) == errors' = errors \cup {e}

-----------------------------------------------------------------------------
(***************************************************************************)
(* The runner: chunit_run_test and chunit_parent_process.                  *)
(***************************************************************************)
\* The program may have children of its own; nobody waits for them.
ForkOther ==
  /\ At("next") /\ others < MaxOthers
  /\ \E p \in Pids : Fork(p)
  /\ others' = others + 1
  /\ UNCHANGED <<pc, suite, test, shouldFail, successes, successful, allGood, child, wfd, rfd,
                 pipe, stat, result, errors, testVars>>

BeginTest ==
  /\ At("next")
  /\ suite <= Len(SuiteSizes) /\ test <= SuiteSizes[suite]
  /\ shouldFail' \in BOOLEAN
  /\ pc' = "pipe"
  /\ UNCHANGED <<procVars, suite, test, successes, successful, others, allGood, child, wfd, rfd,
                 pipe, stat, result, errors, testVars>>

OpenPipe ==
  /\ At("pipe")
  /\ \/ wfd' = TRUE /\ rfd' = TRUE /\ pc' = "fork" /\ UNCHANGED errors
     \/ Error("pipe") /\ pc' = "report" /\ UNCHANGED <<wfd, rfd>>
  /\ pipe' = <<>>
  /\ UNCHANGED <<procVars, runVars, child, stat, result, testVars>>

\* When the fork fails both ends of the pipe stay open.
ForkTest ==
  /\ At("fork")
  /\ \/ /\ \E p \in Pids : Fork(p) /\ child' = p
        /\ tpc' = [tpc EXCEPT !["main"] = "setup"]
        /\ pc' = "close write"
        /\ UNCHANGED errors
     \/ /\ Error("fork")
        /\ pc' = "report"
        /\ UNCHANGED <<procVars, child, tpc>>
  /\ UNCHANGED <<runVars, wfd, rfd, pipe, stat, result, msg, left, mutex, fate>>

\* Mutant of CloseWrite: the runner keeps the end it does not write to.
KeepWrite ==
  /\ At("close write")
  /\ pc' = "wait"
  /\ UNCHANGED <<procVars, runVars, child, wfd, rfd, pipe, stat, result, errors, testVars>>

CloseWrite ==
  /\ At("close write")
  /\ \/ wfd' = FALSE /\ pc' = "wait" /\ UNCHANGED errors
     \/ Error("pipe") /\ pc' = "kill" /\ UNCHANGED wfd
  /\ UNCHANGED <<procVars, runVars, child, rfd, pipe, stat, result, testVars>>

\* safe_waitpid_timed: one of its polls finds the process ended, or the time
\* is over and the process was running at the last poll.
Wait ==
  /\ At("wait")
  /\ \/ Reap(child) /\ stat' = proc[child] /\ pc' = "unlist" /\ UNCHANGED result
     \/ /\ proc[child] = "child"
        /\ result' = "timeout" /\ pc' = "kill"
        /\ UNCHANGED <<procVars, stat>>
  /\ UNCHANGED <<runVars, child, wfd, rfd, pipe, errors, testVars>>

\* safe_kill_and_reap: the process may have ended by itself since the poll.
KillTest ==
  /\ At("kill")
  /\ Kill(child)
  /\ pc' = "reap"
  /\ UNCHANGED <<runVars, child, wfd, rfd, pipe, stat, result, errors, testVars>>

ReapKilled ==
  /\ At("reap")
  /\ Reap(child)
  /\ pc' = "unlist"
  /\ UNCHANGED <<runVars, child, wfd, rfd, pipe, stat, result, errors, testVars>>

\* Mutant of AfterWait: the timeout returns before the pipe is closed.
AfterWaitNoClose == IF result = "timeout" \/ errors # {} THEN "report" ELSE "judge"

\* Where the wait returns to: an error of the pipe leaves its read end open.
AfterWait == IF result = "timeout" THEN "close read" ELSE IF errors # {} THEN "report" ELSE "judge"

UnlistTest ==
  /\ At("unlist")
  /\ Unlist
  /\ pc' = AfterWait
  /\ UNCHANGED <<runVars, child, wfd, rfd, pipe, stat, result, errors, testVars>>

\* The status of the process, before the pipe is looked at.
Judge ==
  /\ At("judge")
  /\ \/ /\ stat = "signal"
        /\ result' = "fatal" /\ pc' = "close read" /\ UNCHANGED errors
     \/ /\ stat = "pipe error"
        /\ Error("pipe") /\ pc' = "report" /\ UNCHANGED result
     \/ /\ stat = "mutex error"
        /\ Error("mutex") /\ pc' = "close read" /\ UNCHANGED result
     \/ /\ stat = "exit1"
        /\ result' = IF shouldFail THEN "success" ELSE "fatal"
        /\ pc' = "close read" /\ UNCHANGED errors
     \/ /\ stat = "exit0" /\ shouldFail
        /\ result' = "unexpected" /\ pc' = "close read" /\ UNCHANGED errors
     \/ /\ stat = "exit0" /\ ~shouldFail
        /\ pc' = "read" /\ UNCHANGED <<result, errors>>
  /\ UNCHANGED <<procVars, runVars, child, wfd, rfd, pipe, stat, testVars>>

\* safe_read of n words: it waits while the pipe is empty and can be written to.
Reads(n) == Len(pipe) >= n
EndOfFile(n) == Len(pipe) < n /\ ~wfd

\* The tag and then the data, if its kind has any.
ReadResult ==
  /\ At("read")
  /\ \/ /\ Reads(1)
        /\ LET kind == pipe[1]
               n == IF kind \in Kinds THEN Words[kind] ELSE 0
           IN \/ /\ Reads(1 + n)
                 /\ result' = kind /\ pc' = "close read"
                 /\ pipe' = SubSeq(pipe, 2 + n, Len(pipe))
                 /\ UNCHANGED errors
              \/ /\ EndOfFile(1 + n)
                 /\ Error("pipe") /\ pc' = "report"
                 /\ UNCHANGED <<result, pipe>>
     \/ /\ EndOfFile(1)
        /\ Error("pipe") /\ pc' = "report"
        /\ UNCHANGED <<result, pipe>>
  /\ UNCHANGED <<procVars, runVars, child, wfd, rfd, stat, testVars>>

CloseRead ==
  /\ At("close read")
  /\ \/ rfd' = FALSE /\ UNCHANGED errors
     \/ Error("pipe") /\ UNCHANGED rfd
  /\ pc' = "report"
  /\ UNCHANGED <<procVars, runVars, child, wfd, pipe, stat, result, testVars>>

-----------------------------------------------------------------------------
(***************************************************************************)
(* chunit_run_suite and chunit_run_module.                                 *)
(***************************************************************************)
Good == result = "success" /\ errors = {}

\* The test run is counted, and all that belongs to it is forgotten, the
\* descriptors it has left open among it.
Report ==
  /\ At("report")
  /\ successes' = IF Good THEN successes + 1 ELSE successes
  /\ allGood' = (allGood /\ Good)
  /\ test' = test + 1
  /\ shouldFail' = FALSE
  /\ child' = NoPid
  /\ wfd' = FALSE /\ rfd' = FALSE /\ pipe' = <<>>
  /\ stat' = "none" /\ result' = "void" /\ errors' = {}
  /\ tpc' = [t \in Threads |-> "off"]
  /\ msg' = [t \in Threads |-> "void"]
  /\ left' = [t \in Threads |-> 0]
  /\ mutex' = "nobody"
  /\ fate' = "none"
  /\ pc' = "next"
  /\ UNCHANGED <<procVars, suite, successful, others>>

EndSuite ==
  /\ At("next")
  /\ suite <= Len(SuiteSizes) /\ test > SuiteSizes[suite]
  /\ successful' = (successful /\ successes = SuiteSizes[suite])
  /\ successes' = 0
  /\ suite' = suite + 1 /\ test' = 1
  /\ UNCHANGED <<procVars, pc, shouldFail, others, allGood, child, wfd, rfd, pipe, stat, result, errors,
                 testVars>>

\* The program ends with safe_exit.
EndModule ==
  /\ At("next")
  /\ suite > Len(SuiteSizes)
  /\ ExitCall
  /\ pc' = "done"
  /\ UNCHANGED <<runVars, child, wfd, rfd, pipe, stat, result, errors, testVars>>

-----------------------------------------------------------------------------
(***************************************************************************)
(* The test process: chunit_child_process and the assertions of assert.c.  *)
(***************************************************************************)
testing == child # NoPid /\ proc[child] = "child"

AtTest(t, label) == testing /\ tpc[t] = label

Goes(t, label) == tpc' = [tpc EXCEPT ![t] = label]

\* safe_exit in the test process, by any of its threads, ends all of them.
TestExits(how, end) ==
  /\ ChildEnds(child, how)
  /\ fate' = end
  /\ tpc' = [t \in Threads |-> "off"]
  /\ UNCHANGED <<pc, runVars, child, wfd, rfd, pipe, stat, result, errors, msg, left, mutex>>

\* A step of one thread that the runner and the process list do not see.
ThreadStep == UNCHANGED <<procVars, pc, runVars, child, wfd, rfd, stat, result, errors>>

\* The mutex is made, the read end closed, and the test starts; it may have a
\* second thread.
Setup ==
  /\ AtTest("main", "setup")
  /\ \/ /\ \E h \in {"test", "off"} : tpc' = [main |-> "test", helper |-> h]
        /\ ThreadStep
        /\ UNCHANGED <<pipe, stat, msg, left, mutex, fate>>
     \/ \E e \in {"mutex error", "pipe error"} : TestExits(e, e)

\* What a thread is going to write, and where it goes to do that.
Says(t, m, label) ==
  /\ msg' = [msg EXCEPT ![t] = m]
  /\ left' = [left EXCEPT ![t] = 1 + IF m \in Kinds THEN Words[m] ELSE 0]
  /\ Goes(t, label)
  /\ ThreadStep
  /\ UNCHANGED <<pipe, stat, mutex, fate>>

FailAssert(t, kind) == AtTest(t, "test") /\ Says(t, kind, "lock")

\* The test function returns: the result is written without the mutex.
ReturnFromTest(m) ==
  /\ AtTest("main", "test")
  /\ JoinsThreads => tpc["helper"] = "off"
  /\ Says("main", m, "write")

HelperReturns ==
  /\ AtTest("helper", "test")
  /\ Goes("helper", "off")
  /\ ThreadStep
  /\ UNCHANGED <<pipe, stat, msg, left, mutex, fate>>

\* The code under test calls safe_exit(1), or crashes.
ExitOrCrash ==
  \E t \in Threads :
    /\ AtTest(t, "test")
    /\ TestExits("exit1", "exited") \/ TestExits("signal", "crashed")

\* Mutant of Lock: the mutex is not waited for.
LockIgnored(t) ==
  /\ AtTest(t, "lock")
  /\ \/ /\ Goes(t, "write") /\ mutex' = t
        /\ ThreadStep
        /\ UNCHANGED <<pipe, stat, msg, left, fate>>
     \/ TestExits("mutex error", "mutex error")

\* test_lock: nobody ever gives the mutex back.
Lock(t) ==
  /\ AtTest(t, "lock")
  /\ \/ /\ mutex = "nobody"
        /\ Goes(t, "write") /\ mutex' = t
        /\ ThreadStep
        /\ UNCHANGED <<pipe, stat, msg, left, fate>>
     \/ TestExits("mutex error", "mutex error")

Whole(t) == 1 + IF msg[t] \in Kinds THEN Words[msg[t]] ELSE 0

\* write_result and write_data: one word, as soon as there is room for it.
Write(t) ==
  /\ AtTest(t, "write")
  /\ Len(pipe) < PipeCap
  /\ pipe' = Append(pipe, IF left[t] = Whole(t) THEN msg[t] ELSE "word")
  /\ left' = [left EXCEPT ![t] = @ - 1]
  /\ IF left[t] = 1 THEN Goes(t, "close") /\ fate' = msg[t] ELSE UNCHANGED <<tpc, fate>>
  /\ ThreadStep
  /\ UNCHANGED <<msg, mutex>>

\* cleanup_and_exit.
CleanupAndExit(t) ==
  /\ AtTest(t, "close")
  /\ TestExits("exit0", fate) \/ TestExits("pipe error", fate)

\* SIGINT is blocked in a thread while safe_write has not come to its end; it
\* goes to any other thread.
TestInterrupted ==
  /\ \E t \in Threads : testing /\ tpc[t] # "off" /\ ~(tpc[t] = "write" /\ Len(pipe) = PipeCap)
  /\ TestExits("exit0", IF fate = "none" THEN "interrupted" ELSE fate)

TestProcess ==
  \/ Setup
  \/ \E t \in Threads, k \in Kinds : FailAssert(t, k)
  \/ \E m \in {"success", "leak"} : ReturnFromTest(m)
  \/ HelperReturns
  \/ ExitOrCrash
  \/ \E t \in Threads : Lock(t) \/ Write(t) \/ CleanupAndExit(t)
  \/ TestInterrupted

-----------------------------------------------------------------------------
\* The steps of ChildProcs that neither the runner nor a test takes.
Elsewhere ==
  /\ \/ Interrupt
     \/ ExitKills
     \/ ExitEnds
     \/ \E p \in Pids : Stranger(p)
     \/ \E p \in Pids \ {child} : ChildEnds(p, "exit0")
  /\ UNCHANGED <<pc, runVars, child, wfd, rfd, pipe, stat, result, errors, testVars>>

Runner ==
  \/ BeginTest \/ OpenPipe \/ ForkTest \/ CloseWrite \/ Wait \/ KillTest \/ ReapKilled
  \/ UnlistTest \/ Judge \/ ReadResult \/ CloseRead \/ Report \/ EndSuite \/ EndModule

Exiting ==
  /\ ExitKills \/ ExitEnds
  /\ UNCHANGED <<pc, runVars, child, wfd, rfd, pipe, stat, result, errors, testVars>>

Next == Runner \/ ForkOther \/ TestProcess \/ Elsewhere

\* The root process is scheduled; the clock it reads goes on, so that Wait
\* does not only find the test running.  A test may do nothing for ever.
Spec == Init /\ [][Next]_vars
FairSpec == Spec /\ WF_vars(Runner) /\ WF_vars(Exiting)

-----------------------------------------------------------------------------
(***************************************************************************)
(* Properties.                                                             *)
(***************************************************************************)
\* What the runner should say of a test that has come to this end.
Expected ==
  CASE fate = "exited"  -> IF shouldFail THEN "success" ELSE "fatal"
    [] fate = "crashed" -> "fatal"
    [] OTHER            -> IF shouldFail THEN "unexpected" ELSE fate

\* A test run without a framework error that has not timed out has the result
\* that the test process has really come to, whichever of its threads has spoken
\* and whatever has cut it short; and a module is successful exactly when all of
\* its tests have been: chunit_parent_process and chunit_run_module.
ResultIsTrue ==
  /\ pc = "report" /\ errors = {} /\ result # "timeout" => result = Expected
  /\ pc = "done" => successful = allGood

\* The runner has closed both ends of the pipe of a test when it reports it,
\* unless the pipe itself has failed or the process could not be forked
\* ("we must close the read end of the pipe before exiting", chunit.c:123).
PipesClosed ==
  pc = "report" /\ errors \cap {"pipe", "fork"} = {} => ~wfd /\ ~rfd

\* Whatever its tests and its other children do, the root process ends: the
\* timeout of safe_waitpid_timed, the end of file of safe_read, and the kills
\* of safe_exit.
RunEnds == <>(life = "gone")
=============================================================================
