----------------------------- MODULE ChildProcs -----------------------------
(***************************************************************************)
(* The process layer of core_src/sys.c as the root process sees it: the    *)
(* list of children that safe_fork adds to and safe_waitpid removes from,  *)
(* and safe_exit, which kills and reaps every child on the list.           *)
(*                                                                         *)
(* The list is only touched under core_lock, with SIGINT blocked, so each  *)
(* critical section is one step and SIGINT arrives between two steps.  The *)
(* operating system's side of a process id is state too: an id is free     *)
(* again as soon as its process is reaped, and any program may get it.     *)
(* The list grows with a bare realloc, whose failure is only logged: the   *)
(* child then runs without being on the list.                              *)
(***************************************************************************)
EXTENDS Naturals, Sequences, FiniteSets, SequencesExt

CONSTANTS
  Pids,           \* process ids; a bound on the processes at a time
  NoPid,
  InterruptReap   \* SIGINT may arrive between waitpid and the lock of the list

ASSUME ChildProcsAssumption ==
  /\ Pids \subseteq Nat /\ IsFiniteSet(Pids) /\ NoPid \notin Pids
  /\ InterruptReap \in BOOLEAN

VARIABLES
  children, childCap,  \* the list of children and the room in its buffer
  unrecorded,          \* history: the children that there was no room for on the list
  proc,                \* what a process id names: "none", a "child", an "other"
                       \* program, or a child that has ended, by its status
  reaped,              \* the child safe_waitpid has reaped and not taken off the list yet
  life,                \* the root process: "up", "exiting" (in safe_exit), "gone"
  victim,              \* index in the list that safe_exit has come to
  misfired             \* history: a kill or a wait of ours has hit no child of ours

procVars == <<children, childCap, unrecorded, proc, reaped, life, victim, misfired>>

Statuses == {"exit0", "exit1", "pipe error", "mutex error", "signal"}

ProcInit ==
  /\ children = <<>> /\ childCap = 1 /\ unrecorded = {}
  /\ proc = [p \in Pids |-> "none"]
  /\ reaped = NoPid
  /\ life = "up" /\ victim = 0
  /\ misfired = FALSE

Unreaped(p) == proc[p] \in Statuses \cup {"child"}

FreePids == {p \in Pids : proc[p] = "none"}

\* cl_add: a full buffer is doubled first, or cannot be.
Add(p) ==
  /\ children' = Append(children, p)
  /\ childCap' = IF Len(children) = childCap THEN 2 * childCap ELSE childCap
  /\ UNCHANGED unrecorded

AddFails(p) ==
  /\ Len(children) = childCap
  /\ unrecorded' = unrecorded \cup {p}
  /\ UNCHANGED <<children, childCap>>

\* safe_fork, in the root: the child is on the list before anyone can see it,
\* unless it cannot be added; its id is returned all the same.
Fork(p) ==
  /\ p \in FreePids /\ \A q \in FreePids : p <= q
  /\ proc' = [proc EXCEPT ![p] = "child"]
  /\ Add(p) \/ AddFails(p)
  /\ UNCHANGED <<reaped, life, victim, misfired>>

\* A child ends by itself, or a signal ends it.
ChildEnds(p, how) ==
  /\ proc[p] = "child"
  /\ proc' = [proc EXCEPT ![p] = how]
  /\ UNCHANGED <<children, childCap, unrecorded, reaped, life, victim, misfired>>

\* kill(p, SIGKILL): a zombie does not mind.
Kill(p) ==
  /\ proc' = CASE proc[p] = "child" -> [proc EXCEPT ![p] = "signal"]
               [] proc[p] = "other" -> [proc EXCEPT ![p] = "none"]
               [] OTHER -> proc
  /\ misfired' = (misfired \/ ~Unreaped(p))
  /\ UNCHANGED <<children, childCap, unrecorded, reaped, life, victim>>

\* waitpid in safe_waitpid finds p ended: from here on the id is anybody's.
Reap(p) ==
  /\ reaped = NoPid
  /\ proc[p] \in Statuses
  /\ proc' = [proc EXCEPT ![p] = "none"]
  /\ reaped' = p
  /\ UNCHANGED <<children, childCap, unrecorded, life, victim, misfired>>

\* Mutant of Unlist: the search for the child stops at the first one.
UnlistFirst ==
  /\ reaped # NoPid
  /\ children' = Tail(children)
  /\ unrecorded' = unrecorded \ {reaped}
  /\ reaped' = NoPid
  /\ UNCHANGED <<childCap, proc, life, victim, misfired>>

\* The rest of safe_waitpid, under core_lock: cl_remove at the first place of
\* the child; "Unknown child process was reaped" when it has none.
Unlist ==
  /\ reaped # NoPid
  /\ children' = RemoveFirst(children, reaped)
  /\ unrecorded' = unrecorded \ {reaped}
  /\ reaped' = NoPid
  /\ UNCHANGED <<childCap, proc, life, victim, misfired>>

-----------------------------------------------------------------------------
\* safe_exit takes core_lock and keeps it through exit.
ExitCall ==
  /\ life = "up"
  /\ life' = "exiting" /\ victim' = 1
  /\ UNCHANGED <<children, childCap, unrecorded, proc, reaped, misfired>>

\* safe_sigint_handler: SIGINT is blocked in no state between two steps but
\* is not looked for in the middle of a reap unless InterruptReap is set.
Interrupt ==
  /\ reaped = NoPid \/ InterruptReap
  /\ ExitCall

\* One child is killed and waited for.
ExitKills ==
  /\ life = "exiting" /\ victim <= Len(children)
  /\ LET p == children[victim]
     IN /\ proc' = IF proc[p] = "none" THEN proc ELSE [proc EXCEPT ![p] = "none"]
        /\ misfired' = (misfired \/ ~Unreaped(p))
  /\ victim' = victim + 1
  /\ UNCHANGED <<children, childCap, unrecorded, reaped, life>>

ExitEnds ==
  /\ life = "exiting" /\ victim > Len(children)
  /\ life' = "gone"
  /\ children' = <<>>
  /\ UNCHANGED <<childCap, unrecorded, proc, reaped, victim, misfired>>

\* The operating system gives a free id to another program; the program ends.
Stranger(p) ==
  /\ \/ proc[p] = "none" /\ proc' = [proc EXCEPT ![p] = "other"]
     \/ proc[p] = "other" /\ proc' = [proc EXCEPT ![p] = "none"]
  /\ UNCHANGED <<children, childCap, unrecorded, reaped, life, victim, misfired>>

-----------------------------------------------------------------------------
(***************************************************************************)
(* Properties.                                                             *)
(***************************************************************************)
\* The list names every child that has not been reaped, once, and besides
\* those only the child being taken off it; it fits its buffer; and when the
\* root is gone, all of its children have been reaped.  It is so of every child
\* but those that safe_fork "was unable to" record (sys.c:338): they are not on
\* the list until they are reaped, and nobody but their test run kills them.
ChildrenAccounted ==
  /\ life = "up" =>
       {children[i] : i \in DOMAIN children} =
         ({p \in Pids : Unreaped(p)} \cup ({reaped} \ {NoPid})) \ unrecorded
  /\ \A i, j \in DOMAIN children : children[i] = children[j] => i = j
  /\ Len(children) <= childCap
  /\ life = "gone" => \A p \in Pids : Unreaped(p) => p \in unrecorded

\* "This should never error if core is used correctly..." (sys.c:370): a kill
\* or a wait of the core only ever meets a child that has not been reaped.
KillsOwnChildren == ~misfired
=============================================================================
