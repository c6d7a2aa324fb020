---------------------------- MODULE Chunit_proofs ----------------------------
(***************************************************************************)
(* The test runner, for any number of tests, process ids and kinds of      *)
(* messages: its list of children, its ends of the pipe, and what it says  *)
(* of a test and of the module.                                            *)
(***************************************************************************)
EXTENDS Chunit, SequenceTheorems, TLAPS

Kept == Statuses \cup {"none", "child", "other"}

ProcTypeOK ==
  /\ children \in Seq(Pids)
  /\ childCap \in Nat \ {0}
  /\ unrecorded \subseteq Pids
  /\ proc \in [Pids -> Kept]
  /\ reaped \in Pids \cup {NoPid}
  /\ life \in {"up", "exiting", "gone"}
  /\ victim \in Nat
  /\ misfired \in BOOLEAN
  /\ child \in Pids \cup {NoPid}

Listed(p) == \E i \in 1..Len(children) : children[i] = p

\* Where the runner counts on its test process.
Watching == {"close write", "wait", "kill", "reap"}

\* The list while the runner is up, by where the runner is.
ListIsTrue ==
  /\ life = "up" => \A p \in Pids : Listed(p) <=> (Unreaped(p) \/ p = reaped) /\ p \notin unrecorded
  /\ life = "up" => \A p \in unrecorded : Unreaped(p) \/ p = reaped
  /\ life = "up" => (reaped # NoPid <=> pc = "unlist")
  /\ life = "up" /\ pc \in Watching => child \in Pids /\ Unreaped(child)
  /\ reaped # NoPid => ~Unreaped(reaped)
  /\ \A i, j \in 1..Len(children) : children[i] = children[j] => i = j
  /\ Len(children) <= childCap

\* What is left for safe_exit to do.
ExitIsTrue ==
  /\ life = "exiting" =>
       \A p \in Pids : Unreaped(p) =>
         p \in unrecorded \/ \E i \in victim..Len(children) : children[i] = p
  /\ life = "gone" => \A p \in Pids : Unreaped(p) => p \in unrecorded

IInv == ProcTypeOK /\ ListIsTrue /\ ExitIsTrue

\* Besides, when SIGINT is not looked for in the middle of a reap: whatever is
\* left on the list has not been reaped.
Spared ==
  /\ ~misfired
  /\ life = "exiting" =>
       victim > 0 /\ \A i \in victim..Len(children) : Unreaped(children[i])

USE ChildProcsAssumption

LEMMA IInvAccounts == IInv => ChildrenAccounted
<1> SUFFICES ASSUME IInv PROVE ChildrenAccounted
  OBVIOUS
<1>1. DOMAIN children = 1..Len(children)
  BY DEF IInv, ProcTypeOK
<1>2. \A i \in 1..Len(children) : children[i] \in Pids
  BY DEF IInv, ProcTypeOK
<1>3. ASSUME life = "up"
      PROVE  {children[i] : i \in DOMAIN children} =
               ({p \in Pids : Unreaped(p)} \cup ({reaped} \ {NoPid})) \ unrecorded
  <2>1. \A p \in Pids : Listed(p) <=> (Unreaped(p) \/ p = reaped) /\ p \notin unrecorded
    BY <1>3 DEF IInv, ListIsTrue
  <2>2. reaped = NoPid \/ reaped \in Pids
    BY DEF IInv, ProcTypeOK
  <2> QED
    BY <1>1, <1>2, <2>1, <2>2 DEF Listed
<1> QED
  BY <1>1, <1>3 DEF ChildrenAccounted, IInv, ListIsTrue, ExitIsTrue

\* SequencesExt's RemoveFirst on a sequence without repetitions.
LEMMA RemoveFirstOnce ==
  ASSUME NEW S, NEW s \in Seq(S), NEW e,
         \A i, j \in 1..Len(s) : s[i] = s[j] => i = j
  PROVE  LET r == RemoveFirst(s, e)
         IN /\ r \in Seq(S)
            /\ Len(r) <= Len(s)
            /\ \A i, j \in 1..Len(r) : r[i] = r[j] => i = j
            /\ \A x : (\E i \in 1..Len(r) : r[i] = x) <=> (\E i \in 1..Len(s) : s[i] = x) /\ x # e
<1> DEFINE r == RemoveFirst(s, e)
<1>1. CASE ~\E i \in 1..Len(s) : s[i] = e
  BY <1>1 DEF RemoveFirst
<1>2. ASSUME NEW k \in 1..Len(s), s[k] = e
      PROVE  /\ r \in Seq(S)
             /\ Len(r) = Len(s) - 1
             /\ \A i \in 1..Len(r) : r[i] = IF i < k THEN s[i] ELSE s[i + 1]
  <2>1. {i \in 1..Len(s) : s[i] = e} = {k}
    BY <1>2
  <2>2. Min({k}) = k
    BY DEF Min
  <2>3. SelectInSeq(s, LAMBDA v : v = e) = k
    BY <2>1, <2>2 DEF SelectInSeq
  <2>4. r = SubSeq(s, 1, k - 1) \o SubSeq(s, k + 1, Len(s))
    BY <1>2, <2>3 DEF RemoveFirst, RemoveAt
  <2> DEFINE front == SubSeq(s, 1, k - 1)
             back == SubSeq(s, k + 1, Len(s))
  <2>5. /\ front \in Seq(S) /\ Len(front) = k - 1
        /\ \A i \in 1..(k - 1) : front[i] = s[i]
    OBVIOUS
  <2>6. /\ back \in Seq(S) /\ Len(back) = Len(s) - k
        /\ \A i \in 1..(Len(s) - k) : back[i] = s[k + i]
    OBVIOUS
  <2>7. r = front \o back
    BY <2>4
  <2> HIDE DEF r, front, back
  <2>8. Len(s) \in Nat /\ r \in Seq(S) /\ Len(r) = Len(s) - 1
    <3>1. Len(s) \in Nat
      OBVIOUS
    <3>2. r \in Seq(S)
      BY <2>5, <2>6, <2>7
    <3>3. Len(r) = Len(front) + Len(back)
      BY <2>5, <2>6, <2>7, ConcatProperties, ZenonT(30)
    <3> QED
      BY <2>5, <2>6, <3>1, <3>2, <3>3
  <2>9. ASSUME NEW i \in 1..Len(r)
        PROVE  r[i] = IF i < k THEN s[i] ELSE s[i + 1]
    <3>1. CASE i < k
      BY <3>1, <2>5, <2>6, <2>7, <2>8
    <3>2. CASE i >= k
      <4>1. i - (k - 1) \in 1..(Len(s) - k) /\ k + (i - (k - 1)) = i + 1
        BY <3>2, <2>8
      <4>2. r[i] = back[i - (k - 1)]
        BY <4>1, <3>2, <2>5, <2>6, <2>7, <2>8
      <4> QED
        BY <4>1, <4>2, <3>2, <2>6
    <3> QED
      BY <3>1, <3>2, <2>8
  <2> QED
    BY <2>8, <2>9
<1>3. CASE \E i \in 1..Len(s) : s[i] = e
  <2>1. PICK k \in 1..Len(s) : s[k] = e
    BY <1>3
  <2>2. /\ r \in Seq(S)
        /\ Len(r) = Len(s) - 1
        /\ \A i \in 1..Len(r) : r[i] = IF i < k THEN s[i] ELSE s[i + 1]
    BY <1>2, <2>1
  <2> HIDE DEF r
  <2>3. \A i, j \in 1..Len(r) : r[i] = r[j] => i = j
    BY <2>2
  <2>4. ASSUME NEW i \in 1..Len(r)
        PROVE  \E j \in 1..Len(s) : s[j] = r[i] /\ r[i] # e
    BY <2>1, <2>2
  <2>5. ASSUME NEW j \in 1..Len(s), s[j] # e
        PROVE  \E i \in 1..Len(r) : r[i] = s[j]
    <3>1. CASE j < k
      BY <3>1, <2>2
    <3>2. CASE j > k
      <4>1. j - 1 \in 1..Len(r) /\ r[j - 1] = s[j]
        BY <3>2, <2>2
      <4> QED
        BY <4>1
    <3> QED
      BY <3>1, <3>2, <2>1, <2>5
  <2>6. \A x : (\E i \in 1..Len(r) : r[i] = x) <=> (\E i \in 1..Len(s) : s[i] = x) /\ x # e
    BY <2>4, <2>5
  <2> QED
    BY <2>2, <2>3, <2>6 DEF r
<1> QED
  BY <1>1, <1>3

-----------------------------------------------------------------------------
LEMMA InitIInv == Init => IInv /\ Spared
<1> SUFFICES ASSUME Init PROVE IInv /\ Spared
  OBVIOUS
<1>1. /\ children = <<>> /\ childCap = 1 /\ unrecorded = {}
      /\ proc = [p \in Pids |-> "none"] /\ reaped = NoPid
      /\ life = "up" /\ victim = 0 /\ misfired = FALSE /\ child = NoPid /\ pc = "next"
  BY DEF Init, ProcInit
<1>2. ProcTypeOK
  <2>1. children \in Seq(Pids)
    BY <1>1
  <2>2. proc \in [Pids -> Kept]
    BY <1>1 DEF Kept
  <2>3. childCap \in Nat \ {0} /\ victim \in Nat /\ unrecorded \subseteq Pids
    BY <1>1
  <2>4. misfired \in BOOLEAN /\ life \in {"up", "exiting", "gone"}
    BY <1>1
  <2>5. reaped \in Pids \cup {NoPid} /\ child \in Pids \cup {NoPid}
    BY <1>1
  <2> QED
    BY <2>1, <2>2, <2>3, <2>4, <2>5, Zenon DEF ProcTypeOK
<1>3. Len(children) = 0
  BY <1>1
<1>4. ListIsTrue
  BY <1>1, <1>3 DEF ListIsTrue, Listed, Unreaped, Statuses, Watching
<1> QED
  BY <1>1, <1>2, <1>4 DEF IInv, ExitIsTrue, Spared

\* The process list stays, and the runner does not come to watch a process it
\* has not watched before.
LEMMA QuietStep ==
  ASSUME IInv, UNCHANGED procVars,
         pc' = "unlist" <=> pc = "unlist",
         child' \in Pids \cup {NoPid},
         pc' \in Watching => pc \in Watching /\ child' = child
  PROVE  IInv' /\ (Spared => Spared')
<1> USE DEF procVars
<1>1. ProcTypeOK'
  BY DEF IInv, ProcTypeOK
<1>2. ListIsTrue'
  BY DEF IInv, ListIsTrue, Listed, Unreaped
<1>3. ExitIsTrue'
  BY DEF IInv, ExitIsTrue, Unreaped
<1> QED
  BY <1>1, <1>2, <1>3 DEF IInv, Spared, Unreaped

LEMMA ForkStep ==
  ASSUME IInv, NEW p \in Pids, Fork(p), life = "up", pc # "unlist", pc' # "unlist",
         child' \in Pids \cup {NoPid},
         pc' \in Watching => child' = p
  PROVE  IInv' /\ (Spared => Spared')
<1>1. /\ proc[p] = "none"
      /\ proc' = [proc EXCEPT ![p] = "child"]
      /\ Add(p) \/ AddFails(p)
      /\ UNCHANGED <<reaped, life, victim, misfired>>
  BY DEF Fork, FreePids
<1>2. reaped = NoPid
  BY DEF IInv, ListIsTrue
<1>3. ProcTypeOK'
  <2>1. children' \in Seq(Pids)
    BY <1>1 DEF Add, AddFails, IInv, ProcTypeOK
  <2>2. childCap' \in Nat \ {0}
    BY <1>1 DEF Add, AddFails, IInv, ProcTypeOK
  <2>3. unrecorded' \subseteq Pids
    BY <1>1 DEF Add, AddFails, IInv, ProcTypeOK
  <2> QED
    BY <1>1, <2>1, <2>2, <2>3 DEF IInv, ProcTypeOK, Kept
<1>4. \A q \in Pids : Unreaped(q)' <=> Unreaped(q) \/ q = p
  BY <1>1 DEF Unreaped, Statuses, IInv, ProcTypeOK
<1>5. ~Listed(p) /\ p \notin unrecorded
  BY <1>1, <1>2 DEF IInv, ListIsTrue, Unreaped, Statuses
<1>6. \A q \in unrecorded : q \in Pids /\ Unreaped(q)
  BY <1>2 DEF IInv, ListIsTrue, ProcTypeOK
<1>7. pc' \in Watching => child' \in Pids /\ Unreaped(child)'
  BY <1>4
<1>8. ASSUME Add(p) PROVE ListIsTrue'
  <2>1. /\ Len(children') = Len(children) + 1
        /\ \A i \in 1..Len(children) : children'[i] = children[i]
        /\ children'[Len(children) + 1] = p
        /\ Len(children) \in Nat
        /\ unrecorded' = unrecorded
    BY <1>8 DEF Add, IInv, ProcTypeOK
  <2>2. \A q \in Pids : Listed(q)' <=> Listed(q) \/ q = p
    BY <2>1 DEF Listed
  <2>3. \A q \in Pids : Listed(q)' <=> (Unreaped(q)' \/ q = reaped') /\ q \notin unrecorded'
    BY <1>1, <1>2, <1>4, <1>5, <2>1, <2>2 DEF IInv, ListIsTrue
  <2>4. \A q \in unrecorded' : q \in Pids /\ (Unreaped(q) \/ q = p)
    BY <1>6, <2>1
  <2>5. \A i, j \in 1..Len(children') : children'[i] = children'[j] => i = j
    BY <1>5, <2>1 DEF IInv, ListIsTrue, Listed
  <2>6. Len(children') <= childCap'
    BY <1>8, <2>1 DEF Add, IInv, ListIsTrue, ProcTypeOK
  <2> QED
    BY <1>1, <1>2, <1>4, <1>7, <2>3, <2>4, <2>5, <2>6 DEF ListIsTrue
<1>9. ASSUME AddFails(p) PROVE ListIsTrue'
  <2>1. /\ UNCHANGED <<children, childCap>>
        /\ unrecorded' = unrecorded \cup {p}
    BY <1>9 DEF AddFails
  <2>2. \A q \in Pids : Listed(q)' <=> Listed(q)
    BY <2>1 DEF Listed
  <2>3. \A q \in Pids : Listed(q)' <=> (Unreaped(q)' \/ q = reaped') /\ q \notin unrecorded'
    BY <1>1, <1>2, <1>4, <1>5, <2>1, <2>2 DEF IInv, ListIsTrue
  <2>4. \A q \in unrecorded' : q \in Pids /\ (Unreaped(q) \/ q = p)
    BY <1>6, <2>1
  <2> QED
    BY <1>1, <1>2, <1>4, <1>7, <2>1, <2>3, <2>4 DEF IInv, ListIsTrue
<1>10. ListIsTrue'
  BY <1>1, <1>8, <1>9
<1> QED
  BY <1>1, <1>3, <1>10 DEF IInv, ExitIsTrue, Spared

\* A step that leaves the list, and the set of children to be reaped, as it is.
LEMMA SameUnreaped ==
  ASSUME IInv, proc' \in [Pids -> Kept],
         \A p \in Pids : Unreaped(p)' <=> Unreaped(p),
         UNCHANGED <<children, childCap, unrecorded, reaped, life, victim, child>>,
         misfired' \in BOOLEAN,
         pc' = "unlist" <=> pc = "unlist",
         pc' \in Watching => pc \in Watching
  PROVE  IInv' /\ (Spared /\ ~misfired' => Spared')
<1>1. ProcTypeOK'
  BY DEF IInv, ProcTypeOK
<1>2. \A p : Listed(p)' <=> Listed(p)
  BY DEF Listed
<1>3. ListIsTrue'
  BY <1>2 DEF IInv, ListIsTrue, ProcTypeOK
<1>4. ExitIsTrue'
  BY DEF IInv, ExitIsTrue
<1>5. \A i \in 1..Len(children) : children[i] \in Pids
  BY DEF IInv, ProcTypeOK
<1>6. ASSUME Spared, ~misfired' PROVE Spared'
  <2>1. ASSUME life = "exiting" PROVE \A i \in victim..Len(children) : Unreaped(children[i])'
    BY <1>5, <1>6, <2>1 DEF Spared, IInv, ProcTypeOK
  <2> QED
    BY <1>6, <2>1 DEF Spared
<1> QED
  BY <1>1, <1>3, <1>4, <1>6 DEF IInv

LEMMA ChildEndsStep ==
  ASSUME IInv, NEW p \in Pids, NEW how \in Statuses, ChildEnds(p, how), UNCHANGED <<pc, child>>
  PROVE  IInv' /\ (Spared => Spared')
<1>1. /\ proc' = [proc EXCEPT ![p] = how] /\ proc[p] = "child"
      /\ UNCHANGED <<children, childCap, unrecorded, reaped, life, victim, misfired>>
  BY DEF ChildEnds
<1>2. proc' \in [Pids -> Kept]
  BY <1>1 DEF IInv, ProcTypeOK, Kept
<1>3. \A q \in Pids : Unreaped(q)' <=> Unreaped(q)
  BY <1>1 DEF Unreaped, IInv, ProcTypeOK
<1> QED
  BY <1>1, <1>2, <1>3, SameUnreaped DEF IInv, ProcTypeOK, Spared

LEMMA StrangerStep ==
  ASSUME IInv, NEW p \in Pids, Stranger(p), UNCHANGED <<pc, child>>
  PROVE  IInv' /\ (Spared => Spared')
<1>1. /\ \/ proc[p] = "none" /\ proc' = [proc EXCEPT ![p] = "other"]
         \/ proc[p] = "other" /\ proc' = [proc EXCEPT ![p] = "none"]
      /\ UNCHANGED <<children, childCap, unrecorded, reaped, life, victim, misfired>>
  BY DEF Stranger
<1>2. proc' \in [Pids -> Kept]
  BY <1>1 DEF IInv, ProcTypeOK, Kept
<1>3. \A q \in Pids : Unreaped(q)' <=> Unreaped(q)
  BY <1>1 DEF Unreaped, Statuses, IInv, ProcTypeOK
<1> QED
  BY <1>1, <1>2, <1>3, SameUnreaped DEF IInv, ProcTypeOK, Spared

\* The runner kills a test process that it watches, so it is one of its own.
LEMMA KillStep ==
  ASSUME IInv, life = "up", pc = "kill", Kill(child), pc' = "reap", UNCHANGED child
  PROVE  IInv' /\ (Spared => Spared')
<1>1. child \in Pids /\ Unreaped(child)
  BY DEF IInv, ListIsTrue, Watching
<1>2. /\ proc' = IF proc[child] = "child" THEN [proc EXCEPT ![child] = "signal"] ELSE proc
      /\ misfired' = misfired
      /\ UNCHANGED <<children, childCap, unrecorded, reaped, life, victim>>
  BY <1>1 DEF Kill, Unreaped, Statuses, IInv, ProcTypeOK
<1>3. proc' \in [Pids -> Kept]
  BY <1>1, <1>2 DEF IInv, ProcTypeOK, Kept, Statuses
<1>4. \A q \in Pids : Unreaped(q)' <=> Unreaped(q)
  BY <1>1, <1>2 DEF Unreaped, Statuses, IInv, ProcTypeOK
<1> QED
  BY <1>2, <1>3, <1>4, SameUnreaped DEF IInv, ProcTypeOK, Spared, Watching

LEMMA ReapStep ==
  ASSUME IInv, life = "up", pc \in Watching, Reap(child), pc' = "unlist", UNCHANGED child
  PROVE  IInv' /\ (Spared => Spared')
<1>1. /\ child \in Pids /\ Unreaped(child) /\ reaped = NoPid /\ child # NoPid
      /\ proc' = [proc EXCEPT ![child] = "none"]
      /\ reaped' = child
      /\ UNCHANGED <<children, childCap, unrecorded, life, victim, misfired>>
  BY DEF IInv, ListIsTrue, Watching, Reap
<1>2. ProcTypeOK'
  BY <1>1 DEF IInv, ProcTypeOK, Kept
<1>3. \A p \in Pids : Unreaped(p)' <=> Unreaped(p) /\ p # child
  BY <1>1 DEF Unreaped, Statuses, IInv, ProcTypeOK
<1>4. \A p : Listed(p)' <=> Listed(p)
  BY <1>1 DEF Listed
<1>5. ListIsTrue'
  <2>1. \A p \in Pids : Listed(p)' <=> (Unreaped(p)' \/ p = reaped') /\ p \notin unrecorded'
    BY <1>1, <1>3, <1>4 DEF IInv, ListIsTrue
  <2>2. \A p \in unrecorded' : p \in Pids /\ (Unreaped(p)' \/ p = reaped')
    BY <1>1, <1>3 DEF IInv, ListIsTrue, ProcTypeOK
  <2> QED
    BY <1>1, <1>3, <2>1, <2>2 DEF IInv, ListIsTrue, Watching
<1> QED
  BY <1>1, <1>2, <1>5 DEF IInv, ExitIsTrue, Spared

LEMMA UnlistStep ==
  ASSUME IInv, life = "up", pc = "unlist", Unlist, pc' = AfterWait, UNCHANGED child
  PROVE  IInv' /\ (Spared => Spared')
<1>1. /\ reaped \in Pids /\ ~Unreaped(reaped) /\ reaped # NoPid
      /\ children' = RemoveFirst(children, reaped)
      /\ unrecorded' = unrecorded \ {reaped}
      /\ reaped' = NoPid
      /\ UNCHANGED <<childCap, proc, life, victim, misfired>>
  BY DEF IInv, ListIsTrue, ProcTypeOK, Unlist
<1>2. /\ children' \in Seq(Pids)
      /\ Len(children') <= Len(children)
      /\ \A i, j \in 1..Len(children') : children'[i] = children'[j] => i = j
      /\ \A x : (\E i \in 1..Len(children') : children'[i] = x)
                  <=> (\E i \in 1..Len(children) : children[i] = x) /\ x # reaped
  <2>1. children \in Seq(Pids) /\ \A i, j \in 1..Len(children) : children[i] = children[j] => i = j
    BY DEF IInv, ProcTypeOK, ListIsTrue
  <2>2. LET r == RemoveFirst(children, reaped)
        IN /\ r \in Seq(Pids)
           /\ Len(r) <= Len(children)
           /\ \A i, j \in 1..Len(r) : r[i] = r[j] => i = j
           /\ \A x : (\E i \in 1..Len(r) : r[i] = x)
                       <=> (\E i \in 1..Len(children) : children[i] = x) /\ x # reaped
    BY <2>1, RemoveFirstOnce, Zenon
  <2> QED
    BY <1>1, <2>2, Zenon
<1>3. \A p : Listed(p)' <=> Listed(p) /\ p # reaped
  BY <1>2 DEF Listed
<1>4. pc' # "unlist" /\ pc' \notin Watching
  BY DEF AfterWait, Watching
<1>5. \A p : Unreaped(p)' <=> Unreaped(p)
  BY <1>1 DEF Unreaped
<1>6. ProcTypeOK'
  BY <1>1, <1>2 DEF IInv, ProcTypeOK
<1>7. ListIsTrue'
  <2>1. \A p \in Pids : Listed(p)' <=> (Unreaped(p)' \/ p = reaped') /\ p \notin unrecorded'
    BY <1>1, <1>3, <1>5 DEF IInv, ListIsTrue
  <2>2. \A p \in unrecorded' : Unreaped(p)'
    BY <1>1, <1>5 DEF IInv, ListIsTrue
  <2>3. Len(children') <= childCap'
    BY <1>1, <1>2 DEF IInv, ListIsTrue, ProcTypeOK
  <2> QED
    BY <1>1, <1>2, <1>4, <2>1, <2>2, <2>3 DEF ListIsTrue
<1> QED
  BY <1>1, <1>6, <1>7 DEF IInv, ExitIsTrue, Spared

-----------------------------------------------------------------------------
\* Where safe_exit begins, in the middle of a reap or not.
LEMMA ExitCallStep ==
  ASSUME IInv, ExitCall, UNCHANGED child
  PROVE  IInv' /\ (Spared /\ reaped = NoPid => Spared')
<1>1. /\ life = "up" /\ life' = "exiting" /\ victim' = 1
      /\ UNCHANGED <<children, childCap, unrecorded, proc, reaped, misfired>>
  BY DEF ExitCall
<1>2. \A p : (Unreaped(p)' <=> Unreaped(p)) /\ (Listed(p)' <=> Listed(p))
  BY <1>1 DEF Unreaped, Listed
<1>3. ProcTypeOK'
  BY <1>1 DEF IInv, ProcTypeOK
<1>4. ListIsTrue'
  BY <1>1, <1>2 DEF IInv, ListIsTrue
<1>5. ExitIsTrue'
  BY <1>1, <1>2 DEF IInv, ListIsTrue, ExitIsTrue, Listed
<1>6. ASSUME Spared, reaped = NoPid PROVE Spared'
  <2>1. \A i \in 1..Len(children) : children[i] \in Pids /\ Listed(children[i])
    BY DEF IInv, ProcTypeOK, Listed
  <2>2. \A i \in 1..Len(children) : Unreaped(children[i])
    BY <1>1, <1>6, <2>1 DEF IInv, ListIsTrue
  <2> QED
    BY <1>1, <1>2, <1>6, <2>2 DEF Spared
<1> QED
  BY <1>3, <1>4, <1>5, <1>6 DEF IInv

LEMMA ExitKillsStep ==
  ASSUME IInv, ExitKills, UNCHANGED <<pc, child>>
  PROVE  IInv' /\ (Spared => Spared')
<1> DEFINE p == children[victim]
<1>1. /\ life = "exiting" /\ victim <= Len(children) /\ victim' = victim + 1 /\ victim \in Nat
      /\ proc' = IF proc[p] = "none" THEN proc ELSE [proc EXCEPT ![p] = "none"]
      /\ misfired' = (misfired \/ ~Unreaped(p))
      /\ UNCHANGED <<children, childCap, unrecorded, reaped, life>>
      /\ Len(children) \in Nat
  BY DEF ExitKills, IInv, ProcTypeOK
<1> HIDE DEF p
<1>2. proc' \in [Pids -> Kept]
  BY <1>1 DEF IInv, ProcTypeOK, Kept
<1>3. ProcTypeOK'
  BY <1>1, <1>2 DEF IInv, ProcTypeOK
<1>4. \A q \in Pids : Unreaped(q)' <=> Unreaped(q) /\ q # p
  BY <1>1 DEF Unreaped, Statuses, IInv, ProcTypeOK
<1>5. ListIsTrue'
  BY <1>1, <1>4 DEF IInv, ListIsTrue, ProcTypeOK
<1>6. ExitIsTrue'
  <2>1. ASSUME NEW q \in Pids, Unreaped(q)'
        PROVE  q \in unrecorded' \/ \E i \in victim'..Len(children') : children'[i] = q
    <3>1. Unreaped(q) /\ q # p
      BY <1>4, <2>1
    <3>2. q \in unrecorded \/ \E i \in victim..Len(children) : children[i] = q
      BY <1>1, <3>1 DEF IInv, ExitIsTrue
    <3>3. ASSUME NEW i \in victim..Len(children), children[i] = q
          PROVE  i \in victim'..Len(children') /\ children'[i] = q
      <4>1. i # victim
        BY <3>1, <3>3 DEF p
      <4> QED
        BY <1>1, <3>3, <4>1
    <3> QED
      BY <1>1, <3>2, <3>3
  <2> QED
    BY <1>1, <2>1 DEF ExitIsTrue
<1>7. ASSUME Spared PROVE Spared'
  <2>1. victim > 0 /\ \A i \in victim..Len(children) : Unreaped(children[i])
    BY <1>1, <1>7 DEF Spared
  <2>2. Unreaped(p) /\ ~misfired'
    <3>1. victim \in victim..Len(children)
      BY <1>1
    <3>2. Unreaped(p)
      BY <2>1, <3>1 DEF p
    <3> QED
      BY <1>1, <1>7, <3>2, Zenon DEF Spared
  <2>3. ASSUME NEW i \in (victim + 1)..Len(children)
        PROVE  Unreaped(children[i])'
    <3>1. i \in 1..Len(children) /\ victim \in 1..Len(children) /\ i # victim
      BY <1>1, <2>1
    <3>2. children[i] \in Pids /\ children[i] # p
      BY <3>1 DEF p, IInv, ListIsTrue, ProcTypeOK
    <3>3. Unreaped(children[i])
      BY <1>1, <2>1
    <3>4. children'[i] = children[i]
      BY <1>1
    <3> QED
      BY <1>4, <3>2, <3>3, <3>4 DEF Unreaped
  <2> QED
    BY <1>1, <2>1, <2>2, <2>3 DEF Spared
<1> QED
  BY <1>3, <1>5, <1>6, <1>7 DEF IInv

LEMMA ExitEndsStep ==
  ASSUME IInv, ExitEnds, UNCHANGED <<pc, child>>
  PROVE  IInv' /\ (Spared => Spared')
<1>1. /\ life = "exiting" /\ victim > Len(children) /\ life' = "gone" /\ children' = <<>>
      /\ UNCHANGED <<childCap, unrecorded, proc, reaped, victim, misfired>>
      /\ Len(children') = 0
  BY DEF ExitEnds
<1>2. \A p : Unreaped(p)' <=> Unreaped(p)
  BY <1>1 DEF Unreaped
<1>3. ProcTypeOK'
  BY <1>1 DEF IInv, ProcTypeOK
<1>4. ListIsTrue'
  BY <1>1, <1>2 DEF IInv, ListIsTrue, ProcTypeOK
<1>5. victim..Len(children) = {}
  BY <1>1 DEF IInv, ProcTypeOK
<1>6. ExitIsTrue'
  BY <1>1, <1>2, <1>5 DEF IInv, ExitIsTrue
<1> QED
  BY <1>1, <1>3, <1>4, <1>6 DEF IInv, Spared

-----------------------------------------------------------------------------
\* What the runner does, and all that concerns the list in it.
LEMMA RunnerStep ==
  ASSUME IInv, Runner
  PROVE  IInv' /\ (Spared => Spared')
<1> USE DEF At
<1>0. child \in Pids \cup {NoPid}
  BY DEF IInv, ProcTypeOK
<1>1. CASE BeginTest
  BY <1>1, <1>0, QuietStep DEF BeginTest, Watching
<1>2. CASE OpenPipe
  BY <1>2, <1>0, QuietStep DEF OpenPipe, Watching
<1>3. CASE ForkTest
  <2>1. CASE pc' = "report" /\ UNCHANGED <<procVars, child>>
    BY <1>3, <2>1, <1>0, QuietStep DEF ForkTest, Watching
  <2>2. ASSUME NEW p \in Pids, Fork(p), child' = p, pc' = "close write"
        PROVE  IInv' /\ (Spared => Spared')
    BY <1>3, <2>2, ForkStep DEF ForkTest
  <2> QED
    BY <1>3, <2>1, <2>2 DEF ForkTest
<1>4. CASE CloseWrite
  BY <1>4, <1>0, QuietStep DEF CloseWrite, Watching
<1>5. CASE Wait
  <2>1. CASE Reap(child) /\ pc' = "unlist"
    BY <1>5, <2>1, ReapStep DEF Wait, Watching
  <2>2. CASE UNCHANGED procVars /\ pc' = "kill"
    BY <1>5, <2>2, <1>0, QuietStep DEF Wait, Watching
  <2> QED
    BY <1>5, <2>1, <2>2 DEF Wait
<1>6. CASE KillTest
  BY <1>6, KillStep DEF KillTest
<1>7. CASE ReapKilled
  BY <1>7, ReapStep DEF ReapKilled, Watching
<1>8. CASE UnlistTest
  BY <1>8, UnlistStep DEF UnlistTest
<1>9. CASE Judge
  BY <1>9, <1>0, QuietStep DEF Judge, Watching
<1>10. CASE ReadResult
  BY <1>10, <1>0, QuietStep DEF ReadResult, Watching
<1>11. CASE CloseRead
  BY <1>11, <1>0, QuietStep DEF CloseRead, Watching
<1>12. CASE Report
  BY <1>12, <1>0, QuietStep DEF Report, Watching
<1>13. CASE EndSuite
  BY <1>13, <1>0, QuietStep DEF EndSuite, Watching
<1>14. CASE EndModule
  <2>1. reaped = NoPid
    BY <1>14 DEF EndModule, IInv, ListIsTrue
  <2> QED
    BY <1>14, <2>1, ExitCallStep DEF EndModule
<1> QED
  BY <1>1, <1>2, <1>3, <1>4, <1>5, <1>6, <1>7, <1>8, <1>9, <1>10, <1>11, <1>12, <1>13, <1>14 DEF Runner

\* A test process leaves the list alone until it ends.
LEMMA TestStep ==
  ASSUME IInv, TestProcess
  PROVE  IInv' /\ (Spared => Spared')
<1>0. child \in Pids \cup {NoPid}
  BY DEF IInv, ProcTypeOK
<1>1. ASSUME ThreadStep
      PROVE  IInv' /\ (Spared => Spared')
  BY <1>0, <1>1, QuietStep DEF ThreadStep
<1>2. ASSUME testing, NEW how \in Statuses, NEW end, TestExits(how, end)
      PROVE  IInv' /\ (Spared => Spared')
  BY <1>0, <1>2, ChildEndsStep DEF TestExits, testing
<1>3. CASE Setup
  <2>1. CASE \E e \in {"mutex error", "pipe error"} : TestExits(e, e)
    BY <1>2, <1>3, <2>1 DEF Setup, AtTest, Statuses
  <2> QED
    BY <1>1, <1>3, <2>1 DEF Setup
<1>4. ASSUME NEW t \in Threads, NEW k \in Kinds, FailAssert(t, k)
      PROVE  IInv' /\ (Spared => Spared')
  BY <1>1, <1>4 DEF FailAssert, Says
<1>5. ASSUME NEW m, ReturnFromTest(m)
      PROVE  IInv' /\ (Spared => Spared')
  BY <1>1, <1>5 DEF ReturnFromTest, Says
<1>6. CASE HelperReturns
  BY <1>1, <1>6 DEF HelperReturns
<1>7. CASE ExitOrCrash
  BY <1>2, <1>7 DEF ExitOrCrash, AtTest, Statuses
<1>8. ASSUME NEW t \in Threads, Lock(t)
      PROVE  IInv' /\ (Spared => Spared')
  <2>1. CASE TestExits("mutex error", "mutex error")
    BY <1>2, <1>8, <2>1 DEF Lock, AtTest, Statuses
  <2> QED
    BY <1>1, <1>8, <2>1 DEF Lock
<1>9. ASSUME NEW t \in Threads, Write(t)
      PROVE  IInv' /\ (Spared => Spared')
  BY <1>1, <1>9 DEF Write
<1>10. ASSUME NEW t \in Threads, CleanupAndExit(t)
       PROVE  IInv' /\ (Spared => Spared')
  BY <1>2, <1>10 DEF CleanupAndExit, AtTest, Statuses
<1>11. CASE TestInterrupted
  BY <1>2, <1>11 DEF TestInterrupted, Statuses
<1> QED
  BY <1>3, <1>4, <1>5, <1>6, <1>7, <1>8, <1>9, <1>10, <1>11 DEF TestProcess

\* The rest of the world; only an Interrupt in the middle of a reap is not safe.
LEMMA ElsewhereStep ==
  ASSUME IInv, Elsewhere
  PROVE  IInv' /\ (Spared /\ ~InterruptReap => Spared')
<1>0. UNCHANGED <<pc, child>>
  BY DEF Elsewhere
<1>1. CASE Interrupt
  BY <1>0, <1>1, ExitCallStep DEF Interrupt
<1>2. CASE ExitKills
  BY <1>0, <1>2, ExitKillsStep
<1>3. CASE ExitEnds
  BY <1>0, <1>3, ExitEndsStep
<1>4. ASSUME NEW p \in Pids, Stranger(p)
      PROVE  IInv' /\ (Spared => Spared')
  BY <1>0, <1>4, StrangerStep
<1>5. ASSUME NEW p \in Pids, ChildEnds(p, "exit0")
      PROVE  IInv' /\ (Spared => Spared')
  BY <1>0, <1>5, ChildEndsStep DEF Statuses
<1> QED
  BY <1>1, <1>2, <1>3, <1>4, <1>5 DEF Elsewhere

LEMMA NextStep ==
  ASSUME IInv, [Next]_vars
  PROVE  IInv' /\ (Spared /\ ~InterruptReap => Spared')
<1>0. child \in Pids \cup {NoPid}
  BY DEF IInv, ProcTypeOK
<1>1. CASE ForkOther
  <2>1. PICK p \in Pids : Fork(p)
    BY <1>1 DEF ForkOther
  <2> QED
    BY <1>0, <1>1, <2>1, ForkStep DEF ForkOther, At, Watching
<1>2. CASE UNCHANGED vars
  BY <1>0, <1>2, QuietStep DEF vars
<1> QED
  BY <1>1, <1>2, RunnerStep, TestStep, ElsewhereStep DEF Next

-----------------------------------------------------------------------------
\* For any module of tests and any number of process ids, the list names every
\* child that has not been reaped, once, fits its buffer, and leaves nothing
\* behind when the root process is gone: safe_fork, safe_waitpid, safe_exit.
\* The one exception are the children that could not be added to the list.
THEOREM ChildrenAreAccounted == Spec => []ChildrenAccounted
<1>1. Init => IInv
  BY InitIInv
<1>2. IInv /\ [Next]_vars => IInv'
  BY NextStep
<1> QED
  BY <1>1, <1>2, IInvAccounts, PTL DEF Spec

\* "This should never error if core is used correctly..." (sys.c:370) is true as
\* long as no SIGINT arrives between the waitpid of safe_waitpid and its lock of
\* the list: the kills and waits of the core meet children of its own only.
THEOREM OnlyTheReapMisfires == InterruptReap = FALSE => (Spec => []KillsOwnChildren)
<1> SUFFICES ASSUME InterruptReap = FALSE PROVE Spec => []KillsOwnChildren
  OBVIOUS
<1>1. Init => IInv /\ Spared
  BY InitIInv
<1>2. IInv /\ Spared /\ [Next]_vars => (IInv /\ Spared)'
  BY NextStep
<1>3. Spared => KillsOwnChildren
  BY DEF Spared, KillsOwnChildren
<1> QED
  BY <1>1, <1>2, <1>3, PTL DEF Spec

-----------------------------------------------------------------------------
(***************************************************************************)
(* What the runner says of a test.                                         *)
(***************************************************************************)
Calm == {"next", "pipe", "fork", "close write", "wait", "judge", "read"}

\* The ends of the pipe and the errors, by where the runner is.
PipesAreTrue ==
  /\ pc \in Calm \cup {"kill", "reap", "unlist", "close read", "report", "done"}
  /\ pc \in Calm => errors = {} /\ result = "void"
  /\ pc \in {"wait", "judge", "read", "close read"} => ~wfd
  /\ pc \in {"kill", "reap", "unlist"} =>
       \/ "pipe" \in errors /\ result = "void"
       \/ errors = {} /\ ~wfd /\ (result = "timeout" \/ (result = "void" /\ pc = "unlist"))
  /\ PipesClosed

\* The counters of the suite and the module.
CountsAreTrue ==
  /\ suite \in Nat \ {0} /\ test \in Nat \ {0} /\ successes \in Nat /\ successes <= test - 1
  /\ successful \in BOOLEAN /\ allGood \in BOOLEAN
  /\ allGood <=> successful /\ successes = test - 1
  /\ pc \notin {"next", "done"} => suite <= Len(SuiteSizes) /\ test <= SuiteSizes[suite]
  /\ suite <= Len(SuiteSizes) => test <= SuiteSizes[suite] + 1
  /\ suite > Len(SuiteSizes) => test = 1
  /\ pc = "done" => suite > Len(SuiteSizes)

Messages == Kinds \cup {"success", "leak"}
Length(m) == 1 + IF m \in Kinds THEN Words[m] ELSE 0

Speaking == {"write", "close"}

\* A test process that runs.  At most one of its threads writes: it has the
\* mutex, or has returned from the test after the other one.
TestIsTrue ==
  /\ tpc \in [Threads -> Speaking \cup {"off", "setup", "test", "lock"}]
  /\ msg \in [Threads -> Messages \cup {"void"}]
  /\ left \in [Threads -> Nat]
  /\ pipe \in Seq(Messages \cup {"word"})
  /\ tpc["main"] = "setup" => tpc["helper"] = "off"
  /\ tpc["helper"] # "setup"
  /\ tpc["helper"] \in Speaking => mutex = "helper" /\ tpc["main"] \notin Speaking
  /\ tpc["main"] \in Speaking => mutex = "main" \/ tpc["helper"] = "off"
  /\ (\A t \in Threads : tpc[t] \notin Speaking) => pipe = <<>> /\ fate = "none"
  /\ \A t \in Threads : tpc[t] \in Speaking \cup {"lock"} => msg[t] \in Messages
  /\ \A t \in Threads : tpc[t] = "lock" => left[t] = Length(msg[t])
  /\ \A t \in Threads : tpc[t] \in Speaking =>
       /\ Len(pipe) + left[t] = Length(msg[t])
       /\ pipe # <<>> => pipe[1] = msg[t]
       /\ tpc[t] = "write" => left[t] # 0 /\ fate = "none"
       /\ tpc[t] = "close" => left[t] = 0 /\ fate = msg[t]

\* What is in the pipe once the test process has ended by itself: the whole of what
\* it had to say, or not all of it.
Spoken ==
  /\ pipe \in Seq(Messages \cup {"word"})
  /\ \/ fate \in Messages /\ Len(pipe) = Length(fate) /\ pipe[1] = fate
     \/ fate = "interrupted" /\ (pipe = <<>> \/ (pipe[1] \in Messages /\ Len(pipe) < Length(pipe[1])))

Fits(status) ==
  /\ status = "signal" => fate = "crashed"
  /\ status = "exit1" => fate = "exited"
  /\ status = "exit0" => Spoken

Right == errors = {} /\ result # "timeout" => result = Expected

\* The answer on its way from the test process to the report.
AnswerIsTrue ==
  /\ pc \in {"next", "pipe", "fork"} =>
       /\ child = NoPid /\ mutex = "nobody" /\ fate = "none" /\ (pc = "fork" => pipe = <<>>)
       /\ tpc = [t \in Threads |-> "off"] /\ msg = [t \in Threads |-> "void"] /\ left = [t \in Threads |-> 0]
  /\ pc \in Watching /\ testing => TestIsTrue
  /\ pc \in {"close write", "wait"} => child \in Pids /\ Fits(proc[child])
  /\ pc \in {"unlist", "judge", "read", "close read", "report", "done"} => ~testing
  /\ pc \in {"unlist", "judge"} /\ errors = {} /\ result = "void" => Fits(stat)
  /\ pc = "read" => Spoken /\ ~shouldFail
  /\ pc \in {"close read", "report"} => Right

RInv == IInv /\ PipesAreTrue /\ CountsAreTrue /\ AnswerIsTrue

LEMMA InitRInv == Init => PipesAreTrue /\ CountsAreTrue /\ AnswerIsTrue
<1> SUFFICES ASSUME Init PROVE PipesAreTrue /\ CountsAreTrue /\ AnswerIsTrue
  OBVIOUS
<1>1. /\ pc = "next" /\ suite = 1 /\ test = 1 /\ child = NoPid /\ wfd = FALSE /\ rfd = FALSE /\ pipe = <<>>
      /\ result = "void" /\ errors = {} /\ successes = 0 /\ successful = TRUE /\ mutex = "nobody"
      /\ fate = "none" /\ allGood = TRUE
      /\ tpc = [t \in Threads |-> "off"] /\ msg = [t \in Threads |-> "void"] /\ left = [t \in Threads |-> 0]
  BY DEF Init
<1>2. PipesAreTrue
  BY <1>1 DEF PipesAreTrue, Calm, PipesClosed
<1>3. Len(SuiteSizes) \in Nat /\ \A i \in 1..Len(SuiteSizes) : SuiteSizes[i] \in Nat
  BY ChunitAssumption
<1>4. CountsAreTrue
  BY <1>1, <1>3 DEF CountsAreTrue
<1>5. AnswerIsTrue
  BY <1>1 DEF AnswerIsTrue, Watching
<1> QED
  BY <1>2, <1>4, <1>5

LEMMA PipesStep ==
  ASSUME PipesAreTrue, Runner
  PROVE  PipesAreTrue'
<1> USE DEF At, PipesAreTrue, PipesClosed, Calm
<1>1. CASE BeginTest
  BY <1>1 DEF BeginTest
<1>2. CASE OpenPipe
  BY <1>2 DEF OpenPipe, Error
<1>3. CASE ForkTest
  BY <1>3 DEF ForkTest, Error
<1>4. CASE CloseWrite
  BY <1>4 DEF CloseWrite, Error
<1>5. CASE Wait
  BY <1>5 DEF Wait
<1>6. CASE KillTest
  BY <1>6 DEF KillTest
<1>7. CASE ReapKilled
  BY <1>7 DEF ReapKilled
<1>8. CASE UnlistTest
  BY <1>8 DEF UnlistTest, AfterWait
<1>9. CASE Judge
  BY <1>9 DEF Judge, Error
<1>10. CASE ReadResult
  BY <1>10 DEF ReadResult, Error
<1>11. CASE CloseRead
  BY <1>11 DEF CloseRead, Error
<1>12. CASE Report
  BY <1>12 DEF Report
<1>13. CASE EndSuite
  BY <1>13 DEF EndSuite
<1>14. CASE EndModule
  BY <1>14 DEF EndModule
<1> QED
  BY <1>1, <1>2, <1>3, <1>4, <1>5, <1>6, <1>7, <1>8, <1>9, <1>10, <1>11, <1>12, <1>13, <1>14 DEF Runner

LEMMA CountsStep ==
  ASSUME CountsAreTrue, Runner
  PROVE  CountsAreTrue'
<1>0. Len(SuiteSizes) \in Nat /\ \A i \in 1..Len(SuiteSizes) : SuiteSizes[i] \in Nat
  BY ChunitAssumption
<1> USE DEF At, CountsAreTrue
<1>1. CASE /\ pc \notin {"next", "done", "report"} /\ pc' \notin {"next", "done"}
           /\ UNCHANGED <<suite, test, successes, successful, allGood>>
  BY <1>1
<1>2. CASE BeginTest
  BY <1>0, <1>2 DEF BeginTest
<1>3. CASE OpenPipe \/ ForkTest \/ CloseWrite \/ Wait \/ KillTest \/ ReapKilled
  BY <1>1, <1>3 DEF OpenPipe, ForkTest, CloseWrite, Wait, KillTest, ReapKilled, runVars
<1>4. CASE UnlistTest \/ Judge \/ ReadResult \/ CloseRead
  BY <1>1, <1>4 DEF UnlistTest, AfterWait, Judge, ReadResult, CloseRead, runVars
<1>5. CASE Report
  <2>1. /\ pc = "report" /\ pc' = "next" /\ test' = test + 1 /\ UNCHANGED <<suite, successful>>
        /\ successes' = (IF Good THEN successes + 1 ELSE successes)
        /\ allGood' = (allGood /\ Good)
    BY <1>5 DEF Report
  <2>2. suite <= Len(SuiteSizes) /\ test <= SuiteSizes[suite] /\ SuiteSizes[suite] \in Nat
    BY <1>0, <2>1
  <2>3. CASE Good
    BY <2>1, <2>2, <2>3
  <2>4. CASE ~Good
    <3>1. allGood' = FALSE /\ successes' = successes
      BY <2>1, <2>4
    <3>2. /\ suite \in Nat \ {0} /\ test \in Nat \ {0} /\ successes \in Nat /\ successes <= test - 1
          /\ successful \in BOOLEAN
      OBVIOUS
    <3>3. successes' # test' - 1 /\ successes' <= test' - 1 /\ test' \in Nat \ {0}
      BY <2>1, <3>1, <3>2
    <3>4. suite' <= Len(SuiteSizes) /\ test' <= SuiteSizes[suite'] + 1
      BY <2>1, <2>2, <3>2
    <3> QED
      BY <1>0, <2>1, <3>1, <3>2, <3>3, <3>4
  <2> QED
    BY <2>3, <2>4
<1>6. CASE EndSuite
  <2>1. /\ pc = "next" /\ pc' = "next" /\ suite <= Len(SuiteSizes) /\ test > SuiteSizes[suite]
        /\ successful' = (successful /\ successes = SuiteSizes[suite])
        /\ successes' = 0 /\ suite' = suite + 1 /\ test' = 1 /\ allGood' = allGood
    BY <1>6 DEF EndSuite
  <2>2. SuiteSizes[suite] \in Nat /\ test - 1 = SuiteSizes[suite]
    BY <1>0, <2>1
  <2>3. suite' <= Len(SuiteSizes) => SuiteSizes[suite'] \in Nat
    BY <1>0, <2>1
  <2> QED
    BY <1>0, <2>1, <2>2, <2>3
<1>7. CASE EndModule
  BY <1>7 DEF EndModule, runVars
<1> QED
  BY <1>2, <1>3, <1>4, <1>5, <1>6, <1>7 DEF Runner

-----------------------------------------------------------------------------
\* While the test process runs, the runner watches it.
LEMMA TestingIsWatched ==
  ASSUME IInv, PipesAreTrue, AnswerIsTrue, testing
  PROVE  pc \in Watching /\ child \in Pids /\ TestIsTrue
<1>1. child \in Pids
  BY DEF IInv, ProcTypeOK, testing
<1>2. pc \notin {"next", "pipe", "fork", "unlist", "judge", "read", "close read", "report", "done"}
  BY DEF AnswerIsTrue, testing
<1>3. pc \in Watching
  BY <1>2 DEF PipesAreTrue, Calm, Watching
<1> QED
  BY <1>1, <1>3 DEF AnswerIsTrue

LEMMA ThreadAnswers ==
  ASSUME IInv, PipesAreTrue, AnswerIsTrue, testing, ThreadStep, TestIsTrue'
  PROVE  AnswerIsTrue'
<1>1. pc \in Watching /\ child \in Pids /\ pc' = pc /\ child' = child /\ proc' = proc
  BY TestingIsWatched DEF ThreadStep, procVars
<1>2. proc'[child'] = "child"
  BY <1>1 DEF testing
<1>3. Fits(proc[child])'
  BY <1>2 DEF Fits
<1> QED
  BY <1>1, <1>3 DEF AnswerIsTrue, Watching

LEMMA ExitAnswers ==
  ASSUME IInv, PipesAreTrue, AnswerIsTrue, testing, NEW how \in Statuses, NEW end, TestExits(how, end), Fits(how)'
  PROVE  AnswerIsTrue'
<1>1. /\ pc \in Watching /\ child \in Pids /\ pc' = pc /\ child' = child
      /\ proc' = [proc EXCEPT ![child] = how]
  BY TestingIsWatched DEF TestExits, ChildEnds
<1>2. proc'[child'] = how
  BY <1>1 DEF IInv, ProcTypeOK
<1>3. ~testing'
  BY <1>2 DEF testing, Statuses
<1>4. Fits(proc[child])'
  BY <1>2 DEF Fits
<1> QED
  BY <1>1, <1>3, <1>4 DEF AnswerIsTrue, Watching

\* Whatever happens to other processes.
LEMMA OthersAnswer ==
  ASSUME IInv, AnswerIsTrue, UNCHANGED <<pc, shouldFail, child, pipe, stat, result, errors, testVars>>,
         child \in Pids => proc'[child] = proc[child] \/ proc'[child] \notin Statuses \cup {"child"}
  PROVE  AnswerIsTrue'
<1>1. child \in Pids \cup {NoPid}
  BY DEF IInv, ProcTypeOK
<1>2. testing' => testing
  BY <1>1 DEF testing
<1>3. ASSUME child \in Pids, Fits(proc[child])
      PROVE  Fits(proc[child])'
  <2>1. CASE proc'[child] = proc[child]
    BY <1>3, <2>1 DEF Fits, Spoken, testVars
  <2>2. CASE proc'[child] \notin Statuses
    BY <2>2 DEF Fits, Statuses
  <2> QED
    BY <1>3, <2>1, <2>2
<1>4. TestIsTrue => TestIsTrue'
  BY DEF TestIsTrue, testVars
<1>5. (Spoken => Spoken') /\ (Right => Right')
  BY DEF Spoken, Right, Expected, testVars
<1>6. Fits(stat) => Fits(stat)'
  BY DEF Fits, Spoken, testVars
<1> QED
  BY <1>2, <1>3, <1>4, <1>5, <1>6 DEF AnswerIsTrue, testVars

LEMMA ElsewhereAnswers ==
  ASSUME IInv, AnswerIsTrue, Elsewhere
  PROVE  AnswerIsTrue'
<1>1. UNCHANGED <<pc, shouldFail, child, pipe, stat, result, errors, testVars>>
  BY DEF Elsewhere, runVars
<1>2. proc \in [Pids -> Kept]
  BY DEF IInv, ProcTypeOK
<1>3. child \in Pids => proc'[child] = proc[child] \/ proc'[child] \notin Statuses \cup {"child"}
  <2>1. CASE Interrupt \/ ExitEnds
    BY <2>1 DEF Interrupt, ExitCall, ExitEnds
  <2>2. CASE ExitKills
    <3>1. PICK p : proc' = proc \/ proc' = [proc EXCEPT ![p] = "none"]
      BY <2>2 DEF ExitKills
    <3> QED
      BY <1>2, <3>1 DEF Statuses
  <2>3. ASSUME NEW p \in Pids, Stranger(p)
        PROVE  child \in Pids => proc'[child] = proc[child] \/ proc'[child] \notin Statuses \cup {"child"}
    BY <1>2, <2>3 DEF Stranger, Statuses
  <2>4. ASSUME NEW p \in Pids \ {child}, ChildEnds(p, "exit0")
        PROVE  child \in Pids => proc'[child] = proc[child] \/ proc'[child] \notin Statuses \cup {"child"}
    BY <1>2, <2>4 DEF ChildEnds
  <2> QED
    BY <2>1, <2>2, <2>3, <2>4 DEF Elsewhere
<1> QED
  BY <1>1, <1>3, OthersAnswer

LEMMA ForkOtherAnswers ==
  ASSUME IInv, AnswerIsTrue, ForkOther
  PROVE  AnswerIsTrue'
<1>1. UNCHANGED <<pc, shouldFail, child, pipe, stat, result, errors, testVars>> /\ pc = "next"
  BY DEF ForkOther, At
<1>2. child \notin Pids
  BY <1>1, ChildProcsAssumption DEF AnswerIsTrue
<1> QED
  BY <1>1, <1>2, OthersAnswer

-----------------------------------------------------------------------------
\* The threads of a test.
LEMMA SetupAnswers ==
  ASSUME IInv, PipesAreTrue, AnswerIsTrue, Setup
  PROVE  AnswerIsTrue'
<1>1. testing /\ tpc["main"] = "setup"
  BY DEF Setup, AtTest
<1>2. TestIsTrue
  BY <1>1, TestingIsWatched
<1>3. tpc["helper"] = "off" /\ pipe = <<>> /\ fate = "none"
  <2>1. tpc["helper"] = "off"
    BY <1>1, <1>2 DEF TestIsTrue
  <2>2. \A t \in Threads : tpc[t] \notin Speaking
    BY <1>1, <2>1 DEF Threads, Speaking
  <2> QED
    BY <1>2, <2>1, <2>2 DEF TestIsTrue
<1>4. ASSUME NEW h \in {"test", "off"}, tpc' = [main |-> "test", helper |-> h], ThreadStep,
             UNCHANGED <<pipe, stat, msg, left, mutex, fate>>
      PROVE  AnswerIsTrue'
  <2>1. tpc'["main"] = "test" /\ tpc'["helper"] = h
    BY <1>4
  <2>2. tpc' \in [Threads -> Speaking \cup {"off", "setup", "test", "lock"}]
    BY <1>4 DEF Threads
  <2>3. TestIsTrue'
    BY <1>2, <1>3, <1>4, <2>1, <2>2 DEF TestIsTrue, Threads, Speaking
  <2> QED
    BY <1>1, <1>4, <2>3, ThreadAnswers
<1>5. ASSUME NEW e \in {"mutex error", "pipe error"}, TestExits(e, e)
      PROVE  AnswerIsTrue'
  <2>1. Fits(e)'
    BY DEF Fits
  <2> QED
    BY <1>1, <1>5, <2>1, ExitAnswers DEF Statuses
<1> QED
  BY <1>4, <1>5 DEF Setup

LEMMA SaysAnswers ==
  ASSUME IInv, PipesAreTrue, AnswerIsTrue, NEW t \in Threads, NEW m \in Messages, NEW label \in {"lock", "write"},
         AtTest(t, "test"), Says(t, m, label),
         label = "write" => t = "main" /\ tpc["helper"] = "off"
  PROVE  AnswerIsTrue'
<1>1. testing /\ tpc[t] = "test"
  BY DEF AtTest
<1>2. TestIsTrue
  BY <1>1, TestingIsWatched
<1>3. Length(m) \in Nat \ {0}
  BY ChunitAssumption DEF Length
<1>4. /\ \A u \in Threads : /\ tpc'[u] = IF u = t THEN label ELSE tpc[u]
                            /\ msg'[u] = IF u = t THEN m ELSE msg[u]
                            /\ left'[u] = IF u = t THEN Length(m) ELSE left[u]
      /\ tpc' \in [Threads -> Speaking \cup {"off", "setup", "test", "lock"}]
      /\ msg' \in [Threads -> Messages \cup {"void"}]
      /\ left' \in [Threads -> Nat]
      /\ ThreadStep /\ UNCHANGED <<pipe, mutex, fate>>
  BY <1>2, <1>3 DEF TestIsTrue, Says, Goes, Length, Speaking
<1>5. ASSUME label = "lock" PROVE TestIsTrue'
  BY <1>1, <1>2, <1>4, <1>5 DEF TestIsTrue, Threads, Speaking
<1>6. ASSUME label = "write" PROVE TestIsTrue'
  <2>1. t = "main" /\ tpc["helper"] = "off" /\ tpc["main"] = "test"
    BY <1>1, <1>6
  <2>2. \A u \in Threads : tpc[u] \notin Speaking
    BY <2>1 DEF Threads, Speaking
  <2>3. pipe = <<>> /\ fate = "none"
    BY <1>2, <2>2 DEF TestIsTrue
  <2>4. /\ tpc'["main"] = "write" /\ tpc'["helper"] = "off"
        /\ msg'["main"] = m /\ left'["main"] = Length(m)
        /\ pipe' = <<>> /\ fate' = "none" /\ pipe' \in Seq(Messages \cup {"word"}) /\ Len(pipe') = 0
    BY <1>4, <1>6, <2>1, <2>3 DEF Threads
  <2> QED
    BY <1>3, <1>4, <2>4 DEF TestIsTrue, Threads, Speaking
<1>7. TestIsTrue'
  BY <1>5, <1>6
<1> QED
  BY <1>1, <1>4, <1>7, ThreadAnswers

LEMMA HelperReturnsAnswers ==
  ASSUME IInv, PipesAreTrue, AnswerIsTrue, HelperReturns
  PROVE  AnswerIsTrue'
<1>1. testing /\ tpc["helper"] = "test" /\ ThreadStep /\ UNCHANGED <<pipe, msg, left, mutex, fate>>
      /\ tpc' = [tpc EXCEPT !["helper"] = "off"]
  BY DEF HelperReturns, AtTest, Goes
<1>2. TestIsTrue
  BY <1>1, TestingIsWatched
<1>3. /\ tpc'["helper"] = "off" /\ tpc'["main"] = tpc["main"]
      /\ tpc' \in [Threads -> Speaking \cup {"off", "setup", "test", "lock"}]
  BY <1>1, <1>2 DEF TestIsTrue, Threads
<1>4. TestIsTrue'
  BY <1>1, <1>2, <1>3 DEF TestIsTrue, Threads, Speaking
<1> QED
  BY <1>1, <1>4, ThreadAnswers

LEMMA LockAnswers ==
  ASSUME IInv, PipesAreTrue, AnswerIsTrue, NEW t \in Threads, Lock(t)
  PROVE  AnswerIsTrue'
<1>1. testing /\ tpc[t] = "lock"
  BY DEF Lock, AtTest
<1>2. TestIsTrue
  BY <1>1, TestingIsWatched
<1>3. CASE mutex = "nobody" /\ Goes(t, "write") /\ mutex' = t /\ ThreadStep /\ UNCHANGED <<pipe, stat, msg, left, fate>>
  <2>1. \A u \in Threads : tpc[u] \notin Speaking
    BY <1>1, <1>2, <1>3 DEF TestIsTrue, Threads, Speaking
  <2>2. pipe = <<>> /\ fate = "none" /\ msg[t] \in Messages /\ left[t] = Length(msg[t])
    BY <1>1, <1>2, <2>1 DEF TestIsTrue
  <2>3. /\ \A u \in Threads : tpc'[u] = IF u = t THEN "write" ELSE tpc[u]
        /\ tpc' \in [Threads -> Speaking \cup {"off", "setup", "test", "lock"}]
    BY <1>2, <1>3 DEF TestIsTrue, Goes, Speaking
  <2>4. Length(msg[t]) \in Nat \ {0} /\ Len(pipe) = 0
    BY <2>2, ChunitAssumption DEF Length
  <2>5. TestIsTrue'
    BY <1>1, <1>2, <1>3, <2>1, <2>2, <2>3, <2>4 DEF TestIsTrue, Threads, Speaking
  <2> QED
    BY <1>1, <1>3, <2>5, ThreadAnswers
<1>4. CASE TestExits("mutex error", "mutex error")
  <2>1. Fits("mutex error")'
    BY DEF Fits
  <2> QED
    BY <1>1, <1>4, <2>1, ExitAnswers DEF Statuses
<1> QED
  BY <1>3, <1>4 DEF Lock

LEMMA WriteAnswers ==
  ASSUME IInv, PipesAreTrue, AnswerIsTrue, NEW t \in Threads, Write(t)
  PROVE  AnswerIsTrue'
<1>1. /\ testing /\ tpc[t] = "write"
      /\ pipe' = Append(pipe, IF left[t] = Length(msg[t]) THEN msg[t] ELSE "word")
      /\ left' = [left EXCEPT ![t] = @ - 1]
      /\ IF left[t] = 1 THEN tpc' = [tpc EXCEPT ![t] = "close"] /\ fate' = msg[t] ELSE UNCHANGED <<tpc, fate>>
      /\ ThreadStep /\ UNCHANGED <<msg, mutex>>
  BY DEF Write, AtTest, Goes, Whole, Length
<1>2. TestIsTrue
  BY <1>1, TestingIsWatched
<1>3. /\ msg[t] \in Messages /\ left[t] \in Nat \ {0} /\ fate = "none"
      /\ Len(pipe) + left[t] = Length(msg[t]) /\ (pipe # <<>> => pipe[1] = msg[t])
      /\ pipe \in Seq(Messages \cup {"word"}) /\ Len(pipe) \in Nat
  BY <1>1, <1>2 DEF TestIsTrue, Speaking
<1>4. \A u \in Threads : u # t => tpc[u] \notin Speaking
  BY <1>1, <1>2 DEF TestIsTrue, Threads, Speaking
<1>5. /\ pipe' \in Seq(Messages \cup {"word"}) /\ Len(pipe') = Len(pipe) + 1 /\ pipe' # <<>>
      /\ pipe'[1] = msg[t]
  <2> DEFINE w == IF left[t] = Length(msg[t]) THEN msg[t] ELSE "word"
  <2>1. w \in Messages \cup {"word"} /\ pipe' = Append(pipe, w)
    BY <1>1, <1>3
  <2>2. pipe = <<>> => w = msg[t]
    BY <1>3
  <2> HIDE DEF w
  <2>3. pipe' \in Seq(Messages \cup {"word"}) /\ Len(pipe') = Len(pipe) + 1
    BY <1>3, <2>1
  <2>4. pipe'[1] = IF pipe = <<>> THEN w ELSE pipe[1]
    BY <1>3, <2>1
  <2> QED
    BY <1>3, <2>2, <2>3, <2>4
<1>6. /\ \A u \in Threads : left'[u] = IF u = t THEN left[t] - 1 ELSE left[u]
      /\ left' \in [Threads -> Nat]
  BY <1>1, <1>2, <1>3 DEF TestIsTrue
<1>7. /\ \A u \in Threads : tpc'[u] = IF u = t /\ left[t] = 1 THEN "close" ELSE tpc[u]
      /\ tpc' \in [Threads -> Speaking \cup {"off", "setup", "test", "lock"}]
      /\ fate' = IF left[t] = 1 THEN msg[t] ELSE "none"
  <2>1. tpc \in [Threads -> Speaking \cup {"off", "setup", "test", "lock"}]
    BY <1>2 DEF TestIsTrue
  <2> QED
    BY <1>1, <1>3, <2>1 DEF Speaking
<1>8. /\ tpc'[t] \in Speaking
      /\ \A u \in Threads : u # t => tpc'[u] = tpc[u] /\ tpc'[u] \notin Speaking
  BY <1>1, <1>4, <1>7 DEF Speaking
<1>9. TestIsTrue'
  <2>1. \A u \in Threads : tpc'[u] \in Speaking =>
          /\ Len(pipe') + left'[u] = Length(msg'[u])
          /\ pipe' # <<>> => pipe'[1] = msg'[u]
          /\ tpc'[u] = "write" => left'[u] # 0 /\ fate' = "none"
          /\ tpc'[u] = "close" => left'[u] = 0 /\ fate' = msg'[u]
    <3>1. /\ Len(pipe') + left'[t] = Length(msg'[t])
          /\ pipe'[1] = msg'[t]
          /\ tpc'[t] = "write" => left'[t] # 0 /\ fate' = "none"
          /\ tpc'[t] = "close" => left'[t] = 0 /\ fate' = msg'[t]
      BY <1>1, <1>3, <1>5, <1>6, <1>7
    <3> QED
      BY <1>8, <3>1
  <2>2. \A u \in Threads : tpc'[u] = "lock" => left'[u] = Length(msg'[u])
    BY <1>1, <1>2, <1>6, <1>8 DEF TestIsTrue, Speaking
  <2>3. \A u \in Threads : tpc'[u] \in Speaking \cup {"lock"} => msg'[u] \in Messages
    BY <1>1, <1>2, <1>3, <1>8 DEF TestIsTrue
  <2>4. /\ tpc'["main"] = "setup" => tpc'["helper"] = "off"
        /\ tpc'["helper"] # "setup"
        /\ tpc'["helper"] \in Speaking => mutex' = "helper" /\ tpc'["main"] \notin Speaking
        /\ tpc'["main"] \in Speaking => mutex' = "main" \/ tpc'["helper"] = "off"
    BY <1>1, <1>2, <1>7, <1>8 DEF TestIsTrue, Threads, Speaking
  <2>5. msg' \in [Threads -> Messages \cup {"void"}]
    BY <1>1, <1>2 DEF TestIsTrue
  <2> QED
    BY <1>5, <1>6, <1>7, <1>8, <2>1, <2>2, <2>3, <2>4, <2>5 DEF TestIsTrue
<1> QED
  BY <1>1, <1>9, ThreadAnswers

\* A test that ends when it has said all of it, or is cut short by SIGINT.
LEMMA EndAnswers ==
  ASSUME IInv, PipesAreTrue, AnswerIsTrue,
         TestInterrupted \/ \E t \in Threads : CleanupAndExit(t)
  PROVE  AnswerIsTrue'
<1>1. testing
  BY DEF TestInterrupted, CleanupAndExit, AtTest
<1>2. TestIsTrue
  BY <1>1, TestingIsWatched
<1>3. \A m \in Messages : Length(m) \in Nat \ {0}
  BY ChunitAssumption DEF Length
<1>4. ASSUME NEW t \in Threads, tpc[t] = "close"
      PROVE  fate \in Messages /\ Len(pipe) = Length(fate) /\ pipe[1] = fate /\ fate # "none"
  <2>1. /\ msg[t] \in Messages /\ left[t] = 0 /\ fate = msg[t] /\ Len(pipe) + left[t] = Length(msg[t])
        /\ pipe # <<>> => pipe[1] = msg[t]
        /\ pipe \in Seq(Messages \cup {"word"})
    BY <1>2, <1>4 DEF TestIsTrue, Speaking
  <2>2. Len(pipe) = Length(fate) /\ Len(pipe) # 0
    BY <1>3, <2>1
  <2>3. pipe # <<>>
    BY <2>2
  <2> QED
    BY <2>1, <2>2, <2>3, ChunitAssumption DEF Messages
<1>5. CASE \E t \in Threads : CleanupAndExit(t)
  <2>1. PICK t \in Threads : tpc[t] = "close" /\ (TestExits("exit0", fate) \/ TestExits("pipe error", fate))
    BY <1>5 DEF CleanupAndExit, AtTest
  <2>2. pipe' = pipe /\ fate' = fate
    BY <2>1 DEF TestExits
  <2>3. Spoken'
    BY <1>2, <1>4, <2>1, <2>2 DEF Spoken, TestIsTrue
  <2>4. Fits("exit0")' /\ Fits("pipe error")'
    BY <2>3 DEF Fits
  <2> QED
    BY <1>1, <2>1, <2>4, ExitAnswers DEF Statuses
<1>6. CASE TestInterrupted
  <2> DEFINE end == IF fate = "none" THEN "interrupted" ELSE fate
  <2>1. TestExits("exit0", end)
    BY <1>6 DEF TestInterrupted
  <2>2. pipe' = pipe /\ fate' = end /\ pipe \in Seq(Messages \cup {"word"})
    BY <1>2, <2>1 DEF TestExits, TestIsTrue
  <2>3. ASSUME \E t \in Threads : tpc[t] = "close" PROVE Spoken'
    BY <1>4, <2>2, <2>3 DEF Spoken
  <2>4. ASSUME NEW t \in Threads, tpc[t] = "write"
        PROVE  Spoken'
    <3>1. /\ msg[t] \in Messages /\ left[t] \in Nat \ {0} /\ fate = "none" /\ Len(pipe) + left[t] = Length(msg[t])
          /\ pipe # <<>> => pipe[1] = msg[t]
      BY <1>2, <2>4 DEF TestIsTrue, Speaking
    <3>2. pipe # <<>> => Len(pipe) < Length(pipe[1])
      BY <1>3, <2>2, <3>1
    <3> QED
      BY <2>2, <3>1, <3>2 DEF Spoken
  <2>5. ASSUME \A t \in Threads : tpc[t] \notin Speaking PROVE Spoken'
    BY <1>2, <2>2, <2>5 DEF TestIsTrue, Spoken
  <2>6. Fits("exit0")'
    BY <2>3, <2>4, <2>5 DEF Fits, Speaking
  <2> QED
    BY <1>1, <2>1, <2>6, ExitAnswers DEF Statuses
<1> QED
  BY <1>5, <1>6

LEMMA TestAnswers ==
  ASSUME JoinsThreads, IInv, PipesAreTrue, AnswerIsTrue, TestProcess
  PROVE  AnswerIsTrue'
<1>1. ASSUME NEW t \in Threads, NEW k \in Kinds, FailAssert(t, k)
      PROVE  AnswerIsTrue'
  BY <1>1, SaysAnswers DEF FailAssert, Messages
<1>2. ASSUME NEW m \in {"success", "leak"}, ReturnFromTest(m)
      PROVE  AnswerIsTrue'
  BY <1>2, SaysAnswers DEF ReturnFromTest, Messages, Threads
<1>3. CASE ExitOrCrash
  <2>1. testing
    BY <1>3 DEF ExitOrCrash, AtTest
  <2>2. CASE TestExits("exit1", "exited")
    <3>1. Fits("exit1")'
      BY <2>2 DEF Fits, TestExits
    <3> QED
      BY <2>1, <2>2, <3>1, ExitAnswers DEF Statuses
  <2>3. CASE TestExits("signal", "crashed")
    <3>1. Fits("signal")'
      BY <2>3 DEF Fits, TestExits
    <3> QED
      BY <2>1, <2>3, <3>1, ExitAnswers DEF Statuses
  <2> QED
    BY <1>3, <2>2, <2>3 DEF ExitOrCrash
<1> QED
  BY <1>1, <1>2, <1>3, SetupAnswers, HelperReturnsAnswers, LockAnswers, WriteAnswers, EndAnswers DEF TestProcess

-----------------------------------------------------------------------------
\* The runner.
LEMMA StartAnswers ==
  ASSUME IInv, PipesAreTrue, AnswerIsTrue, BeginTest \/ OpenPipe \/ EndSuite \/ EndModule \/ Report
  PROVE  AnswerIsTrue'
<1>1. CASE BeginTest
  BY <1>1 DEF BeginTest, At, AnswerIsTrue, Watching, testVars
<1>2. CASE OpenPipe
  BY <1>2 DEF OpenPipe, At, AnswerIsTrue, Watching, testVars, testing, Right, Error
<1>3. CASE EndSuite
  BY <1>3 DEF EndSuite, At, AnswerIsTrue, Watching, testVars
<1>4. CASE EndModule
  BY <1>4 DEF EndModule, At, AnswerIsTrue, Watching, testVars, testing
<1>5. CASE Report
  BY <1>5 DEF Report, At, AnswerIsTrue, Watching
<1> QED
  BY <1>1, <1>2, <1>3, <1>4, <1>5

LEMMA ForkAnswers ==
  ASSUME IInv, PipesAreTrue, AnswerIsTrue, ForkTest
  PROVE  AnswerIsTrue'
<1>1. /\ pc = "fork" /\ child = NoPid /\ mutex = "nobody" /\ fate = "none" /\ pipe = <<>>
      /\ tpc = [t \in Threads |-> "off"] /\ msg = [t \in Threads |-> "void"] /\ left = [t \in Threads |-> 0]
      /\ UNCHANGED <<pipe, msg, left, mutex, fate>>
  BY DEF ForkTest, At, AnswerIsTrue
<1>2. ASSUME NEW p \in Pids, Fork(p), child' = p, tpc' = [tpc EXCEPT !["main"] = "setup"], pc' = "close write"
      PROVE  AnswerIsTrue'
  <2>1. proc'[child'] = "child" /\ child' \in Pids
    BY <1>2 DEF Fork, IInv, ProcTypeOK
  <2>2. Fits(proc[child])'
    BY <2>1 DEF Fits
  <2>3. /\ tpc'["main"] = "setup" /\ tpc'["helper"] = "off"
        /\ tpc' \in [Threads -> Speaking \cup {"off", "setup", "test", "lock"}]
    BY <1>1, <1>2 DEF Threads
  <2>4. TestIsTrue'
    BY <1>1, <2>3 DEF TestIsTrue, Threads, Speaking
  <2> QED
    BY <1>2, <2>1, <2>2, <2>4 DEF AnswerIsTrue, Watching
<1>3. CASE Error("fork") /\ pc' = "report" /\ UNCHANGED <<procVars, child, tpc>>
  BY <1>1, <1>3 DEF AnswerIsTrue, Watching, testing, Right, Error
<1> QED
  BY <1>2, <1>3 DEF ForkTest

\* From the end of the fork to the end of the wait.
LEMMA WaitAnswers ==
  ASSUME IInv, PipesAreTrue, AnswerIsTrue, CloseWrite \/ Wait \/ KillTest \/ ReapKilled \/ UnlistTest
  PROVE  AnswerIsTrue'
<1>0. proc \in [Pids -> Kept] /\ child \in Pids \cup {NoPid}
  BY DEF IInv, ProcTypeOK
<1>1. UNCHANGED <<shouldFail, child, pipe, testVars>>
  BY DEF CloseWrite, Wait, KillTest, ReapKilled, UnlistTest, runVars
<1>2. (TestIsTrue => TestIsTrue') /\ (Spoken => Spoken')
  BY <1>1 DEF TestIsTrue, Spoken, testVars
<1>3. \A status : Fits(status) => /\ status = "signal" => fate' = "crashed"
                                  /\ status = "exit1" => fate' = "exited"
                                  /\ status = "exit0" => Spoken'
  BY <1>1, <1>2 DEF Fits, testVars
<1>4. CASE CloseWrite
  BY <1>1, <1>2, <1>3, <1>4 DEF CloseWrite, At, AnswerIsTrue, Watching, testing, Fits, procVars
<1>5. CASE Wait
  <2>1. pc = "wait" /\ child \in Pids /\ Fits(proc[child]) /\ (testing => TestIsTrue)
    BY <1>5 DEF Wait, At, AnswerIsTrue, Watching
  <2>2. CASE Reap(child) /\ stat' = proc[child] /\ pc' = "unlist"
    <3>1. ~testing'
      BY <1>0, <1>1, <2>1, <2>2 DEF Reap, testing
    <3>2. Fits(stat)'
      BY <1>3, <2>1, <2>2 DEF Fits
    <3> QED
      BY <2>2, <3>1, <3>2 DEF AnswerIsTrue, Watching
  <2>3. CASE pc' = "kill" /\ UNCHANGED procVars
    BY <1>1, <1>2, <2>1, <2>3 DEF AnswerIsTrue, Watching, testing, procVars
  <2> QED
    BY <1>5, <2>2, <2>3 DEF Wait
<1>6. CASE KillTest
  <2>1. pc = "kill" /\ pc' = "reap" /\ Kill(child) /\ (testing => TestIsTrue)
    BY <1>6 DEF KillTest, At, AnswerIsTrue, Watching
  <2>2. testing' => testing
    BY <1>0, <1>1, <2>1 DEF Kill, testing
  <2> QED
    BY <1>2, <2>1, <2>2 DEF AnswerIsTrue, Watching
<1>7. CASE ReapKilled
  <2>1. pc = "reap" /\ pc' = "unlist" /\ Reap(child) /\ UNCHANGED <<result, errors>>
    BY <1>7 DEF ReapKilled, At
  <2>2. ~testing'
    BY <1>0, <1>1, <2>1 DEF Reap, testing
  <2>3. errors # {} \/ result # "void"
    BY <2>1 DEF PipesAreTrue
  <2> QED
    BY <2>1, <2>2, <2>3 DEF AnswerIsTrue, Watching
<1>8. CASE UnlistTest
  <2>1. /\ pc = "unlist" /\ pc' = AfterWait /\ UNCHANGED <<proc, stat, result, errors>> /\ ~testing
        /\ errors = {} /\ result = "void" => Fits(stat)
    BY <1>8 DEF UnlistTest, Unlist, At, AnswerIsTrue
  <2>2. ~testing'
    BY <1>1, <2>1 DEF testing
  <2>3. errors = {} /\ result = "void" => Fits(stat)'
    BY <1>3, <2>1 DEF Fits
  <2>4. pc' # "judge" => Right'
    BY <2>1 DEF AfterWait, Right
  <2> QED
    BY <2>1, <2>2, <2>3, <2>4 DEF AnswerIsTrue, AfterWait, Watching
<1> QED
  BY <1>4, <1>5, <1>6, <1>7, <1>8

\* The verdict.
LEMMA JudgeAnswers ==
  ASSUME IInv, PipesAreTrue, AnswerIsTrue, Judge \/ ReadResult \/ CloseRead
  PROVE  AnswerIsTrue'
<1>0. /\ \A m \in Messages : Length(m) \in Nat \ {0} /\ m \notin {"none", "exited", "crashed", "interrupted"}
      /\ \A m \in Messages : Length(m) = 1 + IF m \in Kinds THEN Words[m] ELSE 0
  BY ChunitAssumption DEF Messages, Length
<1>1. UNCHANGED <<proc, child, shouldFail, fate>> /\ ~testing
  BY DEF Judge, ReadResult, CloseRead, runVars, testVars, procVars, At, AnswerIsTrue
<1>2. ~testing'
  BY <1>1 DEF testing
<1>3. CASE Judge
  <2>1. pc = "judge" /\ errors = {} /\ result = "void" /\ Fits(stat) /\ pipe' = pipe
    BY <1>3 DEF Judge, At, AnswerIsTrue, PipesAreTrue, Calm
  <2>2. CASE stat = "signal" /\ result' = "fatal" /\ pc' = "close read"
    BY <1>1, <1>2, <2>1, <2>2 DEF Fits, Right, Expected, AnswerIsTrue, Watching
  <2>3. CASE stat = "pipe error" /\ Error("pipe") /\ pc' = "report"
    BY <1>2, <2>3 DEF Error, Right, AnswerIsTrue, Watching
  <2>4. CASE stat = "mutex error" /\ Error("mutex") /\ pc' = "close read"
    BY <1>2, <2>4 DEF Error, Right, AnswerIsTrue, Watching
  <2>5. CASE stat = "exit1" /\ result' = (IF shouldFail THEN "success" ELSE "fatal") /\ pc' = "close read"
    BY <1>1, <1>2, <2>1, <2>5 DEF Fits, Right, Expected, AnswerIsTrue, Watching
  <2>6. CASE stat = "exit0" /\ shouldFail /\ result' = "unexpected" /\ pc' = "close read"
    <3>1. fate \notin {"exited", "crashed"}
      BY <1>0, <2>1, <2>6 DEF Fits, Spoken
    <3>2. Expected' = "unexpected"
      BY <1>1, <2>6, <3>1 DEF Expected
    <3> QED
      BY <1>2, <2>6, <3>2 DEF Right, AnswerIsTrue, Watching
  <2>7. CASE stat = "exit0" /\ ~shouldFail /\ pc' = "read"
    <3>1. Spoken'
      BY <1>1, <2>1, <2>7 DEF Fits, Spoken
    <3> QED
      BY <1>1, <1>2, <2>7, <3>1 DEF AnswerIsTrue, Watching
  <2> QED
    BY <1>3, <2>2, <2>3, <2>4, <2>5, <2>6, <2>7 DEF Judge
<1>4. CASE ReadResult
  <2>1. pc = "read" /\ Spoken /\ ~shouldFail
    BY <1>4 DEF ReadResult, At, AnswerIsTrue
  <2>2. CASE Error("pipe") /\ pc' = "report"
    BY <1>2, <2>2 DEF Error, Right, AnswerIsTrue, Watching
  <2> DEFINE kind == pipe[1]
             n == IF kind \in Kinds THEN Words[kind] ELSE 0
  <2>3. CASE Reads(1) /\ Reads(1 + n) /\ result' = kind /\ pc' = "close read"
    <3>1. fate \in Messages /\ kind = fate
      <4>1. Len(pipe) \in Nat /\ Len(pipe) >= 1 /\ Len(pipe) >= 1 + n
        <5>1. pipe \in Seq(Messages \cup {"word"})
          BY <2>1 DEF Spoken
        <5>2. Len(pipe) \in Nat
          BY <5>1
        <5> HIDE DEF n, kind
        <5> QED
          BY <2>3, <5>2 DEF Reads
      <4>2. kind \in Messages => Length(kind) = 1 + n
        BY <1>0
      <4>3. ~(pipe = <<>> \/ (kind \in Messages /\ Len(pipe) < Length(kind)))
        BY <4>1, <4>2, <1>0
      <4> QED
        BY <2>1, <4>3 DEF Spoken
    <3>2. Expected' = fate
      BY <1>0, <1>1, <2>1, <3>1 DEF Expected
    <3> QED
      BY <1>2, <2>3, <3>1, <3>2 DEF Right, AnswerIsTrue, Watching
  <2> QED
    BY <1>4, <2>2, <2>3 DEF ReadResult
<1>5. CASE CloseRead
  <2>1. pc = "close read" /\ pc' = "report" /\ Right /\ result' = result
    BY <1>5 DEF CloseRead, At, AnswerIsTrue
  <2>2. errors' = errors \/ errors' # {}
    BY <1>5 DEF CloseRead, Error
  <2>3. Right'
    BY <1>1, <2>1, <2>2 DEF Right, Expected
  <2> QED
    BY <1>2, <2>1, <2>3 DEF AnswerIsTrue, Watching
<1> QED
  BY <1>3, <1>4, <1>5

LEMMA NextPipes ==
  ASSUME PipesAreTrue /\ CountsAreTrue, [Next]_vars
  PROVE  (PipesAreTrue /\ CountsAreTrue)'
<1>1. CASE UNCHANGED <<pc, suite, test, successes, successful, allGood, wfd, rfd, result, errors>>
  BY <1>1 DEF PipesAreTrue, PipesClosed, CountsAreTrue
<1>2. CASE Runner
  BY <1>2, PipesStep, CountsStep
<1>3. CASE ForkOther
  BY <1>1, <1>3 DEF ForkOther
<1>4. CASE Elsewhere
  BY <1>1, <1>4 DEF Elsewhere, runVars
<1>5. CASE TestProcess
  BY <1>1, <1>5 DEF TestProcess, Setup, FailAssert, ReturnFromTest, Says, HelperReturns, ExitOrCrash, Lock, Write,
                    CleanupAndExit, TestInterrupted, TestExits, ThreadStep, runVars
<1>6. CASE UNCHANGED vars
  BY <1>1, <1>6 DEF vars, runVars
<1> QED
  BY <1>2, <1>3, <1>4, <1>5, <1>6 DEF Next

LEMMA NextAnswers ==
  ASSUME JoinsThreads, IInv, PipesAreTrue, AnswerIsTrue, [Next]_vars
  PROVE  AnswerIsTrue'
<1>1. CASE UNCHANGED vars
  <2>1. /\ UNCHANGED <<pc, shouldFail, child, pipe, stat, result, errors, testVars>>
        /\ child \in Pids => proc'[child] = proc[child] \/ proc'[child] \notin Statuses \cup {"child"}
    BY <1>1 DEF vars, runVars, procVars
  <2> QED
    BY <2>1, OthersAnswer
<1>2. CASE Runner
  BY <1>2, StartAnswers, ForkAnswers, WaitAnswers, JudgeAnswers DEF Runner
<1> QED
  BY <1>1, <1>2, ForkOtherAnswers, TestAnswers, ElsewhereAnswers DEF Next

\* The runner has closed its ends of the pipe of every test it reports, unless the
\* pipe has failed or there was no process to write to it (chunit.c:123).
THEOREM PipesAreClosed == Spec => []PipesClosed
<1>1. Init => PipesAreTrue /\ CountsAreTrue
  BY InitRInv
<1>2. PipesAreTrue /\ CountsAreTrue /\ [Next]_vars => (PipesAreTrue /\ CountsAreTrue)'
  BY NextPipes
<1>3. PipesAreTrue => PipesClosed
  BY DEF PipesAreTrue
<1> QED
  BY <1>1, <1>2, <1>3, PTL DEF Spec

\* Whatever the threads of a test do, if it joins them the runner says of it what it
\* has come to, unless it is killed for its time being over or a system call fails,
\* and of the module whether all of its tests were good:
\* chunit_parent_process, chunit_run_module.
THEOREM ResultsAreTrue == JoinsThreads => (Spec => []ResultIsTrue)
<1> SUFFICES ASSUME JoinsThreads PROVE Spec => []ResultIsTrue
  OBVIOUS
<1>1. Init => RInv
  BY InitIInv, InitRInv DEF RInv
<1>2. RInv /\ [Next]_vars => RInv'
  BY NextStep, NextPipes, NextAnswers DEF RInv
<1>3. RInv => ResultIsTrue
  <2>1. ASSUME CountsAreTrue, pc = "done" PROVE successful = allGood
    <3>1. Len(SuiteSizes) \in Nat
      BY ChunitAssumption
    <3>2. successes = test - 1
      BY <2>1, <3>1 DEF CountsAreTrue
    <3> QED
      BY <2>1, <3>2 DEF CountsAreTrue
  <2>2. AnswerIsTrue /\ pc = "report" => Right
    BY DEF AnswerIsTrue
  <2> QED
    BY <2>1, <2>2 DEF RInv, ResultIsTrue, Right
<1> QED
  BY <1>1, <1>2, <1>3, PTL DEF Spec
=============================================================================
