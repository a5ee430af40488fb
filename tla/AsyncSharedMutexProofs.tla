----------------------- MODULE AsyncSharedMutexProofs -----------------------
(***************************************************************************)
(* Proofs about AsyncSharedMutex for any number of coroutines and loops.   *)
(*                                                                         *)
(* The argument: state_ counts the owners (StateCountsOwners).  It is kept *)
(* because a shared compare-exchange only stores over the value it loaded, *)
(* and the value loaded was never -1 (CasIsShared): whatever writers came  *)
(* and went in between, the store adds one owner to a lock without         *)
(* writers.  That a release is the release of an owner needs nothing more: *)
(* a running coroutine is its own state.  ThreadAffinity and ResumedOnce   *)
(* follow from an exact account of the task queues (QueuesAccounted).      *)
(***************************************************************************)
EXTENDS AsyncSharedMutex, FiniteSetTheorems, TLAPS

Typed ==
    /\ state \in Int
    /\ pc \in [Coro -> Stage]
    /\ current \in [Coro -> Int]
    /\ queue \in [Thread -> Seq(Coro)]
    /\ running \in [Thread -> Coro \cup {Nobody}]
    /\ origin \in [Coro -> Thread]

\* Between load and compare-exchange: a shared request that saw no writer.
CasIsShared ==
    \A c \in Coro :
        pc[c] \in {"awaitCas", "spinCas"} => Mode[c] = "shared" /\ current[c] >= 0

\* The stages in which a coroutine waits in a task queue, and those in which
\* a loop executes it.
QueuedStages == {"arrived", "parked", "granted", "ioDone"}
RunStages    == {"await", "awaitCas", "spin", "spinCas", "held"}

\* Every queue holds coroutines of its own loop, each at most once, and a
\* coroutine is queued or run exactly when its stage says so.
QueuesAccounted ==
    /\ origin = Home
    /\ \A t \in Thread : \A i \in 1 .. Len(queue[t]) :
          Home[queue[t][i]] = t /\ pc[queue[t][i]] \in QueuedStages
    /\ \A t \in Thread : \A i, j \in 1 .. Len(queue[t]) :
          queue[t][i] = queue[t][j] => i = j
    /\ \A t \in Thread :
          running[t] # Nobody => Home[running[t]] = t /\ pc[running[t]] \in RunStages
    /\ \A c \in Coro :
          /\ pc[c] \in QueuedStages =>
                \E i \in 1 .. Len(queue[Home[c]]) : queue[Home[c]][i] = c
          /\ pc[c] \in RunStages => running[Home[c]] = c

LockInv == Typed /\ CasIsShared /\ StateCountsOwners
IInv == LockInv /\ QueuesAccounted

-----------------------------------------------------------------------------
\* The sets of owners are finite, so their cardinalities are numbers.
LEMMA OwnersFinite ==
    /\ IsFiniteSet(SharedOwners)
    /\ Cardinality(SharedOwners) \in Nat
    /\ Cardinality(SharedOwners) <= Cardinality(Coro)
    /\ Cardinality(Coro) \in Nat
<1>1. SharedOwners \in SUBSET Coro
  BY DEF SharedOwners
<1>2. IsFiniteSet(Coro)
  BY CoroAssumption
<1>3. IsFiniteSet(SharedOwners) /\ Cardinality(SharedOwners) <= Cardinality(Coro)
  BY <1>1, <1>2, FS_Subset
<1> QED
  BY <1>2, <1>3, FS_CardinalityType

\* A step that moves one coroutine to another stage changes the owners only
\* by that coroutine, according to its mode.
LEMMA OwnersAfterGoto ==
    ASSUME Typed, NEW c \in Coro, NEW stage \in Stage, Goto(c, stage)
    PROVE  /\ SharedOwners' = IF Mode[c] = "shared" /\ stage \in Owning
                              THEN SharedOwners \cup {c} ELSE SharedOwners \ {c}
           /\ UniqueOwners' = IF Mode[c] = "unique" /\ stage \in Owning
                              THEN UniqueOwners \cup {c} ELSE UniqueOwners \ {c}
  BY DEF Typed, Goto, SharedOwners, UniqueOwners

\* A step from an owning stage to an owning one, or from a stage without the
\* lock to another, changes no owner.
LEMMA OwnersKept ==
    ASSUME Typed, NEW c \in Coro, NEW stage \in Stage, Goto(c, stage),
           pc[c] \in Owning <=> stage \in Owning
    PROVE  SharedOwners' = SharedOwners /\ UniqueOwners' = UniqueOwners
  BY OwnersAfterGoto DEF SharedOwners, UniqueOwners

\* What a successful shared compare-exchange does to the account.
LEMMA SharedTaken ==
    ASSUME Typed, StateCountsOwners, NEW c \in Coro, NEW stage \in Stage,
           Goto(c, stage), Mode[c] = "shared", pc[c] \notin Owning,
           stage \in Owning, state >= 0, state' = state + 1
    PROVE  /\ UniqueOwners = {}
           /\ UniqueOwners' = {}
           /\ SharedOwners' = SharedOwners \cup {c}
           /\ StateCountsOwners'
<1>1. state = Cardinality(SharedOwners) /\ UniqueOwners = {}
  BY DEF StateCountsOwners
<1>2. SharedOwners' = SharedOwners \cup {c} /\ UniqueOwners' = {}
  BY <1>1, OwnersAfterGoto
<1>3. c \notin SharedOwners
  BY DEF SharedOwners
<1>4. Cardinality(SharedOwners \cup {c}) = Cardinality(SharedOwners) + 1
  BY <1>3, OwnersFinite, FS_AddElement
<1> QED
  BY <1>1, <1>2, <1>4 DEF StateCountsOwners

\* What a successful unique compare-exchange does to the account.
LEMMA UniqueTaken ==
    ASSUME Typed, StateCountsOwners, NEW c \in Coro, NEW stage \in Stage,
           Goto(c, stage), Mode[c] = "unique", stage \in Owning,
           state = 0, state' = -1
    PROVE  /\ SharedOwners = {}
           /\ UniqueOwners = {}
           /\ SharedOwners' = {}
           /\ UniqueOwners' = {c}
           /\ StateCountsOwners'
<1>1. Cardinality(SharedOwners) = 0 /\ UniqueOwners = {}
  BY DEF StateCountsOwners
<1>2. SharedOwners = {}
  BY <1>1, OwnersFinite, FS_EmptySet
<1>3. SharedOwners' = {} /\ UniqueOwners' = {c}
  BY <1>1, <1>2, OwnersAfterGoto
<1> QED
  BY <1>1, <1>2, <1>3 DEF StateCountsOwners

\* What the destructor of a guard does to the account.
LEMMA GuardDropped ==
    ASSUME Typed, StateCountsOwners, NEW c \in Coro, pc[c] = "held",
           Goto(c, "done"), state' = IF Mode[c] = "shared" THEN state - 1 ELSE 0
    PROVE  /\ Mode[c] = "shared" => /\ c \in SharedOwners
                                    /\ SharedOwners' = SharedOwners \ {c}
                                    /\ UniqueOwners' = UniqueOwners
           /\ Mode[c] = "unique" => /\ UniqueOwners = {c}
                                    /\ UniqueOwners' = {}
                                    /\ SharedOwners' = SharedOwners
           /\ StateCountsOwners'
<1>1. "done" \in Stage /\ "done" \notin Owning /\ "held" \in Owning
  BY DEF Stage, Owning
<1>2. /\ SharedOwners' = SharedOwners \ {c}
      /\ UniqueOwners' = UniqueOwners \ {c}
  BY <1>1, OwnersAfterGoto
<1>3. CASE Mode[c] = "shared"
  <2>1. c \in SharedOwners /\ c \notin UniqueOwners
    BY <1>1, <1>3 DEF SharedOwners, UniqueOwners
  <2>2. state = Cardinality(SharedOwners) /\ UniqueOwners = {}
    BY <2>1 DEF StateCountsOwners
  <2>3. Cardinality(SharedOwners \ {c}) = Cardinality(SharedOwners) - 1
    BY <2>1, OwnersFinite, FS_RemoveElement
  <2> QED
    BY <1>2, <1>3, <2>1, <2>2, <2>3 DEF StateCountsOwners
<1>4. CASE Mode[c] = "unique"
  <2>1. c \in UniqueOwners /\ c \notin SharedOwners
    BY <1>1, <1>4 DEF SharedOwners, UniqueOwners
  <2>2. UniqueOwners = {c} /\ SharedOwners = {}
    BY <2>1 DEF StateCountsOwners
  <2>3. Cardinality({}) = 0
    BY FS_EmptySet
  <2> QED
    BY <1>2, <1>4, <2>2, <2>3 DEF StateCountsOwners
<1> QED
  BY <1>3, <1>4, CoroAssumption

-----------------------------------------------------------------------------
\* Queueing and parking a coroutine, or granting it the lock, is well typed.
LEMMA TypedMoves ==
    ASSUME Typed, NEW t \in Thread, NEW c \in Coro
    PROVE  /\ Queue(t, c) => queue' \in [Thread -> Seq(Coro)]
           /\ EndTask(t) => running' \in [Thread -> Coro \cup {Nobody}]
           /\ \A stage \in Stage : Goto(c, stage) => pc' \in [Coro -> Stage]
           /\ Park(t, c) \/ Grant(t, c) => /\ pc' \in [Coro -> Stage]
                                           /\ queue' \in [Thread -> Seq(Coro)]
                                           /\ running' \in [Thread -> Coro \cup {Nobody}]
<1>1. Append(queue[t], c) \in Seq(Coro)
  BY DEF Typed
<1>2. Queue(t, c) => queue' \in [Thread -> Seq(Coro)]
  BY <1>1 DEF Typed, Queue
<1>3. EndTask(t) => running' \in [Thread -> Coro \cup {Nobody}]
  BY DEF Typed, EndTask
<1>4. \A stage \in Stage : Goto(c, stage) => pc' \in [Coro -> Stage]
  BY DEF Typed, Goto
<1>5. {"parked", "held", "granted"} \subseteq Stage
  BY DEF Stage
<1> QED
  BY <1>2, <1>3, <1>4, <1>5 DEF Park, Grant, Typed

\* Every action keeps the variables within their types.
LEMMA TypedStep == Typed /\ [Next]_vars => Typed'
<1> SUFFICES ASSUME Typed, [Next]_vars PROVE Typed'
  OBVIOUS
<1> USE CoroAssumption DEF Typed, Stage
<1>1. CASE UNCHANGED vars
  BY <1>1 DEF vars
<1>2. ASSUME NEW c \in Coro, Arrive(c) PROVE Typed'
  BY <1>2 DEF Arrive, Goto, Queue
<1>3. ASSUME NEW c \in Coro, Complete(c) PROVE Typed'
  BY <1>3 DEF Complete, Goto, Queue
<1>4. ASSUME NEW t \in Thread, RunTask(t) PROVE Typed'
  <2>1. Head(queue[t]) \in Coro /\ Tail(queue[t]) \in Seq(Coro)
    BY <1>4 DEF RunTask
  <2>2. Entry(pc[Head(queue[t])]) \in Stage
    BY DEF Entry
  <2>3. pc' \in [Coro -> Stage] /\ running' \in [Thread -> Coro \cup {Nobody}]
    BY <1>4, <2>1, <2>2 DEF RunTask, Goto
  <2>4. queue' \in [Thread -> Seq(Coro)]
    BY <1>4, <2>1 DEF RunTask
  <2> QED
    BY <1>4, <2>3, <2>4 DEF RunTask
<1>5. ASSUME NEW t \in Thread, NEW c \in Coro, LoadShared(t, c) PROVE Typed'
  <2>1. CASE state >= 0
    <3>1. pc' \in [Coro -> Stage]
      BY <1>5, <2>1, TypedMoves DEF LoadShared
    <3>2. current' \in [Coro -> Int] /\ UNCHANGED <<queue, running, state, origin>>
      BY <1>5, <2>1 DEF LoadShared
    <3> QED
      BY <3>1, <3>2
  <2>2. CASE ~(state >= 0)
    BY <1>5, <2>2, TypedMoves DEF LoadShared
  <2> QED
    BY <2>1, <2>2
<1>6. ASSUME NEW t \in Thread, NEW c \in Coro, CasShared(t, c) PROVE Typed'
  BY <1>6, TypedMoves DEF CasShared
<1>7. ASSUME NEW t \in Thread, NEW c \in Coro, CasUnique(t, c) PROVE Typed'
  BY <1>7, TypedMoves DEF CasUnique
<1>8. ASSUME NEW t \in Thread, NEW c \in Coro, Suspend(t, c) PROVE Typed'
  BY <1>8 DEF Suspend, Goto, EndTask
<1>9. ASSUME NEW t \in Thread, NEW c \in Coro, Release(t, c) PROVE Typed'
  BY <1>9 DEF Release, Goto, EndTask
<1> QED
  BY <1>1, <1>2, <1>3, <1>4, <1>5, <1>6, <1>7, <1>8, <1>9 DEF Next, Step

\* A granted attempt moves the coroutine to a stage that owns the lock.
LEMMA GrantOwns ==
    ASSUME Typed, NEW t, NEW c \in Coro, Grant(t, c)
    PROVE  \E stage \in Stage : stage \in Owning /\ Goto(c, stage)
  BY DEF Grant, Stage, Owning

\* What a step may do to the owners: what the abstract lock allows, or nothing.
LockStepOK ==
    /\ StateCountsOwners'
    /\ Abstract!Next \/ UNCHANGED <<SharedOwners, UniqueOwners>>

\* A step that leaves state_ alone and moves one coroutine without its taking
\* or leaving the lock is none of the lock's business.
LEMMA Bystander ==
    ASSUME Typed, StateCountsOwners, NEW c \in Coro, NEW stage \in Stage,
           Goto(c, stage), pc[c] \in Owning <=> stage \in Owning,
           state' = state
    PROVE  LockStepOK
<1>1. SharedOwners' = SharedOwners /\ UniqueOwners' = UniqueOwners
  BY OwnersKept
<1> QED
  BY <1>1 DEF LockStepOK, StateCountsOwners

\* Every step of the mutex keeps the account and is a step of the abstract
\* lock, or no step of it.
LEMMA LockStep == IInv /\ [Next]_vars => CasIsShared' /\ LockStepOK
<1> SUFFICES ASSUME IInv, [Next]_vars PROVE CasIsShared' /\ LockStepOK
  OBVIOUS
<1> USE DEF IInv, LockInv
<1>1. CASE UNCHANGED vars
  <2>1. SharedOwners' = SharedOwners /\ UniqueOwners' = UniqueOwners
    BY <1>1 DEF vars, SharedOwners, UniqueOwners
  <2> QED
    BY <1>1, <2>1 DEF vars, CasIsShared, LockStepOK, StateCountsOwners
<1>2. ASSUME NEW c \in Coro, Arrive(c) PROVE CasIsShared' /\ LockStepOK
  <2>1. /\ "arrived" \in Stage
        /\ pc[c] \in Owning <=> "arrived" \in Owning
    BY <1>2 DEF Arrive, Stage, Owning
  <2>2. LockStepOK
    BY <1>2, <2>1, Bystander DEF Arrive
  <2> QED
    BY <1>2, <2>2 DEF Typed, Arrive, Goto, CasIsShared
<1>3. ASSUME NEW c \in Coro, Complete(c) PROVE CasIsShared' /\ LockStepOK
  <2>1. /\ "ioDone" \in Stage
        /\ pc[c] \in Owning <=> "ioDone" \in Owning
    BY <1>3 DEF Complete, Stage, Owning
  <2>2. LockStepOK
    BY <1>3, <2>1, Bystander DEF Complete
  <2> QED
    BY <1>3, <2>2 DEF Typed, Complete, Goto, CasIsShared
<1>4. ASSUME NEW t \in Thread, NEW c \in Coro, LoadShared(t, c)
      PROVE  CasIsShared' /\ LockStepOK
  <2>1. PICK stage \in {"awaitCas", "spinCas", "parked"} : Goto(c, stage)
    BY <1>4 DEF LoadShared, Park
  <2>2. /\ stage \in Stage
        /\ pc[c] \in Owning <=> stage \in Owning
    BY <1>4, <2>1 DEF LoadShared, Stage, Owning
  <2>3. LockStepOK
    BY <1>4, <2>1, <2>2, Bystander DEF LoadShared
  <2>4. CasIsShared'
    BY <1>4 DEF LoadShared, Park, Goto, Typed, CasIsShared
  <2> QED
    BY <2>3, <2>4
<1>5. ASSUME NEW t \in Thread, NEW c \in Coro, CasShared(t, c)
      PROVE  CasIsShared' /\ LockStepOK
  <2>1. Mode[c] = "shared" /\ current[c] >= 0 /\ pc[c] \notin Owning
    BY <1>5 DEF CasShared, CasIsShared, Owning
  <2>2. CASE state = current[c]
    <3>1. PICK stage \in Stage : stage \in Owning /\ Goto(c, stage)
      BY <1>5, <2>2, GrantOwns DEF CasShared
    <3>2. state >= 0 /\ state' = state + 1
      BY <1>5, <2>1, <2>2 DEF CasShared
    <3>3. /\ UniqueOwners = {} /\ UniqueOwners' = {}
          /\ SharedOwners' = SharedOwners \cup {c}
          /\ StateCountsOwners'
      BY <2>1, <3>1, <3>2, SharedTaken
    <3>4. Abstract!TakeShared(c)
      BY <3>3 DEF Abstract!TakeShared
    <3>5. LockStepOK
      BY <3>3, <3>4 DEF LockStepOK, Abstract!Next
    <3>6. CasIsShared'
      BY <1>5, <3>1 DEF CasShared, Goto, Typed, CasIsShared, Owning
    <3> QED
      BY <3>5, <3>6
  <2>3. CASE state # current[c]
    <3>1. Goto(c, "parked") /\ state' = state
      BY <1>5, <2>3 DEF CasShared, Park
    <3>2. "parked" \in Stage /\ "parked" \notin Owning
      BY DEF Stage, Owning
    <3>3. LockStepOK
      BY <2>1, <3>1, <3>2, Bystander
    <3>4. CasIsShared'
      BY <1>5, <3>1 DEF CasShared, Goto, Typed, CasIsShared
    <3> QED
      BY <3>3, <3>4
  <2> QED
    BY <2>2, <2>3
<1>6. ASSUME NEW t \in Thread, NEW c \in Coro, CasUnique(t, c)
      PROVE  CasIsShared' /\ LockStepOK
  <2>1. Mode[c] = "unique" /\ pc[c] \notin Owning
    BY <1>6 DEF CasUnique, Owning
  <2>2. CASE state = 0
    <3>1. PICK stage \in Stage : stage \in Owning /\ Goto(c, stage)
      BY <1>6, <2>2, GrantOwns DEF CasUnique
    <3>2. state' = -1
      BY <1>6, <2>2 DEF CasUnique
    <3>3. /\ SharedOwners = {} /\ UniqueOwners = {}
          /\ SharedOwners' = {} /\ UniqueOwners' = {c}
          /\ StateCountsOwners'
      BY <2>1, <2>2, <3>1, <3>2, UniqueTaken
    <3>4. Abstract!TakeUnique(c)
      BY <3>3 DEF Abstract!TakeUnique
    <3>5. LockStepOK
      BY <3>3, <3>4 DEF LockStepOK, Abstract!Next
    <3>6. CasIsShared'
      BY <1>6, <3>1 DEF CasUnique, Goto, Typed, CasIsShared, Owning
    <3> QED
      BY <3>5, <3>6
  <2>3. CASE state # 0
    <3>1. Goto(c, "parked") /\ state' = state
      BY <1>6, <2>3 DEF CasUnique, Park
    <3>2. "parked" \in Stage /\ "parked" \notin Owning
      BY DEF Stage, Owning
    <3>3. LockStepOK
      BY <2>1, <3>1, <3>2, Bystander
    <3>4. CasIsShared'
      BY <1>6, <3>1 DEF CasUnique, Goto, Typed, CasIsShared
    <3> QED
      BY <3>3, <3>4
  <2> QED
    BY <2>2, <2>3
<1>7. ASSUME NEW t \in Thread, NEW c \in Coro, Suspend(t, c)
      PROVE  CasIsShared' /\ LockStepOK
  <2>1. /\ "io" \in Stage
        /\ pc[c] \in Owning <=> "io" \in Owning
    BY <1>7 DEF Suspend, Stage, Owning
  <2>2. LockStepOK
    BY <1>7, <2>1, Bystander DEF Suspend
  <2> QED
    BY <1>7, <2>2 DEF Typed, Suspend, Goto, CasIsShared
<1>8. ASSUME NEW t \in Thread, NEW c \in Coro, Release(t, c)
      PROVE  CasIsShared' /\ LockStepOK
  <2>1. /\ Mode[c] = "shared" => /\ c \in SharedOwners
                                 /\ SharedOwners' = SharedOwners \ {c}
                                 /\ UniqueOwners' = UniqueOwners
        /\ Mode[c] = "unique" => /\ UniqueOwners = {c}
                                 /\ UniqueOwners' = {}
                                 /\ SharedOwners' = SharedOwners
        /\ StateCountsOwners'
    BY <1>8, GuardDropped DEF Release
  <2>2. Abstract!DropShared(c) \/ Abstract!DropUnique(c)
    BY <2>1, CoroAssumption DEF Abstract!DropShared, Abstract!DropUnique
  <2>3. LockStepOK
    BY <2>1, <2>2 DEF LockStepOK, Abstract!Next
  <2> QED
    BY <1>8, <2>3 DEF Typed, Release, Goto, CasIsShared
<1>9. ASSUME NEW t \in Thread, RunTask(t) PROVE CasIsShared' /\ LockStepOK
  <2> DEFINE c == Head(queue[t])
  <2>1. c \in Coro /\ pc[c] \in QueuedStages
    BY <1>9 DEF RunTask, Typed, QueuesAccounted
  <2>2. /\ Entry(pc[c]) \in {"await", "spin", "held"}
        /\ pc[c] \in Owning <=> Entry(pc[c]) \in Owning
    BY <2>1 DEF Entry, QueuedStages, Owning
  <2>3. Goto(c, Entry(pc[c])) /\ state' = state /\ current' = current
    BY <1>9 DEF RunTask
  <2>4. Entry(pc[c]) \in Stage
    BY <2>2 DEF Stage
  <2>5. LockStepOK
    <3> HIDE DEF c
    <3> QED
      BY <2>1, <2>2, <2>3, <2>4, Bystander
  <2>6. CasIsShared'
    <3> HIDE DEF c
    <3> QED
      BY <2>1, <2>2, <2>3 DEF Typed, Goto, CasIsShared
  <2> QED
    BY <2>5, <2>6
<1> QED
  BY <1>1, <1>2, <1>3, <1>4, <1>5, <1>6, <1>7, <1>8, <1>9 DEF Next, Step

-----------------------------------------------------------------------------
\* A coroutine that is in no queue is put at the end of its loop's.
LEMMA Enqueued ==
    ASSUME Typed, QueuesAccounted, NEW c \in Coro, NEW stage \in QueuedStages,
           pc[c] \notin QueuedStages, Goto(c, stage), Queue(Home[c], c),
           \/ pc[c] \notin RunStages /\ UNCHANGED running
           \/ EndTask(Home[c]) /\ running[Home[c]] = c,
           UNCHANGED origin
    PROVE  QueuesAccounted'
<1> DEFINE h == Home[c]
           n == Len(queue[h])
<1>0. h \in Thread /\ queue[h] \in Seq(Coro) /\ n \in Nat /\ c # Nobody
  BY CoroAssumption DEF Typed
<1>1. /\ queue'[h] = Append(queue[h], c)
      /\ \A t \in Thread \ {h} : queue'[t] = queue[t]
      /\ Len(queue'[h]) = n + 1
      /\ \A i \in 1 .. n : queue'[h][i] = queue[h][i]
      /\ queue'[h][n + 1] = c
  BY <1>0 DEF Queue, Typed
<1>2. pc'[c] = stage /\ \A d \in Coro \ {c} : pc'[d] = pc[d]
  BY DEF Goto, Typed
<1>3. \A t \in Thread : \A i \in 1 .. Len(queue[t]) :
         queue[t][i] # c /\ queue[t][i] \in Coro
  BY DEF QueuesAccounted, Typed
<1>4. \A t \in Thread : running'[t] # Nobody => running'[t] = running[t] /\ running[t] # c
  BY <1>0 DEF EndTask, Typed, QueuesAccounted
<1>5. stage \notin RunStages
  BY DEF QueuedStages, RunStages
<1> HIDE DEF h, n
<1>6. \A t \in Thread : \A i \in 1 .. Len(queue'[t]) :
         Home[queue'[t][i]] = t /\ pc'[queue'[t][i]] \in QueuedStages
  <2> SUFFICES ASSUME NEW t \in Thread, NEW i \in 1 .. Len(queue'[t])
               PROVE  Home[queue'[t][i]] = t /\ pc'[queue'[t][i]] \in QueuedStages
    OBVIOUS
  <2>1. CASE t = h /\ i = n + 1
    BY <2>1, <1>1, <1>2 DEF h
  <2>2. CASE ~(t = h /\ i = n + 1)
    <3>1. i \in 1 .. Len(queue[t]) /\ queue'[t][i] = queue[t][i]
      BY <2>2, <1>0, <1>1 DEF n
    <3> QED
      BY <3>1, <1>2, <1>3 DEF QueuesAccounted
  <2> QED
    BY <2>1, <2>2
<1>7. \A t \in Thread : \A i, j \in 1 .. Len(queue'[t]) :
         queue'[t][i] = queue'[t][j] => i = j
  <2> SUFFICES ASSUME NEW t \in Thread,
                      NEW i \in 1 .. Len(queue'[t]), NEW j \in 1 .. Len(queue'[t]),
                      queue'[t][i] = queue'[t][j]
               PROVE  i = j
    OBVIOUS
  <2>1. CASE t # h
    BY <2>1, <1>1 DEF QueuesAccounted
  <2>2. CASE t = h
    <3>1. /\ i = n + 1 \/ (i \in 1 .. n /\ queue'[h][i] = queue[h][i])
          /\ j = n + 1 \/ (j \in 1 .. n /\ queue'[h][j] = queue[h][j])
      BY <2>2, <1>0, <1>1
    <3> QED
      BY <3>1, <2>2, <1>0, <1>1, <1>3 DEF QueuesAccounted, n
  <2> QED
    BY <2>1, <2>2
<1>8. \A t \in Thread :
         running'[t] # Nobody => Home[running'[t]] = t /\ pc'[running'[t]] \in RunStages
  <2> SUFFICES ASSUME NEW t \in Thread, running'[t] # Nobody
               PROVE  Home[running'[t]] = t /\ pc'[running'[t]] \in RunStages
    OBVIOUS
  <2>1. running'[t] = running[t] /\ running[t] \in Coro \ {c}
    BY <1>4 DEF Typed
  <2> QED
    BY <2>1, <1>2 DEF QueuesAccounted
<1>9. ASSUME NEW d \in Coro
      PROVE  /\ pc'[d] \in QueuedStages =>
                   \E i \in 1 .. Len(queue'[Home[d]]) : queue'[Home[d]][i] = d
             /\ pc'[d] \in RunStages => running'[Home[d]] = d
  <2>0. Home[d] \in Thread
    BY CoroAssumption
  <2>1. CASE d = c
    BY <2>1, <1>0, <1>1, <1>2, <1>5 DEF h
  <2>2. CASE d # c
    <3>1. pc'[d] = pc[d]
      BY <2>2, <1>2
    <3>2. pc[d] \in QueuedStages =>
             \E i \in 1 .. Len(queue[Home[d]]) : queue[Home[d]][i] = d
      BY DEF QueuesAccounted
    <3>3. \A i \in 1 .. Len(queue[Home[d]]) :
             /\ i \in 1 .. Len(queue'[Home[d]])
             /\ queue'[Home[d]][i] = queue[Home[d]][i]
      BY <2>0, <1>0, <1>1 DEF n
    <3>4. pc[d] \in RunStages => running[Home[d]] = d
      BY DEF QueuesAccounted
    <3>5. pc[d] \in RunStages => running'[Home[d]] = d
      BY <3>4, <2>0, <2>2 DEF EndTask, Typed
    <3> QED
      BY <3>1, <3>2, <3>3, <3>5
  <2> QED
    BY <2>1, <2>2
<1> QED
  BY <1>6, <1>7, <1>8, <1>9 DEF QueuesAccounted

\* A running coroutine goes on without giving up its loop.
LEMMA GoesOn ==
    ASSUME Typed, QueuesAccounted, NEW c \in Coro, NEW stage \in RunStages,
           pc[c] \in RunStages, Goto(c, stage), UNCHANGED <<queue, running, origin>>
    PROVE  QueuesAccounted'
<1>1. pc'[c] = stage /\ \A d \in Coro \ {c} : pc'[d] = pc[d]
  BY DEF Goto, Typed
<1>2. stage \notin QueuedStages /\ pc[c] \notin QueuedStages
  BY DEF QueuedStages, RunStages
<1>3. \A t \in Thread : \A i \in 1 .. Len(queue[t]) :
         queue[t][i] # c /\ queue[t][i] \in Coro
  BY <1>2 DEF QueuesAccounted, Typed
<1>4. \A t \in Thread : running[t] # Nobody => running[t] \in Coro
  BY DEF Typed
<1>5. \A t \in Thread : \A i \in 1 .. Len(queue[t]) : pc'[queue[t][i]] = pc[queue[t][i]]
  BY <1>1, <1>3
<1>6. \A t \in Thread : running[t] # Nobody => pc'[running[t]] \in RunStages
  BY <1>1, <1>4 DEF QueuesAccounted
<1>7. \A d \in Coro : /\ pc'[d] \in QueuedStages <=> pc[d] \in QueuedStages
                      /\ pc'[d] \in RunStages <=> pc[d] \in RunStages
  BY <1>1, <1>2
<1> QED
  BY <1>5, <1>6, <1>7 DEF QueuesAccounted

\* A running coroutine leaves its loop: it suspends or ends.
LEMMA LeavesLoop ==
    ASSUME Typed, QueuesAccounted, NEW t \in Thread, NEW c \in Coro, NEW stage \in Stage,
           Running(t, c), stage \notin QueuedStages \cup RunStages,
           Goto(c, stage), EndTask(t), UNCHANGED queue, origin' = Home
    PROVE  QueuesAccounted'
<1>0. c # Nobody /\ Home[c] = t /\ pc[c] \in RunStages
  BY CoroAssumption DEF Running, QueuesAccounted
<1>1. pc'[c] = stage /\ \A d \in Coro \ {c} : pc'[d] = pc[d]
  BY DEF Goto, Typed
<1>2. pc[c] \notin QueuedStages
  BY <1>0 DEF QueuedStages, RunStages
<1>3. \A u \in Thread : \A i \in 1 .. Len(queue[u]) :
         queue[u][i] # c /\ queue[u][i] \in Coro
  BY <1>2 DEF QueuesAccounted, Typed
<1>4. \A u \in Thread : \A i \in 1 .. Len(queue[u]) : pc'[queue[u][i]] = pc[queue[u][i]]
  BY <1>1, <1>3
<1>5. \A u \in Thread : running'[u] # Nobody =>
         running'[u] = running[u] /\ running[u] \in Coro \ {c}
  BY <1>0 DEF EndTask, Typed, Running, QueuesAccounted
<1>6. \A u \in Thread : running'[u] # Nobody =>
         Home[running'[u]] = u /\ pc'[running'[u]] \in RunStages
  BY <1>1, <1>5 DEF QueuesAccounted
<1>7. ASSUME NEW d \in Coro, pc'[d] \in QueuedStages \cup RunStages
      PROVE  d # c /\ pc'[d] = pc[d]
  BY <1>1, <1>7
<1>8. ASSUME NEW d \in Coro, pc'[d] \in RunStages PROVE running'[Home[d]] = d
  <2>1. running[Home[d]] = d /\ d # c /\ Home[d] \in Thread
    BY <1>7, <1>8, CoroAssumption DEF QueuesAccounted
  <2> QED
    BY <2>1 DEF EndTask, Typed, Running
<1>9. ASSUME NEW d \in Coro, pc'[d] \in QueuedStages
      PROVE  \E i \in 1 .. Len(queue'[Home[d]]) : queue'[Home[d]][i] = d
  BY <1>7, <1>9 DEF QueuesAccounted
<1> QED
  BY <1>4, <1>6, <1>8, <1>9 DEF QueuesAccounted

\* An idle loop takes its oldest task.
LEMMA Dequeued ==
    ASSUME Typed, QueuesAccounted, NEW t \in Thread, RunTask(t)
    PROVE  QueuesAccounted'
<1> DEFINE c == Head(queue[t])
           n == Len(queue[t])
<1>0. /\ queue[t] \in Seq(Coro) /\ n \in Nat /\ n >= 1
      /\ c \in Coro /\ c = queue[t][1] /\ c # Nobody
  BY CoroAssumption DEF RunTask, Typed
<1>1. Home[c] = t /\ pc[c] \in QueuedStages /\ running[t] = Nobody
  BY <1>0 DEF QueuesAccounted, RunTask
<1>2. Entry(pc[c]) \in RunStages /\ Entry(pc[c]) \notin QueuedStages
  BY DEF Entry, RunStages, QueuedStages
<1>3. /\ pc'[c] = Entry(pc[c])
      /\ \A d \in Coro \ {c} : pc'[d] = pc[d]
      /\ running'[t] = c
      /\ \A u \in Thread \ {t} : running'[u] = running[u]
  BY <1>0 DEF RunTask, Goto, Typed
<1>4. /\ Len(queue'[t]) = n - 1
      /\ \A i \in 1 .. n - 1 : queue'[t][i] = queue[t][i + 1]
      /\ \A u \in Thread \ {t} : queue'[u] = queue[u]
  BY <1>0 DEF RunTask, Typed
<1>5. \A u \in Thread : \A i \in 1 .. Len(queue[u]) :
         queue[u][i] = c => u = t /\ i = 1
  BY <1>0, <1>1 DEF QueuesAccounted
<1>6. \A u \in Thread : \A i \in 1 .. Len(queue[u]) : queue[u][i] \in Coro
  BY DEF Typed
<1>7. origin' = Home
  BY DEF RunTask, QueuesAccounted
<1> HIDE DEF c, n
<1>8. \A u \in Thread : \A i \in 1 .. Len(queue'[u]) :
         \E k \in 1 .. Len(queue[u]) :
            /\ k = IF u = t THEN i + 1 ELSE i
            /\ queue'[u][i] = queue[u][k]
            /\ queue[u][k] \in Coro \ {c}
  <2> SUFFICES ASSUME NEW u \in Thread, NEW i \in 1 .. Len(queue'[u])
               PROVE  \E k \in 1 .. Len(queue[u]) :
                         /\ k = IF u = t THEN i + 1 ELSE i
                         /\ queue'[u][i] = queue[u][k]
                         /\ queue[u][k] \in Coro \ {c}
    OBVIOUS
  <2>1. CASE u = t
    BY <2>1, <1>0, <1>4, <1>5, <1>6 DEF n
  <2>2. CASE u # t
    BY <2>2, <1>4, <1>5, <1>6
  <2> QED
    BY <2>1, <2>2
<1>9. \A u \in Thread : \A i \in 1 .. Len(queue'[u]) :
         Home[queue'[u][i]] = u /\ pc'[queue'[u][i]] \in QueuedStages
  <2> SUFFICES ASSUME NEW u \in Thread, NEW i \in 1 .. Len(queue'[u])
               PROVE  Home[queue'[u][i]] = u /\ pc'[queue'[u][i]] \in QueuedStages
    OBVIOUS
  <2>1. PICK k \in 1 .. Len(queue[u]) :
           queue'[u][i] = queue[u][k] /\ queue[u][k] \in Coro \ {c}
    BY <1>8
  <2>2. Home[queue[u][k]] = u /\ pc[queue[u][k]] \in QueuedStages
    BY DEF QueuesAccounted
  <2> QED
    BY <1>3, <2>1, <2>2
<1>10. \A u \in Thread : \A i, j \in 1 .. Len(queue'[u]) :
          queue'[u][i] = queue'[u][j] => i = j
  <2> SUFFICES ASSUME NEW u \in Thread,
                      NEW i \in 1 .. Len(queue'[u]), NEW j \in 1 .. Len(queue'[u]),
                      queue'[u][i] = queue'[u][j]
               PROVE  i = j
    OBVIOUS
  <2>1. PICK k \in 1 .. Len(queue[u]) :
           k = (IF u = t THEN i + 1 ELSE i) /\ queue'[u][i] = queue[u][k]
    BY <1>8
  <2>2. PICK l \in 1 .. Len(queue[u]) :
           l = (IF u = t THEN j + 1 ELSE j) /\ queue'[u][j] = queue[u][l]
    BY <1>8
  <2>3. queue[u][k] = queue[u][l]
    BY <2>1, <2>2
  <2>4. \A a, b \in 1 .. Len(queue[u]) : queue[u][a] = queue[u][b] => a = b
    BY DEF QueuesAccounted
  <2>5. k = l
    BY <2>3, <2>4
  <2> QED
    BY <2>1, <2>2, <2>5
<1>11. \A u \in Thread :
          running'[u] # Nobody => Home[running'[u]] = u /\ pc'[running'[u]] \in RunStages
  <2> SUFFICES ASSUME NEW u \in Thread, running'[u] # Nobody
               PROVE  Home[running'[u]] = u /\ pc'[running'[u]] \in RunStages
    OBVIOUS
  <2>1. CASE u = t
    BY <2>1, <1>1, <1>2, <1>3
  <2>2. CASE u # t
    <3>1. running'[u] = running[u] /\ running[u] \in Coro /\ pc[running[u]] \in RunStages
      BY <2>2, <1>3 DEF QueuesAccounted, Typed
    <3>2. running[u] # c
      BY <3>1, <1>1 DEF QueuedStages, RunStages
    <3> QED
      BY <3>1, <3>2, <1>3 DEF QueuesAccounted
  <2> QED
    BY <2>1, <2>2
<1>12. ASSUME NEW d \in Coro, pc'[d] \in QueuedStages
       PROVE  \E i \in 1 .. Len(queue'[Home[d]]) : queue'[Home[d]][i] = d
  <2>0. Home[d] \in Thread /\ d # c /\ pc[d] \in QueuedStages
    BY <1>2, <1>3, <1>12, CoroAssumption
  <2>1. PICK k \in 1 .. Len(queue[Home[d]]) : queue[Home[d]][k] = d
    BY <2>0 DEF QueuesAccounted
  <2>2. CASE Home[d] = t
    <3>1. k # 1
      BY <2>0, <2>1, <2>2, <1>0
    <3>2. k - 1 \in 1 .. n - 1 /\ queue'[t][k - 1] = d
      BY <2>1, <2>2, <3>1, <1>0, <1>4 DEF n
    <3> QED
      BY <2>2, <3>2, <1>4
  <2>3. CASE Home[d] # t
    BY <2>0, <2>1, <2>3, <1>4
  <2> QED
    BY <2>2, <2>3
<1>13. ASSUME NEW d \in Coro, pc'[d] \in RunStages PROVE running'[Home[d]] = d
  <2>1. CASE d = c
    BY <2>1, <1>1, <1>3
  <2>2. CASE d # c
    <3>1. running[Home[d]] = d /\ Home[d] \in Thread
      BY <2>2, <1>3, <1>13, CoroAssumption DEF QueuesAccounted
    <3>2. d # Nobody
      BY CoroAssumption
    <3> QED
      BY <3>1, <3>2, <1>1, <1>3
  <2> QED
    BY <2>1, <2>2
<1> QED
  BY <1>7, <1>9, <1>10, <1>11, <1>12, <1>13 DEF QueuesAccounted

-----------------------------------------------------------------------------
\* Every step keeps the account of the queues.
LEMMA QueuesStep == Typed /\ QueuesAccounted /\ [Next]_vars => QueuesAccounted'
<1> SUFFICES ASSUME Typed, QueuesAccounted, [Next]_vars PROVE QueuesAccounted'
  OBVIOUS
<1>1. CASE UNCHANGED vars
  BY <1>1 DEF vars, QueuesAccounted
<1>2. ASSUME NEW c \in Coro, Arrive(c) PROVE QueuesAccounted'
  <2>1. /\ "arrived" \in QueuedStages
        /\ pc[c] \notin QueuedStages /\ pc[c] \notin RunStages
    BY <1>2 DEF Arrive, QueuedStages, RunStages
  <2> QED
    BY <1>2, <2>1, Enqueued DEF Arrive
<1>3. ASSUME NEW c \in Coro, Complete(c) PROVE QueuesAccounted'
  <2>1. /\ "ioDone" \in QueuedStages
        /\ pc[c] \notin QueuedStages /\ pc[c] \notin RunStages
    BY <1>3 DEF Complete, QueuedStages, RunStages
  <2>2. Queue(Home[c], c)
    BY <1>3 DEF Complete, QueuesAccounted
  <2> QED
    BY <1>3, <2>1, <2>2, Enqueued DEF Complete
<1>4. ASSUME NEW t \in Thread, RunTask(t) PROVE QueuesAccounted'
  BY <1>4, Dequeued
<1>5. ASSUME NEW t \in Thread, NEW c \in Coro, Running(t, c), UNCHANGED origin,
             Park(t, c) \/ Grant(t, c)
      PROVE  QueuesAccounted'
  <2>1. t = Home[c] /\ pc[c] \in RunStages /\ running[Home[c]] = c
    BY <1>5, CoroAssumption DEF Running, QueuesAccounted
  <2>2. pc[c] \notin QueuedStages
    BY <2>1 DEF QueuedStages, RunStages
  <2>3. CASE \E stage \in QueuedStages : Goto(c, stage) /\ Queue(t, c) /\ EndTask(t)
    BY <1>5, <2>1, <2>2, <2>3, Enqueued
  <2>4. CASE Goto(c, "held") /\ UNCHANGED <<queue, running>>
    <3>1. "held" \in RunStages
      BY DEF RunStages
    <3> QED
      BY <1>5, <2>1, <2>4, <3>1, GoesOn
  <2>5. {"parked", "granted"} \subseteq QueuedStages
    BY DEF QueuedStages
  <2> QED
    BY <1>5, <2>3, <2>4, <2>5 DEF Park, Grant
<1>6. ASSUME NEW t \in Thread, NEW c \in Coro, LoadShared(t, c) PROVE QueuesAccounted'
  <2>1. CASE state >= 0
    <3>1. PICK stage \in {"awaitCas", "spinCas"} : Goto(c, stage)
      BY <1>6, <2>1 DEF LoadShared
    <3>2. stage \in RunStages /\ pc[c] \in RunStages
      BY <1>6 DEF LoadShared, RunStages
    <3> QED
      BY <1>6, <2>1, <3>1, <3>2, GoesOn DEF LoadShared
  <2>2. CASE ~(state >= 0)
    BY <1>5, <1>6, <2>2 DEF LoadShared
  <2> QED
    BY <2>1, <2>2
<1>7. ASSUME NEW t \in Thread, NEW c \in Coro, CasShared(t, c) PROVE QueuesAccounted'
  BY <1>5, <1>7 DEF CasShared
<1>8. ASSUME NEW t \in Thread, NEW c \in Coro, CasUnique(t, c) PROVE QueuesAccounted'
  BY <1>5, <1>8 DEF CasUnique
<1>9. ASSUME NEW t \in Thread, NEW c \in Coro, Suspend(t, c) PROVE QueuesAccounted'
  <2>1. "io" \in Stage /\ "io" \notin QueuedStages \cup RunStages
    BY DEF Stage, QueuedStages, RunStages
  <2>2. Home[c] = t /\ origin' = Home
    BY <1>9, CoroAssumption DEF Suspend, Running, QueuesAccounted, Typed
  <2> QED
    BY <1>9, <2>1, <2>2, LeavesLoop DEF Suspend
<1>10. ASSUME NEW t \in Thread, NEW c \in Coro, Release(t, c) PROVE QueuesAccounted'
  <2>1. "done" \in Stage /\ "done" \notin QueuedStages \cup RunStages
    BY DEF Stage, QueuedStages, RunStages
  <2>2. origin' = Home
    BY <1>10 DEF Release, QueuesAccounted
  <2> QED
    BY <1>10, <2>1, <2>2, LeavesLoop DEF Release
<1> QED
  BY <1>1, <1>2, <1>3, <1>4, <1>6, <1>7, <1>8, <1>9, <1>10 DEF Next, Step

\* The initial state satisfies the inductive invariant.
LEMMA InitInv == Init => IInv
<1> SUFFICES ASSUME Init PROVE IInv
  OBVIOUS
<1>1. Typed
  BY CoroAssumption DEF Init, Typed, Stage
<1>2. SharedOwners = {} /\ UniqueOwners = {}
  BY DEF Init, SharedOwners, UniqueOwners, Owning
<1>3. StateCountsOwners
  BY <1>2, FS_EmptySet DEF Init, StateCountsOwners
<1>4. CasIsShared
  BY DEF Init, CasIsShared
<1>5. QueuesAccounted
  BY CoroAssumption DEF Init, QueuesAccounted, QueuedStages, RunStages
<1> QED
  BY <1>1, <1>3, <1>4, <1>5 DEF IInv, LockInv

\* Every step keeps the inductive invariant.
LEMMA NextInv == IInv /\ [Next]_vars => IInv'
  BY TypedStep, LockStep, QueuesStep DEF IInv, LockInv, LockStepOK

\* The strengthening of the invariants below that every step preserves.
THEOREM Inductive == Spec => []IInv
  BY InitInv, NextInv, PTL DEF Spec

-----------------------------------------------------------------------------
\* state_ says exactly who owns a guard, however many requests and loops
\* contend, whatever happens between a shared request's load and exchange.
THEOREM StateCountsOwnersHolds == Spec => []StateCountsOwners
<1>1. IInv => StateCountsOwners
  BY DEF IInv, LockInv
<1> QED
  BY <1>1, Inductive, PTL

\* The variables stay in their types; in particular the count of shared guards
\* (fetch_sub in ~SharedLockGuard) never goes below its -1 .. |Coro| range.
THEOREM TypeOKHolds == Spec => []TypeOK
<1>1. IInv => state \in -1 .. Cardinality(Coro)
  BY OwnersFinite DEF IInv, LockInv, StateCountsOwners
<1>2. IInv => TypeOK
  BY <1>1 DEF IInv, LockInv, Typed, TypeOK
<1> QED
  BY <1>2, Inductive, PTL

\* A unique guard excludes every other guard.
THEOREM ExclusionHolds == Spec => []Exclusion
<1>1. StateCountsOwners => Exclusion
  BY DEF StateCountsOwners, Exclusion
<1> QED
  BY <1>1, StateCountsOwnersHolds, PTL

\* A coroutine is only ever executed by the loop of its own connection: the
\* check of WsRequestProcessor for "thread idx mismatch!" cannot fail.
THEOREM ThreadAffinityHolds == Spec => []ThreadAffinity
<1>1. IInv => ThreadAffinity
  BY CoroAssumption DEF IInv, QueuesAccounted, ThreadAffinity, Running
<1> QED
  BY <1>1, Inductive, PTL

\* A queue never holds more tasks than there are coroutines.
LEMMA QueueBounded ==
    ASSUME Typed, QueuesAccounted, NEW t \in Thread
    PROVE  Len(queue[t]) <= Cardinality(Coro)
<1>1. queue[t] \in Seq(Coro) /\ Len(queue[t]) \in Nat
  BY DEF Typed
<1>2. queue[t] \in [1 .. Len(queue[t]) -> Coro]
  BY <1>1
<1>3. queue[t] \in Injection(1 .. Len(queue[t]), Coro)
  BY <1>2 DEF QueuesAccounted, Injection, IsInjective
<1>4. Cardinality(1 .. Len(queue[t])) <= Cardinality(Coro)
  BY <1>3, CoroAssumption, FS_Injection
<1>5. Cardinality(1 .. Len(queue[t])) = Len(queue[t])
  BY <1>1, FS_Interval
<1> QED
  BY <1>4, <1>5

\* The places that refer to a coroutine, counted by its stage.
LEMMA PlacesCounted ==
    ASSUME Typed, QueuesAccounted, NEW c \in Coro
    PROVE  Cardinality(Places(c)) = IF pc[c] \in {"new", "io", "done"} THEN 0 ELSE 1
<1> DEFINE Queued == {p \in Thread \X (1 .. Cardinality(Coro)) :
                         p[2] <= Len(queue[p[1]]) /\ queue[p[1]][p[2]] = c}
           Run == {t \in Thread : Running(t, c)} \X {0}
<1>0. /\ Places(c) = Queued \cup Run
      /\ Home[c] \in Thread /\ c # Nobody
      /\ Cardinality({}) = 0 /\ \A x : Cardinality({x}) = 1
  BY CoroAssumption, FS_EmptySet, FS_Singleton DEF Places
<1>1. CASE pc[c] \in QueuedStages
  <2>1. PICK i \in 1 .. Len(queue[Home[c]]) : queue[Home[c]][i] = c
    BY <1>1 DEF QueuesAccounted
  <2>2. i \in 1 .. Cardinality(Coro)
    BY <1>0, QueueBounded, OwnersFinite DEF Typed
  <2>3. <<Home[c], i>> \in Queued
    BY <1>0, <2>1, <2>2
  <2>4. ASSUME NEW p \in Queued PROVE p = <<Home[c], i>>
    <3>1. /\ p[1] \in Thread /\ p[2] \in 1 .. Len(queue[p[1]])
          /\ queue[p[1]][p[2]] = c /\ p = <<p[1], p[2]>>
      BY OwnersFinite DEF Typed
    <3>2. p[1] = Home[c]
      BY <3>1 DEF QueuesAccounted
    <3> QED
      BY <3>1, <3>2, <2>1, <1>0 DEF QueuesAccounted
  <2>5. Run = {}
    BY <1>0, <1>1 DEF Running, QueuesAccounted, QueuedStages, RunStages
  <2>6. Places(c) = {<<Home[c], i>>}
    BY <1>0, <2>3, <2>4, <2>5
  <2> QED
    BY <1>0, <1>1, <2>6 DEF QueuedStages
<1>2. CASE pc[c] \notin QueuedStages
  <2>1. Queued = {}
    BY <1>2, OwnersFinite DEF QueuesAccounted, Typed
  <2>2. CASE pc[c] \in RunStages
    <3>1. {t \in Thread : Running(t, c)} = {Home[c]}
      BY <1>0, <2>2 DEF Running, QueuesAccounted
    <3>2. Run = {<<Home[c], 0>>}
      BY <3>1
    <3>3. Places(c) = {<<Home[c], 0>>}
      BY <1>0, <2>1, <3>2
    <3> QED
      BY <1>0, <2>2, <3>3 DEF RunStages
  <2>3. CASE pc[c] \notin RunStages
    <3>1. {t \in Thread : Running(t, c)} = {}
      BY <1>0, <2>3 DEF Running, QueuesAccounted
    <3>2. Places(c) = {}
      BY <1>0, <2>1, <3>1
    <3>3. pc[c] \in {"new", "io", "done"}
      BY <1>2, <2>3 DEF Typed, Stage, QueuedStages, RunStages
    <3> QED
      BY <1>0, <3>2, <3>3
  <2> QED
    BY <2>2, <2>3
<1> QED
  BY <1>1, <1>2

\* A live coroutine is referred to from exactly one place, so it is never
\* resumed twice and never lost while it owns the lock.
THEOREM ResumedOnceHolds == Spec => []ResumedOnce
<1>1. IInv => ResumedOnce
  BY PlacesCounted DEF IInv, LockInv, ResumedOnce
<1> QED
  BY <1>1, Inductive, PTL

-----------------------------------------------------------------------------
\* The mutex implements the abstract reader-writer lock: its initial state has
\* no owner, and every step of it is a step of the lock, or none.
THEOREM Refinement == Spec => ImplementsRWLock
<1>1. Init => Abstract!Init
  BY DEF Init, Abstract!Init, SharedOwners, UniqueOwners, Owning
<1>2. IInv /\ [Next]_vars => [Abstract!Next]_(Abstract!lockVars)
  BY LockStep DEF LockStepOK, Abstract!lockVars
<1> QED
  BY <1>1, <1>2, Inductive, PTL DEF Spec, ImplementsRWLock, Abstract!Spec

=============================================================================
