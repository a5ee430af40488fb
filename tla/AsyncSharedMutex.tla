-------------------------- MODULE AsyncSharedMutex --------------------------
(***************************************************************************)
(* common::AsyncSharedMutex (common/utils/asyncSharedMutex.h) as the       *)
(* server's request coroutines use it on Drogon's IO loops.                *)
(*                                                                         *)
(* A request is one coroutine.  It starts on the loop of its connection,   *)
(* awaits the mutex once, in one mode, may suspend for database operations *)
(* while it owns the guard (server/utils/switch_to_io_loop.h), and drops   *)
(* the guard when it ends.  Each loop runs one task at a time to its next  *)
(* suspension and takes its tasks in the order they were queued; the       *)
(* threads interleave between any two atomic operations on state_.         *)
(***************************************************************************)
EXTENDS Integers, Sequences, FiniteSets

CONSTANTS
    Coro,           \* request coroutines
    Thread,         \* IO loop threads
    Home,           \* Home[c]: the loop of the connection c was received on
    Mode,           \* Mode[c]: "shared" (lock_shared) or "unique" (lock_unique)
    Nobody          \* the running coroutine of an idle loop

ASSUME CoroAssumption ==
    /\ IsFiniteSet(Coro)
    /\ Home \in [Coro -> Thread]
    /\ Mode \in [Coro -> {"shared", "unique"}]
    /\ Nobody \notin Coro

VARIABLES
    state,          \* state_: 0 free, -1 unique, n > 0 shared guards
    pc,             \* where each coroutine is
    current,        \* the local `current` of a shared try_lock
    queue,          \* queue[t]: the coroutines with a task queued in loop t
    running,        \* running[t]: the coroutine loop t is executing
    origin          \* original_thread_index_ of a suspended database operation

vars == <<state, pc, current, queue, running, origin>>

(***************************************************************************)
(* Stages of a coroutine: "new" not received yet; "arrived" its first task *)
(* queued; "await" in await_ready; "spin" in spin_lock; "awaitCas" and     *)
(* "spinCas" between the load and the compare-exchange of a shared         *)
(* try_lock; "parked" suspended with spin_lock queued; "granted" suspended *)
(* with its resumption queued and the lock already taken; "held" executing *)
(* under the guard; "io" suspended in a database operation; "ioDone" with  *)
(* the resumption from it queued; "done" ended.                            *)
(***************************************************************************)
Stage == {"new", "arrived", "await", "awaitCas", "parked", "spin", "spinCas",
          "granted", "held", "io", "ioDone", "done"}

Owning == {"granted", "held", "io", "ioDone"}

SharedOwners == {c \in Coro : Mode[c] = "shared" /\ pc[c] \in Owning}
UniqueOwners == {c \in Coro : Mode[c] = "unique" /\ pc[c] \in Owning}

Running(t, c) == running[t] = c

\* queueInLoop on loop t, then return to it: the coroutine's task ends.
Queue(t, c) == queue' = [queue EXCEPT ![t] = Append(@, c)]
EndTask(t)  == running' = [running EXCEPT ![t] = Nobody]
Goto(c, stage) == pc' = [pc EXCEPT ![c] = stage]

-----------------------------------------------------------------------------
\* A message arrives on c's connection: its coroutine starts on that loop.
Arrive(c) ==
    /\ pc[c] = "new"
    /\ Goto(c, "arrived")
    /\ Queue(Home[c], c)
    /\ UNCHANGED <<state, current, running, origin>>

\* Where a queued task enters the coroutine, by what was queued.
Entry(stage) ==
    CASE stage = "arrived" -> "await"
      [] stage = "parked"  -> "spin"
      [] OTHER             -> "held"

\* An idle loop takes its oldest task.
RunTask(t) ==
    /\ running[t] = Nobody
    /\ queue[t] # <<>>
    /\ LET c == Head(queue[t])
       IN  /\ running' = [running EXCEPT ![t] = c]
           /\ Goto(c, Entry(pc[c]))
    /\ queue' = [queue EXCEPT ![t] = Tail(@)]
    /\ UNCHANGED <<state, current, origin>>

\* (mutation: an attempt that succeeds also queues itself again)
GrantAndRetry(t, c) ==
    IF pc[c] \in {"await", "awaitCas"}
    THEN Goto(c, "held") /\ UNCHANGED <<queue, running>>
    ELSE /\ Goto(c, "granted")
         /\ queue' = [queue EXCEPT ![t] = @ \o <<c, c>>]
         /\ EndTask(t)

\* try_lock failed: await_suspend queues spin_lock, spin_lock queues itself again.
Park(t, c) ==
    /\ Goto(c, "parked")
    /\ Queue(t, c)
    /\ EndTask(t)

\* try_lock succeeded: await_ready goes on into the guarded code at once,
\* spin_lock queues the resumption.
Grant(t, c) ==
    IF pc[c] \in {"await", "awaitCas"}
    THEN Goto(c, "held") /\ UNCHANGED <<queue, running>>
    ELSE Goto(c, "granted") /\ Queue(t, c) /\ EndTask(t)

\* Shared try_lock, first half: state_.load and the test for a writer.
LoadShared(t, c) ==
    /\ Running(t, c)
    /\ Mode[c] = "shared"
    /\ pc[c] \in {"await", "spin"}
    /\ IF state >= 0
       THEN /\ current' = [current EXCEPT ![c] = state]
            /\ Goto(c, IF pc[c] = "await" THEN "awaitCas" ELSE "spinCas")
            /\ UNCHANGED <<queue, running>>
       ELSE Park(t, c) /\ UNCHANGED current
    /\ UNCHANGED <<state, origin>>

\* (mutation: the second half stores without comparing)
CasSharedBlindly(t, c) ==
    /\ Running(t, c)
    /\ pc[c] \in {"awaitCas", "spinCas"}
    /\ state' = current[c] + 1
    /\ Grant(t, c)
    /\ UNCHANGED <<current, origin>>

\* Shared try_lock, second half: compare_exchange_strong(current, current + 1).
CasShared(t, c) ==
    /\ Running(t, c)
    /\ pc[c] \in {"awaitCas", "spinCas"}
    /\ IF state = current[c]
       THEN state' = current[c] + 1 /\ Grant(t, c)
       ELSE Park(t, c) /\ UNCHANGED state
    /\ UNCHANGED <<current, origin>>

\* Unique try_lock: one compare_exchange_strong(0, -1).
CasUnique(t, c) ==
    /\ Running(t, c)
    /\ Mode[c] = "unique"
    /\ pc[c] \in {"await", "spin"}
    /\ IF state = 0
       THEN state' = -1 /\ Grant(t, c)
       ELSE Park(t, c) /\ UNCHANGED state
    /\ UNCHANGED <<current, origin>>

\* co_await switch_to_io_loop(...) under the guard: the loop is free again.
Suspend(t, c) ==
    /\ Running(t, c)
    /\ pc[c] = "held"
    /\ Goto(c, "io")
    /\ origin' = [origin EXCEPT ![c] = t]
    /\ EndTask(t)
    /\ UNCHANGED <<state, current, queue>>

\* (mutation: without switch_to_io_loop the resumption lands on any loop)
CompleteAnywhere(c) ==
    /\ pc[c] = "io"
    /\ Goto(c, "ioDone")
    /\ \E t \in Thread : Queue(t, c)
    /\ UNCHANGED <<state, current, running, origin>>

\* The database thread has the result and queues the resumption.
Complete(c) ==
    /\ pc[c] = "io"
    /\ Goto(c, "ioDone")
    /\ Queue(origin[c], c)
    /\ UNCHANGED <<state, current, running, origin>>

\* (mutation: one destructor for both guards, which stores 0)
ReleaseAll(t, c) ==
    /\ Running(t, c)
    /\ pc[c] = "held"
    /\ state' = 0
    /\ Goto(c, "done")
    /\ EndTask(t)
    /\ UNCHANGED <<current, queue, origin>>

\* (mutation: one destructor for both guards, which subtracts 1)
ReleaseOne(t, c) ==
    /\ Running(t, c)
    /\ pc[c] = "held"
    /\ state' = state - 1
    /\ Goto(c, "done")
    /\ EndTask(t)
    /\ UNCHANGED <<current, queue, origin>>

\* (mutation: the destructor of a unique guard does nothing)
ReleaseSharedOnly(t, c) ==
    /\ Running(t, c)
    /\ pc[c] = "held"
    /\ state' = IF Mode[c] = "shared" THEN state - 1 ELSE state
    /\ Goto(c, "done")
    /\ EndTask(t)
    /\ UNCHANGED <<current, queue, origin>>

\* ~SharedLockGuard (fetch_sub) or ~UniqueLockGuard (store 0): the handler ends.
Release(t, c) ==
    /\ Running(t, c)
    /\ pc[c] = "held"
    /\ state' = IF Mode[c] = "shared" THEN state - 1 ELSE 0
    /\ Goto(c, "done")
    /\ EndTask(t)
    /\ UNCHANGED <<current, queue, origin>>

-----------------------------------------------------------------------------
Init ==
    /\ state = 0
    /\ pc = [c \in Coro |-> "new"]
    /\ current = [c \in Coro |-> 0]
    /\ queue = [t \in Thread |-> <<>>]
    /\ running = [t \in Thread |-> Nobody]
    /\ origin = Home

Step(t, c) ==
    \/ LoadShared(t, c)
    \/ CasShared(t, c)
    \/ CasUnique(t, c)
    \/ Suspend(t, c)
    \/ Release(t, c)

Next ==
    \/ \E c \in Coro : Arrive(c) \/ Complete(c)
    \/ \E t \in Thread : RunTask(t) \/ \E c \in Coro : Step(t, c)

Spec == Init /\ [][Next]_vars

(***************************************************************************)
(* A loop that has a task runs it, a coroutine on a thread goes on, the    *)
(* database answers, and a handler does not issue database operations for  *)
(* ever: it reaches its end.  Messages need not arrive.                    *)
(***************************************************************************)
Fairness ==
    /\ \A t \in Thread :
          /\ WF_vars(RunTask(t))
          /\ \A c \in Coro :
                /\ WF_vars(LoadShared(t, c))
                /\ WF_vars(CasShared(t, c))
                /\ WF_vars(CasUnique(t, c))
                /\ SF_vars(Release(t, c))
    /\ \A c \in Coro : WF_vars(Complete(c))

FairSpec == Spec /\ Fairness

-----------------------------------------------------------------------------
TypeOK ==
    /\ state \in -1 .. Cardinality(Coro)
    /\ pc \in [Coro -> Stage]
    /\ current \in [Coro -> Int]
    /\ queue \in [Thread -> Seq(Coro)]
    /\ running \in [Thread -> Coro \cup {Nobody}]
    /\ origin \in [Coro -> Thread]

(***************************************************************************)
(* state_ always says exactly who owns a guard, counting the coroutines    *)
(* for which the lock was taken but whose resumption is still queued.  The *)
(* hazard is the window between the load and the compare-exchange of a     *)
(* shared try_lock, in which a writer may come and go.                     *)
(***************************************************************************)
StateCountsOwners ==
    \/ /\ state = -1
       /\ SharedOwners = {}
       /\ \E c \in Coro : UniqueOwners = {c}
    \/ /\ state = Cardinality(SharedOwners)
       /\ UniqueOwners = {}

(***************************************************************************)
(* A coroutine that executes under a unique guard is alone: no other       *)
(* coroutine owns a guard, on its loop or another, suspended or not.       *)
(***************************************************************************)
Exclusion ==
    \A c, d \in Coro :
        (c # d /\ c \in UniqueOwners) => d \notin SharedOwners \cup UniqueOwners

(***************************************************************************)
(* "a coroutine always resumes on the same IO event loop thread it was     *)
(* suspended on" (asyncSharedMutex.h:31), the condition whose failure      *)
(* WsRequestProcessor reports as "thread idx mismatch!".                   *)
(***************************************************************************)
ThreadAffinity == \A t \in Thread, c \in Coro : Running(t, c) => t = Home[c]

\* How many times a coroutine is referred to by a loop or a pending operation.
Places(c) ==
    {p \in Thread \X (1 .. Cardinality(Coro)) :
        p[2] <= Len(queue[p[1]]) /\ queue[p[1]][p[2]] = c}
    \cup ({t \in Thread : Running(t, c)} \X {0})

(***************************************************************************)
(* A live coroutine is referred to from exactly one place, so it is        *)
(* neither resumed twice (undefined behaviour) nor forgotten while it owns *)
(* the lock.                                                               *)
(***************************************************************************)
ResumedOnce ==
    \A c \in Coro :
        Cardinality(Places(c)) = IF pc[c] \in {"new", "io", "done"} THEN 0 ELSE 1

\* The mutex implements the abstract reader-writer lock.
Abstract == INSTANCE RWLock WITH readers <- SharedOwners, writers <- UniqueOwners

ImplementsRWLock == Abstract!Spec

(***************************************************************************)
(* Every request of a finite burst is served: spinning on a loop never     *)
(* keeps the owner of the lock from being resumed and from releasing it.   *)
(***************************************************************************)
BurstDrains == \A c \in Coro : pc[c] = "arrived" ~> pc[c] = "done"

=============================================================================
