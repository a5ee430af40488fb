------------------------------- MODULE RWLock -------------------------------
(***************************************************************************)
(* What an asynchronous reader-writer mutex promises to the coroutines     *)
(* that await it: any number of shared guards, or one unique guard.  A     *)
(* guard exists from the instant the lock is taken for its coroutine until *)
(* the guard's destructor has run; how long a coroutine waits, and in      *)
(* which order waiters are served, is left open.                           *)
(***************************************************************************)

CONSTANT Coro       \* the coroutines that use the mutex

VARIABLES
    readers,        \* the coroutines for which a shared lock is held
    writers         \* the coroutines for which the unique lock is held

lockVars == <<readers, writers>>

Init ==
    /\ readers = {}
    /\ writers = {}

TakeShared(c) ==
    /\ writers = {}
    /\ readers' = readers \cup {c}
    /\ UNCHANGED writers

TakeUnique(c) ==
    /\ writers = {}
    /\ readers = {}
    /\ writers' = {c}
    /\ UNCHANGED readers

DropShared(c) ==
    /\ c \in readers
    /\ readers' = readers \ {c}
    /\ UNCHANGED writers

DropUnique(c) ==
    /\ writers = {c}
    /\ writers' = {}
    /\ UNCHANGED readers

Next ==
    \E c \in Coro :
        TakeShared(c) \/ TakeUnique(c) \/ DropShared(c) \/ DropUnique(c)

Spec == Init /\ [][Next]_lockVars

=============================================================================
