------------------------------- MODULE McSync -------------------------------
(***************************************************************************)
(* The lock of the shared allocators (mcsync_t).  mcsync_lock takes the    *)
(* spinlock; where the compiler has no atomic builtins the spinlock is a   *)
(* mutex.  Lock, attempt and unlock are the steps a thread makes.          *)
(***************************************************************************)
EXTENDS Integers, FiniteSets

CONSTANTS
    Threads,
    Spinlock     \* MyCORE_MCSYNC_SPINLOCK_PRESENT

ASSUME SpinlockAssumption == Spinlock \in BOOLEAN
ASSUME ThreadsAssumption == IsFiniteSet(Threads)

VARIABLES
    spinlock,    \* the lock word: 0 free, 1 taken
    compare,     \* the local variable of each thread inside mcsync_lock
    sync         \* where each thread is: "out", "try" or "in"

syncVars == <<spinlock, compare, sync>>

SyncInit ==
    /\ spinlock = 0
    /\ compare = [t \in Threads |-> 0]
    /\ sync = [t \in Threads |-> "out"]

LockCall(t) ==
    /\ sync[t] = "out"
    /\ compare' = [compare EXCEPT ![t] = 0]
    /\ sync' = [sync EXCEPT ![t] = "try"]
    /\ UNCHANGED spinlock

\* One attempt.  __atomic_compare_exchange_n stores the value it saw in
\* compare when the exchange fails, and the loop does not set it to 0 again.
\* A mutex makes the thread wait.
LockTry(t) ==
    /\ sync[t] = "try"
    /\ \/ /\ spinlock = IF Spinlock THEN compare[t] ELSE 0
          /\ spinlock' = 1
          /\ sync' = [sync EXCEPT ![t] = "in"]
          /\ UNCHANGED compare
       \/ /\ Spinlock /\ spinlock # compare[t]
          /\ compare' = [compare EXCEPT ![t] = spinlock]
          /\ UNCHANGED <<spinlock, sync>>

Unlock(t) ==
    /\ sync[t] = "in"
    /\ spinlock' = 0
    /\ sync' = [sync EXCEPT ![t] = "out"]
    /\ UNCHANGED compare

SyncNext == \E t \in Threads : LockCall(t) \/ LockTry(t) \/ Unlock(t)

SyncSpec == SyncInit /\ [][SyncNext]_syncVars

-----------------------------------------------------------------------------
\* Two threads never are inside the lock at once.
MutualExclusion ==
    \A t, u \in Threads : sync[t] = "in" /\ sync[u] = "in" => t = u

\* The lock word and the thread that is inside agree.
LockWordInv ==
    /\ spinlock \in {0, 1}
    /\ sync \in [Threads -> {"out", "try", "in"}]
    /\ compare \in [Threads -> {0, 1}]
    /\ \A t \in Threads : sync[t] = "in" => spinlock = 1
=============================================================================
