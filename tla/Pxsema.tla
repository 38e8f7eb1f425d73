-------------------------------- MODULE Pxsema --------------------------------
(***************************************************************************)
(* The semaphore of pxthread.h where there is no sem_t: a counter, a mutex      *)
(* and a condition that is signalled only when the counter leaves zero.       *)
(* Several threads post and one waits.  A thread that sleeps in              *)
(* pthread_cond_wait() may wake up for no reason, and must have the mutex    *)
(* before it returns.                                                      *)
(***************************************************************************)
EXTENDS Integers

CONSTANTS
  Posters,      \* the threads that post
  SemMax        \* bound: posts that have not been waited for

WAITER == "waiter"
FREE   == "free"

ASSUME PxsemaParams == {WAITER, FREE} \cap Posters = {} /\ SemMax \in Nat \ {0}

VARIABLES
  scount,       \* _count
  mutex,        \* who holds it
  ppc,          \* each poster is "out", has "locked" it, or has "counted"
  spc           \* the waiter is "out", at the "door", "testing", "asleep",
                \* "woken" without the mutex, or has "passed"

semvars == <<scount, mutex, ppc, spc>>

SemInit ==
  /\ scount = 0
  /\ mutex = FREE
  /\ ppc = [p \in Posters |-> "out"]
  /\ spc = "out"

(* post()                                                                  *)
PostLock(p) ==
  /\ ppc[p] = "out"
  /\ scount < SemMax
  /\ mutex = FREE
  /\ mutex' = p
  /\ ppc' = [ppc EXCEPT ![p] = "locked"]
  /\ UNCHANGED <<scount, spc>>

(* Mutant: the signal is for a counter that was one before.                 *)
SignalLate == scount = 1

Signal == scount + 1 = 1

PostCount(p) ==
  /\ ppc[p] = "locked"
  /\ scount' = scount + 1
  /\ spc' = IF Signal /\ spc = "asleep" THEN "woken" ELSE spc
  /\ ppc' = [ppc EXCEPT ![p] = "counted"]
  /\ UNCHANGED mutex

PostUnlock(p) ==
  /\ ppc[p] = "counted"
  /\ mutex' = FREE
  /\ ppc' = [ppc EXCEPT ![p] = "out"]
  /\ UNCHANGED <<scount, spc>>

(* wait()                                                                  *)
WaitEnter ==
  /\ spc = "out"
  /\ spc' = "door"
  /\ UNCHANGED <<scount, mutex, ppc>>

(* At the door, or back from the condition.                                 *)
WaitLock ==
  /\ spc \in {"door", "woken"}
  /\ mutex = FREE
  /\ mutex' = WAITER
  /\ spc' = "testing"
  /\ UNCHANGED <<scount, ppc>>

WaitSleep ==
  /\ spc = "testing"
  /\ scount < 1
  /\ mutex' = FREE
  /\ spc' = "asleep"
  /\ UNCHANGED <<scount, ppc>>

WakeForNothing ==
  /\ spc = "asleep"
  /\ spc' = "woken"
  /\ UNCHANGED <<scount, mutex, ppc>>

(* Mutant: if in place of while, no second look at the counter.              *)
NoSecondLook == TRUE

MayPass == scount >= 1

WaitCount ==
  /\ spc = "testing"
  /\ MayPass
  /\ scount' = scount - 1
  /\ spc' = "passed"
  /\ UNCHANGED <<mutex, ppc>>

WaitUnlock ==
  /\ spc = "passed"
  /\ mutex' = FREE
  /\ spc' = "out"
  /\ UNCHANGED <<scount, ppc>>

PostNext(p) == PostLock(p) \/ PostCount(p) \/ PostUnlock(p)
WaitNext == WaitLock \/ WaitSleep \/ WaitCount \/ WaitUnlock
SemNext == (\E p \in Posters : PostNext(p)) \/ WaitEnter \/ WaitNext \/ WakeForNothing

-----------------------------------------------------------------------------
SemTypeOK ==
  /\ scount \in Nat
  /\ mutex \in Posters \cup {WAITER, FREE}
  /\ ppc \in [Posters -> {"out", "locked", "counted"}]
  /\ spc \in {"out", "door", "testing", "asleep", "woken", "passed"}

(* Who is inside holds the mutex.                                           *)
SemMutex ==
  /\ \A p \in Posters : ppc[p] # "out" <=> mutex = p
  /\ spc \in {"testing", "passed"} <=> mutex = WAITER

(* The waiter never sleeps on a counter that is not zero: the one signal that *)
(* a post from zero sends is enough, though no other post sends any.         *)
NeverAsleepOnCount == spc = "asleep" => scount = 0

(* The emulation is a semaphore: no post is lost and the waiter goes on.      *)
Counter == INSTANCE Semaphore WITH
  value <- scount, waiting <- spc \in {"door", "testing", "asleep", "woken"}

ImplementsSemaphore == Counter!Spec
=============================================================================
