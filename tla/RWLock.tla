------------------------------- MODULE RWLock -------------------------------
(***************************************************************************)
(* foris_controller.utils.RWLock, used through the readlock/writelock      *)
(* decorators and through UciBackend, OpenwrtServices, AsyncCommand, ...   *)
(*                                                                         *)
(* The three locks come from lock_module and are shared by every user of   *)
(* the RWLock.  _counter is a plain attribute: the threads of one process  *)
(* share it, but each forked process has a copy of its own.  Home says in  *)
(* which process a thread runs, so one process is the "threading" backend  *)
(* and several processes are the "multiprocessing" backend.                *)
(***************************************************************************)
EXTENDS Integers, FiniteSets

CONSTANTS
  Thread,     \* the threads that use the lock
  Process,    \* the processes they run in
  Home,       \* the process of each thread
  Free        \* the owner of a lock nobody holds

ASSUME RWLockAssumption ==
  /\ IsFiniteSet(Thread)
  /\ Home \in [Thread -> Process]
  /\ Free \notin Thread

VARIABLES
  writerLock,     \* _writer_lock: its owner, or Free
  newReaders,     \* _new_readers: its owner, or Free
  counterLock,    \* the Lock inside the Condition _counter_lock
  waiters,        \* threads inside _counter_lock.wait() and not yet notified
  counter,        \* _counter as each process sees it
  pc              \* where each thread is inside acquire() or release()

vars == <<writerLock, newReaders, counterLock, waiters, counter, pc>>

Label ==
  {"idle",
   "r_new", "r_cnt", "r_inc", "r_left", "reading", "r_dec",
   "w_lock", "w_new", "w_cnt", "w_test", "w_wait", "writing", "w_rel"}

Goto(t, from, to) ==
  /\ pc[t] = from
  /\ pc' = [pc EXCEPT ![t] = to]

\* A thread that was notified leaves wait(); notify() without a waiter is lost.
notify ==
  \/ waiters = {} /\ UNCHANGED waiters
  \/ \E w \in waiters : waiters' = waiters \ {w}

Init ==
  /\ writerLock = Free
  /\ newReaders = Free
  /\ counterLock = Free
  /\ waiters = {}
  /\ counter = [p \in Process |-> 0]
  /\ pc = [t \in Thread |-> "idle"]

-----------------------------------------------------------------------------
(* Faulty variants of the steps below, the bugs the properties guard.      *)

\* release() that forgets to notify the waiting writer
ReadExitSilent(t) ==
  /\ Goto(t, "r_dec", "idle")
  /\ counter' = [counter EXCEPT ![Home[t]] = @ - 1]
  /\ counterLock' = Free
  /\ UNCHANGED <<writerLock, newReaders, waiters>>

\* acquire() with "if" in place of "while": the count is not tested again
WriteWakeNoRetest(t) ==
  /\ counterLock = Free
  /\ t \notin waiters
  /\ Goto(t, "w_wait", "writing")
  /\ UNCHANGED <<writerLock, newReaders, counterLock, waiters, counter>>

\* a writer that does not keep new readers out
WriteAcquireNewReadersSkipped(t) ==
  /\ Goto(t, "w_new", "w_cnt")
  /\ UNCHANGED <<writerLock, newReaders, counterLock, waiters, counter>>

\* a reader that does not queue behind the writer
ReadAcquireNewReadersSkipped(t) ==
  /\ Goto(t, "r_new", "r_cnt")
  /\ UNCHANGED <<writerLock, newReaders, counterLock, waiters, counter>>

-----------------------------------------------------------------------------
(* ReadLock                                                                *)

ReadRequest(t) ==
  /\ Goto(t, "idle", "r_new")
  /\ UNCHANGED <<writerLock, newReaders, counterLock, waiters, counter>>

ReadAcquireNewReaders(t) ==
  /\ newReaders = Free
  /\ newReaders' = t
  /\ Goto(t, "r_new", "r_cnt")
  /\ UNCHANGED <<writerLock, counterLock, waiters, counter>>

ReadAcquireCounter(t) ==
  /\ counterLock = Free
  /\ counterLock' = t
  /\ Goto(t, "r_cnt", "r_inc")
  /\ UNCHANGED <<writerLock, newReaders, waiters, counter>>

\* "_counter += 1; notify()" and the end of "with _counter_lock"
ReadEnter(t) ==
  /\ Goto(t, "r_inc", "r_left")
  /\ counter' = [counter EXCEPT ![Home[t]] = @ + 1]
  /\ notify
  /\ counterLock' = Free
  /\ UNCHANGED <<writerLock, newReaders>>

\* the end of "with _new_readers": acquire() returns
ReadLeaveNewReaders(t) ==
  /\ Goto(t, "r_left", "reading")
  /\ newReaders' = Free
  /\ UNCHANGED <<writerLock, counterLock, waiters, counter>>

ReadReacquireCounter(t) ==
  /\ counterLock = Free
  /\ counterLock' = t
  /\ Goto(t, "reading", "r_dec")
  /\ UNCHANGED <<writerLock, newReaders, waiters, counter>>

\* "_counter -= 1; notify()" and the end of "with _counter_lock"
ReadExit(t) ==
  /\ Goto(t, "r_dec", "idle")
  /\ counter' = [counter EXCEPT ![Home[t]] = @ - 1]
  /\ notify
  /\ counterLock' = Free
  /\ UNCHANGED <<writerLock, newReaders>>

-----------------------------------------------------------------------------
(* WriteLock                                                               *)

WriteRequest(t) ==
  /\ Goto(t, "idle", "w_lock")
  /\ UNCHANGED <<writerLock, newReaders, counterLock, waiters, counter>>

WriteAcquireWriter(t) ==
  /\ writerLock = Free
  /\ writerLock' = t
  /\ Goto(t, "w_lock", "w_new")
  /\ UNCHANGED <<newReaders, counterLock, waiters, counter>>

WriteAcquireNewReaders(t) ==
  /\ newReaders = Free
  /\ newReaders' = t
  /\ Goto(t, "w_new", "w_cnt")
  /\ UNCHANGED <<writerLock, counterLock, waiters, counter>>

WriteAcquireCounter(t) ==
  /\ counterLock = Free
  /\ counterLock' = t
  /\ Goto(t, "w_cnt", "w_test")
  /\ UNCHANGED <<writerLock, newReaders, waiters, counter>>

\* the test of "while _counter != 0" fails: acquire() returns
WriteEnter(t) ==
  /\ counter[Home[t]] = 0
  /\ Goto(t, "w_test", "writing")
  /\ counterLock' = Free
  /\ UNCHANGED <<writerLock, newReaders, waiters, counter>>

\* the test succeeds: wait() gives the lock up and sleeps
WriteWait(t) ==
  /\ counter[Home[t]] # 0
  /\ Goto(t, "w_test", "w_wait")
  /\ counterLock' = Free
  /\ waiters' = waiters \cup {t}
  /\ UNCHANGED <<writerLock, newReaders, counter>>

\* a notified thread takes the lock back and wait() returns to the test
WriteWake(t) ==
  /\ t \notin waiters
  /\ counterLock = Free
  /\ counterLock' = t
  /\ Goto(t, "w_wait", "w_test")
  /\ UNCHANGED <<writerLock, newReaders, waiters, counter>>

WriteReleaseNewReaders(t) ==
  /\ Goto(t, "writing", "w_rel")
  /\ newReaders' = Free
  /\ UNCHANGED <<writerLock, counterLock, waiters, counter>>

WriteReleaseWriter(t) ==
  /\ Goto(t, "w_rel", "idle")
  /\ writerLock' = Free
  /\ UNCHANGED <<newReaders, counterLock, waiters, counter>>

-----------------------------------------------------------------------------
\* Steps in which a thread waits for a lock that others compete for
Acquire(t) ==
  \/ ReadAcquireNewReaders(t)
  \/ ReadAcquireCounter(t)
  \/ ReadReacquireCounter(t)
  \/ WriteAcquireWriter(t)
  \/ WriteAcquireNewReaders(t)
  \/ WriteAcquireCounter(t)
  \/ WriteWake(t)

\* Steps a running thread takes without waiting for anyone
Proceed(t) ==
  \/ ReadEnter(t)
  \/ ReadLeaveNewReaders(t)
  \/ ReadExit(t)
  \/ WriteEnter(t)
  \/ WriteWait(t)
  \/ WriteReleaseNewReaders(t)
  \/ WriteReleaseWriter(t)

Request(t) == ReadRequest(t) \/ WriteRequest(t)

Next == \E t \in Thread : Request(t) \/ Acquire(t) \/ Proceed(t)

Spec == Init /\ [][Next]_vars

\* The scheduler runs every thread, whoever got the lock gives it back, and the
\* operating system's semaphores do not starve a waiting thread.
Fairness ==
  \A t \in Thread : SF_vars(Acquire(t)) /\ WF_vars(Proceed(t))

FairSpec == Spec /\ Fairness

-----------------------------------------------------------------------------
(* Properties                                                              *)

\* Threads whose increment of _counter is not taken back yet
Counted(t) == pc[t] \in {"r_left", "reading", "r_dec"}

\* Types of the variables of an RWLock and of its users: among others, the
\* count of readers is never negative.
TypeOK ==
  /\ writerLock \in Thread \cup {Free}
  /\ newReaders \in Thread \cup {Free}
  /\ counterLock \in Thread \cup {Free}
  /\ waiters \in SUBSET Thread
  /\ counter \in [Process -> Nat]
  /\ pc \in [Thread -> Label]

\* While WriteLock.acquire() has returned and release() is not called, no other
\* thread of any process writes and no thread of the same process reads.
MutualExclusion ==
  \A w, t \in Thread :
    w # t /\ pc[w] = "writing" =>
      /\ pc[t] # "writing"
      /\ Home[t] = Home[w] => ~Counted(t)

\* notify() wakes a single waiter, and that is enough: whoever sleeps in wait()
\* still has a reader to wait for, so its wake-up is yet to come.
NoLostWakeup ==
  \A t \in waiters : counter[Home[t]] # 0

\* Every acquire() of either side returns.
EveryRequestServed ==
  \A t \in Thread :
    /\ pc[t] = "r_new" ~> pc[t] = "reading"
    /\ pc[t] = "w_lock" ~> pc[t] = "writing"

-----------------------------------------------------------------------------
(* The inductive invariant behind MutualExclusion and NoLostWakeup         *)

HoldsWriter(t) ==
  pc[t] \in {"w_new", "w_cnt", "w_test", "w_wait", "writing", "w_rel"}

HoldsNewReaders(t) ==
  pc[t] \in {"r_cnt", "r_inc", "r_left", "w_cnt", "w_test", "w_wait", "writing"}

HoldsCounterLock(t) == pc[t] \in {"r_inc", "r_dec", "w_test"}

\* The readers of process p that its copy of _counter stands for
ReadersOf(p) == {t \in Thread : Home[t] = p /\ Counted(t)}

\* Each lock is owned by exactly the thread whose code is between its acquire
\* and its release.
LocksOwned ==
  \A t \in Thread :
    /\ writerLock = t <=> HoldsWriter(t)
    /\ newReaders = t <=> HoldsNewReaders(t)
    /\ counterLock = t <=> HoldsCounterLock(t)

\* _counter is the number of readers of the process that reads it, whatever
\* the interleaving of increments, decrements, waits and wake-ups.
CounterExact ==
  \A p \in Process : counter[p] = Cardinality(ReadersOf(p))

\* Only a thread inside wait() sleeps, and there is at most one.
OneWaiter ==
  /\ \A t \in waiters : pc[t] = "w_wait"
  /\ \A t, u \in waiters : t = u

\* A writer that passed the test keeps seeing no reader of its process.
WriterSeesZero ==
  \A t \in Thread : pc[t] = "writing" => counter[Home[t]] = 0

IInv ==
  /\ TypeOK
  /\ LocksOwned
  /\ CounterExact
  /\ OneWaiter
  /\ WriterSeesZero
  /\ NoLostWakeup

-----------------------------------------------------------------------------
(* The detailed lock implements ReadersWriters: a reader is in once its    *)
(* increment is visible, a writer from the last test of the counter until  *)
(* it opens _new_readers.                                                  *)

Mode(t) ==
  IF Counted(t) THEN "read" ELSE IF pc[t] = "writing" THEN "write" ELSE "out"

RW == INSTANCE ReadersWriters WITH mode <- [t \in Thread |-> Mode(t)]

\* An RWLock used by the threads of one process is a readers-writer lock.
RefinesReadersWriters == RW!Spec
=============================================================================
