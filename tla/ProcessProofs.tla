--------------------------- MODULE ProcessProofs ---------------------------
(***************************************************************************)
(* Proofs about the threads and processes of the controller, in three      *)
(* parts that do not depend on each other:                                 *)
(*   RWLock        for every finite set of threads and every distribution  *)
(*                 of them over processes;                                 *)
(*   AsyncCommand  for any number of tests, lines, clients and failing     *)
(*                 workers, what clients are told about a test;            *)
(*   Controller    what the network knows of the service, whenever the     *)
(*                 controller ends and whatever its watcher does then.     *)
(***************************************************************************)
EXTENDS RWLock, AsyncCommand, Controller, FiniteSetTheorems, SequenceTheorems, TLAPS

-----------------------------------------------------------------------------
(* RWLock                                                                  *)

(* Every set of readers is finite, so its Cardinality is a number.         *)
LEMMA ReadersFinite ==
  ASSUME NEW p \in Process
  PROVE  /\ IsFiniteSet(ReadersOf(p))
         /\ Cardinality(ReadersOf(p)) \in Nat
<1>1. ReadersOf(p) \subseteq Thread  BY DEF ReadersOf
<1>2. IsFiniteSet(ReadersOf(p))
  BY <1>1, FS_Subset, RWLockAssumption DEF RWLockAssumption
<1> QED  BY <1>2, FS_CardinalityType

(* The lock is initially in a state that satisfies the invariant.          *)
LEMMA InitIInv == Init => IInv
<1> SUFFICES ASSUME Init PROVE IInv  OBVIOUS
<1>1. TypeOK  BY DEF Init, TypeOK, Label
<1>2. LocksOwned
  BY RWLockAssumption
  DEF Init, LocksOwned, HoldsWriter, HoldsNewReaders, HoldsCounterLock, RWLockAssumption
<1>3. CounterExact
  <2> SUFFICES ASSUME NEW p \in Process PROVE counter[p] = Cardinality(ReadersOf(p))
    BY DEF CounterExact
  <2>1. ReadersOf(p) = {}  BY DEF Init, ReadersOf, Counted
  <2> QED  BY <2>1, FS_EmptySet DEF Init
<1>4. OneWaiter /\ WriterSeesZero /\ NoLostWakeup
  BY DEF Init, OneWaiter, WriterSeesZero, NoLostWakeup
<1> QED  BY <1>1, <1>2, <1>3, <1>4 DEF IInv

(* Types survive every step; a leaving reader is counted, so the count it  *)
(* decrements is not zero.                                                 *)
LEMMA StepTypeOK == TypeOK /\ CounterExact /\ [Next]_vars => TypeOK'
<1> SUFFICES ASSUME TypeOK, CounterExact, [Next]_vars PROVE TypeOK'  OBVIOUS
<1> USE RWLockAssumption DEF RWLockAssumption, TypeOK, Label, Goto, notify
<1>1. CASE UNCHANGED vars  BY <1>1 DEF vars
<1>2. ASSUME NEW t \in Thread, Request(t) PROVE TypeOK'
  BY <1>2 DEF Request, ReadRequest, WriteRequest
<1>3. ASSUME NEW t \in Thread, Acquire(t) PROVE TypeOK'
  BY <1>3 DEF Acquire, ReadAcquireNewReaders, ReadAcquireCounter, ReadReacquireCounter,
     WriteAcquireWriter, WriteAcquireNewReaders, WriteAcquireCounter, WriteWake
<1>4. ASSUME NEW t \in Thread, Proceed(t) PROVE TypeOK'
  <2>0. CASE ReadExit(t)
    <3>1. t \in ReadersOf(Home[t])  BY <2>0 DEF ReadExit, ReadersOf, Counted
    <3>2. counter[Home[t]] # 0
      BY <3>1, ReadersFinite, FS_EmptySet DEF CounterExact
    <3>3. counter' \in [Process -> Nat]  BY <2>0, <3>2 DEF ReadExit
    <3> QED  BY <2>0, <3>3 DEF ReadExit
  <2>1. CASE ReadEnter(t)  BY <2>1 DEF ReadEnter
  <2>2. CASE WriteEnter(t) \/ WriteWait(t)  BY <2>2 DEF WriteEnter, WriteWait
  <2>3. CASE ReadLeaveNewReaders(t) \/ WriteReleaseNewReaders(t) \/ WriteReleaseWriter(t)
    BY <2>3 DEF ReadLeaveNewReaders, WriteReleaseNewReaders, WriteReleaseWriter
  <2> QED  BY <1>4, <2>0, <2>1, <2>2, <2>3 DEF Proceed
<1> QED  BY <1>1, <1>2, <1>3, <1>4 DEF Next

(* Ownership of the three locks survives every step.                       *)
LEMMA StepLocksOwned == TypeOK /\ LocksOwned /\ [Next]_vars => LocksOwned'
<1> SUFFICES ASSUME TypeOK, LocksOwned, [Next]_vars PROVE LocksOwned'  OBVIOUS
<1> USE RWLockAssumption
    DEF RWLockAssumption, TypeOK, Goto, LocksOwned, HoldsWriter, HoldsNewReaders,
        HoldsCounterLock
<1>1. CASE UNCHANGED vars  BY <1>1 DEF vars
<1>2. ASSUME NEW t \in Thread, Request(t) PROVE LocksOwned'
  BY <1>2 DEF Request, ReadRequest, WriteRequest
<1>3. ASSUME NEW t \in Thread, Acquire(t) PROVE LocksOwned'
  <2>1. CASE ReadAcquireNewReaders(t)  BY <2>1 DEF ReadAcquireNewReaders
  <2>2. CASE ReadAcquireCounter(t)  BY <2>2 DEF ReadAcquireCounter
  <2>3. CASE ReadReacquireCounter(t)  BY <2>3 DEF ReadReacquireCounter
  <2>4. CASE WriteAcquireWriter(t)  BY <2>4 DEF WriteAcquireWriter
  <2>5. CASE WriteAcquireNewReaders(t)  BY <2>5 DEF WriteAcquireNewReaders
  <2>6. CASE WriteAcquireCounter(t)  BY <2>6 DEF WriteAcquireCounter
  <2>7. CASE WriteWake(t)  BY <2>7 DEF WriteWake
  <2> QED  BY <1>3, <2>1, <2>2, <2>3, <2>4, <2>5, <2>6, <2>7 DEF Acquire
<1>4. ASSUME NEW t \in Thread, Proceed(t) PROVE LocksOwned'
  <2>1. CASE ReadEnter(t)  BY <2>1 DEF ReadEnter
  <2>2. CASE ReadLeaveNewReaders(t)  BY <2>2 DEF ReadLeaveNewReaders
  <2>3. CASE ReadExit(t)  BY <2>3 DEF ReadExit
  <2>4. CASE WriteEnter(t)  BY <2>4 DEF WriteEnter
  <2>5. CASE WriteWait(t)  BY <2>5 DEF WriteWait
  <2>6. CASE WriteReleaseNewReaders(t)  BY <2>6 DEF WriteReleaseNewReaders
  <2>7. CASE WriteReleaseWriter(t)  BY <2>7 DEF WriteReleaseWriter
  <2> QED  BY <1>4, <2>1, <2>2, <2>3, <2>4, <2>5, <2>6, <2>7 DEF Proceed
<1> QED  BY <1>1, <1>2, <1>3, <1>4 DEF Next

(* An increment adds exactly the entering reader to the readers of its     *)
(* process and a decrement removes exactly the leaving one; no other step  *)
(* changes who is counted.                                                 *)
LEMMA StepCounterExact ==
  TypeOK /\ CounterExact /\ [Next]_vars => CounterExact'
<1> SUFFICES ASSUME TypeOK, CounterExact, [Next]_vars, NEW p \in Process
             PROVE  (counter[p] = Cardinality(ReadersOf(p)))'
  BY DEF CounterExact
<1> USE RWLockAssumption DEF RWLockAssumption, TypeOK, Goto
<1>0. counter[p] = Cardinality(ReadersOf(p))  BY DEF CounterExact
<1>1. ASSUME NEW t \in Thread, ReadEnter(t)
      PROVE  (counter[p] = Cardinality(ReadersOf(p)))'
  <2>1. CASE Home[t] = p
    <3>1. t \notin ReadersOf(p)  BY <1>1 DEF ReadEnter, ReadersOf, Counted
    <3>2. ReadersOf(p)' = ReadersOf(p) \cup {t}
      BY <1>1, <2>1 DEF ReadEnter, ReadersOf, Counted
    <3>3. Cardinality(ReadersOf(p)') = Cardinality(ReadersOf(p)) + 1
      BY <3>1, <3>2, ReadersFinite, FS_AddElement
    <3> QED  BY <1>0, <1>1, <2>1, <3>3 DEF ReadEnter
  <2>2. CASE Home[t] # p
    <3>1. ReadersOf(p)' = ReadersOf(p)
      BY <1>1, <2>2 DEF ReadEnter, ReadersOf, Counted
    <3> QED  BY <1>0, <1>1, <2>2, <3>1 DEF ReadEnter
  <2> QED  BY <2>1, <2>2
<1>2. ASSUME NEW t \in Thread, ReadExit(t)
      PROVE  (counter[p] = Cardinality(ReadersOf(p)))'
  <2>1. CASE Home[t] = p
    <3>1. t \in ReadersOf(p)  BY <1>2, <2>1 DEF ReadExit, ReadersOf, Counted
    <3>2. ReadersOf(p)' = ReadersOf(p) \ {t}
      BY <1>2, <2>1 DEF ReadExit, ReadersOf, Counted
    <3>3. Cardinality(ReadersOf(p)') = Cardinality(ReadersOf(p)) - 1
      BY <3>1, <3>2, ReadersFinite, FS_RemoveElement
    <3> QED  BY <1>0, <1>2, <2>1, <3>3 DEF ReadExit
  <2>2. CASE Home[t] # p
    <3>1. ReadersOf(p)' = ReadersOf(p)
      BY <1>2, <2>2 DEF ReadExit, ReadersOf, Counted
    <3> QED  BY <1>0, <1>2, <2>2, <3>1 DEF ReadExit
  <2> QED  BY <2>1, <2>2
<1>3. CASE /\ UNCHANGED counter
           /\ \A t \in Thread : Counted(t)' = Counted(t)
  <2>1. ReadersOf(p)' = ReadersOf(p)  BY <1>3 DEF ReadersOf
  <2> QED  BY <1>0, <1>3, <2>1
<1>4. ASSUME NEW t \in Thread, Request(t) \/ Acquire(t) \/ Proceed(t),
             ~ReadEnter(t), ~ReadExit(t)
      PROVE  UNCHANGED counter /\ \A u \in Thread : Counted(u)' = Counted(u)
  <2>1. CASE Request(t)
    BY <2>1 DEF Counted, Request, ReadRequest, WriteRequest
  <2>2. CASE Acquire(t)
    BY <2>2 DEF Counted, Acquire, ReadAcquireNewReaders, ReadAcquireCounter,
       ReadReacquireCounter, WriteAcquireWriter, WriteAcquireNewReaders,
       WriteAcquireCounter, WriteWake
  <2>3. CASE Proceed(t)
    BY <1>4, <2>3 DEF Counted, Proceed, ReadLeaveNewReaders, WriteEnter, WriteWait,
       WriteReleaseNewReaders, WriteReleaseWriter
  <2> QED  BY <1>4, <2>1, <2>2, <2>3
<1>5. CASE UNCHANGED vars
  BY <1>3, <1>5 DEF vars, Counted
<1> QED  BY <1>1, <1>2, <1>3, <1>4, <1>5 DEF Next

(* Only the owner of _counter_lock touches the wait set, and it got there  *)
(* through _writer_lock, so there is one sleeper at most; each change of   *)
(* _counter empties the wait set and only a nonzero count fills it.        *)
LEMMA StepWaiters ==
  IInv /\ [Next]_vars => OneWaiter' /\ NoLostWakeup'
<1> SUFFICES ASSUME IInv, [Next]_vars PROVE OneWaiter' /\ NoLostWakeup'  OBVIOUS
<1> USE RWLockAssumption DEF RWLockAssumption, IInv, TypeOK, Goto, OneWaiter, NoLostWakeup
<1>1. CASE UNCHANGED vars  BY <1>1 DEF vars
<1>2. ASSUME NEW t \in Thread, Request(t) PROVE OneWaiter' /\ NoLostWakeup'
  BY <1>2 DEF Request, ReadRequest, WriteRequest
<1>3. ASSUME NEW t \in Thread, Acquire(t) PROVE OneWaiter' /\ NoLostWakeup'
  BY <1>3 DEF Acquire, ReadAcquireNewReaders, ReadAcquireCounter, ReadReacquireCounter,
     WriteAcquireWriter, WriteAcquireNewReaders, WriteAcquireCounter, WriteWake
<1>4. ASSUME NEW t \in Thread, ReadEnter(t) \/ ReadExit(t)
      PROVE OneWaiter' /\ NoLostWakeup'
  <2>1. waiters' = {}  BY <1>4 DEF ReadEnter, ReadExit, notify
  <2> QED  BY <2>1
<1>5. ASSUME NEW t \in Thread, WriteWait(t) PROVE OneWaiter' /\ NoLostWakeup'
  <2>1. waiters = {}
    BY <1>5 DEF WriteWait, LocksOwned, HoldsWriter
  <2> QED  BY <1>5, <2>1 DEF WriteWait
<1>6. ASSUME NEW t \in Thread,
             \/ ReadLeaveNewReaders(t) \/ WriteEnter(t)
             \/ WriteReleaseNewReaders(t) \/ WriteReleaseWriter(t)
      PROVE OneWaiter' /\ NoLostWakeup'
  BY <1>6 DEF ReadLeaveNewReaders, WriteEnter, WriteReleaseNewReaders, WriteReleaseWriter
<1> QED  BY <1>1, <1>2, <1>3, <1>4, <1>5, <1>6 DEF Next, Proceed

(* A reader of the writer's process would have to own _new_readers, which  *)
(* the writer owns, to be counted, or to be counted already to leave.      *)
LEMMA StepWriterSeesZero == IInv /\ [Next]_vars => WriterSeesZero'
<1> SUFFICES ASSUME IInv, [Next]_vars, NEW w \in Thread, (pc[w] = "writing")'
             PROVE  (counter[Home[w]] = 0)'
  BY DEF WriterSeesZero
<1> USE RWLockAssumption DEF RWLockAssumption, IInv, TypeOK, Goto
<1>1. CASE UNCHANGED vars  BY <1>1 DEF vars, WriterSeesZero
<1>2. ASSUME NEW t \in Thread, Request(t) PROVE (counter[Home[w]] = 0)'
  BY <1>2 DEF Request, ReadRequest, WriteRequest, WriterSeesZero
<1>3. ASSUME NEW t \in Thread, Acquire(t) PROVE (counter[Home[w]] = 0)'
  BY <1>3 DEF Acquire, ReadAcquireNewReaders, ReadAcquireCounter, ReadReacquireCounter,
     WriteAcquireWriter, WriteAcquireNewReaders, WriteAcquireCounter, WriteWake,
     WriterSeesZero
<1>4. ASSUME NEW t \in Thread, ReadEnter(t) PROVE (counter[Home[w]] = 0)'
  <2>1. pc[w] = "writing"  BY <1>4 DEF ReadEnter
  <2> QED  BY <1>4, <2>1 DEF ReadEnter, LocksOwned, HoldsNewReaders
<1>5. ASSUME NEW t \in Thread, ReadExit(t) PROVE (counter[Home[w]] = 0)'
  <2>1. pc[w] = "writing" /\ pc[t] = "r_dec"  BY <1>5 DEF ReadExit
  <2>2. counter[Home[w]] = 0 /\ Cardinality(ReadersOf(Home[w])) = 0
    BY <2>1 DEF WriterSeesZero, CounterExact
  <2>3. ReadersOf(Home[w]) = {}  BY <2>2, ReadersFinite, FS_EmptySet
  <2>4. Home[t] # Home[w]  BY <2>1, <2>3 DEF ReadersOf, Counted
  <2> QED  BY <1>5, <2>2, <2>4 DEF ReadExit
<1>6. ASSUME NEW t \in Thread,
             \/ ReadLeaveNewReaders(t) \/ WriteEnter(t) \/ WriteWait(t)
             \/ WriteReleaseNewReaders(t) \/ WriteReleaseWriter(t)
      PROVE (counter[Home[w]] = 0)'
  BY <1>6 DEF ReadLeaveNewReaders, WriteEnter, WriteWait, WriteReleaseNewReaders,
     WriteReleaseWriter, WriterSeesZero
<1> QED  BY <1>1, <1>2, <1>3, <1>4, <1>5, <1>6 DEF Next, Proceed

(* The invariant is inductive.                                             *)
LEMMA NextIInv == IInv /\ [Next]_vars => IInv'
BY StepTypeOK, StepLocksOwned, StepCounterExact, StepWaiters, StepWriterSeesZero DEF IInv

(* Ownership, the exact reader count and the wait-set facts hold in every  *)
(* reachable state of an RWLock.                                           *)
THEOREM Invariance == Spec => []IInv
BY InitIInv, NextIInv, PTL DEF Spec

(* The invariant implies mutual exclusion: a writer that sees zero has no  *)
(* counted reader in its process.                                          *)
LEMMA IInvMutualExclusion == IInv => MutualExclusion
<1> SUFFICES ASSUME IInv, NEW w \in Thread, NEW t \in Thread, w # t, pc[w] = "writing"
             PROVE  pc[t] # "writing" /\ (Home[t] = Home[w] => ~Counted(t))
  BY DEF MutualExclusion
<1>1. pc[t] # "writing"  BY DEF IInv, LocksOwned, HoldsNewReaders
<1>2. Home[w] \in Process  BY RWLockAssumption DEF RWLockAssumption
<1>3. Cardinality(ReadersOf(Home[w])) = 0
  BY <1>2 DEF IInv, WriterSeesZero, CounterExact
<1>4. ReadersOf(Home[w]) = {}  BY <1>2, <1>3, ReadersFinite, FS_EmptySet
<1> QED  BY <1>1, <1>4 DEF ReadersOf

(* A writer excludes every other writer, of any process, and the readers   *)
(* of its own process.                                                     *)
THEOREM RWLockMutualExclusion == Spec => []MutualExclusion
BY IInvMutualExclusion, Invariance, PTL

(* One notify() per change of the count is enough.                         *)
THEOREM RWLockNoLostWakeup == Spec => []NoLostWakeup
<1>1. IInv => NoLostWakeup  BY DEF IInv
<1> QED  BY <1>1, Invariance, PTL

-----------------------------------------------------------------------------
(* Refinement.  OneProcess is the "threading" backend.                     *)
OneProcess == \A t, u \in Thread : Home[t] = Home[u]

(* Each step of the detailed lock is a step of ReadersWriters or leaves    *)
(* every thread's mode alone.                                              *)
LEMMA StepRefines ==
  ASSUME OneProcess, IInv, [Next]_vars
  PROVE  [RW!Next]_([t \in Thread |-> Mode(t)])
<1> USE RWLockAssumption DEF RWLockAssumption, TypeOK, Goto, Mode, Counted
<1>0. TypeOK /\ LocksOwned /\ MutualExclusion
  BY IInvMutualExclusion DEF IInv
<1>1. CASE UNCHANGED vars  BY <1>1 DEF vars
<1>2. ASSUME NEW t \in Thread, Request(t) PROVE \A u \in Thread : Mode(u)' = Mode(u)
  BY <1>0, <1>2 DEF Request, ReadRequest, WriteRequest
<1>3. ASSUME NEW t \in Thread, Acquire(t) PROVE \A u \in Thread : Mode(u)' = Mode(u)
  BY <1>0, <1>3 DEF Acquire, ReadAcquireNewReaders, ReadAcquireCounter,
     ReadReacquireCounter, WriteAcquireWriter, WriteAcquireNewReaders,
     WriteAcquireCounter, WriteWake
<1>4. ASSUME NEW t \in Thread,
             ReadLeaveNewReaders(t) \/ WriteWait(t) \/ WriteReleaseWriter(t)
      PROVE  \A u \in Thread : Mode(u)' = Mode(u)
  BY <1>0, <1>4 DEF ReadLeaveNewReaders, WriteWait, WriteReleaseWriter
<1>5. ASSUME NEW t \in Thread, ReadEnter(t) PROVE RW!EnterRead(t)
  <2>1. \A u \in Thread : pc[u] # "writing"
    BY <1>0, <1>5 DEF ReadEnter, LocksOwned, HoldsNewReaders
  <2>2. \A u \in Thread : Mode(u)' = IF u = t THEN "read" ELSE Mode(u)
    BY <1>0, <1>5 DEF ReadEnter
  <2>3. Mode(t) = "out"  BY <1>0, <1>5 DEF ReadEnter
  <2> QED  BY <2>1, <2>2, <2>3 DEF RW!EnterRead
<1>6. ASSUME NEW t \in Thread, WriteEnter(t) PROVE RW!EnterWrite(t)
  <2>1. \A u \in Thread : pc[u] # "writing"
    BY <1>0, <1>6 DEF WriteEnter, LocksOwned, HoldsNewReaders
  <2>2. ReadersOf(Home[t]) = {}
    BY <1>6, ReadersFinite, FS_EmptySet DEF WriteEnter, IInv, CounterExact
  <2>3. \A u \in Thread : ~Counted(u)  BY <2>2 DEF ReadersOf, OneProcess
  <2>4. \A u \in Thread : Mode(u)' = IF u = t THEN "write" ELSE Mode(u)
    BY <1>0, <1>6 DEF WriteEnter
  <2> QED  BY <2>1, <2>3, <2>4 DEF RW!EnterWrite
<1>7. ASSUME NEW t \in Thread, ReadExit(t) \/ WriteReleaseNewReaders(t)
      PROVE  RW!Leave(t)
  <2>1. \A u \in Thread : Mode(u)' = IF u = t THEN "out" ELSE Mode(u)
    BY <1>0, <1>7 DEF ReadExit, WriteReleaseNewReaders
  <2>2. Mode(t) # "out"  BY <1>0, <1>7 DEF ReadExit, WriteReleaseNewReaders
  <2> QED  BY <2>1, <2>2 DEF RW!Leave
<1>8. CASE \A u \in Thread : Mode(u)' = Mode(u)  BY <1>8
<1> QED
  BY <1>1, <1>2, <1>3, <1>4, <1>5, <1>6, <1>7, <1>8 DEF Next, Proceed, RW!Next

(* Within one process RWLock implements the readers-writer lock.           *)
THEOREM RWLockRefinement ==
  ASSUME OneProcess
  PROVE  Spec => RefinesReadersWriters
<1>1. Init => RW!Init  BY DEF Init, RW!Init, Mode, Counted
<1>2. IInv /\ [Next]_vars => [RW!Next]_([t \in Thread |-> Mode(t)])
  BY StepRefines
<1> QED  BY <1>1, <1>2, Invariance, PTL DEF Spec, RefinesReadersWriters, RW!Spec

-----------------------------------------------------------------------------
(* AsyncCommand                                                            *)
(*                                                                         *)
(* FaithfulReport and RepliesSettle are not inductive.  JobOK says how far *)
(* a worker is: what it has stored is what it has read of the results, what*)
(* it has sent is all of that but for the line it is at, and from the place*)
(* on where it reports the end the command is over and everything is read. *)
(* PollerOK says what a status request has seen so far, compared with the  *)
(* reply before it; it holds on because of what never happens to a job     *)
(* (JobGrows): nothing that is stored goes away, and nothing is added once *)
(* exited is set.                                                          *)

(* The notifications of a sequence of results                              *)
Told(s) == [k \in DOMAIN s |-> Result(s[k])]

(* A field that is told passes later on too.                               *)
Le(d, e) == \A f \in DOMAIN d : f \in DOMAIN e /\ (d[f] => e[f])

Ending == {"set_retval", "set_exited", "handler_exit", "finished"}

(* What the worker has sent of what it has stored, by its place            *)
SentOK(j) ==
  LET all == sent[j] = Told(data[j])
      allButLast == data[j] # << >> /\ sent[j] = Told(Front(data[j]))
  IN CASE worker[j] \in {"notify", "drain_notify"} -> allButLast
       [] worker[j] = "dead" -> all \/ allButLast
       [] worker[j] = "finished" -> sent[j] = Append(Told(data[j]), Finished(Range(data[j]), code[j]))
       [] OTHER -> all

(* What the worker has stored is what it has read, and it is done with     *)
(* reading once it goes on to report the end.                              *)
JobOK(j) ==
  /\ Len(output[j]) <= MaxLines /\ read[j] <= Len(output[j])
  /\ Reports(Told(data[j]), output[j], read[j])
  /\ worker[j] \in {"drain", "drain_notify"} \cup Ending => command[j] = "ended"
  /\ worker[j] \in Ending => read[j] = Len(output[j])
  /\ worker[j] \in Ending \ {"set_retval"} => retval[j] = code[j]
  /\ exited[j] => /\ worker[j] \in {"handler_exit", "finished", "dead"}
                  /\ command[j] = "ended" /\ read[j] = Len(output[j])
  /\ SentOK(j)

(* A reply told no more than what is stored by now.                        *)
ReplyFits(r, stored, over) ==
  /\ r.status \in {"none", "not_found", "running", "finished"}
  /\ r.status \in {"none", "not_found"} => r.data = << >>
  /\ r.status \in {"running", "finished"} => r.job \in Job
  /\ r.status = "running" => Le(r.data, Merge({}, Range(stored[r.job])))
  /\ r.status = "finished" => over[r.job] /\ Le(r.data, Merge(Field, Range(stored[r.job])))

ReplyOK(r) == ReplyFits(r, data, exited)

(* RepliesSettle, in terms of what is stored                               *)
Settled(p) ==
  LET old == reply[p][1]
      new == reply[p][2]
  IN old.job = new.job /\ new.status # "not_found" =>
       /\ Le(old.data, new.data)
       /\ old.status = "finished" =>
            new.status = "finished" /\ new.data = Merge(Field, Range(data[new.job]))

(* What a status request has seen so far is no older than the reply before *)
PollerOK(p) ==
  /\ reply[p] = <<reply[p][1], reply[p][2]>>
  /\ local[p] = [exited |-> local[p].exited, data |-> local[p].data]
  /\ local[p].exited \in BOOLEAN
  /\ ReplyOK(reply[p][1]) /\ ReplyOK(reply[p][2])
  /\ Settled(p)
  /\ poll[p] # "idle" => asked[p] \in Job
  /\ poll[p] \in {"data", "status"} =>
       /\ local[p].exited => exited[asked[p]]
       /\ reply[p][2].job = asked[p] /\ reply[p][2].status = "finished" => local[p].exited
  /\ poll[p] = "status" =>
       /\ local[p].exited => local[p].data = Merge(Field, Range(data[asked[p]]))
       /\ Le(local[p].data, Merge(IF local[p].exited THEN Field ELSE {}, Range(data[asked[p]])))
       /\ reply[p][2].job = asked[p] => Le(reply[p][2].data, local[p].data)

(* A job is registered once.                                               *)
Unregistered == \A j \in Job : thread[j] \in {"none", "register"} => j \notin Range(processes)

AsyncInv ==
  /\ AsyncTypeOK
  /\ DOMAIN sent = Job /\ DOMAIN local = Poller /\ DOMAIN reply = Poller
  /\ Unregistered
  /\ \A j \in Job : JobOK(j)
  /\ \A p \in Poller : PollerOK(p)

-----------------------------------------------------------------------------
(* Sequences of results and their notifications                            *)

LEMMA ToldAppend ==
  ASSUME NEW s \in Seq(Line), NEW e \in Line
  PROVE  /\ Append(s, e) # << >> /\ Front(Append(s, e)) = s /\ Last(Append(s, e)) = e
         /\ DOMAIN Told(Append(s, e)) = 1..Len(s) + 1
         /\ \A k \in 1..Len(s) : Told(Append(s, e))[k] = Told(s)[k]
         /\ Told(Append(s, e))[Len(s) + 1] = Result(e)
<1>1. Front(Append(s, e)) = s
  BY DEF Front
<1>2. Last(Append(s, e)) = e
  BY DEF Last
<1> QED  BY <1>1, <1>2 DEF Told

LEMMA ToldLast ==
  ASSUME NEW s \in Seq(Line), s # << >>
  PROVE  /\ Front(s) \in Seq(Line) /\ Last(s) \in Line
         /\ Len(s) \in Nat \ {0} /\ Len(Front(s)) = Len(s) - 1
         /\ \A k \in 1..Len(s) - 1 : Front(s)[k] = s[k]
         /\ Append(Told(Front(s)), Result(Last(s))) = Told(s)
<1>0. Len(s) \in Nat \ {0}
  BY EmptySeq, LenProperties
<1>1. Front(s) \in Seq(Line) /\ Last(s) \in Line /\ Len(s) \in Nat \ {0} /\ Len(Front(s)) = Len(s) - 1
  <2>1. Last(s) \in Line
    BY <1>0 DEF Last
  <2>2. Front(s) \in Seq(Line) /\ Len(Front(s)) = Len(s) - 1
    <3>1. \A i \in 1..Len(s) - 1 : s[i] \in Line
      BY <1>0
    <3>2. Len(s) - 1 \in Int /\ (IF 1 <= Len(s) - 1 THEN Len(s) - 1 - 1 + 1 ELSE 0) = Len(s) - 1
      <4>1. \A N \in Nat \ {0} : N - 1 \in Int /\ (IF 1 <= N - 1 THEN N - 1 - 1 + 1 ELSE 0) = N - 1
        OBVIOUS
      <4> QED  BY <1>0, <4>1
    <3> QED  BY <3>1, <3>2, SubSeqProperties DEF Front
  <2> QED  BY <1>0, <2>1, <2>2
<1>2. \A k \in 1..Len(s) - 1 : Front(s)[k] = s[k]
  BY DEF Front
<1>3. Append(Told(Front(s)), Result(Last(s))) = Told(s)
  <2> DEFINE a == Told(Front(s))
             b == Told(s)
  <2>1. a \in Seq({Result(x) : x \in Line}) /\ Len(a) = Len(s) - 1 /\ b \in Seq({Result(x) : x \in Line}) /\ Len(b) = Len(s)
    BY <1>1 DEF Told
  <2>2. Append(a, Result(Last(s))) \in Seq({Result(x) : x \in Line}) /\ Len(Append(a, Result(Last(s)))) = Len(s)
    BY <1>1, <2>1
  <2>3. ASSUME NEW k \in 1..Len(s)
        PROVE  Append(a, Result(Last(s)))[k] = b[k]
    <3>1. CASE k = Len(s)
      BY <1>1, <2>1, <3>1 DEF Told, Last
    <3>2. CASE k # Len(s)
      <4>1. k \in 1..Len(s) - 1 /\ k \in 1..Len(a)
        BY <1>1, <2>1, <3>2
      <4>2. a[k] = Result(Front(s)[k])
        BY <1>1, <4>1 DEF Told
      <4>3. b[k] = Result(s[k])
        BY <1>1 DEF Told
      <4>4. Append(a, Result(Last(s)))[k] = a[k]
        BY <2>1, <4>1
      <4> QED  BY <1>2, <4>1, <4>2, <4>3, <4>4
    <3> QED  BY <3>1, <3>2
  <2> QED  BY <2>1, <2>2, <2>3
<1> QED  BY <1>1, <1>2, <1>3

(* The command goes on printing: what was reported stays the same.         *)
LEMMA ReportsOutput ==
  ASSUME NEW notes, NEW lines \in Seq(Line), NEW n \in Nat, n <= Len(lines), NEW e \in Line,
         Reports(notes, lines, n)
  PROVE  Reports(notes, Append(lines, e), n)
<1>1. PICK at \in [DOMAIN notes -> 1..n] :
        /\ \A k \in DOMAIN notes : notes[k] = Result(lines[at[k]])
        /\ \A k, l \in DOMAIN notes : k < l => at[k] < at[l]
        /\ \A i \in 1..n : Matches(lines[i]) <=> \E k \in DOMAIN notes : at[k] = i
  BY DEF Reports
<1>2. \A i \in 1..n : Append(lines, e)[i] = lines[i]
  OBVIOUS
<1> QED  BY <1>1, <1>2 DEF Reports

(* Reports in terms of the lines stored                                    *)
Stems(s, lines, n, at) ==
  /\ at \in [1..Len(s) -> 1..n]
  /\ \A k \in 1..Len(s) : s[k] = lines[at[k]]
  /\ \A k, l \in 1..Len(s) : k < l => at[k] < at[l]
  /\ \A i \in 1..n : Matches(lines[i]) <=> \E k \in 1..Len(s) : at[k] = i

LEMMA ReportsStems ==
  ASSUME NEW s \in Seq(Line), NEW lines, NEW n
  PROVE  Reports(Told(s), lines, n) <=> \E at : Stems(s, lines, n, at)
<1>1. DOMAIN Told(s) = 1..Len(s) /\ \A k \in 1..Len(s) : Told(s)[k] = Result(s[k])
  BY DEF Told
<1>2. \A x, y : Result(x) = Result(y) <=> x = y
  BY DEF Result
<1> HIDE DEF Told
<1>3. ASSUME Reports(Told(s), lines, n) PROVE \E at : Stems(s, lines, n, at)
  <2>1. PICK at \in [DOMAIN Told(s) -> 1..n] :
          /\ \A k \in DOMAIN Told(s) : Told(s)[k] = Result(lines[at[k]])
          /\ \A k, l \in DOMAIN Told(s) : k < l => at[k] < at[l]
          /\ \A i \in 1..n : Matches(lines[i]) <=> \E k \in DOMAIN Told(s) : at[k] = i
    BY <1>3 DEF Reports
  <2>2. \A k \in 1..Len(s) : s[k] = lines[at[k]]
    BY <1>1, <1>2, <2>1
  <2>3. \A k, l \in 1..Len(s) : k < l => at[k] < at[l]
    BY <1>1, <2>1
  <2>4. \A i \in 1..n : Matches(lines[i]) <=> \E k \in 1..Len(s) : at[k] = i
    BY <1>1, <2>1
  <2> QED  BY <1>1, <2>1, <2>2, <2>3, <2>4 DEF Stems
<1>4. ASSUME NEW at, Stems(s, lines, n, at) PROVE Reports(Told(s), lines, n)
  <2>1. \A k \in 1..Len(s) : Told(s)[k] = Result(lines[at[k]])
    BY <1>1, <1>4 DEF Stems
  <2>2. \A k \in DOMAIN Told(s) : Told(s)[k] = Result(lines[at[k]])
    BY <1>1, <2>1
  <2>3. \A k, l \in DOMAIN Told(s) : k < l => at[k] < at[l]
    BY <1>1, <1>4 DEF Stems
  <2>4. \A i \in 1..n : Matches(lines[i]) <=> \E k \in DOMAIN Told(s) : at[k] = i
    BY <1>1, <1>4 DEF Stems
  <2>5. at \in [DOMAIN Told(s) -> 1..n]
    BY <1>1, <1>4 DEF Stems
  <2> QED  BY <2>2, <2>3, <2>4, <2>5 DEF Reports
<1> QED  BY <1>3, <1>4

(* One more line is read.                                                  *)
LEMMA ReportsNext ==
  ASSUME NEW s \in Seq(Line), NEW lines \in Seq(Line), NEW n \in Nat, n < Len(lines),
         Reports(Told(s), lines, n)
  PROVE  Reports(Told(IF Matches(lines[n + 1]) THEN Append(s, lines[n + 1]) ELSE s), lines, n + 1)
<1> DEFINE line == lines[n + 1]
<1>1. PICK at : Stems(s, lines, n, at)
  BY ReportsStems
<1>2. Len(s) \in Nat /\ line \in Line
  OBVIOUS
<1>3. CASE Matches(line)
  <2> DEFINE t == Append(s, line)
             to == [k \in 1..Len(s) + 1 |-> IF k = Len(s) + 1 THEN n + 1 ELSE at[k]]
  <2>1. t \in Seq(Line) /\ Len(t) = Len(s) + 1 /\ t[Len(s) + 1] = line /\ \A k \in 1..Len(s) : t[k] = s[k]
    BY <1>2
  <2>2. to \in [1..Len(s) + 1 -> 1..n + 1] /\ to[Len(s) + 1] = n + 1 /\ \A k \in 1..Len(s) : to[k] = at[k]
    BY <1>1, <1>2 DEF Stems
  <2> HIDE DEF t, to
  <2>3. \A k \in 1..Len(s) + 1 : k # Len(s) + 1 => k \in 1..Len(s)
    BY <1>2
  <2>4. \A k \in 1..Len(s) + 1 : t[k] = lines[to[k]]
    BY <1>1, <2>1, <2>2, <2>3 DEF Stems
  <2>5. \A k, l \in 1..Len(s) + 1 : k < l => to[k] < to[l]
    <3> SUFFICES ASSUME NEW k \in 1..Len(s) + 1, NEW l \in 1..Len(s) + 1, k < l  PROVE to[k] < to[l]
      OBVIOUS
    <3>1. k \in 1..Len(s) /\ to[k] = at[k] /\ at[k] \in 1..n
      BY <1>1, <1>2, <2>2 DEF Stems
    <3>2. CASE l = Len(s) + 1
      BY <2>2, <3>1, <3>2
    <3>3. CASE l # Len(s) + 1
      BY <1>1, <2>2, <2>3, <3>1, <3>3 DEF Stems
    <3> QED  BY <3>2, <3>3
  <2>6. ASSUME NEW i \in 1..n + 1
        PROVE  Matches(lines[i]) <=> \E k \in 1..Len(s) + 1 : to[k] = i
    <3>1. CASE i = n + 1
      BY <1>2, <1>3, <2>2, <3>1
    <3>2. CASE i # n + 1
      <4>1. i \in 1..n
        BY <3>2
      <4>2. Matches(lines[i]) <=> \E k \in 1..Len(s) : at[k] = i
        BY <1>1, <4>1 DEF Stems
      <4>3. (\E k \in 1..Len(s) : at[k] = i) <=> \E k \in 1..Len(s) + 1 : to[k] = i
        <5>1. \A k \in 1..Len(s) : k \in 1..Len(s) + 1
          BY <1>2
        <5> QED  BY <2>2, <2>3, <3>2, <5>1, Zenon
      <4> QED  BY <4>2, <4>3
    <3> QED  BY <3>1, <3>2
  <2>7. Stems(t, lines, n + 1, to)
    BY <2>1, <2>2, <2>4, <2>5, <2>6 DEF Stems
  <2>8. Reports(Told(t), lines, n + 1)
    BY <2>1, <2>7, ReportsStems
  <2> QED  BY <1>3, <2>8 DEF t
<1>4. CASE ~Matches(line)
  <2>1. \A i \in 1..n + 1 : i # n + 1 => i \in 1..n
    OBVIOUS
  <2>2. \A k \in 1..Len(s) : at[k] \in 1..n
    BY <1>1 DEF Stems
  <2>3. \A i \in 1..n + 1 : Matches(lines[i]) <=> \E k \in 1..Len(s) : at[k] = i
    BY <1>1, <1>4, <2>1, <2>2 DEF Stems
  <2>4. Stems(s, lines, n + 1, at)
    BY <1>1, <2>3 DEF Stems
  <2>5. Reports(Told(s), lines, n + 1)
    BY <2>4, ReportsStems
  <2> QED  BY <1>4, <2>5
<1> QED  BY <1>3, <1>4

(* Without its last notification, a report is one of fewer lines.          *)
LEMMA ReportsFront ==
  ASSUME NEW s \in Seq(Line), s # << >>, NEW lines, NEW n \in Nat, Reports(Told(s), lines, n)
  PROVE  \E m \in 0..n : Reports(Told(Front(s)), lines, m)
<1>1. PICK at : Stems(s, lines, n, at)
  BY ReportsStems
<1>2. PICK N \in Nat \ {0} : N = Len(s)
  BY ToldLast
<1>3. Front(s) \in Seq(Line) /\ Len(Front(s)) = N - 1 /\ \A k \in 1..N - 1 : Front(s)[k] = s[k]
  BY <1>2, ToldLast
<1>4. \A k \in 1..N : at[k] \in 1..n
  BY <1>1, <1>2 DEF Stems
<1>5. PICK m \in 0..n : at[N] = m + 1
  <2>1. at[N] \in 1..n
    BY <1>2, <1>4
  <2>2. \A x \in 1..n : x - 1 \in 0..n /\ x = x - 1 + 1
    OBVIOUS
  <2> QED  BY <2>1, <2>2
<1>6. \A k \in 1..N - 1 : at[k] \in 1..m
  <2> SUFFICES ASSUME NEW k \in 1..N - 1 PROVE at[k] \in 1..m
    OBVIOUS
  <2>1. k \in 1..N /\ N \in 1..N /\ k < N
    BY <1>2
  <2>2. at[k] < at[N] /\ at[k] \in 1..n
    BY <1>1, <1>2, <1>4, <2>1 DEF Stems
  <2> QED  BY <1>5, <2>2
<1> DEFINE to == [k \in 1..N - 1 |-> at[k]]
<1>7. to \in [1..N - 1 -> 1..m] /\ \A k \in 1..N - 1 : to[k] = at[k]
  BY <1>6
<1> HIDE DEF to
<1>8. ASSUME NEW i \in 1..m
      PROVE  Matches(lines[i]) <=> \E k \in 1..N - 1 : to[k] = i
  <2>1. i \in 1..n /\ i # at[N]
    BY <1>5
  <2>2. Matches(lines[i]) <=> \E k \in 1..N : at[k] = i
    BY <1>1, <1>2, <2>1 DEF Stems
  <2>3. \A k \in 1..N : k # N <=> k \in 1..N - 1
    BY <1>2
  <2> QED  BY <1>7, <2>1, <2>2, <2>3
<1>9. \A k \in 1..N - 1 : k \in 1..N
  BY <1>2
<1>10. Stems(Front(s), lines, m, to)
  <2>1. \A k \in 1..N - 1 : Front(s)[k] = lines[to[k]]
    BY <1>1, <1>2, <1>3, <1>7, <1>9 DEF Stems
  <2>2. \A k, l \in 1..N - 1 : k < l => to[k] < to[l]
    BY <1>1, <1>2, <1>7, <1>9 DEF Stems
  <2> QED  BY <1>3, <1>7, <1>8, <2>1, <2>2 DEF Stems
<1> QED  BY <1>3, <1>10, ReportsStems

(* Once everything is read, the results stored are those printed.          *)
LEMMA ReportsAll ==
  ASSUME NEW s \in Seq(Line), NEW lines \in Seq(Line), Reports(Told(s), lines, Len(lines))
  PROVE  Range(s) = {line \in Range(lines) : Matches(line)}
<1>1. PICK at \in [DOMAIN Told(s) -> 1..Len(lines)] :
        /\ \A k \in DOMAIN Told(s) : Told(s)[k] = Result(lines[at[k]])
        /\ \A i \in 1..Len(lines) : Matches(lines[i]) <=> \E k \in DOMAIN Told(s) : at[k] = i
  BY DEF Reports
<1>2. DOMAIN Told(s) = DOMAIN s /\ DOMAIN lines = 1..Len(lines)
  BY DEF Told
<1>3. \A k \in DOMAIN s : s[k] = lines[at[k]]
  BY <1>1, <1>2 DEF Told, Result
<1>4. ASSUME NEW x \in Range(s)
      PROVE  x \in Range(lines) /\ Matches(x)
  <2>1. PICK k \in DOMAIN s : x = s[k]
    BY DEF Range
  <2>2. at[k] \in 1..Len(lines) /\ Matches(lines[at[k]])
    BY <1>1, <1>2
  <2> QED  BY <1>2, <1>3, <2>1, <2>2 DEF Range
<1>5. ASSUME NEW x \in Range(lines), Matches(x)
      PROVE  x \in Range(s)
  <2>1. PICK i \in 1..Len(lines) : x = lines[i]
    BY <1>2 DEF Range
  <2>2. PICK k \in DOMAIN s : at[k] = i
    BY <1>1, <1>2, <1>5, <2>1
  <2> QED  BY <1>3, <2>1, <2>2 DEF Range
<1> QED  BY <1>4, <1>5

(* More records and more defaults tell no less.                            *)
LEMMA MergeGrows ==
  ASSUME NEW D, NEW E, D \subseteq E, NEW R, NEW S, R \subseteq S
  PROVE  Le(Merge(D, R), Merge(E, S))
BY DEF Le, Merge

LEMMA LeTransitive ==
  ASSUME NEW c, NEW d, NEW e, Le(c, d), Le(d, e)
  PROVE  Le(c, e)
BY DEF Le

-----------------------------------------------------------------------------
(* One job                                                                 *)

JobSame(j) ==
  /\ worker'[j] = worker[j] /\ command'[j] = command[j] /\ code'[j] = code[j] /\ output'[j] = output[j]
  /\ read'[j] = read[j] /\ data'[j] = data[j] /\ retval'[j] = retval[j] /\ exited'[j] = exited[j]
  /\ sent'[j] = sent[j]

LEMMA JobKept ==
  ASSUME NEW j \in Job, JobOK(j), JobSame(j)
  PROVE  JobOK(j)'
BY DEF JobOK, SentOK, JobSame

LEMMA AsyncInvInit == AsyncInit => AsyncInv
<1> SUFFICES ASSUME AsyncInit PROVE AsyncInv  OBVIOUS
<1>1. AsyncTypeOK
  BY AsyncAssumption DEF AsyncInit, AsyncTypeOK, IsInjective
<1>2. ASSUME NEW j \in Job PROVE JobOK(j)
  <2>1. Reports(Told(data[j]), output[j], read[j])
    <3>1. data[j] = << >> /\ output[j] = << >> /\ read[j] = 0 /\ << >> \in Seq(Line)
      BY DEF AsyncInit
    <3>2. Stems(<< >>, << >>, 0, [k \in 1..0 |-> 0])
      BY DEF Stems
    <3> QED  BY <3>1, <3>2, ReportsStems
  <2>2. sent[j] = Told(data[j])
    BY DEF AsyncInit, Told
  <2> QED  BY <2>1, <2>2, AsyncAssumption DEF AsyncInit, JobOK, SentOK, Ending
<1>3. ASSUME NEW p \in Poller PROVE PollerOK(p)
  BY <1>3 DEF AsyncInit, PollerOK, ReplyOK, ReplyFits, Settled, NoReply, Le
<1>4. DOMAIN sent = Job /\ DOMAIN local = Poller /\ DOMAIN reply = Poller /\ Unregistered
  BY DEF AsyncInit, Unregistered, Range
<1> QED  BY <1>1, <1>2, <1>3, <1>4 DEF AsyncInv

(* The command                                                             *)
LEMMA OutputJob ==
  ASSUME AsyncTypeOK, NEW j \in Job, JobOK(j), NEW line \in Line, Output(j, line)
  PROVE  JobOK(j)'
<1>1. output[j] \in Seq(Line) /\ output'[j] = Append(output[j], line) /\ command[j] = "running" /\ command' = command
  BY DEF Output, AsyncTypeOK
<1>2. Len(output'[j]) = Len(output[j]) + 1 /\ Len(output'[j]) <= MaxLines /\ Len(output[j]) \in Nat
  BY <1>1, AsyncAssumption DEF Output
<1>3. UNCHANGED <<worker, code, read, data, retval, exited, sent>> /\ read[j] \in Nat
  BY AsyncAssumption DEF Output, parent, shared, workerVars, client, AsyncTypeOK
<1>4. Reports(Told(data[j]), output'[j], read[j])
  BY <1>1, <1>3, ReportsOutput DEF JobOK
<1> QED  BY <1>1, <1>2, <1>3, <1>4 DEF JobOK, SentOK, Ending

LEMMA ExitJob ==
  ASSUME AsyncTypeOK, NEW j \in Job, JobOK(j), NEW c \in {0, 1}, CommandExits(j, c)
  PROVE  JobOK(j)'
<1>1. command[j] = "running" /\ command'[j] = "ended"
  BY DEF CommandExits, AsyncTypeOK
<1>2. UNCHANGED <<worker, output, read, data, retval, exited, sent>>
  BY DEF CommandExits, parent, shared, workerVars, client
<1>3. worker[j] \notin Ending
  BY <1>1 DEF JobOK
<1> QED  BY <1>1, <1>2, <1>3 DEF JobOK, SentOK, Ending

(* The worker: a step from one place to another                            *)
LEMMA WorkerAt ==
  ASSUME AsyncTypeOK, NEW j \in Job, NEW from, NEW to, WorkerMoves(j, from, to)
  PROVE  worker[j] = from /\ worker'[j] = to /\ \A k \in Job \ {j} : worker'[k] = worker[k]
BY DEF WorkerMoves, AsyncTypeOK

(* Steps that only change its place                                        *)
LEMMA PlaceJob ==
  ASSUME AsyncTypeOK, NEW j \in Job, JobOK(j),
         Fork(j) \/ ResetNotify(j) \/ Popen(j) \/ PollRunning(j) \/ PollEnded(j) \/ ReadEnd(j) \/ DrainEnd(j)
  PROVE  JobOK(j)'
<1> USE DEF JobOK, SentOK, Ending, external, shared, client, parent
<1>1. CASE Fork(j)
  BY <1>1, WorkerAt DEF Fork
<1>2. CASE ResetNotify(j)
  BY <1>2, WorkerAt DEF ResetNotify
<1>3. CASE Popen(j)
  <2>1. worker[j] = "popen" /\ worker'[j] = "poll"
    BY <1>3, WorkerAt DEF Popen
  <2>2. UNCHANGED <<code, output, read, data, retval, exited, sent>>
    BY <1>3 DEF Popen
  <2> QED  BY <2>1, <2>2
<1>4. CASE PollRunning(j)
  BY <1>4, WorkerAt DEF PollRunning
<1>5. CASE PollEnded(j)
  BY <1>5, WorkerAt DEF PollEnded
<1>6. CASE ReadEnd(j)
  BY <1>6, WorkerAt DEF ReadEnd
<1>7. CASE DrainEnd(j)
  BY <1>7, WorkerAt DEF DrainEnd
<1> QED  BY <1>1, <1>2, <1>3, <1>4, <1>5, <1>6, <1>7

(* A line is read, and stored when it is a result.                         *)
LEMMA ReadLineJob ==
  ASSUME AsyncTypeOK, NEW j \in Job, JobOK(j),
         ReadLine(j, "readline", "notify") \/ ReadLine(j, "drain", "drain_notify")
  PROVE  JobOK(j)'
<1> DEFINE line == output[j][read[j] + 1]
<1>1. /\ output[j] \in Seq(Line) /\ data[j] \in Seq(Line) /\ read[j] \in Nat /\ Len(output[j]) \in Nat
      /\ read[j] < Len(output[j]) /\ line \in Line
  BY AsyncAssumption DEF ReadLine, AsyncTypeOK
<1>2. UNCHANGED <<command, code, output, retval, exited, sent>>
  BY DEF ReadLine, external
<1>3. /\ read'[j] = read[j] + 1
      /\ data'[j] = IF Matches(line) THEN Append(data[j], line) ELSE data[j]
  BY DEF ReadLine, AsyncTypeOK
<1>4. Reports(Told(data'[j]), output[j], read'[j])
  BY <1>1, <1>3, ReportsNext DEF JobOK
<1>5. \/ worker[j] = "readline" /\ worker'[j] = IF Matches(line) THEN "notify" ELSE "poll"
      \/ worker[j] = "drain" /\ worker'[j] = IF Matches(line) THEN "drain_notify" ELSE "drain"
  BY DEF ReadLine, WorkerMoves, AsyncTypeOK
<1>6. sent[j] = Told(data[j]) /\ ~exited[j]
  BY <1>5 DEF JobOK, SentOK
<1>7. SentOK(j)'
  <2>1. CASE Matches(line)
    <3>1. data'[j] # << >> /\ Front(data'[j]) = data[j]
      BY <1>1, <1>3, <2>1, ToldAppend
    <3>2. worker'[j] \in {"notify", "drain_notify"}
      BY <1>5, <2>1
    <3> QED  BY <1>2, <1>6, <3>1, <3>2 DEF SentOK
  <2>2. CASE ~Matches(line)
    BY <1>2, <1>3, <1>5, <1>6, <2>2 DEF SentOK
  <2> QED  BY <2>1, <2>2
<1> HIDE DEF line
<1> QED  BY <1>1, <1>2, <1>3, <1>4, <1>5, <1>6, <1>7 DEF JobOK, Ending

LEMMA NotifyJob ==
  ASSUME AsyncTypeOK, NEW j \in Job, JobOK(j), DOMAIN sent = Job,
         Notify(j, "notify", "poll") \/ Notify(j, "drain_notify", "drain")
  PROVE  JobOK(j)'
<1>1. UNCHANGED <<command, code, output, read, data, retval, exited>> /\ data[j] \in Seq(Line)
  BY DEF Notify, external, shared, AsyncTypeOK
<1>2. \/ worker[j] = "notify" /\ worker'[j] = "poll"
      \/ worker[j] = "drain_notify" /\ worker'[j] = "drain"
  BY WorkerAt DEF Notify
<1>3. data[j] # << >> /\ sent[j] = Told(Front(data[j]))
  BY <1>2 DEF JobOK, SentOK
<1>4. sent'[j] = Append(sent[j], Result(Last(data[j])))
  BY DEF Notify
<1>5. sent'[j] = Told(data[j])
  BY <1>1, <1>3, <1>4, ToldLast
<1>6. SentOK(j)'
  BY <1>1, <1>2, <1>5 DEF SentOK
<1> QED  BY <1>1, <1>2, <1>6 DEF JobOK, Ending

(* The end is reported.                                                    *)
LEMMA EndJob ==
  ASSUME AsyncTypeOK, NEW j \in Job, JobOK(j), DOMAIN sent = Job,
         SetRetval(j) \/ SetExited(j) \/ HandlerExit(j)
  PROVE  JobOK(j)'
<1> USE DEF JobOK, SentOK, Ending, external, shared, client, parent
<1>1. CASE SetRetval(j)
  <2>1. retval'[j] = code[j]
    BY <1>1 DEF SetRetval, AsyncTypeOK
  <2> QED  BY <1>1, <2>1, WorkerAt DEF SetRetval
<1>2. CASE SetExited(j)
  <2>1. exited'[j] = TRUE
    BY <1>2 DEF SetExited, AsyncTypeOK
  <2> QED  BY <1>2, <2>1, WorkerAt DEF SetExited
<1>3. CASE HandlerExit(j)
  <2>1. sent'[j] = Append(sent[j], Finished(Range(data[j]), retval[j]))
    BY <1>3 DEF HandlerExit
  <2> QED  BY <1>3, <2>1, WorkerAt DEF HandlerExit
<1> QED  BY <1>1, <1>2, <1>3

LEMMA FailsJob ==
  ASSUME AsyncTypeOK, NEW j \in Job, JobOK(j), WorkerFails(j)
  PROVE  JobOK(j)'
<1>1. UNCHANGED <<code, output, read, data, retval, exited, sent>>
  BY DEF WorkerFails, shared
<1>2. /\ worker[j] \in {"init", "popen", "notify", "drain_notify", "handler_exit"} /\ worker'[j] = "dead"
      /\ command[j] = "ended" => command'[j] = "ended"
  BY DEF WorkerFails, AsyncTypeOK
<1> QED  BY <1>1, <1>2 DEF JobOK, SentOK, Ending

-----------------------------------------------------------------------------
(* All jobs                                                                *)

(* The steps that work on a job                                            *)
JobStep(j) ==
  \/ Fork(j) \/ WorkerStep(j) \/ WorkerFails(j)
  \/ \E line \in Line : Output(j, line)
  \/ \E c \in {0, 1} : CommandExits(j, c)

LEMMA JobStepOthers ==
  ASSUME AsyncInv, NEW j \in Job, JobStep(j), NEW k \in Job, k # j
  PROVE  JobSame(k)
<1> USE DEF AsyncInv, AsyncTypeOK, JobSame, WorkerMoves, parent, external, shared, workerVars, client
<1>1. CASE Fork(j)
  BY <1>1 DEF Fork
<1>2. CASE WorkerFails(j)
  BY <1>2 DEF WorkerFails
<1>3. CASE \E line \in Line : Output(j, line)
  BY <1>3 DEF Output
<1>4. CASE \E c \in {0, 1} : CommandExits(j, c)
  BY <1>4 DEF CommandExits
<1>5. CASE ResetNotify(j) \/ Popen(j) \/ PollRunning(j) \/ PollEnded(j) \/ ReadEnd(j) \/ DrainEnd(j)
  BY <1>5 DEF ResetNotify, Popen, PollRunning, PollEnded, ReadEnd, DrainEnd
<1>6. CASE ReadLine(j, "readline", "notify") \/ ReadLine(j, "drain", "drain_notify")
  BY <1>6 DEF ReadLine
<1>7. CASE Notify(j, "notify", "poll") \/ Notify(j, "drain_notify", "drain")
  BY <1>7 DEF Notify
<1>8. CASE SetRetval(j) \/ SetExited(j) \/ HandlerExit(j)
  BY <1>8 DEF SetRetval, SetExited, HandlerExit
<1> QED  BY <1>1, <1>2, <1>3, <1>4, <1>5, <1>6, <1>7, <1>8 DEF JobStep, WorkerStep

LEMMA JobStepJob ==
  ASSUME AsyncInv, NEW j \in Job, JobStep(j)
  PROVE  JobOK(j)'
<1>1. AsyncTypeOK /\ JobOK(j) /\ DOMAIN sent = Job
  BY DEF AsyncInv
<1> QED
  BY <1>1, OutputJob, ExitJob, PlaceJob, ReadLineJob, NotifyJob, EndJob, FailsJob DEF JobStep, WorkerStep

(* What was stored stays, and stays as it is once exited is set.           *)
JobGrows(j) ==
  /\ Range(data[j]) \subseteq Range(data'[j])
  /\ exited[j] => exited'[j] /\ data'[j] = data[j]

LEMMA JobStepGrows ==
  ASSUME AsyncInv, NEW j \in Job, JobStep(j), NEW k \in Job
  PROVE  JobGrows(k)
<1>1. CASE k # j
  BY <1>1, JobStepOthers DEF JobSame, JobGrows
<1>2. CASE k = j
  <2>1. CASE ReadLine(j, "readline", "notify") \/ ReadLine(j, "drain", "drain_notify")
    <3>1. worker[j] \in {"readline", "drain"}
      BY <2>1 DEF ReadLine, WorkerMoves
    <3>2. ~exited[j]
      BY <3>1 DEF AsyncInv, JobOK
    <3>3. data[j] \in Seq(Line) /\ (data'[j] = data[j] \/ data'[j] = Append(data[j], output[j][read[j] + 1]))
      BY <2>1 DEF ReadLine, AsyncInv, AsyncTypeOK
    <3>4. Range(data[j]) \subseteq Range(data'[j])
      BY <3>3 DEF Range
    <3> QED  BY <1>2, <3>2, <3>4 DEF JobGrows
  <2>2. CASE SetExited(j)
    BY <1>2, <2>2 DEF SetExited, JobGrows, AsyncInv, AsyncTypeOK
  <2>3. CASE \/ Fork(j) \/ WorkerFails(j) \/ ResetNotify(j) \/ Popen(j) \/ PollRunning(j) \/ PollEnded(j)
             \/ ReadEnd(j) \/ DrainEnd(j) \/ SetRetval(j) \/ HandlerExit(j)
             \/ Notify(j, "notify", "poll") \/ Notify(j, "drain_notify", "drain")
             \/ (\E line \in Line : Output(j, line)) \/ \E c \in {0, 1} : CommandExits(j, c)
    <3>1. UNCHANGED <<data, exited>>
      BY <2>3 DEF Fork, WorkerFails, ResetNotify, Popen, PollRunning, PollEnded, ReadEnd, DrainEnd, SetRetval,
                  HandlerExit, Notify, Output, CommandExits, shared
    <3> QED  BY <3>1 DEF JobGrows
  <2> QED  BY <2>1, <2>2, <2>3 DEF JobStep, WorkerStep
<1> QED  BY <1>1, <1>2

(* The steps that leave the jobs alone                                     *)
LEMMA RequestStep ==
  ASSUME \/ \E j \in Job : Trigger(j) \/ Register(j) \/ PassReady(j) \/ JoinWorker(j) \/ Answer(j)
         \/ \E p \in Poller : Status(p) \/ \E j \in Job : Lookup(p, j)
         \/ UNCHANGED asyncVars
  PROVE  UNCHANGED <<worker, ready, read, sent, external, shared>>
BY DEF Trigger, Register, PassReady, JoinWorker, Answer, Status, ReadExited, ReadData, ReadStatus, Lookup,
       asyncVars, parent, external, shared, workerVars

LEMMA NextJobs ==
  ASSUME AsyncInv, [AsyncNext]_asyncVars
  PROVE  /\ \A j \in Job : JobOK(j)' /\ JobGrows(j)
         /\ DOMAIN sent' = Job
<1>1. ASSUME NEW j \in Job, JobStep(j)
      PROVE  /\ \A k \in Job : JobOK(k)' /\ JobGrows(k)
             /\ DOMAIN sent' = Job
  <2>1. ASSUME NEW k \in Job PROVE JobOK(k)'
    <3>1. CASE k = j  BY <1>1, <3>1, JobStepJob
    <3>2. CASE k # j  BY <1>1, <3>2, JobStepOthers, JobKept DEF AsyncInv
    <3> QED  BY <3>1, <3>2
  <2>2. sent' = sent \/ \E x : sent' = [sent EXCEPT ![j] = x]
    BY <1>1 DEF JobStep, WorkerStep, Fork, WorkerFails, ResetNotify, Popen, PollRunning, PollEnded, ReadEnd, DrainEnd,
                ReadLine, SetRetval, SetExited, HandlerExit, Notify, Output, CommandExits, workerVars
  <2>3. DOMAIN sent' = Job
    BY <2>2 DEF AsyncInv
  <2> QED  BY <1>1, <2>1, <2>3, JobStepGrows
<1>2. ASSUME UNCHANGED <<worker, ready, read, sent, external, shared>>
      PROVE  /\ \A k \in Job : JobOK(k)' /\ JobGrows(k)
             /\ DOMAIN sent' = Job
  <2>1. \A k \in Job : JobSame(k)
    BY <1>2 DEF JobSame, external, shared
  <2>2. \A k \in Job : JobOK(k)'
    BY <2>1, JobKept DEF AsyncInv
  <2>3. \A k \in Job : JobGrows(k)
    BY <2>1 DEF JobSame, JobGrows
  <2> QED  BY <1>2, <2>2, <2>3 DEF AsyncInv
<1> QED  BY <1>1, <1>2, RequestStep DEF AsyncNext, Controller, JobStep, Quiescent

-----------------------------------------------------------------------------
(* Types, and the buffer of jobs                                           *)

LEMMA RegisterProcesses ==
  ASSUME AsyncInv, NEW j \in Job, Register(j)
  PROVE  /\ processes' \in Seq(Job) /\ Len(processes') <= PROCESS_BUFFER /\ IsInjective(processes')
         /\ Range(processes') \subseteq Range(processes) \cup {j}
<1> DEFINE L == Len(processes)
           B == PROCESS_BUFFER
<1>1. processes \in Seq(Job) /\ L \in Nat /\ L <= B /\ B \in Nat \ {0}
  BY AsyncAssumption DEF AsyncInv, AsyncTypeOK
<1>2. j \notin Range(processes)
  BY DEF AsyncInv, Unregistered, Register, ThreadMoves
<1>3. PICK kept \in Seq(Job), d \in Nat :
        /\ processes' = Append(kept, j)
        /\ Len(kept) + 1 <= B
        /\ \A i \in 1..Len(kept) : i + d \in 1..L /\ kept[i] = processes[i + d]
  <2>1. CASE L >= B
    <3> DEFINE kept == SubSeq(processes, L - B + 2, L)
    <3>1. L = B /\ L - B + 2 = 2
      BY <1>1, <2>1
    <3>2. \A i \in 2..L : processes[i] \in Job
      BY <1>1
    <3>3. kept = SubSeq(processes, 2, L)
      BY <3>1
    <3>4. \A N \in Nat \ {0} : (IF 2 <= N THEN N - 2 + 1 ELSE 0) = N - 1 /\ N - 2 + 1 = N - 1
      OBVIOUS
    <3>5. kept \in Seq(Job) /\ Len(kept) = L - 1 /\ \A i \in 1..L - 1 : kept[i] = processes[2 + i - 1]
      BY <1>1, <3>1, <3>2, <3>3, <3>4, SubSeqProperties
    <3>6. \A i \in 1..L - 1 : i + 1 \in 1..L /\ 2 + i - 1 = i + 1
      BY <1>1
    <3>7. processes' = Append(kept, j)
      BY <2>1 DEF Register
    <3> HIDE DEF kept
    <3>8. Len(kept) + 1 <= B /\ \A i \in 1..Len(kept) : i + 1 \in 1..L /\ kept[i] = processes[i + 1]
      BY <1>1, <3>1, <3>5, <3>6
    <3> QED  BY <3>5, <3>7, <3>8
  <2>2. CASE ~(L >= B)
    <3>1. processes' = Append(processes, j)
      BY <2>2 DEF Register
    <3>2. L + 1 <= B /\ \A i \in 1..L : i + 0 \in 1..L /\ processes[i] = processes[i + 0]
      BY <1>1, <2>2
    <3> QED  BY <1>1, <3>1, <3>2
  <2> QED  BY <2>1, <2>2
<1>4. PICK N \in Nat : N = Len(kept)
  BY <1>3
<1>5. /\ processes' \in Seq(Job) /\ Len(processes') = N + 1
      /\ processes'[N + 1] = j /\ \A i \in 1..N : processes'[i] = kept[i]
  BY <1>3, <1>4
<1>a. DOMAIN processes = 1..L
  BY <1>1
<1>6. ASSUME NEW i \in 1..N PROVE processes'[i] \in Range(processes)
  <2>1. processes'[i] = processes[i + d] /\ i + d \in DOMAIN processes
    BY <1>3, <1>4, <1>5, <1>a
  <2> QED  BY <2>1 DEF Range
<1>7. ASSUME NEW a \in 1..N + 1, NEW b \in 1..N + 1, processes'[a] = processes'[b]
      PROVE  a = b
  <2>1. CASE a = N + 1 \/ b = N + 1
    BY <1>2, <1>4, <1>5, <1>6, <1>7, <2>1
  <2>2. CASE a \in 1..N /\ b \in 1..N
    <3>1. processes[a + d] = processes[b + d] /\ a + d \in 1..L /\ b + d \in 1..L
      BY <1>3, <1>4, <1>5, <1>7, <2>2
    <3>2. a + d = b + d
      BY <1>a, <3>1 DEF AsyncInv, AsyncTypeOK, IsInjective
    <3> QED  BY <3>2
  <2> QED  BY <1>4, <2>1, <2>2
<1>8. IsInjective(processes')
  <2>1. DOMAIN processes' = 1..N + 1
    BY <1>4, <1>5
  <2> QED  BY <1>7, <2>1 DEF IsInjective
<1>9. Range(processes') \subseteq Range(processes) \cup {j}
  <2>1. \A i \in DOMAIN processes' : i \in 1..N \/ i = N + 1
    BY <1>4, <1>5
  <2> QED  BY <1>5, <1>6, <2>1 DEF Range
<1>10. Len(processes') <= PROCESS_BUFFER
  BY <1>3, <1>4, <1>5
<1> QED  BY <1>5, <1>8, <1>9, <1>10

LEMMA NextTypes ==
  ASSUME AsyncInv, [AsyncNext]_asyncVars
  PROVE  AsyncTypeOK' /\ Unregistered'
<1>t. AsyncTypeOK /\ Unregistered
  BY DEF AsyncInv
<1> USE <1>t, AsyncAssumption
<1>1. ASSUME NEW j \in Job, Trigger(j) \/ PassReady(j) \/ JoinWorker(j) \/ Answer(j)
      PROVE  AsyncTypeOK' /\ Unregistered'
  BY <1>1 DEF AsyncTypeOK, Unregistered, Trigger, PassReady, JoinWorker, Answer, ThreadMoves, external, shared, workerVars, client
<1>2. ASSUME NEW j \in Job, Register(j)
      PROVE  AsyncTypeOK' /\ Unregistered'
  <2>1. UNCHANGED <<caller, started, worker, ready, read, sent, external, shared, client, faults>>
        /\ thread[j] = "register" /\ thread' = [thread EXCEPT ![j] = "start"]
    BY <1>2 DEF Register, ThreadMoves, workerVars
  <2>2. thread' \in [Job -> {"none", "register", "start", "ready", "join", "done"}]
    BY <2>1 DEF AsyncTypeOK
  <2>3. Unregistered'
    BY <1>2, <2>1, RegisterProcesses DEF Unregistered, AsyncTypeOK
  <2> QED  BY <1>2, <2>1, <2>2, <2>3, RegisterProcesses DEF AsyncTypeOK, external, shared, client
<1>3. ASSUME NEW p \in Poller, Status(p) \/ \E j \in Job : Lookup(p, j)
      PROVE  AsyncTypeOK' /\ Unregistered'
  <2>1. UNCHANGED <<parent, external, shared, workerVars, faults>>
    BY <1>3 DEF Status, ReadExited, ReadData, ReadStatus, Lookup
  <2>2. poll' \in [Poller -> {"idle", "exited", "data", "status"}]
    <3>1. \E x \in {"idle", "exited", "data", "status"} : poll' = [poll EXCEPT ![p] = x]
      BY <1>3 DEF Status, ReadExited, ReadData, ReadStatus, Lookup, PollMoves
    <3> QED  BY <3>1 DEF AsyncTypeOK
  <2>3. asked' \in [Poller -> Job \cup {Noise}] /\ polls' \in [Poller -> 0..MaxPolls]
    <3>1. CASE Status(p)
      BY <3>1 DEF Status, ReadExited, ReadData, ReadStatus, AsyncTypeOK
    <3>2. CASE \E j \in Job : Lookup(p, j)
      BY <3>2 DEF Lookup, AsyncTypeOK
    <3> QED  BY <1>3, <3>1, <3>2
  <2> QED  BY <2>1, <2>2, <2>3 DEF AsyncTypeOK, Unregistered, parent, external, shared, workerVars
<1>4. ASSUME NEW j \in Job, JobStep(j)
      PROVE  AsyncTypeOK' /\ Unregistered'
  <2>1. UNCHANGED <<caller, processes, started, client>>
        /\ (thread' = thread \/ (Fork(j) /\ thread[j] = "start" /\ thread' = [thread EXCEPT ![j] = "ready"]))
    BY <1>4 DEF JobStep, WorkerStep, Fork, WorkerFails, ResetNotify, Popen, PollRunning, PollEnded, ReadEnd, DrainEnd,
                ReadLine, SetRetval, SetExited, HandlerExit, Notify, Output, CommandExits, parent, ThreadMoves
  <2>2. Unregistered' /\ thread' \in [Job -> {"none", "register", "start", "ready", "join", "done"}]
    BY <2>1 DEF Unregistered, AsyncTypeOK
  <2>3. worker' \in [Job -> {"none"} \cup WorkerRuns \cup WorkerEnded]
    <3>1. worker' = worker \/ \E x \in WorkerRuns \cup WorkerEnded : worker' = [worker EXCEPT ![j] = x]
      BY <1>4 DEF JobStep, WorkerStep, Fork, WorkerFails, ResetNotify, Popen, PollRunning, PollEnded, ReadEnd, DrainEnd,
                  ReadLine, SetRetval, SetExited, HandlerExit, Notify, Output, CommandExits,
                  workerVars, WorkerMoves, WorkerRuns, WorkerEnded
    <3> QED  BY <3>1 DEF AsyncTypeOK
  <2>4. command' \in [Job -> {"none", "running", "ended", "killed"}] /\ code' \in [Job -> {0, 1}]
        /\ output' \in [Job -> Seq(Line)]
    <3>1. CASE WorkerFails(j)
      BY <3>1 DEF WorkerFails, AsyncTypeOK
    <3>2. CASE Popen(j)
      BY <3>2 DEF Popen, AsyncTypeOK
    <3>3. CASE \E line \in Line : Output(j, line)
      BY <3>3 DEF Output, AsyncTypeOK
    <3>4. CASE \E c \in {0, 1} : CommandExits(j, c)
      BY <3>4 DEF CommandExits, AsyncTypeOK
    <3>5. CASE UNCHANGED external
      BY <3>5 DEF external, AsyncTypeOK
    <3>6. \/ WorkerFails(j) \/ Popen(j) \/ (\E line \in Line : Output(j, line))
          \/ (\E c \in {0, 1} : CommandExits(j, c)) \/ UNCHANGED external
      BY <1>4 DEF JobStep, WorkerStep, Fork, ResetNotify, PollRunning, PollEnded, ReadEnd, DrainEnd,
                  ReadLine, SetRetval, SetExited, HandlerExit, Notify
    <3> QED  BY <3>1, <3>2, <3>3, <3>4, <3>5, <3>6
  <2>5. retval' \in [Job -> {0, 1}] /\ exited' \in [Job -> BOOLEAN]
    <3>1. CASE SetRetval(j)
      BY <3>1 DEF SetRetval, AsyncTypeOK
    <3>2. CASE SetExited(j)
      BY <3>2 DEF SetExited, AsyncTypeOK
    <3>3. CASE UNCHANGED <<retval, exited>>
      BY <3>3 DEF AsyncTypeOK
    <3>4. SetRetval(j) \/ SetExited(j) \/ UNCHANGED <<retval, exited>>
      BY <1>4 DEF JobStep, WorkerStep, Fork, WorkerFails, ResetNotify, Popen, PollRunning, PollEnded, ReadEnd, DrainEnd,
                  ReadLine, HandlerExit, Notify, Output, CommandExits, shared
    <3> QED  BY <3>1, <3>2, <3>3, <3>4
  <2>6. read' \in [Job -> 0..MaxLines] /\ data' \in [Job -> Seq(Line)]
    <3>1. CASE ReadLine(j, "readline", "notify") \/ ReadLine(j, "drain", "drain_notify")
      <4>1. output[j] \in Seq(Line) /\ read[j] \in Nat /\ read[j] < Len(output[j]) /\ Len(output[j]) <= MaxLines
        BY <3>1 DEF ReadLine, AsyncTypeOK, AsyncInv, JobOK
      <4>2. output[j][read[j] + 1] \in Line /\ read[j] + 1 \in 0..MaxLines
        BY <4>1
      <4>3. read' \in [Job -> 0..MaxLines]
        BY <3>1, <4>2 DEF ReadLine, AsyncTypeOK
      <4>4. \E x \in Seq(Line) : data' = [data EXCEPT ![j] = x]
        <5>1. data[j] \in Seq(Line) /\ Append(data[j], output[j][read[j] + 1]) \in Seq(Line)
          BY <4>2 DEF AsyncTypeOK
        <5>2. \/ data' = [data EXCEPT ![j] = data[j]]
              \/ data' = [data EXCEPT ![j] = Append(data[j], output[j][read[j] + 1])]
          BY <3>1 DEF ReadLine
        <5> QED  BY <5>1, <5>2
      <4> QED  BY <4>3, <4>4 DEF AsyncTypeOK
    <3>2. CASE UNCHANGED <<read, data>>
      BY <3>2 DEF AsyncTypeOK
    <3>3. UNCHANGED <<read, data>> \/ ReadLine(j, "readline", "notify") \/ ReadLine(j, "drain", "drain_notify")
      BY <1>4 DEF JobStep, WorkerStep, Fork, WorkerFails, ResetNotify, Popen, PollRunning, PollEnded, ReadEnd, DrainEnd,
                  SetRetval, SetExited, HandlerExit, Notify, Output, CommandExits, shared, workerVars
    <3> QED  BY <3>1, <3>2, <3>3
  <2>7. ready' \subseteq Job /\ faults' \in 0..MaxFaults
    BY <1>4 DEF JobStep, WorkerStep, Fork, WorkerFails, ResetNotify, Popen, PollRunning, PollEnded, ReadEnd, DrainEnd,
                ReadLine, SetRetval, SetExited, HandlerExit, Notify, Output, CommandExits, workerVars, AsyncTypeOK
  <2> QED  BY <2>1, <2>2, <2>3, <2>4, <2>5, <2>6, <2>7 DEF AsyncTypeOK, client
<1>5. CASE UNCHANGED asyncVars
  BY <1>5 DEF AsyncTypeOK, Unregistered, asyncVars, parent, external, shared, workerVars, client
<1> QED  BY <1>1, <1>2, <1>3, <1>4, <1>5 DEF AsyncNext, Controller, JobStep, Quiescent

-----------------------------------------------------------------------------
(* Status requests                                                         *)

LEMMA ReplyKept ==
  ASSUME NEW r, ReplyFits(r, data, exited), \A j \in Job : JobGrows(j)
  PROVE  ReplyFits(r, data', exited')
<1>1. CASE r.status = "running"
  <2>1. r.job \in Job /\ Le(r.data, Merge({}, Range(data[r.job])))
    BY <1>1 DEF ReplyFits
  <2>2. Range(data[r.job]) \subseteq Range(data'[r.job])
    BY <2>1 DEF JobGrows
  <2>3. Le(r.data, Merge({}, Range(data'[r.job])))
    BY <2>1, <2>2, MergeGrows, LeTransitive
  <2> QED  BY <1>1, <2>1, <2>3 DEF ReplyFits
<1>2. CASE r.status = "finished"
  <2>1. r.job \in Job /\ exited[r.job]
    BY <1>2 DEF ReplyFits
  <2>2. exited'[r.job] /\ data'[r.job] = data[r.job]
    BY <2>1 DEF JobGrows
  <2> QED  BY <1>2, <2>1, <2>2 DEF ReplyFits
<1>3. CASE r.status \in {"none", "not_found"}
  BY <1>3 DEF ReplyFits
<1> QED  BY <1>1, <1>2, <1>3 DEF ReplyFits

(* A step of a job, or of another client                                   *)
LEMMA PollerKept ==
  ASSUME NEW p \in Poller, PollerOK(p), \A j \in Job : JobGrows(j),
         poll'[p] = poll[p], asked'[p] = asked[p], local'[p] = local[p], reply'[p] = reply[p]
  PROVE  PollerOK(p)'
<1>1. ReplyOK(reply[p][1])' /\ ReplyOK(reply[p][2])'
  BY ReplyKept DEF PollerOK, ReplyOK
<1>2. Settled(p)'
  <2>1. Settled(p) /\ ReplyOK(reply[p][1])
    BY DEF PollerOK
  <2>2. ASSUME reply[p][1].status = "finished", reply[p][1].job = reply[p][2].job
        PROVE  data'[reply[p][2].job] = data[reply[p][2].job]
    BY <2>1, <2>2 DEF ReplyOK, ReplyFits, JobGrows
  <2> QED  BY <2>1, <2>2 DEF Settled
<1>3. poll[p] \in {"data", "status"} /\ local[p].exited => exited'[asked[p]] /\ data'[asked[p]] = data[asked[p]]
  BY DEF PollerOK, JobGrows
<1>4. poll[p] = "status" =>
        Le(local[p].data, Merge(IF local[p].exited THEN Field ELSE {}, Range(data'[asked[p]])))
  <2> SUFFICES ASSUME poll[p] = "status"
               PROVE  Le(local[p].data, Merge(IF local[p].exited THEN Field ELSE {}, Range(data'[asked[p]])))
    OBVIOUS
  <2>1. asked[p] \in Job /\ Le(local[p].data, Merge(IF local[p].exited THEN Field ELSE {}, Range(data[asked[p]])))
    BY DEF PollerOK
  <2>2. Range(data[asked[p]]) \subseteq Range(data'[asked[p]])
    BY <2>1 DEF JobGrows
  <2> QED  BY <2>1, <2>2, MergeGrows, LeTransitive
<1> QED  BY <1>1, <1>2, <1>3, <1>4 DEF PollerOK

LEMMA LookupPoller ==
  ASSUME AsyncInv, NEW p \in Poller, NEW j \in Job, Lookup(p, j)
  PROVE  PollerOK(p)'
<1>1. PollerOK(p) /\ UNCHANGED <<local, data, exited>>
  BY DEF AsyncInv, Lookup, shared
<1>2. asked'[p] = j
  BY DEF Lookup, AsyncInv, AsyncTypeOK
<1>3. CASE j \in Range(processes)
  <2>1. reply' = reply /\ poll'[p] = "exited"
    BY <1>3 DEF Lookup, PollMoves, AsyncInv, AsyncTypeOK
  <2> QED  BY <1>1, <1>2, <2>1 DEF PollerOK, ReplyOK, Settled
<1>4. CASE j \notin Range(processes)
  <2> DEFINE new == [job |-> j, status |-> "not_found", data |-> << >>]
  <2>1. poll'[p] = "idle" /\ reply'[p] = <<reply[p][2], new>>
    BY <1>4 DEF Lookup, PollMoves, Reply, AsyncInv, AsyncTypeOK
  <2>2. ReplyFits(new, data, exited)
    BY DEF ReplyFits
  <2>3. reply'[p][1] = reply[p][2] /\ reply'[p][2] = new /\ new.status = "not_found"
    BY <2>1
  <2> QED  BY <1>1, <1>2, <2>1, <2>2, <2>3 DEF PollerOK, ReplyOK, Settled
<1> QED  BY <1>3, <1>4

LEMMA ReadExitedPoller ==
  ASSUME AsyncInv, NEW p \in Poller, ReadExited(p)
  PROVE  PollerOK(p)'
<1>1. PollerOK(p) /\ UNCHANGED <<asked, reply, data, exited>>
  BY DEF AsyncInv, ReadExited, shared
<1>2. poll[p] = "exited" /\ poll'[p] = "data" /\ asked[p] \in Job
  BY <1>1 DEF ReadExited, PollMoves, AsyncInv, AsyncTypeOK, PollerOK
<1>3. local'[p] = [exited |-> exited[asked[p]], data |-> local[p].data] /\ exited[asked[p]] \in BOOLEAN
  BY <1>1, <1>2 DEF ReadExited, AsyncInv, AsyncTypeOK, PollerOK
<1>4. reply[p][2].job = asked[p] /\ reply[p][2].status = "finished" => exited[asked[p]]
  BY <1>1 DEF PollerOK, ReplyOK, ReplyFits
<1> QED  BY <1>1, <1>2, <1>3, <1>4 DEF PollerOK, ReplyOK, Settled

LEMMA ReadDataPoller ==
  ASSUME AsyncInv, NEW p \in Poller, ReadData(p)
  PROVE  PollerOK(p)'
<1> DEFINE defaults == IF local[p].exited THEN Field ELSE {}
           stored == Range(data[asked[p]])
<1>1. PollerOK(p) /\ UNCHANGED <<asked, reply, data, exited>>
  BY DEF AsyncInv, ReadData, shared
<1>2. poll[p] = "data" /\ poll'[p] = "status" /\ asked[p] \in Job
  BY <1>1 DEF ReadData, PollMoves, AsyncInv, AsyncTypeOK, PollerOK
<1>3. local'[p] = [exited |-> local[p].exited, data |-> Merge(defaults, stored)]
  BY <1>1 DEF ReadData, AsyncInv, PollerOK
<1>4. Le(Merge(defaults, stored), Merge(defaults, stored))
  BY MergeGrows
<1>5. ASSUME reply[p][2].job = asked[p]
      PROVE  Le(reply[p][2].data, Merge(defaults, stored))
  <2>1. ReplyFits(reply[p][2], data, exited)
    BY <1>1 DEF PollerOK, ReplyOK
  <2>2. CASE reply[p][2].status = "finished"
    <3>1. local[p].exited
      BY <1>1, <1>2, <1>5, <2>2 DEF PollerOK
    <3> QED  BY <1>5, <2>1, <2>2, <3>1 DEF ReplyFits
  <2>3. CASE reply[p][2].status = "running"
    <3>1. Le(reply[p][2].data, Merge({}, stored))
      BY <1>5, <2>1, <2>3 DEF ReplyFits
    <3>2. Le(Merge({}, stored), Merge(defaults, stored))
      BY MergeGrows
    <3> QED  BY <3>1, <3>2, LeTransitive
  <2>4. CASE reply[p][2].status \in {"none", "not_found"}
    BY <2>1, <2>4 DEF ReplyFits, Le
  <2> QED  BY <2>1, <2>2, <2>3, <2>4 DEF ReplyFits
<1>6. local[p].exited \in BOOLEAN /\ (local[p].exited => exited[asked[p]])
      /\ (reply[p][2].job = asked[p] /\ reply[p][2].status = "finished" => local[p].exited)
  BY <1>1, <1>2 DEF PollerOK
<1>7. Settled(p)' /\ ReplyOK(reply[p][1])' /\ ReplyOK(reply[p][2])'
  BY <1>1 DEF PollerOK, ReplyOK, Settled
<1> QED  BY <1>1, <1>2, <1>3, <1>4, <1>5, <1>6, <1>7 DEF PollerOK

LEMMA ReadStatusPoller ==
  ASSUME AsyncInv, NEW p \in Poller, ReadStatus(p)
  PROVE  PollerOK(p)'
<1> DEFINE j == asked[p]
           new == [job |-> j, status |-> IF exited[j] THEN "finished" ELSE "running", data |-> local[p].data]
<1>1. PollerOK(p) /\ UNCHANGED <<asked, data, exited>>
  BY DEF AsyncInv, ReadStatus, shared
<1>2. poll[p] = "status" /\ poll'[p] = "idle" /\ j \in Job /\ exited[j] \in BOOLEAN
  BY <1>1 DEF ReadStatus, PollMoves, AsyncInv, AsyncTypeOK, PollerOK
<1>3. reply'[p] = <<reply[p][2], new>> /\ local'[p] = [exited |-> FALSE, data |-> << >>]
  BY DEF ReadStatus, Reply, AsyncInv
<1>4. /\ local[p].exited \in BOOLEAN /\ (local[p].exited => exited[j])
      /\ local[p].exited => local[p].data = Merge(Field, Range(data[j]))
      /\ Le(local[p].data, Merge(IF local[p].exited THEN Field ELSE {}, Range(data[j])))
      /\ reply[p][2].job = j => Le(reply[p][2].data, local[p].data)
      /\ reply[p][2].job = j /\ reply[p][2].status = "finished" => local[p].exited
  BY <1>1, <1>2 DEF PollerOK
<1>5. Le(local[p].data, Merge(Field, Range(data[j])))
  BY <1>4, MergeGrows, LeTransitive
<1>6. ReplyFits(new, data, exited)
  BY <1>2, <1>4, <1>5 DEF ReplyFits
<1>7. ReplyFits(reply[p][2], data, exited)
  BY <1>1 DEF PollerOK, ReplyOK
<1>8. reply'[p][1] = reply[p][2] /\ reply'[p][2] = new
  BY <1>3
<1>9. new.job = j /\ new.data = local[p].data /\ (exited[j] => new.status = "finished")
  OBVIOUS
<1>10. Settled(p)'
  BY <1>1, <1>4, <1>8, <1>9 DEF Settled
<1> HIDE DEF new
<1>11. ReplyOK(reply[p][1])' /\ ReplyOK(reply[p][2])'
  BY <1>1, <1>6, <1>7, <1>8 DEF ReplyOK
<1> QED  BY <1>2, <1>3, <1>10, <1>11 DEF PollerOK

LEMMA NextPollers ==
  ASSUME AsyncInv, [AsyncNext]_asyncVars
  PROVE  /\ \A p \in Poller : PollerOK(p)'
         /\ DOMAIN local' = Poller /\ DOMAIN reply' = Poller
<1>g. \A j \in Job : JobGrows(j)
  BY NextJobs
<1>1. ASSUME NEW p \in Poller, Status(p) \/ \E j \in Job : Lookup(p, j)
      PROVE  /\ \A q \in Poller : PollerOK(q)'
             /\ DOMAIN local' = Poller /\ DOMAIN reply' = Poller
  <2>1. PollerOK(p)'
    BY <1>1, LookupPoller, ReadExitedPoller, ReadDataPoller, ReadStatusPoller DEF Status
  <2>2. ASSUME NEW q \in Poller, q # p PROVE PollerOK(q)'
    <3>1. poll'[q] = poll[q]
      BY <1>1, <2>2 DEF Status, ReadExited, ReadData, ReadStatus, Lookup, PollMoves, AsyncInv, AsyncTypeOK
    <3>2. asked'[q] = asked[q]
      BY <1>1, <2>2 DEF Status, ReadExited, ReadData, ReadStatus, Lookup, AsyncInv, AsyncTypeOK
    <3>3. local'[q] = local[q] /\ reply'[q] = reply[q]
      BY <1>1, <2>2 DEF Status, ReadExited, ReadData, ReadStatus, Lookup, Reply, AsyncInv
    <3> QED  BY <1>g, <3>1, <3>2, <3>3, PollerKept DEF AsyncInv
  <2>3. DOMAIN local' = Poller /\ DOMAIN reply' = Poller
    BY <1>1 DEF Status, ReadExited, ReadData, ReadStatus, Lookup, Reply, AsyncInv
  <2> QED  BY <2>1, <2>2, <2>3
<1>2. CASE UNCHANGED client
  BY <1>2, <1>g, PollerKept DEF client, AsyncInv
<1>3. UNCHANGED client \/ \E p \in Poller : Status(p) \/ \E j \in Job : Lookup(p, j)
  <2>1. ASSUME NEW j \in Job, JobStep(j) PROVE UNCHANGED client
    BY <2>1 DEF JobStep, WorkerStep, Fork, WorkerFails, ResetNotify, Popen, PollRunning, PollEnded, ReadEnd, DrainEnd,
                ReadLine, SetRetval, SetExited, HandlerExit, Notify, Output, CommandExits
  <2>2. ASSUME NEW j \in Job, Trigger(j) \/ Register(j) \/ PassReady(j) \/ JoinWorker(j) \/ Answer(j)
        PROVE  UNCHANGED client
    BY <2>2 DEF Trigger, Register, PassReady, JoinWorker, Answer
  <2>3. CASE UNCHANGED asyncVars
    BY <2>3 DEF asyncVars
  <2> QED  BY <2>1, <2>2, <2>3 DEF AsyncNext, Controller, JobStep, Quiescent
<1> QED  BY <1>1, <1>2, <1>3

LEMMA AsyncInvariant == AsyncSpec => []AsyncInv
<1>1. AsyncInv /\ [AsyncNext]_asyncVars => AsyncInv'
  BY NextJobs, NextTypes, NextPollers DEF AsyncInv
<1> QED  BY <1>1, AsyncInvInit, PTL DEF AsyncSpec

(* The variables keep their types; in particular a job is registered once  *)
(* and start_process makes room for it before.                             *)
THEOREM AsyncTypes == AsyncSpec => []AsyncTypeOK
<1>1. AsyncInv => AsyncTypeOK
  BY DEF AsyncInv
<1> QED  BY <1>1, AsyncInvariant, PTL

(* For any number of jobs, lines and failing workers, the notifications of *)
(* a test are its results in the order of printing, and the last one sums  *)
(* all of them up.                                                         *)
THEOREM AsyncFaithfulReport == AsyncSpec => []FaithfulReport
<1>1. ASSUME AsyncInv, NEW j \in Job
      PROVE  IF worker[j] # "finished"
             THEN \E n \in 0..Len(output[j]) : Reports(sent[j], output[j], n)
             ELSE /\ sent[j] # << >>
                  /\ Reports(Front(sent[j]), output[j], Len(output[j]))
                  /\ Last(sent[j]) = Finished(Printed(j), code[j])
  <2>1. /\ data[j] \in Seq(Line) /\ output[j] \in Seq(Line) /\ read[j] \in Nat /\ read[j] <= Len(output[j])
        /\ Reports(Told(data[j]), output[j], read[j])
    BY <1>1, AsyncAssumption DEF AsyncInv, AsyncTypeOK, JobOK
  <2>2. CASE worker[j] # "finished"
    <3>1. sent[j] = Told(data[j]) \/ (data[j] # << >> /\ sent[j] = Told(Front(data[j])))
      BY <1>1, <2>2 DEF AsyncInv, JobOK, SentOK
    <3>2. \E n \in 0..read[j] : Reports(sent[j], output[j], n)
      BY <2>1, <3>1, ReportsFront
    <3> QED  BY <2>1, <2>2, <3>2
  <2>3. CASE worker[j] = "finished"
    <3> DEFINE all == Told(data[j])
               end == Finished(Range(data[j]), code[j])
    <3>1. sent[j] = Append(all, end) /\ read[j] = Len(output[j])
      BY <1>1, <2>3 DEF AsyncInv, JobOK, SentOK, Ending
    <3>2. all \in Seq({Result(x) : x \in Line} \cup {end})
      BY <2>1 DEF Told
    <3>3. Append(all, end) # << >> /\ Front(Append(all, end)) = all /\ Last(Append(all, end)) = end
      <4> HIDE DEF all, end
      <4> QED  BY <3>2 DEF Front, Last
    <3>4. Range(data[j]) = Printed(j)
      BY <2>1, <3>1, ReportsAll DEF Printed
    <3> QED  BY <2>1, <2>3, <3>1, <3>3, <3>4
  <2> QED  BY <2>2, <2>3
<1>2. AsyncInv => FaithfulReport
  BY <1>1 DEF FaithfulReport
<1> QED  BY <1>2, AsyncInvariant, PTL

(* For any number of clients, replies of connection_test_status never take *)
(* back what an earlier one told, although the status, the data and the    *)
(* status again are read while the worker writes them.                     *)
THEOREM AsyncRepliesSettle == AsyncSpec => []RepliesSettle
<1>1. ASSUME AsyncInv, NEW p \in Poller
      PROVE  LET old == reply[p][1]
                 new == reply[p][2]
             IN  old.job = new.job /\ new.status # "not_found" =>
                   /\ \A f \in DOMAIN old.data : f \in DOMAIN new.data /\ (old.data[f] => new.data[f])
                   /\ old.status = "finished" =>
                        new.status = "finished" /\ new.data = Merge(Field, Printed(new.job))
  <2>1. Settled(p) /\ ReplyFits(reply[p][1], data, exited)
    BY <1>1 DEF AsyncInv, PollerOK, ReplyOK
  <2>2. ASSUME reply[p][1].status = "finished", NEW j, j = reply[p][1].job
        PROVE  Range(data[j]) = Printed(j)
    <3>1. j \in Job /\ exited[j]
      BY <2>1, <2>2 DEF ReplyFits
    <3>2. JobOK(j) /\ data[j] \in Seq(Line) /\ output[j] \in Seq(Line)
      BY <1>1, <3>1 DEF AsyncInv, AsyncTypeOK
    <3>3. Reports(Told(data[j]), output[j], Len(output[j]))
      BY <3>1, <3>2 DEF JobOK
    <3> QED  BY <3>2, <3>3, ReportsAll DEF Printed
  <2> QED  BY <2>1, <2>2 DEF Settled, Le
<1>2. AsyncInv => RepliesSettle
  BY <1>1 DEF RepliesSettle
<1> QED  BY <1>2, AsyncInvariant, PTL

-----------------------------------------------------------------------------
(* Controller                                                              *)

Starting == {"set_app_info", "listener", "sender", "modules", "client", "zconf"}

(* StateMatchesNetwork is not inductive: that main() leaves nothing        *)
(* published needs that it gets past close() only with a Zeroconf object   *)
(* that was closed or never there, and that there is no watcher without.   *)
ZconfInv ==
  /\ zconf \in {"none", "open", "closed"}
  /\ StateMatchesNetwork
  /\ zconf = "none" => state # "CONNECTED" /\ (main # "killed" => published = {})
  /\ zconf = "none" => watcher \in {"none", "dead"}
  /\ zconf = "open" => main \in {"serving", "closing"}
  /\ main \in Starting => zconf = "none"
  /\ main \in {"terminate", "join"} => zconf = "closed"

LEMMA ZconfInit == ControllerInit => ZconfInv
BY DEF ControllerInit, ZconfInv, StateMatchesNetwork, Starting

(* A step that leaves ZconfService alone and does not move main() on.      *)
LEMMA ZconfKept ==
  ASSUME ZconfInv, main' = main, UNCHANGED <<addresses, state, zconf, watcher, published>>
  PROVE  ZconfInv'
BY DEF ZconfInv, StateMatchesNetwork

(* The steps of main() up to the loop                                      *)
LEMMA ZconfStart ==
  ASSUME ZconfInv,
         \/ SetAppInfo \/ CreateListener \/ PrepareNotificationSender
         \/ PrepareAppModules \/ StartClientSocket \/ StartZconf \/ NoZconf
  PROVE  ZconfInv'
<1> USE DEF ZconfInv, StateMatchesNetwork, Step, OrRaises, zservice, Starting
<1>1. CASE \/ SetAppInfo \/ CreateListener \/ PrepareNotificationSender
           \/ PrepareAppModules \/ StartClientSocket \/ NoZconf
  BY <1>1 DEF SetAppInfo, CreateListener, PrepareNotificationSender,
              PrepareAppModules, StartClientSocket, NoZconf
<1>2. CASE StartZconf
  BY <1>2 DEF StartZconf, RegisterService
<1> QED  BY <1>1, <1>2

(* The end of main(), and of the process                                   *)
LEMMA ZconfEnd ==
  ASSUME ZconfInv,
         \/ ServeEnds \/ Close \/ Terminate \/ Join \/ NothingToClose
         \/ Exit \/ Kill
  PROVE  ZconfInv'
<1> USE DEF ZconfInv, StateMatchesNetwork, Step, Shutdown, zservice, Starting
<1>1. CASE ServeEnds \/ Close \/ Terminate
  BY <1>1 DEF ServeEnds, Close, Terminate
<1>2. CASE Join \/ NothingToClose
  BY <1>2 DEF Join, NothingToClose
<1>3. CASE Exit \/ Kill
  BY <1>3 DEF Exit, Kill, Forget
<1> QED  BY <1>1, <1>2, <1>3

(* The watcher                                                             *)
LEMMA ZconfWatch ==
  ASSUME ZconfInv, Watcher
  PROVE  ZconfInv'
<1> USE DEF ZconfInv, StateMatchesNetwork
<1>1. CASE Poll \/ WatchRaises \/ WatchEnds
  BY <1>1 DEF Poll, WatchRaises, WatchEnds
<1>2. CASE Watch
  BY <1>2 DEF Watch, Tell
<1>3. CASE WatchNotes
  BY <1>3 DEF WatchNotes, Note
<1> QED  BY <1>1, <1>2, <1>3 DEF Watcher

LEMMA ZconfNext == ZconfInv /\ [ControllerNext]_(controllerVars) => ZconfInv'
<1> SUFFICES ASSUME ZconfInv, [ControllerNext]_(controllerVars) PROVE ZconfInv'  OBVIOUS
<1>1. ASSUME NEW p, SetPdeathsig(p) \/ ProcessFails(p)
      PROVE  ZconfInv'
  BY <1>1, ZconfKept DEF SetPdeathsig, ProcessFails, zservice
<1>2. CASE StartWorkers \/ HandlerStarts \/ HandlersEnd \/ ChangeAddresses
  BY <1>2, ZconfKept DEF StartWorkers, HandlerStarts, HandlersEnd, ChangeAddresses, zservice
<1>3. CASE AnnouncerThread \/ Environment
  BY <1>3, ZconfKept DEF AnnouncerThread, Environment, own, zservice
<1>4. CASE BusThread
  <2>1. UNCHANGED <<addresses, state, zconf, watcher, published>> /\ (main' = main \/ (main = "serving" /\ main' = "closing"))
    BY <1>4 DEF BusThread, OnMqtt, own, zservice
  <2> QED  BY <2>1, ZconfKept DEF ZconfInv, StateMatchesNetwork, Starting
<1>5. CASE Rest \/ UNCHANGED controllerVars
  BY <1>5, ZconfKept DEF Rest, controllerVars, own, zservice
<1> QED
  BY <1>1, <1>2, <1>3, <1>4, <1>5, ZconfStart, ZconfEnd, ZconfWatch
  DEF ControllerNext, MainThread

(* ZconfService.state and the addresses it keeps say what the network      *)
(* knows, and nothing stays published when main() is left, for every       *)
(* sequence of changed addresses, failures of the watcher and ends of the  *)
(* bus.                                                                    *)
THEOREM ControllerStateMatchesNetwork == ControllerSpec => []StateMatchesNetwork
<1>1. ZconfInv => StateMatchesNetwork  BY DEF ZconfInv
<1> QED  BY <1>1, ZconfInit, ZconfNext, PTL DEF ControllerSpec
=============================================================================
