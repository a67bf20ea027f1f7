------------------------------ MODULE UciProofs ------------------------------
(***************************************************************************)
(* Proofs about UciBackend for every set of threads and configs and every  *)
(* number of transactions, faults and restarts.                            *)
(***************************************************************************)
EXTENDS UciBackend, TLAPS

(* No staged content is mistaken for "no file in CHANGES_DIR".             *)
LEMMA NoChangeNotContent == NoChange \notin SUBSET Tx /\ 0 \notin Tx
BY DEF NoChange, Tx

(* The controller starts with a free lock and empty changes.               *)
LEMMA InitIInv == Init => IInv
<1> SUFFICES ASSUME Init PROVE IInv  OBVIOUS
<1>1. TypeOK  BY UciAssumption DEF UciAssumption, Init, TypeOK, Label, Status
<1>2. HolderInside /\ OwnTransaction /\ LeakOnlyAfterFault
  BY DEF Init, HolderInside, OwnTransaction, LeakOnlyAfterFault, Inside
<1>3. DiskDecided /\ StagedOwn /\ WroteKept /\ NoLostUpdate
  BY DEF Init, DiskDecided, StagedOwn, WroteKept, NoLostUpdate
<1> QED  BY <1>1, <1>2, <1>3 DEF IInv

(* Contents of files are sets of transactions.                             *)
LEMMA ViewType ==
  ASSUME TypeOK, NEW c \in Config
  PROVE  View(c) \in SUBSET Tx
BY DEF TypeOK, View

(* Types survive every step.                                               *)
LEMMA StepTypeOK == TypeOK /\ OwnTransaction /\ [Next]_vars => TypeOK'
<1> SUFFICES ASSUME TypeOK, OwnTransaction, [Next]_vars PROVE TypeOK'  OBVIOUS
<1>0. \A t \in Thread : pc[t] # "idle" => tx[t] \in Tx
  BY DEF TypeOK, Label, OwnTransaction
<1> USE <1>0, UciAssumption
    DEF UciAssumption, TypeOK, Goto, Fault, NoFault, files, object, history
<1>1. ASSUME NEW t \in Thread, NEW c \in Config, Stage(t, c) \/ StageFails(t, c)
      PROVE  TypeOK'
  <2>1. View(c) \cup {tx[t]} \in SUBSET Tx
    BY <1>1, ViewType DEF Stage, StageFails
  <2>2. CASE Stage(t, c)  BY <2>1, <2>2 DEF Stage
  <2>3. CASE StageFails(t, c)  BY <2>1, <2>3 DEF StageFails, Label
  <2> QED  BY <1>1, <2>2, <2>3
<1>2. ASSUME NEW t \in Thread, NEW c \in Config, StageIgnored(t, c) \/ import_data(t, c)
      PROVE  TypeOK'
  BY <1>2 DEF StageIgnored, import_data
<1>3. ASSUME NEW t \in Thread, NEW c \in Config, CommitConfig(t, c)
      PROVE  TypeOK'
  BY <1>3, ViewType DEF CommitConfig, Label
<1>4. ASSUME NEW t \in Thread, NEW c \in Config, CommitFails(t, c)
      PROVE  TypeOK'
  BY <1>4, ViewType DEF CommitFails, Leave, Label, Status
<1>5. ASSUME NEW t \in Thread, Begin(t) \/ Enter(t) \/ Cleanup(t)
      PROVE  TypeOK'
  BY <1>5 DEF Begin, Enter, Cleanup, Label, Status
<1>6. ASSUME NEW t \in Thread, CleanupFails(t) PROVE TypeOK'
  BY <1>6 DEF CleanupFails, Leave, Label, Status
<1>7. ASSUME NEW t \in Thread, Raise(t) \/ ExitClean(t) \/ Reload(t)
      PROVE  TypeOK'
  BY <1>7 DEF Raise, ExitClean, Reload, Label, Status
<1>8. ASSUME NEW t \in Thread, ExitRaised(t) \/ Release(t)
      PROVE  TypeOK'
  BY <1>8 DEF ExitRaised, Release, Leave, Label, Status
<1>9. ASSUME Restart PROVE TypeOK'
  <2>1. status' \in [Tx -> Status]  BY <1>9 DEF Restart, Status
  <2> QED  BY <1>9, <2>1 DEF Restart, Label
<1>10. CASE UNCHANGED vars  BY <1>10 DEF vars
<1> QED
  BY <1>1, <1>2, <1>3, <1>4, <1>5, <1>6, <1>7, <1>8, <1>9, <1>10
  DEF Next, Body, Exit, Finish

(* The lock has one owner, each thread a transaction of its own, and only a
   fault leaves the lock taken by a thread that has left. *)
LEMMA StepOwnership == IInv /\ [Next]_vars => HolderInside' /\ OwnTransaction' /\ LeakOnlyAfterFault'
<1> SUFFICES ASSUME IInv, [Next]_vars PROVE HolderInside' /\ OwnTransaction' /\ LeakOnlyAfterFault'  OBVIOUS
<1> USE UciAssumption, NoChangeNotContent
    DEF UciAssumption, IInv, Goto, Leave, Fault, NoFault, files, object, history,
        TypeOK, Label, Inside, HolderInside, OwnTransaction, LeakOnlyAfterFault
<1>1. ASSUME NEW t \in Thread, Begin(t) PROVE HolderInside' /\ OwnTransaction' /\ LeakOnlyAfterFault'
  BY <1>1 DEF Begin
<1>2. ASSUME NEW t \in Thread, Enter(t) PROVE HolderInside' /\ OwnTransaction' /\ LeakOnlyAfterFault'
  BY <1>2 DEF Enter
<1>3. ASSUME NEW t \in Thread, Cleanup(t) PROVE HolderInside' /\ OwnTransaction' /\ LeakOnlyAfterFault'
  BY <1>3 DEF Cleanup
<1>4. ASSUME NEW t \in Thread, CleanupFails(t) PROVE HolderInside' /\ OwnTransaction' /\ LeakOnlyAfterFault'
  BY <1>4 DEF CleanupFails
<1>5. ASSUME NEW t \in Thread, NEW c \in Config, Stage(t, c)
      PROVE  HolderInside' /\ OwnTransaction' /\ LeakOnlyAfterFault'
  BY <1>5 DEF Stage
<1>6. ASSUME NEW t \in Thread, NEW c \in Config, StageIgnored(t, c)
      PROVE  HolderInside' /\ OwnTransaction' /\ LeakOnlyAfterFault'
  BY <1>6 DEF StageIgnored
<1>7. ASSUME NEW t \in Thread, NEW c \in Config, StageFails(t, c)
      PROVE  HolderInside' /\ OwnTransaction' /\ LeakOnlyAfterFault'
  BY <1>7 DEF StageFails
<1>8. ASSUME NEW t \in Thread, NEW c \in Config, import_data(t, c)
      PROVE  HolderInside' /\ OwnTransaction' /\ LeakOnlyAfterFault'
  BY <1>8 DEF import_data
<1>9. ASSUME NEW t \in Thread, Raise(t) PROVE HolderInside' /\ OwnTransaction' /\ LeakOnlyAfterFault'
  BY <1>9 DEF Raise
<1>10. ASSUME NEW t \in Thread, ExitClean(t) PROVE HolderInside' /\ OwnTransaction' /\ LeakOnlyAfterFault'
  BY <1>10 DEF ExitClean
<1>11. ASSUME NEW t \in Thread, ExitRaised(t) PROVE HolderInside' /\ OwnTransaction' /\ LeakOnlyAfterFault'
  BY <1>11 DEF ExitRaised
<1>12. ASSUME NEW t \in Thread, NEW c \in Config, CommitConfig(t, c)
      PROVE  HolderInside' /\ OwnTransaction' /\ LeakOnlyAfterFault'
  BY <1>12 DEF CommitConfig
<1>13. ASSUME NEW t \in Thread, NEW c \in Config, CommitFails(t, c)
      PROVE  HolderInside' /\ OwnTransaction' /\ LeakOnlyAfterFault'
  BY <1>13 DEF CommitFails
<1>14. ASSUME NEW t \in Thread, Reload(t) PROVE HolderInside' /\ OwnTransaction' /\ LeakOnlyAfterFault'
  BY <1>14 DEF Reload
<1>15. ASSUME NEW t \in Thread, Release(t) PROVE HolderInside' /\ OwnTransaction' /\ LeakOnlyAfterFault'
  BY <1>15 DEF Release
<1>16. ASSUME Restart PROVE HolderInside' /\ OwnTransaction' /\ LeakOnlyAfterFault'
  BY <1>16 DEF Restart
<1>17. CASE UNCHANGED vars  BY <1>17 DEF vars
<1> QED
  BY <1>1, <1>2, <1>3, <1>4, <1>5, <1>6, <1>7, <1>8, <1>9, <1>10, <1>11, <1>12, <1>13, <1>14, <1>15, <1>16, <1>17
  DEF Next, Body, Exit, Finish

(* The files hold decided transactions only; CHANGES_DIR extends them by the
   changes of the transaction that owns the lock. *)
LEMMA StepFiles == IInv /\ [Next]_vars => DiskDecided' /\ StagedOwn'
<1> SUFFICES ASSUME IInv, [Next]_vars PROVE DiskDecided' /\ StagedOwn'  OBVIOUS
<1> USE UciAssumption, NoChangeNotContent
    DEF UciAssumption, IInv, Goto, Leave, Fault, NoFault, files, object, history,
        TypeOK, Label, Inside, Decided, View, HolderInside, OwnTransaction, DiskDecided, StagedOwn
<1>1. ASSUME NEW t \in Thread, Begin(t) PROVE DiskDecided' /\ StagedOwn'
  BY <1>1 DEF Begin
<1>2. ASSUME NEW t \in Thread, Enter(t) PROVE DiskDecided' /\ StagedOwn'
  BY <1>2 DEF Enter
<1>3. ASSUME NEW t \in Thread, Cleanup(t) PROVE DiskDecided' /\ StagedOwn'
  BY <1>3 DEF Cleanup
<1>4. ASSUME NEW t \in Thread, CleanupFails(t) PROVE DiskDecided' /\ StagedOwn'
  BY <1>4 DEF CleanupFails
<1>5. ASSUME NEW t \in Thread, NEW c \in Config, Stage(t, c)
      PROVE  DiskDecided' /\ StagedOwn'
  BY <1>5 DEF Stage
<1>6. ASSUME NEW t \in Thread, NEW c \in Config, StageIgnored(t, c)
      PROVE  DiskDecided' /\ StagedOwn'
  BY <1>6 DEF StageIgnored
<1>7. ASSUME NEW t \in Thread, NEW c \in Config, StageFails(t, c)
      PROVE  DiskDecided' /\ StagedOwn'
  BY <1>7 DEF StageFails
<1>8. ASSUME NEW t \in Thread, NEW c \in Config, import_data(t, c)
      PROVE  DiskDecided' /\ StagedOwn'
  BY <1>8 DEF import_data
<1>9. ASSUME NEW t \in Thread, Raise(t) PROVE DiskDecided' /\ StagedOwn'
  BY <1>9 DEF Raise
<1>10. ASSUME NEW t \in Thread, ExitClean(t) PROVE DiskDecided' /\ StagedOwn'
  BY <1>10 DEF ExitClean
<1>11. ASSUME NEW t \in Thread, ExitRaised(t) PROVE DiskDecided' /\ StagedOwn'
  BY <1>11 DEF ExitRaised
<1>12. ASSUME NEW t \in Thread, NEW c \in Config, CommitConfig(t, c)
      PROVE  DiskDecided' /\ StagedOwn'
  BY <1>12 DEF CommitConfig
<1>13. ASSUME NEW t \in Thread, NEW c \in Config, CommitFails(t, c)
      PROVE  DiskDecided' /\ StagedOwn'
  BY <1>13 DEF CommitFails
<1>14. ASSUME NEW t \in Thread, Reload(t) PROVE DiskDecided' /\ StagedOwn'
  BY <1>14 DEF Reload
<1>15. ASSUME NEW t \in Thread, Release(t) PROVE DiskDecided' /\ StagedOwn'
  BY <1>15 DEF Release
<1>16. ASSUME Restart PROVE DiskDecided' /\ StagedOwn'
  BY <1>16 DEF Restart
<1>17. CASE UNCHANGED vars  BY <1>17 DEF vars
<1> QED
  BY <1>1, <1>2, <1>3, <1>4, <1>5, <1>6, <1>7, <1>8, <1>9, <1>10, <1>11, <1>12, <1>13, <1>14, <1>15, <1>16, <1>17
  DEF Next, Body, Exit, Finish

(* A change is staged, then committed, and no other transaction drops it. *)
LEMMA StepUpdates == IInv /\ [Next]_vars => WroteKept' /\ NoLostUpdate'
<1> SUFFICES ASSUME IInv, [Next]_vars PROVE WroteKept' /\ NoLostUpdate'  OBVIOUS
<1> USE UciAssumption, NoChangeNotContent
    DEF UciAssumption, IInv, Goto, Leave, Fault, NoFault, files, object, history,
        TypeOK, Label, Inside, View, HolderInside, OwnTransaction, StagedOwn, WroteKept, NoLostUpdate
<1>1. ASSUME NEW t \in Thread, Begin(t) PROVE WroteKept' /\ NoLostUpdate'
  BY <1>1 DEF Begin
<1>2. ASSUME NEW t \in Thread, Enter(t) PROVE WroteKept' /\ NoLostUpdate'
  BY <1>2 DEF Enter
<1>3. ASSUME NEW t \in Thread, Cleanup(t) PROVE WroteKept' /\ NoLostUpdate'
  BY <1>3 DEF Cleanup
<1>4. ASSUME NEW t \in Thread, CleanupFails(t) PROVE WroteKept' /\ NoLostUpdate'
  BY <1>4 DEF CleanupFails
<1>5. ASSUME NEW t \in Thread, NEW c \in Config, Stage(t, c)
      PROVE  WroteKept' /\ NoLostUpdate'
  BY <1>5 DEF Stage
<1>6. ASSUME NEW t \in Thread, NEW c \in Config, StageIgnored(t, c)
      PROVE  WroteKept' /\ NoLostUpdate'
  BY <1>6 DEF StageIgnored
<1>7. ASSUME NEW t \in Thread, NEW c \in Config, StageFails(t, c)
      PROVE  WroteKept' /\ NoLostUpdate'
  BY <1>7 DEF StageFails
<1>8. ASSUME NEW t \in Thread, NEW c \in Config, import_data(t, c)
      PROVE  WroteKept' /\ NoLostUpdate'
  BY <1>8 DEF import_data
<1>9. ASSUME NEW t \in Thread, Raise(t) PROVE WroteKept' /\ NoLostUpdate'
  BY <1>9 DEF Raise
<1>10. ASSUME NEW t \in Thread, ExitClean(t) PROVE WroteKept' /\ NoLostUpdate'
  BY <1>10 DEF ExitClean
<1>11. ASSUME NEW t \in Thread, ExitRaised(t) PROVE WroteKept' /\ NoLostUpdate'
  BY <1>11 DEF ExitRaised
<1>12. ASSUME NEW t \in Thread, NEW c \in Config, CommitConfig(t, c)
      PROVE  WroteKept' /\ NoLostUpdate'
  BY <1>12 DEF CommitConfig
<1>13. ASSUME NEW t \in Thread, NEW c \in Config, CommitFails(t, c)
      PROVE  WroteKept' /\ NoLostUpdate'
  BY <1>13 DEF CommitFails
<1>14. ASSUME NEW t \in Thread, Reload(t) PROVE WroteKept' /\ NoLostUpdate'
  BY <1>14 DEF Reload
<1>15. ASSUME NEW t \in Thread, Release(t) PROVE WroteKept' /\ NoLostUpdate'
  BY <1>15 DEF Release
<1>16. ASSUME Restart PROVE WroteKept' /\ NoLostUpdate'
  BY <1>16 DEF Restart
<1>17. CASE UNCHANGED vars  BY <1>17 DEF vars
<1> QED
  BY <1>1, <1>2, <1>3, <1>4, <1>5, <1>6, <1>7, <1>8, <1>9, <1>10, <1>11, <1>12, <1>13, <1>14, <1>15, <1>16, <1>17
  DEF Next, Body, Exit, Finish

(* The invariant is inductive.                                             *)
LEMMA NextIInv == IInv /\ [Next]_vars => IInv'
BY StepTypeOK, StepOwnership, StepFiles, StepUpdates DEF IInv

(* The invariant holds in every reachable state.                           *)
THEOREM Invariance == Spec => []IInv
BY InitIInv, NextIInv, PTL DEF Spec

(* An aborted transaction leaves no trace in the configuration files.      *)
THEOREM UciNoAbortedChange == Spec => []NoAbortedChange
<1>1. IInv => NoAbortedChange
  BY DEF IInv, TypeOK, DiskDecided, Decided, NoAbortedChange
<1> QED  BY <1>1, Invariance, PTL

(* Concurrent read-modify-write transactions lose no update.               *)
THEOREM UciNoLostUpdate == Spec => []NoLostUpdate
<1>1. IInv => NoLostUpdate  BY DEF IInv
<1> QED  BY <1>1, Invariance, PTL

(* No body sees a file change under it, except by its own import.          *)
THEOREM UciRepeatableRead == Spec => RepeatableRead
<1> DEFINE Stable ==
      \A t \in Thread : pc[t] = "body" /\ pc'[t] = "body" =>
        \A c \in Config : disk'[c] \in {disk[c], {}}
<1>1. IInv /\ [Next]_vars => [Stable]_vars
  <2> SUFFICES ASSUME IInv, Next, NEW t \in Thread, pc[t] = "body", pc'[t] = "body",
                      NEW d \in Config
               PROVE  disk'[d] \in {disk[d], {}}
    OBVIOUS
  <2> USE DEF IInv, TypeOK, HolderInside, Inside, Label, Goto, Leave, files
  <2>1. lock = t  OBVIOUS
  <2>2. ASSUME NEW u \in Thread, NEW c \in Config, CommitConfig(u, c) \/ CommitFails(u, c)
        PROVE  FALSE
    BY <2>1, <2>2 DEF CommitConfig, CommitFails
  <2>3. ASSUME NEW u \in Thread, NEW c \in Config,
               Stage(u, c) \/ StageIgnored(u, c) \/ StageFails(u, c) \/ import_data(u, c)
        PROVE  disk'[d] \in {disk[d], {}}
    BY <2>3 DEF Stage, StageIgnored, StageFails, import_data
  <2>4. ASSUME NEW u \in Thread,
               \/ Begin(u) \/ Enter(u) \/ Cleanup(u) \/ CleanupFails(u) \/ Raise(u)
               \/ ExitClean(u) \/ ExitRaised(u) \/ Reload(u) \/ Release(u)
        PROVE  disk' = disk
    BY <2>4 DEF Begin, Enter, Cleanup, CleanupFails, Raise, ExitClean, ExitRaised, Reload,
       Release
  <2>5. Restart => disk' = disk  BY DEF Restart
  <2> QED  BY <2>2, <2>3, <2>4, <2>5 DEF Next, Body, Exit, Finish
<1>2. Spec => [][Stable]_vars  BY <1>1, Invariance, PTL DEF Spec
<1> QED  BY <1>2, PTL DEF RepeatableRead

(* Only a failure inside _cleanup() or commit() leaks uci_lock.            *)
THEOREM UciLeakOnlyAfterFault == Spec => []LeakOnlyAfterFault
<1>1. IInv => LeakOnlyAfterFault  BY DEF IInv
<1> QED  BY <1>1, Invariance, PTL

(* A failed commit has leaked the lock, and one that is not over has its   *)
(* thread.                                                                 *)
FailureSeals ==
  /\ restarts = 0 /\ (\E n \in Tx : status[n] = "failed") => lock # Free /\ pc[lock] \notin Inside
  /\ \A n \in Tx : status[n] = "committing" =>
       \E t \in Thread : pc[t] \in {"commit", "reload", "release"} /\ tx[t] = n

(* Only CommitFails makes a transaction fail before a restart, and nobody  *)
(* releases a lock that has leaked.                                        *)
LEMMA StepSeals == IInv /\ FailureSeals /\ [Next]_vars => FailureSeals'
<1> SUFFICES ASSUME IInv, FailureSeals, [Next]_vars PROVE FailureSeals'  OBVIOUS
<1> USE UciAssumption
    DEF UciAssumption, IInv, TypeOK, HolderInside, OwnTransaction, FailureSeals, Goto, Leave, Fault,
        NoFault, Inside, Label, Status, files, object, history
<1>1. ASSUME NEW u \in Thread, NEW c \in Config,
             Stage(u, c) \/ StageIgnored(u, c) \/ StageFails(u, c) \/ import_data(u, c)
      PROVE  FailureSeals'
  BY <1>1 DEF Stage, StageIgnored, StageFails, import_data
<1>2. ASSUME NEW u \in Thread, NEW c \in Config, CommitConfig(u, c)
      PROVE  FailureSeals'
  BY <1>2 DEF CommitConfig
<1>3. ASSUME NEW u \in Thread, NEW c \in Config, CommitFails(u, c)
      PROVE  FailureSeals'
  BY <1>3 DEF CommitFails
<1>4. ASSUME NEW u \in Thread, Begin(u)  PROVE  FailureSeals'
  BY <1>4 DEF Begin
<1>5. ASSUME NEW u \in Thread, Enter(u) \/ Cleanup(u) \/ Raise(u) \/ Reload(u)
      PROVE  FailureSeals'
  BY <1>5 DEF Enter, Cleanup, Raise, Reload
<1>6. ASSUME NEW u \in Thread, ExitClean(u)  PROVE  FailureSeals'
  BY <1>6 DEF ExitClean
<1>7. ASSUME NEW u \in Thread, CleanupFails(u)  PROVE  FailureSeals'
  BY <1>7 DEF CleanupFails
<1>8. ASSUME NEW u \in Thread, ExitRaised(u) \/ Release(u)  PROVE  FailureSeals'
  BY <1>8 DEF ExitRaised, Release
<1>9. Restart => FailureSeals'  BY DEF Restart
<1>10. UNCHANGED vars => FailureSeals'  BY DEF vars
<1> QED  BY <1>1, <1>2, <1>3, <1>4, <1>5, <1>6, <1>7, <1>8, <1>9, <1>10 DEF Next, Body, Exit, Finish

(* What a failed commit leaves half written, no body reads before a        *)
(* restart.                                                                *)
THEOREM UciSeenWhole == Spec => []SeenWhole
<1>1. Init => FailureSeals  BY DEF Init, FailureSeals
<1>2. IInv /\ FailureSeals => SeenWhole
  <2> SUFFICES ASSUME IInv, FailureSeals, restarts = 0, NEW t \in Thread, pc[t] = "body", NEW n \in Tx,
                      NEW c \in wrote[n], NEW d \in wrote[n], n \in disk[c]
               PROVE  n \in disk[d]
    BY DEF SeenWhole
  <2>1. lock = t /\ \A u \in Thread : pc[u] \in Inside => u = t
    BY DEF IInv, HolderInside, Inside, Label
  <2>2. c \in Config /\ d \in Config /\ status[n] \in Decided
    BY DEF IInv, TypeOK, DiskDecided
  <2>3. status[n] # "failed"
    BY <2>1 DEF FailureSeals, Inside, Label
  <2>4. status[n] # "committing"
    BY <2>1 DEF FailureSeals, Inside, Label
  <2> QED  BY <2>2, <2>3, <2>4 DEF IInv, NoLostUpdate, Decided
<1> QED  BY <1>1, <1>2, StepSeals, Invariance, PTL DEF Spec

(* Only the thread in commit() has configs left to commit.                 *)
TodoCommits == \A t \in Thread : todo[t] # {} => pc[t] = "commit"

LEMMA StepTodo == IInv /\ TodoCommits /\ [Next]_vars => TodoCommits'
<1> SUFFICES ASSUME IInv, TodoCommits, [Next]_vars PROVE TodoCommits'  OBVIOUS
<1> USE DEF IInv, TypeOK, TodoCommits, Goto, Leave, files, object
<1>1. ASSUME NEW u \in Thread, NEW c \in Config,
             Stage(u, c) \/ StageIgnored(u, c) \/ StageFails(u, c) \/ import_data(u, c)
      PROVE  TodoCommits'
  BY <1>1 DEF Stage, StageIgnored, StageFails, import_data
<1>2. ASSUME NEW u \in Thread, NEW c \in Config, CommitConfig(u, c) \/ CommitFails(u, c)
      PROVE  TodoCommits'
  BY <1>2 DEF CommitConfig, CommitFails
<1>3. ASSUME NEW u \in Thread, Begin(u) \/ Enter(u) \/ Cleanup(u) \/ Raise(u) \/ ExitClean(u) \/ Reload(u)
      PROVE  TodoCommits'
  BY <1>3 DEF Begin, Enter, Cleanup, Raise, ExitClean, Reload
<1>4. ASSUME NEW u \in Thread, CleanupFails(u) \/ ExitRaised(u) \/ Release(u)
      PROVE  TodoCommits'
  BY <1>4 DEF CleanupFails, ExitRaised, Release
<1>5. Restart => TodoCommits'  BY DEF Restart
<1>6. UNCHANGED vars => TodoCommits'  BY DEF vars
<1> QED  BY <1>1, <1>2, <1>3, <1>4, <1>5, <1>6 DEF Next, Body, Exit, Finish

(* While a thread is inside its transaction and has not reached commit(),  *)
(* the files are what the store contains.                                  *)
LEMMA StoreIsDisk ==
  ASSUME IInv, TodoCommits, NEW t \in Thread, pc[t] \in Inside \ {"commit"}
  PROVE  /\ \A u \in Thread : todo[u] = {}
         /\ \A c \in Config : Committed(c) = disk[c]
<1>1. \A u \in Thread : pc[u] # "commit"
  BY DEF IInv, HolderInside, Inside, Label
<1>2. \A u \in Thread : todo[u] = {}
  BY <1>1 DEF TodoCommits
<1> QED  BY <1>2 DEF Committed

(* A step that changes none of what the store is made of                   *)
LEMMA StoreKept ==
  ASSUME \A c \in Config : Committed(c)' = Committed(c)
  PROVE  [c \in Config |-> Committed(c)]' = [c \in Config |-> Committed(c)]
OBVIOUS

(* commit() takes effect at once: the files it will write one by one have  *)
(* what was staged on top of what they contain.                            *)
LEMMA CommitUpdates ==
  ASSUME IInv, TodoCommits, NEW t \in Thread, ExitClean(t)
  PROVE  Store!Next
<1> DEFINE n == tx[t]
           C == {c \in affected[t] : staged[c] # NoChange /\ tx[t] \in staged[c]}
<1>1. pc[t] = "body" /\ n \in Tx /\ C \in SUBSET Config
  BY DEF ExitClean, Goto, IInv, TypeOK, OwnTransaction
<1>2. /\ \A u \in Thread : todo[u] = {}
      /\ \A c \in Config : Committed(c) = disk[c]
  BY <1>1, StoreIsDisk DEF Inside, Label
<1>3. todo' = [todo EXCEPT ![t] = affected[t]] /\ disk' = disk /\ staged' = staged
  BY DEF ExitClean, files
<1>4. \A c \in Config : (\E u \in Thread : c \in todo'[u]) <=> c \in affected[t]
  BY <1>2, <1>3 DEF IInv, TypeOK
<1>5. ASSUME NEW c \in Config
      PROVE  Committed(c)' = IF c \in C THEN Committed(c) \cup {n} ELSE Committed(c)
  <2>1. Committed(c)' = IF c \in affected[t] THEN View(c) ELSE disk[c]
    BY <1>3, <1>4 DEF Committed, View
  <2>2. staged[c] # NoChange => disk[c] \subseteq staged[c] /\ staged[c] \subseteq disk[c] \cup {n}
    BY <1>1 DEF IInv, StagedOwn
  <2>3. CASE c \in C
    BY <1>2, <2>1, <2>2, <2>3 DEF View
  <2>4. CASE c \notin C
    BY <1>2, <2>1, <2>2, <2>4 DEF View
  <2> QED  BY <2>3, <2>4
<1> HIDE DEF n, C
<1>6. [c \in Config |-> Committed(c)]'
        = [c \in Config |-> IF c \in C THEN [d \in Config |-> Committed(d)][c] \cup {n}
                            ELSE [d \in Config |-> Committed(d)][c]]
  BY <1>5
<1>7. Store!Update(n, C)
  BY <1>6 DEF Store!Update
<1> QED  BY <1>1, <1>7 DEF Store!Next

(* Without failures and restarts the configuration files change by whole   *)
(* transactions, one after another: a transaction takes effect when        *)
(* commit() starts, however its "uci commit" calls are interleaved with    *)
(* the other threads.                                                      *)
THEOREM UciRefinesConfigStore ==
  ASSUME MaxFaults = 0, MaxRestarts = 0
  PROVE  Spec => RefinesConfigStore
<1>1. Init => TodoCommits /\ Store!Init
  <2> SUFFICES ASSUME Init PROVE TodoCommits /\ Store!Init  OBVIOUS
  <2>1. \A c \in Config : Committed(c) = {}  BY DEF Init, Committed
  <2> QED  BY <2>1 DEF Init, TodoCommits, Store!Init
<1>2. IInv /\ TodoCommits /\ [Next]_vars => [Store!Next]_([c \in Config |-> Committed(c)])
  <2> SUFFICES ASSUME IInv, TodoCommits, [Next]_vars
               PROVE  Store!Next \/ \A c \in Config : Committed(c)' = Committed(c)
    BY StoreKept
  <2>k. ASSUME UNCHANGED <<disk, staged, todo>>
        PROVE  \A c \in Config : Committed(c)' = Committed(c)
    BY <2>k DEF Committed, View
  \* the steps of a thread that holds the lock and has not reached commit()
  <2>d. ASSUME NEW t \in Thread, pc[t] \in Inside \ {"commit"}, disk' = disk,
               \A u \in Thread : todo'[u] \subseteq todo[u]
        PROVE  \A c \in Config : Committed(c)' = Committed(c)
    BY <2>d, StoreIsDisk DEF Committed
  <2>1. ASSUME NEW t \in Thread, NEW c \in Config, Stage(t, c) \/ StageIgnored(t, c) \/ StageFails(t, c)
        PROVE  \A d \in Config : Committed(d)' = Committed(d)
    BY <2>1, <2>d DEF Stage, StageIgnored, StageFails, files, object, Inside, Label
  <2>2. ASSUME NEW t \in Thread, NEW c \in Config, import_data(t, c)
        PROVE  Store!Next
    <3>1. /\ \A u \in Thread : todo[u] = {}
          /\ \A d \in Config : Committed(d) = disk[d]
      BY <2>2, StoreIsDisk DEF import_data, Inside, Label
    <3>2. \A d \in Config : Committed(d)' = IF d = c THEN {} ELSE Committed(d)
      BY <2>2, <3>1 DEF import_data, object, Committed, IInv, TypeOK
    <3>3. Store!Replace(c)
      BY <3>2 DEF Store!Replace
    <3> QED  BY <3>3 DEF Store!Next
  <2>3. ASSUME NEW t \in Thread, NEW c \in Config, CommitConfig(t, c)
        PROVE  \A d \in Config : Committed(d)' = Committed(d)
    <3>1. \A u \in Thread : u # t => todo[u] = {}
      BY <2>3 DEF CommitConfig, Goto, IInv, HolderInside, Inside, Label, TodoCommits
    <3>2. /\ c \in todo[t] /\ todo' = [todo EXCEPT ![t] = @ \ {c}]
          /\ disk' = [disk EXCEPT ![c] = View(c)] /\ staged' = [staged EXCEPT ![c] = NoChange]
      BY <2>3 DEF CommitConfig
    <3>3. \A d \in Config : (\E u \in Thread : d \in todo[u]) <=> d \in todo[t]
      BY <3>1
    <3>4. \A d \in Config : (\E u \in Thread : d \in todo'[u]) <=> d \in todo[t] /\ d # c
      BY <3>1, <3>2 DEF IInv, TypeOK
    <3>5. Committed(c)' = View(c) /\ Committed(c) = View(c)
      BY <3>2, <3>3, <3>4 DEF Committed, IInv, TypeOK
    <3>6. ASSUME NEW d \in Config, d # c
          PROVE  Committed(d)' = Committed(d)
      BY <3>2, <3>3, <3>4, <3>6 DEF Committed, View, IInv, TypeOK
    <3> QED  BY <3>5, <3>6
  <2>4. ASSUME NEW t \in Thread, NEW c \in Config, CommitFails(t, c)
        PROVE  FALSE
    BY <2>4 DEF CommitFails, Fault, IInv, TypeOK
  <2>5. ASSUME NEW t \in Thread, CleanupFails(t)
        PROVE  FALSE
    BY <2>5 DEF CleanupFails, Fault, IInv, TypeOK
  <2>6. ASSUME NEW t \in Thread, Begin(t) \/ Enter(t) \/ Raise(t) \/ Reload(t)
        PROVE  UNCHANGED <<disk, staged, todo>>
    BY <2>6 DEF Begin, Enter, Raise, Reload, files, object
  <2>7. ASSUME NEW t \in Thread, Cleanup(t)
        PROVE  \A c \in Config : Committed(c)' = Committed(c)
    BY <2>7, <2>d DEF Cleanup, Goto, object, Inside, Label
  <2>8. ASSUME NEW t \in Thread, ExitRaised(t) \/ Release(t)
        PROVE  \A c \in Config : Committed(c)' = Committed(c)
    <3>1. pc[t] \in Inside \ {"commit"} /\ disk' = disk /\ todo' = [todo EXCEPT ![t] = {}]
      BY <2>8 DEF ExitRaised, Release, Leave, files, Inside, Label
    <3> QED  BY <2>d, <3>1 DEF IInv, TypeOK
  <2>9. ASSUME Restart PROVE FALSE
    BY <2>9 DEF Restart, IInv, TypeOK
  <2>10. CASE UNCHANGED vars
    BY <2>k, <2>10 DEF vars, files, object
  <2> QED
    BY <2>k, <2>1, <2>2, <2>3, <2>4, <2>5, <2>6, <2>7, <2>8, <2>9, <2>10, CommitUpdates
    DEF Next, Body, Exit, Finish
<1> QED  BY <1>1, <1>2, StepTodo, Invariance, PTL DEF Spec, RefinesConfigStore, Store!Spec
=============================================================================
