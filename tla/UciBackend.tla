----------------------------- MODULE UciBackend -----------------------------
(***************************************************************************)
(* foris_controller_backends.uci.UciBackend: "with UciBackend() as         *)
(* backend" is a transaction on the configuration files.  Changes are      *)
(* staged by the uci tool in CHANGES_DIR, which all transactions share,    *)
(* and reach the files when __exit__ commits the affected configs one by   *)
(* one.                                                                    *)
(*                                                                         *)
(* The content of a config is abstracted to the set of transactions whose  *)
(* changes are in it; a staged change is the content it turns the config   *)
(* into.  uci_lock is used for writing only, and RWLockMutualExclusion     *)
(* makes that a mutual exclusion lock for threads and processes alike.     *)
(***************************************************************************)
EXTENDS Integers, FiniteSets

CONSTANTS
  Thread,        \* threads (or processes) that serve requests
  Config,        \* configuration files
  Free,          \* the owner of uci_lock when nobody holds it
  MaxTx,         \* bound: number of transactions of a behaviour
  MaxFaults,     \* bound: failing file operations and uci commits
  MaxRestarts    \* bound: restarts of the controller

ASSUME UciAssumption ==
  /\ Free \notin Thread
  /\ MaxTx \in Nat /\ MaxFaults \in Nat /\ MaxRestarts \in Nat

VARIABLES
  lock,         \* uci_lock.writelock: its owner
  disk,         \* the files in config_dir
  staged,       \* the files in CHANGES_DIR
  stale,        \* configs committed since the last reload_config
  pc,           \* where each thread is in its transaction
  tx,           \* the transaction each thread runs (0: none)
  affected,     \* affected_configs of each thread's UciBackend object
  todo,         \* affected configs the loop of commit() has not finished
  status,       \* history: fate of each transaction
  wrote,        \* history: configs each transaction changed successfully
  faults,       \* failures so far
  restarts      \* restarts so far

files == <<disk, staged, stale>>
object == <<tx, affected, todo>>
history == <<status, wrote>>
vars == <<lock, files, pc, object, history, faults, restarts>>

Tx == 1..MaxTx

\* CHANGES_DIR has no file for a config (no transaction has number 0)
NoChange == {0}

Label == {"idle", "enter", "cleanup", "body", "raised", "commit", "reload", "release"}

Inside == Label \ {"idle", "enter"}     \* between acquire and release of uci_lock

Status == {"new", "running", "aborted", "committing", "committed", "failed"}

\* What uci reads: a config with the staged changes applied
View(c) == IF staged[c] = NoChange THEN disk[c] ELSE staged[c]

Goto(t, from, to) ==
  /\ pc[t] = from
  /\ pc' = [pc EXCEPT ![t] = to]

\* The with statement is over and the UciBackend object is gone.
Leave(t, from, fate) ==
  /\ pc[t] = from
  /\ pc' = [pc EXCEPT ![t] = "idle"]
  /\ status' = [status EXCEPT ![tx[t]] = fate]
  /\ tx' = [tx EXCEPT ![t] = 0]
  /\ affected' = [affected EXCEPT ![t] = {}]
  /\ todo' = [todo EXCEPT ![t] = {}]
  /\ UNCHANGED wrote

Fault == faults < MaxFaults /\ faults' = faults + 1

NoFault == UNCHANGED <<faults, restarts>>

Init ==
  /\ lock = Free
  /\ disk = [c \in Config |-> {}]
  /\ staged = [c \in Config |-> NoChange]
  /\ stale = {}
  /\ pc = [t \in Thread |-> "idle"]
  /\ tx = [t \in Thread |-> 0]
  /\ affected = [t \in Thread |-> {}]
  /\ todo = [t \in Thread |-> {}]
  /\ status = [n \in Tx |-> "new"]
  /\ wrote = [n \in Tx |-> {}]
  /\ faults = 0
  /\ restarts = 0

-----------------------------------------------------------------------------
(* Faulty variants of the steps below, the bugs the properties guard.      *)

\* __enter__ that leaves what an earlier transaction staged
CleanupSkipped(t) ==
  /\ Goto(t, "cleanup", "body")
  /\ UNCHANGED <<lock, files, object, history>>
  /\ NoFault

\* __enter__ that does not take the lock
EnterUnlocked(t) ==
  /\ Goto(t, "enter", "cleanup")
  /\ UNCHANGED <<lock, files, object, history>>
  /\ NoFault

\* __exit__ that returns early when the body raised
ExitRaisedHoldingLock(t) ==
  /\ Leave(t, "raised", "aborted")
  /\ UNCHANGED <<lock, files>>
  /\ NoFault

\* commit() that fails but lets the next transaction in
CommitFailsReleasing(t, c) ==
  /\ Fault
  /\ c \in todo[t]
  /\ Leave(t, "commit", "failed")
  /\ \/ UNCHANGED <<disk, stale>>
     \/ disk' = [disk EXCEPT ![c] = View(c)] /\ stale' = stale \cup {c}
  /\ lock' = Free
  /\ UNCHANGED <<staged, restarts>>

\* an operation that forgets affected_configs.add(config)
StageUnrecorded(t, c) ==
  /\ pc[t] = "body"
  /\ staged' = [staged EXCEPT ![c] = View(c) \cup {tx[t]}]
  /\ wrote' = [wrote EXCEPT ![tx[t]] = @ \cup {c}]
  /\ UNCHANGED <<lock, disk, stale, pc, object, status>>
  /\ NoFault

-----------------------------------------------------------------------------
(* Entering                                                                *)

\* UciBackend(): a fresh object, and the call of __enter__
Begin(t) ==
  /\ Goto(t, "idle", "enter")
  /\ \E n \in Tx :
       /\ status[n] = "new"
       /\ \A m \in Tx : m < n => status[m] # "new"
       /\ tx' = [tx EXCEPT ![t] = n]
       /\ status' = [status EXCEPT ![n] = "running"]
  /\ UNCHANGED <<lock, files, affected, todo, wrote>>
  /\ NoFault

Enter(t) ==
  /\ lock = Free
  /\ lock' = t
  /\ Goto(t, "enter", "cleanup")
  /\ UNCHANGED <<files, object, history>>
  /\ NoFault

\* _cleanup() removes whatever earlier transactions left in CHANGES_DIR.
Cleanup(t) ==
  /\ Goto(t, "cleanup", "body")
  /\ staged' = [c \in Config |-> NoChange]
  /\ UNCHANGED <<lock, disk, stale, object, history>>
  /\ NoFault

\* os.listdir() or os.remove() raises part way: __enter__ raises, so __exit__
\* is never called and the lock stays taken.
CleanupFails(t) ==
  /\ Fault
  /\ Leave(t, "cleanup", "aborted")
  /\ \E left \in SUBSET Config :
       staged' = [c \in Config |-> IF c \in left THEN staged[c] ELSE NoChange]
  /\ UNCHANGED <<lock, disk, stale, restarts>>

-----------------------------------------------------------------------------
(* The body                                                                *)

\* add_section, del_section, set_option, del_option, add_to_list,
\* del_from_list and replace_list, successful: read, modify, stage
Stage(t, c) ==
  /\ pc[t] = "body"
  /\ staged' = [staged EXCEPT ![c] = View(c) \cup {tx[t]}]
  /\ affected' = [affected EXCEPT ![t] = @ \cup {c}]
  /\ wrote' = [wrote EXCEPT ![tx[t]] = @ \cup {c}]
  /\ UNCHANGED <<lock, disk, stale, pc, tx, todo, status>>
  /\ NoFault

\* the uci command failed and nobody asks (fail_on_error=False): the config
\* counts as affected all the same
StageIgnored(t, c) ==
  /\ pc[t] = "body"
  /\ affected' = [affected EXCEPT ![t] = @ \cup {c}]
  /\ UNCHANGED <<lock, files, pc, tx, todo, history>>
  /\ NoFault

\* UciException: the first values of add_to_list, or the deletion of
\* replace_list, may be staged already; the caller catches it or not.
StageFails(t, c) ==
  /\ pc[t] = "body"
  /\ \/ UNCHANGED staged
     \/ staged' = [staged EXCEPT ![c] = View(c) \cup {tx[t]}]
  /\ \/ UNCHANGED pc
     \/ pc' = [pc EXCEPT ![t] = "raised"]
  /\ UNCHANGED <<lock, disk, stale, object, history>>
  /\ NoFault

\* import_data() writes the file at once, whatever becomes of the transaction,
\* and none of the earlier changes is in it.  Its callers stage nothing else.
import_data(t, c) ==
  /\ pc[t] = "body"
  /\ staged[c] = NoChange
  /\ disk' = [disk EXCEPT ![c] = {}]
  /\ wrote' = [n \in Tx |-> wrote[n] \ {c}]
  /\ UNCHANGED <<lock, staged, stale, pc, object, status>>
  /\ NoFault

\* any other exception raised by the code inside the with statement
Raise(t) ==
  /\ Goto(t, "body", "raised")
  /\ UNCHANGED <<lock, files, object, history>>
  /\ NoFault

-----------------------------------------------------------------------------
(* Leaving: __exit__ and commit                                            *)

\* __exit__ without exception: commit() if something was changed
ExitClean(t) ==
  /\ Goto(t, "body", IF affected[t] # {} THEN "commit" ELSE "release")
  /\ todo' = [todo EXCEPT ![t] = affected[t]]
  /\ status' = [status EXCEPT ![tx[t]] = "committing"]
  /\ UNCHANGED <<lock, files, tx, affected, wrote>>
  /\ NoFault

\* __exit__ with an exception: nothing is committed, the lock is released
ExitRaised(t) ==
  /\ Leave(t, "raised", "aborted")
  /\ lock' = Free
  /\ UNCHANGED files
  /\ NoFault

\* "uci commit" makes the staged content the file and "uci revert" cleans the
\* changes directory; then the next config, or the end of the loop.
CommitConfig(t, c) ==
  /\ c \in todo[t]
  /\ Goto(t, "commit", IF todo[t] = {c} THEN "reload" ELSE "commit")
  /\ disk' = [disk EXCEPT ![c] = View(c)]
  /\ staged' = [staged EXCEPT ![c] = NoChange]
  /\ stale' = stale \cup {c}
  /\ todo' = [todo EXCEPT ![t] = @ \ {c}]
  /\ UNCHANGED <<lock, tx, affected, history>>
  /\ NoFault

\* UciException of either call: it leaves __exit__ before the lock is released.
CommitFails(t, c) ==
  /\ Fault
  /\ c \in todo[t]
  /\ Leave(t, "commit", "failed")
  /\ \/ UNCHANGED <<disk, stale>>
     \/ disk' = [disk EXCEPT ![c] = View(c)] /\ stale' = stale \cup {c}
  /\ UNCHANGED <<lock, staged, restarts>>

\* reload_config: a failure is logged and ignored
Reload(t) ==
  /\ Goto(t, "reload", "release")
  /\ stale' = {}
  /\ UNCHANGED <<lock, disk, staged, object, history>>
  /\ NoFault

Release(t) ==
  /\ Leave(t, "release", "committed")
  /\ lock' = Free
  /\ UNCHANGED files
  /\ NoFault

-----------------------------------------------------------------------------
\* The controller is killed and started again: locks are new, files stay.
Restart ==
  /\ restarts < MaxRestarts
  /\ restarts' = restarts + 1
  /\ lock' = Free
  /\ pc' = [t \in Thread |-> "idle"]
  /\ tx' = [t \in Thread |-> 0]
  /\ affected' = [t \in Thread |-> {}]
  /\ todo' = [t \in Thread |-> {}]
  /\ status' = [n \in Tx |-> CASE status[n] = "running" -> "aborted"
                               [] status[n] = "committing" -> "failed"
                               [] OTHER -> status[n]]
  /\ UNCHANGED <<files, wrote, faults>>

Body(t) ==
  \E c \in Config :
    Stage(t, c) \/ StageIgnored(t, c) \/ StageFails(t, c) \/ import_data(t, c)

Exit(t) == ExitClean(t) \/ Raise(t)

Finish(t) ==
  \/ Cleanup(t) \/ CleanupFails(t)
  \/ ExitRaised(t)
  \/ \E c \in Config : CommitConfig(t, c) \/ CommitFails(t, c)
  \/ Reload(t) \/ Release(t)

Next ==
  \/ \E t \in Thread : Begin(t) \/ Enter(t) \/ Body(t) \/ Exit(t) \/ Finish(t)
  \/ Restart

Spec == Init /\ [][Next]_vars

\* uci_lock starves nobody, a body ends, and the thread runs on from there.
FairSpec ==
  /\ Spec
  /\ \A t \in Thread : SF_vars(Enter(t)) /\ WF_vars(Exit(t)) /\ WF_vars(Finish(t))

-----------------------------------------------------------------------------
(* Properties                                                              *)

\* Types of the lock, the files and the transactions.
TypeOK ==
  /\ lock \in Thread \cup {Free}
  /\ disk \in [Config -> SUBSET Tx]
  /\ staged \in [Config -> (SUBSET Tx) \cup {NoChange}]
  /\ stale \in SUBSET Config
  /\ pc \in [Thread -> Label]
  /\ tx \in [Thread -> Tx \cup {0}]
  /\ affected \in [Thread -> SUBSET Config]
  /\ todo \in [Thread -> SUBSET Config]
  /\ status \in [Tx -> Status]
  /\ wrote \in [Tx -> SUBSET Config]
  /\ faults \in Nat
  /\ restarts \in Nat

\* What a transaction staged before it raised an exception (or before the
\* controller was killed) never reaches a configuration file, although
\* __exit__ leaves it in CHANGES_DIR for the next transaction to find.
NoAbortedChange ==
  \A n \in Tx, c \in Config : status[n] = "aborted" => n \notin disk[c]

\* Read-modify-write bodies of concurrent requests do not lose each other's
\* updates: what a successful transaction changed stays in the file until an
\* import replaces the whole file.
NoLostUpdate ==
  \A n \in Tx : status[n] = "committed" => \A c \in wrote[n] : n \in disk[c]

\* While a body runs, no other transaction changes what it has read: a file
\* changes under it only by its own import.
RepeatableRead ==
  [][\A t \in Thread : pc[t] = "body" /\ pc'[t] = "body" =>
       \A c \in Config : disk'[c] \in {disk[c], {}}]_vars

\* The files a body reads hold another transaction whole or not at all.  When
\* commit() fails half way they do not, and nothing repairs them: the lock that
\* leaks then keeps every later body away from them, until a restart.
SeenWhole ==
  restarts = 0 => \A t \in Thread : pc[t] = "body" =>
    \A n \in Tx : \A c, d \in wrote[n] : n \in disk[c] => n \in disk[d]

\* uci_lock stays taken by a thread that left its transaction only after a
\* failing file operation in _cleanup() or a failing uci call in commit().
LeakOnlyAfterFault ==
  lock # Free /\ pc[lock] \notin Inside => faults > 0

\* Every request that needs a transaction gets the lock and gets through.
EveryTransactionEnds ==
  \A t \in Thread : pc[t] = "enter" ~> pc[t] = "idle"

-----------------------------------------------------------------------------
(* The inductive invariant behind NoAbortedChange and NoLostUpdate         *)

Decided == {"committing", "committed", "failed"}

\* Whoever is between acquire and release owns uci_lock.
HolderInside == \A t \in Thread : pc[t] \in Inside => lock = t

\* Each thread runs a transaction of its own, in the state pc says.
OwnTransaction ==
  /\ \A t \in Thread :
       /\ pc[t] \in {"enter", "cleanup", "body", "raised"} =>
            tx[t] \in Tx /\ status[tx[t]] = "running"
       /\ pc[t] \in {"commit", "reload", "release"} =>
            tx[t] \in Tx /\ status[tx[t]] = "committing"
  /\ \A t, u \in Thread :
       t # u /\ pc[t] # "idle" /\ pc[u] # "idle" => tx[t] # tx[u]

\* Only transactions whose commit() began are in the files.
DiskDecided == \A c \in Config : \A n \in disk[c] : status[n] \in Decided

\* Between _cleanup() and the end of commit(), CHANGES_DIR extends the files
\* by changes of the running transaction only.
StagedOwn ==
  \A t \in Thread : pc[t] \in {"body", "commit"} =>
    \A c \in Config : staged[c] # NoChange =>
      /\ disk[c] \subseteq staged[c]
      /\ staged[c] \subseteq disk[c] \cup {tx[t]}

\* What a transaction changed is staged, then committed, and never dropped.
WroteKept ==
  /\ \A n \in Tx : status[n] = "new" => wrote[n] = {}
  /\ \A t \in Thread :
       /\ pc[t] \in {"enter", "cleanup"} => wrote[tx[t]] = {}
       /\ pc[t] = "body" => \A c \in wrote[tx[t]] :
            c \in affected[t] /\ staged[c] # NoChange /\ tx[t] \in staged[c]
       /\ pc[t] = "commit" => \A c \in wrote[tx[t]] :
            \/ c \in todo[t] /\ staged[c] # NoChange /\ tx[t] \in staged[c]
            \/ tx[t] \in disk[c]
       /\ pc[t] \in {"reload", "release"} => \A c \in wrote[tx[t]] : tx[t] \in disk[c]

IInv ==
  /\ TypeOK
  /\ HolderInside
  /\ OwnTransaction
  /\ DiskDecided
  /\ StagedOwn
  /\ WroteKept
  /\ NoLostUpdate
  /\ LeakOnlyAfterFault

-----------------------------------------------------------------------------
(* Without faults and restarts the files change like a ConfigStore: a      *)
(* transaction takes effect when commit() starts.                          *)

Committed(c) ==
  IF \E t \in Thread : c \in todo[t] THEN View(c) ELSE disk[c]

Store == INSTANCE ConfigStore WITH store <- [c \in Config |-> Committed(c)]

\* Files written one by one by commit() look like one atomic update.
RefinesConfigStore == Store!Spec
=============================================================================
