------------------------------ MODULE WifiScan ------------------------------
(***************************************************************************)
(* foris_controller_backends.cmdline.AsyncMultipleCommands with the scans  *)
(* of foris_controller_backends.wifi.WifiScanCommands as its user: one     *)
(* worker process runs a `ubus call iwinfo scan' for every device asked    *)
(* for, reports the result of each, and a last time when all are over.     *)
(*                                                                         *)
(* A result is the device it is about.  The output of a command is a pipe  *)
(* that the worker reads only when the command is over.                    *)
(***************************************************************************)
EXTENDS Naturals, Sequences, SequencesExt, FiniteSets, FiniteSetsExt

CONSTANTS
  Scans,         \* calls of scan_trigger
  Radio,         \* devices that can be asked for
  SCAN_BUFFER,   \* PROCESS_BUFFER of AsyncMultipleCommands, 20 in the code
  MaxCommands,   \* bound: commands of all scans together
  MaxQuestions   \* bound: calls of scan_status

ASSUME ScanAssumption == SCAN_BUFFER \in Nat \ {0} /\ MaxCommands \in Nat /\ MaxQuestions \in Nat

VARIABLES
  scan,       \* worker process of each scan
  wanted,     \* device_names of each scan
  remembered, \* processes, the oldest first
  radio,      \* how the command of each device goes, or went
  round,      \* commands this round of handle_subprocesses still has to look at
  handled,    \* commands whose output was processed
  found,      \* AsyncProcessData._data
  over,       \* AsyncProcessData._exited
  finished,   \* the scan_finished notification
  question,   \* a call of scan_status
  questions   \* how many there were

scanVars == <<scan, wanted, remembered, radio, round, handled, found, over, finished, question, questions>>

\* Exit codes are 0 for the first three, positive and negative (a signal).
Outcomes == {"results", "nothing", "garbage", "failed", "killed"}
CodeZero == {"results", "nothing", "garbage"}

NotFinished == [data |-> {}, success |-> FALSE, sent |-> FALSE]
NoQuestion == [at |-> "none", of |-> "none", answer |-> "none"]

ScanInit ==
  /\ scan = [s \in Scans |-> "none"]
  /\ wanted = [s \in Scans |-> {}]
  /\ remembered = <<>>
  /\ radio = [s \in Scans |-> [d \in Radio |-> "none"]]
  /\ round = [s \in Scans |-> {}]
  /\ handled = [s \in Scans |-> {}]
  /\ found = [s \in Scans |-> {}]
  /\ over = [s \in Scans |-> FALSE]
  /\ finished = [s \in Scans |-> NotFinished]
  /\ question = NoQuestion
  /\ questions = 0

Goes(s, from, to) == scan[s] = from /\ scan' = [scan EXCEPT ![s] = to]
Unasked == UNCHANGED <<question, questions>>

----------------------------------------------------------------------------
\* scan_trigger and start_process: the oldest scan makes room for the new one
scan_trigger(s, devices) ==
  /\ Goes(s, "none", "forked")
  /\ MapThenSumSet(LAMBDA r : Cardinality(wanted[r]), Scans) + Cardinality(devices) <= MaxCommands
  /\ wanted' = [wanted EXCEPT ![s] = devices]
  /\ remembered' = Append(IF Len(remembered) >= SCAN_BUFFER THEN Tail(remembered) ELSE remembered, s)
  /\ UNCHANGED <<radio, round, handled, found, over, finished>> /\ Unasked

\* reset_notify and ready.set(): the request is answered
ScanReady(s) ==
  /\ Goes(s, "forked", "ready")
  /\ UNCHANGED <<wanted, remembered, radio, round, handled, found, over, finished>> /\ Unasked

\* Popen of every command
ScanStarts(s) ==
  /\ Goes(s, "ready", "watching")
  /\ radio' = [radio EXCEPT ![s] = [d \in Radio |-> IF d \in wanted[s] THEN "running" ELSE "none"]]
  /\ UNCHANGED <<wanted, remembered, round, handled, found, over, finished>> /\ Unasked

\* external: a command ends
ScanEnds(s, d) ==
  /\ radio[s][d] = "running"
  /\ \E outcome \in Outcomes : radio' = [radio EXCEPT ![s][d] = outcome]
  /\ UNCHANGED <<scan, wanted, remembered, round, handled, found, over, finished>> /\ Unasked

\* external: a command writes more than the pipe takes and waits for a reader
ScanBlocks(s, d) ==
  /\ radio[s][d] = "running"
  /\ radio' = [radio EXCEPT ![s][d] = "blocked"]
  /\ UNCHANGED <<scan, wanted, remembered, round, handled, found, over, finished>> /\ Unasked

\* handle_subprocesses comes to a command, in no particular order: one that
\* is over and not handled yet is processed (process_output, handler_result)
Looks(s, d) == scan[s] \in {"watching", "last"} /\ d \in round[s]
Unhandled(s, d) == radio[s][d] \in Outcomes /\ d \notin handled[s]

handle_subprocess(s, d) ==
  /\ Looks(s, d) /\ (Unhandled(s, d) => radio[s][d] # "garbage")
  /\ round' = [round EXCEPT ![s] = @ \ {d}]
  /\ handled' = [handled EXCEPT ![s] = IF Unhandled(s, d) THEN @ \cup {d} ELSE @]
  /\ found' = [found EXCEPT ![s] = IF Unhandled(s, d) /\ radio[s][d] \in CodeZero THEN @ \cup {d} ELSE @]
  /\ UNCHANGED <<scan, wanted, remembered, radio, over, finished>> /\ Unasked

Running(s) == \E d \in wanted[s] : radio[s][d] \notin Outcomes

\* faulty: the loop ends with the commands, without a last look at them
LoopTestNoLastRound(s) ==
  /\ round[s] = {}
  /\ Goes(s, "watching", IF Running(s) THEN "watching" ELSE "last")
  /\ round' = [round EXCEPT ![s] = IF Running(s) THEN wanted[s] ELSE {}]
  /\ UNCHANGED <<wanted, remembered, radio, handled, found, over, finished>> /\ Unasked

\* the test of the loop, between two rounds: one more while a command runs,
\* and a last one after the loop
LoopTest(s) ==
  /\ round[s] = {}
  /\ Goes(s, "watching", IF Running(s) THEN "watching" ELSE "last")
  /\ round' = [round EXCEPT ![s] = wanted[s]]
  /\ UNCHANGED <<wanted, remembered, radio, handled, found, over, finished>> /\ Unasked

\* after the last round set_retval, whose maximum of no return codes raises,
\* and set_exited
LoopEnds(s) ==
  /\ round[s] = {} /\ wanted[s] # {}
  /\ Goes(s, "last", "exit")
  /\ over' = [over EXCEPT ![s] = TRUE]
  /\ UNCHANGED <<wanted, remembered, radio, round, handled, found, finished>> /\ Unasked

\* the maximum of the return codes is 0
RetvalIsZero(s) ==
  /\ \A d \in wanted[s] : radio[s][d] # "failed"
  /\ \E d \in wanted[s] : radio[s][d] \in CodeZero

\* handler_exit
ScanHandlerExit(s) ==
  /\ Goes(s, "exit", "done")
  /\ finished' = [finished EXCEPT ![s] = [data |-> found[s], success |-> RetvalIsZero(s), sent |-> TRUE]]
  /\ UNCHANGED <<wanted, remembered, radio, round, handled, found, over>> /\ Unasked

\* The worker raises: the notification sender, Popen, output that is no JSON,
\* a notification against the schema, or no device at all.  Its commands die
\* with it and nothing sets exited.
ScanDies(s) ==
  /\ \/ scan[s] \in {"forked", "ready", "exit"}
     \/ scan[s] = "last" /\ wanted[s] = {}
     \/ \E d \in wanted[s] : Looks(s, d) /\ Unhandled(s, d) /\ radio[s][d] \in CodeZero
  /\ scan' = [scan EXCEPT ![s] = "dead"]
  /\ radio' = [radio EXCEPT ![s] = [d \in Radio |-> IF @[d] \in Outcomes THEN @[d] ELSE "none"]]
  /\ UNCHANGED <<wanted, remembered, round, handled, found, over, finished>> /\ Unasked

----------------------------------------------------------------------------
\* scan_status: exited is read, then, when it is set, get_data(), which
\* AsyncProcessData does not have; and exited again
scan_status(s) ==
  /\ question.at = "none" /\ questions < MaxQuestions
  /\ scan[s] \notin {"none", "forked"}
  /\ questions' = questions + 1
  /\ question' = [at |-> IF s \in Range(remembered) THEN "exited" ELSE "none", of |-> s,
                  answer |-> IF s \in Range(remembered) THEN "none" ELSE "not_found"]
  /\ UNCHANGED <<scan, wanted, remembered, radio, round, handled, found, over, finished>>

StatusReadsExited ==
  /\ question.at = "exited"
  /\ question' = IF over[question.of] THEN [question EXCEPT !.at = "none", !.answer = "raised"]
                                      ELSE [question EXCEPT !.at = "again"]
  /\ UNCHANGED <<scan, wanted, remembered, radio, round, handled, found, over, finished, questions>>

StatusReadsAgain ==
  /\ question.at = "again"
  /\ question' = [question EXCEPT !.at = "none",
                                  !.answer = IF over[question.of] THEN "finished" ELSE "running"]
  /\ UNCHANGED <<scan, wanted, remembered, radio, round, handled, found, over, finished, questions>>

----------------------------------------------------------------------------
ScanWorker(s) ==
  \/ ScanReady(s) \/ ScanStarts(s) \/ LoopTest(s) \/ LoopEnds(s) \/ ScanHandlerExit(s)
  \/ \E d \in Radio : handle_subprocess(s, d)

\* what process_output raises on, it raises on when it comes to it
ScanRaises(s) ==
  /\ \/ wanted[s] = {}
     \/ \E d \in wanted[s] : Looks(s, d) /\ Unhandled(s, d) /\ radio[s][d] = "garbage"
  /\ ScanDies(s)

ScanNext ==
  \/ \E s \in Scans : \E devices \in SUBSET Radio : scan_trigger(s, devices)
  \/ \E s \in Scans : ScanWorker(s) \/ ScanDies(s) \/ scan_status(s)
  \/ \E s \in Scans, d \in Radio : ScanEnds(s, d) \/ ScanBlocks(s, d)
  \/ StatusReadsExited \/ StatusReadsAgain

\* the worker runs, and a command ends or blocks
ScanFairness ==
  \A s \in Scans :
    /\ WF_scanVars(ScanWorker(s)) /\ WF_scanVars(ScanRaises(s))
    /\ \A d \in Radio : WF_scanVars(ScanEnds(s, d) \/ ScanBlocks(s, d))

\* A scan that was started is reported: scan_finished has the result of every
\* command that ended well, however their ends and the rounds of the loop fall
\* together, and it says success only if no command failed (a command that a
\* signal killed does not count: its return code is negative and the maximum
\* overlooks it).  It is not reported when the worker raises, and never when
\* a command fills its pipe, because nobody reads that before the end.
ScanReported ==
  /\ [](\A s \in Scans : finished[s].sent =>
          /\ finished[s].data = {d \in wanted[s] : radio[s][d] \in {"results", "nothing"}}
          /\ finished[s].success => \A d \in wanted[s] \ finished[s].data : radio[s][d] = "killed")
  /\ \A s \in Scans : (scan[s] = "watching") ~>
       (finished[s].sent \/ scan[s] = "dead" \/ \E d \in wanted[s] : radio[s][d] = "blocked")
=============================================================================
