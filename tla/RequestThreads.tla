--------------------------- MODULE RequestThreads ---------------------------
(***************************************************************************)
(* The threads of a bus that serve requests, as the models of the settings *)
(* see them: a thread is idle, or its record says which step of the        *)
(* request's handler comes next and with which values.                     *)
(***************************************************************************)
EXTENDS Naturals

CONSTANTS
  Threads,     \* threads that serve requests
  MaxRequests  \* bound on the requests of a behaviour

VARIABLES
  thread,      \* what each thread still has to do
  requests     \* number of requests so far

Idle == [at |-> "idle"]

ThreadsInit ==
  /\ thread = [t \in Threads |-> Idle]
  /\ requests = 0

\* A request arrives at an idle thread.
NewRequest(t) ==
  /\ thread[t] = Idle
  /\ requests < MaxRequests
  /\ requests' = requests + 1

Then(t, next) == thread' = [thread EXCEPT ![t] = next]

\* The next step of a request that has begun.
Continue(t, at) ==
  /\ thread[t].at = at
  /\ UNCHANGED requests

OtherIsAt(t, at) == \E u \in Threads \ {t} : thread[u].at \in at

Quiet == \A t \in Threads : thread[t] = Idle
=============================================================================
