----------------------------- MODULE HttpServer -----------------------------
(***************************************************************************)
(* web/httpserver.cpp, HttpServer::Private::run and ::terminate: the accept *)
(* loop of the server thread, and how other threads (the signal handler of  *)
(* server/main.cpp, the hotplug notifiers, the /reset page) make it return. *)
(*                                                                         *)
(* terminate() either stores mTerminationStatus, when the loop is not       *)
(* running, or writes the status into a pipe the loop polls.  The stores    *)
(* to mRunning, mPipeWriteFd and mTerminationStatus are steps of their own. *)
(***************************************************************************)
EXTENDS Naturals, Sequences

CONSTANTS
    Terminators,   \* threads that call terminate()
    Handlers,      \* connections that may be served at the same time
    Failures       \* BOOLEAN: can system calls of run() fail?

ASSUME FailuresAssumption == Failures \in BOOLEAN

Signals == {"HUP", "TERM"}

VARIABLES
    mRunning, mTerminationStatus,
    mPipeWriteFd,    \* "none" (-1), "open", or "closed": the number of a closed fd
    pipe,            \* what has been written to the pipe and not been read
    readable,        \* the read end of the pipe is open
    spc,             \* where the server thread is
    runOk,           \* what HttpServer::run returned
    tpc, asks,       \* each terminator: position and the status it asks for
    hpc              \* each connection: "free", or where its thread is

\* The process has neither returned from main() nor crashed.
Alive == spc \notin {"finished", "crashed"}

http == <<mRunning, mTerminationStatus, mPipeWriteFd, pipe, readable>>

HttpInit ==
    /\ mRunning = FALSE /\ mTerminationStatus = "zero"
    /\ mPipeWriteFd = "none" /\ pipe = <<>> /\ readable = FALSE
    /\ runOk = TRUE
    /\ tpc = [t \in Terminators |-> "idle"]
    /\ asks = [t \in Terminators |-> "HUP"]
    /\ hpc = [h \in Handlers |-> "free"]

HttpTypeOK ==
    /\ mRunning \in BOOLEAN /\ readable \in BOOLEAN /\ runOk \in BOOLEAN
    /\ mTerminationStatus \in Signals \cup {"zero", "error"}
    /\ mPipeWriteFd \in {"none", "open", "closed"}
    /\ pipe \in Seq(Signals)
    /\ tpc \in [Terminators -> {"idle", "sleep", "check", "write"}]
    /\ asks \in [Terminators -> Signals]

-----------------------------------------------------------------------------
(* Private::terminate, called by t with asks[t] *)

\* Not running: the status is stored.  Otherwise the pipe will be written to.
TerminateCheck(t) ==
    /\ Alive /\ tpc[t] = "check"
    /\ IF mRunning
       THEN tpc' = [tpc EXCEPT ![t] = "write"] /\ UNCHANGED mTerminationStatus
       ELSE tpc' = [tpc EXCEPT ![t] = "idle"] /\ mTerminationStatus' = asks[t]
    /\ UNCHANGED <<mRunning, mPipeWriteFd, pipe, readable, spc, runOk, asks, hpc>>

\* A write to a descriptor that is not or no longer there is lost.
TerminateWrite(t) ==
    /\ Alive /\ tpc[t] = "write"
    /\ tpc' = [tpc EXCEPT ![t] = "idle"]
    /\ pipe' = IF mPipeWriteFd = "open" /\ readable THEN Append(pipe, asks[t]) ELSE pipe
    /\ UNCHANGED <<mRunning, mTerminationStatus, mPipeWriteFd, readable, spc, runOk,
                   asks, hpc>>

-----------------------------------------------------------------------------
(* Private::run: from spc = "run" to spc = "ran" *)

\* compare_exchange_strong on mRunning; a loop that is running already is an error.
RunEnter ==
    /\ spc = "run"
    /\ mRunning' = TRUE
    /\ IF mRunning THEN spc' = "ran" /\ mTerminationStatus' = "error" /\ runOk' = FALSE
                   ELSE spc' = "pipe" /\ UNCHANGED <<mTerminationStatus, runOk>>
    /\ UNCHANGED <<mPipeWriteFd, pipe, readable, tpc, asks, hpc>>

\* pipe() fails: mRunning stays set.
RunPipe ==
    /\ spc = "pipe"
    /\ \/ /\ readable' = TRUE /\ pipe' = <<>>
          /\ mPipeWriteFd' = "open"
          /\ spc' = "status"
          /\ UNCHANGED <<mTerminationStatus, runOk>>
       \/ /\ Failures
          /\ mTerminationStatus' = "error" /\ runOk' = FALSE
          /\ spc' = "ran"
          /\ UNCHANGED <<readable, pipe, mPipeWriteFd>>
    /\ UNCHANGED <<mRunning, tpc, asks, hpc>>

RunStatus ==
    /\ spc = "status"
    /\ mTerminationStatus' = "zero"
    /\ spc' = "listen"
    /\ UNCHANGED <<mRunning, mPipeWriteFd, pipe, readable, runOk, tpc, asks, hpc>>

\* The addresses are determined and a socket is opened for each of them.
RunListen ==
    /\ spc = "listen"
    /\ \/ spc' = "poll" /\ runOk' = TRUE
       \/ Failures /\ spc' = "leave" /\ runOk' = FALSE
    /\ UNCHANGED <<http, tpc, asks, hpc>>

\* poll() reports the pipe, which is looked at first: read a status and leave.
PollPipe ==
    /\ spc = "poll" /\ pipe # <<>>
    /\ \/ mTerminationStatus' = Head(pipe) /\ pipe' = Tail(pipe) /\ UNCHANGED runOk
       \/ Failures /\ runOk' = FALSE /\ UNCHANGED <<mTerminationStatus, pipe>>
    /\ spc' = "leave"
    /\ UNCHANGED <<mRunning, mPipeWriteFd, readable, tpc, asks, hpc>>

\* poll() reports a connection only: a detached thread serves it.
PollAccept(h) ==
    /\ spc = "poll" /\ pipe = <<>>
    /\ hpc[h] = "free"
    /\ hpc' = [hpc EXCEPT ![h] = "accepted"]
    /\ UNCHANGED <<http, spc, runOk, tpc, asks>>

PollError ==
    /\ spc = "poll"
    /\ Failures
    /\ runOk' = FALSE
    /\ spc' = "leave"
    /\ UNCHANGED <<http, tpc, asks, hpc>>

\* The sockets and the read end are closed, with what the pipe still holds.
RunLeave ==
    /\ spc = "leave"
    /\ mTerminationStatus' = IF ~runOk /\ mTerminationStatus = "zero" THEN "error"
                             ELSE mTerminationStatus
    /\ readable' = FALSE /\ pipe' = <<>>
    /\ spc' = "closeWrite"
    /\ UNCHANGED <<mRunning, mPipeWriteFd, runOk, tpc, asks, hpc>>

RunCloseWrite ==
    /\ spc \in {"closeWrite", "noFd"}
    /\ mPipeWriteFd' = IF spc = "closeWrite" THEN "closed" ELSE "none"
    /\ spc' = IF spc = "closeWrite" THEN "noFd" ELSE "notRunning"
    /\ UNCHANGED <<mRunning, mTerminationStatus, pipe, readable, runOk, tpc, asks, hpc>>


RunReturn ==
    /\ spc = "notRunning"
    /\ mRunning' = FALSE
    /\ spc' = "ran"
    /\ UNCHANGED <<mTerminationStatus, mPipeWriteFd, pipe, readable, runOk, tpc, asks, hpc>>
=============================================================================
