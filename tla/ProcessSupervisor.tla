------------------------- MODULE ProcessSupervisor -------------------------
(***************************************************************************)
(* The Xray children of scripts/core/process_supervisor.py and the ground  *)
(* they share with the rest of the machine: the loopback proxy port and    *)
(* the stdout pipe.  One ProcessSupervisor object owns one child, so both  *)
(* are named by the same number: the order of the spawns.                  *)
(*                                                                         *)
(* A child that is on its way out is "dying": poll() still says it runs    *)
(* while its descriptors, port included, are being closed.                 *)
(***************************************************************************)
EXTENDS EbpfContainment

CONSTANTS
  MaxSpawns,    \* bound: children spawned
  MaxLines      \* bound: "accepted" lines a child writes

ASSUME SupervisorAssumption == MaxSpawns \in Nat /\ MaxLines \in Nat

Procs == 1 .. MaxSpawns
None == 0
External == MaxSpawns + 1   \* a core this program did not launch

VARIABLES
  status,    \* per child: "unborn", "running", "dying" or "exited"
  written,   \* lines a child has written so far
  unread,    \* lines in a child's stdout pipe
  listener   \* who accepts on the proxy port

procVars == <<status, written, unread, listener>>

ProcInit ==
  /\ status = [p \in Procs |-> "unborn"]
  /\ written = [p \in Procs |-> 0]
  /\ unread = [p \in Procs |-> 0]
  /\ listener \in {None, External}

poll_is_none(p) == status[p] \in {"running", "dying"}

port_accepts_loopback == listener # None

\* The next child; numbers are handed out in order.
Fresh(p) == status[p] = "unborn" /\ \A q \in Procs : q < p => status[q] # "unborn"

-----------------------------------------------------------------------------
(* The supervisor's methods                                                *)

\* spawn(): the containment hook runs first, then Popen (and on Windows the
\* job-object assignment) succeeds.
spawn(p) ==
  /\ Fresh(p)
  /\ on_supervisor_start
  /\ status' = [status EXCEPT ![p] = "running"]
  /\ UNCHANGED <<written, unread, listener>>

\* spawn() raises.  Without a binary it does so before the hook; a failing
\* Popen, or a child that cannot join its job and is killed, comes after it.
SpawnRaises ==
  /\ \/ UNCHANGED ebpfVars
     \/ on_supervisor_start
  /\ UNCHANGED procVars

\* Mutant: the signal is sent and nothing awaited.
TerminateUnawaited(p) ==
  /\ linux
  /\ status' = [status EXCEPT ![p] = "dying"]
  /\ UNCHANGED listener
  /\ on_supervisor_stop(IfaceConfigured)

\* terminate() on Linux: SIGTERM, then SIGKILL, each awaited; it returns with
\* the child reaped and the hook run.
TerminatePosix(p) ==
  /\ linux
  /\ status' = [status EXCEPT ![p] = "exited"]
  /\ listener' = IF listener = p THEN None ELSE listener
  /\ on_supervisor_stop(IfaceConfigured)

\* terminate() on Windows: TerminateJobObject only starts the end of the child.
TerminateWindows(p) ==
  /\ ~linux
  /\ status' = [status EXCEPT ![p] = "dying"]
  /\ UNCHANGED listener
  /\ on_supervisor_stop(IfaceConfigured)

terminate(p) ==
  /\ TerminatePosix(p) \/ TerminateWindows(p)
  /\ UNCHANGED <<written, unread>>

\* The second wait() of _terminate_posix_group times out and terminate raises:
\* SIGKILL is pending, the hook has not run.
TerminateRaises(p) ==
  /\ linux
  /\ status' = [status EXCEPT ![p] = "dying"]
  /\ UNCHANGED <<written, unread, listener, ebpfVars>>

-----------------------------------------------------------------------------
(* What the children and other programs do by themselves                   *)

Bind(p) ==
  /\ status[p] = "running" /\ listener = None
  /\ listener' = p
  /\ UNCHANGED <<status, written, unread>>

\* A line that announces an accepted stream; the others leave no trace in the
\* modelled state
WriteLine(p) ==
  /\ status[p] = "running" /\ written[p] < MaxLines
  /\ written' = [written EXCEPT ![p] = @ + 1]
  /\ unread' = [unread EXCEPT ![p] = @ + 1]
  /\ UNCHANGED <<status, listener>>

\* A crash, a rejected config, a port already taken, or a signal
BeginExit(p) ==
  /\ status[p] = "running"
  /\ status' = [status EXCEPT ![p] = "dying"]
  /\ UNCHANGED <<written, unread, listener>>

ReleasePort(p) ==
  /\ status[p] = "dying" /\ listener = p
  /\ listener' = None
  /\ UNCHANGED <<status, written, unread>>

Exit(p) ==
  /\ status[p] = "dying"
  /\ status' = [status EXCEPT ![p] = "exited"]
  /\ listener' = IF listener = p THEN None ELSE listener
  /\ UNCHANGED <<written, unread>>

ExternalStarts ==
  /\ listener = None
  /\ listener' = External
  /\ UNCHANGED <<status, written, unread>>

ExternalStops ==
  /\ listener = External
  /\ listener' = None
  /\ UNCHANGED <<status, written, unread>>
=============================================================================
