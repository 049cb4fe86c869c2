--------------------------- MODULE XrayLifecycle ---------------------------
(***************************************************************************)
(* Start, stop, restart and exit of the bundled Xray core as scripts/gui.py*)
(* drives them.  Three kinds of thread share the App object: the Tk main   *)
(* thread (user commands and queued after(0) callbacks, one at a time),    *)
(* one reader thread per started core, and the children themselves.        *)
(*                                                                         *)
(* A reader fetches self.xray_process when it first runs, not when it was  *)
(* created, and reports through the queue; by the time its report is       *)
(* handled the user may have stopped that core and started another.        *)
(***************************************************************************)
EXTENDS ProcessSupervisor, Sequences

CONSTANT MaxEpochs   \* bound: launches of the GUI program

ASSUME LifecycleAssumption == MaxEpochs \in Nat

VARIABLES
  app,              \* "open", "closed" by close_app, or "killed"
  epoch,            \* which launch of the GUI this is
  born,             \* the launch that spawned a child (0: none yet)
  xray_process,     \* App.xray_process
  xray_supervisor,  \* App.xray_supervisor
  ui,               \* "idle", or "restarting" between disconnect and connect
  reader,           \* the reader thread started with each child
  bound,            \* the child that reader is reading
  uiq,              \* callbacks queued with after(0)
  stream_count      \* App.stream_count

guiVars == <<app, epoch, born, xray_process, xray_supervisor, ui, reader, bound,
             uiq, stream_count>>
vars == <<procVars, ebpfVars, guiVars>>

Event == {"line", "exit"} \X Procs

Init ==
  /\ EbpfInit
  /\ ProcInit
  /\ app = "open"
  /\ epoch = 1
  /\ born = [p \in Procs |-> 0]
  /\ xray_process = None
  /\ xray_supervisor = None
  /\ ui = "idle"
  /\ reader = [p \in Procs |-> "none"]
  /\ bound = [p \in Procs |-> None]
  /\ uiq = <<>>
  /\ stream_count = 0

xray_running_from_gui == xray_process # None /\ poll_is_none(xray_process)

\* The main thread is free to run a command or a callback.
UiIdle == app = "open" /\ ui = "idle"

-----------------------------------------------------------------------------
(* connect_xray.  Its early returns (already running, a listener on the    *)
(* port, no binary, no config, no key, preflight gate) change nothing here.*)

ConnectSpawns(p) ==
  /\ spawn(p)
  /\ xray_process' = p
  /\ xray_supervisor' = p
  /\ stream_count' = 0
  /\ born' = [born EXCEPT ![p] = epoch]
  /\ reader' = [reader EXCEPT ![p] = "starting"]

ConnectRaises ==
  /\ SpawnRaises
  /\ xray_process' = None
  /\ xray_supervisor' = None
  /\ UNCHANGED <<stream_count, born, reader>>

connect_xray ==
  /\ ~xray_running_from_gui
  /\ ~port_accepts_loopback
  /\ (\E p \in Procs : ConnectSpawns(p)) \/ ConnectRaises
  /\ UNCHANGED <<app, epoch, bound, uiq>>

Connect == UiIdle /\ connect_xray /\ UNCHANGED ui

-----------------------------------------------------------------------------
(* _stop_gui_xray on a child that poll() has just called running           *)

StopTerminates ==
  /\ terminate(xray_supervisor)
  /\ xray_process' = None
  /\ xray_supervisor' = None

\* The child exits between the caller's poll() and _stop_gui_xray's own: the
\* early return forgets it without calling terminate().
StopFindsExited ==
  /\ status' = [status EXCEPT ![xray_process] = "exited"]
  /\ listener' = IF listener = xray_process THEN None ELSE listener
  /\ UNCHANGED <<written, unread, ebpfVars>>
  /\ xray_process' = None
  /\ xray_supervisor' = None

_stop_gui_xray == StopTerminates \/ StopFindsExited

\* terminate() raises out of the command: nothing after it runs.
StopRaises ==
  /\ TerminateRaises(xray_supervisor)
  /\ UNCHANGED <<xray_process, xray_supervisor>>

\* disconnect_xray; when no core of ours runs it changes nothing, whatever
\* listens on the port.
disconnect_xray ==
  /\ xray_running_from_gui
  /\ _stop_gui_xray
  /\ stream_count' = 0

Disconnect ==
  /\ UiIdle
  /\ disconnect_xray
  /\ UNCHANGED <<app, epoch, born, ui, reader, bound, uiq>>

\* The same out of a restart or of close_app, whose window then stays open
DisconnectRaises ==
  /\ UiIdle
  /\ xray_running_from_gui
  /\ StopRaises
  /\ UNCHANGED <<app, epoch, born, ui, reader, bound, uiq, stream_count>>

\* apply_recommended_profile with a restart: disconnect_xray, then connect_xray
\* in the same callback.
RestartDisconnect ==
  /\ UiIdle
  /\ disconnect_xray
  /\ ui' = "restarting"
  /\ UNCHANGED <<app, epoch, born, reader, bound, uiq>>

RestartConnect ==
  /\ app = "open" /\ ui = "restarting"
  /\ ui' = "idle"
  /\ connect_xray

\* The old core still holds the port (or another took it): connect_xray reports
\* an external core and returns.
RestartRefused ==
  /\ app = "open" /\ ui = "restarting"
  /\ port_accepts_loopback
  /\ ui' = "idle"
  /\ UNCHANGED <<procVars, ebpfVars, app, epoch, born, xray_process,
                 xray_supervisor, reader, bound, uiq, stream_count>>

-----------------------------------------------------------------------------
(* The end of the GUI program.  Its threads and queue go with it; on       *)
(* Windows the kernel closes its job handles and ends the children.        *)

Gone(how) ==
  /\ app' = how
  /\ xray_process' = None
  /\ xray_supervisor' = None
  /\ ui' = "idle"
  /\ reader' = [p \in Procs |-> IF reader[p] = "none" THEN "none" ELSE "done"]
  /\ uiq' = <<>>
  /\ stream_count' = 0
  /\ UNCHANGED <<epoch, born, bound>>

KillOnJobClose(st) ==
  [p \in Procs |-> IF ~linux /\ st[p] = "running" THEN "dying" ELSE st[p]]

\* close_app with a running core: stop it, then destroy() the window.
CloseRunning ==
  /\ UiIdle
  /\ xray_running_from_gui
  /\ \/ terminate(xray_supervisor)
     \/ /\ status' = [status EXCEPT ![xray_process] = "exited"]
        /\ listener' = IF listener = xray_process THEN None ELSE listener
        /\ UNCHANGED <<written, unread, ebpfVars>>
  /\ Gone("closed")

CloseIdle ==
  /\ UiIdle
  /\ ~xray_running_from_gui
  /\ status' = KillOnJobClose(status)
  /\ UNCHANGED <<written, unread, listener, ebpfVars>>
  /\ Gone("closed")

\* The GUI process is killed or crashes at any point.
Killed ==
  /\ app = "open"
  /\ status' = KillOnJobClose(status)
  /\ UNCHANGED <<written, unread, listener, ebpfVars>>
  /\ Gone("killed")

Relaunch ==
  /\ app # "open" /\ epoch < MaxEpochs
  /\ app' = "open"
  /\ epoch' = epoch + 1
  /\ UNCHANGED <<procVars, ebpfVars, born, xray_process, xray_supervisor, ui,
                 reader, bound, uiq, stream_count>>

-----------------------------------------------------------------------------
(* _read_xray_output, the reader thread                                    *)

\* proc = self.xray_process, read when the thread gets to run
ReaderStarts(r) ==
  /\ app = "open" /\ reader[r] = "starting"
  /\ bound' = [bound EXCEPT ![r] = xray_process]
  /\ reader' = [reader EXCEPT ![r] = IF xray_process = None THEN "done" ELSE "reading"]
  /\ UNCHANGED <<procVars, ebpfVars, app, epoch, born, xray_process,
                 xray_supervisor, ui, uiq, stream_count>>

\* Mutant: the end of file is taken for a line.
ReaderPostsAtEof(r) ==
  LET p == bound[r] IN
  /\ reader[r] = "reading"
  /\ unread' = [unread EXCEPT ![p] = @ - 1]
  /\ uiq' = Append(uiq, <<"line", p>>)
  /\ UNCHANGED <<status, written, listener, ebpfVars, app, epoch, born, xray_process,
                 xray_supervisor, ui, reader, bound, stream_count>>

ReaderPosts(r) ==
  LET p == bound[r] IN
  /\ reader[r] = "reading" /\ unread[p] > 0
  /\ unread' = [unread EXCEPT ![p] = @ - 1]
  /\ uiq' = Append(uiq, <<"line", p>>)
  /\ UNCHANGED <<status, written, listener, ebpfVars, app, epoch, born, xray_process,
                 xray_supervisor, ui, reader, bound, stream_count>>

\* A line that does not decode raises out of the loop and ends the thread.
ReaderFails(r) ==
  LET p == bound[r] IN
  /\ reader[r] = "reading" /\ unread[p] > 0
  /\ unread' = [unread EXCEPT ![p] = @ - 1]
  /\ reader' = [reader EXCEPT ![r] = "failed"]
  /\ UNCHANGED <<status, written, listener, ebpfVars, app, epoch, born, xray_process,
                 xray_supervisor, ui, bound, uiq, stream_count>>

\* Mutant: the thread ends without a report.
ReaderEndsSilently(r) ==
  LET p == bound[r] IN
  /\ reader[r] = "reading"
  /\ unread[p] = 0 /\ status[p] \in {"dying", "exited"}
  /\ reader' = [reader EXCEPT ![r] = "done"]
  /\ UNCHANGED <<procVars, ebpfVars, app, epoch, born, xray_process,
                 xray_supervisor, ui, bound, uiq, stream_count>>

\* End of file: the pipe is drained and the child has closed its end.
ReaderEnds(r) ==
  LET p == bound[r] IN
  /\ reader[r] = "reading"
  /\ unread[p] = 0 /\ status[p] \in {"dying", "exited"}
  /\ reader' = [reader EXCEPT ![r] = "done"]
  /\ uiq' = Append(uiq, <<"exit", p>>)
  /\ UNCHANGED <<procVars, ebpfVars, app, epoch, born, xray_process,
                 xray_supervisor, ui, bound, stream_count>>

-----------------------------------------------------------------------------
(* Callbacks on the main thread                                            *)

_handle_xray_log_line ==
  /\ UiIdle /\ uiq # <<>> /\ Head(uiq)[1] = "line"
  /\ stream_count' = stream_count + 1
  /\ uiq' = Tail(uiq)
  /\ UNCHANGED <<procVars, ebpfVars, app, epoch, born, xray_process,
                 xray_supervisor, ui, reader, bound>>

\* Mutants: no test of which process the report is about, and everything under it.
HandleExitUnchecked ==
  /\ UiIdle /\ uiq # <<>> /\ Head(uiq)[1] = "exit"
  /\ xray_process' = None
  /\ xray_supervisor' = None
  /\ stream_count' = 0
  /\ uiq' = Tail(uiq)
  /\ UNCHANGED <<procVars, ebpfVars, app, epoch, born, ui, reader, bound>>
HandleExitOfOwnOnly ==
  /\ UiIdle /\ uiq # <<>> /\ Head(uiq)[1] = "exit"
  /\ LET same == xray_process = Head(uiq)[2] IN
     /\ xray_process' = IF same THEN None ELSE xray_process
     /\ xray_supervisor' = IF same THEN None ELSE xray_supervisor
     /\ stream_count' = IF same THEN 0 ELSE stream_count
  /\ uiq' = Tail(uiq)
  /\ UNCHANGED <<procVars, ebpfVars, app, epoch, born, ui, reader, bound>>

_handle_xray_exit ==
  /\ UiIdle /\ uiq # <<>> /\ Head(uiq)[1] = "exit"
  /\ LET same == xray_process = Head(uiq)[2] IN
     /\ xray_process' = IF same THEN None ELSE xray_process
     /\ xray_supervisor' = IF same THEN None ELSE xray_supervisor
  /\ stream_count' = 0
  /\ uiq' = Tail(uiq)
  /\ UNCHANGED <<procVars, ebpfVars, app, epoch, born, ui, reader, bound>>

-----------------------------------------------------------------------------
GuiStep ==
  \/ Connect \/ Disconnect \/ DisconnectRaises
  \/ RestartDisconnect \/ RestartConnect \/ RestartRefused
  \/ CloseRunning \/ CloseIdle \/ Killed \/ Relaunch
  \/ _handle_xray_log_line \/ _handle_xray_exit

ReaderStep ==
  \E r \in Procs : ReaderStarts(r) \/ ReaderPosts(r) \/ ReaderFails(r) \/ ReaderEnds(r)

ChildStep ==
  /\ UNCHANGED <<ebpfVars, guiVars>>
  /\ \/ \E p \in Procs : \/ Bind(p) \/ WriteLine(p) \/ BeginExit(p)
                         \/ ReleasePort(p) \/ Exit(p)
     \/ ExternalStarts
     \/ ExternalStops

LoaderStep ==
  /\ Loader
  /\ UNCHANGED <<procVars, guiVars>>

Next == GuiStep \/ ReaderStep \/ ChildStep \/ LoaderStep

Spec == Init /\ [][Next]_vars

\* The OS schedules the reader threads and finishes a dying child; Tk runs
\* queued callbacks and a command it has begun.  The user owes nothing.
Fairness ==
  /\ \A r \in Procs : WF_vars(ReaderStarts(r) \/ ReaderPosts(r) \/ ReaderEnds(r))
  /\ WF_vars(_handle_xray_log_line \/ _handle_xray_exit)
  /\ WF_vars(RestartConnect \/ RestartRefused)
  /\ \A p \in Procs : WF_vars(Exit(p) /\ UNCHANGED <<ebpfVars, guiVars>>)

FairSpec == Spec /\ Fairness
-----------------------------------------------------------------------------
(* Properties                                                              *)

\* The types of the App attributes, the children and the queue.
TypeOK ==
  /\ {linux, attached, pinned, supervisor_alive, loader_cut} \subseteq BOOLEAN
  /\ loader \in {"idle", "pinning", "marking", "detaching"}
  /\ refused \subseteq {"mark", "pin", "detach"}
  /\ status \in [Procs -> {"unborn", "running", "dying", "exited"}]
  /\ written \in [Procs -> Nat]
  /\ unread \in [Procs -> Nat]
  /\ listener \in Procs \cup {None, External}
  /\ app \in {"open", "closed", "killed"}
  /\ epoch \in Nat
  /\ born \in [Procs -> Nat]
  /\ xray_process \in Procs \cup {None}
  /\ xray_supervisor \in Procs \cup {None}
  /\ ui \in {"idle", "restarting"}
  /\ reader \in [Procs -> {"none", "starting", "reading", "failed", "done"}]
  /\ bound \in [Procs -> Procs \cup {None}]
  /\ uiq \in Seq(Event)
  /\ stream_count \in Nat

\* A core that this launch of the GUI started and that still serves is the one
\* the App object holds, with its supervisor: a late exit report of an earlier
\* core never makes the GUI forget the running one (gui.py:4885), and so the
\* user can always stop what the app started.
OwnedCoreIsTracked ==
  \A p \in Procs :
    app = "open" /\ born[p] = epoch /\ status[p] = "running"
      => xray_process = p /\ xray_supervisor = p

\* After close_app has run to its end no core that this launch started serves.
CloseLeavesNoCore ==
  app = "closed" => \A p \in Procs : born[p] = epoch => status[p] # "running"

\* With containment enabled, the filter does not drop the traffic of the core
\* the user has started, whatever earlier stops and exits did to the map and
\* whenever the loader ran, and however many updates of the map bpftool refused
\* before the last one.  It does between the loader's attach and its mark, or its
\* mark and its detach, after a run that was killed there or that detached
\* without an interface, and when bpftool refused the last mark alive, or a pin or
\* a detach of this filter: no caller looks (ebpf_containment.py:76).
CoreNotBlackholed ==
  (/\ xray_process # None /\ status[xray_process] = "running"
   /\ loader = "idle" /\ ~loader_cut /\ refused = {})
  => ~DropsTcp

\* Once no core is left and every report has been handled, the stream counter
\* is back at zero, although reports of a stopped core are handled after the
\* stop has reset it.
CountEndsAtZero ==
  (/\ xray_process = None
   /\ uiq = <<>>
   /\ \A r \in Procs : reader[r] \in {"none", "done"})
  => stream_count = 0

\* The GUI notices that its core has exited, unless the reader started with it
\* died of a line it could not decode.
ExitIsNoticed ==
  \A p \in Procs :
    (xray_process = p /\ status[p] = "exited")
      ~> (xray_process # p \/ reader[p] = "failed")

\* On Linux an automatic restart is refused only because somebody else holds the
\* port, another program or a core left by an earlier launch: disconnect_xray
\* has waited until the core it stops is gone (process_supervisor.py:208-220).
\* On Windows it has not, and the old core itself may refuse its successor.
RestartRefusedByOthers ==
  [][RestartRefused /\ linux => listener = External \/ born[listener] # epoch]_vars

\* What docs/intelligent-automation.md:122 says of the containment map, for a
\* core that ends by itself: once the GUI has taken note of the exit of its
\* core, supervisor_alive is 0.
ExitClearsLiveness ==
  [][_handle_xray_exit /\ xray_process # None /\ xray_process' = None /\ attached
       => ~supervisor_alive']_vars

\* What docs/reference/01-architecture-runtime-delivery.md:143-149 says of
\* "Stop / parent exit": once the GUI is gone its core is being ended too.
ParentExitEndsCore ==
  app # "open" => \A p \in Procs : status[p] # "running"
=============================================================================
