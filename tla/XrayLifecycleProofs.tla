------------------------ MODULE XrayLifecycleProofs ------------------------
(***************************************************************************)
(* Proofs about the life of the app's Xray core, for any number of spawns, *)
(* log lines and launches of the GUI.                                      *)
(***************************************************************************)
EXTENDS XrayLifecycle, TLAPS

LEMMA ProcsFacts == /\ \A p \in Procs : p \in Nat /\ p # None /\ p # External
                    /\ None # External
  BY SupervisorAssumption DEF Procs, None, External

(***************************************************************************)
(* The steps of Next, one name each, with what they leave alone.           *)
(***************************************************************************)
LEMMA NextCases ==
  ASSUME Next
  PROVE  \/ Connect \/ Disconnect \/ DisconnectRaises
         \/ RestartDisconnect \/ RestartConnect \/ RestartRefused
         \/ CloseRunning \/ CloseIdle \/ Killed \/ Relaunch
         \/ _handle_xray_log_line \/ _handle_xray_exit
         \/ (\E r \in Procs : ReaderStarts(r) \/ ReaderPosts(r) \/ ReaderFails(r) \/ ReaderEnds(r))
         \/ ChildStep \/ LoaderStep
  BY DEF Next, GuiStep, ReaderStep

(***************************************************************************)
(* Types                                                                   *)
(***************************************************************************)
\* The types of the containment's variables
FilterType ==
  /\ {linux, attached, pinned, supervisor_alive, loader_cut} \subseteq BOOLEAN
  /\ loader \in {"idle", "pinning", "marking", "detaching"}
  /\ refused \subseteq {"mark", "pin", "detach"}

LEMMA EbpfTypes ==
  ASSUME FilterType
  PROVE  /\ on_supervisor_start => FilterType'
         /\ \A i \in BOOLEAN : on_supervisor_stop(i) => FilterType'
         /\ Loader => FilterType'
         /\ UNCHANGED ebpfVars => FilterType'
<1>1. /\ mark_supervisor_alive => /\ supervisor_alive' \in BOOLEAN
                                  /\ refused' \subseteq {"mark", "pin", "detach"}
      /\ mark_supervisor_dead => supervisor_alive' \in BOOLEAN
  BY DEF mark_supervisor_alive, mark_supervisor_dead, MapUpdate, FilterType
<1>2. detach_containment => /\ attached' \in BOOLEAN /\ pinned' \in BOOLEAN
                            /\ refused' \subseteq {"mark", "pin", "detach"}
  BY DEF detach_containment, FilterType
<1>3. on_supervisor_start => FilterType'
  BY <1>1 DEF on_supervisor_start, FilterType
<1>4. ASSUME NEW i \in BOOLEAN, on_supervisor_stop(i) PROVE FilterType'
  BY <1>1, <1>4, <1>2 DEF on_supervisor_stop, FilterType
<1>5. ASSUME LoaderAttaches \/ LoaderPins \/ LoaderKilled PROVE FilterType'
  BY <1>5 DEF LoaderAttaches, LoaderPins, LoaderKilled, FilterType
<1>6. ASSUME LoaderMarksAlive \/ LoaderMarksDead PROVE FilterType'
  BY <1>1, <1>6 DEF LoaderMarksAlive, LoaderMarksDead, FilterType
<1>7. ASSUME NEW iface \in BOOLEAN, LoaderDetaches(iface) PROVE FilterType'
  BY <1>7, <1>2 DEF LoaderDetaches, FilterType
<1>8. UNCHANGED ebpfVars => FilterType'
  BY DEF ebpfVars, FilterType
<1>9. QED
  BY <1>3, <1>4, <1>5, <1>6, <1>7, <1>8 DEF Loader

\* The types of the children's variables and of the containment's
WorldType ==
  /\ FilterType
  /\ status \in [Procs -> {"unborn", "running", "dying", "exited"}]
  /\ written \in [Procs -> Nat]
  /\ unread \in [Procs -> Nat]
  /\ listener \in Procs \cup {None, External}

LEMMA SupervisorTypes ==
  ASSUME WorldType
  PROVE  /\ \A p \in Procs : spawn(p) \/ terminate(p) \/ TerminateRaises(p) => WorldType'
         /\ SpawnRaises => WorldType'
<1>1. ASSUME NEW p \in Procs, spawn(p) PROVE WorldType'
  BY <1>1, EbpfTypes DEF spawn, WorldType
<1>2. ASSUME NEW p \in Procs, terminate(p) PROVE WorldType'
  <2>1. on_supervisor_stop(IfaceConfigured)
    BY <1>2 DEF terminate, TerminatePosix, TerminateWindows
  <2>2. FilterType'
    BY <2>1, EbpfTypes, EbpfAssumption DEF WorldType
  <2>3. QED
    BY <1>2, <2>2 DEF terminate, TerminatePosix, TerminateWindows, WorldType
<1>3. ASSUME NEW p \in Procs, TerminateRaises(p) PROVE WorldType'
  BY <1>3, EbpfTypes DEF TerminateRaises, WorldType
<1>4. ASSUME SpawnRaises PROVE WorldType'
  BY <1>4, EbpfTypes DEF SpawnRaises, WorldType, ebpfVars, procVars
<1>5. QED
  BY <1>1, <1>2, <1>3, <1>4

LEMMA ChildTypes == WorldType /\ ChildStep => WorldType'
  BY EbpfTypes DEF ChildStep, WorldType, Bind, WriteLine, BeginExit, ReleasePort, Exit,
     ExternalStarts, ExternalStops

\* The two attributes that name the core agree, and a reader reads a child.
Paired ==
  /\ xray_supervisor = xray_process
  /\ \A r \in Procs : reader[r] = "reading" => bound[r] \in Procs

\* The types of the attributes of the App object, the queue apart
AppType ==
  /\ app \in {"open", "closed", "killed"}
  /\ epoch \in Nat
  /\ born \in [Procs -> Nat]
  /\ xray_process \in Procs \cup {None}
  /\ xray_supervisor \in Procs \cup {None}
  /\ ui \in {"idle", "restarting"}
  /\ reader \in [Procs -> {"none", "starting", "reading", "failed", "done"}]
  /\ bound \in [Procs -> Procs \cup {None}]
  /\ stream_count \in Nat

TypePaired == TypeOK /\ Paired

LEMMA TypeParts == TypeOK <=> WorldType /\ AppType /\ uiq \in Seq(Event)
  BY DEF TypeOK, WorldType, FilterType, AppType

LEMMA TypePartsNext == (WorldType /\ AppType /\ uiq \in Seq(Event))' => TypeOK'
  BY DEF TypeOK, WorldType, FilterType, AppType

LEMMA GoneTypes ==
  ASSUME AppType, NEW how \in {"closed", "killed"}, Gone(how), WorldType'
  PROVE  AppType' /\ uiq' \in Seq(Event) /\ Paired'
<1>1. uiq' \in Seq(Event)
  BY DEF Gone
<1>2. AppType' /\ Paired'
  BY DEF Gone, AppType, Paired
<1>3. QED
  BY <1>1, <1>2

LEMMA AppendEvent == \A q \in Seq(Event), e \in Event : Append(q, e) \in Seq(Event)
  OBVIOUS

\* The App object and the queue keep their types, its process and its supervisor
\* always name the same child, and a reader thread that is past its first line
\* reads a child.
THEOREM TypesAndPairing == Spec => []TypePaired
<1>1. Init => TypePaired
  <2> SUFFICES ASSUME Init PROVE TypePaired
    OBVIOUS
  <2>1. FilterType
    BY DEF Init, EbpfInit, FilterType
  <2>2. WorldType
    BY <2>1, ProcsFacts DEF Init, ProcInit, WorldType
  <2>3. AppType /\ Paired
    BY DEF Init, AppType, Paired
  <2>4. uiq \in Seq(Event)
    BY DEF Init
  <2>5. QED
    BY <2>2, <2>3, <2>4, TypeParts DEF TypePaired
<1>2. TypePaired /\ [Next]_vars => TypePaired'
  <2> SUFFICES ASSUME TypePaired, [Next]_vars PROVE TypePaired'
    OBVIOUS
  <2>0. WorldType /\ AppType /\ uiq \in Seq(Event) /\ Paired
    BY TypeParts DEF TypePaired
  <2> SUFFICES WorldType' /\ AppType' /\ uiq' \in Seq(Event) /\ Paired'
    BY TypePartsNext DEF TypePaired
  <2>1. ASSUME connect_xray, UNCHANGED ui \/ ui' = "idle"
        PROVE  WorldType' /\ AppType' /\ uiq' \in Seq(Event) /\ Paired'
    <3>1. CASE ConnectRaises
      BY <2>0, <2>1, <3>1, SupervisorTypes DEF connect_xray, ConnectRaises, AppType, Paired
    <3>2. ASSUME NEW p \in Procs, ConnectSpawns(p)
          PROVE  WorldType' /\ AppType' /\ Paired'
      <4>1. WorldType'
        BY <2>0, <3>2, SupervisorTypes DEF ConnectSpawns
      <4>2. AppType' /\ Paired'
        BY <2>0, <2>1, <3>2 DEF ConnectSpawns, connect_xray, AppType, Paired
      <4>3. QED
        BY <4>1, <4>2
    <3>3. QED
      BY <2>0, <2>1, <3>1, <3>2 DEF connect_xray
  <2>2. CASE Connect
    BY <2>1, <2>2 DEF Connect
  <2>3. CASE RestartConnect
    BY <2>1, <2>3 DEF RestartConnect
  <2>4. ASSUME xray_running_from_gui
        PROVE  xray_process \in Procs /\ xray_supervisor = xray_process
    BY <2>0, <2>4 DEF xray_running_from_gui, AppType, Paired
  <2>5. ASSUME disconnect_xray
        PROVE  WorldType' /\ xray_process' = None /\ xray_supervisor' = None /\ stream_count' = 0
    <3>1. xray_process \in Procs /\ xray_supervisor = xray_process
      BY <2>4, <2>5 DEF disconnect_xray
    <3>2. CASE StopTerminates
      BY <2>0, <2>5, <3>1, <3>2, SupervisorTypes DEF disconnect_xray, StopTerminates
    <3>3. CASE StopFindsExited
      BY <2>0, <2>5, <3>1, <3>3, EbpfTypes DEF disconnect_xray, StopFindsExited, WorldType
    <3>4. QED
      BY <2>5, <3>2, <3>3 DEF disconnect_xray, _stop_gui_xray
  <2>6. CASE Disconnect
    BY <2>0, <2>5, <2>6 DEF Disconnect, AppType, Paired
  <2>7. CASE RestartDisconnect
    BY <2>0, <2>5, <2>7 DEF RestartDisconnect, AppType, Paired
  <2>8. CASE DisconnectRaises
    <3>1. WorldType'
      BY <2>0, <2>4, <2>8, SupervisorTypes DEF DisconnectRaises, StopRaises
    <3>2. QED
      BY <2>0, <2>8, <3>1 DEF DisconnectRaises, StopRaises, AppType, Paired
  <2>9. CASE RestartRefused
    BY <2>0, <2>9, EbpfTypes DEF RestartRefused, AppType, Paired, WorldType, procVars
  <2>10. CASE CloseRunning
    <3>1. xray_process \in Procs /\ xray_supervisor = xray_process
      BY <2>4, <2>10 DEF CloseRunning
    <3>2. WorldType'
      <4>1. CASE terminate(xray_supervisor)
        BY <2>0, <3>1, <4>1, SupervisorTypes
      <4>2. CASE ~terminate(xray_supervisor)
        BY <2>0, <2>10, <3>1, <4>2, EbpfTypes DEF CloseRunning, WorldType
      <4>3. QED
        BY <4>1, <4>2
    <3>3. QED
      BY <2>0, <2>10, <3>2, GoneTypes DEF CloseRunning
  <2>11. CASE CloseIdle \/ Killed
    <3>1. WorldType'
      BY <2>0, <2>11, EbpfTypes DEF CloseIdle, Killed, KillOnJobClose, WorldType
    <3>2. QED
      BY <2>0, <2>11, <3>1, GoneTypes DEF CloseIdle, Killed
  <2>12. CASE Relaunch
    BY <2>0, <2>12, EbpfTypes DEF Relaunch, AppType, Paired, WorldType, procVars
  <2>13. CASE _handle_xray_log_line \/ _handle_xray_exit
    <3>1. uiq' \in Seq(Event)
      BY <2>0, <2>13 DEF _handle_xray_log_line, _handle_xray_exit
    <3>2. WorldType'
      BY <2>0, <2>13, EbpfTypes DEF _handle_xray_log_line, _handle_xray_exit, WorldType, procVars
    <3>3. AppType' /\ Paired'
      BY <2>0, <2>13 DEF _handle_xray_log_line, _handle_xray_exit, AppType, Paired
    <3>4. QED
      BY <3>1, <3>2, <3>3
  <2>14. ASSUME NEW r \in Procs, ReaderStarts(r)
         PROVE  WorldType' /\ AppType' /\ uiq' \in Seq(Event) /\ Paired'
    <3>1. WorldType' /\ uiq' \in Seq(Event)
      BY <2>0, <2>14, EbpfTypes DEF ReaderStarts, WorldType, procVars
    <3>2. AppType' /\ Paired'
      BY <2>0, <2>14 DEF ReaderStarts, AppType, Paired
    <3>3. QED
      BY <3>1, <3>2
  <2>15. ASSUME NEW r \in Procs, ReaderPosts(r) \/ ReaderFails(r) \/ ReaderEnds(r)
         PROVE  WorldType' /\ AppType' /\ uiq' \in Seq(Event) /\ Paired'
    <3>1. bound[r] \in Procs
      BY <2>0, <2>15 DEF ReaderPosts, ReaderFails, ReaderEnds, Paired
    <3>2. <<"line", bound[r]>> \in Event /\ <<"exit", bound[r]>> \in Event
      BY <3>1 DEF Event
    <3>3. uiq' \in Seq(Event)
      <4>1. uiq' = uiq \/ uiq' = Append(uiq, <<"line", bound[r]>>)
                       \/ uiq' = Append(uiq, <<"exit", bound[r]>>)
        BY <2>15 DEF ReaderPosts, ReaderFails, ReaderEnds
      <4>2. QED
        BY <2>0, <3>2, <4>1, AppendEvent
    <3>4. WorldType'
      <4>1. unread' \in [Procs -> Nat]
        <5>1. unread[bound[r]] \in Nat /\ (unread[bound[r]] > 0 => unread[bound[r]] - 1 \in Nat)
          BY <2>0, <3>1 DEF WorldType
        <5>2. \/ unread' = unread
              \/ /\ unread[bound[r]] > 0
                 /\ unread' = [unread EXCEPT ![bound[r]] = unread[bound[r]] - 1]
          BY <2>15 DEF ReaderPosts, ReaderFails, ReaderEnds, procVars
        <5>3. QED
          BY <2>0, <5>1, <5>2 DEF WorldType
      <4>2. QED
        BY <2>0, <2>15, <4>1, EbpfTypes DEF ReaderPosts, ReaderFails, ReaderEnds, WorldType,
                                              procVars
    <3>5. AppType' /\ Paired'
      BY <2>0, <2>15 DEF ReaderPosts, ReaderFails, ReaderEnds, AppType, Paired
    <3>6. QED
      BY <3>3, <3>4, <3>5
  <2>16. CASE ChildStep
    BY <2>0, <2>16, ChildTypes DEF ChildStep, guiVars, AppType, Paired
  <2>17. CASE LoaderStep
    <3>1. WorldType'
      BY <2>0, <2>17, EbpfTypes DEF LoaderStep, procVars, WorldType
    <3>2. QED
      BY <2>0, <2>17, <3>1 DEF LoaderStep, guiVars, AppType, Paired
  <2>18. CASE UNCHANGED vars
    BY <2>0, <2>18, EbpfTypes DEF vars, guiVars, procVars, WorldType, AppType, Paired
  <2>19. QED
    BY <2>2, <2>3, <2>6, <2>7, <2>8, <2>9, <2>10, <2>11, <2>12, <2>13, <2>14, <2>15,
       <2>16, <2>17, <2>18, NextCases
<1>3. QED
  BY <1>1, <1>2, PTL DEF Spec

\* Every attribute of the App object, the children and the queue keeps its type.
THEOREM TypeCorrect == Spec => []TypeOK
<1>1. TypePaired => TypeOK
  BY DEF TypePaired
<1>2. QED
  BY <1>1, TypesAndPairing, PTL

(***************************************************************************)
(* The app and its core                                                    *)
(***************************************************************************)
Ended == {"dying", "exited"}

\* An exit report in the queue is about a child that has ended: what makes the
\* identity test of _handle_xray_exit enough.
ReportsAreTrue ==
  \A i \in DOMAIN uiq : uiq[i][1] = "exit" => status[uiq[i][2]] \in Ended

BornInThePast == \A p \in Procs : born[p] <= epoch

\* The inductive invariant
LifecycleInv == OwnedCoreIsTracked /\ CloseLeavesNoCore /\ ReportsAreTrue /\ BornInThePast

\* No child starts to run, and none comes back.
StatusForward ==
  \A p \in Procs : /\ status'[p] = "running" => status[p] = "running"
                   /\ status[p] \in Ended => status'[p] \in Ended
                   /\ status[p] # "unborn" => status'[p] # "unborn"

LEMMA SupervisorForward ==
  ASSUME WorldType
  PROVE  /\ \A p \in Procs : terminate(p) => StatusForward /\ status'[p] # "running"
         /\ \A p \in Procs : TerminateRaises(p) => StatusForward
         /\ SpawnRaises \/ ChildStep => StatusForward
         /\ status' = KillOnJobClose(status) => StatusForward
         /\ UNCHANGED status => StatusForward
<1>1. ASSUME NEW p \in Procs, terminate(p) PROVE StatusForward /\ status'[p] # "running"
  BY <1>1 DEF terminate, TerminatePosix, TerminateWindows, WorldType, StatusForward, Ended
<1>2. ASSUME NEW p \in Procs, TerminateRaises(p) PROVE StatusForward
  BY <1>2 DEF TerminateRaises, WorldType, StatusForward, Ended
<1>3. ASSUME SpawnRaises PROVE StatusForward
  BY <1>3 DEF SpawnRaises, procVars, WorldType, StatusForward, Ended
<1>4. ASSUME ChildStep PROVE StatusForward
  BY <1>4 DEF ChildStep, Bind, WriteLine, BeginExit, ReleasePort, Exit,
     ExternalStarts, ExternalStops, WorldType, StatusForward, Ended
<1>5. ASSUME status' = KillOnJobClose(status) PROVE StatusForward
  BY <1>5 DEF KillOnJobClose, WorldType, StatusForward, Ended
<1>6. ASSUME UNCHANGED status PROVE StatusForward
  BY <1>6 DEF StatusForward
<1>7. QED
  BY <1>1, <1>2, <1>3, <1>4, <1>5, <1>6

\* Reports stay true when the queue does not grow.
LEMMA ReportsForward ==
  ASSUME TypeOK, ReportsAreTrue, StatusForward,
         \/ UNCHANGED uiq
         \/ uiq' = <<>>
         \/ uiq # <<>> /\ uiq' = Tail(uiq)
  PROVE  ReportsAreTrue'
<1>1. \A i \in DOMAIN uiq : uiq[i] \in Event
  BY DEF TypeOK
<1>2. \A i \in DOMAIN uiq : uiq[i][2] \in Procs
  BY <1>1 DEF Event
<1>3. \A i \in DOMAIN uiq' : \E j \in DOMAIN uiq : uiq'[i] = uiq[j]
  <2>1. CASE UNCHANGED uiq
    BY <2>1
  <2>2. CASE uiq' = <<>>
    BY <2>2
  <2>3. CASE uiq # <<>> /\ uiq' = Tail(uiq)
    <3>1. uiq \in Seq(Event)
      BY DEF TypeOK
    <3>2. \A i \in DOMAIN Tail(uiq) : i + 1 \in DOMAIN uiq /\ Tail(uiq)[i] = uiq[i + 1]
      BY <2>3, <3>1
    <3>3. QED
      BY <2>3, <3>2
  <2>4. QED
    BY <2>1, <2>2, <2>3
<1>4. QED
  BY <1>2, <1>3 DEF ReportsAreTrue, StatusForward

\* The four parts hold together: reports in the queue are true, so a late one
\* never makes the app forget the core it runs.
THEOREM LifecycleSafe == Spec => []LifecycleInv
<1>1. Init => LifecycleInv
  BY DEF Init, ProcInit, LifecycleInv, OwnedCoreIsTracked, CloseLeavesNoCore,
     ReportsAreTrue, BornInThePast
<1>2. TypePaired /\ LifecycleInv /\ [Next]_vars => LifecycleInv'
  <2> SUFFICES ASSUME TypePaired, LifecycleInv, [Next]_vars PROVE LifecycleInv'
    OBVIOUS
  <2>0. TypeOK /\ WorldType /\ AppType /\ Paired
    BY TypeParts DEF TypePaired
  <2> USE DEF LifecycleInv
  <2>1. ASSUME connect_xray, app = "open" PROVE LifecycleInv'
    <3>1. ASSUME NEW p \in Procs PROVE ~(born[p] = epoch /\ status[p] = "running")
      BY <2>1, <3>1, ProcsFacts DEF connect_xray, OwnedCoreIsTracked,
                                       xray_running_from_gui, poll_is_none
    <3>2. CASE ConnectRaises
      <4>1. StatusForward
        BY <2>0, <3>2, SupervisorForward DEF ConnectRaises
      <4>2. QED
        BY <2>0, <2>1, <3>1, <3>2, <4>1, ReportsForward
           DEF ConnectRaises, connect_xray, StatusForward, OwnedCoreIsTracked,
               CloseLeavesNoCore, BornInThePast
    <3>3. ASSUME NEW p \in Procs, ConnectSpawns(p) PROVE LifecycleInv'
      <4>1. /\ status[p] = "unborn"
            /\ status' = [status EXCEPT ![p] = "running"]
            /\ born' = [born EXCEPT ![p] = epoch]
            /\ xray_process' = p /\ xray_supervisor' = p
            /\ app' = "open" /\ UNCHANGED <<epoch, uiq>>
        BY <2>1, <3>3 DEF ConnectSpawns, connect_xray, spawn, Fresh
      <4>2. OwnedCoreIsTracked' /\ CloseLeavesNoCore' /\ BornInThePast'
        BY <2>0, <3>1, <3>3, <4>1
           DEF WorldType, AppType, OwnedCoreIsTracked, CloseLeavesNoCore, BornInThePast
      <4>3. ReportsAreTrue'
        <5>1. \A i \in DOMAIN uiq : uiq[i][2] \in Procs
          BY <2>0 DEF TypeOK, Event
        <5>2. QED
          BY <2>0, <3>3, <4>1, <5>1 DEF WorldType, ReportsAreTrue, Ended
      <4>4. QED
        BY <4>2, <4>3
    <3>4. QED
      BY <2>1, <3>2, <3>3 DEF connect_xray
  <2>2. CASE Connect \/ RestartConnect
    BY <2>1, <2>2 DEF Connect, RestartConnect, UiIdle
  <2>3. ASSUME xray_running_from_gui
        PROVE  xray_process \in Procs /\ xray_supervisor = xray_process
    BY <2>0, <2>3 DEF xray_running_from_gui, AppType, Paired
  <2>4. ASSUME disconnect_xray
        PROVE  StatusForward /\ status'[xray_process] # "running"
    <3>1. xray_process \in Procs /\ xray_supervisor = xray_process
      BY <2>3, <2>4 DEF disconnect_xray
    <3>2. CASE StopTerminates
      BY <2>0, <3>1, <3>2, SupervisorForward DEF StopTerminates
    <3>3. CASE StopFindsExited
      BY <2>0, <3>1, <3>3 DEF StopFindsExited, WorldType, StatusForward, Ended
    <3>4. QED
      BY <2>4, <3>2, <3>3 DEF disconnect_xray, _stop_gui_xray
  <2>5. CASE Disconnect \/ RestartDisconnect
    <3>1. disconnect_xray /\ app = "open" /\ UNCHANGED <<app, epoch, born, uiq>>
      BY <2>5 DEF Disconnect, RestartDisconnect, UiIdle
    <3>2. ReportsAreTrue'
      BY <2>0, <2>4, <3>1, ReportsForward
    <3>3. QED
      BY <2>4, <3>1, <3>2 DEF StatusForward, OwnedCoreIsTracked, CloseLeavesNoCore, BornInThePast
  <2>6. ASSUME StatusForward, UNCHANGED <<app, epoch, born, xray_process, xray_supervisor>>,
               ReportsAreTrue'
        PROVE  LifecycleInv'
    BY <2>6 DEF StatusForward, OwnedCoreIsTracked, CloseLeavesNoCore, BornInThePast
  <2>7. CASE DisconnectRaises
    <3>1. StatusForward
      BY <2>0, <2>3, <2>7, SupervisorForward DEF DisconnectRaises, StopRaises
    <3>2. QED
      BY <2>0, <2>6, <2>7, <3>1, ReportsForward DEF DisconnectRaises, StopRaises
  <2>8. CASE RestartRefused
    BY <2>0, <2>6, <2>8, SupervisorForward, ReportsForward DEF RestartRefused, procVars
  <2>9. CASE CloseRunning
    <3>1. xray_process \in Procs /\ xray_supervisor = xray_process
      BY <2>3, <2>9 DEF CloseRunning
    <3>2. StatusForward /\ status'[xray_process] # "running"
      <4>1. CASE terminate(xray_supervisor)
        BY <2>0, <3>1, <4>1, SupervisorForward
      <4>2. CASE status' = [status EXCEPT ![xray_process] = "exited"]
        BY <2>0, <3>1, <4>2 DEF WorldType, StatusForward, Ended
      <4>3. QED
        BY <2>9, <4>1, <4>2 DEF CloseRunning
    <3>3. app = "open" /\ Gone("closed")
      BY <2>9 DEF CloseRunning, UiIdle
    <3>4. ReportsAreTrue'
      BY <2>0, <3>2, <3>3, ReportsForward DEF Gone
    <3>5. QED
      BY <3>2, <3>3, <3>4 DEF Gone, StatusForward, OwnedCoreIsTracked, CloseLeavesNoCore,
                              BornInThePast
  <2>10. CASE CloseIdle
    <3>1. StatusForward
      BY <2>0, <2>10, SupervisorForward DEF CloseIdle
    <3>2. app = "open" /\ Gone("closed") /\ ~xray_running_from_gui
      BY <2>10 DEF CloseIdle, UiIdle
    <3>3. ReportsAreTrue'
      BY <2>0, <3>1, <3>2, ReportsForward DEF Gone
    <3>4. \A p \in Procs : ~(born[p] = epoch /\ status[p] = "running")
      BY <3>2, ProcsFacts DEF OwnedCoreIsTracked, xray_running_from_gui, poll_is_none
    <3>5. QED
      BY <3>1, <3>2, <3>3, <3>4 DEF Gone, StatusForward, OwnedCoreIsTracked, CloseLeavesNoCore,
                                    BornInThePast
  <2>11. CASE Killed
    <3>1. StatusForward
      BY <2>0, <2>11, SupervisorForward DEF Killed
    <3>2. ReportsAreTrue'
      BY <2>0, <2>11, <3>1, ReportsForward DEF Killed, Gone
    <3>3. QED
      BY <2>11, <3>2 DEF Killed, Gone, OwnedCoreIsTracked, CloseLeavesNoCore, BornInThePast
  <2>12. CASE Relaunch
    <3>1. ReportsAreTrue'
      BY <2>0, <2>12, SupervisorForward, ReportsForward DEF Relaunch, procVars
    <3>2. \A p \in Procs : born'[p] < epoch' /\ born'[p] \in Nat /\ epoch' \in Nat
      BY <2>0, <2>12 DEF Relaunch, AppType, BornInThePast
    <3>3. QED
      BY <2>12, <3>1, <3>2 DEF Relaunch, OwnedCoreIsTracked, CloseLeavesNoCore, BornInThePast
  <2>13. CASE _handle_xray_log_line
    BY <2>0, <2>6, <2>13, SupervisorForward, ReportsForward DEF _handle_xray_log_line, procVars
  <2>14. CASE _handle_xray_exit
    <3>1. ReportsAreTrue'
      BY <2>0, <2>14, SupervisorForward, ReportsForward DEF _handle_xray_exit, procVars
    <3>2. status[Head(uiq)[2]] \in Ended
      <4>1. 1 \in DOMAIN uiq /\ Head(uiq) = uiq[1]
        BY <2>0, <2>14 DEF _handle_xray_exit, TypeOK
      <4>2. QED
        BY <2>14, <4>1 DEF _handle_xray_exit, ReportsAreTrue
    <3>3. QED
      BY <2>14, <3>1, <3>2 DEF _handle_xray_exit, procVars, Ended, OwnedCoreIsTracked,
         CloseLeavesNoCore, BornInThePast
  <2>15. ASSUME NEW r \in Procs, ReaderStarts(r) \/ ReaderFails(r) PROVE LifecycleInv'
    <3>1. UNCHANGED <<status, uiq, app, epoch, born, xray_process, xray_supervisor>>
      BY <2>15 DEF ReaderStarts, ReaderFails, procVars
    <3>2. QED
      BY <2>0, <2>6, <3>1, SupervisorForward, ReportsForward
  <2>16. ASSUME NEW r \in Procs, ReaderPosts(r) \/ ReaderEnds(r) PROVE LifecycleInv'
    <3>1. UNCHANGED <<status, app, epoch, born, xray_process, xray_supervisor>>
      BY <2>16 DEF ReaderPosts, ReaderEnds, procVars
    <3>2. PICK e : uiq' = Append(uiq, e) /\ (e[1] = "exit" => status[e[2]] \in Ended)
      BY <2>16 DEF ReaderPosts, ReaderEnds, Ended
    <3>3. ReportsAreTrue'
      <4>1. uiq \in Seq(Event)
        BY <2>0 DEF TypeOK
      <4>2. \A i \in DOMAIN uiq' : (i \in DOMAIN uiq /\ uiq'[i] = uiq[i]) \/ uiq'[i] = e
        BY <3>2, <4>1
      <4>3. QED
        BY <3>1, <3>2, <4>2 DEF ReportsAreTrue
    <3>4. QED
      BY <2>0, <2>6, <3>1, <3>3, SupervisorForward
  <2>17. CASE ChildStep
    <3>1. StatusForward
      BY <2>0, <2>17, SupervisorForward
    <3>2. QED
      BY <2>0, <2>6, <2>17, <3>1, ReportsForward DEF ChildStep, guiVars
  <2>18. CASE LoaderStep \/ UNCHANGED vars
    <3>1. UNCHANGED <<status, uiq, app, epoch, born, xray_process, xray_supervisor>>
      BY <2>18 DEF LoaderStep, procVars, guiVars, vars
    <3>2. QED
      BY <2>0, <2>6, <3>1, SupervisorForward, ReportsForward
  <2>19. QED
    BY <2>2, <2>5, <2>7, <2>8, <2>9, <2>10, <2>11, <2>12, <2>13, <2>14, <2>15,
       <2>16, <2>17, <2>18, NextCases
<1>3. QED
  BY <1>1, <1>2, TypesAndPairing, PTL DEF Spec

\* Every launch keeps track of the core it started, whatever is reported late.
THEOREM CoreTracked == Spec => [](OwnedCoreIsTracked /\ CloseLeavesNoCore)
<1>1. LifecycleInv => OwnedCoreIsTracked /\ CloseLeavesNoCore
  BY DEF LifecycleInv
<1>2. QED
  BY <1>1, LifecycleSafe, PTL

(***************************************************************************)
(* The port at a restart                                                   *)
(***************************************************************************)
\* A core of this launch that holds the port is the one the App object holds, if
\* it holds any: connect_xray starts none while the port is taken.
PortIsOwned ==
  app = "open" /\ listener \in Procs /\ born[listener] = epoch /\ xray_process # None
    => xray_process = listener

\* Between the two halves of a restart the app holds no core, and on Linux none
\* of this launch is left on the port.
RestartClears ==
  ui = "restarting" => /\ app = "open" /\ xray_process = None
                       /\ linux /\ listener \in Procs => born[listener] # epoch

PortInv == PortIsOwned /\ RestartClears

\* On Linux a restart is never refused by the core it has just stopped: whoever
\* holds the port then was not started by this launch of the GUI.
THEOREM RestartOnFreePort == Spec => RestartRefusedByOthers
<1>1. Init => PortInv
  BY DEF Init, PortInv, PortIsOwned, RestartClears
<1>2. TypePaired /\ LifecycleInv /\ PortInv /\ [Next]_vars => PortInv'
  <2> SUFFICES ASSUME TypePaired, LifecycleInv, PortInv, [Next]_vars PROVE PortInv'
    OBVIOUS
  <2>0. WorldType /\ AppType /\ Paired /\ OwnedCoreIsTracked /\ BornInThePast
    BY TypeParts DEF TypePaired, LifecycleInv
  <2> USE DEF PortInv
  <2>1. ASSUME connect_xray, ui' = "idle" PROVE PortInv'
    <3>1. listener = None /\ UNCHANGED listener
      BY <2>1 DEF connect_xray, port_accepts_loopback, ConnectSpawns, spawn, ConnectRaises,
         SpawnRaises, procVars
    <3>2. QED
      BY <2>1, <3>1, ProcsFacts DEF PortIsOwned, RestartClears
  <2>2. CASE Connect \/ RestartConnect
    BY <2>1, <2>2 DEF Connect, RestartConnect, UiIdle
  <2>3. ASSUME xray_process' = None, ui' = "idle" PROVE PortInv'
    BY <2>3 DEF PortIsOwned, RestartClears
  <2>4. CASE Disconnect \/ CloseRunning \/ CloseIdle \/ Killed
    BY <2>3, <2>4 DEF Disconnect, disconnect_xray, _stop_gui_xray, StopTerminates,
       StopFindsExited, UiIdle, CloseRunning, CloseIdle, Killed, Gone
  <2>5. CASE RestartDisconnect
    <3>1. /\ app = "open" /\ xray_process \in Procs /\ xray_supervisor = xray_process
          /\ _stop_gui_xray /\ UNCHANGED <<app, epoch, born>>
      BY <2>0, <2>5 DEF RestartDisconnect, UiIdle, disconnect_xray, xray_running_from_gui,
         AppType, Paired
    <3>2. xray_process' = None /\ UNCHANGED linux
      BY <3>1 DEF _stop_gui_xray, StopTerminates, StopFindsExited, terminate, TerminatePosix,
         TerminateWindows, on_supervisor_stop, ebpfVars
    <3>3. linux => listener' = IF listener = xray_process THEN None ELSE listener
      BY <3>1 DEF _stop_gui_xray, StopTerminates, StopFindsExited, terminate, TerminatePosix,
         TerminateWindows
    <3>4. linux /\ listener' \in Procs => born[listener'] # epoch
      BY <3>1, <3>3, ProcsFacts DEF PortIsOwned
    <3>5. QED
      BY <3>1, <3>2, <3>4 DEF PortIsOwned, RestartClears
  <2>6. ASSUME UNCHANGED <<linux, listener, app, epoch, born, ui>>,
               xray_process' \in {None, xray_process}
        PROVE  PortInv'
    BY <2>6 DEF PortIsOwned, RestartClears
  <2>7. CASE DisconnectRaises
    BY <2>6, <2>7 DEF DisconnectRaises, StopRaises, TerminateRaises, ebpfVars
  <2>8. CASE RestartRefused
    BY <2>8 DEF RestartRefused, procVars, ebpfVars, PortIsOwned, RestartClears
  <2>9. CASE Relaunch
    <3>1. \A p \in Procs : born'[p] # epoch'
      BY <2>0, <2>9 DEF Relaunch, BornInThePast, AppType
    <3>2. ui' # "restarting"
      BY <2>9 DEF Relaunch, RestartClears
    <3>3. QED
      BY <3>1, <3>2 DEF PortIsOwned, RestartClears
  <2>10. CASE _handle_xray_log_line \/ _handle_xray_exit
    BY <2>6, <2>10 DEF _handle_xray_log_line, _handle_xray_exit, procVars, ebpfVars
  <2>11. ASSUME NEW r \in Procs,
                ReaderStarts(r) \/ ReaderPosts(r) \/ ReaderFails(r) \/ ReaderEnds(r)
         PROVE  PortInv'
    BY <2>6, <2>11 DEF ReaderStarts, ReaderPosts, ReaderFails, ReaderEnds, procVars, ebpfVars
  <2>12. CASE ChildStep
    <3>1. UNCHANGED <<linux, app, epoch, born, ui, xray_process>>
      BY <2>12 DEF ChildStep, ebpfVars, guiVars
    <3>2. CASE listener' \in {listener, None, External}
      BY <3>1, <3>2, ProcsFacts DEF PortIsOwned, RestartClears
    <3>3. ASSUME NEW p \in Procs, Bind(p) PROVE PortInv'
      BY <2>0, <3>1, <3>3, ProcsFacts DEF Bind, OwnedCoreIsTracked, PortIsOwned, RestartClears
    <3>4. QED
      BY <2>12, <3>2, <3>3 DEF ChildStep, WriteLine, BeginExit, ReleasePort, Exit,
         ExternalStarts, ExternalStops
  <2>13. CASE LoaderStep
    <3>1. UNCHANGED linux
      BY <2>13 DEF LoaderStep, Loader, LoaderAttaches, LoaderPins, LoaderMarksAlive,
         LoaderMarksDead, LoaderDetaches, LoaderKilled
    <3>2. QED
      BY <2>6, <2>13, <3>1 DEF LoaderStep, procVars, guiVars
  <2>14. CASE UNCHANGED vars
    BY <2>6, <2>14 DEF vars, procVars, ebpfVars, guiVars
  <2>15. QED
    BY <2>2, <2>4, <2>5, <2>7, <2>8, <2>9, <2>10, <2>11, <2>12, <2>13, <2>14, NextCases
<1>3. TypePaired /\ PortInv
        => (RestartRefused /\ linux => listener = External \/ born[listener] # epoch)
  BY TypeParts DEF TypePaired, WorldType, PortInv, RestartClears, RestartRefused,
     port_accepts_loopback
<1>4. QED
  BY <1>1, <1>2, <1>3, TypesAndPairing, LifecycleSafe, PTL DEF Spec, RestartRefusedByOthers

(***************************************************************************)
(* The app and the containment filter                                      *)
(***************************************************************************)

\* The filter is only ever attached on Linux with consent, and once the loader
\* is past its pins its maps are where the hooks of the supervisor reach them,
\* unless bpftool refused the pin or a detach that removed it.
AttachedIsReachable ==
  attached => /\ linux /\ Consent
              /\ loader = "marking" \/ (loader = "idle" /\ ~loader_cut)
                   => pinned \/ "pin" \in refused \/ "detach" \in refused

\* No loader is at work, none was cut short and no call was refused: the states
\* in which the containment of a running core is settled.
Settled == loader = "idle" /\ ~loader_cut /\ refused = {}

LEMMA HooksReach ==
  ASSUME FilterType, AttachedIsReachable
  PROVE  /\ on_supervisor_start => AttachedIsReachable'
         /\ on_supervisor_stop(IfaceConfigured) => AttachedIsReachable'
         /\ ContainmentEnabled /\ on_supervisor_start /\ Settled' => ~DropsTcp'
<1>1. ASSUME on_supervisor_start PROVE AttachedIsReachable'
  BY <1>1 DEF on_supervisor_start, mark_supervisor_alive, AttachedIsReachable
<1>2. ASSUME on_supervisor_stop(IfaceConfigured) PROVE AttachedIsReachable'
  <2>1. CASE detach_containment
    BY <1>2, <2>1 DEF on_supervisor_stop, detach_containment, AttachedIsReachable, FilterType
  <2>2. CASE UNCHANGED <<attached, pinned, refused>>
    BY <1>2, <2>2 DEF on_supervisor_stop, AttachedIsReachable
  <2>3. QED
    BY <1>2, <2>1, <2>2 DEF on_supervisor_stop
<1>3. ASSUME ContainmentEnabled, on_supervisor_start, Settled' PROVE ~DropsTcp'
  BY <1>3 DEF on_supervisor_start, mark_supervisor_alive, MapUpdate, MapReachable,
     AttachedIsReachable, Settled, DropsTcp
<1>4. QED
  BY <1>1, <1>2, <1>3

\* A loader run that reaches its end, with no call refused, leaves a filter that
\* does not drop TCP, or none.
LEMMA LoaderReach ==
  ASSUME FilterType, AttachedIsReachable, Loader
  PROVE  AttachedIsReachable' /\ (Settled' => ~DropsTcp')
<1>1. CASE LoaderAttaches
  BY <1>1 DEF LoaderAttaches, AttachedIsReachable, Settled
<1>2. CASE LoaderPins
  BY <1>2 DEF LoaderPins, AttachedIsReachable, Settled
<1>3. CASE LoaderMarksAlive
  BY <1>3 DEF LoaderMarksAlive, mark_supervisor_alive, MapUpdate, MapReachable,
     AttachedIsReachable, Settled, DropsTcp
<1>4. CASE LoaderMarksDead
  BY <1>4 DEF LoaderMarksDead, AttachedIsReachable, Settled
<1>5. ASSUME NEW iface \in BOOLEAN, LoaderDetaches(iface)
      PROVE  AttachedIsReachable' /\ (Settled' => ~DropsTcp')
  BY <1>5 DEF LoaderDetaches, detach_containment, FilterType, AttachedIsReachable, Settled, DropsTcp
<1>6. CASE LoaderKilled
  BY <1>6 DEF LoaderKilled, AttachedIsReachable, Settled
<1>7. QED
  BY <1>1, <1>2, <1>3, <1>4, <1>5, <1>6 DEF Loader

\* With containment enabled in the GUI, the filter never drops the traffic of
\* the core the app holds while no loader is at work and none was cut short,
\* whatever bpftool calls failed and were made good since: unless the last mark
\* alive, a pin or a detach of this filter failed unnoticed, the hook of spawn()
\* has reached the map, and no later stop, exit or reload of the filter undoes it.
THEOREM ContainmentSafe ==
  ASSUME ContainmentEnabled
  PROVE  Spec => []CoreNotBlackholed
<1> DEFINE Inv == AttachedIsReachable /\ CoreNotBlackholed
<1>1. Init => Inv
  BY DEF Init, EbpfInit, AttachedIsReachable, CoreNotBlackholed, DropsTcp
<1>2. TypePaired /\ Inv /\ [Next]_vars => Inv'
  <2> SUFFICES ASSUME TypePaired, Inv, [Next]_vars PROVE Inv'
    OBVIOUS
  <2>0. WorldType /\ AppType /\ Paired /\ FilterType
    BY TypeParts DEF TypePaired, WorldType
  <2>1. ASSUME connect_xray PROVE Inv'
    <3>1. CASE ConnectRaises
      BY <3>1, <2>0, HooksReach DEF ConnectRaises, SpawnRaises, ebpfVars,
         AttachedIsReachable, CoreNotBlackholed
    <3>2. ASSUME NEW p \in Procs, ConnectSpawns(p) PROVE Inv'
      BY <3>2, <2>0, HooksReach DEF ConnectSpawns, spawn, CoreNotBlackholed, Settled
    <3>3. QED
      BY <2>1, <3>1, <3>2 DEF connect_xray
  <2>2. ASSUME AttachedIsReachable', xray_process' = None PROVE Inv'
    BY <2>2 DEF CoreNotBlackholed
  <2>3. ASSUME NEW p, terminate(p) PROVE AttachedIsReachable'
    BY <2>3, <2>0, HooksReach DEF terminate, TerminatePosix, TerminateWindows
  <2>4. ASSUME UNCHANGED ebpfVars
        PROVE  AttachedIsReachable' /\ UNCHANGED <<DropsTcp, loader, loader_cut, refused>>
    BY <2>4 DEF ebpfVars, AttachedIsReachable, DropsTcp
  <2>5. ASSUME UNCHANGED <<ebpfVars, xray_process>>, StatusForward PROVE Inv'
    BY <2>0, <2>4, <2>5 DEF StatusForward, CoreNotBlackholed, AppType
  <2>6. CASE Connect \/ RestartConnect
    BY <2>1, <2>6 DEF Connect, RestartConnect
  <2>7. CASE Disconnect \/ RestartDisconnect
    <3>1. _stop_gui_xray
      BY <2>7 DEF Disconnect, RestartDisconnect, disconnect_xray
    <3>2. QED
      BY <2>2, <2>3, <2>4, <3>1 DEF _stop_gui_xray, StopTerminates, StopFindsExited
  <2>8. CASE CloseRunning
    BY <2>2, <2>3, <2>4, <2>8 DEF CloseRunning, Gone
  <2>9. CASE CloseIdle \/ Killed
    BY <2>2, <2>4, <2>9 DEF CloseIdle, Killed, Gone
  <2>10. CASE DisconnectRaises
    <3>1. xray_process \in Procs /\ xray_supervisor = xray_process
      BY <2>0, <2>10 DEF DisconnectRaises, xray_running_from_gui, AppType, Paired
    <3>2. StatusForward
      BY <2>0, <2>10, <3>1, SupervisorForward DEF DisconnectRaises, StopRaises
    <3>3. QED
      BY <2>5, <2>10, <3>2 DEF DisconnectRaises, StopRaises, TerminateRaises
  <2>11. CASE RestartRefused \/ Relaunch \/ _handle_xray_log_line
    BY <2>0, <2>5, <2>11, SupervisorForward
       DEF RestartRefused, Relaunch, _handle_xray_log_line, procVars
  <2>12. CASE _handle_xray_exit
    <3>1. UNCHANGED <<status, ebpfVars>> /\ (xray_process' = None \/ xray_process' = xray_process)
      BY <2>12 DEF _handle_xray_exit, procVars
    <3>2. QED
      BY <2>0, <2>2, <2>4, <2>5, <3>1, SupervisorForward
  <2>13. ASSUME NEW r \in Procs,
                ReaderStarts(r) \/ ReaderPosts(r) \/ ReaderFails(r) \/ ReaderEnds(r)
         PROVE  Inv'
    <3>1. UNCHANGED <<status, ebpfVars, xray_process>>
      BY <2>13 DEF ReaderStarts, ReaderPosts, ReaderFails, ReaderEnds, procVars
    <3>2. QED
      BY <2>0, <2>5, <3>1, SupervisorForward
  <2>14. CASE ChildStep
    <3>1. StatusForward
      BY <2>0, <2>14, SupervisorForward
    <3>2. QED
      BY <2>5, <2>14, <3>1 DEF ChildStep, guiVars
  <2>15. CASE LoaderStep
    BY <2>0, <2>15, LoaderReach DEF LoaderStep, CoreNotBlackholed, Settled
  <2>16. CASE UNCHANGED vars
    BY <2>0, <2>5, <2>16, SupervisorForward DEF vars, procVars, guiVars
  <2>17. QED
    BY <2>6, <2>7, <2>8, <2>9, <2>10, <2>11, <2>12, <2>13, <2>14, <2>15, <2>16, NextCases
<1>3. QED
  BY <1>1, <1>2, TypesAndPairing, PTL DEF Spec

(***************************************************************************)
(* The stream counter                                                      *)
(***************************************************************************)
\* A reader that may still post, or that died before it could post its exit.
Reading == \E r \in Procs : reader[r] \in {"reading", "failed"}

\* Without one the last callback in the queue is an exit report, which resets
\* the counter; with an empty queue it has been reset.
CountSettles ==
  ~Reading => IF uiq = <<>> THEN stream_count = 0 ELSE uiq[Len(uiq)][1] = "exit"

\* A child that was never started has no reader: connect_xray does not replace
\* one that still posts.
ReadersBorn == \A p \in Procs : status[p] = "unborn" => reader[p] = "none"

CountInv == CountSettles /\ ReadersBorn

\* Once no core is left and every report has been handled the stream counter is
\* at zero (_handle_xray_exit resets it for any core's report, and every line is
\* followed by one).
THEOREM CounterSettles == Spec => []CountEndsAtZero
<1>1. Init => CountInv
  BY DEF Init, ProcInit, CountInv, CountSettles, ReadersBorn
<1>2. TypePaired /\ CountInv /\ [Next]_vars => CountInv'
  <2> SUFFICES ASSUME TypePaired, CountInv, [Next]_vars PROVE CountInv'
    OBVIOUS
  <2>0. /\ WorldType /\ AppType /\ Paired /\ uiq \in Seq(Event)
        /\ reader \in [Procs -> {"none", "starting", "reading", "failed", "done"}]
    BY TypeParts DEF TypePaired, TypeOK
  <2> USE DEF CountInv
  <2>1. ASSUME StatusForward, UNCHANGED reader PROVE ReadersBorn'
    BY <2>1 DEF StatusForward, ReadersBorn
  <2>2. ASSUME UNCHANGED <<reader, uiq>>, stream_count' \in {0, stream_count}
        PROVE  CountSettles'
    BY <2>2 DEF CountSettles, Reading
  <2>3. ASSUME connect_xray PROVE CountInv'
    <3>1. CASE ConnectRaises
      BY <2>0, <2>1, <2>2, <2>3, <3>1, SupervisorForward DEF ConnectRaises, connect_xray
    <3>2. ASSUME NEW p \in Procs, ConnectSpawns(p) PROVE CountInv'
      <4>1. /\ status[p] = "unborn" /\ status' = [status EXCEPT ![p] = "running"]
            /\ reader' = [reader EXCEPT ![p] = "starting"]
            /\ stream_count' = 0 /\ uiq' = uiq
        BY <2>3, <3>2 DEF ConnectSpawns, connect_xray, spawn, Fresh
      <4>2. reader[p] = "none"
        BY <4>1 DEF ReadersBorn
      <4>3. ReadersBorn'
        BY <2>0, <4>1 DEF ReadersBorn, WorldType
      <4>4. Reading' <=> Reading
        BY <2>0, <4>1, <4>2 DEF Reading
      <4> QED
        BY <4>1, <4>3, <4>4 DEF CountSettles
    <3> QED
      BY <2>3, <3>1, <3>2 DEF connect_xray
  <2>4. CASE Connect \/ RestartConnect
    BY <2>3, <2>4 DEF Connect, RestartConnect
  <2>5. ASSUME xray_running_from_gui
        PROVE  xray_process \in Procs /\ xray_supervisor = xray_process
    BY <2>0, <2>5 DEF xray_running_from_gui, AppType, Paired
  <2>6. CASE Disconnect \/ RestartDisconnect
    <3>1. disconnect_xray /\ UNCHANGED <<reader, uiq>>
      BY <2>6 DEF Disconnect, RestartDisconnect
    <3>2. xray_process \in Procs /\ xray_supervisor = xray_process /\ stream_count' = 0
      BY <2>5, <3>1 DEF disconnect_xray
    <3>3. CASE StopTerminates
      BY <2>0, <2>1, <2>2, <3>1, <3>2, <3>3, SupervisorForward DEF StopTerminates
    <3>4. CASE StopFindsExited
      <4>1. StatusForward
        BY <2>0, <3>2, <3>4 DEF StopFindsExited, WorldType, StatusForward, Ended
      <4> QED
        BY <2>1, <2>2, <3>1, <3>2, <4>1
    <3> QED
      BY <3>1, <3>3, <3>4 DEF disconnect_xray, _stop_gui_xray
  <2>7. CASE DisconnectRaises
    BY <2>0, <2>1, <2>2, <2>5, <2>7, SupervisorForward DEF DisconnectRaises, StopRaises
  <2>8. CASE RestartRefused \/ Relaunch
    BY <2>0, <2>1, <2>2, <2>8, SupervisorForward DEF RestartRefused, Relaunch, procVars
  <2>9. ASSUME NEW how, Gone(how), StatusForward PROVE CountInv'
    BY <2>0, <2>9 DEF Gone, StatusForward, ReadersBorn, CountSettles
  <2>10. CASE CloseRunning
    <3>1. xray_process \in Procs /\ xray_supervisor = xray_process
      BY <2>5, <2>10 DEF CloseRunning
    <3>2. StatusForward
      BY <2>0, <2>10, <3>1, SupervisorForward DEF CloseRunning, StatusForward, WorldType, Ended
    <3> QED
      BY <2>9, <2>10, <3>2 DEF CloseRunning
  <2>11. CASE CloseIdle \/ Killed
    BY <2>0, <2>9, <2>11, SupervisorForward DEF CloseIdle, Killed
  <2>12. CASE _handle_xray_log_line \/ _handle_xray_exit
    <3>1. /\ uiq # <<>> /\ uiq' = Tail(uiq) /\ UNCHANGED <<status, reader>>
          /\ Head(uiq)[1] = "exit" => stream_count' = 0
      BY <2>12 DEF _handle_xray_log_line, _handle_xray_exit, procVars
    <3>2. Tail(uiq) # <<>> => Tail(uiq)[Len(Tail(uiq))] = uiq[Len(uiq)]
      BY <2>0, <3>1
    <3>3. Tail(uiq) = <<>> => uiq[Len(uiq)] = Head(uiq)
      BY <2>0, <3>1
    <3>4. CountSettles'
      BY <3>1, <3>2, <3>3 DEF CountSettles, Reading
    <3> QED
      BY <2>0, <2>1, <3>1, <3>4, SupervisorForward
  <2>13. ASSUME NEW r \in Procs, ReaderStarts(r) PROVE CountInv'
    <3>1. /\ reader[r] = "starting" /\ UNCHANGED <<status, uiq, stream_count>>
          /\ reader' = [reader EXCEPT ![r] = IF xray_process = None THEN "done" ELSE "reading"]
      BY <2>13 DEF ReaderStarts, procVars
    <3>2. Reading => Reading'
      BY <2>0, <3>1 DEF Reading
    <3> QED
      BY <2>0, <3>1, <3>2 DEF ReadersBorn, CountSettles
  <2>14. ASSUME NEW r \in Procs, ReaderPosts(r) \/ ReaderFails(r) PROVE CountInv'
    <3>1. UNCHANGED status /\ reader[r] = "reading"
          /\ reader' \in {reader, [reader EXCEPT ![r] = "failed"]}
      BY <2>14 DEF ReaderPosts, ReaderFails
    <3> QED
      BY <2>0, <3>1 DEF Reading, ReadersBorn, CountSettles
  <2>15. ASSUME NEW r \in Procs, ReaderEnds(r) PROVE CountInv'
    <3>1. /\ UNCHANGED status /\ reader[r] = "reading" /\ reader' = [reader EXCEPT ![r] = "done"]
          /\ uiq' = Append(uiq, <<"exit", bound[r]>>)
      BY <2>15 DEF ReaderEnds, procVars
    <3>2. uiq' # <<>> /\ uiq'[Len(uiq')] = <<"exit", bound[r]>>
      BY <2>0, <3>1
    <3> QED
      BY <2>0, <3>1, <3>2 DEF ReadersBorn, CountSettles
  <2>16. CASE ChildStep
    BY <2>0, <2>1, <2>2, <2>16, SupervisorForward DEF ChildStep, guiVars
  <2>17. CASE LoaderStep \/ UNCHANGED vars
    BY <2>0, <2>1, <2>2, <2>17, SupervisorForward DEF LoaderStep, vars, guiVars, procVars
  <2> QED
    BY <2>4, <2>6, <2>7, <2>8, <2>10, <2>11, <2>12, <2>13, <2>14, <2>15, <2>16, <2>17, NextCases
<1>3. CountInv => CountEndsAtZero
  BY DEF CountInv, CountSettles, Reading, CountEndsAtZero
<1> QED
  BY <1>1, <1>2, <1>3, TypesAndPairing, PTL DEF Spec
=============================================================================
