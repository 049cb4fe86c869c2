-------------------------- MODULE EbpfContainment --------------------------
(***************************************************************************)
(* The optional XDP containment filter (tools/ebpf/containment_xdp.bpf.c)  *)
(* and the helpers that drive its supervisor_alive map                     *)
(* (scripts/core/ebpf_containment.py, scripts/ebpf_xdp_loader.py).  While  *)
(* the filter is attached and supervisor_alive is 0 it drops all TCP.      *)
(*                                                                         *)
(* The loader is a program of its own: it may be killed between two of its *)
(* bpftool calls, and a core may be started or stopped between them.       *)
(*                                                                         *)
(* containment_mode is only ever written 1, below the 2 at which the       *)
(* filter consults authorized_sockets, so both maps are left out.          *)
(*                                                                         *)
(* Every bpftool call may fail: the tool is missing, or refuses.  The code *)
(* looks at the result of prog load and net attach only.  A call that      *)
(* times out is taken to have done nothing; unlinking a pin to succeed.    *)
(***************************************************************************)
EXTENDS Naturals

CONSTANTS
  Consent,             \* MITM_EBPF_CONSENT, in the loader's and the GUI's environment
  ContainmentEnabled,  \* MITM_EBPF_CONTAINMENT, in the GUI's environment
  IfaceConfigured      \* MITM_STREAM_XDP_IFACE, in the GUI's environment

ASSUME EbpfAssumption ==
  /\ Consent \in BOOLEAN
  /\ ContainmentEnabled \in BOOLEAN
  /\ IfaceConfigured \in BOOLEAN

VARIABLES
  linux,            \* platform: Linux or Windows; never changes
  attached,         \* the containment program is attached to the interface
  pinned,           \* its maps are pinned, where the hooks look for them
  supervisor_alive, \* the map's value
  loader,           \* what the loader does next
  loader_cut,       \* history: the last loader run was killed, or had no interface
  refused           \* history: calls on this filter that failed unnoticed: a pin, a
                    \* detach, the last mark alive

ebpfVars == <<linux, attached, pinned, supervisor_alive, loader, loader_cut, refused>>

EbpfInit ==
  /\ linux \in BOOLEAN
  /\ attached = FALSE /\ pinned = FALSE /\ supervisor_alive = FALSE
  /\ loader = "idle" /\ loader_cut = FALSE /\ refused = {}

\* What containment_ingress_filter does with a TCP packet
DropsTcp == attached /\ ~supervisor_alive

-----------------------------------------------------------------------------
(* The supervisor's hooks                                                  *)

MapReachable == linux /\ Consent /\ pinned

\* _bpftool_map_update_u32 on the liveness map.  Without the pinned map, off Linux
\* or without consent only the state file is written.
MapUpdate(value) ==
  supervisor_alive' \in {supervisor_alive} \cup (IF MapReachable THEN {value} ELSE {})

\* The result of the update is dropped.
mark_supervisor_alive ==
  /\ MapUpdate(TRUE)
  /\ refused' = IF ~MapReachable THEN refused
                ELSE IF supervisor_alive' THEN refused \ {"mark"} ELSE refused \cup {"mark"}

mark_supervisor_dead == MapUpdate(FALSE)

\* The result of net detach is dropped, and the pins go whatever it was.
detach_containment ==
  /\ attached' \in {attached, FALSE}
  /\ refused' = IF attached' THEN refused \cup {"detach"} ELSE {}
  /\ pinned' = FALSE

\* Mutant: the hook of spawn() is not called.
NoStartHook == UNCHANGED ebpfVars

on_supervisor_start ==
  /\ UNCHANGED <<linux, attached, pinned, loader, loader_cut>>
  /\ IF ContainmentEnabled /\ Consent
     THEN mark_supervisor_alive
     ELSE UNCHANGED <<supervisor_alive, refused>>

\* mark_supervisor_dead, then detach_containment if an interface is configured.
\* The detach is skipped when a call times out: the supervisor swallows that.
on_supervisor_stop(iface) ==
  /\ UNCHANGED <<linux, loader, loader_cut>>
  /\ mark_supervisor_dead
  /\ \/ iface /\ Consent /\ detach_containment
     \/ UNCHANGED <<attached, pinned, refused>>

-----------------------------------------------------------------------------
(* ebpf_xdp_loader.py --program containment                                *)

\* prog load and net attach: the maps are new, and zero
LoaderAttaches ==
  /\ linux /\ Consent
  /\ loader = "idle" /\ ~attached
  /\ attached' = TRUE /\ supervisor_alive' = FALSE
  /\ loader' = "pinning" /\ refused' = {}
  /\ UNCHANGED <<linux, pinned, loader_cut>>

\* map pin, which finds no map if the program was detached meanwhile; its result
\* is dropped
LoaderPins ==
  /\ loader = "pinning"
  /\ pinned' \in {attached, FALSE}
  /\ refused' = IF attached /\ ~pinned' THEN refused \cup {"pin"} ELSE refused
  /\ loader' = "marking"
  /\ UNCHANGED <<linux, attached, supervisor_alive, loader_cut>>

LoaderMarksAlive ==
  /\ loader = "marking"
  /\ mark_supervisor_alive
  /\ loader' = "idle" /\ loader_cut' = FALSE
  /\ UNCHANGED <<linux, attached, pinned>>

-----------------------------------------------------------------------------
(* ebpf_xdp_loader.py --detach                                             *)

\* on_supervisor_stop begins
LoaderMarksDead ==
  /\ loader = "idle" /\ attached
  /\ mark_supervisor_dead
  /\ loader' = "detaching"
  /\ UNCHANGED <<linux, attached, pinned, loader_cut, refused>>

\* detach_containment and detach_all: without an interface, given or in the
\* environment, the pins go and the program stays attached
LoaderDetaches(iface) ==
  /\ loader = "detaching"
  /\ IF iface
     THEN detach_containment
     ELSE pinned' = FALSE /\ UNCHANGED <<attached, refused>>
  /\ loader' = "idle" /\ loader_cut' = ~iface
  /\ UNCHANGED <<linux, supervisor_alive>>

\* The loader is killed, or dies of a call that times out, between two calls.
LoaderKilled ==
  /\ loader # "idle"
  /\ loader' = "idle" /\ loader_cut' = TRUE
  /\ UNCHANGED <<linux, attached, pinned, supervisor_alive, refused>>

Loader ==
  \/ LoaderAttaches \/ LoaderPins \/ LoaderMarksAlive
  \/ LoaderMarksDead \/ (\E iface \in BOOLEAN : LoaderDetaches(iface))
  \/ LoaderKilled
=============================================================================
