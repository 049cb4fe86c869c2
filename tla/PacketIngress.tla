---------------------------- MODULE PacketIngress ----------------------------
(***************************************************************************)
(* The choice of a packet backend (src/src/backend_runtime.rs) and the     *)
(* batch buffer both backends share (src/src/ingress.rs).  A packet is its *)
(* length and a tag that stands for its bytes; a reference is the slot its *)
(* offset falls into, whether the offset is a multiple of the stride, and  *)
(* its length.  Lengths are in units of the smallest MTU budget, so the    *)
(* budget is 1 or more.                                                    *)
(***************************************************************************)
EXTENDS Naturals, Sequences, FiniteSets

CONSTANTS Tags,           \* tells packets of one length apart
          MaxPacketSize,  \* the MTU budget
          OutLen,         \* the longest output slice given to recv_batch
          MaxQueued,      \* bound: packets in a queue
          MaxRefs         \* bound: references in one send_batch

ASSUME IngressAssumption ==
    /\ MaxPacketSize \in Nat /\ OutLen \in Nat \ {0}
    /\ MaxQueued \in Nat /\ MaxRefs \in Nat

VARIABLES backend,  \* what build_runtime_backend selected, "none" before, "error"
          rx, tx,   \* rx_queue, tx_queue
          batch,    \* last_batch
          held,     \* references callers hold, of this window and the one before
          sent      \* the references of the last step, if it was a send_batch, and Ok

ingressVars == <<backend, rx, tx, batch, held, sent>>

Budget == IF MaxPacketSize < 1 THEN 1 ELSE MaxPacketSize
Packet == [len : 0 .. Budget + 1, tag : Tags]
PacketRef == [slot : 0 .. OutLen, aligned : BOOLEAN, len : 1 .. Budget]
PacketKinds == {"android_tun", "gateway_xdp"}

Targets == {"android", "linux", "other"}   \* what the binary was compiled for
Preferences == {"auto", "loopback", "android_tun", "gateway_xdp"}
Descriptors == {"none", "negative", "valid"}
Interfaces == {"none", "blank", "named"}

TunAvailable(os, fd) == os = "android" /\ fd = "valid"
XdpAvailable(os, nic) == os = "linux" /\ nic = "named"

(* build_runtime_backend after a successful bind: a packet backend that is   *)
(* not available falls back to loopback with a note, never to an error.      *)
Selected(os, preference, fd, nic) ==
    CASE preference \in {"auto", "android_tun"} /\ TunAvailable(os, fd) -> "android_tun"
      [] preference \in {"auto", "gateway_xdp"} /\ XdpAvailable(os, nic) -> "gateway_xdp"
      [] OTHER -> "loopback"

NoSend == [ok |-> TRUE, refs |-> << >>]

IngressInit ==
    /\ backend = "none"
    /\ rx = << >> /\ tx = << >> /\ batch = << >>
    /\ held = {}
    /\ sent = NoSend

BuildRuntimeBackend(os, preference, fd, nic, bound) ==
    /\ backend = "none"
    /\ backend' = IF bound THEN Selected(os, preference, fd, nic) ELSE "error"
    /\ sent' = NoSend
    /\ UNCHANGED <<rx, tx, batch, held>>

(* push_rx: an empty packet and one above the budget are refused *)
PushRx(p) ==
    /\ backend \in PacketKinds
    /\ Len(rx) < MaxQueued
    /\ rx' = IF p.len = 0 \/ p.len > Budget THEN rx ELSE Append(rx, p)
    /\ sent' = NoSend
    /\ UNCHANGED <<backend, tx, batch, held>>

PopTx ==
    /\ backend \in PacketKinds
    /\ tx # << >>
    /\ tx' = Tail(tx)
    /\ sent' = NoSend
    /\ UNCHANGED <<backend, rx, batch, held>>

RefTo(b, i) == [slot |-> i - 1, aligned |-> TRUE, len |-> b[i].len]

(* fill_batch: an empty slice leaves the window alone, any other replaces it *)
FillBatch(n) ==
    LET count == IF n < Len(rx) THEN n ELSE Len(rx)
        window == SubSeq(rx, 1, count)
    IN  /\ backend \in PacketKinds
        /\ n > 0
        /\ batch' = window
        /\ rx' = SubSeq(rx, count + 1, Len(rx))
        /\ held' = {[h EXCEPT !.fresh = FALSE] : h \in {g \in held : g.fresh}}
                     \cup {[ref |-> RefTo(window, i), packet |-> window[i], fresh |-> TRUE] :
                             i \in 1 .. count}
        /\ sent' = NoSend
        /\ UNCHANGED <<backend, tx>>

(* slot_for answers Ok; the window is the one of the latest fill_batch *)
Resolves(r) == r.aligned /\ r.slot < Len(batch) /\ batch[r.slot + 1].len = r.len

\* Mutant: a reference that does not resolve is passed over.
SendsWhatResolves(refs) ==
    LET good == SelectSeq(refs, Resolves)
    IN  [i \in 1 .. Len(good) |-> batch[good[i].slot + 1]]

(* send_batch stages every packet before it queues the first one *)
Staged(refs) ==
    IF \A i \in 1 .. Len(refs) : Resolves(refs[i])
    THEN [i \in 1 .. Len(refs) |-> batch[refs[i].slot + 1]]
    ELSE << >>

SendBatch(refs) ==
    /\ backend \in PacketKinds
    /\ Len(tx) + Len(refs) <= MaxQueued
    /\ tx' = tx \o Staged(refs)
    /\ sent' = [ok |-> \A i \in 1 .. Len(refs) : Resolves(refs[i]), refs |-> refs]
    /\ UNCHANGED <<backend, rx, batch, held>>

(* Callers send references they were given, or made up from the public fields *)
Forged == [slot : {0}, aligned : {FALSE}, len : {1}]
Sendable == {h.ref : h \in held} \cup Forged

IngressNext ==
    \/ \E os \in Targets, preference \in Preferences, fd \in Descriptors, nic \in Interfaces,
          bound \in BOOLEAN : BuildRuntimeBackend(os, preference, fd, nic, bound)
    \/ \E p \in Packet : PushRx(p)
    \/ PopTx
    \/ \E n \in 1 .. OutLen : FillBatch(n)
    \/ \E n \in 0 .. MaxRefs : \E refs \in [1 .. n -> Sendable] : SendBatch(refs)

-----------------------------------------------------------------------------
(* send_batch queues all of its packets or none, and every packet it queues  *)
(* is in the current window at the slot of its reference; a reference that   *)
(* fill_batch gave out for this window sends the packet it named.  One of an *)
(* earlier window is refused unless the packet now in its slot has the same  *)
(* length, and then that packet is sent: the length is all slot_for compares.*)
SendBatchFaithful ==
    [][ sent' # NoSend =>
          LET new == SubSeq(tx', Len(tx) + 1, Len(tx'))
              refs == sent'.refs
          IN  /\ SubSeq(tx', 1, Len(tx)) = tx
              /\ Len(new) \in {0, Len(refs)}
              /\ sent'.ok <=> Len(new) = Len(refs)
              /\ \A i \in 1 .. Len(new) :
                    /\ new[i] = batch[refs[i].slot + 1]
                    /\ new[i].len = refs[i].len
                    /\ \A h \in held : h.ref = refs[i] /\ h.fresh => h.packet = new[i] ]_ingressVars
=============================================================================
