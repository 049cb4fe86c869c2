----------------------------- MODULE StreamWorker ----------------------------
(***************************************************************************)
(* One worker thread of the Rust stream core: handle_client (src/main.rs)  *)
(* reads a ClientHello from its socket record by record (src/parser.rs),   *)
(* reads its settings and has the ALPN decided (AlpnPolicy).  The accept   *)
(* loop gives every connection a worker of its own and workers share       *)
(* nothing, so one worker and any peer is the whole behaviour.             *)
(*                                                                         *)
(* Bytes are counted, not represented: the peer chooses record types,      *)
(* lengths and when its bytes arrive.  read_exact loops over reads, and    *)
(* the socket's timeout is on each read.                                   *)
(***************************************************************************)
EXTENDS AlpnPolicy

CONSTANTS
  Timeout,    \* handshake_timeout_ms, in ticks; 0 disables it
  MaxHello,   \* MAX_CLIENT_HELLO_BYTES
  MaxRecord,  \* MAX_TLS_RECORD_PAYLOAD
  MinBody,    \* the fixed fields of a ClientHello body: a shorter one is invalid
  Lengths,    \* the lengths a peer writes in a record header
  MaxWait     \* bound: ticks a worker without a timeout is watched

ASSUME StreamAssumption ==
  /\ Timeout \in Nat /\ MaxWait \in Nat
  /\ MaxHello \in Nat /\ MaxHello >= 4
  /\ MaxRecord \in Nat /\ MinBody \in Nat
  /\ Lengths \subseteq Nat

HeaderBytes == 5

ParserErrors == {"Io", "NotHandshakeRecord", "UnexpectedRecordType",
                 "RecordTooLarge", "ClientHelloTooLarge", "Invalid"}
Kinds == {"none", "Locked", "Bypassed", "AlpnPolicy", "UpstreamNegotiationFailed"}
           \cup ParserErrors

VARIABLES
  stage,      \* where the worker is
  timed,      \* the socket has its read timeout
  raw,        \* raw_out.len()
  want, got,  \* the read_exact under way: bytes wanted and received
  hs,         \* handshake_bytes.len()
  needed,     \* the handshake's length, 0 before the first record is read
  idle,       \* ticks since this read began
  age,        \* history: ticks spent reading the ClientHello
  alpn,       \* info.alpn
  conf,       \* the settings read for this flow
  outcome     \* how handle_client ended

reading == <<raw, want, got, hs, needed, idle, age>>
vars == <<stage, timed, reading, alpn, conf, outcome>>

NoConf == [mode |-> "CloneUpstream", fallback |-> "FailClosed",
           allowed |-> Protocols, observed |-> "none", infer |-> FALSE]

Init ==
  /\ stage = "accepted"
  /\ timed = FALSE
  /\ raw = 0 /\ want = 0 /\ got = 0 /\ hs = 0 /\ needed = 0 /\ idle = 0 /\ age = 0
  /\ alpn = << >> /\ conf = NoConf
  /\ outcome = Result("none", "none")

-----------------------------------------------------------------------------
(* handle_client before the parser                                         *)

\* A failing set_read_timeout only warns
Start ==
  /\ stage = "accepted"
  /\ timed' \in IF Timeout > 0 THEN BOOLEAN ELSE {FALSE}
  /\ stage' = "header" /\ want' = HeaderBytes /\ got' = 0
  /\ UNCHANGED <<raw, hs, needed, idle, age, alpn, conf, outcome>>

-----------------------------------------------------------------------------
(* read_client_hello_info.  Its buffers go when it returns.                *)

Release ==
  /\ raw' = 0 /\ want' = 0 /\ got' = 0 /\ hs' = 0 /\ needed' = 0
  /\ idle' = 0 /\ age' = 0

Fail(error) ==
  /\ stage' = "done" /\ outcome' = Result(error, "none")
  /\ Release
  /\ UNCHANGED <<timed, alpn, conf>>

\* In read_exact, in a read that has not returned
Blocked == stage \in {"header", "payload"} /\ got < want

\* A read returns n bytes and the next one starts its timeout anew
Receive(n) ==
  /\ Blocked /\ n \in 1 .. want - got
  /\ got' = got + n /\ idle' = 0
  /\ UNCHANGED <<stage, timed, raw, want, hs, needed, age, alpn, conf, outcome>>

\* End of file or a reset
PeerCloses == Blocked /\ Fail("Io")

\* MayWait off by one
MayWaitOneMore(t) == t <= Timeout

\* A read waits no longer than the timeout
MayWait(t) == t < Timeout

Wait ==
  /\ Blocked
  /\ IF timed THEN MayWait(idle) ELSE age < MaxWait
  /\ idle' = idle + 1 /\ age' = age + 1
  /\ UNCHANGED <<stage, timed, raw, want, got, hs, needed, alpn, conf, outcome>>

ReadTimesOut == Blocked /\ timed /\ idle = Timeout /\ Fail("Io")

\* check_record_len with a limit on each record only
CheckRecordAlone(len, so_far) ==
  IF len > MaxRecord THEN "RecordTooLarge" ELSE "ok"

\* check_record_len: the error, or "ok"
check_record_len(len, so_far) ==
  CASE len > MaxRecord -> "RecordTooLarge"
    [] len <= MaxRecord /\ so_far + len > MaxHello -> "ClientHelloTooLarge"
    [] OTHER -> "ok"

\* raw_out without the record headers
HeaderNotCounted(r) == r

\* raw_out.extend_from_slice(&header)
HeaderCounted(r) == r + HeaderBytes

HeaderRead(handshake, len) ==
  LET so_far == HeaderCounted(raw)
      check == check_record_len(len, so_far)
  IN  /\ stage = "header" /\ got = want
      /\ \/ /\ ~handshake
            /\ Fail(IF needed = 0 THEN "NotHandshakeRecord" ELSE "UnexpectedRecordType")
         \/ handshake /\ check # "ok" /\ Fail(check)
         \/ /\ handshake /\ check = "ok"
            /\ stage' = "payload"
            /\ raw' = so_far /\ want' = len /\ got' = 0 /\ idle' = 0
            /\ UNCHANGED <<timed, hs, needed, age, alpn, conf, outcome>>

\* The loop's condition
MoreRecords(have, total) == have < total

Collected(have, total) ==
  /\ hs' = have /\ needed' = total /\ raw' = raw + want /\ got' = 0 /\ idle' = 0
  /\ stage' = IF MoreRecords(have, total) THEN "header" ELSE "parse"
  /\ want' = IF MoreRecords(have, total) THEN HeaderBytes ELSE 0
  /\ UNCHANGED <<timed, age, alpn, conf, outcome>>

\* The first record holds the handshake's header: its type and its length
FirstPayloadRead(hello, len) ==
  /\ stage = "payload" /\ got = want /\ needed = 0
  /\ \/ (want < 4 \/ ~hello) /\ Fail("Invalid")
     \/ want >= 4 /\ hello /\ 4 + len > MaxHello /\ Fail("ClientHelloTooLarge")
     \/ want >= 4 /\ hello /\ 4 + len <= MaxHello /\ Collected(want, 4 + len)

\* The code tests the sum against the limit again: check_record_len has
\* made sure of it (BuffersBounded)
PayloadRead ==
  /\ stage = "payload" /\ got = want /\ needed # 0
  /\ IF hs + want > MaxHello THEN Fail("ClientHelloTooLarge")
     ELSE Collected(hs + want, needed)

\* parse_client_hello_handshake: it may reject any body, and rejects every
\* body that ends inside the fixed fields
Parse ==
  /\ stage = "parse"
  /\ \/ Fail("Invalid")
     \/ /\ needed >= 4 + MinBody
        /\ alpn' \in Offers
        /\ stage' = "route" /\ Release
        /\ UNCHANGED <<timed, conf, outcome>>

-----------------------------------------------------------------------------
(* The rest of handle_client: the settings are read once the hello is in   *)

Route(c) ==
  /\ stage = "route"
  /\ conf' = c
  /\ outcome' = orchestrate_tls_session(c, alpn)
  /\ stage' = "done"
  /\ UNCHANGED <<timed, reading, alpn>>

-----------------------------------------------------------------------------
Worker ==
  \/ Start
  \/ \E handshake \in BOOLEAN, len \in Lengths : HeaderRead(handshake, len)
  \/ \E hello \in BOOLEAN, len \in Lengths : FirstPayloadRead(hello, len)
  \/ PayloadRead
  \/ Parse
  \/ \E c \in Configs : Route(c)

Clock == Wait \/ ReadTimesOut

Peer == PeerCloses \/ \E n \in 1 .. want : Receive(n)

Next == Worker \/ Clock \/ Peer

Spec == Init /\ [][Next]_vars

\* The thread runs and time passes; nothing is expected of the peer
FairSpec == Spec /\ WF_vars(Worker) /\ WF_vars(Clock)

-----------------------------------------------------------------------------
(* Properties                                                              *)

\* Every variable keeps its type.
TypeOK ==
  /\ stage \in {"accepted", "header", "payload", "parse", "route", "done"}
  /\ timed \in BOOLEAN
  /\ raw \in Nat /\ want \in Nat /\ got \in 0 .. want
  /\ hs \in Nat /\ needed \in Nat /\ idle \in Nat /\ age \in Nat
  /\ alpn \in Offers /\ conf \in Configs
  /\ outcome \in [kind: Kinds, alpn: Protocols \cup {"none"}]

\* However the peer cuts its hello into records, empty ones included, the
\* bytes a worker keeps and the buffer it allocates for the next record stay
\* within MAX_CLIENT_HELLO_BYTES together, the loop's own test of the limit
\* never fires, and the slice given to the parser is inside the buffer
\* (check_record_len, read_client_hello_info).
BuffersBounded ==
  /\ raw <= MaxHello /\ hs <= raw
  /\ stage = "payload" => want <= MaxRecord /\ raw + want <= MaxHello /\ hs + want <= MaxHello
  /\ stage = "parse" => needed \in 4 .. hs

\* What the read timeout of handle_client does bound: a worker is held at
\* most one timeout for each byte received, and one more.  The comment on
\* DEFAULT_HANDSHAKE_TIMEOUT_MS (src/main.rs) has it bound the whole hello.
PinnedPerByte ==
  timed /\ stage \in {"header", "payload"} => age <= Timeout * (raw + got + 1)

\* A locked protocol is one the client offered, the provider allows and the
\* upstream selected, if it selected one: after a fallback too
\* (lock_alpn, apply_fallback).
LockIsAgreed ==
  outcome.kind = "Locked" =>
    /\ contains_protocol(client_offered_alpn(alpn), outcome.alpn)
    /\ outcome.alpn \in conf.allowed
    /\ negotiate_alpn(conf, alpn) \in {outcome.alpn, "none", "failed"}

\* A worker with a read timeout ends whatever its peer does: no client can
\* pin the thread for ever (the comment on DEFAULT_HANDSHAKE_TIMEOUT_MS).
WorkerEnds == timed ~> stage = "done"

\* What the comment on AlpnMode::RejectMismatch says (src/alpn_policy.rs): the
\* mode "fails closed when the upstream selection diverges from the client's most
\* preferred (first-offered) protocol".
RejectMismatchFailsClosed ==
  LET up == negotiate_alpn(conf, alpn) IN
  conf.mode = "RejectMismatch" /\ up \in Protocols \ {client_offered_alpn(alpn)[1]}
    => outcome.kind # "Locked"
==============================================================================
