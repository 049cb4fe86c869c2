-------------------------- MODULE StreamWorkerProofs -------------------------
(***************************************************************************)
(* Proofs about StreamWorker for every limit, timeout, set of lengths and  *)
(* length of the client's offer: the types, the bound on the parser's      *)
(* buffers, the bound on a worker's time, the ALPN decision, and why a     *)
(* worker ends.                                                            *)
(***************************************************************************)
EXTENDS StreamWorker, TLAPS

-----------------------------------------------------------------------------
(* The ALPN decision                                                       *)

\* An offer is a sequence of protocols, and so is the one client_offered_alpn
\* puts in the place of a missing extension.
LEMMA OfferTyped ==
  ASSUME NEW a \in Offers
  PROVE  \A i \in DOMAIN client_offered_alpn(a) : client_offered_alpn(a)[i] \in Protocols
<1>1. PICK n \in 0 .. MaxOffers : a \in [1 .. n -> Protocols]
  BY DEF Offers
<1>2. CASE a = << >>
  BY <1>2 DEF client_offered_alpn, Protocols
<1>3. CASE a # << >>
  BY <1>1, <1>3 DEF client_offered_alpn
<1> QED
  BY <1>2, <1>3

\* What lock_alpn locks is offered, allowed and not against the upstream's
\* selection.
LEMMA LockSound ==
  ASSUME NEW offered, \A i \in DOMAIN offered : offered[i] \in Protocols,
         NEW allowed, NEW up, NEW mode \in Modes,
         NEW r, r = lock_alpn(offered, allowed, up, mode), r \notin AlpnErrors
  PROVE  /\ r \in Protocols
         /\ contains_protocol(offered, r)
         /\ r \in allowed
         /\ up \in {"none", r}
<1> DEFINE selected == CASE mode = "ForceHttp11" -> "http/1.1"
                         [] mode = "ForceH2" -> "h2"
                         [] OTHER -> up
<1>1. r = CASE selected = "none" -> "NoUpstreamSelection"
            [] ~contains_protocol(offered, selected) -> "ClientDidNotOffer"
            [] selected \notin allowed -> "ProviderDisallows"
            [] mode \in {"ForceHttp11", "ForceH2"} /\ up \notin {"none", selected}
                 -> "UpstreamMismatch"
            [] mode = "RejectMismatch" /\ offered[1] # selected
                 -> "ClientPreferenceDowngraded"
            [] OTHER -> selected
  BY Zenon DEF lock_alpn
<1>2. mode \notin {"ForceHttp11", "ForceH2"} => selected = up
  OBVIOUS
<1> HIDE DEF selected
<1>3. /\ r = selected
      /\ contains_protocol(offered, selected)
      /\ selected \in allowed
      /\ ~(mode \in {"ForceHttp11", "ForceH2"} /\ up \notin {"none", selected})
  BY <1>1, SMTT(30) DEF AlpnErrors
<1>4. r \in Protocols
  BY <1>3 DEF contains_protocol
<1> QED
  BY <1>2, <1>3, <1>4

\* The same of a fallback's lock.
LEMMA FallbackSound ==
  ASSUME NEW c \in Configs, NEW offered,
         \A i \in DOMAIN offered : offered[i] \in Protocols,
         NEW up, NEW error \in {"UpstreamNegotiationFailed", "AlpnPolicy"}
  PROVE  LET o == Fallback(c, offered, up, error)
         IN  /\ o \in [kind: Kinds, alpn: Protocols \cup {"none"}]
             /\ o.kind = "Locked" =>
                  /\ contains_protocol(offered, o.alpn)
                  /\ o.alpn \in c.allowed
                  /\ up \in {"none", o.alpn}
<1> DEFINE lock == lock_alpn(offered, c.allowed, up, "ForceHttp11")
<1>1. CASE c.fallback = "FailClosed"
  BY <1>1 DEF Fallback, Result, Kinds
<1>2. CASE c.fallback = "ForceHttp11IfPossible"
  <2>1. Fallback(c, offered, up, error) = Locked(lock)
    BY <1>2 DEF Fallback
  <2>2. CASE lock \in AlpnErrors
    BY <2>1, <2>2, <1>2 DEF Locked, Result, Kinds
  <2>3. CASE lock \notin AlpnErrors
    <3>1. "ForceHttp11" \in Modes
      BY DEF Modes
    <3>2. /\ lock \in Protocols
          /\ contains_protocol(offered, lock)
          /\ lock \in c.allowed
          /\ up \in {"none", lock}
      BY <2>3, <3>1, LockSound
    <3> HIDE DEF lock
    <3> QED
      BY <2>1, <2>3, <3>2, <1>2 DEF Locked, Result, Kinds
  <2> QED
    BY <2>2, <2>3
<1>3. CASE c.fallback \notin {"FailClosed", "ForceHttp11IfPossible"}
  BY <1>3 DEF Fallback, Result, Kinds
<1> QED
  BY <1>1, <1>2, <1>3

\* And of the whole orchestration.
LEMMA OrchestrationSound ==
  ASSUME NEW c \in Configs, NEW a \in Offers
  PROVE  LET o == orchestrate_tls_session(c, a)
         IN  /\ o \in [kind: Kinds, alpn: Protocols \cup {"none"}]
             /\ o.kind = "Locked" =>
                  /\ contains_protocol(client_offered_alpn(a), o.alpn)
                  /\ o.alpn \in c.allowed
                  /\ negotiate_alpn(c, a) \in {o.alpn, "none", "failed"}
<1> DEFINE offered == client_offered_alpn(a)
           up == negotiate_alpn(c, a)
           lock == lock_alpn(offered, c.allowed, up, c.mode)
           o == orchestrate_tls_session(c, a)
<1>1. \A i \in DOMAIN offered : offered[i] \in Protocols
  BY OfferTyped
<1>2. c.mode \in Modes
  BY DEF Configs
<1>3. o = CASE up = "failed" -> apply_upstream_error_fallback(c, offered)
            [] up # "failed" /\ lock \in AlpnErrors -> apply_fallback(c, offered, up)
            [] OTHER -> Locked(lock)
  BY DEF orchestrate_tls_session
<1>4. lock \notin AlpnErrors =>
        /\ lock \in Protocols
        /\ contains_protocol(offered, lock)
        /\ lock \in c.allowed
        /\ up \in {"none", lock}
  BY <1>1, <1>2, LockSound
<1> HIDE DEF offered, up, lock, o
<1>5. CASE up = "failed"
  <2>1. o = Fallback(c, offered, "none", "UpstreamNegotiationFailed")
    BY <1>3, <1>5 DEF apply_upstream_error_fallback
  <2>2. /\ o \in [kind: Kinds, alpn: Protocols \cup {"none"}]
        /\ o.kind = "Locked" =>
             /\ contains_protocol(offered, o.alpn)
             /\ o.alpn \in c.allowed
    BY <1>1, <2>1, FallbackSound
  <2> QED
    BY <1>5, <2>2 DEF offered, up, o
<1>6. CASE up # "failed" /\ lock \in AlpnErrors
  <2>1. o = Fallback(c, offered, up, "AlpnPolicy")
    BY <1>3, <1>6 DEF apply_fallback
  <2>2. /\ o \in [kind: Kinds, alpn: Protocols \cup {"none"}]
        /\ o.kind = "Locked" =>
             /\ contains_protocol(offered, o.alpn)
             /\ o.alpn \in c.allowed
             /\ up \in {"none", o.alpn}
    BY <1>1, <2>1, FallbackSound
  <2> QED
    BY <2>2 DEF offered, up, o
<1>7. CASE up # "failed" /\ lock \notin AlpnErrors
  <2>1. o = Result("Locked", lock)
    BY <1>3, <1>7 DEF Locked
  <2>2. /\ o \in [kind: Kinds, alpn: Protocols \cup {"none"}]
        /\ o.alpn = lock
    BY <2>1, <1>4, <1>7 DEF Result, Kinds
  <2> QED
    BY <1>4, <1>7, <2>2 DEF offered, up, o
<1> QED
  BY <1>5, <1>6, <1>7

-----------------------------------------------------------------------------
(* Types                                                                   *)

\* The reads of a worker that is not reading are over.
LEMMA FailTyped ==
  ASSUME TypeOK, NEW error \in Kinds, Fail(error)
  PROVE  TypeOK'
BY DEF TypeOK, Fail, Release, Result

\* Every step keeps every variable's type.
LEMMA TypeStep ==
  ASSUME TypeOK, [Next]_vars
  PROVE  TypeOK'
<1> USE StreamAssumption DEF TypeOK
<1>1. CASE Start
  <2>1. timed' \in BOOLEAN
    BY <1>1, Zenon DEF Start
  <2>2. /\ stage' = "header" /\ want' = 5 /\ got' = 0
        /\ UNCHANGED <<raw, hs, needed, idle, age, alpn, conf, outcome>>
    BY <1>1 DEF Start, HeaderBytes
  <2> QED
    BY <2>1, <2>2
<1>2. ASSUME NEW handshake \in BOOLEAN, NEW len \in Lengths, HeaderRead(handshake, len)
      PROVE  TypeOK'
  <2>1. len \in Nat
    OBVIOUS
  <2>2. check_record_len(len, HeaderCounted(raw))
          \in {"RecordTooLarge", "ClientHelloTooLarge", "ok"}
    BY DEF check_record_len
  <2>3. HeaderCounted(raw) \in Nat
    BY DEF HeaderCounted, HeaderBytes
  <2>4. ASSUME NEW error \in ParserErrors, Fail(error) PROVE TypeOK'
    BY <2>4, FailTyped DEF Kinds
  <2> QED
    BY <1>2, <2>1, <2>2, <2>3, <2>4 DEF HeaderRead, ParserErrors
<1>3. ASSUME NEW have \in Nat, NEW total \in Nat, Collected(have, total)
      PROVE  TypeOK'
  BY <1>3 DEF Collected, MoreRecords, HeaderBytes
<1>4. ASSUME NEW hello \in BOOLEAN, NEW len \in Lengths, FirstPayloadRead(hello, len)
      PROVE  TypeOK'
  BY <1>3, <1>4, FailTyped DEF FirstPayloadRead, Kinds, ParserErrors
<1>5. CASE PayloadRead
  BY <1>3, <1>5, FailTyped DEF PayloadRead, Kinds, ParserErrors
<1>6. CASE Parse
  BY <1>6, FailTyped DEF Parse, Release, Kinds, ParserErrors
<1>7. ASSUME NEW c \in Configs, Route(c)
      PROVE  TypeOK'
  BY <1>7, OrchestrationSound DEF Route, reading
<1>8. CASE Wait
  BY <1>8 DEF Wait
<1>9. CASE ReadTimesOut \/ PeerCloses
  BY <1>9, FailTyped DEF ReadTimesOut, PeerCloses, Kinds, ParserErrors
<1>10. ASSUME NEW n \in 1 .. want, Receive(n)
       PROVE  TypeOK'
  BY <1>10 DEF Receive, Blocked
<1>11. CASE UNCHANGED vars
  BY <1>11 DEF vars, reading
<1> QED
  BY <1>1, <1>2, <1>4, <1>5, <1>6, <1>7, <1>8, <1>9, <1>10, <1>11
     DEF Next, Worker, Clock, Peer

\* Every variable of a worker keeps its type.
THEOREM TypeCorrect == Spec => []TypeOK
<1>1. Init => TypeOK
  <2>1. << >> \in [1 .. 0 -> Protocols] /\ 0 \in 0 .. MaxOffers
    BY OffersAssumption
  <2>2. << >> \in Offers
    BY <2>1 DEF Offers
  <2>3. NoConf \in Configs
    <3>1. Protocols \in (SUBSET Protocols) \ {{}}
      BY DEF Protocols
    <3> QED
      BY <3>1 DEF NoConf, Configs, Modes, Fallbacks
  <2>4. Result("none", "none") \in [kind: Kinds, alpn: Protocols \cup {"none"}]
    BY DEF Result, Kinds
  <2>5. ASSUME Init PROVE timed \in BOOLEAN
    BY <2>5, Zenon DEF Init
  <2>6. ASSUME Init
        PROVE  /\ alpn \in Offers /\ conf \in Configs
               /\ outcome \in [kind: Kinds, alpn: Protocols \cup {"none"}]
    BY <2>2, <2>3, <2>4, <2>6, Zenon DEF Init
  <2>7. ASSUME Init
        PROVE  /\ stage = "accepted"
               /\ raw = 0 /\ want = 0 /\ got = 0 /\ hs = 0 /\ needed = 0 /\ idle = 0 /\ age = 0
    BY <2>7 DEF Init
  <2> QED
    BY <2>5, <2>6, <2>7 DEF TypeOK
<1>2. TypeOK /\ [Next]_vars => TypeOK'
  BY TypeStep
<1> QED
  BY <1>1, <1>2, PTL DEF Spec

-----------------------------------------------------------------------------
(* The buffers                                                             *)

\* BuffersBounded is inductive once the loop's condition is part of it.
BufferInv ==
  /\ TypeOK
  /\ BuffersBounded
  /\ stage = "header" => want = HeaderBytes
  /\ needed # 0 => needed >= 4

\* A record that passes check_record_len fits.
LEMMA CheckSound ==
  ASSUME NEW len \in Nat, NEW so_far \in Nat, check_record_len(len, so_far) = "ok"
  PROVE  len <= MaxRecord /\ so_far + len <= MaxHello
BY StreamAssumption DEF check_record_len

\* A worker that failed holds nothing.
LEMMA FailKeepsBuffers ==
  ASSUME TypeOK', NEW error, Fail(error)
  PROVE  BufferInv'
BY StreamAssumption DEF Fail, Release, BufferInv, BuffersBounded

\* A record is added to the handshake within the limit.
LEMMA CollectedKeepsBuffers ==
  ASSUME BufferInv, TypeOK', stage = "payload",
         NEW have \in Nat, NEW total \in Nat, Collected(have, total),
         have <= hs + want, total >= 4
  PROVE  BufferInv'
BY StreamAssumption DEF BufferInv, BuffersBounded, TypeOK, Collected, MoreRecords, HeaderBytes

\* Every step keeps the buffers within their limits.
LEMMA BufferStep ==
  ASSUME BufferInv, [Next]_vars
  PROVE  BufferInv'
<1> TypeOK'
  BY TypeStep DEF BufferInv
<1> USE StreamAssumption DEF BufferInv, BuffersBounded, TypeOK
<1>1. CASE Start
  BY <1>1 DEF Start
<1>2. ASSUME NEW handshake \in BOOLEAN, NEW len \in Lengths, HeaderRead(handshake, len)
      PROVE  BufferInv'
  <2>1. ASSUME NEW error, Fail(error) PROVE BufferInv'
    BY <2>1, FailKeepsBuffers
  <2>2. ASSUME check_record_len(len, HeaderCounted(raw)) = "ok",
               stage' = "payload",
               raw' = HeaderCounted(raw) /\ want' = len /\ got' = 0,
               UNCHANGED <<hs, needed>>
        PROVE  BufferInv'
    <3>1. len \in Nat /\ HeaderCounted(raw) \in Nat /\ HeaderCounted(raw) >= raw
      BY DEF HeaderCounted, HeaderBytes
    <3>2. len <= MaxRecord /\ raw' + len <= MaxHello
      BY <2>2, <3>1, CheckSound
    <3> QED
      BY <2>2, <3>1, <3>2
  <2> QED
    BY <1>2, <2>1, <2>2 DEF HeaderRead
<1>3. ASSUME NEW hello \in BOOLEAN, NEW len \in Lengths, FirstPayloadRead(hello, len)
      PROVE  BufferInv'
  <2>1. ASSUME NEW error, Fail(error) PROVE BufferInv'
    BY <2>1, FailKeepsBuffers
  <2>2. ASSUME Collected(want, 4 + len), stage = "payload" PROVE BufferInv'
    <3>1. want \in Nat /\ 4 + len \in Nat /\ want <= hs + want /\ 4 + len >= 4
      OBVIOUS
    <3> QED
      BY <2>2, <3>1, CollectedKeepsBuffers
  <2> QED
    BY <1>3, <2>1, <2>2 DEF FirstPayloadRead
<1>4. CASE PayloadRead
  <2>1. ASSUME NEW error, Fail(error) PROVE BufferInv'
    BY <2>1, FailKeepsBuffers
  <2>2. ASSUME Collected(hs + want, needed), stage = "payload", needed # 0 PROVE BufferInv'
    <3>1. hs + want \in Nat /\ needed \in Nat /\ hs + want <= hs + want /\ needed >= 4
      BY <2>2
    <3> QED
      BY <2>2, <3>1, CollectedKeepsBuffers
  <2> QED
    BY <1>4, <2>1, <2>2 DEF PayloadRead
<1>5. CASE Parse
  <2>1. ASSUME NEW error, Fail(error) PROVE BufferInv'
    BY <2>1, FailKeepsBuffers
  <2>2. ASSUME Release, stage' = "route" PROVE BufferInv'
    BY <2>2 DEF Release
  <2> QED
    BY <1>5, <2>1, <2>2 DEF Parse
<1>6. ASSUME NEW c \in Configs, Route(c) PROVE BufferInv'
  BY <1>6 DEF Route, reading
<1>7. CASE Wait
  BY <1>7 DEF Wait, Blocked
<1>8. CASE ReadTimesOut \/ PeerCloses
  BY <1>8, FailKeepsBuffers DEF ReadTimesOut, PeerCloses
<1>9. ASSUME NEW n \in 1 .. want, Receive(n) PROVE BufferInv'
  BY <1>9 DEF Receive, Blocked
<1>10. CASE UNCHANGED vars
  BY <1>10 DEF vars, reading
<1> QED
  BY <1>1, <1>2, <1>3, <1>4, <1>5, <1>6, <1>7, <1>8, <1>9, <1>10
     DEF Next, Worker, Clock, Peer

\* However a peer fragments its hello, the worker's buffers stay within
\* MAX_CLIENT_HELLO_BYTES, for every limit and every set of lengths.
THEOREM ParserBounded == Spec => []BuffersBounded
<1>1. TypeOK /\ Init => BufferInv
  BY StreamAssumption DEF Init, BufferInv, BuffersBounded
<1>2. BufferInv /\ [Next]_vars => BufferInv'
  BY BufferStep
<1>3. BufferInv => BuffersBounded
  BY DEF BufferInv
<1> QED
  BY <1>1, <1>2, <1>3, TypeCorrect, PTL DEF Spec

-----------------------------------------------------------------------------
(* The time a worker is held                                               *)

\* Each byte buys at most one timeout, and the read under way has used idle.
TimeInv ==
  /\ TypeOK
  /\ timed => idle <= Timeout
  /\ timed => age <= Timeout * (raw + got) + idle
  /\ stage = "accepted" => age = 0 /\ idle = 0 /\ raw = 0
  /\ stage = "header" => want = HeaderBytes
  /\ stage # "accepted" /\ got = want => idle = 0

\* One more byte is one more timeout.
LEMMA TimeoutPerByte ==
  ASSUME NEW x \in Nat, NEW n \in Nat, n >= 1
  PROVE  Timeout * (x + n) >= Timeout * x + Timeout
<1>1. PICK m \in Nat : n = m + 1
  <2>1. n - 1 \in Nat /\ n = (n - 1) + 1
    OBVIOUS
  <2> QED
    BY <2>1
<1>2. Timeout * (x + n) = Timeout * x + Timeout * m + Timeout
  BY <1>1, StreamAssumption
<1>3. Timeout * m \in Nat /\ Timeout * x \in Nat
  BY StreamAssumption
<1> QED
  BY <1>2, <1>3, StreamAssumption

\* A worker that failed has stopped counting.
LEMMA ReleaseStopsTime ==
  ASSUME TypeOK', Release, stage' \notin {"accepted", "header"}
  PROVE  TimeInv'
<1>1. Timeout * (raw' + got') + idle' = 0
  BY StreamAssumption DEF Release
<1> QED
  BY <1>1, StreamAssumption DEF Release, TimeInv

\* The worker's reads keep the account; a received byte pays for the wait
\* before it.
LEMMA TimeStep ==
  ASSUME TimeInv, [Next]_vars
  PROVE  TimeInv'
<1> TypeOK'
  BY TypeStep DEF TimeInv
<1> USE StreamAssumption DEF TimeInv, TypeOK
<1>f. ASSUME NEW error, Fail(error) PROVE TimeInv'
  <2>1. Release /\ stage' = "done"
    BY <1>f DEF Fail
  <2> QED
    BY <2>1, ReleaseStopsTime
<1>1. CASE Start
  <2>1. /\ stage' = "header" /\ want' = HeaderBytes /\ got' = 0
        /\ raw' = 0 /\ idle' = 0 /\ age' = 0
    BY <1>1 DEF Start
  <2>2. Timeout * (raw' + got') + idle' = 0
    BY <2>1
  <2> QED
    BY <2>1, <2>2 DEF HeaderBytes
<1>2. ASSUME NEW handshake \in BOOLEAN, NEW len \in Lengths, HeaderRead(handshake, len)
      PROVE  TimeInv'
  <2>1. ASSUME stage = "header", got = want,
               stage' = "payload",
               raw' = HeaderCounted(raw) /\ want' = len /\ got' = 0 /\ idle' = 0,
               UNCHANGED <<timed, age>>
        PROVE  TimeInv'
    <3>1. raw' + got' = raw + got /\ idle = 0
      BY <2>1 DEF HeaderCounted, HeaderBytes
    <3> QED
      BY <2>1, <3>1
  <2> QED
    BY <1>f, <1>2, <2>1 DEF HeaderRead
<1>3. ASSUME NEW have, NEW total, Collected(have, total), stage = "payload", got = want
      PROVE  TimeInv'
  <2>1. /\ raw' + got' = raw + got /\ idle = 0 /\ idle' = 0
        /\ UNCHANGED <<timed, age>>
    BY <1>3 DEF Collected
  <2>2. (stage' = "header" /\ want' = HeaderBytes) \/ stage' = "parse"
    BY <1>3 DEF Collected
  <2> QED
    BY <2>1, <2>2
<1>4. ASSUME NEW hello \in BOOLEAN, NEW len \in Lengths, FirstPayloadRead(hello, len)
      PROVE  TimeInv'
  BY <1>f, <1>3, <1>4 DEF FirstPayloadRead
<1>5. CASE PayloadRead
  BY <1>f, <1>3, <1>5 DEF PayloadRead
<1>6. CASE Parse
  <2>1. ASSUME Release, stage' = "route" PROVE TimeInv'
    BY <2>1, ReleaseStopsTime
  <2> QED
    BY <1>f, <1>6, <2>1 DEF Parse
<1>7. ASSUME NEW c \in Configs, Route(c) PROVE TimeInv'
  BY <1>7 DEF Route, reading
<1>8. CASE Wait
  <2>1. Timeout * (raw + got) \in Nat
    OBVIOUS
  <2> QED
    BY <1>8, <2>1 DEF Wait, Blocked, MayWait
<1>9. CASE ReadTimesOut \/ PeerCloses
  BY <1>f, <1>9 DEF ReadTimesOut, PeerCloses
<1>10. ASSUME NEW n \in 1 .. want, Receive(n) PROVE TimeInv'
  <2>1. /\ n \in Nat /\ n >= 1 /\ raw + got \in Nat
        /\ raw' + got' = (raw + got) + n
        /\ idle' = 0 /\ UNCHANGED <<stage, timed, age, raw, want>>
        /\ stage \in {"header", "payload"}
    BY <1>10 DEF Receive, Blocked
  <2>2. Timeout * ((raw + got) + n) >= Timeout * (raw + got) + Timeout
    BY <2>1, TimeoutPerByte
  <2>3. Timeout * (raw + got) \in Nat /\ Timeout * ((raw + got) + n) \in Nat
    BY <2>1
  <2>4. timed => age <= Timeout * (raw + got) + Timeout
    <3>1. timed => idle <= Timeout /\ age <= Timeout * (raw + got) + idle
      OBVIOUS
    <3> QED
      BY <3>1, <2>3
  <2>5. timed => age <= Timeout * ((raw + got) + n)
    BY <2>2, <2>3, <2>4
  <2>6. Timeout * (raw' + got') + idle' = Timeout * ((raw + got) + n)
    <3>1. Timeout * (raw' + got') = Timeout * ((raw + got) + n)
      BY <2>1, Zenon
    <3>2. \A x \in Nat : x + 0 = x
      OBVIOUS
    <3> QED
      BY <2>1, <2>3, <3>1, <3>2, Zenon
  <2>7. timed' => age' <= Timeout * (raw' + got') + idle'
    BY <2>1, <2>5, <2>6
  <2>8. /\ timed' => idle' <= Timeout
        /\ stage' \in {"header", "payload"}
        /\ stage' = "header" => want' = HeaderBytes
        /\ idle' = 0
    BY <2>1
  <2> QED
    BY <2>7, <2>8
<1>11. CASE UNCHANGED vars
  BY <1>11 DEF vars, reading
<1> QED
  BY <1>1, <1>2, <1>4, <1>5, <1>6, <1>7, <1>8, <1>9, <1>10, <1>11
     DEF Next, Worker, Clock, Peer

\* With its timeout set, a worker is held at most one timeout for each byte
\* it has received and one more, for every timeout: that, and not the
\* timeout itself, is the bound on a ClientHello's delivery.
THEOREM TimeBounded == Spec => []PinnedPerByte
<1>1. TypeOK /\ Init => TimeInv
  <2>1. ASSUME Init PROVE Timeout * (raw + got) + idle = 0
    BY <2>1, StreamAssumption DEF Init
  <2> QED
    BY <2>1, StreamAssumption DEF Init, TimeInv
<1>2. TimeInv /\ [Next]_vars => TimeInv'
  BY TimeStep
<1>3. TimeInv => PinnedPerByte
  <2>1. ASSUME TimeInv
        PROVE  Timeout * (raw + got + 1) = Timeout * (raw + got) + Timeout
    BY <2>1, StreamAssumption DEF TimeInv, TypeOK
  <2>2. ASSUME TimeInv PROVE Timeout * (raw + got) \in Nat
    BY <2>2, StreamAssumption DEF TimeInv, TypeOK
  <2> QED
    BY <2>1, <2>2, StreamAssumption DEF TimeInv, TypeOK, PinnedPerByte
<1> QED
  BY <1>1, <1>2, <1>3, TypeCorrect, PTL DEF Spec

-----------------------------------------------------------------------------
(* The ALPN a flow ends with                                               *)

\* Only Route locks, and it is the last step.
AlpnInv ==
  /\ TypeOK
  /\ LockIsAgreed
  /\ stage # "done" => outcome.kind = "none"

\* Every step keeps a lock sound.
LEMMA AlpnStep ==
  ASSUME AlpnInv, [Next]_vars
  PROVE  AlpnInv'
<1> TypeOK'
  BY TypeStep DEF AlpnInv
<1> USE DEF AlpnInv, LockIsAgreed
<1>1. ASSUME NEW error \in ParserErrors, Fail(error) PROVE AlpnInv'
  BY <1>1 DEF Fail, Result, ParserErrors
<1>2. ASSUME NEW c \in Configs, Route(c) PROVE AlpnInv'
  <2>1. alpn \in Offers
    BY DEF TypeOK
  <2>2. conf' = c /\ outcome' = orchestrate_tls_session(c, alpn)
        /\ alpn' = alpn /\ stage' = "done"
    BY <1>2 DEF Route
  <2> QED
    BY <2>1, <2>2, OrchestrationSound
<1>3. ASSUME stage # "done", outcome' = outcome
      PROVE  AlpnInv'
  BY <1>3
<1>4. ASSUME NEW handshake \in BOOLEAN, NEW len \in Lengths, HeaderRead(handshake, len)
      PROVE  AlpnInv'
  <2>1. check_record_len(len, HeaderCounted(raw)) # "ok" =>
          check_record_len(len, HeaderCounted(raw)) \in ParserErrors
    BY DEF check_record_len, ParserErrors
  <2> QED
    BY <1>1, <1>3, <1>4, <2>1 DEF HeaderRead, ParserErrors
<1>5. ASSUME NEW hello \in BOOLEAN, NEW len \in Lengths, FirstPayloadRead(hello, len)
      PROVE  AlpnInv'
  BY <1>1, <1>3, <1>5 DEF FirstPayloadRead, Collected, ParserErrors
<1>6. CASE PayloadRead
  BY <1>1, <1>3, <1>6 DEF PayloadRead, Collected, ParserErrors
<1>7. CASE Parse
  BY <1>1, <1>3, <1>7 DEF Parse, ParserErrors
<1>8. CASE Start \/ Wait \/ \E n \in 1 .. want : Receive(n)
  BY <1>3, <1>8 DEF Start, Wait, Receive, Blocked
<1>9. CASE ReadTimesOut \/ PeerCloses
  BY <1>1, <1>9 DEF ReadTimesOut, PeerCloses, ParserErrors
<1>10. CASE UNCHANGED vars
  BY <1>10 DEF vars
<1> QED
  BY <1>2, <1>4, <1>5, <1>6, <1>7, <1>8, <1>9, <1>10 DEF Next, Worker, Clock, Peer

\* A locked protocol is offered by the client, allowed by the provider and what
\* the upstream selected, if it selected one, in every mode, through every
\* fallback and for offers of every length.
THEOREM AlpnSound == Spec => []LockIsAgreed
<1>1. TypeOK /\ Init => AlpnInv
  BY DEF Init, AlpnInv, LockIsAgreed, Result
<1>2. AlpnInv /\ [Next]_vars => AlpnInv'
  BY AlpnStep
<1>3. AlpnInv => LockIsAgreed
  BY DEF AlpnInv
<1> QED
  BY <1>1, <1>2, <1>3, TypeCorrect, PTL DEF Spec

-----------------------------------------------------------------------------
(* Why a worker ends                                                       *)

\* The work a worker has left at most, a natural number.  A byte is worth
\* more than the two steps a record takes once its header is in, so records
\* without a payload use up work as well.
Work ==
  LET bytes == MaxHello + HeaderBytes - raw - got
  IN  CASE stage = "done"     -> 0
        [] stage = "route"    -> 1
        [] stage = "parse"    -> 2
        [] stage = "header"   -> 4 * bytes + (IF got = 0 THEN 3 ELSE 5)
        [] stage = "payload"  -> 4 * bytes + 4
        [] stage = "accepted" -> 4 * (MaxHello + HeaderBytes) + 6

\* A step that uses up no work is a wait, and with a read timeout it uses up
\* some of what is left of that: no sequence of records a peer can send, in
\* pieces of any size, keeps read_client_hello_info in its loop.
UsesUp ==
  \/ Work' < Work
  \/ Work' = Work /\ Wait /\ (timed => idle < idle' /\ idle' <= Timeout)

\* What is left is never negative.
LEMMA WorkIsNat == BufferInv => Work \in Nat
BY StreamAssumption DEF BufferInv, BuffersBounded, TypeOK, Work, HeaderBytes

\* A worker that failed has nothing left to do.
LEMMA FailEndsWork ==
  ASSUME BufferInv, NEW error, Fail(error), stage \in {"header", "payload", "parse"}
  PROVE  Work' < Work
BY StreamAssumption DEF BufferInv, BuffersBounded, TypeOK, Fail, Release, Work, HeaderBytes

\* Handling a record's payload uses up work, also that of an empty record.
LEMMA CollectedUsesUp ==
  ASSUME BufferInv, NEW have, NEW total, Collected(have, total),
         stage = "payload", got = want
  PROVE  Work' < Work
BY StreamAssumption DEF BufferInv, BuffersBounded, TypeOK, Collected, MoreRecords, Work,
   HeaderBytes

\* Every step uses up work or, while it waits, the timeout.
LEMMA WorkStep ==
  ASSUME BufferInv, Next
  PROVE  UsesUp
<1>1. CASE Start
  BY <1>1, StreamAssumption DEF Start, BufferInv, TypeOK, UsesUp, Work, HeaderBytes
<1>2. ASSUME NEW handshake \in BOOLEAN, NEW len \in Lengths, HeaderRead(handshake, len)
      PROVE  UsesUp
  <2>1. ASSUME NEW error, Fail(error) PROVE UsesUp
    BY <1>2, <2>1, FailEndsWork DEF HeaderRead, UsesUp
  <2>2. ASSUME stage = "header", got = want, stage' = "payload",
               raw' = HeaderCounted(raw), got' = 0
        PROVE  UsesUp
    BY <2>2, StreamAssumption
       DEF BufferInv, BuffersBounded, TypeOK, UsesUp, Work, HeaderCounted, HeaderBytes
  <2> QED
    BY <1>2, <2>1, <2>2 DEF HeaderRead
<1>3. ASSUME NEW hello \in BOOLEAN, NEW len \in Lengths, FirstPayloadRead(hello, len)
      PROVE  UsesUp
  BY <1>3, FailEndsWork, CollectedUsesUp DEF FirstPayloadRead, UsesUp
<1>4. CASE PayloadRead
  BY <1>4, FailEndsWork, CollectedUsesUp DEF PayloadRead, UsesUp
<1>5. CASE Parse
  <2>1. ASSUME NEW error, Fail(error) PROVE UsesUp
    BY <1>5, <2>1, FailEndsWork DEF Parse, UsesUp
  <2>2. ASSUME stage = "parse", stage' = "route" PROVE UsesUp
    BY <2>2 DEF UsesUp, Work
  <2> QED
    BY <1>5, <2>1, <2>2 DEF Parse
<1>6. ASSUME NEW c \in Configs, Route(c) PROVE UsesUp
  BY <1>6 DEF Route, UsesUp, Work
<1>7. CASE Wait
  <2>1. Work' = Work
    BY <1>7 DEF Wait, Work
  <2>2. timed => idle < idle' /\ idle' <= Timeout
    BY <1>7, StreamAssumption DEF Wait, MayWait, BufferInv, TypeOK
  <2> QED
    BY <1>7, <2>1, <2>2 DEF UsesUp
<1>8. CASE ReadTimesOut \/ PeerCloses
  BY <1>8, FailEndsWork DEF ReadTimesOut, PeerCloses, Blocked, UsesUp
<1>9. ASSUME NEW n \in 1 .. want, Receive(n) PROVE UsesUp
  BY <1>9, StreamAssumption
     DEF Receive, Blocked, BufferInv, BuffersBounded, TypeOK, UsesUp, Work, HeaderBytes
<1> QED
  BY <1>1, <1>2, <1>3, <1>4, <1>5, <1>6, <1>7, <1>8, <1>9 DEF Next, Worker, Clock, Peer

\* Whatever its peer sends, a worker has a natural number of steps left that
\* each of its steps but a wait makes smaller, and waits in a row are bounded
\* by the read timeout: the part of WorkerEnds that does not need fairness,
\* for every limit, timeout and set of record lengths (handle_client,
\* read_client_hello_info).
THEOREM NoEndlessHello == Spec => [](Work \in Nat) /\ [][UsesUp]_vars
<1>1. TypeOK /\ Init => BufferInv
  BY StreamAssumption DEF Init, BufferInv, BuffersBounded
<1>2. BufferInv /\ [Next]_vars => BufferInv'
  BY BufferStep
<1>3. BufferInv => Work \in Nat
  BY WorkIsNat
<1>4. BufferInv /\ [Next]_vars => [UsesUp]_vars
  BY WorkStep
<1> QED
  BY <1>1, <1>2, <1>3, <1>4, TypeCorrect, PTL DEF Spec
==============================================================================
