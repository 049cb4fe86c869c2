------------------------- MODULE CooperativeOverlay --------------------------
(***************************************************************************)
(* The session table of src/cooperative_overlay.rs.  Every method takes    *)
(* &mut self, so a call is one step.  The crate only exports the type and  *)
(* its tests drive it, so nothing orders the calls: clock readings come as *)
(* arguments and need not increase, chunks may be repeated, lost and       *)
(* reordered, and the authenticator, a trait that the embedding program    *)
(* implements, answers anything.                                           *)
(***************************************************************************)
EXTENDS Integers, Sequences, FiniteSets

CONSTANTS Sessions,      \* the SessionIds, 16 bytes compared as one number
          SessionLimits, \* the arguments of new
          IdleTtls,
          PayloadLimits,
          PayloadLens,   \* the lengths of the payloads that arrive
          MaxClock,      \* the largest now_ms
          MaxSeq,        \* the largest sequence number a chunk carries
          U64Max         \* u64::MAX

ASSUME OverlayAssumption ==
  /\ Sessions \subseteq Nat
  /\ SessionLimits \subseteq Nat
  /\ IdleTtls \subseteq Nat
  /\ PayloadLimits \subseteq Nat
  /\ PayloadLens \subseteq Nat
  /\ MaxClock \in Nat
  /\ MaxSeq \in Nat
  /\ U64Max \in Nat
  /\ MaxSeq < U64Max    \* nobody sends 2^64 chunks in one session

VARIABLES limits,     \* max_sessions, idle_ttl_ms and max_payload_len
          sessions,   \* the HashMap: the open ids, and each one's record
          now,        \* the now_ms of the latest call that has one
          reply,      \* what the latest accept_chunk call answered, and to what
          delivered   \* history: the numbers accepted in each session's present life

vars == <<limits, sessions, now, reply, delivered>>

Clock == 0 .. MaxClock
SequenceNumbers == 0 .. MaxSeq
TransportMode == {"UdpPreferred", "TcpFallback"}
OverlayError == {"SessionAlreadyExists", "UnknownSession", "AuthFailed",
                 "PayloadTooLarge", "ReplayDetected", "OutOfOrder"}
OverlaySession == [mode : TransportMode, next_sequence : 0 .. U64Max,
                   last_seen_ms : Clock]
NoReply == [to |-> "none"]
ChunkReply == [to : {"chunk"}, session : Sessions, sequence : SequenceNumbers,
               result : OverlayError \cup {"Ok"}]

Live == DOMAIN sessions

-----------------------------------------------------------------------------

\* Mutant: new keeps a limit of 0.
AsGiven(n) == n

AtLeastOne(n) == IF n < 1 THEN 1 ELSE n
saturating_sub(a, b) == IF a < b THEN 0 ELSE a - b
saturating_inc(n) == IF n < U64Max THEN n + 1 ELSE U64Max

\* The sessions only of keep, and the history that goes with them.
Retain(keep) == [s \in keep |-> sessions[s]]
Forget(keep) == [s \in Sessions |-> IF s \in keep THEN delivered[s] ELSE << >>]

new(s, t, p) == [max_sessions |-> AtLeastOne(s), idle_ttl_ms |-> AtLeastOne(t),
                 max_payload_len |-> AtLeastOne(p)]

Init == /\ \E s \in SessionLimits, t \in IdleTtls, p \in PayloadLimits :
             limits = new(s, t, p)
        /\ sessions = << >>
        /\ now = 0
        /\ reply = NoReply
        /\ delivered = [s \in Sessions |-> << >>]

-----------------------------------------------------------------------------

\* What prune_stale retains.
Fresh(t) == {s \in Live :
               saturating_sub(t, sessions[s].last_seen_ms) <= limits.idle_ttl_ms}

\* The order of min_by: by last_seen_ms, then by id.
Older(u, s) == \/ sessions[u].last_seen_ms < sessions[s].last_seen_ms
               \/ sessions[u].last_seen_ms = sessions[s].last_seen_ms /\ u < s

\* Mutants: the loop stops one session early; max_by in place of min_by.
YoungestAndOneMore(R) == {s \in R :
                            Cardinality({u \in R : Older(s, u)}) < limits.max_sessions}
Oldest(R) == {s \in R :
                Cardinality({u \in R : Older(u, s)}) < limits.max_sessions - 1}

\* What the loop of evict_if_needed leaves of R: it removes the oldest
\* session until fewer than max_sessions are left.
Youngest(R) == {s \in R :
                  Cardinality({u \in R : Older(s, u)}) < limits.max_sessions - 1}

\* Mutant: without the call of prune_stale.
EvictWithoutPrune(t) == Youngest(Live)

evict_if_needed(t) == Youngest(Fresh(t))

open_session(s, verified, t) ==
  LET keep == evict_if_needed(t)
      opened == [mode |-> "UdpPreferred", next_sequence |-> 0, last_seen_ms |-> t]
  IN /\ now' = t
     /\ reply' = NoReply
     /\ \/ /\ verified /\ s \notin Live
           /\ sessions' = [u \in keep \cup {s} |-> IF u = s THEN opened ELSE sessions[u]]
           /\ delivered' = Forget(keep)
        \/ /\ ~verified \/ s \in Live      \* AuthFailed, SessionAlreadyExists
           /\ UNCHANGED <<sessions, delivered>>
     /\ UNCHANGED limits

\* Mutants: the number that is due counts as a replay; gaps are not refused.
ReplayOffByOne(s, sequence, len, verified) ==
  IF ~verified THEN "AuthFailed"
  ELSE IF len > limits.max_payload_len THEN "PayloadTooLarge"
  ELSE IF s \notin Live THEN "UnknownSession"
  ELSE IF sequence <= sessions[s].next_sequence THEN "ReplayDetected"
  ELSE "OutOfOrder"
GapsAccepted(s, sequence, len, verified) ==
  IF ~verified THEN "AuthFailed"
  ELSE IF len > limits.max_payload_len THEN "PayloadTooLarge"
  ELSE IF s \notin Live THEN "UnknownSession"
  ELSE IF sequence < sessions[s].next_sequence THEN "ReplayDetected"
  ELSE "Ok"

ChunkResult(s, sequence, len, verified) ==
  IF ~verified THEN "AuthFailed"
  ELSE IF len > limits.max_payload_len THEN "PayloadTooLarge"
  ELSE IF s \notin Live THEN "UnknownSession"
  ELSE IF sequence < sessions[s].next_sequence THEN "ReplayDetected"
  ELSE IF sequence > sessions[s].next_sequence THEN "OutOfOrder"
  ELSE "Ok"

accept_chunk(s, sequence, len, verified, t) ==
  LET result == ChunkResult(s, sequence, len, verified)
  IN /\ now' = t
     /\ reply' = [to |-> "chunk", session |-> s, sequence |-> sequence,
                  result |-> result]
     /\ \/ /\ result = "Ok"
           /\ sessions' = [sessions EXCEPT ![s].next_sequence = saturating_inc(@),
                                           ![s].last_seen_ms = t]
           /\ delivered' = [delivered EXCEPT ![s] = Append(@, sequence)]
        \/ /\ result # "Ok"
           /\ UNCHANGED <<sessions, delivered>>
     /\ UNCHANGED limits

SetMode(s, mode, t) ==
  /\ now' = t
  /\ reply' = NoReply
  /\ \/ /\ s \in Live
        /\ sessions' = [sessions EXCEPT ![s].mode = mode, ![s].last_seen_ms = t]
     \/ /\ s \notin Live                   \* UnknownSession
        /\ UNCHANGED sessions
  /\ UNCHANGED <<limits, delivered>>

mark_udp_path_failed(s, t) == SetMode(s, "TcpFallback", t)
mark_udp_path_validated(s, t) == SetMode(s, "UdpPreferred", t)

prune_stale(t) == /\ now' = t
                  /\ reply' = NoReply
                  /\ sessions' = Retain(Fresh(t))
                  /\ delivered' = Forget(Fresh(t))
                  /\ UNCHANGED limits

Next == \E t \in Clock :
          \/ \E s \in Sessions :
               \/ \E verified \in BOOLEAN : open_session(s, verified, t)
               \/ \E sequence \in SequenceNumbers, len \in PayloadLens, verified \in BOOLEAN :
                    accept_chunk(s, sequence, len, verified, t)
               \/ mark_udp_path_failed(s, t)
               \/ mark_udp_path_validated(s, t)
          \/ prune_stale(t)

Spec == Init /\ [][Next]_vars

-----------------------------------------------------------------------------
(* Properties                                                              *)

\* Every variable has its type; a session's counter stays a u64.
TypeOK ==
  /\ limits \in [max_sessions : Nat \ {0}, idle_ttl_ms : Nat \ {0},
                 max_payload_len : Nat \ {0}]
  /\ Live \subseteq Sessions
  /\ sessions \in [Live -> OverlaySession]
  /\ now \in Clock
  /\ reply \in ChunkReply \cup {NoReply}
  /\ delivered \in [Sessions -> Seq(Nat)]

\* The table never holds more than max_sessions sessions, whatever the order
\* of the calls' clocks (evict_if_needed before every insert).
SessionCap == Cardinality(Live) <= limits.max_sessions

\* A session that ends was idle for longer than idle_ttl_ms, or the table was
\* full and everyone who went on was seen after it: no active session loses
\* its place to an idler one, and none is evicted while there is room
\* (evict_if_needed, prune_stale).
NoNeedlessEviction ==
  [][\A s \in Live \ Live' :
       \/ now' - sessions[s].last_seen_ms > limits.idle_ttl_ms
       \/ /\ Cardinality(Live') = limits.max_sessions
          /\ \A u \in Live \cap Live' : Older(s, u)]_vars

\* A step that opens or ends a session leaves no idle one behind: an idle
\* session never holds a place that evict_if_needed could have given back,
\* even when there was room without it.
SweepsLeaveNoIdleSession ==
  [][Live' # Live =>
       \A s \in Live' : now' - sessions'[s].last_seen_ms <= limits.idle_ttl_ms]_vars

\* accept_chunk tells the truth about the session's stream: Replay means that
\* the number was accepted before in this life of the session, OutOfOrder that
\* an earlier number is still missing, Ok that the number is the stream's last.
RepliesHonest ==
  reply.to = "chunk" =>
    LET stream == delivered[reply.session]
        seen == {stream[i] : i \in DOMAIN stream}
    IN CASE reply.result = "ReplayDetected" -> reply.sequence \in seen
         [] reply.result = "OutOfOrder" ->
              \E q \in 0 .. (reply.sequence - 1) : q \notin seen
         [] reply.result = "Ok" -> stream # << >> /\ stream[Len(stream)] = reply.sequence
         [] OTHER -> TRUE

\* The table implements the abstract sessions: counters, clocks and limits
\* deliver each session's chunks in order and once (accept_chunk), and a
\* session starts again only after it was dropped (open_session).
Abs == INSTANCE OverlaySessions WITH live <- Live
SessionsInOrder == Abs!AbsSpec

=============================================================================
