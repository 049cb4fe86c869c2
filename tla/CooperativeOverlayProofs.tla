----------------------- MODULE CooperativeOverlayProofs ----------------------
(***************************************************************************)
(* Proofs about CooperativeOverlay for every set of sessions, limit, clock *)
(* and sequence of calls: the types, that the table implements the         *)
(* abstract sessions, that its answers are true, that a sweep leaves no    *)
(* idle session, that the table stays within its limit, and that nobody is *)
(* evicted who need not be.                                                *)
(***************************************************************************)
EXTENDS CooperativeOverlay, EvictionLemmas

-----------------------------------------------------------------------------
(* The calls, with their quantifiers taken off                             *)

\* What a verified open_session of a new id does, and no other one does
\* anything to the table.
Opens(s, t) == /\ s \notin Live
               /\ sessions' = [u \in evict_if_needed(t) \cup {s} |->
                    IF u = s THEN [mode |-> "UdpPreferred", next_sequence |-> 0,
                                   last_seen_ms |-> t]
                             ELSE sessions[u]]
               /\ delivered' = Forget(evict_if_needed(t))

\* What accept_chunk does for the number that is due.
Accepts(s, q, t) == /\ s \in Live
                    /\ q = sessions[s].next_sequence
                    /\ sessions' = [sessions EXCEPT ![s].next_sequence = saturating_inc(@),
                                                    ![s].last_seen_ms = t]
                    /\ delivered' = [delivered EXCEPT ![s] = Append(@, q)]

\* What the two path reports do.
Marks(s, mode, t) == /\ s \in Live
                     /\ sessions' = [sessions EXCEPT ![s].mode = mode, ![s].last_seen_ms = t]
                     /\ UNCHANGED delivered

Prunes(t) == /\ sessions' = Retain(Fresh(t))
             /\ delivered' = Forget(Fresh(t))

\* An accepted chunk belongs to a live session and carries the number due.
LEMMA AcceptedIsDue ==
  ASSUME NEW s, NEW q \in SequenceNumbers, NEW n, NEW v \in BOOLEAN, TypeOK,
         ChunkResult(s, q, n, v) = "Ok"
  PROVE  s \in Live /\ q = sessions[s].next_sequence
<1>1. s \in Live
  BY DEF ChunkResult
<1>2. sessions[s].next_sequence \in Nat
  BY <1>1, OverlayAssumption DEF TypeOK, OverlaySession
<1>3. q \in Nat
  BY OverlayAssumption DEF SequenceNumbers
<1>4. ~(q < sessions[s].next_sequence) /\ ~(q > sessions[s].next_sequence)
  BY <1>1 DEF ChunkResult
<1> QED
  BY <1>1, <1>2, <1>3, <1>4

\* Every step keeps the limits, sets the clock, and opens, accepts, marks,
\* prunes or leaves the table alone.
LEMMA StepCases ==
  ASSUME TypeOK, Next
  PROVE  /\ limits' = limits
         /\ now' \in Clock
         /\ \/ /\ reply' = NoReply
               /\ \/ \E s \in Sessions : Opens(s, now')
                  \/ \E s \in Sessions, m \in TransportMode : Marks(s, m, now')
                  \/ Prunes(now')
                  \/ UNCHANGED <<sessions, delivered>>
            \/ \E s \in Sessions, q \in SequenceNumbers, n \in PayloadLens, v \in BOOLEAN :
                 /\ reply' = [to |-> "chunk", session |-> s, sequence |-> q,
                              result |-> ChunkResult(s, q, n, v)]
                 /\ \/ /\ ChunkResult(s, q, n, v) = "Ok"
                       /\ Accepts(s, q, now')
                    \/ /\ ChunkResult(s, q, n, v) # "Ok"
                       /\ UNCHANGED <<sessions, delivered>>
<1>1. PICK t \in Clock :
        \/ \E s \in Sessions :
             \/ \E verified \in BOOLEAN : open_session(s, verified, t)
             \/ \E sequence \in SequenceNumbers, len \in PayloadLens, verified \in BOOLEAN :
                  accept_chunk(s, sequence, len, verified, t)
             \/ mark_udp_path_failed(s, t)
             \/ mark_udp_path_validated(s, t)
        \/ prune_stale(t)
  BY DEF Next
<1>2. CASE \E s \in Sessions, verified \in BOOLEAN : open_session(s, verified, t)
  BY <1>2, <1>1, Zenon DEF open_session, Opens
<1>3. CASE \E s \in Sessions, q \in SequenceNumbers, n \in PayloadLens, v \in BOOLEAN :
             accept_chunk(s, q, n, v, t)
  <2>1. PICK s \in Sessions, q \in SequenceNumbers, n \in PayloadLens, v \in BOOLEAN :
          accept_chunk(s, q, n, v, t)
    BY <1>3
  <2>2. ChunkResult(s, q, n, v) = "Ok" => s \in Live /\ q = sessions[s].next_sequence
    BY AcceptedIsDue
  <2>3. /\ limits' = limits
        /\ now' = t
        /\ reply' = [to |-> "chunk", session |-> s, sequence |-> q,
                     result |-> ChunkResult(s, q, n, v)]
    BY <2>1 DEF accept_chunk
  <2>4. \/ /\ ChunkResult(s, q, n, v) = "Ok"
           /\ Accepts(s, q, t)
        \/ /\ ChunkResult(s, q, n, v) # "Ok"
           /\ UNCHANGED <<sessions, delivered>>
    BY <2>1, <2>2, Zenon DEF accept_chunk, Accepts
  <2> QED
    BY <1>1, <2>3, <2>4, Zenon
<1>4. CASE \E s \in Sessions : mark_udp_path_failed(s, t) \/ mark_udp_path_validated(s, t)
  <2>1. PICK s \in Sessions, m \in TransportMode : SetMode(s, m, t)
    BY <1>4 DEF mark_udp_path_failed, mark_udp_path_validated, TransportMode
  <2> QED
    BY <2>1, <1>1, Zenon DEF SetMode, Marks
<1>5. CASE prune_stale(t)
  BY <1>5, <1>1, Zenon DEF prune_stale, Prunes
<1> QED
  BY <1>1, <1>2, <1>3, <1>4, <1>5

\* What an open or a sweep keeps was live, and not idle.
LEMMA KeptIsFresh ==
  ASSUME NEW t
  PROVE  /\ evict_if_needed(t) \subseteq Fresh(t)
         /\ Fresh(t) \subseteq Live
BY DEF evict_if_needed, Youngest, Fresh

-----------------------------------------------------------------------------
(* Types                                                                   *)

\* One call keeps the types.
LEMMA TypeStep ==
  ASSUME TypeOK, [Next]_vars
  PROVE  TypeOK'
<1>1. CASE UNCHANGED vars
  BY <1>1 DEF TypeOK, vars, Live
<1>2. CASE Next
  <2>1. limits' = limits /\ now' \in Clock
    BY <1>2, StepCases
  <2>2. reply' \in ChunkReply \cup {NoReply}
    <3>1. \A s \in Sessions, q \in SequenceNumbers, n \in PayloadLens, v \in BOOLEAN :
            ChunkResult(s, q, n, v) \in OverlayError \cup {"Ok"}
      BY DEF ChunkResult, OverlayError
    <3> QED
      BY <1>2, <3>1, StepCases DEF ChunkReply
  <2> DEFINE T == /\ Live' \subseteq Sessions
                  /\ sessions' \in [Live' -> OverlaySession]
                  /\ delivered' \in [Sessions -> Seq(Nat)]
  <2> SUFFICES T
    BY <2>1, <2>2 DEF TypeOK
  <2>3. CASE \E s \in Sessions : Opens(s, now')
    <3>1. PICK s \in Sessions : Opens(s, now')
      BY <2>3
    <3> DEFINE keep == evict_if_needed(now')
    <3>2. keep \subseteq Live
      BY KeptIsFresh
    <3>3. Live' = keep \cup {s}
      BY <3>1 DEF Opens, Live
    <3>4. [mode |-> "UdpPreferred", next_sequence |-> 0, last_seen_ms |-> now']
             \in OverlaySession
      BY <2>1, OverlayAssumption DEF OverlaySession, TransportMode
    <3>5. \A u \in keep : sessions[u] \in OverlaySession
      BY <3>2 DEF TypeOK
    <3> HIDE DEF keep
    <3>6. sessions' \in [Live' -> OverlaySession]
      BY <3>1, <3>3, <3>4, <3>5 DEF Opens, keep
    <3>7. delivered' \in [Sessions -> Seq(Nat)]
      BY <3>1 DEF Opens, Forget, TypeOK
    <3> QED
      BY <3>2, <3>3, <3>6, <3>7 DEF TypeOK
  <2>4. CASE \E s \in Sessions, q \in SequenceNumbers : Accepts(s, q, now')
    <3>1. PICK s \in Sessions, q \in SequenceNumbers : Accepts(s, q, now')
      BY <2>4
    <3>2. q \in Nat /\ saturating_inc(q) \in 0 .. U64Max
      BY OverlayAssumption DEF SequenceNumbers, saturating_inc
    <3>3. sessions' = [sessions EXCEPT ![s] = [@ EXCEPT !.next_sequence = saturating_inc(q),
                                                       !.last_seen_ms = now']]
      BY <3>1 DEF Accepts
    <3>4. [sessions[s] EXCEPT !.next_sequence = saturating_inc(q), !.last_seen_ms = now']
             \in OverlaySession
      BY <2>1, <3>1, <3>2 DEF Accepts, TypeOK, OverlaySession
    <3>5. Live' = Live /\ sessions' \in [Live' -> OverlaySession]
      BY <3>1, <3>3, <3>4 DEF Accepts, TypeOK, Live
    <3>6. delivered' \in [Sessions -> Seq(Nat)]
      BY <3>1, <3>2 DEF Accepts, TypeOK
    <3> QED
      BY <3>5, <3>6 DEF TypeOK
  <2>5. CASE \E s \in Sessions, m \in TransportMode : Marks(s, m, now')
    <3>1. PICK s \in Sessions, m \in TransportMode : Marks(s, m, now')
      BY <2>5
    <3>2. [sessions[s] EXCEPT !.mode = m, !.last_seen_ms = now'] \in OverlaySession
      BY <2>1, <3>1 DEF Marks, TypeOK, OverlaySession
    <3>3. Live' = Live /\ sessions' \in [Live' -> OverlaySession]
      BY <3>1, <3>2 DEF Marks, TypeOK, Live
    <3> QED
      BY <3>1, <3>3 DEF Marks, TypeOK
  <2>6. CASE Prunes(now')
    <3>1. Live' = Fresh(now')
      BY <2>6 DEF Prunes, Retain, Live
    <3>2. Fresh(now') \subseteq Live
      BY KeptIsFresh
    <3>3. sessions' \in [Live' -> OverlaySession]
      BY <2>6, <3>1, <3>2 DEF Prunes, Retain, TypeOK
    <3>4. delivered' \in [Sessions -> Seq(Nat)]
      BY <2>6 DEF Prunes, Forget, TypeOK
    <3> QED
      BY <3>1, <3>2, <3>3, <3>4 DEF TypeOK
  <2>7. CASE UNCHANGED <<sessions, delivered>>
    BY <2>7 DEF TypeOK, Live
  <2> QED
    BY <1>2, <2>3, <2>4, <2>5, <2>6, <2>7, StepCases
<1> QED
  BY <1>1, <1>2

LEMMA TypeInit ==
  ASSUME Init
  PROVE  TypeOK /\ Live = {}
<1>1. Live = {}
  BY DEF Init, Live
<1>2. limits \in [max_sessions : Nat \ {0}, idle_ttl_ms : Nat \ {0},
                  max_payload_len : Nat \ {0}]
  BY OverlayAssumption DEF Init, new, AtLeastOne
<1>3. sessions \in [Live -> OverlaySession]
  BY <1>1 DEF Init
<1> QED
  BY <1>1, <1>2, <1>3, OverlayAssumption DEF Init, TypeOK, Clock

\* Every field of the table keeps its type; the limits are never 0 and no
\* sequence counter leaves the range of u64.
THEOREM TypeCorrect == Spec => []TypeOK
<1>1. Init => TypeOK
  BY TypeInit
<1>2. TypeOK /\ [Next]_vars => TypeOK'
  BY TypeStep
<1> QED
  BY <1>1, <1>2, PTL DEF Spec

-----------------------------------------------------------------------------
(* The counters and the streams                                            *)

\* What ties the table to the streams: a live session's counter is the length
\* of its stream, a stream is 0, 1, 2, ..., and a closed session has none.
StreamOf(s) ==
  /\ s \in Live => Len(delivered[s]) = sessions[s].next_sequence
  /\ s \notin Live => delivered[s] = << >>
  /\ \A i \in 1 .. Len(delivered[s]) : delivered[s][i] = i - 1
Linked == \A s \in Sessions : StreamOf(s)

\* A step that keeps some sessions and clears the rest keeps the link.
LEMMA ForgetKeepsLink ==
  ASSUME TypeOK, Linked, NEW keep, keep \subseteq Live, NEW s \in Sessions,
         delivered' = Forget(keep),
         s \in keep => s \in Live' /\ sessions'[s] = sessions[s],
         s \notin keep /\ s \in Live' => sessions'[s].next_sequence = 0
  PROVE  StreamOf(s)'
<1>1. CASE s \in keep
  <2>1. delivered'[s] = delivered[s]
    BY <1>1 DEF Forget
  <2>2. StreamOf(s)
    BY DEF Linked
  <2> QED
    BY <1>1, <2>1, <2>2 DEF StreamOf, Live
<1>2. CASE s \notin keep
  <2>1. delivered'[s] = << >>
    BY <1>2 DEF Forget
  <2> QED
    BY <1>2, <2>1 DEF StreamOf, Live
<1> QED
  BY <1>1, <1>2

\* What an accepted chunk does to its own session and to the others.
LEMMA AcceptEffect ==
  ASSUME TypeOK, NEW s \in Sessions, NEW q \in SequenceNumbers, NEW t, Accepts(s, q, t)
  PROVE  /\ Live' = Live
         /\ sessions'[s].next_sequence = q + 1
         /\ delivered'[s] = Append(delivered[s], q)
         /\ \A u \in Sessions \ {s} : /\ delivered'[u] = delivered[u]
                                      /\ u \in Live => sessions'[u] = sessions[u]
<1>1. q \in Nat /\ q < U64Max
  BY OverlayAssumption DEF SequenceNumbers
<1>2. saturating_inc(q) = q + 1
  BY <1>1 DEF saturating_inc
<1>3. sessions' = [sessions EXCEPT ![s] = [@ EXCEPT !.next_sequence = saturating_inc(q),
                                                   !.last_seen_ms = t]]
  BY DEF Accepts
<1>4. Live' = Live
  BY <1>3 DEF Live
<1>5. sessions'[s].next_sequence = q + 1
  BY <1>2, <1>3 DEF Accepts, TypeOK, OverlaySession
<1>6. delivered' = [delivered EXCEPT ![s] = Append(@, q)]
  BY DEF Accepts
<1> QED
  BY <1>3, <1>4, <1>5, <1>6 DEF TypeOK

\* One call keeps the link.
LEMMA LinkStep ==
  ASSUME TypeOK, Linked, [Next]_vars
  PROVE  Linked'
<1>1. CASE UNCHANGED vars
  BY <1>1 DEF Linked, StreamOf, vars, Live
<1>2. CASE Next
  <2> SUFFICES ASSUME NEW s \in Sessions
               PROVE  StreamOf(s)'
    BY DEF Linked
  <2>0. StreamOf(s) /\ delivered[s] \in Seq(Nat)
    BY DEF Linked, TypeOK
  <2>3. CASE \E u \in Sessions : Opens(u, now')
    <3>1. PICK u \in Sessions : Opens(u, now')
      BY <2>3
    <3> DEFINE keep == evict_if_needed(now')
    <3>2. keep \subseteq Live
      BY KeptIsFresh
    <3>3. Live' = keep \cup {u} /\ u \notin keep
      BY <3>1, <3>2 DEF Opens, Live
    <3>4. delivered' = Forget(keep)
      BY <3>1 DEF Opens
    <3>5. \A x \in keep : sessions'[x] = sessions[x]
      BY <3>1, <3>3 DEF Opens
    <3>6. sessions'[u].next_sequence = 0
      BY <3>1 DEF Opens
    <3> HIDE DEF keep
    <3> QED
      BY <3>2, <3>3, <3>4, <3>5, <3>6, ForgetKeepsLink
  <2>4. CASE \E u \in Sessions, q \in SequenceNumbers : Accepts(u, q, now')
    <3>1. PICK u \in Sessions, q \in SequenceNumbers : Accepts(u, q, now')
      BY <2>4
    <3>2. CASE s = u
      <4>1. /\ Live' = Live
            /\ sessions'[s].next_sequence = q + 1
            /\ delivered'[s] = Append(delivered[s], q)
        BY <3>1, <3>2, AcceptEffect
      <4>2. s \in Live /\ q = Len(delivered[s])
        BY <2>0, <3>1, <3>2 DEF Accepts, StreamOf
      <4>3. q \in Nat
        BY <2>0, <4>2
      <4>4. Len(delivered'[s]) = q + 1
        BY <2>0, <4>1, <4>2, <4>3
      <4>5. ASSUME NEW i \in 1 .. q + 1
            PROVE  delivered'[s][i] = i - 1
        <5>1. CASE i = q + 1
          BY <2>0, <4>1, <4>2, <4>3, <5>1
        <5>2. CASE i # q + 1
          <6>1. i \in 1 .. q
            BY <4>3, <5>2
          <6>2. delivered'[s][i] = delivered[s][i]
            BY <2>0, <4>1, <4>2, <6>1
          <6> QED
            BY <2>0, <4>2, <6>1, <6>2 DEF StreamOf
        <5> QED
          BY <5>1, <5>2
      <4> QED
        BY <4>1, <4>2, <4>4, <4>5 DEF StreamOf
    <3>3. CASE s # u
      <4>1. /\ Live' = Live
            /\ delivered'[s] = delivered[s]
            /\ s \in Live => sessions'[s] = sessions[s]
        BY <3>1, <3>3, AcceptEffect
      <4> QED
        BY <2>0, <4>1 DEF StreamOf
    <3> QED
      BY <3>2, <3>3
  <2>5. CASE \E u \in Sessions, m \in TransportMode : Marks(u, m, now')
    <3>1. PICK u \in Sessions, m \in TransportMode : Marks(u, m, now')
      BY <2>5
    <3>2. Live' = Live /\ delivered' = delivered
      BY <3>1 DEF Marks, Live
    <3>3. s \in Live => sessions'[s].next_sequence = sessions[s].next_sequence
      BY <3>1 DEF Marks, TypeOK, OverlaySession
    <3> QED
      BY <2>0, <3>2, <3>3 DEF StreamOf
  <2>6. CASE Prunes(now')
    <3>1. Live' = Fresh(now') /\ Fresh(now') \subseteq Live
      BY <2>6, KeptIsFresh DEF Prunes, Retain, Live
    <3>2. \A x \in Fresh(now') : sessions'[x] = sessions[x]
      BY <2>6 DEF Prunes, Retain
    <3> QED
      BY <2>6, <3>1, <3>2, ForgetKeepsLink DEF Prunes
  <2>7. CASE UNCHANGED <<sessions, delivered>>
    BY <2>0, <2>7 DEF StreamOf, Live
  <2> QED
    BY <1>2, <2>3, <2>4, <2>5, <2>6, <2>7, StepCases
<1> QED
  BY <1>1, <1>2

LEMMA LinkInit ==
  ASSUME Init
  PROVE  Linked
BY TypeInit DEF Init, Linked, StreamOf

-----------------------------------------------------------------------------
(* The table implements the abstract sessions                              *)

\* A call is a step of the abstract sessions, or none.
LEMMA AbsStep ==
  ASSUME TypeOK, Linked, [Next]_vars
  PROVE  [Abs!AbsNext]_(Abs!avars)
<1>1. CASE UNCHANGED vars
  BY <1>1 DEF vars, Abs!avars, Live
<1>2. CASE Next
  <2>3. CASE \E u \in Sessions : Opens(u, now')
    <3>1. PICK u \in Sessions : Opens(u, now')
      BY <2>3
    <3> DEFINE keep == evict_if_needed(now')
    <3>2. keep \in SUBSET Live
      BY KeptIsFresh
    <3>3. Live' = keep \cup {u} /\ u \notin Live
      BY <3>1 DEF Opens, Live
    <3>4. delivered' = Abs!Forget(keep)
      BY <3>1 DEF Opens, Forget, Abs!Forget
    <3> HIDE DEF keep
    <3>5. Abs!Open(u, keep)
      BY <3>3, <3>4 DEF Abs!Open
    <3> QED
      BY <3>2, <3>5 DEF Abs!AbsNext
  <2>4. CASE \E u \in Sessions, q \in SequenceNumbers : Accepts(u, q, now')
    <3>1. PICK u \in Sessions, q \in SequenceNumbers : Accepts(u, q, now')
      BY <2>4
    <3>2. u \in Live /\ q = Len(delivered[u])
      BY <3>1 DEF Accepts, Linked, StreamOf
    <3>3. Live' = Live
      BY <3>1, AcceptEffect
    <3>4. delivered' = [delivered EXCEPT ![u] = Append(@, Len(@))]
      BY <3>1, <3>2 DEF Accepts
    <3>5. Abs!Deliver(u)
      BY <3>2, <3>3, <3>4 DEF Abs!Deliver
    <3>6. {} \in SUBSET Live
      OBVIOUS
    <3> QED
      BY <3>5, <3>6 DEF Abs!AbsNext
  <2>5. CASE \E u \in Sessions, m \in TransportMode : Marks(u, m, now')
    BY <2>5 DEF Marks, Live, Abs!avars
  <2>6. CASE Prunes(now')
    <3>1. Live' = Fresh(now') /\ Fresh(now') \in SUBSET Live
      BY <2>6, KeptIsFresh DEF Prunes, Retain, Live
    <3>2. Abs!Expire(Fresh(now'))
      BY <2>6, <3>1 DEF Prunes, Forget, Abs!Expire, Abs!Forget
    <3> QED
      BY <3>1, <3>2 DEF Abs!AbsNext
  <2>7. CASE UNCHANGED <<sessions, delivered>>
    BY <2>7 DEF Live, Abs!avars
  <2> QED
    BY <1>2, <2>3, <2>4, <2>5, <2>6, <2>7, StepCases
<1> QED
  BY <1>1, <1>2

\* Whatever the calls' order, clocks and numbers, the table behaves as the
\* abstract sessions: while a session lives its chunks are accepted in order,
\* none twice and none missing, and it starts again only after it was dropped.
THEOREM Implements == Spec => SessionsInOrder
<1>1. Init => TypeOK /\ Linked /\ Abs!AbsInit
  BY TypeInit, LinkInit DEF Init, Abs!AbsInit
<1>2. TypeOK /\ Linked /\ [Next]_vars => TypeOK' /\ Linked'
  BY TypeStep, LinkStep
<1>3. TypeOK /\ Linked /\ [Next]_vars => [Abs!AbsNext]_(Abs!avars)
  BY AbsStep
<1> QED
  BY <1>1, <1>2, <1>3, PTL DEF Spec, SessionsInOrder, Abs!AbsSpec

-----------------------------------------------------------------------------
(* The answers to chunks                                                   *)

\* The answer to a chunk fits the stream the table has after it.
LEMMA ReplyStep ==
  ASSUME TypeOK, Linked, RepliesHonest, [Next]_vars, Linked'
  PROVE  RepliesHonest'
<1>1. CASE UNCHANGED vars
  BY <1>1 DEF RepliesHonest, vars
<1>2. CASE Next /\ reply' = NoReply
  BY <1>2 DEF RepliesHonest, NoReply
<1>3. CASE Next /\ reply' # NoReply
  <2>1. PICK s \in Sessions, q \in SequenceNumbers, n \in PayloadLens, v \in BOOLEAN :
          /\ reply' = [to |-> "chunk", session |-> s, sequence |-> q,
                       result |-> ChunkResult(s, q, n, v)]
          /\ \/ /\ ChunkResult(s, q, n, v) = "Ok"
                /\ Accepts(s, q, now')
             \/ /\ ChunkResult(s, q, n, v) # "Ok"
                /\ UNCHANGED <<sessions, delivered>>
    BY <1>3, StepCases
  <2> DEFINE result == ChunkResult(s, q, n, v)
             seen == {delivered'[s][i] : i \in DOMAIN delivered'[s]}
  <2>2. reply'.session = s /\ reply'.sequence = q /\ reply'.result = result
    BY <2>1
  <2>3. /\ q \in Nat /\ delivered[s] \in Seq(Nat)
        /\ s \in Live => sessions[s].next_sequence \in Nat
    BY OverlayAssumption DEF SequenceNumbers, TypeOK, OverlaySession
  <2>4. CASE result = "Ok"
    <3>1. delivered'[s] = Append(delivered[s], q)
      BY <2>1, <2>4, AcceptEffect
    <3>2. /\ delivered'[s] # << >>
          /\ delivered'[s][Len(delivered'[s])] = q
      BY <2>3, <3>1
    <3> QED
      BY <2>2, <2>4, <3>2 DEF RepliesHonest
  <2>5. CASE result = "ReplayDetected"
    <3>1. s \in Live /\ q < sessions[s].next_sequence
      BY <2>5 DEF ChunkResult
    <3>2. delivered' = delivered /\ q + 1 \in 1 .. Len(delivered[s])
      BY <2>1, <2>3, <2>5, <3>1 DEF Linked, StreamOf
    <3>3. delivered[s][q + 1] = q
      BY <2>3, <3>2 DEF Linked, StreamOf
    <3>4. q \in seen
      BY <2>3, <3>2, <3>3
    <3> QED
      BY <2>2, <2>5, <3>4 DEF RepliesHonest
  <2>6. CASE result = "OutOfOrder"
    <3> DEFINE due == sessions[s].next_sequence
    <3>1. s \in Live /\ q > due
      BY <2>6 DEF ChunkResult
    <3>2. delivered' = delivered /\ due = Len(delivered[s])
      BY <2>1, <2>6, <3>1 DEF Linked, StreamOf
    <3>3. \A i \in 1 .. Len(delivered[s]) : delivered[s][i] = i - 1
      BY DEF Linked, StreamOf
    <3>4. due \in 0 .. (q - 1) /\ due \in Nat
      BY <2>3, <3>1
    <3> HIDE DEF due
    <3>5. due \notin seen
      <4> SUFFICES ASSUME NEW i \in 1 .. Len(delivered[s]), delivered[s][i] = due
                   PROVE  FALSE
        BY <2>3, <3>2
      <4> QED
        BY <2>3, <3>2, <3>3, <3>4
    <3> QED
      BY <2>2, <2>6, <3>4, <3>5 DEF RepliesHonest
  <2>7. CASE result \notin {"Ok", "ReplayDetected", "OutOfOrder"}
    BY <2>2, <2>7 DEF RepliesHonest
  <2> QED
    BY <2>4, <2>5, <2>6, <2>7
<1> QED
  BY <1>1, <1>2, <1>3

\* accept_chunk never calls a chunk a replay that it has not accepted, never
\* calls one out of order when nothing before it is missing, and never accepts
\* one without adding it to the stream.
THEOREM AnswersTrue == Spec => []RepliesHonest
<1> DEFINE I == TypeOK /\ Linked /\ RepliesHonest
<1>1. Init => I
  BY TypeInit, LinkInit DEF Init, RepliesHonest, NoReply
<1>2. I /\ [Next]_vars => I'
  BY TypeStep, LinkStep, ReplyStep
<1> QED
  BY <1>1, <1>2, PTL DEF Spec

-----------------------------------------------------------------------------
(* Sweeps                                                                  *)

\* For every idle_ttl_ms and every order of the clocks, a call that changes
\* which sessions are open leaves none that is idle at the call's time.
THEOREM SweepsComplete == Spec => SweepsLeaveNoIdleSession
<1> DEFINE P == Live' # Live =>
                  \A s \in Live' : now' - sessions'[s].last_seen_ms <= limits.idle_ttl_ms
<1>1. ASSUME TypeOK, Next
      PROVE  P
  <2> SUFFICES ASSUME Live' # Live, NEW s \in Live'
               PROVE  now' - sessions'[s].last_seen_ms <= limits.idle_ttl_ms
    OBVIOUS
  <2>1. now' \in Nat /\ limits.idle_ttl_ms \in Nat
    BY <1>1, StepCases, OverlayAssumption DEF Clock, TypeOK
  <2>2. ASSUME s \in Fresh(now'), sessions'[s] = sessions[s]
        PROVE  now' - sessions'[s].last_seen_ms <= limits.idle_ttl_ms
    <3>1. s \in Live /\ saturating_sub(now', sessions[s].last_seen_ms) <= limits.idle_ttl_ms
      BY <2>2 DEF Fresh
    <3>2. sessions[s].last_seen_ms \in Nat
      BY <1>1, <3>1, OverlayAssumption DEF TypeOK, OverlaySession, Clock
    <3> QED
      BY <2>1, <2>2, <3>1, <3>2 DEF saturating_sub
  <2>3. CASE \E u \in Sessions : Opens(u, now')
    <3>1. PICK u \in Sessions : Opens(u, now')
      BY <2>3
    <3>2. CASE s = u
      <4>1. sessions'[s].last_seen_ms = now'
        BY <3>1, <3>2 DEF Opens
      <4> QED
        BY <2>1, <4>1
    <3>3. CASE s # u
      <4>1. s \in evict_if_needed(now') /\ sessions'[s] = sessions[s]
        BY <3>1, <3>3 DEF Opens, Live
      <4> QED
        BY <2>2, <4>1, KeptIsFresh
    <3> QED
      BY <3>2, <3>3
  <2>4. CASE Prunes(now')
    <3>1. s \in Fresh(now') /\ sessions'[s] = sessions[s]
      BY <2>4 DEF Prunes, Retain, Live
    <3> QED
      BY <2>2, <3>1
  <2>5. CASE \E u \in Sessions, q \in SequenceNumbers : Accepts(u, q, now')
    BY <1>1, <2>5, AcceptEffect
  <2>6. CASE \E u \in Sessions, m \in TransportMode : Marks(u, m, now')
    BY <2>6 DEF Marks, Live
  <2>7. CASE UNCHANGED <<sessions, delivered>>
    BY <2>7 DEF Live
  <2> QED
    BY <1>1, <2>3, <2>4, <2>5, <2>6, <2>7, StepCases
<1>2. TypeOK /\ [Next]_vars => [P]_vars
  BY <1>1
<1> QED
  BY <1>2, TypeCorrect, PTL DEF Spec, SweepsLeaveNoIdleSession

-----------------------------------------------------------------------------
(* Eviction                                                                *)

\* The order of min_by on the sessions of G, as a set of pairs
Ages(G) == {p \in G \X G : Older(p[1], p[2])}

\* By last_seen_ms and then by id, no two sessions are equally old.
LEMMA AgesIsOrder ==
  ASSUME TypeOK, NEW G, G \subseteq Live
  PROVE  StrictOrder(Ages(G), G)
<1>1. \A s \in G : s \in Nat /\ sessions[s].last_seen_ms \in Nat
  BY OverlayAssumption DEF TypeOK, OverlaySession, Clock
<1>2. \A s, u \in G : <<s, u>> \in Ages(G) <=> Older(s, u)
  BY DEF Ages
<1>3. \A s \in G : ~ Older(s, s)
  BY <1>1 DEF Older
<1>4. \A s, u \in G : s # u => Older(s, u) \/ Older(u, s)
  BY <1>1 DEF Older
<1>5. \A s, u, w \in G : Older(s, u) /\ Older(u, w) => Older(s, w)
  BY <1>1 DEF Older
<1> QED
  BY <1>2, <1>3, <1>4, <1>5 DEF StrictOrder

\* The loop of evict_if_needed leaves the max_sessions - 1 youngest.
LEMMA YoungestAreGreatest ==
  ASSUME NEW G
  PROVE  Youngest(G) = Greatest(Ages(G), G, limits.max_sessions - 1)
<1>1. \A s \in G : {u \in G : Older(s, u)} = Above(Ages(G), G, s)
  BY DEF Ages, Above
<1> QED
  BY <1>1 DEF Youngest, Greatest

\* What one open or sweep leaves of a finite table is finite, and an open
\* leaves room for the session it inserts.
LEMMA EvictionMakesRoom ==
  ASSUME TypeOK, IsFiniteSet(Live), NEW t
  PROVE  /\ IsFiniteSet(Fresh(t)) /\ Cardinality(Fresh(t)) <= Cardinality(Live)
         /\ IsFiniteSet(evict_if_needed(t))
         /\ Cardinality(evict_if_needed(t)) <= limits.max_sessions - 1
<1>1. Fresh(t) \subseteq Live
  BY KeptIsFresh
<1>2. IsFiniteSet(Fresh(t)) /\ Cardinality(Fresh(t)) <= Cardinality(Live)
  BY <1>1, FS_Subset
<1>3. limits.max_sessions - 1 \in Nat
  BY DEF TypeOK
<1> QED
  BY <1>1, <1>2, <1>3, AgesIsOrder, YoungestAreGreatest, GreatestAtMost DEF evict_if_needed

\* The limit, with the finiteness that makes the count mean something
Bounded == IsFiniteSet(Live) /\ SessionCap

\* One call keeps the table within its limit.
LEMMA BoundedStep ==
  ASSUME TypeOK, Bounded, [Next]_vars
  PROVE  Bounded'
<1>0. limits.max_sessions \in Nat /\ Cardinality(Live) \in Nat
  BY FS_CardinalityType DEF TypeOK, Bounded
<1>1. CASE UNCHANGED vars
  BY <1>1 DEF Bounded, SessionCap, vars, Live
<1>2. CASE Next
  <2>1. limits' = limits
    BY <1>2, StepCases
  <2>2. CASE Live' = Live
    BY <2>1, <2>2 DEF Bounded, SessionCap
  <2>3. CASE \E u \in Sessions : Opens(u, now')
    <3>1. PICK u \in Sessions : Opens(u, now')
      BY <2>3
    <3> DEFINE keep == evict_if_needed(now')
    <3>2. Live' = keep \cup {u}
      BY <3>1 DEF Opens, Live
    <3>3. u \notin keep
      BY <3>1, KeptIsFresh DEF Opens
    <3>4. IsFiniteSet(keep) /\ Cardinality(keep) <= limits.max_sessions - 1
      BY EvictionMakesRoom DEF Bounded
    <3> HIDE DEF keep
    <3>5. IsFiniteSet(Live') /\ Cardinality(Live') = Cardinality(keep) + 1
      BY <3>2, <3>3, <3>4, FS_AddElement
    <3> QED
      BY <1>0, <2>1, <3>4, <3>5, FS_CardinalityType DEF Bounded, SessionCap
  <2>4. CASE Prunes(now')
    <3>1. Live' = Fresh(now')
      BY <2>4 DEF Prunes, Retain, Live
    <3>2. IsFiniteSet(Live') /\ Cardinality(Live') <= Cardinality(Live)
      BY <3>1, EvictionMakesRoom DEF Bounded
    <3> QED
      BY <1>0, <2>1, <3>2, FS_CardinalityType DEF Bounded, SessionCap
  <2>5. CASE \E u \in Sessions, q \in SequenceNumbers : Accepts(u, q, now')
    BY <2>2, <2>5, AcceptEffect
  <2>6. CASE \E u \in Sessions, m \in TransportMode : Marks(u, m, now')
    BY <2>2, <2>6 DEF Marks, Live
  <2>7. CASE UNCHANGED <<sessions, delivered>>
    BY <2>2, <2>7 DEF Live
  <2> QED
    BY <1>2, <2>3, <2>4, <2>5, <2>6, <2>7, StepCases
<1> QED
  BY <1>1, <1>2

LEMMA BoundedInit ==
  ASSUME Init
  PROVE  Bounded
<1>1. Live = {} /\ limits.max_sessions \in Nat
  BY TypeInit DEF TypeOK
<1> QED
  BY <1>1, FS_EmptySet DEF Bounded, SessionCap

\* For every max_sessions and every order of calls and clocks, the table
\* holds at most max_sessions sessions after every call.
THEOREM TableBounded == Spec => []SessionCap
<1>1. Init => TypeOK /\ Bounded
  BY TypeInit, BoundedInit
<1>2. TypeOK /\ Bounded /\ [Next]_vars => TypeOK' /\ Bounded'
  BY TypeStep, BoundedStep
<1>3. Bounded => SessionCap
  BY DEF Bounded
<1> QED
  BY <1>1, <1>2, <1>3, PTL DEF Spec

\* A session goes only when it was idle for longer than idle_ttl_ms, or when
\* the open that replaced it filled the table and kept only younger ones.
THEOREM EvictionJust == Spec => NoNeedlessEviction
<1> DEFINE P == \A s \in Live \ Live' :
                  \/ now' - sessions[s].last_seen_ms > limits.idle_ttl_ms
                  \/ /\ Cardinality(Live') = limits.max_sessions
                     /\ \A u \in Live \cap Live' : Older(s, u)
<1>1. ASSUME TypeOK, Bounded, Next
      PROVE  P
  <2> SUFFICES ASSUME NEW s \in Live \ Live'
               PROVE  \/ now' - sessions[s].last_seen_ms > limits.idle_ttl_ms
                      \/ /\ Cardinality(Live') = limits.max_sessions
                         /\ \A u \in Live \cap Live' : Older(s, u)
    OBVIOUS
  <2>1. now' \in Nat /\ limits.idle_ttl_ms \in Nat \ {0}
    BY <1>1, StepCases, OverlayAssumption DEF Clock, TypeOK
  <2>2. ASSUME s \notin Fresh(now')
        PROVE  now' - sessions[s].last_seen_ms > limits.idle_ttl_ms
    <3>1. sessions[s].last_seen_ms \in Nat
      BY <1>1, OverlayAssumption DEF TypeOK, OverlaySession, Clock
    <3>2. ~ (saturating_sub(now', sessions[s].last_seen_ms) <= limits.idle_ttl_ms)
      BY <2>2 DEF Fresh
    <3> QED
      BY <2>1, <3>1, <3>2 DEF saturating_sub
  <2>3. CASE \E u \in Sessions : Opens(u, now')
    <3>1. PICK u \in Sessions : Opens(u, now')
      BY <2>3
    <3> DEFINE R == Fresh(now')
               keep == evict_if_needed(now')
    <3>2. Live' = keep \cup {u}
      BY <3>1 DEF Opens, Live
    <3>3. u \notin Live /\ R \subseteq Live /\ keep \subseteq R
      BY <3>1, KeptIsFresh DEF Opens
    <3>4. CASE s \in R
      <4>1. /\ IsFiniteSet(R) /\ StrictOrder(Ages(R), R)
            /\ limits.max_sessions - 1 \in Nat
        BY <1>1, <3>3, EvictionMakesRoom, AgesIsOrder DEF Bounded, TypeOK
      <4>2. keep = Greatest(Ages(R), R, limits.max_sessions - 1)
        BY YoungestAreGreatest DEF evict_if_needed
      <4>3. s \in R \ keep
        BY <3>2, <3>4
      <4>4. /\ Cardinality(keep) = limits.max_sessions - 1
            /\ \A x \in keep : <<s, x>> \in Ages(R)
        <5> HIDE DEF R, keep
        <5> QED
          BY <4>1, <4>2, <4>3, GreatestAreFull
      <4>5. \A x \in keep : Older(s, x)
        BY <4>4 DEF Ages
      <4>6. IsFiniteSet(keep)
        BY <1>1, EvictionMakesRoom DEF Bounded
      <4> HIDE DEF R, keep
      <4>7. Cardinality(Live') = limits.max_sessions
        <5>1. limits.max_sessions \in Nat
          BY <1>1 DEF TypeOK
        <5>2. u \notin keep
          BY <3>3
        <5>3. Cardinality(Live') = Cardinality(keep) + 1
          BY <3>2, <4>6, <5>2, FS_AddElement
        <5> QED
          BY <4>4, <5>1, <5>3
      <4> QED
        BY <3>2, <3>3, <4>5, <4>7
    <3> QED
      BY <2>2, <3>4
  <2>4. CASE Prunes(now')
    BY <2>2, <2>4 DEF Prunes, Retain, Live
  <2>5. CASE \E u \in Sessions, q \in SequenceNumbers : Accepts(u, q, now')
    BY <1>1, <2>5, AcceptEffect
  <2>6. CASE \E u \in Sessions, m \in TransportMode : Marks(u, m, now')
    BY <2>6 DEF Marks, Live
  <2>7. CASE UNCHANGED <<sessions, delivered>>
    BY <2>7 DEF Live
  <2> QED
    BY <1>1, <2>3, <2>4, <2>5, <2>6, <2>7, StepCases
<1>2. TypeOK /\ Bounded /\ [Next]_vars => [P]_vars
  BY <1>1
<1>3. Init => TypeOK /\ Bounded
  BY TypeInit, BoundedInit
<1>4. TypeOK /\ Bounded /\ [Next]_vars => TypeOK' /\ Bounded'
  BY TypeStep, BoundedStep
<1> QED
  BY <1>2, <1>3, <1>4, PTL DEF Spec, NoNeedlessEviction
=============================================================================
