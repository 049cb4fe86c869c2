------------------------ MODULE PathSchedulerProofs ------------------------
(***************************************************************************)
(* Proofs about the path scheduler for any number of arms, any window and  *)
(* any callers' clock.                                                     *)
(***************************************************************************)
EXTENDS PathScheduler, TLAPS

(***************************************************************************)
(* The backoff of a trip is at least one tick and fits the u64 it is kept  *)
(* in: the max(1) of circuit_backoff_ms is what makes an opened circuit    *)
(* outlast the instant it opened in.                                       *)
(***************************************************************************)
LEMMA SatType == \A x \in Nat : Sat(x) \in 0 .. U64Max
  BY SchedulerAssumption DEF Sat

LEMMA ClockType == \A t \in Clock : t \in Nat
  BY SchedulerAssumption

LEMMA MultiplierType == \A f \in Nat : Multiplier(f) \in Nat
  BY DEF Multiplier

LEMMA BackoffPositive ==
  ASSUME NEW f \in Nat, NEW j \in Jitter
  PROVE  circuit_backoff_ms(f, j) \in Nat /\ circuit_backoff_ms(f, j) >= 1
<1>1. j \in Nat
  BY SchedulerAssumption
<1>2. circuit_base_ms * Multiplier(f) \in Nat
  BY MultiplierType, SchedulerAssumption
<1>3. Sat(circuit_base_ms * Multiplier(f)) \in Nat
  BY <1>2, SatType, SchedulerAssumption
<1>4. Sat(circuit_base_ms * Multiplier(f)) * j \in Nat
  BY <1>1, <1>3
<1>5. Sat(Sat(circuit_base_ms * Multiplier(f)) * j) \in Nat
  BY <1>4, SatType, SchedulerAssumption
<1>6. QED
  BY <1>5 DEF circuit_backoff_ms

LEMMA OpenUntilLater ==
  ASSUME NEW f \in Nat, NEW j \in Jitter, NEW t \in Clock
  PROVE  /\ Sat(t + circuit_backoff_ms(f, j)) \in 0 .. U64Max
         /\ Sat(t + circuit_backoff_ms(f, j)) > t
  BY BackoffPositive, SchedulerAssumption DEF Sat

(***************************************************************************)
(* The sample window keeps its type and its bound.                         *)
(***************************************************************************)
LEMMA PushSampleType ==
  ASSUME NEW s \in Seq(Outcomes), Len(s) <= window_limit, NEW o \in Outcomes
  PROVE  /\ PushSample(s, o) \in Seq(Outcomes)
         /\ Len(PushSample(s, o)) <= window_limit
  BY SchedulerAssumption DEF PushSample

LEMMA FinishType ==
  ASSUME TypeOK, NEW a \in Arms, NEW o \in Outcomes, finish_request(a, o)
  PROVE  /\ state' \in [Arms -> ArmState]
         /\ samples' \in [Arms -> Seq(Outcomes)]
         /\ \A b \in Arms : Len(samples'[b]) <= window_limit
         /\ in_flight' \in [Arms -> Nat]
         /\ consecutive_failures' \in [Arms -> Nat]
         /\ open_until_ms' \in [Arms -> 0 .. U64Max]
         /\ last_probe_ms' \in [Arms -> Clock]
         /\ total_samples' \in 0 .. 2
         /\ now_ms' \in Clock
         /\ overtaken' \in [Arms -> [Arms -> Nat]]
<1> DEFINE fails == FailuresAfter(consecutive_failures[a], o)
<1>1. fails \in Nat
  BY DEF TypeOK, FailuresAfter
<1>2. StateAfter(fails) \in ArmState
  BY DEF StateAfter, ArmState
<1>3. state' \in [Arms -> ArmState]
  BY <1>2 DEF finish_request, TypeOK
<1>4. /\ samples' \in [Arms -> Seq(Outcomes)]
      /\ \A b \in Arms : Len(samples'[b]) <= window_limit
  BY PushSampleType DEF finish_request, TypeOK
<1>5. in_flight' \in [Arms -> Nat]
  BY DEF finish_request, TypeOK, SatSub
<1>6. consecutive_failures' \in [Arms -> Nat]
  BY <1>1 DEF finish_request, TypeOK
<1>7. open_until_ms' \in [Arms -> 0 .. U64Max]
  <2>1. CASE fails >= 3
    <3>1. PICK j \in Jitter :
            open_until_ms' = [open_until_ms EXCEPT
                                ![a] = Sat(now_ms + circuit_backoff_ms(fails, j))]
      BY <2>1 DEF finish_request
    <3>2. Sat(now_ms + circuit_backoff_ms(fails, j)) \in 0 .. U64Max
      BY <1>1, OpenUntilLater DEF TypeOK
    <3>3. QED
      BY <3>1, <3>2 DEF TypeOK
  <2>2. CASE ~(fails >= 3)
    BY <2>2 DEF finish_request, TypeOK
  <2>3. QED
    BY <2>1, <2>2
<1>8. /\ last_probe_ms' \in [Arms -> Clock]
      /\ total_samples' \in 0 .. 2
      /\ now_ms' \in Clock
  BY DEF finish_request, TypeOK
<1>9. overtaken' \in [Arms -> [Arms -> Nat]]
  BY DEF finish_request, TypeOK
<1>10. QED
  BY <1>3, <1>4, <1>5, <1>6, <1>7, <1>8, <1>9

(***************************************************************************)
(* Every field keeps its type under every interleaving of the callers.     *)
(***************************************************************************)
THEOREM TypeCorrect == Spec => []TypeOK
<1>1. Init => TypeOK
  BY SchedulerAssumption DEF Init, TypeOK, ArmState
<1>2. TypeOK /\ [Next]_vars => TypeOK'
  <2> SUFFICES ASSUME TypeOK, [Next]_vars
               PROVE  TypeOK'
    OBVIOUS
  <2>1. CASE Tick
    BY <2>1 DEF Tick, TypeOK, arms
  <2>2. ASSUME NEW a \in Arms, begin_request(a)
        PROVE  TypeOK'
    BY <2>2 DEF begin_request, TypeOK
  <2>3. ASSUME NEW a \in Arms, select_probe(a)
        PROVE  TypeOK'
    <3>1. overtaken' \in [Arms -> [Arms -> Nat]]
      BY <2>3 DEF select_probe, TypeOK
    <3>2. QED
      BY <2>3, <3>1 DEF select_probe, TypeOK, ArmState
  <2>4. ASSUME NEW a \in Arms, NEW o \in Outcomes, FinishForeground(a, o)
        PROVE  TypeOK'
    <3>1. requests' \in [Arms -> Nat] /\ probes' \in [Arms -> Nat]
      BY <2>4 DEF FinishForeground, TypeOK
    <3>2. finish_request(a, o)
      BY <2>4 DEF FinishForeground
    <3>3. QED
      BY <3>1, <3>2, FinishType DEF TypeOK
  <2>5. ASSUME NEW a \in Arms, NEW o \in Outcomes, FinishProbe(a, o)
        PROVE  TypeOK'
    <3>1. requests' \in [Arms -> Nat] /\ probes' \in [Arms -> Nat]
      BY <2>5 DEF FinishProbe, TypeOK
    <3>2. finish_request(a, o)
      BY <2>5 DEF FinishProbe
    <3>3. QED
      BY <3>1, <3>2, FinishType DEF TypeOK
  <2>6. CASE UNCHANGED vars
    BY <2>6 DEF vars, arms, TypeOK
  <2>7. QED
    BY <2>1, <2>2, <2>3, <2>4, <2>5, <2>6 DEF Next
<1>3. QED
  BY <1>1, <1>2, PTL DEF Spec

-----------------------------------------------------------------------------
(***************************************************************************)
(* The breaker state follows the failure streak, a half-open arm has an    *)
(* outstanding probe, and in_flight counts no finished request.  The three *)
(* are inductive together with the types.                                  *)
(***************************************************************************)
BreakerInv == TypeOK /\ StateMatchesFailures /\ HalfOpenHasProbe /\ NoPhantomLoad

LEMMA FinishBreaker ==
  ASSUME BreakerInv, NEW a \in Arms, NEW o \in Outcomes, finish_request(a, o)
  PROVE  /\ StateMatchesFailures'
         /\ state'[a] # "HalfOpen"
         /\ \A b \in Arms \ {a} : state'[b] = state[b] /\ in_flight'[b] = in_flight[b]
         /\ in_flight'[a] = SatSub(in_flight[a], 1)
<1> DEFINE fails == FailuresAfter(consecutive_failures[a], o)
<1>1. fails \in Nat
  BY DEF BreakerInv, TypeOK, FailuresAfter
<1>2. /\ StateAfter(fails) = "Healthy" <=> fails = 0
      /\ StateAfter(fails) = "Degraded" <=> fails \in {1, 2}
      /\ StateAfter(fails) # "HalfOpen"
  BY <1>1 DEF StateAfter
<1>3. /\ state'[a] = StateAfter(fails)
      /\ consecutive_failures'[a] = fails
      /\ \A b \in Arms \ {a} : /\ state'[b] = state[b]
                               /\ consecutive_failures'[b] = consecutive_failures[b]
                               /\ in_flight'[b] = in_flight[b]
      /\ in_flight'[a] = SatSub(in_flight[a], 1)
  BY DEF finish_request, BreakerInv, TypeOK
<1>4. StateMatchesFailures'
  BY <1>2, <1>3 DEF StateMatchesFailures, BreakerInv
<1>5. QED
  BY <1>2, <1>3, <1>4

(***************************************************************************)
(* StateMatchesFailures, HalfOpenHasProbe and NoPhantomLoad hold for every *)
(* number of arms, window and clock.                                       *)
(***************************************************************************)
THEOREM BreakerSafe ==
  Spec => [](StateMatchesFailures /\ HalfOpenHasProbe /\ NoPhantomLoad)
<1>1. Init => BreakerInv
  <2>1. Init => TypeOK
    BY SchedulerAssumption DEF Init, TypeOK, ArmState
  <2>2. QED
    BY <2>1 DEF Init, BreakerInv, StateMatchesFailures, HalfOpenHasProbe, NoPhantomLoad
<1>2. BreakerInv /\ TypeOK' /\ [Next]_vars => BreakerInv'
  <2> SUFFICES ASSUME BreakerInv, TypeOK', [Next]_vars
               PROVE  StateMatchesFailures' /\ HalfOpenHasProbe' /\ NoPhantomLoad'
    BY DEF BreakerInv
  <2>0. TypeOK /\ StateMatchesFailures /\ HalfOpenHasProbe /\ NoPhantomLoad
    BY DEF BreakerInv
  <2>1. CASE Tick
    BY <2>0, <2>1 DEF Tick, arms, StateMatchesFailures, HalfOpenHasProbe, NoPhantomLoad
  <2>2. ASSUME NEW a \in Arms, begin_request(a)
        PROVE  StateMatchesFailures' /\ HalfOpenHasProbe' /\ NoPhantomLoad'
    <3>1. StateMatchesFailures' /\ HalfOpenHasProbe'
      BY <2>0, <2>2 DEF begin_request, StateMatchesFailures, HalfOpenHasProbe
    <3>2. NoPhantomLoad'
      BY <2>0, <2>2 DEF begin_request, NoPhantomLoad, TypeOK
    <3>3. QED
      BY <3>1, <3>2
  <2>3. ASSUME NEW a \in Arms, select_probe(a)
        PROVE  StateMatchesFailures' /\ HalfOpenHasProbe' /\ NoPhantomLoad'
    <3>1. state[a] = "OpenCircuit"
      BY <2>3 DEF select_probe, ProbeCandidate, Due
    <3>2. StateMatchesFailures'
      BY <2>0, <2>3, <3>1 DEF select_probe, StateMatchesFailures, TypeOK
    <3>3. HalfOpenHasProbe'
      BY <2>0, <2>3 DEF select_probe, HalfOpenHasProbe, TypeOK
    <3>4. NoPhantomLoad'
      BY <2>0, <2>3 DEF select_probe, NoPhantomLoad
    <3>5. QED
      BY <3>2, <3>3, <3>4
  <2>4. ASSUME NEW a \in Arms, NEW o \in Outcomes, FinishForeground(a, o)
        PROVE  StateMatchesFailures' /\ HalfOpenHasProbe' /\ NoPhantomLoad'
    <3>1. finish_request(a, o)
      BY <2>4 DEF FinishForeground
    <3>2. HalfOpenHasProbe'
      BY <2>0, <2>4, <3>1, FinishBreaker DEF FinishForeground, HalfOpenHasProbe
    <3>3. NoPhantomLoad'
      <4>1. ASSUME NEW b \in Arms
            PROVE  /\ in_flight[b] \in Nat /\ requests[b] \in Nat
                   /\ in_flight[b] <= requests[b]
                   /\ in_flight'[b] = IF b = a THEN SatSub(in_flight[b], 1) ELSE in_flight[b]
        BY <2>0, <3>1, FinishBreaker DEF NoPhantomLoad, TypeOK
      <4>2. ASSUME NEW b \in Arms
            PROVE  requests'[b] = IF b = a THEN requests[b] - 1 ELSE requests[b]
        BY <2>0, <2>4 DEF FinishForeground, TypeOK
      <4>3. QED
        BY <2>4, <4>1, <4>2 DEF FinishForeground, NoPhantomLoad, SatSub
    <3>4. QED
      BY <3>1, <3>2, <3>3, FinishBreaker
  <2>5. ASSUME NEW a \in Arms, NEW o \in Outcomes, FinishProbe(a, o)
        PROVE  StateMatchesFailures' /\ HalfOpenHasProbe' /\ NoPhantomLoad'
    <3>1. finish_request(a, o)
      BY <2>5 DEF FinishProbe
    <3>2. HalfOpenHasProbe'
      BY <2>0, <2>5, <3>1, FinishBreaker DEF FinishProbe, HalfOpenHasProbe, TypeOK
    <3>3. NoPhantomLoad'
      <4>1. ASSUME NEW b \in Arms
            PROVE  /\ in_flight[b] \in Nat /\ requests[b] \in Nat
                   /\ in_flight[b] <= requests[b]
                   /\ in_flight'[b] = IF b = a THEN SatSub(in_flight[b], 1) ELSE in_flight[b]
        BY <2>0, <3>1, FinishBreaker DEF NoPhantomLoad, TypeOK
      <4>2. ASSUME NEW b \in Arms
            PROVE  requests'[b] = requests[b]
        BY <2>0, <2>5 DEF FinishProbe, TypeOK
      <4>3. QED
        BY <2>5, <4>1, <4>2 DEF FinishProbe, NoPhantomLoad, SatSub
    <3>4. QED
      BY <3>1, <3>2, <3>3, FinishBreaker
  <2>6. CASE UNCHANGED vars
    BY <2>0, <2>6 DEF vars, arms, StateMatchesFailures, HalfOpenHasProbe, NoPhantomLoad
  <2>7. QED
    BY <2>1, <2>2, <2>3, <2>4, <2>5, <2>6 DEF Next
<1>3. BreakerInv => StateMatchesFailures /\ HalfOpenHasProbe /\ NoPhantomLoad
  BY DEF BreakerInv
<1>4. QED
  BY <1>1, <1>2, <1>3, TypeCorrect, PTL DEF Spec

-----------------------------------------------------------------------------
(***************************************************************************)
(* Why no arm is overtaken twice: an opened circuit stays shut past the    *)
(* instant of its own last probe (the backoff is at least one tick), so an *)
(* arm that is due was last probed strictly before now; the arm preferred  *)
(* to it is stamped with now and from then on comes after it.              *)
(***************************************************************************)
OvertakeInv ==
  /\ TypeOK
  /\ \A a \in Arms : last_probe_ms[a] <= now_ms
  /\ \A a \in Arms : state[a] = "OpenCircuit" => last_probe_ms[a] < open_until_ms[a]
  /\ \A a, b \in Arms :
       /\ overtaken[a][b] <= 1
       /\ overtaken[a][b] = 1 => last_probe_ms[a] < last_probe_ms[b]

LEMMA FinishOvertake ==
  ASSUME OvertakeInv, TypeOK', NEW a \in Arms, NEW o \in Outcomes, finish_request(a, o)
  PROVE  OvertakeInv'
<1> DEFINE fails == FailuresAfter(consecutive_failures[a], o)
<1>1. fails \in Nat
  BY DEF OvertakeInv, TypeOK, FailuresAfter
<1>2. last_probe_ms' = last_probe_ms /\ now_ms' = now_ms
  BY DEF finish_request
<1>3. \A b \in Arms : last_probe_ms'[b] <= now_ms'
  BY <1>2 DEF OvertakeInv
<1>4. ASSUME NEW b \in Arms, state'[b] = "OpenCircuit"
      PROVE  last_probe_ms'[b] < open_until_ms'[b]
  <2>1. CASE b = a
    <3>1. state'[a] = StateAfter(fails)
      BY DEF finish_request, OvertakeInv, TypeOK
    <3>2. fails >= 3
      BY <1>1, <1>4, <2>1, <3>1 DEF StateAfter
    <3>3. PICK j \in Jitter :
            open_until_ms' = [open_until_ms EXCEPT
                                ![a] = Sat(now_ms + circuit_backoff_ms(fails, j))]
      BY <3>2 DEF finish_request
    <3>4. now_ms \in Clock
      BY DEF OvertakeInv, TypeOK
    <3>5. open_until_ms'[a] > now_ms /\ open_until_ms'[a] \in 0 .. U64Max
      BY <1>1, <3>3, <3>4, OpenUntilLater DEF OvertakeInv, TypeOK
    <3>6. now_ms \in Nat /\ last_probe_ms[a] \in Nat
      BY ClockType DEF OvertakeInv, TypeOK
    <3>7. QED
      BY <1>2, <2>1, <3>5, <3>6 DEF OvertakeInv
  <2>2. CASE b # a
    <3>1. state'[b] = state[b]
      BY <2>2 DEF finish_request, OvertakeInv, TypeOK
    <3>2. open_until_ms'[b] = open_until_ms[b]
      BY <2>2 DEF finish_request, OvertakeInv, TypeOK
    <3>3. QED
      BY <1>2, <1>4, <3>1, <3>2 DEF OvertakeInv
  <2>3. QED
    BY <2>1, <2>2
<1>5. ASSUME NEW x \in Arms, NEW y \in Arms
      PROVE  /\ overtaken'[x][y] <= 1
             /\ overtaken'[x][y] = 1 => last_probe_ms'[x] < last_probe_ms'[y]
  <2>1. overtaken'[x][y] = IF x = a THEN 0 ELSE overtaken[x][y]
    BY DEF finish_request, OvertakeInv, TypeOK
  <2>2. QED
    BY <1>2, <2>1 DEF OvertakeInv
<1>6. QED
  BY <1>3, <1>4, <1>5 DEF OvertakeInv

(***************************************************************************)
(* While an arm waits for its probe, select_probe gives at most one to any *)
(* other arm: NoProbeStarvation, for every number of arms.                 *)
(***************************************************************************)
THEOREM ProbeFairness == Spec => []NoProbeStarvation
<1>1. Init => OvertakeInv
  <2>1. Init => TypeOK
    BY SchedulerAssumption DEF Init, TypeOK, ArmState
  <2>2. QED
    BY <2>1 DEF Init, OvertakeInv
<1>2. OvertakeInv /\ TypeOK' /\ [Next]_vars => OvertakeInv'
  <2> SUFFICES ASSUME OvertakeInv, TypeOK', [Next]_vars
               PROVE  OvertakeInv'
    OBVIOUS
  <2>0. /\ now_ms \in Nat /\ now_ms' \in Nat
        /\ \A a \in Arms : last_probe_ms[a] \in Nat /\ open_until_ms[a] \in Nat
    BY ClockType DEF OvertakeInv, TypeOK
  <2>1. CASE Tick
    BY <2>0, <2>1 DEF Tick, arms, OvertakeInv
  <2>2. ASSUME NEW a \in Arms, begin_request(a)
        PROVE  OvertakeInv'
    BY <2>2 DEF begin_request, OvertakeInv
  <2>3. ASSUME NEW a \in Arms, select_probe(a)
        PROVE  OvertakeInv'
    <3>1. /\ Due(a)
          /\ last_probe_ms' = [last_probe_ms EXCEPT ![a] = now_ms]
          /\ state' = [state EXCEPT ![a] = "HalfOpen"]
          /\ UNCHANGED <<open_until_ms, now_ms>>
      BY <2>3 DEF select_probe, ProbeCandidate
    <3>2. \A b \in Arms : last_probe_ms'[b] = IF b = a THEN now_ms ELSE last_probe_ms[b]
      BY <3>1 DEF OvertakeInv, TypeOK
    <3>3. \A b \in Arms : last_probe_ms'[b] <= now_ms'
      BY <2>0, <3>1, <3>2 DEF OvertakeInv
    <3>4. \A b \in Arms : state'[b] = "OpenCircuit" => last_probe_ms'[b] < open_until_ms'[b]
      BY <3>1, <3>2 DEF OvertakeInv, TypeOK
    <3>5. ASSUME NEW x \in Arms, NEW y \in Arms
          PROVE  /\ overtaken'[x][y] <= 1
                 /\ overtaken'[x][y] = 1 => last_probe_ms'[x] < last_probe_ms'[y]
      <4>1. overtaken'[x][y] = IF x = a THEN 0
                               ELSE IF y = a /\ Due(x) THEN overtaken[x][y] + 1
                               ELSE overtaken[x][y]
        BY <2>3 DEF select_probe
      <4>2. overtaken[x][y] \in Nat /\ overtaken[x][y] <= 1
        BY DEF OvertakeInv, TypeOK
      <4>3. CASE x = a
        BY <4>1, <4>3
      <4>4. CASE x # a /\ y = a /\ Due(x)
        <5>1. last_probe_ms[x] < now_ms
          BY <2>0, <4>4 DEF Due, OvertakeInv
        <5>2. ~(last_probe_ms[x] < last_probe_ms[a])
          BY <2>0, <2>3, <4>4 DEF select_probe, ProbeCandidate
        <5>3. overtaken[x][y] # 1
          BY <4>4, <5>2 DEF OvertakeInv
        <5>4. overtaken'[x][y] = 1
          BY <4>1, <4>2, <4>4, <5>3
        <5>5. QED
          BY <3>2, <4>4, <5>1, <5>4
      <4>5. CASE x # a /\ ~(y = a /\ Due(x))
        <5>1. overtaken'[x][y] = overtaken[x][y]
          BY <4>1, <4>5
        <5>2. last_probe_ms'[x] = last_probe_ms[x]
          BY <3>2, <4>5
        <5>3. last_probe_ms'[y] >= last_probe_ms[y]
          BY <2>0, <3>2 DEF OvertakeInv
        <5>4. last_probe_ms'[y] \in Nat
          BY <2>0, <3>2
        <5>5. QED
          BY <2>0, <4>2, <5>1, <5>2, <5>3, <5>4 DEF OvertakeInv
      <4>6. QED
        BY <4>3, <4>4, <4>5
    <3>6. QED
      BY <3>3, <3>4, <3>5 DEF OvertakeInv
  <2>4. ASSUME NEW a \in Arms, NEW o \in Outcomes,
               FinishForeground(a, o) \/ FinishProbe(a, o)
        PROVE  OvertakeInv'
    BY <2>4, FinishOvertake DEF FinishForeground, FinishProbe
  <2>5. CASE UNCHANGED vars
    BY <2>5 DEF vars, arms, OvertakeInv
  <2>6. QED
    BY <2>1, <2>2, <2>3, <2>4, <2>5 DEF Next
<1>3. OvertakeInv => NoProbeStarvation
  BY DEF OvertakeInv, NoProbeStarvation
<1>4. QED
  BY <1>1, <1>2, <1>3, TypeCorrect, PTL DEF Spec

-----------------------------------------------------------------------------
(***************************************************************************)
(* Shifting one outcome into the window keeps its end in step with the     *)
(* streak counter.                                                         *)
(***************************************************************************)
LEMMA PushKeepsStreak ==
  ASSUME NEW s \in Seq(Outcomes), Len(s) <= window_limit,
         NEW o \in Outcomes, NEW f \in Nat, EndsInStreak(s, f)
  PROVE  EndsInStreak(PushSample(s, o), FailuresAfter(f, o))
<1> DEFINE t == IF Len(s) = window_limit THEN Tail(s) ELSE s
           u == Append(t, o)
<1>1. t \in Seq(Outcomes)
  BY SchedulerAssumption
<1>2. EndsInStreak(t, f)
  <2>1. CASE Len(s) = window_limit
    <3>1. t = Tail(s) /\ Len(s) > 0
      BY <2>1, SchedulerAssumption
    <3>2. Len(t) = Len(s) - 1 /\ \A i \in 1 .. Len(t) : t[i] = s[i + 1]
      BY <3>1
    <3>3. QED
      BY <3>2 DEF EndsInStreak
  <2>2. CASE Len(s) # window_limit
    BY <2>2
  <2>3. QED
    BY <2>1, <2>2
<1>3. /\ Len(u) = Len(t) + 1
      /\ u[Len(u)] = o
      /\ \A i \in 1 .. Len(t) : u[i] = t[i]
  BY <1>1
<1>4. Len(t) \in Nat
  BY <1>1
<1> HIDE DEF t, u
<1>5. EndsInStreak(u, FailuresAfter(f, o))
  <2>1. CASE o.success
    BY <1>3, <1>4, <2>1 DEF EndsInStreak, FailuresAfter
  <2>2. CASE ~ o.success
    BY <1>2, <1>3, <1>4, <2>2 DEF EndsInStreak, FailuresAfter
  <2>3. QED
    BY <2>1, <2>2
<1>6. QED
  BY <1>5 DEF PushSample, t, u

(***************************************************************************)
(* The window and the streak counter agree, for every window size.         *)
(***************************************************************************)
THEOREM WindowAgrees == Spec => []StreakIsNewestSamples
<1>1. Init => StreakIsNewestSamples
  BY DEF Init, StreakIsNewestSamples, EndsInStreak
<1>2. TypeOK /\ StreakIsNewestSamples /\ [Next]_vars => StreakIsNewestSamples'
  <2> SUFFICES ASSUME TypeOK, StreakIsNewestSamples, [Next]_vars
               PROVE  StreakIsNewestSamples'
    OBVIOUS
  <2>1. CASE UNCHANGED <<samples, consecutive_failures>>
    BY <2>1 DEF StreakIsNewestSamples, EndsInStreak
  <2>2. ASSUME NEW a \in Arms, NEW o \in Outcomes, finish_request(a, o)
        PROVE  StreakIsNewestSamples'
    <3>1. EndsInStreak(PushSample(samples[a], o),
                       FailuresAfter(consecutive_failures[a], o))
      BY PushKeepsStreak DEF StreakIsNewestSamples, TypeOK
    <3>2. ASSUME NEW b \in Arms
          PROVE  EndsInStreak(samples'[b], consecutive_failures'[b])
      <4>1. CASE b = a
        BY <2>2, <3>1, <4>1 DEF finish_request, TypeOK
      <4>2. CASE b # a
        BY <2>2, <4>2 DEF finish_request, TypeOK, StreakIsNewestSamples
      <4>3. QED
        BY <4>1, <4>2
    <3>3. QED
      BY <3>2 DEF StreakIsNewestSamples, EndsInStreak
  <2>3. QED
    BY <2>1, <2>2 DEF Next, Tick, begin_request, select_probe, FinishForeground,
                      FinishProbe, vars, arms
<1>3. QED
  BY <1>1, <1>2, TypeCorrect, PTL DEF Spec
=============================================================================
