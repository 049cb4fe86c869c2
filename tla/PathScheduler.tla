--------------------------- MODULE PathScheduler ---------------------------
(***************************************************************************)
(* The path scheduler of src/scheduler.rs: a set of arms (upstream paths), *)
(* each behind a circuit breaker.  A caller begins a request and is given  *)
(* the best arm whose circuit is closed; it reports the outcome with       *)
(* finish_request.  After three failures in a row an arm's circuit opens   *)
(* for a jittered, exponentially growing time; once that has passed,       *)
(* select_probe admits one background probe, whose outcome is reported     *)
(* with the same finish_request.                                           *)
(*                                                                         *)
(* The scheduler itself is sequential (every method takes &mut self); what *)
(* interleaves are its callers, whose outstanding calls are the variables  *)
(* requests and probes.  A caller may answer late: nothing ties an answer  *)
(* to the circuit state its request began in.                              *)
(***************************************************************************)
EXTENDS Integers, Sequences, FiniteSets

CONSTANTS
  N,              \* arm_count
  window_limit,   \* samples kept per arm (after new()'s max(1))
  circuit_base_ms,
  Jitter,         \* the percentages the jitter hash may yield
  Outcomes,       \* what a caller may report to finish_request
  U64Max,         \* u64::MAX, scaled down
  MaxRequests,    \* bound: outstanding requests and probes per arm
  Clock           \* bound: the readings of the callers' clock

ASSUME SchedulerAssumption ==
  /\ N \in Nat
  /\ window_limit \in Nat \ {0}
  /\ circuit_base_ms \in Nat
  /\ Jitter \subseteq 75..125
  /\ Outcomes \subseteq [success : BOOLEAN, timed : BOOLEAN, latency : Nat]
  /\ U64Max \in Nat
  /\ MaxRequests \in Nat
  /\ Clock \subseteq 0 .. (U64Max - 1)
  /\ 0 \in Clock

Arms == 0 .. (N - 1)

ArmState == {"Healthy", "Degraded", "OpenCircuit", "HalfOpen"}

VARIABLES
  state,                 \* ArmStats::state, per arm
  samples,               \* ArmStats::samples: the ring buffer of outcomes
  in_flight,             \* ArmStats::in_flight
  consecutive_failures,  \* ArmStats::consecutive_failures
  open_until_ms,         \* ArmStats::open_until_ms
  last_probe_ms,         \* ArmStats::last_probe_ms
  total_samples,         \* PathScheduler::total_samples, counted up to 2
  now_ms,                \* the clock the callers read
  requests,              \* foreground requests begun and not yet finished, per arm
  probes,                \* probes admitted and not yet finished, per arm
  overtaken              \* history: overtaken[a][b] counts the probes given to
                         \* b since a became due for one

arms == <<state, samples, in_flight, consecutive_failures, open_until_ms,
          last_probe_ms, total_samples>>
vars == <<arms, now_ms, requests, probes, overtaken>>

-----------------------------------------------------------------------------
(* Backoff: u64 arithmetic saturates.                                      *)

Sat(x) == IF x > U64Max THEN U64Max ELSE x

\* Mutants: a plain subtraction, and one that stops a step early.
PlainSub(x, y) == x - y
SatSubStuckAtOne(x, y) == IF x <= y THEN x ELSE x - y

SatSub(x, y) == IF x < y THEN 0 ELSE x - y

\* 1 << consecutive_failures.min(6)
Multiplier(fails) == <<1, 2, 4, 8, 16, 32, 64>>[(IF fails < 6 THEN fails ELSE 6) + 1]

circuit_backoff_ms(fails, jitter) ==
  LET base     == Sat(circuit_base_ms * Multiplier(fails))
      jittered == Sat(base * jitter) \div 100
  IN  IF jittered < 1 THEN 1 ELSE jittered

-----------------------------------------------------------------------------
(* Scores, in thousandths scaled so that every quotient is exact.  The     *)
(* confidence bonus sqrt(ln(total) / n) / 10 is irrational: it is kept by  *)
(* its order, zero without samples or with total <= 1, else falling in n.  *)

Scale == LET fact[n \in 0 .. window_limit] == IF n = 0 THEN 1 ELSE n * fact[n - 1]
         IN  fact[window_limit]

SumLatency(s) ==
  LET sum[n \in 0 .. Len(s)] ==
        IF n = 0 THEN 0 ELSE sum[n - 1] + (IF s[n].timed THEN s[n].latency ELSE 0)
  IN  sum[Len(s)]

\* score_arm without the confidence bonus
BaseScore(a) ==
  LET s       == samples[a]
      good    == Cardinality({i \in DOMAIN s : s[i].success})
      timed   == Cardinality({i \in DOMAIN s : s[i].timed})
      success == IF s = <<>> THEN 1000 * Scale ELSE (1000 * Scale * good) \div Len(s)
      average == IF timed = 0 THEN 0 ELSE (Scale * SumLatency(s)) \div timed
      latency == IF average > 500 * Scale THEN 500 * Scale ELSE average
      circuit == IF s # <<>> /\ state[a] = "Degraded" THEN 200 * Scale ELSE 0
  IN  success - latency - 50 * Scale * in_flight[a] - circuit

BonusRank(a) ==
  IF samples[a] = <<>> \/ total_samples <= 1 THEN 0
  ELSE 1 + window_limit - Len(samples[a])

\* The score of b is surely above a's, or equal with b met first by the loop.
Outranks(b, a) ==
  /\ BaseScore(b) >= BaseScore(a)
  /\ BonusRank(b) >= BonusRank(a)
  /\ BaseScore(b) > BaseScore(a) \/ BonusRank(b) > BonusRank(a) \/ b < a

-----------------------------------------------------------------------------
Init ==
  /\ state = [a \in Arms |-> "Healthy"]
  /\ samples = [a \in Arms |-> <<>>]
  /\ in_flight = [a \in Arms |-> 0]
  /\ consecutive_failures = [a \in Arms |-> 0]
  /\ open_until_ms = [a \in Arms |-> 0]
  /\ last_probe_ms = [a \in Arms |-> 0]
  /\ total_samples = 0
  /\ now_ms = 0
  /\ requests = [a \in Arms |-> 0]
  /\ probes = [a \in Arms |-> 0]
  /\ overtaken = [a \in Arms |-> [b \in Arms |-> 0]]

\* The callers' clock is monotonic; it moves by any amount between calls.
Tick ==
  /\ \E t \in Clock : t > now_ms /\ now_ms' = t
  /\ UNCHANGED <<arms, requests, probes, overtaken>>

\* The arms select_foreground does not skip
Admitted == {a \in Arms : state[a] \notin {"OpenCircuit", "HalfOpen"}}

select_foreground(a) ==
  /\ a \in Admitted
  /\ ~ \E b \in Admitted : Outranks(b, a)

begin_request(a) ==
  /\ requests[a] < MaxRequests
  /\ select_foreground(a)
  /\ in_flight' = [in_flight EXCEPT ![a] = @ + 1]
  /\ requests' = [requests EXCEPT ![a] = @ + 1]
  /\ UNCHANGED <<state, samples, consecutive_failures, open_until_ms,
                 last_probe_ms, total_samples, now_ms, probes, overtaken>>

\* Mutant: pop_back for pop_front.
PushSampleDropsNewest(s, o) ==
  Append(IF Len(s) = window_limit THEN SubSeq(s, 1, Len(s) - 1) ELSE s, o)

\* The window after one more outcome: the oldest sample leaves a full one.
PushSample(s, o) == Append(IF Len(s) = window_limit THEN Tail(s) ELSE s, o)

\* The arm's counter of failures in a row after an outcome
FailuresAfter(fails, o) == IF o.success THEN 0 ELSE fails + 1

\* Mutants: the threshold off by one, and the circuit opened half-way.
StateAfterLateTrip(fails) ==
  CASE fails = 0 -> "Healthy"
    [] fails > 3 -> "OpenCircuit"
    [] OTHER -> "Degraded"
StateAfterHalfTrip(fails) ==
  CASE fails = 0 -> "Healthy"
    [] fails >= 3 -> "HalfOpen"
    [] OTHER -> "Degraded"

StateAfter(fails) ==
  CASE fails = 0 -> "Healthy"
    [] fails >= 3 -> "OpenCircuit"
    [] OTHER -> "Degraded"

\* finish_request on a known arm, for a foreground request and a probe alike.
\* An unknown arm_index returns at once and changes nothing.
finish_request(a, o) ==
  LET fails == FailuresAfter(consecutive_failures[a], o) IN
  /\ in_flight' = [in_flight EXCEPT ![a] = SatSub(@, 1)]
  /\ samples' = [samples EXCEPT ![a] = PushSample(@, o)]
  /\ total_samples' = IF total_samples < 2 THEN total_samples + 1 ELSE total_samples
  /\ consecutive_failures' = [consecutive_failures EXCEPT ![a] = fails]
  /\ state' = [state EXCEPT ![a] = StateAfter(fails)]
  /\ IF fails >= 3
     THEN \E j \in Jitter :
            open_until_ms' = [open_until_ms EXCEPT
                                ![a] = Sat(now_ms + circuit_backoff_ms(fails, j))]
     ELSE UNCHANGED open_until_ms
  /\ overtaken' = [overtaken EXCEPT ![a] = [b \in Arms |-> 0]]
  /\ UNCHANGED <<last_probe_ms, now_ms>>

FinishForeground(a, o) ==
  /\ requests[a] > 0
  /\ requests' = [requests EXCEPT ![a] = @ - 1]
  /\ UNCHANGED probes
  /\ finish_request(a, o)

FinishProbe(a, o) ==
  /\ probes[a] > 0
  /\ probes' = [probes EXCEPT ![a] = @ - 1]
  /\ UNCHANGED requests
  /\ finish_request(a, o)

\* Mutant: > for >=.
DueStrictly(a) == state[a] = "OpenCircuit" /\ now_ms > open_until_ms[a]

Due(a) == state[a] = "OpenCircuit" /\ now_ms >= open_until_ms[a]

\* Mutant: the first due arm, whenever it was last probed.
FirstDue(a) == Due(a) /\ \A b \in Arms : Due(b) => a <= b

\* The candidate the loop ends with: least recently probed, lowest index first
ProbeCandidate(a) ==
  /\ Due(a)
  /\ \A b \in Arms : Due(b) => \/ last_probe_ms[a] < last_probe_ms[b]
                               \/ last_probe_ms[a] = last_probe_ms[b] /\ a <= b

select_probe(a) ==
  /\ probes[a] < MaxRequests
  /\ ProbeCandidate(a)
  /\ state' = [state EXCEPT ![a] = "HalfOpen"]
  /\ last_probe_ms' = [last_probe_ms EXCEPT ![a] = now_ms]
  /\ probes' = [probes EXCEPT ![a] = @ + 1]
  /\ overtaken' = [x \in Arms |->
                     [y \in Arms |->
                        IF x = a THEN 0
                        ELSE IF y = a /\ Due(x) THEN overtaken[x][y] + 1
                        ELSE overtaken[x][y]]]
  /\ UNCHANGED <<samples, in_flight, consecutive_failures, open_until_ms,
                 total_samples, now_ms, requests>>

Next ==
  \/ Tick
  \/ \E a \in Arms :
       \/ begin_request(a)
       \/ select_probe(a)
       \/ \E o \in Outcomes : FinishForeground(a, o)
       \/ \E o \in Outcomes : FinishProbe(a, o)

Spec == Init /\ [][Next]_vars

\* Callers that keep a probe loop running: the clock advances, select_probe is
\* called again and again, and a caller that was given a probe reports on it.
Fairness ==
  /\ WF_vars(Tick)
  /\ WF_vars(\E a \in Arms : select_probe(a))
  /\ \A a \in Arms : WF_vars(\E o \in Outcomes : FinishProbe(a, o))

FairSpec == Spec /\ Fairness
-----------------------------------------------------------------------------
(* Properties                                                              *)

\* Every field keeps its type; in particular no counter goes below zero
\* although a probe's finish_request takes one off an in_flight that
\* select_probe never added to (scheduler.rs:157, 237-238).
TypeOK ==
  /\ state \in [Arms -> ArmState]
  /\ samples \in [Arms -> Seq(Outcomes)]
  /\ \A a \in Arms : Len(samples[a]) <= window_limit
  /\ in_flight \in [Arms -> Nat]
  /\ consecutive_failures \in [Arms -> Nat]
  /\ open_until_ms \in [Arms -> 0 .. U64Max]
  /\ last_probe_ms \in [Arms -> Clock]
  /\ total_samples \in 0 .. 2
  /\ now_ms \in Clock
  /\ requests \in [Arms -> Nat]
  /\ probes \in [Arms -> Nat]
  /\ overtaken \in [Arms -> [Arms -> Nat]]

\* The breaker state is determined by the failure streak whatever the order of
\* late answers and probes: no streak is Healthy, one or two Degraded, three or
\* more open or half-open.
StateMatchesFailures ==
  \A a \in Arms :
    /\ state[a] = "Healthy" <=> consecutive_failures[a] = 0
    /\ state[a] = "Degraded" <=> consecutive_failures[a] \in {1, 2}

\* The newest f samples of s failed and the one before them, if any, succeeded.
EndsInStreak(s, f) ==
  \A i \in 1 .. Len(s) : /\ i > Len(s) - f => ~ s[i].success
                         /\ i = Len(s) - f => s[i].success

\* The window tells the same story as the streak counter, however the window is
\* shifted: its newest consecutive_failures samples are failures, and the one
\* before them, if it is still in the window, is a success.
StreakIsNewestSamples ==
  \A a \in Arms : EndsInStreak(samples[a], consecutive_failures[a])

\* in_flight, which lowers an arm's score, never counts a request that is not
\* outstanding: an arm cannot be starved by requests that have all finished.
NoPhantomLoad == \A a \in Arms : in_flight[a] <= requests[a]

\* A half-open arm always has a caller that was given its probe and has not
\* answered: nobody else could ever move it out of HalfOpen.
HalfOpenHasProbe == \A a \in Arms : state[a] = "HalfOpen" => probes[a] > 0

\* While an arm is due for a probe, no other arm is probed twice: the
\* last_probe_ms order of select_probe is fair between arms.
NoProbeStarvation == \A a, b \in Arms : overtaken[a][b] <= 1

\* The clock still reaches the end of the arm's backoff (the bounded clock of a
\* model stops; a saturated backoff is never reached by a real one either)
Reachable(a) == \E t \in Clock : t >= open_until_ms[a]

\* With a probe loop running, an arm whose circuit has opened is probed (or
\* recovers) once its backoff has passed.
OpenArmIsProbed ==
  \A a \in Arms :
    (state[a] = "OpenCircuit" /\ Reachable(a))
      ~> (state[a] # "OpenCircuit" \/ ~Reachable(a))

\* What the comment in select_foreground (scheduler.rs:194-195) says: an open
\* circuit becomes usable again through a half-open probe only.
RecoveryThroughProbeOnly ==
  [][\A a \in Arms :
       state[a] = "OpenCircuit" => state'[a] \in {"OpenCircuit", "HalfOpen"}]_vars
=============================================================================
