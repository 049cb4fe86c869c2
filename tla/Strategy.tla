------------------------------- MODULE Strategy -------------------------------
(***************************************************************************)
(* From a failing connection to a profile: the staged probe and its labels *)
(* (src/scripts/core/failure_classifier.py), the scoring of profiles       *)
(* (core/strategy_engine.py, core/strategy_profiles.py), the decision      *)
(* report (decision_report.py), the path score (path_scorer.py) and        *)
(* apply_strategy_profile.py.  None of it keeps state: the remembered      *)
(* winner is an argument, and what would be written to it a result.        *)
(***************************************************************************)
EXTENDS Preflight

Labels == {"dns_leak", "webrtc_leak", "static_ja3", "tls_block", "trust_ioc"}

(* What a probe meets: each stage, and the set of outcomes of the TCP        *)
(* connects up to the one that succeeds.                                     *)
Probes ==
    [dns : {"ok", "again", "timeout", "error"},
     tcp : SUBSET {"ok", "timeout", "refused", "error"},
     tls : {"ok", "timeout", "error"},
     alpn : {"none", "h2", "http/1.1", "other"},
     stream : {"ok", "bad_status", "short", "timeout", "error"}]

run_staged_probe(p) ==
    IF p.dns # "ok" THEN IF p.dns = "error" THEN "dns_resolution_failed" ELSE "dns_timeout"
    ELSE IF "ok" \notin p.tcp THEN
         IF "timeout" \in p.tcp THEN "tcp_timeout_blackhole"
         ELSE IF "refused" \in p.tcp THEN "tcp_refused" ELSE "tcp_failed"
    ELSE IF p.tls # "ok" THEN IF p.tls = "timeout" THEN "tls_silent_drop" ELSE "tls_alert_or_rst"
    ELSE IF p.alpn \in {"none", "other"} THEN "alpn_mismatch"
    ELSE IF p.stream \in {"timeout", "error"} THEN "throughput_stall"
    ELSE IF p.stream = "bad_status" /\ p.alpn = "http/1.1" THEN "http_status_bad"
    ELSE IF p.stream = "short" /\ p.alpn = "h2" THEN "first_byte_timeout"
    ELSE "healthy"

ProbePhases == {run_staged_probe(p) : p \in Probes}

PhaseLabels(phase) ==
    CASE phase \in {"dns_resolution_failed", "dns_timeout"} -> {"dns_leak"}
      [] phase \in {"tls_alert_or_rst", "tls_silent_drop", "alpn_mismatch", "http_status_bad"}
           -> {"tls_block"}
      [] OTHER -> {}

(* A hint that is no label of the engine is dropped. *)
derive_strategy_labels(phase, hints) == PhaseLabels(phase) \cup (hints \cap Labels)

(* Every phase of the probe is one of VALID_PHASES, so nothing is renamed;   *)
(* without a target there is no phase, and without the classifier the phase  *)
(* is probe_unavailable.                                                     *)
ValidPhases == ProbePhases \cup {"probe_unavailable"}
normalize_phase(phase) == IF phase \in ValidPhases THEN phase ELSE "probe_unavailable"

PhaseAction(phase) ==
    CASE phase = "healthy" -> "maintain_current_profile"
      [] phase \in {"dns_resolution_failed", "dns_timeout"} -> "switch_dns_resolver_profile"
      [] phase \in {"tcp_timeout_blackhole", "tcp_refused", "tcp_failed"} -> "swap_cdn_edge_ip"
      [] phase \in {"tls_alert_or_rst", "tls_silent_drop", "alpn_mismatch"} -> "rotate_fronted_sni"
      [] OTHER -> "manual_review_required"

-----------------------------------------------------------------------------
ProfileTags ==
    [p \in ProfileIds |->
       CASE p = "strict" -> {"fakedns", "profile_trust"}
         [] p = "balanced" -> {"multi_utls"}
         [] p = "compatibility" -> {"fragment", "profile_trust"}
         [] p = "debug" -> {"profile_trust"}
         [] p = "evasion-fragment" -> {"fragment", "multi_utls"}
         [] p = "evasion-high-stealth" -> {"fragment", "fakedns", "tun", "multi_utls"}]

ProfileIntent(p) ==
    CASE p = "evasion-fragment" -> "balanced" [] p = "evasion-high-stealth" -> "strict"
      [] OTHER -> p

ProfilePriority ==
    [p \in ProfileIds |->
       CASE p = "strict" -> 90 [] p = "balanced" -> 100 [] p = "compatibility" -> 80
         [] p = "debug" -> 70 [] p = "evasion-fragment" -> 85 [] p = "evasion-high-stealth" -> 95]

(* default_candidates: the profiles whose file exists *)
default_candidates(w) == w.profiles \cap ProfileIds

Score(p, labels, intent) ==
    LET pts(cond, n) == IF cond THEN n ELSE 0
    IN  pts(ProfileIntent(p) = intent, 30)
        + pts("dns_leak" \in labels /\ "fakedns" \in ProfileTags[p], 20)
        + pts("webrtc_leak" \in labels /\ "tun" \in ProfileTags[p], 20)
        + pts("static_ja3" \in labels /\ "multi_utls" \in ProfileTags[p], 15)
        + pts("tls_block" \in labels /\ "fragment" \in ProfileTags[p], 15)
        + pts("trust_ioc" \in labels /\ "profile_trust" \in ProfileTags[p], 10)

(* The sort is by descending score and then by -priority descending: of two  *)
(* equal scores the smaller priority number goes first.                      *)
Outranks(p, q, score) ==
    \/ score[p] > score[q]
    \/ score[p] = score[q] /\ ProfilePriority[p] < ProfilePriority[q]

nearest_power_of_two(n) == Min({m \in {1, 2, 4, 8} : m >= n})
pool_index(counter, n) == (counter % nearest_power_of_two(n)) % n

(* choose_profile on a pool that is not empty: the session counter walks     *)
(* down the ranking, so the best match is taken for one counter in n only.   *)
choose_profile(pool, labels, intent, counter) ==
    LET score == [p \in pool |-> Score(p, labels, intent)]
        place == pool_index(counter, Cardinality(pool))
    IN  CHOOSE p \in pool : Cardinality({q \in pool : Outranks(q, p, score)}) = place

Confidence(p, labels, intent) == IF Score(p, labels, intent) > 0 THEN "medium" ELSE "low"

None == "none"

(* recommend_profile: the profile and the winner file after the call.        *)
(* Without labels a remembered winner is returned whatever was asked, and a  *)
(* recommendation made without one is itself remembered, applied or not.     *)
recommend_profile(w, labels, intent, counter, winner) ==
    LET pool == default_candidates(w)
        chosen == choose_profile(pool, labels, intent, counter)
    IN  IF labels = {} /\ winner \in pool
        THEN [selected |-> winner, remembered |-> TRUE, winner |-> winner]
        ELSE IF pool = {} THEN [selected |-> None, remembered |-> FALSE, winner |-> winner]
        ELSE [selected |-> chosen, remembered |-> FALSE,
              winner |-> IF labels = {} /\ Confidence(chosen, labels, intent) = "medium"
                         THEN chosen ELSE winner]

-----------------------------------------------------------------------------
(* The health checks the decision report hands to the policy *)
ReportGroups(w) ==
    [local_ports |-> {PassOr(w.loopback, "warn")},
     certificate |-> {PassOr(w.cert, "warn")},
     dns |-> {PassOr(config_ok(w), "warn")},
     trust_store |-> {TrustLevel(w)},
     captive |-> {PassOr(w.network = "up", "warn")},
     providers |-> {PassOr(w.host # "stale", "warn")}]

(* decision_report.main: the report, as written to --json-out even when the  *)
(* validation fails but not when it raises, the exit code and the winner.    *)
(* phase is None when no target was given.                                   *)
decision_report(w, phase, hints, profile, counter, winner) ==
    LET labels == derive_strategy_labels(phase, hints)
        pick == recommend_profile(w, labels, profile, counter, winner)
    IN  [written |-> ~ ValidationRaises(w),
         report |-> [phase |-> IF phase = None THEN None ELSE normalize_phase(phase),
                     labels |-> labels, selected |-> pick.selected, profile |-> profile,
                     action |-> PhaseAction(phase),
                     suggested |-> SuggestedProfile(ReportGroups(w), ValidationOverall(w))],
         exit |-> validate_config_main(w),
         winner |-> IF ValidationRaises(w) THEN winner ELSE pick.winner]

NoReport == [phase |-> None, labels |-> {}, selected |-> None, profile |-> None,
             action |-> None, suggested |-> None]

(* path_scorer on one report: where the path stands *)
PathStatus(phase) ==
    CASE phase = "healthy" -> "HEALTHY"
      [] phase \in {"tcp_timeout_blackhole", "tcp_refused"} -> "CIRCUIT_OPEN"
      [] phase \in {"tls_alert_or_rst", "tls_silent_drop", "alpn_mismatch"} -> "QUARANTINED"
      [] OTHER -> "SUSPECT"

PathAdvice(phase) ==
    IF phase = "healthy" THEN "NO_CHANGE"
    ELSE IF phase \in ProbePhases THEN "ROTATE_PROFILE" ELSE "MANUAL_REVIEW"

build_advisory(report) == [status |-> PathStatus(report.phase), advice |-> PathAdvice(report.phase)]

(* The scores of one provider's reports: base scores of PHASE_STATUS, the    *)
(* latency term of a healthy path left out.                                  *)
BaseScore(phase) ==
    CASE phase = "healthy" -> 92 [] phase = "http_status_bad" -> 35
      [] phase = "first_byte_timeout" -> 28 [] phase = "throughput_stall" -> 26
      [] phase = "dns_resolution_failed" -> 24 [] phase = "dns_timeout" -> 20
      [] phase = "tcp_failed" -> 18 [] phase = "alpn_mismatch" -> 16
      [] phase = "tls_alert_or_rst" -> 10 [] phase = "tls_silent_drop" -> 8
      [] phase = "tcp_timeout_blackhole" -> 4 [] phase = "tcp_refused" -> 0 [] OTHER -> 20

(* apply_strategy_profile.main: a selection in the report is used as it      *)
(* stands, whatever its age; otherwise the report's phase decides the labels *)
(* again.  Only --remember writes the winner, and only for a file that is    *)
(* there.                                                                    *)
apply_strategy_profile(w, report, hints, remember, winner) ==
    LET labels == IF report.phase # None THEN derive_strategy_labels(report.phase, hints)
                  ELSE IF report.labels # {} THEN report.labels
                  ELSE derive_strategy_labels(None, hints)
        intent == IF report.profile = None THEN "balanced" ELSE report.profile
        pick == IF report.selected # None
                THEN [selected |-> report.selected, winner |-> winner]
                ELSE recommend_profile(w, labels, intent, 0, winner)
        exists == pick.selected \in w.profiles
    IN  [selected |-> pick.selected,
         winner |-> IF remember /\ exists THEN pick.selected ELSE pick.winner,
         exit |-> IF exists THEN 0 ELSE IF pick.selected = None THEN 1 ELSE 2]
=============================================================================
