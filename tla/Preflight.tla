------------------------------ MODULE Preflight ------------------------------
(***************************************************************************)
(* The one-shot reports: the full preflight (src/scripts/preflight.py),    *)
(* the health probe with its policy (health_probe.py) and the verified     *)
(* session bundle (verified_session.py), as functions of the world.        *)
(***************************************************************************)
EXTENDS Readiness

(* --skip-cert, --skip-runtime, --no-dns, and the result of xray run -test   *)
(* when --xray-bin is given.                                                 *)
PreflightOptions ==
    [skip_cert : BOOLEAN, skip_runtime : BOOLEAN, no_dns : BOOLEAN,
     test : {"unused", "info", "warn", "pass", "fail"}]

GuiPreflight == [skip_cert |-> FALSE, skip_runtime |-> FALSE, no_dns |-> FALSE, test |-> "unused"]

(* validate_config calls get on what load_json read *)
ValidationRaises(w) == w.config = "array"

(* load_json and validate_config together, when they return *)
ValidationOverall(w) == IF config_ok(w) THEN summarize(validate_config(w.base)) ELSE "fail"

validate_config_main(w) ==
    IF ValidationRaises(w) THEN 1 ELSE IF ValidationOverall(w) = "fail" THEN 2 ELSE 0

check_key_permissions(w) ==
    CASE ~ w.key -> "fail" [] w.acl = "world" -> "warn"
      [] w.acl = "restricted" -> "pass" [] OTHER -> "info"

(* A certificate openssl cannot read is "warn", no openssl at all "info". *)
openssl_cert_info(w) ==
    IF ~ w.cert THEN {}
    ELSE {IF w.expiry # "unknown" THEN "pass" ELSE IF w.pair = "unknown" THEN "info" ELSE "warn"}

\* Mutant: only 0.0.0.0 is looked for.
AnyAddressLine(l) == l = "0.0.0.0"

(* listener_exposure_checks looks for the markers anywhere in the line.  The *)
(* peer column of every listener holds "0.0.0.0" or "*", so a core that      *)
(* listens on 127.0.0.1 alone is reported as exposed too.                    *)
MarkedExposed(l) == l \notin {"session", "other"}

listener_exposure_check(w) ==
    IF w.lines = {} THEN "info"
    ELSE IF \E l \in w.lines : MarkedExposed(l) THEN "fail"
    ELSE IF "session" \in w.lines THEN "pass" ELSE "warn"

CertStatuses(w) ==
    {PassOr(w.cert, "fail"), PassOr(w.key, "fail"), check_key_permissions(w)}
    \cup openssl_cert_info(w)

RuntimeStatuses(w) == {PassOr(w.loopback, "info"), listener_exposure_check(w)}

(* proxy_environment, windows_proxy, interface_conflict, platform capability *)
HostStatuses(w) == {IF w.host = "proxied" THEN "warn" ELSE "pass", "info"}

(* --no-dns skips the captive portal probe too *)
NetworkStatuses(w) == {PassOr(w.network # "no_dns", "warn"), PassOr(w.network = "up", "warn")}

PreflightOverall(w, o) ==
    summarize({ValidationOverall(w)} \cup HostStatuses(w)
              \cup (IF o.skip_cert THEN {} ELSE CertStatuses(w))
              \cup (IF o.skip_runtime THEN {} ELSE RuntimeStatuses(w))
              \cup (IF o.no_dns THEN {} ELSE NetworkStatuses(w))
              \cup (IF o.test = "unused" THEN {} ELSE {o.test}))

(* A report is written only by a run that gets to its end. *)
preflight_main(w, o) ==
    IF ValidationRaises(w) THEN 1 ELSE IF PreflightOverall(w, o) = "fail" THEN 2 ELSE 0

-----------------------------------------------------------------------------
(* How a report on the trust store counts among the health checks; one that  *)
(* raises ends the probe.                                                    *)
TrustLevel(w) ==
    CASE evaluate_status(w) = "pass" -> "pass" [] evaluate_status(w) = "not_supported" -> "info"
      [] OTHER -> "warn"

health_cert_checks(w) ==
    {PassOr(w.cert, "warn"), PassOr(w.key, "warn")}
    \cup (IF ~ w.key THEN {} ELSE
          {CASE w.acl = "world" -> "warn" [] w.acl = "unknown" -> "info" [] OTHER -> "pass"})

HealthGroups(w, skip_captive) ==
    [local_ports  |-> {PassOr(w.loopback, "warn")},
     exposure     |-> {listener_exposure_check(w)},
     certificate  |-> health_cert_checks(w),
     dns          |-> {PassOr(w.network # "no_dns", "warn")},
     providers    |-> {PassOr(w.host # "stale", "warn")},
     trust_store  |-> {TrustLevel(w)},
     captive      |-> IF skip_captive THEN {} ELSE {PassOr(w.network = "up", "warn")}]

HealthOverall(groups) == summarize(UNION {groups[g] : g \in DOMAIN groups})

(* build_policy_recommendation: the profile it suggests; auto_switch is      *)
(* always false, and nothing but DNS, a captive portal and a failure moves   *)
(* the suggestion away from balanced.                                        *)
SuggestedProfile(groups, overall) ==
    IF groups.dns # {"pass"} \/ "warn" \in groups.captive \/ overall = "fail"
    THEN "compatibility" ELSE "balanced"

PolicyActions(groups, overall) ==
    {g \in DOMAIN groups :
       CASE g = "exposure" -> "fail" \in groups[g]
         [] g = "dns" -> groups[g] # {"pass"}
         [] OTHER -> "warn" \in groups[g]} \cup (IF overall = "fail" THEN {"overall"} ELSE {})

build_policy_recommendation(groups, overall) ==
    [suggested |-> SuggestedProfile(groups, overall), auto_switch |-> FALSE,
     actions |-> PolicyActions(groups, overall)]

health_main(w, skip_captive) ==
    IF w.trust = "raises" THEN 1
    ELSE IF HealthOverall(HealthGroups(w, skip_captive)) = "pass" THEN 0 ELSE 1

-----------------------------------------------------------------------------
PageOutcomes == {"not_run", "pass", "fail", "error", "skipped"}

(* build_bundle: the page check adds a blocker and leaves overall alone *)
build_bundle(state, page) ==
    [overall |-> state.overall,
     release_blockers |-> state.release_blockers
        \cup (IF page \in {"not_run", "pass", "skipped"} THEN {} ELSE {"page_check"})]

verified_main(bundle) == IF bundle.overall = "fail" THEN 2 ELSE 0
=============================================================================
