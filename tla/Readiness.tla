------------------------------ MODULE Readiness ------------------------------
(***************************************************************************)
(* The shared readiness verdict (src/scripts/core/readiness.py), the       *)
(* fields the GUI reads of it (core/gui_readiness.py) and the startup gate *)
(* (core/preflight_gate.py), as functions of what the machine is like.     *)
(* A world is a record of facts; a check is its id and its status; wording,*)
(* evidence and paths are left out.                                        *)
(***************************************************************************)
EXTENDS ConfigProfiles, FiniteSets, FiniteSetsExt

EvasionProfiles == {"evasion-fragment", "evasion-high-stealth"}
ProfileIds == StandardProfiles \cup EvasionProfiles

(* The netstat or ss lines that mention the proxy port, by their local       *)
(* address.  "session" is a connection, open or in TIME_WAIT, between        *)
(* loopback ends and "other" one between other ends; the rest are listeners, *)
(* "lan" one on an address of the local network.  listener_state takes "*"   *)
(* and "lan" for neither exposed nor loopback.                               *)
Lines == {"0.0.0.0", ":::", "127.0.0.1", "[::1]", "::1", "*", "lan", "session", "other"}

(* What each fact may be.  config: "pinned" has a minimum Xray version and   *)
(* "unpinned" none, "array" is JSON but no object; base is what a config     *)
(* that is an object says.  xray: the local binary and what its version      *)
(* command prints, "garbled" a line without a number and "silent" a failure. *)
(* helpers: how many of mitm_trust's three helpers return before one raises. *)
(* host: a system proxy or a VPN interface is set, or provider dossiers are  *)
(* out of date.                                                              *)
FactValues ==
    [config     |-> {"pinned", "unpinned", "array", "missing", "invalid"},
     base       |-> {Primary, [Primary EXCEPT !.listen = "unset"], [Primary EXCEPT !.dns = FALSE]},
     profiles   |-> {ProfileIds, StandardProfiles, ProfileIds \ {"balanced"}, {}},
     synced     |-> BOOLEAN,
     xray       |-> {"recent", "old", "garbled", "silent", "none"},
     lines      |-> {{}, {"127.0.0.1"}, {"0.0.0.0"}, {"::1"}, {"*"}, {"lan"}, {"session"},
                    {"other"}, {"[::1]", ":::"}},
     loopback   |-> BOOLEAN,
     cert       |-> BOOLEAN,
     key        |-> BOOLEAN,
     pair       |-> {"match", "mismatch", "unknown"},
     expiry     |-> {"valid", "expires_soon", "expired", "unknown"},
     acl        |-> {"restricted", "group", "world", "unknown"},
     helpers    |-> 0 .. 3,
     trust      |-> {"pass", "not_supported", "untrusted", "raises"},
     playwright |-> BOOLEAN,
     cloak      |-> BOOLEAN,
     ja3        |-> {"none", "configured", "match", "mismatch", "measured"},
     network    |-> {"up", "no_dns", "captive"},
     host       |-> {"clean", "proxied", "stale"}]

Facts == DOMAIN FactValues

(* A machine on which nothing is wrong and the core is listening. *)
Healthy ==
    [config |-> "pinned", base |-> Primary, profiles |-> ProfileIds, synced |-> TRUE,
     xray |-> "recent", lines |-> {"127.0.0.1"}, loopback |-> TRUE, cert |-> TRUE, key |-> TRUE,
     pair |-> "match", expiry |-> "valid", acl |-> "restricted", helpers |-> 3, trust |-> "pass",
     playwright |-> TRUE, cloak |-> TRUE, ja3 |-> "none", network |-> "up", host |-> "clean"]

Options == [skip_trust : BOOLEAN, skip_runtime : BOOLEAN]
NoOptions == [skip_trust |-> FALSE, skip_runtime |-> FALSE]

Check(id, status) == [id |-> id, status |-> status]
PassOr(ok, otherwise) == IF ok THEN "pass" ELSE otherwise

Statuses(checks) == {c.status : c \in checks}

status_from_checks(checks) ==
    LET s == Statuses(checks)
    IN  IF "fail" \in s THEN "fail" ELSE IF "warn" \in s THEN "warn"
        ELSE IF "pass" \in s THEN "pass" ELSE "info"

-----------------------------------------------------------------------------
(* load_config asks for JSON, not for an object *)
config_ok(w) == w.config \in {"pinned", "unpinned", "array"}

(* A config that is no object has no metadata: no pin, no fingerprint. *)
config_min(w) == w.config = "pinned"
ja3_configured(w) ==
    /\ w.config \in {"pinned", "unpinned"}
    /\ w.ja3 = "configured" \/ w.base.operating # "none"

load_config(w) ==
    Check(IF w.config = "missing" THEN "config.exists" ELSE "config.json",
          PassOr(config_ok(w), "fail"))

profiles_present(w) == StandardProfiles \subseteq w.profiles

profile_checks(w) ==
    {Check("profiles.present", PassOr(profiles_present(w), "warn")),
     Check("profiles.git_sync", PassOr(w.synced, "warn"))}

xray_version(w) ==
    CASE w.xray = "none" -> "" [] w.xray = "silent" -> "unknown" [] OTHER -> w.xray

(* listener_state reads the local column.  "::1" without brackets, the form  *)
(* of netstat on Linux, starts with "::" and counts as every address.        *)
ExposedLine(l) == l \in {"0.0.0.0", ":::", "::1"}
LoopbackLine(l) == l \in {"127.0.0.1", "[::1]", "session"}

listener_exposure(w) ==
    IF w.lines = {} /\ ~ w.loopback THEN "closed"
    ELSE IF \E l \in w.lines : ExposedLine(l) THEN "exposed"
    ELSE IF w.loopback \/ \E l \in w.lines : LoopbackLine(l) THEN "loopback"
    ELSE "unknown"

listener_state(w) ==
    CASE listener_exposure(w) = "closed" -> Check("listener.closed", "warn")
      [] listener_exposure(w) = "exposed" -> Check("listener.exposed", "fail")
      [] listener_exposure(w) = "loopback" -> Check("listener.loopback", "pass")
      [] listener_exposure(w) = "unknown" -> Check("listener.ambiguous", "warn")

(* The helpers run in this order, and the first that raises ends the series; *)
(* a key that is not there has "broad" permissions.                          *)
cert_key_match(w) == IF w.helpers > 0 /\ w.cert /\ w.key THEN w.pair ELSE "unknown"
cert_expiry(w) == IF w.helpers > 1 /\ w.cert THEN w.expiry ELSE "unknown"
key_permissions(w) ==
    IF w.helpers < 3 THEN "unknown"
    ELSE IF w.key /\ w.acl \in {"restricted", "unknown"} THEN w.acl ELSE "broad"

cert_state(w) ==
    {Check("cert.exists", PassOr(w.cert, "warn")), Check("key.exists", PassOr(w.key, "warn"))}
    \cup (IF w.helpers = 0 THEN {} ELSE
          {Check("cert.key_match", CASE cert_key_match(w) = "match" -> "pass"
                                     [] cert_key_match(w) = "mismatch" -> "fail"
                                     [] OTHER -> "info")})
    \cup (IF w.helpers < 2 THEN {} ELSE
          {Check("cert.expiry", CASE cert_expiry(w) = "valid" -> "pass"
                                  [] cert_expiry(w) = "expires_soon" -> "warn"
                                  [] cert_expiry(w) = "expired" -> "fail"
                                  [] OTHER -> "info")})
    \cup (IF w.helpers < 3 THEN {Check("cert.helpers", "info")} ELSE
          {Check("key.permissions", CASE key_permissions(w) = "restricted" -> "pass"
                                      [] key_permissions(w) = "broad" -> "warn"
                                      [] OTHER -> "info")})

(* trust_store_check: a certificate that is not there is in no store;        *)
(* "untrusted" is a mismatch, or stores that could not be read.              *)
evaluate_status(w) == IF w.cert THEN w.trust ELSE "missing"

trust_status(w, o) ==
    IF o.skip_trust THEN "skipped"
    ELSE IF w.trust = "raises" THEN "unknown" ELSE evaluate_status(w)

trust_state(w, o) ==
    Check(IF o.skip_trust THEN "trust.skipped" ELSE "trust.status",
          CASE trust_status(w, o) \in {"skipped", "unknown"} -> "info"
            [] trust_status(w, o) \in {"pass", "not_supported"} -> "pass"
            [] OTHER -> "warn")

(* browser.executable is "pass" or "info" and decides nothing: left out. *)
browser_state(w) ==
    {Check("browser.diagnostics", PassOr(w.playwright, "warn")),
     Check("browser.cloakbrowser", PassOr(w.cloak, "info"))}

ja3_measured(w) == w.ja3 \in {"match", "mismatch", "measured"}

ja3_checks(w) ==
    IF ja3_measured(w) THEN {Check("ja3.measured", PassOr(w.ja3 = "match", "warn"))}
    ELSE IF ja3_configured(w) THEN {Check("ja3.configured_only", "info")} ELSE {}

Checks(w, o) ==
    {load_config(w), Check("xray.available", PassOr(w.xray # "none", "warn")),
     IF o.skip_runtime THEN Check("listener.skipped", "info") ELSE listener_state(w),
     trust_state(w, o), Check("telemetry.source", "info")}
    \cup profile_checks(w) \cup cert_state(w) \cup browser_state(w) \cup ja3_checks(w)

-----------------------------------------------------------------------------
exposure(w, o) == IF o.skip_runtime THEN "unknown" ELSE listener_exposure(w)

build_repairs(w, o) ==
    {r \in {"config_profiles", "local_ca", "key_permissions", "download_xray",
            "listener_binding", "trust_ca", "playwright", "cloakbrowser"} :
       CASE r = "config_profiles" -> ~ config_ok(w) \/ ~ profiles_present(w) \/ ~ w.synced
         [] r = "local_ca" -> ~ w.cert \/ ~ w.key \/ cert_key_match(w) = "mismatch"
         [] r = "key_permissions" -> key_permissions(w) = "broad"
         [] r = "download_xray" -> w.xray = "none"
         [] r = "listener_binding" -> exposure(w, o) = "exposed"
         [] r = "trust_ca" -> trust_status(w, o) \notin {"pass", "not_supported", "skipped"}
         [] r = "playwright" -> ~ w.playwright
         [] r = "cloakbrowser" -> ~ w.cloak}

(* derive_next_action asks these questions in this order.  The page check's  *)
(* status is never set, so the last one always answers and the branches      *)
(* after it (JA3, advisor, Ready) are never reached.                         *)
Questions(w, o) ==
    << <<~ config_ok(w), "Repair Config">>,
       <<~ profiles_present(w) \/ ~ w.synced, "Regenerate Profiles">>,
       <<~ w.cert \/ ~ w.key, "Generate Local CA">>,
       <<cert_key_match(w) = "mismatch", "Regenerate Local CA">>,
       <<w.xray = "none", "Download Xray Core">>,
       <<exposure(w, o) = "exposed", "Fix Exposed Listener">>,
       <<exposure(w, o) = "closed", "Start Core">>,
       <<key_permissions(w) = "broad", "Restrict Private Key">>,
       <<trust_status(w, o) \notin {"pass", "not_supported", "skipped"}, "Trust Certificate">>,
       <<~ w.playwright, "Install Page Check Tools">>,
       <<TRUE, "Run Page Check">> >>

derive_next_action(w, o) ==
    LET q == Questions(w, o) IN q[Min({i \in DOMAIN q : q[i][1]})][2]

release_blockers(checks) == {c.id : c \in {d \in checks : d.status \in {"fail", "warn"}}}

(* The fields of ProjectState that something reads. *)
build_project_state(w, o) ==
    LET checks == Checks(w, o)
    IN  [overall |-> status_from_checks(checks),
         next_action |-> derive_next_action(w, o),
         release_blockers |-> release_blockers(checks),
         release_ready |-> status_from_checks(checks) = "pass" /\ release_blockers(checks) = {},
         repairs |-> build_repairs(w, o),
         config_ok |-> config_ok(w),
         config_min |-> config_min(w),
         profiles_ready |-> profiles_present(w) /\ w.synced,
         xray_available |-> w.xray # "none",
         xray_version |-> xray_version(w),
         cert_exists |-> w.cert,
         key_exists |-> w.key,
         listener |-> IF o.skip_runtime THEN "skipped" ELSE listener_exposure(w),
         cert_key_match |-> cert_key_match(w),
         key_permission |-> key_permissions(w),
         expiry |-> cert_expiry(w),
         trust |-> trust_status(w, o),
         playwright |-> w.playwright,
         ja3_configured |-> ja3_configured(w),
         ja3_measured |-> ja3_measured(w),
         ja3_validation |-> IF ja3_measured(w) THEN w.ja3 ELSE "not_measured"]

readiness_main(state) == IF state.overall = "fail" THEN 2 ELSE 0

-----------------------------------------------------------------------------
(* readiness_snapshot_fields when no state was ever built *)
NoState ==
    [overall |-> "warn", next_action |-> "Run Check Setup", config_min |-> FALSE,
     xray_version |-> "", listener |-> "unknown", cert_key_match |-> "unknown",
     key_permission |-> "unknown", trust |-> "unknown", expiry |-> "unknown",
     profiles_ready |-> FALSE, playwright |-> FALSE, ja3_configured |-> FALSE,
     ja3_measured |-> FALSE, ja3_validation |-> "not_measured"]

SnapshotFields(state) == [f \in DOMAIN NoState |-> state[f]]

(* ACTION_SPECS: the button's target; a label it does not know checks setup *)
primary_action_spec(action) ==
    CASE action = "Repair Config" -> "config_folder"
      [] action = "Regenerate Profiles" -> "generate_profiles"
      [] action \in {"Generate Local CA", "Regenerate Local CA"} -> "generate_ca"
      [] action = "Download Xray Core" -> "download_xray"
      [] action = "Fix Exposed Listener" -> "health_tab"
      [] action = "Start Core" -> "start_core"
      [] action \in {"Restrict Private Key", "Trust Certificate"} -> "certificates_tab"
      [] action = "Install Page Check Tools" -> "install_page_tools"
      [] action = "Run Page Check" -> "page_check"
      [] OTHER -> "check_setup"

version_at_least(runtime) == runtime = "recent"

(* evaluate_startup_gate on a snapshot [exists, xray_local, fields] and the  *)
(* overall status of the cached preflight report, "none" when there is none. *)
GateBlockers(snap, preflight) ==
    {b \in {"config_missing", "xray_missing", "xray_pin", "key_acl", "listener_exposed",
            "preflight_fail"} :
       CASE b = "config_missing" -> ~ snap.exists
         [] b = "xray_missing" -> snap.fields.config_min /\ ~ snap.xray_local
         [] b = "xray_pin" -> /\ snap.fields.config_min /\ snap.xray_local
                              /\ snap.fields.xray_version \notin {"", "unknown"}
                              /\ ~ version_at_least(snap.fields.xray_version)
         [] b = "key_acl" -> snap.fields.key_permission = "broad"
         [] b = "listener_exposed" -> snap.fields.listener = "exposed"
         [] b = "preflight_fail" -> preflight = "fail"}

evaluate_startup_gate(snap, preflight) ==
    IF GateBlockers(snap, preflight) # {} THEN "fail"
    ELSE IF snap.fields.overall = "warn" THEN "warn" ELSE "pass"
=============================================================================
