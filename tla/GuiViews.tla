------------------------------- MODULE GuiViews -------------------------------
(***************************************************************************)
(* What the GUI (src/scripts/gui.py) makes of one status snapshot: the     *)
(* header, the item lists, the chips, the banner and the diagnostic title. *)
(* A view is its level; texts and colours are left out.                    *)
(***************************************************************************)
EXTENDS Advisor

(* cache is [held, state, key, fresh], held when a ProjectState was built;   *)
(* with none yet the snapshot looks for itself.  error: the last build       *)
(* failed.  mine: the core this GUI started runs, and a listener is then     *)
(* taken to be that process.  The port is tried live in both cases.  Whether *)
(* there is a binary and whether the runtime is complete is one fact.        *)
_status_snapshot(w, cache, error, mine) ==
    LET state == cache.state
        open == (cache.held /\ state.listener # "closed") \/ w.loopback
        listened == IF cache.held THEN state.listener # "closed" ELSE open
    IN  [exists |-> IF cache.held THEN state.config_ok ELSE w.config # "missing",
         xray_local |-> IF cache.held THEN state.xray_available ELSE w.xray # "none",
         cert |-> IF cache.held THEN state.cert_exists ELSE w.cert,
         key |-> IF cache.held THEN state.key_exists ELSE w.key,
         open |-> open,
         owner |-> IF ~ listened THEN "none" ELSE IF mine THEN "app" ELSE "external",
         error |-> error,
         proxied |-> w.host = "proxied",
         fields |-> IF cache.held THEN SnapshotFields(state)
                    ELSE [NoState EXCEPT !.xray_version = xray_version(w)]]

Trusted(snap) == snap.fields.trust \in {"pass", "not_supported", "skipped"}
Exposed(snap) == snap.fields.listener = "exposed"

\* Mutant: the header does not ask about exposure or the pair.
LevelIgnoresExposure(snap) ==
    IF snap.error THEN "warn" ELSE IF ~ snap.exists THEN "fail"
    ELSE PassOr(snap.open /\ Trusted(snap), "warn")

(* The browser scripts are part of the repository and always there. *)
_status_level(snap) ==
    IF snap.error THEN "warn"
    ELSE IF Exposed(snap) THEN "fail"
    ELSE IF ~ snap.exists THEN "fail"
    ELSE IF ~ snap.cert \/ ~ snap.key THEN "warn"
    ELSE IF snap.fields.cert_key_match = "mismatch" THEN "fail"
    ELSE IF ~ snap.open THEN "warn"
    ELSE IF snap.fields.key_permission = "broad" THEN "warn"
    ELSE PassOr(Trusted(snap), "warn")

(* The level most views of the proxy share *)
ProxyLevel(snap) == IF Exposed(snap) THEN "fail" ELSE PassOr(snap.open, "warn")

ListenerItem(snap) ==
    IF ~ snap.open THEN "warn" ELSE IF Exposed(snap) THEN "fail"
    ELSE PassOr(snap.owner \in {"app", "external"}, "warn")

CertItem(snap) ==
    IF ~ snap.cert \/ ~ snap.key THEN "warn"
    ELSE IF snap.fields.cert_key_match = "mismatch" THEN "fail" ELSE PassOr(Trusted(snap), "warn")

FingerprintItem(snap) ==
    IF snap.fields.ja3_measured
    THEN CASE snap.fields.ja3_validation = "match" -> "pass"
           [] snap.fields.ja3_validation = "mismatch" -> "warn"
           [] OTHER -> "info"
    ELSE IF snap.fields.ja3_configured THEN "info" ELSE "warn"

_update_readiness_items(snap) ==
    [config |-> PassOr(snap.exists, "fail"), runtime |-> PassOr(snap.xray_local, "warn"),
     cert |-> CertItem(snap), listener |-> ListenerItem(snap),
     fingerprint |-> FingerprintItem(snap)]

PinItem(snap) ==
    IF ~ snap.fields.config_min THEN "info"
    ELSE IF snap.fields.xray_version \in {"", "unknown"} THEN "warn"
    ELSE PassOr(version_at_least(snap.fields.xray_version), "fail")

_update_preflight_items(snap) ==
    [xray_pin |-> PinItem(snap),
     key_acl |-> CASE snap.fields.key_permission = "restricted" -> "pass"
                   [] snap.fields.key_permission = "broad" -> "warn" [] OTHER -> "info"]

_update_runtime_items(snap) == [xray_exe |-> PassOr(snap.xray_local, "warn")]

_update_dashboard_stats(snap, level) ==
    [system |-> level,
     core |-> IF Exposed(snap) THEN "fail"
              ELSE PassOr(snap.owner # "none" \/ snap.xray_local, "warn"),
     proxy |-> ProxyLevel(snap),
     uptime |-> PassOr(snap.open, "info")]

_update_network_mode_items(snap) ==
    [local_proxy |-> ProxyLevel(snap), browser_proxy |-> ProxyLevel(snap),
     browser_https |-> ProxyLevel(snap), browser_path |-> ProxyLevel(snap),
     external_core |-> IF snap.owner # "external" THEN "pass"
                       ELSE IF Exposed(snap) THEN "fail" ELSE "info",
     core_owner |-> IF Exposed(snap) THEN "fail"
                    ELSE CASE snap.owner = "app" -> "pass" [] snap.owner = "external" -> "info"
                           [] OTHER -> "warn",
     system_proxy |-> IF snap.proxied THEN "warn" ELSE "pass"]

(* The chips of refresh_status.  "Certificate" is only as bad as "warn" when *)
(* a file is missing.                                                        *)
StatusChips(snap, level) ==
    [setup |-> level, core_chip |-> ProxyLevel(snap), certificate |-> CertItem(snap)]

Banner(snap, level) ==
    IF Exposed(snap) THEN [level |-> "fail", code |-> "LISTENER-EXPOSED"]
    ELSE IF ~ snap.exists THEN [level |-> "fail", code |-> "CONFIG-MISSING"]
    ELSE IF ~ snap.xray_local /\ ~ snap.open THEN [level |-> "warn", code |-> "CORE-MISSING"]
    ELSE IF ~ snap.cert \/ ~ snap.key THEN [level |-> "warn", code |-> "CA-MISSING"]
    ELSE IF ~ snap.open THEN [level |-> "info", code |-> "CORE-OFFLINE"]
    ELSE IF level = "pass" THEN [level |-> "none", code |-> "cleared"]
    ELSE [level |-> "warn", code |-> "SETUP-ATTENTION"]

(* _update_diagnostic_guidance: the banner's questions in the same order,    *)
(* behind the last failed command.                                           *)
DiagnosticTitle(snap, level, failure) ==
    IF failure THEN "LAST-ISSUE" ELSE Banner(snap, level).code

connection_state(snap, mine) ==
    IF Exposed(snap) THEN "Unsafe" ELSE IF mine THEN "App core"
    ELSE IF snap.open THEN "External core" ELSE "No core"

(* _set_readiness_primary_action and what overrides it *)
PrimaryAction(snap, failure) ==
    IF failure THEN "run_health_probe" ELSE primary_action_spec(snap.fields.next_action)

(* Every level on the screen, but for the pin's *)
ViewLevels(snap, level) ==
    LET items == << _update_readiness_items(snap), _update_runtime_items(snap),
                    _update_dashboard_stats(snap, level), _update_network_mode_items(snap),
                    StatusChips(snap, level) >>
    IN  (UNION {{items[i][v] : v \in DOMAIN items[i]} : i \in DOMAIN items})
        \cup {_update_preflight_items(snap).key_acl}
=============================================================================
