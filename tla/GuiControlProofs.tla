--------------------------- MODULE GuiControlProofs ---------------------------
(***************************************************************************)
(* What holds of the control plane for every machine, every set of drifts  *)
(* and every bound.  The deciders and the views are judged as operators,   *)
(* on any machine; that a cached readiness is a readiness of some machine, *)
(* and that the shell's last tool spoke of this one, is the invariant.     *)
(* The handlers call one another, so each has a lemma that says what it    *)
(* may make of a desk.                                                     *)
(***************************************************************************)
EXTENDS GuiControl, EvictionLemmas, TLAPS

-----------------------------------------------------------------------------
(* The deciders and the views, on one machine                              *)

\* derive_next_action answers the first of its questions that holds.
LEMMA FirstQuestion ==
  ASSUME NEW w, NEW o
  PROVE  \E i \in 1 .. 11 :
           /\ Questions(w, o)[i][1]
           /\ derive_next_action(w, o) = Questions(w, o)[i][2]
           /\ \A j \in 1 .. 11 : j < i => ~ Questions(w, o)[j][1]
<1> DEFINE q == Questions(w, o)
           S == {i \in DOMAIN q : q[i][1]}
<1>1. DOMAIN q = 1 .. 11 /\ q[11][1]
  BY DEF Questions
<1> HIDE DEF q
<1>2. S \subseteq Nat /\ S # {}
  BY <1>1
<1>3. \E i \in S : \A j \in S : i <= j
  BY <1>2, LeastNatural
<1>4. Min(S) \in S /\ \A j \in S : Min(S) <= j
  BY <1>3 DEF Min
<1>5. derive_next_action(w, o) = q[Min(S)][2]
  BY DEF derive_next_action, q
<1> HIDE DEF S
<1>6. PICK m \in 1 .. 11 : m = Min(S) /\ q[m][1] /\ \A j \in S : m <= j
  BY <1>1, <1>4 DEF S
<1>7. ASSUME NEW j \in 1 .. 11, j < m, q[j][1] PROVE FALSE
  <2>1. j \in S
    BY <1>1, <1>7, Zenon DEF S
  <2>2. m <= j
    BY <1>6, <2>1
  <2> QED
    BY <1>7, <2>2
<1> QED
  BY <1>5, <1>6, <1>7 DEF q

LEMMA NextActionMeans ==
  ASSUME NEW w, NEW o, NEW a, a = derive_next_action(w, o)
  PROVE  /\ a = "Repair Config" => ~ config_ok(w)
         /\ a \in {"Generate Local CA", "Regenerate Local CA"} =>
              ~ w.cert \/ ~ w.key \/ cert_key_match(w) = "mismatch"
         /\ a = "Fix Exposed Listener" => exposure(w, o) = "exposed"
         /\ a \in {"Start Core", "Run Page Check"} =>
              /\ config_ok(w) /\ profiles_present(w) /\ w.synced
              /\ w.cert /\ w.key /\ cert_key_match(w) # "mismatch"
              /\ w.xray # "none" /\ exposure(w, o) # "exposed"
         /\ a = "Start Core" => exposure(w, o) = "closed"
         /\ a = "Run Page Check" =>
              /\ exposure(w, o) # "closed" /\ key_permissions(w) # "broad"
              /\ trust_status(w, o) \in {"pass", "not_supported", "skipped"}
              /\ w.playwright
<1>1. PICK i \in 1 .. 11 :
        /\ Questions(w, o)[i][1]
        /\ a = Questions(w, o)[i][2]
        /\ \A j \in 1 .. 11 : j < i => ~ Questions(w, o)[j][1]
  BY FirstQuestion
<1> DEFINE q == Questions(w, o)
<1>2. /\ q[1][1] <=> ~ config_ok(w)
      /\ q[2][1] <=> ~ profiles_present(w) \/ ~ w.synced
      /\ q[3][1] <=> ~ w.cert \/ ~ w.key
      /\ q[4][1] <=> cert_key_match(w) = "mismatch"
      /\ q[5][1] <=> w.xray = "none"
      /\ q[6][1] <=> exposure(w, o) = "exposed"
      /\ q[7][1] <=> exposure(w, o) = "closed"
      /\ q[8][1] <=> key_permissions(w) = "broad"
      /\ q[9][1] <=> trust_status(w, o) \notin {"pass", "not_supported", "skipped"}
      /\ q[10][1] <=> ~ w.playwright
  BY DEF Questions
<1>3. /\ q[1][2] = "Repair Config" /\ q[2][2] = "Regenerate Profiles"
      /\ q[3][2] = "Generate Local CA" /\ q[4][2] = "Regenerate Local CA"
      /\ q[5][2] = "Download Xray Core" /\ q[6][2] = "Fix Exposed Listener"
      /\ q[7][2] = "Start Core" /\ q[8][2] = "Restrict Private Key"
      /\ q[9][2] = "Trust Certificate" /\ q[10][2] = "Install Page Check Tools"
      /\ q[11][2] = "Run Page Check"
  BY DEF Questions
<1>4. /\ q[i][1] /\ a = q[i][2]
      /\ \A j \in 1 .. 11 : j < i => ~ q[j][1]
  BY <1>1
<1> HIDE DEF q
<1>5. CASE i \in {1, 2, 5, 8, 9, 10}
  BY <1>2, <1>3, <1>4, <1>5
<1>6. CASE i \in {3, 4, 6}
  BY <1>2, <1>3, <1>4, <1>6
<1>7. CASE i = 7
  <2>1. ~ q[1][1] /\ ~ q[2][1] /\ ~ q[3][1] /\ ~ q[4][1] /\ ~ q[5][1] /\ ~ q[6][1]
    BY <1>4, <1>7
  <2> QED
    BY <1>2, <1>3, <1>4, <1>7, <2>1
<1>8. CASE i = 11
  <2>1. /\ ~ q[1][1] /\ ~ q[2][1] /\ ~ q[3][1] /\ ~ q[4][1] /\ ~ q[5][1] /\ ~ q[6][1]
        /\ ~ q[7][1] /\ ~ q[8][1] /\ ~ q[9][1] /\ ~ q[10][1]
    BY <1>4, <1>8
  <2> QED
    BY <1>2, <1>3, <1>4, <1>8, <2>1
<1>9. i \in {1, 2, 5, 8, 9, 10} \cup {3, 4, 6} \cup {7, 11}
  OBVIOUS
<1> QED
  BY <1>5, <1>6, <1>7, <1>8, <1>9

\* What a snapshot says that is made of a readiness state: the state of the
\* machine v as it was when that was built.
LEMMA HeldSnapshot ==
  ASSUME NEW w, NEW v, NEW c, NEW e, NEW mine, c.held, c.state = build_project_state(v, NoOptions)
  PROVE  LET s == _status_snapshot(w, c, e, mine)
         IN  /\ s.error <=> e
             /\ s.exists <=> config_ok(v)
             /\ s.xray_local <=> v.xray # "none"
             /\ s.cert <=> v.cert
             /\ s.key <=> v.key
             /\ s.fields.next_action = derive_next_action(v, NoOptions)
             /\ s.fields.config_min <=> config_min(v)
             /\ s.fields.listener = listener_exposure(v)
             /\ s.fields.cert_key_match = cert_key_match(v)
             /\ s.fields.key_permission = key_permissions(v)
             /\ s.fields.trust = trust_status(v, NoOptions)
<1> DEFINE st == build_project_state(v, NoOptions)
           s == _status_snapshot(w, c, e, mine)
<1>1. /\ st.config_ok <=> config_ok(v)
      /\ st.xray_available <=> v.xray # "none"
      /\ st.cert_exists <=> v.cert
      /\ st.key_exists <=> v.key
      /\ st.next_action = derive_next_action(v, NoOptions)
      /\ st.config_min <=> config_min(v)
      /\ st.listener = listener_exposure(v)
      /\ st.cert_key_match = cert_key_match(v)
      /\ st.key_permission = key_permissions(v)
      /\ st.trust = trust_status(v, NoOptions)
  BY DEF build_project_state, NoOptions
<1> HIDE DEF st
<1>2. /\ s.error <=> e
      /\ s.exists <=> st.config_ok
      /\ s.xray_local <=> st.xray_available
      /\ s.cert <=> st.cert_exists
      /\ s.key <=> st.key_exists
      /\ s.fields = SnapshotFields(st)
  BY DEF _status_snapshot, st
<1>3. \A f \in {"next_action", "config_min", "listener", "cert_key_match", "key_permission",
                "trust"} : SnapshotFields(st)[f] = st[f]
  BY DEF SnapshotFields, NoState
<1> QED
  BY <1>1, <1>2, <1>3

\* A header that says Ready has asked all of this.
LEMMA ReadyMeans ==
  ASSUME NEW s, _status_level(s) = "pass"
  PROVE  /\ ~ s.error /\ ~ Exposed(s) /\ s.exists /\ s.cert /\ s.key
         /\ s.fields.cert_key_match # "mismatch" /\ s.open
         /\ s.fields.key_permission # "broad" /\ Trusted(s)
BY DEF _status_level, PassOr

\* No view but the pin's is red under a header that says Ready.
LEMMA ReadyHasNoRed ==
  ASSUME NEW s, _status_level(s) = "pass"
  PROVE  "fail" \notin ViewLevels(s, "pass")
<1>0. /\ ~ s.error /\ ~ Exposed(s) /\ s.exists /\ s.cert /\ s.key
      /\ s.fields.cert_key_match # "mismatch" /\ s.open
      /\ s.fields.key_permission # "broad" /\ Trusted(s)
  BY ReadyMeans
<1>1. \A v \in DOMAIN _update_readiness_items(s) : _update_readiness_items(s)[v] # "fail"
  <2>1. /\ CertItem(s) # "fail" /\ ListenerItem(s) # "fail" /\ FingerprintItem(s) # "fail"
        /\ PassOr(s.exists, "fail") # "fail" /\ PassOr(s.xray_local, "warn") # "fail"
    BY <1>0 DEF CertItem, ListenerItem, FingerprintItem, PassOr
  <2> QED
    BY <2>1 DEF _update_readiness_items
<1>2. \A v \in DOMAIN _update_runtime_items(s) : _update_runtime_items(s)[v] # "fail"
  BY DEF _update_runtime_items, PassOr
<1>3. ProxyLevel(s) # "fail"
  BY <1>0 DEF ProxyLevel, PassOr
<1>4. \A v \in DOMAIN _update_dashboard_stats(s, "pass") :
        _update_dashboard_stats(s, "pass")[v] # "fail"
  BY <1>0, <1>3 DEF _update_dashboard_stats, PassOr
<1>5. \A v \in DOMAIN _update_network_mode_items(s) : _update_network_mode_items(s)[v] # "fail"
  BY <1>0, <1>3 DEF _update_network_mode_items
<1>6. \A v \in DOMAIN StatusChips(s, "pass") : StatusChips(s, "pass")[v] # "fail"
  <2>1. CertItem(s) # "fail"
    BY <1>0 DEF CertItem, PassOr
  <2> QED
    BY <1>3, <2>1 DEF StatusChips
<1>7. _update_preflight_items(s).key_acl # "fail"
  BY <1>0 DEF _update_preflight_items
<1> DEFINE items == << _update_readiness_items(s), _update_runtime_items(s),
                       _update_dashboard_stats(s, "pass"), _update_network_mode_items(s),
                       StatusChips(s, "pass") >>
<1>8. \A i \in DOMAIN items : \A v \in DOMAIN items[i] : items[i][v] # "fail"
  <2> SUFFICES ASSUME NEW i \in DOMAIN items, NEW v \in DOMAIN items[i]
               PROVE  items[i][v] # "fail"
    OBVIOUS
  <2>1. i = 1 \/ i = 2 \/ i = 3 \/ i = 4 \/ i = 5
    OBVIOUS
  <2> QED
    BY <1>1, <1>2, <1>4, <1>5, <1>6, <2>1
<1> HIDE DEF items
<1>9. ViewLevels(s, "pass") = (UNION {{items[i][v] : v \in DOMAIN items[i]} : i \in DOMAIN items})
                                \cup {_update_preflight_items(s).key_acl}
  BY DEF ViewLevels, items
<1>10. "fail" \notin UNION {{items[i][v] : v \in DOMAIN items[i]} : i \in DOMAIN items}
  BY <1>8, Zenon
<1> QED
  BY <1>7, <1>9, <1>10, Zenon

\* What ViewsAgree says of one snapshot
Agree(s, mine) ==
  LET level == _status_level(s)
  IN  /\ level = "pass" => /\ "fail" \notin ViewLevels(s, level)
                           /\ DiagnosticTitle(s, level, FALSE) = "cleared"
                           /\ connection_state(s, mine) # "No core"
                           /\ PrimaryAction(s, FALSE) \notin
                                 {"config_folder", "generate_ca", "health_tab"}
      /\ level = "fail" => \/ Banner(s, level).level = "fail"
                           \/ s.fields.cert_key_match = "mismatch"

\* The views agree on every snapshot of a machine, with a readiness state of
\* any age and of any machine, or with none.
LEMMA SnapshotsAgree ==
  ASSUME NEW w, NEW c, NEW e, NEW mine,
         ~ c.held \/ \E v : c.state = build_project_state(v, NoOptions)
  PROVE  Agree(_status_snapshot(w, c, e, mine), mine)
<1> DEFINE s == _status_snapshot(w, c, e, mine)
           level == _status_level(s)
<1>1. ASSUME level = "fail"
      PROVE  Banner(s, level).level = "fail" \/ s.fields.cert_key_match = "mismatch"
  <2>1. Exposed(s) \/ ~ s.exists \/ s.fields.cert_key_match = "mismatch"
    <3> HIDE DEF s
    <3> QED
      BY <1>1 DEF _status_level, PassOr
  <2> HIDE DEF s, level
  <2> QED
    BY <2>1 DEF Banner
<1>2. ASSUME level = "pass"
      PROVE  /\ "fail" \notin ViewLevels(s, level)
             /\ DiagnosticTitle(s, level, FALSE) = "cleared"
             /\ connection_state(s, mine) # "No core"
             /\ PrimaryAction(s, FALSE) \notin {"config_folder", "generate_ca", "health_tab"}
  <2>0. /\ ~ s.error /\ ~ Exposed(s) /\ s.exists /\ s.cert /\ s.key
        /\ s.fields.cert_key_match # "mismatch" /\ s.open
        /\ s.fields.key_permission # "broad" /\ Trusted(s)
    BY <1>2, ReadyMeans
  <2>1. "fail" \notin ViewLevels(s, level)
    BY <1>2, ReadyHasNoRed
  <2>2. c.held
    <3> SUFFICES ASSUME ~ c.held PROVE FALSE
      OBVIOUS
    <3>1. s.fields = [NoState EXCEPT !.xray_version = xray_version(w)]
      BY DEF _status_snapshot
    <3>2. s.fields.trust = "unknown"
      BY <3>1 DEF NoState
    <3> QED
      BY <2>0, <3>2 DEF Trusted
  <2>3. PICK v : c.state = build_project_state(v, NoOptions)
    BY <2>2
  <2> DEFINE a == derive_next_action(v, NoOptions)
  <2>4. /\ config_ok(v) /\ v.cert /\ v.key /\ cert_key_match(v) # "mismatch"
        /\ exposure(v, NoOptions) # "exposed" /\ s.fields.next_action = a
    BY <2>0, <2>2, <2>3, HeldSnapshot DEF Exposed, exposure, NoOptions
  <2>5. a \notin {"Repair Config", "Generate Local CA", "Regenerate Local CA",
                  "Fix Exposed Listener"}
    <3> HIDE DEF s
    <3> QED
      BY <2>4, NextActionMeans
  <2> HIDE DEF s, a, level
  <2>6. PrimaryAction(s, FALSE) \notin {"config_folder", "generate_ca", "health_tab"}
    BY <2>4, <2>5 DEF PrimaryAction, primary_action_spec
  <2>7. DiagnosticTitle(s, level, FALSE) = "cleared"
    BY <1>2, <2>0 DEF DiagnosticTitle, Banner
  <2>8. connection_state(s, mine) # "No core"
    BY <2>0 DEF connection_state
  <2> QED
    BY <2>1, <2>6, <2>7, <2>8
<1> QED
  BY <1>1, <1>2 DEF Agree

-----------------------------------------------------------------------------
(* The deciders                                                            *)

\* The only checks of a readiness state that can fail, and when they do
LEMMA FailingCheck ==
  ASSUME NEW w, NEW c \in Checks(w, NoOptions), c.status = "fail"
  PROVE  \/ ~ config_ok(w)
         \/ listener_exposure(w) = "exposed"
         \/ c.id = "cert.key_match" /\ cert_key_match(w) = "mismatch"
         \/ c.id = "cert.expiry"
<1>1. CASE c = load_config(w)
  BY <1>1 DEF load_config, Check, PassOr
<1>2. CASE c = Check("xray.available", PassOr(w.xray # "none", "warn"))
  BY <1>2 DEF Check, PassOr
<1>3. CASE c = listener_state(w)
  <2>1. listener_exposure(w) \in {"closed", "exposed", "loopback", "unknown"}
    BY DEF listener_exposure
  <2> QED
    BY <1>3, <2>1 DEF listener_state, Check
<1>4. CASE c = trust_state(w, NoOptions)
  BY <1>4 DEF trust_state, Check
<1>5. CASE c = Check("telemetry.source", "info")
  BY <1>5 DEF Check
<1>6. CASE c \in profile_checks(w)
  BY <1>6 DEF profile_checks, Check, PassOr
<1>7. CASE c \in cert_state(w)
  <2>1. CASE c \in {Check("cert.exists", PassOr(w.cert, "warn")),
                    Check("key.exists", PassOr(w.key, "warn"))}
    BY <2>1 DEF Check, PassOr
  <2>2. CASE c = Check("cert.helpers", "info")
    BY <2>2 DEF Check
  <2>3. CASE c = Check("cert.key_match", CASE cert_key_match(w) = "match" -> "pass"
                                           [] cert_key_match(w) = "mismatch" -> "fail"
                                           [] OTHER -> "info")
    BY <2>3 DEF Check
  <2>4. CASE c = Check("cert.expiry", CASE cert_expiry(w) = "valid" -> "pass"
                                        [] cert_expiry(w) = "expires_soon" -> "warn"
                                        [] cert_expiry(w) = "expired" -> "fail"
                                        [] OTHER -> "info")
    BY <2>4 DEF Check
  <2>5. CASE c = Check("key.permissions", CASE key_permissions(w) = "restricted" -> "pass"
                                            [] key_permissions(w) = "broad" -> "warn"
                                            [] OTHER -> "info")
    BY <2>5 DEF Check
  <2> QED
    BY <1>7, <2>1, <2>2, <2>3, <2>4, <2>5 DEF cert_state
<1>8. CASE c \in browser_state(w)
  BY <1>8 DEF browser_state, Check, PassOr
<1>9. CASE c \in ja3_checks(w)
  BY <1>9 DEF ja3_checks, Check, PassOr
<1> QED
  BY <1>1, <1>2, <1>3, <1>4, <1>5, <1>6, <1>7, <1>8, <1>9 DEF Checks, NoOptions

\* The ids of the checks that fail on one machine
Failed(w) == {c.id : c \in {d \in Checks(w, NoOptions) : d.status = "fail"}}

LEMMA FailedAre ==
  ASSUME NEW w, config_ok(w), listener_exposure(w) # "exposed"
  PROVE  /\ Failed(w) \subseteq {"cert.key_match", "cert.expiry"}
         /\ cert_key_match(w) # "mismatch" => Failed(w) \subseteq {"cert.expiry"}
<1> SUFFICES ASSUME NEW c \in Checks(w, NoOptions), c.status = "fail"
             PROVE  /\ c.id \in {"cert.key_match", "cert.expiry"}
                    /\ cert_key_match(w) # "mismatch" => c.id = "cert.expiry"
  BY DEF Failed
<1> QED
  BY FailingCheck

\* What the gate can object to on a fresh look at a machine, whatever report
\* an earlier preflight has left
LEMMA FreshBlockers ==
  ASSUME NEW w, NEW v, NEW c, NEW e, NEW mine, c.held, c.state = build_project_state(v, NoOptions),
         config_ok(v), v.xray # "none", listener_exposure(v) # "exposed", NEW stored
  PROVE  LET b == GateBlockers(_status_snapshot(w, c, e, mine), stored)
         IN  /\ b \subseteq {"key_acl", "xray_pin", "preflight_fail"}
             /\ key_permissions(v) # "broad" => b \subseteq {"xray_pin", "preflight_fail"}
<1> DEFINE s == _status_snapshot(w, c, e, mine)
<1>1. /\ s.exists /\ s.xray_local /\ s.fields.listener # "exposed"
      /\ s.fields.key_permission = key_permissions(v)
  BY HeldSnapshot
<1> HIDE DEF s
<1>2. \A b \in GateBlockers(s, stored) :
        /\ b \in {"key_acl", "xray_pin", "preflight_fail"}
        /\ b = "key_acl" => s.fields.key_permission = "broad"
  BY <1>1 DEF GateBlockers
<1> QED
  BY <1>1, <1>2 DEF s

\* The guide's last answer means that nothing is left to repair but the
\* optional browser.
LEMMA GuideRepairs ==
  ASSUME NEW w, derive_next_action(w, NoOptions) = "Run Page Check"
  PROVE  build_repairs(w, NoOptions) \subseteq {"cloakbrowser"}
<1>1. /\ config_ok(w) /\ profiles_present(w) /\ w.synced
      /\ w.cert /\ w.key /\ cert_key_match(w) # "mismatch"
      /\ w.xray # "none" /\ exposure(w, NoOptions) # "exposed"
      /\ key_permissions(w) # "broad"
      /\ trust_status(w, NoOptions) \in {"pass", "not_supported", "skipped"}
      /\ w.playwright
  BY NextActionMeans
<1> QED
  BY <1>1 DEF build_repairs

\* The full preflight of a machine with a valid config, a certificate and a
\* key passes when no line is marked as exposed.
LEMMA PreflightPasses ==
  ASSUME NEW w, w.cert, w.key, validate_config_main(w) = 0, \A l \in w.lines : ~ MarkedExposed(l)
  PROVE  preflight_main(w, GuiPreflight) = 0
<1>1. ~ ValidationRaises(w) /\ ValidationOverall(w) # "fail"
  BY DEF validate_config_main
<1>2. "fail" \notin CertStatuses(w)
  <2>1. check_key_permissions(w) # "fail"
    BY DEF check_key_permissions
  <2>2. "fail" \notin openssl_cert_info(w)
    BY DEF openssl_cert_info
  <2> QED
    BY <2>1, <2>2 DEF CertStatuses, PassOr
<1>3. "fail" \notin RuntimeStatuses(w)
  BY DEF RuntimeStatuses, listener_exposure_check, PassOr
<1>4. "fail" \notin HostStatuses(w) /\ "fail" \notin NetworkStatuses(w)
  BY DEF HostStatuses, NetworkStatuses, PassOr
<1>5. PreflightOverall(w, GuiPreflight) # "fail"
  BY <1>1, <1>2, <1>3, <1>4 DEF PreflightOverall, summarize, GuiPreflight
<1> QED
  BY <1>1, <1>5 DEF preflight_main

\* A full preflight that passes has seen the config parse and no listener
\* that readiness calls exposed.
LEMMA PreflightSaw ==
  ASSUME NEW w, NEW o, ~ o.skip_cert, ~ o.skip_runtime, preflight_main(w, o) = 0
  PROVE  config_ok(w) /\ listener_exposure(w) # "exposed"
<1>1. PreflightOverall(w, o) # "fail"
  BY DEF preflight_main
<1>2. ValidationOverall(w) # "fail" /\ listener_exposure_check(w) # "fail"
  BY <1>1 DEF PreflightOverall, summarize, RuntimeStatuses
<1>3. config_ok(w)
  BY <1>2 DEF ValidationOverall
<1>4. \A l \in w.lines : ~ ExposedLine(l)
  BY <1>2 DEF listener_exposure_check, MarkedExposed, ExposedLine
<1> QED
  BY <1>3, <1>4 DEF listener_exposure

\* Each path state has a range of base scores, and the ranges do not overlap.
LEMMA ScoreRanges ==
  ASSUME NEW p \in ValidPhases
  PROVE  \/ PathStatus(p) = "HEALTHY" /\ BaseScore(p) = 92
         \/ PathStatus(p) = "SUSPECT" /\ BaseScore(p) \in 18 .. 35
         \/ PathStatus(p) = "QUARANTINED" /\ BaseScore(p) \in 8 .. 16
         \/ PathStatus(p) = "CIRCUIT_OPEN" /\ BaseScore(p) \in 0 .. 4
<1>1. p \in {"healthy", "http_status_bad", "first_byte_timeout", "throughput_stall",
             "dns_resolution_failed", "dns_timeout", "tcp_failed", "alpn_mismatch",
             "tls_alert_or_rst", "tls_silent_drop", "tcp_timeout_blackhole", "tcp_refused",
             "probe_unavailable"}
  BY DEF ValidPhases, ProbePhases, run_staged_probe
<1>2. CASE p \in {"healthy", "http_status_bad", "first_byte_timeout", "throughput_stall"}
  BY <1>2 DEF PathStatus, BaseScore
<1>3. CASE p \in {"dns_resolution_failed", "dns_timeout", "tcp_failed", "alpn_mismatch"}
  BY <1>3 DEF PathStatus, BaseScore
<1>4. CASE p \in {"tls_alert_or_rst", "tls_silent_drop", "tcp_timeout_blackhole"}
  BY <1>4 DEF PathStatus, BaseScore
<1>5. CASE p \in {"tcp_refused", "probe_unavailable"}
  BY <1>5 DEF PathStatus, BaseScore
<1> QED
  BY <1>1, <1>2, <1>3, <1>4, <1>5

LEMMA ScoresOrdered == ScoresFollowStates
<1> DEFINE States == {"HEALTHY", "SUSPECT", "QUARANTINED", "CIRCUIT_OPEN"}
           rank == [s \in States |->
                      CASE s = "HEALTHY" -> 3 [] s = "SUSPECT" -> 2 [] s = "QUARANTINED" -> 1
                        [] OTHER -> 0]
<1>1. /\ rank["HEALTHY"] = 3 /\ rank["SUSPECT"] = 2
      /\ rank["QUARANTINED"] = 1 /\ rank["CIRCUIT_OPEN"] = 0
  OBVIOUS
<1> HIDE DEF rank
<1>2. ASSUME NEW p \in ValidPhases, NEW q \in ValidPhases,
             rank[PathStatus(p)] > rank[PathStatus(q)]
      PROVE  BaseScore(p) > BaseScore(q)
  BY <1>1, <1>2, ScoreRanges
<1> QED
  BY <1>2 DEF ScoresFollowStates, rank

-----------------------------------------------------------------------------
(* The profile that is recommended                                         *)

\* Whatever the counter, the place it stands for is one of the pool's.
LEMMA PlaceInPool ==
  ASSUME NEW counter \in Nat, NEW n \in 1 .. 6
  PROVE  pool_index(counter, n) \in 0 .. n - 1
<1> DEFINE S == {m \in {1, 2, 4, 8} : m >= n}
<1>1. S \subseteq Nat /\ 8 \in S
  OBVIOUS
<1>2. \E m \in S : \A k \in S : m <= k
  <2> HIDE DEF S
  <2> QED
    BY <1>1, LeastNatural
<1>3. Min(S) \in S
  BY <1>2 DEF Min
<1>4. nearest_power_of_two(n) \in Nat \ {0}
  BY <1>3 DEF nearest_power_of_two
<1> DEFINE p == nearest_power_of_two(n)
<1>5. counter % p \in Nat
  BY <1>4
<1> QED
  BY <1>5 DEF pool_index

\* One more element makes a finite set larger by one at most.
LEMMA AddOne ==
  ASSUME NEW S, NEW n \in Nat, IsFiniteSet(S), Cardinality(S) <= n, NEW x
  PROVE  IsFiniteSet(S \cup {x}) /\ Cardinality(S \cup {x}) <= n + 1
<1>1. /\ IsFiniteSet(S \cup {x})
      /\ Cardinality(S \cup {x}) = Cardinality(S) \/ Cardinality(S \cup {x}) = Cardinality(S) + 1
  BY FS_AddElement
<1>2. Cardinality(S) \in Nat
  BY FS_CardinalityType
<1> QED
  BY <1>1, <1>2

LEMMA SixProfiles == IsFiniteSet(ProfileIds) /\ Cardinality(ProfileIds) <= 6
<1> DEFINE A1 == {} \cup {"strict"}
           A2 == A1 \cup {"balanced"}
           A3 == A2 \cup {"compatibility"}
           A4 == A3 \cup {"debug"}
           A5 == A4 \cup {"evasion-fragment"}
           A6 == A5 \cup {"evasion-high-stealth"}
<1>0. ProfileIds = A6
  BY DEF ProfileIds, StandardProfiles, EvasionProfiles
<1>1. IsFiniteSet(A1) /\ Cardinality(A1) <= 1
  <2>1. IsFiniteSet({}) /\ Cardinality({}) <= 0
    BY FS_EmptySet
  <2>2. IsFiniteSet(A1) /\ Cardinality(A1) <= 0 + 1
    BY <2>1, AddOne
  <2> HIDE DEF A1
  <2> QED
    BY <2>2
<1> HIDE DEF A1
<1>2. IsFiniteSet(A2) /\ Cardinality(A2) <= 2
  <2>1. IsFiniteSet(A2) /\ Cardinality(A2) <= 1 + 1
    <3>1. 1 \in Nat
      OBVIOUS
    <3> QED
      BY <1>1, <3>1, AddOne, Zenon
  <2> HIDE DEF A2
  <2> QED
    BY <2>1
<1> HIDE DEF A2
<1>3. IsFiniteSet(A3) /\ Cardinality(A3) <= 3
  <2>1. IsFiniteSet(A3) /\ Cardinality(A3) <= 2 + 1
    <3>1. 2 \in Nat
      OBVIOUS
    <3> QED
      BY <1>2, <3>1, AddOne, Zenon
  <2> HIDE DEF A3
  <2> QED
    BY <2>1
<1> HIDE DEF A3
<1>4. IsFiniteSet(A4) /\ Cardinality(A4) <= 4
  <2>1. IsFiniteSet(A4) /\ Cardinality(A4) <= 3 + 1
    <3>1. 3 \in Nat
      OBVIOUS
    <3> QED
      BY <1>3, <3>1, AddOne, Zenon
  <2> HIDE DEF A4
  <2> QED
    BY <2>1
<1> HIDE DEF A4
<1>5. IsFiniteSet(A5) /\ Cardinality(A5) <= 5
  <2>1. IsFiniteSet(A5) /\ Cardinality(A5) <= 4 + 1
    <3>1. 4 \in Nat
      OBVIOUS
    <3> QED
      BY <1>4, <3>1, AddOne, Zenon
  <2> HIDE DEF A5
  <2> QED
    BY <2>1
<1> HIDE DEF A5
<1>6. IsFiniteSet(A6) /\ Cardinality(A6) <= 6
  <2>1. IsFiniteSet(A6) /\ Cardinality(A6) <= 5 + 1
    <3>1. 5 \in Nat
      OBVIOUS
    <3> QED
      BY <1>5, <3>1, AddOne, Zenon
  <2> HIDE DEF A6
  <2> QED
    BY <2>1
<1> HIDE DEF A6
<1> QED
  BY <1>0, <1>6

\* choose_profile answers with a profile of its pool: the scores and the
\* priorities, no two of which are equal, rank the pool without a tie.
LEMMA ChosenFromPool ==
  ASSUME NEW pool, pool \subseteq ProfileIds, pool # {}, NEW labels, NEW intent,
         NEW counter \in Nat
  PROVE  choose_profile(pool, labels, intent, counter) \in pool
<1> DEFINE score == [p \in pool |-> Score(p, labels, intent)]
           place == pool_index(counter, Cardinality(pool))
           R == {e \in pool \X pool : Outranks(e[2], e[1], score)}
<1>1. \A p \in pool : score[p] \in Int
  BY DEF Score
<1>2. \A p \in ProfileIds : ProfilePriority[p] \in Int
  BY DEF ProfilePriority, ProfileIds, StandardProfiles, EvasionProfiles
<1>3. \A p, q \in ProfileIds : p # q => ProfilePriority[p] # ProfilePriority[q]
  BY DEF ProfilePriority, ProfileIds, StandardProfiles, EvasionProfiles
<1> HIDE DEF score
<1>4. \A p, q \in pool : <<p, q>> \in R <=> Outranks(q, p, score)
  OBVIOUS
<1>5. StrictOrder(R, pool)
  <2>1. \A p \in pool : ~ Outranks(p, p, score)
    BY <1>1, <1>2 DEF Outranks
  <2>2. \A p, q \in pool : p # q => Outranks(q, p, score) \/ Outranks(p, q, score)
    BY <1>1, <1>2, <1>3 DEF Outranks
  <2>3. \A p, q, r \in pool :
          Outranks(q, p, score) /\ Outranks(r, q, score) => Outranks(r, p, score)
    BY <1>1, <1>2 DEF Outranks
  <2> HIDE DEF R
  <2> QED
    BY <1>4, <2>1, <2>2, <2>3 DEF StrictOrder
<1> HIDE DEF R
<1>6. IsFiniteSet(pool) /\ Cardinality(pool) \in 1 .. 6
  <2>1. IsFiniteSet(pool) /\ Cardinality(pool) <= Cardinality(ProfileIds)
    BY SixProfiles, FS_Subset
  <2>2. Cardinality(pool) \in Nat /\ Cardinality(pool) # 0 /\ Cardinality(ProfileIds) \in Nat
    BY <2>1, SixProfiles, FS_CardinalityType, FS_EmptySet
  <2> QED
    BY <2>1, <2>2, SixProfiles
<1>7. place \in Nat /\ place < Cardinality(pool)
  <2>1. place \in 0 .. Cardinality(pool) - 1
    BY <1>6, PlaceInPool
  <2> HIDE DEF place
  <2> QED
    BY <1>6, <2>1
<1> HIDE DEF place
<1>8. \E p \in pool : Cardinality(Above(R, pool, p)) = place
  BY <1>5, <1>6, <1>7, PlaceTaken
<1>9. \A p \in pool : {q \in pool : Outranks(q, p, score)} = Above(R, pool, p)
  BY <1>4 DEF Above
<1>10. choose_profile(pool, labels, intent, counter)
         = CHOOSE p \in pool : Cardinality({q \in pool : Outranks(q, p, score)}) = place
  BY DEF choose_profile, score, place
<1> QED
  BY <1>8, <1>9, <1>10

\* A recommendation writes the winner file only when there are no labels, and
\* then the name of a profile whose file exists.
LEMMA RecommendWrites ==
  ASSUME NEW w, NEW labels, NEW intent, NEW counter \in Nat, NEW old
  PROVE  LET new == recommend_profile(w, labels, intent, counter, old).winner
         IN  new = old \/ (labels = {} /\ new \in w.profiles)
<1> DEFINE pool == default_candidates(w)
           chosen == choose_profile(pool, labels, intent, counter)
           r == recommend_profile(w, labels, intent, counter, old)
<1>1. pool \subseteq ProfileIds /\ pool \subseteq w.profiles
  BY DEF default_candidates
<1>2. pool # {} => chosen \in w.profiles
  <2> HIDE DEF pool
  <2> QED
    BY <1>1, ChosenFromPool
<1> HIDE DEF chosen
<1>3. r.winner = old \/ (labels = {} /\ pool # {} /\ r.winner = chosen)
  BY DEF recommend_profile, chosen
<1> QED
  BY <1>2, <1>3

-----------------------------------------------------------------------------
(* The desk: what the handlers of the Tk loop keep                         *)

DeskFields == {"world", "active", "cache", "error", "failure", "winner", "core", "start"}

\* A cache that holds a state holds one that was built of some machine.
CacheGood(c) ==
  /\ DOMAIN c = {"held", "state", "key", "fresh"}
  /\ c.held => \E v : c.state = build_project_state(v, NoOptions)

\* A gated start went by recent facts.
StartGood(s) == s.gated => s.recent

Good(d) ==
  /\ DOMAIN d = DeskFields
  /\ IsMachine(d.world)
  /\ CacheGood(d.cache)
  /\ StartGood(d.start)

\* What a handler makes of a desk when it does not select a profile: a good
\* desk with the same profile, and the winner file only changes for a
\* recommendation without labels.
Moves(d, e) ==
  /\ Good(e)
  /\ e.active = d.active
  /\ e.world.profiles = d.world.profiles
  /\ e.winner = d.winner \/ (report.labels = {} /\ e.winner \in d.world.profiles)

LEMMA FactNames ==
  /\ "config" \in Facts /\ "base" \in Facts /\ "profiles" \in Facts /\ "key" \in Facts
  /\ "lines" \in Facts /\ "loopback" \in Facts
BY DEF Facts, FactValues

LEMMA MachineDomain == ASSUME NEW w, IsMachine(w) PROVE DOMAIN w = Facts
BY DEF IsMachine

\* Changing a fact leaves a machine with the other facts.
LEMMA FactChanged ==
  ASSUME NEW w, IsMachine(w), NEW f, NEW x
  PROVE  /\ IsMachine([w EXCEPT ![f] = x])
         /\ \A g \in Facts \ {f} : [w EXCEPT ![f] = x][g] = w[g]
         /\ f \in Facts => [w EXCEPT ![f] = x][f] = x
<1>1. DOMAIN w = Facts
  BY MachineDomain
<1> QED
  BY <1>1 DEF IsMachine

LEMMA StandardIsPrimary ==
  ASSUME NEW w, IsMachine(w) PROVE Selected(w, "standard") = w
<1>1. DOMAIN w = Facts /\ w = [f \in Facts |-> w[f]]
  BY MachineDomain DEF IsMachine
<1>2. "standard" \notin StandardProfiles
  BY DEF StandardProfiles
<1>3. BaseOf(w, "standard") = w.base
  BY <1>2 DEF BaseOf
<1>4. ConfigOf(w, "standard") = w.config
  BY DEF ConfigOf
<1> QED
  BY <1>1, <1>3, <1>4 DEF Selected

LEMMA SelectedProfiles ==
  ASSUME NEW w, IsMachine(w), NEW p PROVE Selected(w, p).profiles = w.profiles
BY MachineDomain, FactNames DEF Selected

LEMMA UnlistenKeeps ==
  ASSUME NEW w, IsMachine(w) PROVE IsMachine(Unlisten(w)) /\ Unlisten(w).profiles = w.profiles
<1>1. DOMAIN w = Facts
  BY MachineDomain
<1> DEFINE x == w.lines \ {"127.0.0.1"}
<1>2. /\ IsMachine([w EXCEPT !.lines = x, !.loopback = FALSE])
      /\ [w EXCEPT !.lines = x, !.loopback = FALSE].profiles = w.profiles
  BY <1>1, FactNames DEF IsMachine
<1> QED
  BY <1>2 DEF Unlisten

LEMMA MovesItself == ASSUME NEW d, Good(d) PROVE Moves(d, d)
BY DEF Moves

LEMMA MovesOn ==
  ASSUME NEW d, NEW e, NEW f, Moves(d, e), Moves(e, f) PROVE Moves(d, f)
BY DEF Moves

\* A change of one field of the desk that is neither the profile, the winner
\* nor the profiles of the machine
LEMMA ErrorMoves ==
  ASSUME NEW d, Good(d), NEW x
  PROVE  Moves(d, [d EXCEPT !.error = x]) /\ Moves(d, [d EXCEPT !.failure = x])
BY DEF Moves, Good, DeskFields

LEMMA RebuiltMoves ==
  ASSUME NEW d, Good(d)
  PROVE  /\ Moves(d, Rebuilt(d))
         /\ CacheFresh(Rebuilt(d))
<1> DEFINE c == [held |-> TRUE, key |-> d.active, fresh |-> TRUE,
                 state |-> build_project_state(Selected(d.world, d.active), NoOptions)]
<1>1. CacheGood(c)
  BY DEF CacheGood
<1>2. c.held /\ c.key = d.active /\ c.fresh
  OBVIOUS
<1> HIDE DEF c
<1>3. Rebuilt(d) = [d EXCEPT !.error = FALSE, !.cache = c]
  BY DEF Rebuilt, c
<1> QED
  BY <1>1, <1>2, <1>3 DEF Moves, Good, DeskFields, CacheFresh

LEMMA GetMoves ==
  ASSUME NEW d, Good(d), NEW force, NEW t \in get(d, force)
  PROVE  /\ Moves(d, t)
         /\ t = [d EXCEPT !.error = TRUE] \/ CacheFresh(t)
<1>1. t = [d EXCEPT !.error = TRUE] \/ (t = d /\ CacheFresh(d)) \/ t = Rebuilt(d)
  BY DEF get
<1>2. Moves(d, [d EXCEPT !.error = TRUE])
  BY ErrorMoves
<1>3. Moves(d, Rebuilt(d)) /\ CacheFresh(Rebuilt(d))
  BY RebuiltMoves
<1> QED
  BY <1>1, <1>2, <1>3, MovesItself, Zenon

\* The labels the advisor goes by include the report's.
LEMMA AdvisedMoves ==
  ASSUME NEW d, Good(d)
  PROVE  /\ Moves(d, Advised(d))
         /\ \A f \in DeskFields \ {"winner"} : Advised(d)[f] = d[f]
<1>1. CASE ~ d.cache.held
  BY <1>1, MovesItself DEF Advised
<1>2. CASE d.cache.held
  <2> DEFINE n == build_advisor_plan(d.world, report, d.cache.state, d.winner).winner
             labels == AdvisorLabels(report, d.cache.state)
  <2>1. n = d.winner \/ n = recommend_profile(d.world, labels, "balanced", 0, d.winner).winner
    BY DEF build_advisor_plan
  <2>2. labels = {} => report.labels = {}
    BY DEF AdvisorLabels, load_decision_labels
  <2> HIDE DEF n, labels
  <2>3. n = d.winner \/ (labels = {} /\ n \in d.world.profiles)
    BY <2>1, RecommendWrites
  <2>4. Advised(d) = [d EXCEPT !.winner = n]
    BY <1>2 DEF Advised, n
  <2> QED
    BY <2>2, <2>3, <2>4 DEF Moves, Good, DeskFields
<1> QED
  BY <1>1, <1>2

\* A snapshot looks at the machine, the cache, the error and the core.
LEMMA SnapshotOf ==
  ASSUME NEW d, NEW e, e.world = d.world, e.cache = d.cache, e.error = d.error, e.core = d.core
  PROVE  Snapshot(e) = Snapshot(d)
BY DEF Snapshot

LEMMA PaintedMoves ==
  ASSUME NEW d, Good(d)
  PROVE  /\ Moves(d, Painted(d))
         /\ \A f \in DeskFields \ {"failure"} : Painted(d)[f] = d[f]
         /\ Painted(d).failure = d.failure \/ _status_level(Snapshot(d)) = "pass"
<1> DEFINE n == IF _status_level(Snapshot(d)) = "pass" THEN FALSE ELSE d.failure
<1>1. Painted(d) = [d EXCEPT !.failure = n]
  BY DEF Painted
<1>2. n = d.failure \/ _status_level(Snapshot(d)) = "pass"
  OBVIOUS
<1> HIDE DEF n
<1>3. Moves(d, Painted(d))
  <2>1. Moves(d, [d EXCEPT !.failure = n])
    BY ErrorMoves
  <2> QED
    BY <1>1, <2>1
<1>4. /\ Painted(d).failure = n
      /\ \A f \in DeskFields \ {"failure"} : Painted(d)[f] = d[f]
  BY <1>1 DEF Good, DeskFields
<1> QED
  BY <1>2, <1>3, <1>4, Zenon

LEMMA RefreshMoves ==
  ASSUME NEW d, Good(d), NEW e \in refresh_status(d)
  PROVE  Moves(d, e)
<1>1. PICK t \in get(d, FALSE) : e = Painted(Advised(t))
  BY DEF refresh_status
<1>2. Moves(d, t) /\ Good(t)
  BY GetMoves DEF Moves
<1>3. Moves(t, Advised(t)) /\ Good(Advised(t))
  BY <1>2, AdvisedMoves DEF Moves
<1>4. Moves(Advised(t), e)
  BY <1>1, <1>3, PaintedMoves
<1> QED
  BY <1>2, <1>3, <1>4, MovesOn

LEMMA RefreshedMoves ==
  ASSUME NEW d, Good(d), NEW e \in Refreshed(d)
  PROVE  Moves(d, e)
BY RefreshMoves, MovesItself DEF Refreshed

LEMMA DisconnectMoves ==
  ASSUME NEW d, Good(d), NEW e \in disconnect_xray(d)
  PROVE  Moves(d, e)
<1>1. CASE ~ d.core
  BY <1>1, RefreshedMoves DEF disconnect_xray
<1>2. CASE d.core
  <2> DEFINE s == [d EXCEPT !.core = FALSE, !.start = NotStarted, !.world = Unlisten(@)]
  <2>1. StartGood(NotStarted)
    BY DEF StartGood, NotStarted
  <2>2. IsMachine(Unlisten(d.world)) /\ Unlisten(d.world).profiles = d.world.profiles
    BY UnlistenKeeps DEF Good
  <2>3. Moves(d, s)
    BY <2>1, <2>2 DEF Moves, Good, DeskFields
  <2>4. Good(s)
    BY <2>3 DEF Moves
  <2>5. e \in Refreshed(s)
    BY <1>2 DEF disconnect_xray
  <2> HIDE DEF s
  <2> QED
    BY <2>3, <2>4, <2>5, RefreshedMoves, MovesOn
<1> QED
  BY <1>1, <1>2

\* The gate has asked the cache in the same step, so what it goes by is
\* recent: fresh, or known to have failed.
LEMMA GatedStartMoves ==
  ASSUME NEW k, Good(k), NEW e \in GatedStart(k)
  PROVE  Moves(k, e)
<1>1. PICK j \in IF prefs.gate THEN {Advised(t) : t \in get(k, FALSE)} ELSE {k} :
        e \in IF prefs.gate /\ evaluate_startup_gate(Snapshot(j), preflight) = "fail" THEN {j}
              ELSE {j, [j EXCEPT !.core = TRUE,
                              !.start = [gated |-> prefs.gate, live |-> LiveBlockers(j),
                                         recent |-> \/ j.error
                                                    \/ j.cache.fresh /\ j.cache.key = j.active]]}
  BY DEF GatedStart
<1> DEFINE s == [gated |-> prefs.gate, live |-> LiveBlockers(j),
                 recent |-> j.error \/ (j.cache.fresh /\ j.cache.key = j.active)]
<1>2. Moves(k, j) /\ (prefs.gate => j.error \/ (j.cache.fresh /\ j.cache.key = j.active))
  <2>1. CASE ~ prefs.gate
    BY <1>1, <2>1, MovesItself
  <2>2. CASE prefs.gate
    <3>1. PICK t \in get(k, FALSE) : j = Advised(t)
      BY <1>1, <2>2
    <3>2. Moves(k, t) /\ (t = [k EXCEPT !.error = TRUE] \/ CacheFresh(t))
      BY GetMoves
    <3>3. Moves(t, j) /\ j.error = t.error /\ j.cache = t.cache /\ j.active = t.active
      BY <3>1, <3>2, AdvisedMoves DEF Moves, DeskFields
    <3>4. t = [k EXCEPT !.error = TRUE] => t.error
      BY DEF Good, DeskFields
    <3> QED
      BY <3>2, <3>3, <3>4, MovesOn DEF CacheFresh
  <2> QED
    BY <2>1, <2>2
<1>3. Good(j)
  BY <1>2 DEF Moves
<1>4. StartGood(s)
  BY <1>2 DEF StartGood
<1>5. e = j \/ e = [j EXCEPT !.core = TRUE, !.start = s]
  BY <1>1
<1> HIDE DEF s
<1>6. Moves(j, e)
  <2>1. CASE e = j
    BY <1>3, <2>1, MovesItself
  <2>2. CASE e = [j EXCEPT !.core = TRUE, !.start = s]
    BY <1>3, <1>4, <2>2 DEF Moves, Good, DeskFields
  <2> QED
    BY <1>5, <2>1, <2>2
<1> QED
  BY <1>2, <1>6, MovesOn

LEMMA ConnectMoves ==
  ASSUME NEW d, Good(d), NEW e \in connect_xray(d)
  PROVE  Moves(d, e)
<1> DEFINE k == [d EXCEPT !.world.key = TRUE]
<1>1. Moves(d, k)
  <2>1. k = [d EXCEPT !.world = [d.world EXCEPT !.key = TRUE]]
    BY DEF Good, DeskFields
  <2>2. /\ IsMachine([d.world EXCEPT !.key = TRUE])
        /\ [d.world EXCEPT !.key = TRUE].profiles = d.world.profiles
    BY FactChanged, FactNames DEF Good
  <2> HIDE DEF k
  <2> QED
    BY <2>1, <2>2 DEF Moves, Good, DeskFields
<1>2. Good(k)
  BY <1>1 DEF Moves
<1>3. \/ e = d \/ e \in Refreshed(d) \/ e \in refresh_status(d)
      \/ e \in GatedStart(d) \/ e \in GatedStart(k)
  BY DEF connect_xray
<1> HIDE DEF k
<1> QED
  BY <1>1, <1>2, <1>3, RefreshedMoves, RefreshMoves, GatedStartMoves, MovesItself, MovesOn

\* Selecting a profile: another profile, and the rest of a refresh.
LEMMA SelectMoves ==
  ASSUME NEW d, Good(d), NEW p, NEW e \in _select_profile(d, p)
  PROVE  Good(e) /\ Moves([d EXCEPT !.active = p], e) /\ e.active = p
<1> DEFINE s == [d EXCEPT !.active = p]
<1>1. Good(s) /\ s.active = p
  BY DEF Good, DeskFields
<1>2. e \in Refreshed(s)
  BY DEF _select_profile
<1> HIDE DEF s
<1>3. Moves(s, e)
  BY <1>1, <1>2, RefreshedMoves
<1>4. Good(e) /\ e.active = p
  BY <1>1, <1>3 DEF Moves
<1> QED
  BY <1>3, <1>4 DEF s

\* What is recommended may write the winner file, and again only without
\* labels; a report that names a profile is followed.
LEMMA RecommendedWrites ==
  ASSUME NEW d, NEW counter \in Nat
  PROVE  LET r == Recommended(d, counter)
         IN  /\ r.winner = d.winner \/ (report.labels = {} /\ r.winner \in d.world.profiles)
             /\ report.selected # None => r.selected = report.selected
<1> DEFINE labels == IF report.labels # {} THEN report.labels
                     ELSE derive_strategy_labels(report.phase, {})
           intent == IF report.profile # None THEN report.profile
                     ELSE _active_profile_intent(d.active)
           n == recommend_profile(d.world, labels, intent, counter, d.winner)
<1>1. n.winner = d.winner \/ (labels = {} /\ n.winner \in d.world.profiles)
  <2> HIDE DEF labels, intent
  <2> QED
    BY RecommendWrites
<1>2. labels = {} => report.labels = {}
  OBVIOUS
<1>3. Recommended(d, counter) = IF report.selected # None
                                THEN [selected |-> report.selected, winner |-> d.winner] ELSE n
  BY DEF Recommended
<1> HIDE DEF n, labels
<1> QED
  BY <1>1, <1>2, <1>3

\* apply_recommended_profile: nothing is selected, or the recommended profile
\* is, and remembered.
LEMMA AppliedMoves ==
  ASSUME NEW d, Good(d), NEW counter \in Nat, NEW e \in Applied(d, Recommended(d, counter))
  PROVE  \/ Moves(d, e)
         \/ /\ Good(e) /\ e.world.profiles = d.world.profiles
            /\ e.winner = e.active /\ e.winner \in d.world.profiles
            /\ e.active = Recommended(d, counter).selected
<1> DEFINE pick == Recommended(d, counter)
           t == [d EXCEPT !.winner = pick.winner]
<1>1. pick.winner = d.winner \/ (report.labels = {} /\ pick.winner \in d.world.profiles)
  BY RecommendedWrites
<1> HIDE DEF pick
<1>2. Moves(d, t) /\ Good(t) /\ t.world = d.world
  BY <1>1 DEF Moves, Good, DeskFields
<1>3. CASE pick.selected \notin d.world.profiles
  BY <1>2, <1>3 DEF Applied, pick
<1>4. CASE pick.selected \in d.world.profiles
  <2>1. PICK s \in _select_profile(t, pick.selected) : e = [s EXCEPT !.winner = pick.selected]
    BY <1>4 DEF Applied, pick
  <2>2. Good(s) /\ s.active = pick.selected /\ Moves([t EXCEPT !.active = pick.selected], s)
    BY <1>2, <2>1, SelectMoves
  <2>3. [t EXCEPT !.active = pick.selected].world = d.world
    BY <1>2 DEF Good, DeskFields
  <2>4. s.world.profiles = d.world.profiles
    BY <2>2, <2>3 DEF Moves
  <2>5. Good(e) /\ e.world = s.world /\ e.active = s.active /\ e.winner = pick.selected
    BY <2>1, <2>2 DEF Good, DeskFields
  <2> QED
    BY <1>4, <2>2, <2>4, <2>5 DEF pick
<1> QED
  BY <1>3, <1>4

-----------------------------------------------------------------------------
(* The last failure                                                        *)

\* The failure is remembered, or a fresh look at the setup finds it ready.
Kept(d) == d.failure \/ (LooksReady(d) /\ CacheFresh(d))

\* What the header asks besides the error
HeaderAsks(s) ==
  /\ ~ Exposed(s) /\ s.exists /\ s.cert /\ s.key
  /\ s.fields.cert_key_match # "mismatch" /\ s.open
  /\ s.fields.key_permission # "broad" /\ Trusted(s)

LEMMA LooksReadyMeans == ASSUME NEW d PROVE LooksReady(d) <=> HeaderAsks(Snapshot(d))
<1> DEFINE s == Snapshot(d)
           r == [s EXCEPT !.error = FALSE]
<1>1. /\ ~ r.error /\ r.exists = s.exists /\ r.cert = s.cert /\ r.key = s.key /\ r.open = s.open
      /\ r.fields = s.fields
  BY DEF Snapshot, _status_snapshot
<1> HIDE DEF s, r
<1>2. _status_level(r) = "pass" <=> HeaderAsks(s)
  BY <1>1 DEF _status_level, PassOr, Exposed, Trusted, HeaderAsks
<1> QED
  BY <1>2 DEF LooksReady, r, s

LEMMA ReadyLooksReady ==
  ASSUME NEW d, _status_level(Snapshot(d)) = "pass" PROVE LooksReady(d)
BY LooksReadyMeans, ReadyMeans DEF HeaderAsks

\* Whether the setup looks ready does not depend on the error.
LEMMA LooksReadyOf ==
  ASSUME NEW d, NEW e, e.world = d.world, e.cache = d.cache, e.core = d.core
  PROVE  LooksReady(d) <=> LooksReady(e)
<1> DEFINE s == Snapshot(d)
           r == Snapshot(e)
<1>1. /\ r.exists = s.exists /\ r.cert = s.cert /\ r.key = s.key /\ r.open = s.open
      /\ r.fields = s.fields
  BY DEF Snapshot, _status_snapshot
<1> HIDE DEF s, r
<1>2. HeaderAsks(r) <=> HeaderAsks(s)
  BY <1>1 DEF Exposed, Trusted, HeaderAsks
<1> QED
  BY <1>2, LooksReadyMeans DEF r, s

\* A refresh forgets a failure only when it has just seen the setup ready.
LEMMA RefreshKeeps ==
  ASSUME NEW d, Good(d), Kept(d), NEW e \in refresh_status(d)
  PROVE  Kept(e)
<1>1. PICK t \in get(d, FALSE) : e = Painted(Advised(t))
  BY DEF refresh_status
<1> DEFINE a == Advised(t)
<1>2. Good(t) /\ (t = [d EXCEPT !.error = TRUE] \/ (t = d /\ CacheFresh(d)) \/ t = Rebuilt(d))
  <2>1. Moves(d, t)
    BY <1>1, GetMoves
  <2>2. t = [d EXCEPT !.error = TRUE] \/ (t = d /\ CacheFresh(d)) \/ t = Rebuilt(d)
    BY <1>1 DEF get
  <2> QED
    BY <2>1, <2>2, Zenon DEF Moves
<1>3. /\ Good(a) /\ \A f \in DeskFields \ {"winner"} : a[f] = t[f]
  BY <1>2, AdvisedMoves DEF Moves
<1>4. /\ \A f \in DeskFields \ {"failure"} : e[f] = a[f]
      /\ e.failure = a.failure \/ _status_level(Snapshot(a)) = "pass"
  BY <1>1, <1>3, PaintedMoves
<1> HIDE DEF a
<1>5. /\ e.world = t.world /\ e.cache = t.cache /\ e.error = t.error /\ e.core = t.core
      /\ e.active = t.active /\ a.world = t.world /\ a.cache = t.cache /\ a.error = t.error
      /\ a.core = t.core /\ a.failure = t.failure
  BY <1>3, <1>4 DEF DeskFields
<1>6. t.failure = d.failure
  BY <1>2 DEF Rebuilt, Good, DeskFields
<1>7. CASE e.failure = a.failure
  <2>1. CASE d.failure
    BY <1>5, <1>6, <1>7, <2>1 DEF Kept
  <2>2. CASE ~ d.failure
    <3>1. LooksReady(d) /\ CacheFresh(d)
      BY <2>2 DEF Kept
    <3>2. t = [d EXCEPT !.error = TRUE] \/ t = d
      BY <1>1, <3>1 DEF get
    <3>3. t.world = d.world /\ t.cache = d.cache /\ t.core = d.core /\ t.active = d.active
      BY <3>2 DEF Good, DeskFields
    <3>4. LooksReady(e)
      BY <1>5, <3>1, <3>3, LooksReadyOf
    <3>5. CacheFresh(e)
      BY <1>5, <3>1, <3>3 DEF CacheFresh
    <3> QED
      BY <3>4, <3>5 DEF Kept
  <2> QED
    BY <2>1, <2>2
<1>8. CASE _status_level(Snapshot(a)) = "pass"
  <2>1. LooksReady(e)
    BY <1>5, <1>8, ReadyLooksReady, LooksReadyOf
  <2>2. ~ Snapshot(a).error
    BY <1>8, ReadyMeans
  <2>3. ~ t.error
    BY <1>5, <2>2 DEF Snapshot, _status_snapshot
  <2>4. CacheFresh(t)
    BY <1>1, <2>3, GetMoves DEF Good, DeskFields
  <2> QED
    BY <1>5, <2>1, <2>4 DEF Kept, CacheFresh
<1> QED
  BY <1>4, <1>7, <1>8

LEMMA RefreshedKeeps ==
  ASSUME NEW d, Good(d), Kept(d), NEW e \in Refreshed(d)
  PROVE  Kept(e)
BY RefreshKeeps DEF Refreshed

-----------------------------------------------------------------------------
(* The steps of the Tk loop, on the desk                                   *)

\* What a handler may make of a desk when it may select a profile as well
Switches(d, e) ==
  /\ Good(e)
  /\ e.world.profiles = d.world.profiles
  /\ \/ e.winner = d.winner
     \/ e.winner \in d.world.profiles /\ (e.winner = e.active \/ report.labels = {})

LEMMA MovesSwitches == ASSUME NEW d, NEW e, Moves(d, e) PROVE Switches(d, e)
BY DEF Moves, Switches

LEMMA SwitchesOn ==
  ASSUME NEW d, NEW e, NEW f, Switches(d, e), Moves(e, f) PROVE Switches(d, f)
BY DEF Moves, Switches

LEMMA SwitchesAfter ==
  ASSUME NEW d, NEW e, NEW f, Moves(d, e), Switches(e, f) PROVE Switches(d, f)
BY DEF Moves, Switches

LEMMA DeskIs ==
  /\ DOMAIN Desk = DeskFields
  /\ Desk.world = world /\ Desk.active = active /\ Desk.cache = cache /\ Desk.error = error
  /\ Desk.failure = failure /\ Desk.winner = winner /\ Desk.core = core /\ Desk.start = start
BY DEF Desk, DeskFields

\* The steps that leave the profile alone
LEMMA QuietSteps ==
  ASSUME Good(Desk),
         \/ \E label \in CommandLabels, rotate \in BOOLEAN : RunCommand(label, rotate)
         \/ OfferDownload \/ RefreshStatus \/ ShowSmartTips \/ ConnectXray \/ DisconnectXray
         \/ CacheAges \/ CoreListens \/ CoreExits
  PROVE  /\ mode = "gui"
         /\ \E d : Moves(Desk, d) /\ Becomes(d)
         /\ UNCHANGED <<mode, report, last>>
<1>1. ASSUME NEW label, NEW rotate, RunCommand(label, rotate)
      PROVE  /\ mode = "gui" /\ \E d : Moves(Desk, d) /\ Becomes(d)
             /\ UNCHANGED <<mode, report, last>>
  <2>1. PICK d \in IF label = "ja3" THEN {Advised(t) : t \in get(Desk, FALSE)} ELSE {Desk} :
          Becomes(d)
    BY <1>1 DEF RunCommand
  <2>2. Moves(Desk, d)
    <3>1. CASE d = Desk
      BY <3>1, MovesItself
    <3>2. CASE \E t \in get(Desk, FALSE) : d = Advised(t)
      <4>1. PICK t \in get(Desk, FALSE) : d = Advised(t)
        BY <3>2
      <4>2. Moves(Desk, t) /\ Good(t)
        BY GetMoves DEF Moves
      <4> QED
        BY <4>1, <4>2, AdvisedMoves, MovesOn
    <3> QED
      BY <2>1, <3>1, <3>2
  <2> QED
    BY <1>1, <2>1, <2>2 DEF RunCommand, Act
<1>2. CASE OfferDownload
  BY <1>1, <1>2 DEF OfferDownload
<1>3. ASSUME NEW results, Handled(results), mode = "gui", \A e \in results : Moves(Desk, e)
      PROVE  /\ mode = "gui" /\ \E d : Moves(Desk, d) /\ Becomes(d)
             /\ UNCHANGED <<mode, report, last>>
  BY <1>3 DEF Handled
<1>4. CASE RefreshStatus
  BY <1>3, <1>4, RefreshMoves DEF RefreshStatus, Happens
<1>5. CASE ShowSmartTips
  <2>1. \A e \in {Advised(t) : t \in get(Desk, TRUE)} : Moves(Desk, e)
    <3> SUFFICES ASSUME NEW t \in get(Desk, TRUE) PROVE Moves(Desk, Advised(t))
      OBVIOUS
    <3>1. Moves(Desk, t) /\ Good(t)
      BY GetMoves DEF Moves
    <3> QED
      BY <3>1, AdvisedMoves, MovesOn
  <2> QED
    BY <1>3, <1>5, <2>1 DEF ShowSmartTips, Act
<1>6. CASE ConnectXray
  BY <1>3, <1>6, ConnectMoves DEF ConnectXray, Act
<1>7. CASE DisconnectXray
  BY <1>3, <1>7, DisconnectMoves DEF DisconnectXray, Act
<1>8. CASE CacheAges
  <2> DEFINE c == [cache EXCEPT !.fresh = FALSE]
             d == [Desk EXCEPT !.cache.fresh = FALSE]
  <2>1. CacheGood(c)
    BY DeskIs DEF Good, CacheGood
  <2> HIDE DEF c
  <2>2. /\ \A f \in DeskFields \ {"cache"} : d[f] = Desk[f]
        /\ d.cache = c /\ DOMAIN d = DeskFields
    BY DEF Desk, DeskFields, c
  <2> HIDE DEF d
  <2>3. Moves(Desk, d)
    BY <2>1, <2>2 DEF Moves, Good, DeskFields
  <2> QED
    BY <1>3, <1>8, <2>3 DEF CacheAges, Happens, d
<1>9. CASE CoreListens
  <2> DEFINE w == [world EXCEPT !.lines = @ \cup {"127.0.0.1"}, !.loopback = TRUE]
             d == [Desk EXCEPT !.world.lines = @ \cup {"127.0.0.1"}, !.world.loopback = TRUE]
  <2>1. IsMachine(w) /\ w.profiles = world.profiles
    BY DeskIs, MachineDomain, FactNames DEF Good, IsMachine
  <2>2. /\ \A f \in DeskFields \ {"world"} : d[f] = Desk[f]
        /\ d.world = w /\ DOMAIN d = DeskFields
    BY DeskIs, MachineDomain, FactNames DEF Desk, DeskFields, Good
  <2> HIDE DEF w, d
  <2>3. Moves(Desk, d)
    BY <2>1, <2>2, DeskIs DEF Moves, Good, DeskFields
  <2> QED
    BY <1>3, <1>9, <2>3 DEF CoreListens, Happens, d
<1>10. CASE CoreExits
  BY <1>3, <1>10, DisconnectMoves DEF CoreExits, Happens
<1> QED
  BY <1>1, <1>2, <1>4, <1>5, <1>6, <1>7, <1>8, <1>9, <1>10

\* apply_recommended_profile's result, with or without a restart of the core
LEMMA AppliedSwitches ==
  ASSUME NEW d, Good(d), NEW counter \in Nat, NEW e \in Applied(d, Recommended(d, counter))
  PROVE  Switches(d, e)
BY AppliedMoves, MovesSwitches DEF Switches

LEMMA SelectStep ==
  ASSUME Good(Desk), NEW p, SelectProfile(p)
  PROVE  /\ mode = "gui"
         /\ \E d : Switches(Desk, d) /\ Becomes(d)
         /\ UNCHANGED <<mode, report, last, worker>>
<1>1. PICK d \in _select_profile(Desk, p) : Becomes(d)
  BY DEF SelectProfile, Handled
<1>2. Good(d) /\ Moves([Desk EXCEPT !.active = p], d)
  BY SelectMoves
<1>3. /\ [Desk EXCEPT !.active = p].world = Desk.world
      /\ [Desk EXCEPT !.active = p].winner = Desk.winner
  BY DEF Desk
<1>4. Switches(Desk, d)
  BY <1>2, <1>3 DEF Moves, Switches
<1> QED
  BY <1>1, <1>4 DEF SelectProfile, Handled, Act

LEMMA ApplyStep ==
  ASSUME Good(Desk), NEW counter \in Nat, NEW restart, ApplyRecommended(counter, restart)
  PROVE  /\ mode = "gui"
         /\ \E d : Switches(Desk, d) /\ Becomes(d)
         /\ UNCHANGED <<mode, report, last, worker>>
<1> DEFINE applied == Applied(Desk, Recommended(Desk, counter))
           stopped == UNION {disconnect_xray(d) : d \in applied}
           results == IF restart THEN UNION {connect_xray(d) : d \in stopped} ELSE applied
<1>1. \A a \in applied : Switches(Desk, a) /\ Good(a)
  BY AppliedSwitches DEF Switches
<1> HIDE DEF applied
<1>2. \A s \in stopped : Switches(Desk, s) /\ Good(s)
  <2> SUFFICES ASSUME NEW a \in applied, NEW s \in disconnect_xray(a)
               PROVE  Switches(Desk, s) /\ Good(s)
    OBVIOUS
  <2>1. Moves(a, s)
    BY <1>1, DisconnectMoves
  <2> QED
    BY <1>1, <2>1, SwitchesOn DEF Switches
<1> HIDE DEF stopped
<1>3. \A s \in stopped : \A d \in connect_xray(s) : Switches(Desk, d)
  BY <1>2, ConnectMoves, SwitchesOn
<1>4. \A d \in results : Switches(Desk, d)
  BY <1>1, <1>3
<1>5. Handled(results) /\ mode = "gui"
  BY DEF ApplyRecommended, Act, applied, stopped
<1> HIDE DEF results
<1> QED
  BY <1>4, <1>5 DEF Handled

\* What _finish_command comes to: the profile changes only when a decision
\* report is applied by itself, and a failure is kept.
LEMMA FinishStep ==
  ASSUME Good(Desk), _finish_command
  PROVE  /\ mode = "gui" /\ worker.at = "posted" /\ worker' = Idle
         /\ UNCHANGED <<mode, report, last>>
         /\ \E d : /\ Becomes(d) /\ Switches(Desk, d)
                   /\ \/ d.active = active
                      \/ AutoApplies(worker.label, worker.final) /\ d.active = report.selected
                   /\ worker.final # 0 => Kept(d)
<1> DEFINE noted == [Desk EXCEPT !.failure = worker.final # 0]
           raised == CallbackRefreshes(worker.label, worker.final) /\ Raises(Desk)
           called == FinishCallback(noted, worker.label, worker.final)
<1>1. /\ mode = "gui" /\ worker.at = "posted" /\ worker' = Idle
      /\ UNCHANGED <<mode, report, last>>
  BY DEF _finish_command, TakesPost
<1>2. PICK d \in IF raised THEN {noted} ELSE UNION {Refreshed(c) : c \in called} : Becomes(d)
  BY DEF _finish_command
<1>3. Moves(Desk, noted)
  <2> DEFINE x == worker.final # 0
  <2>1. Moves(Desk, [Desk EXCEPT !.failure = x])
    <3> HIDE DEF x
    <3> QED
      BY ErrorMoves
  <2> QED
    BY <2>1
<1>4. Good(noted) /\ noted.active = active /\ noted.failure = (worker.final # 0)
  BY <1>3 DEF Moves, Desk
<1> HIDE DEF noted
<1> DEFINE Ends(e) ==
             /\ Switches(Desk, e)
             /\ \/ e.active = active
                \/ AutoApplies(worker.label, worker.final) /\ e.active = report.selected
             /\ worker.final # 0 => Kept(e)
<1>5. ASSUME NEW e, Moves(noted, e), worker.final # 0 => Kept(e) PROVE Ends(e)
  BY <1>3, <1>4, <1>5, MovesOn, MovesSwitches DEF Moves
<1>6. Ends(noted)
  BY <1>4, <1>5, MovesItself DEF Kept
<1>7. ASSUME NEW c \in called PROVE Ends(c)
  <2>1. CASE c = noted
    BY <1>6, <2>1
  <2>2. CASE c \in refresh_status(noted)
    <3>1. Moves(noted, c)
      BY <1>4, <2>2, RefreshMoves
    <3>2. worker.final # 0 => Kept(c)
      BY <1>4, <2>2, RefreshKeeps DEF Kept
    <3> QED
      BY <1>5, <3>1, <3>2
  <2>3. CASE c \in Applied(noted, Recommended(noted, 0)) /\ AutoApplies(worker.label, worker.final)
    <3>1. worker.final = 0 /\ report.selected # None
      BY <2>3 DEF AutoApplies
    <3>2. Switches(noted, c)
      BY <1>4, <2>3, AppliedSwitches
    <3>3. Switches(Desk, c)
      BY <1>3, <3>2, SwitchesAfter
    <3>4. Recommended(noted, 0).selected = report.selected
      BY <3>1, RecommendedWrites
    <3>5. c.active = active \/ c.active = report.selected
      BY <1>4, <2>3, <3>4, AppliedMoves DEF Moves
    <3> QED
      BY <2>3, <3>1, <3>3, <3>5
  <2> QED
    BY <1>7, <2>1, <2>2, <2>3 DEF FinishCallback
<1>8. ASSUME NEW c, Ends(c), NEW e \in Refreshed(c) PROVE Ends(e)
  <2>1. Moves(c, e)
    BY <1>8, RefreshedMoves DEF Switches
  <2>2. Switches(Desk, e)
    BY <1>8, <2>1, SwitchesOn
  <2>3. e.active = c.active
    BY <2>1 DEF Moves
  <2>4. worker.final # 0 => Kept(e)
    BY <1>8, RefreshedKeeps DEF Switches
  <2> QED
    BY <1>8, <2>2, <2>3, <2>4
<1>9. Ends(d)
  <2> HIDE DEF Ends, called, raised
  <2>1. d = noted \/ \E c \in called : d \in Refreshed(c)
    BY <1>2
  <2> QED
    BY <1>6, <1>7, <1>8, <2>1
<1> QED
  BY <1>1, <1>2, <1>9

-----------------------------------------------------------------------------
(* The invariant                                                           *)

\* A step of a command leaves a machine.
LEMMA WorldsAreMachines ==
  ASSUME NEW w, IsMachine(w), NEW step, NEW v \in Worlds(w, step)
  PROVE  IsMachine(v)
<1>1. DOMAIN w = Facts
  BY MachineDomain
<1>2. CASE step = "profiles"
  <2>1. PICK s \in BOOLEAN :
          v = [w EXCEPT !.profiles = @ \cup StandardProfiles, !.synced = s]
    BY <1>2 DEF Worlds, ProfilesGenerated
  <2> QED
    BY <1>1, <2>1 DEF IsMachine
<1>3. CASE step = "ca"
  BY <1>1, <1>3 DEF Worlds, CaGenerated, IsMachine
<1>4. CASE step = "restrict"
  BY <1>4, FactChanged DEF Worlds
<1>5. CASE step = "wrap"
  BY <1>1, <1>5 DEF Worlds, IsMachine
<1>6. CASE step \in {"unwrap", "download", "playwright", "cloak"}
  <2>1. CASE step = "unwrap"
    BY <2>1, FactChanged DEF Worlds
  <2>2. CASE step = "download"
    BY <2>2, FactChanged DEF Worlds, XrayInstalled
  <2>3. CASE step = "playwright"
    BY <2>3, FactChanged DEF Worlds
  <2>4. CASE step = "cloak"
    BY <2>4, FactChanged DEF Worlds
  <2> QED
    BY <1>6, <2>1, <2>2, <2>3, <2>4
<1>7. CASE step = "ja3"
  BY <1>7, FactChanged DEF Worlds, EvidenceSaved
<1>8. CASE step \notin {"profiles", "ca", "restrict", "wrap", "unwrap", "download", "playwright",
                        "cloak", "ja3"}
  BY <1>8 DEF Worlds
<1> QED
  BY <1>2, <1>3, <1>4, <1>5, <1>6, <1>7, <1>8

\* The worker: a failure in any step is in the code it will post, and a
\* worker that is not idle holds is_busy.
WorkerGood ==
  /\ DOMAIN worker = {"at", "label", "config", "todo", "final", "failed"}
  /\ worker.failed => worker.final # 0
  /\ worker.at # "idle" => busy

\* The shell selects no profile, and its last tool spoke of this machine.
ShellTold ==
  /\ mode # "gui" => active = "standard"
  /\ last.tool = "readiness" =>
       mode = "shell" /\ \E o \in Options : last.says = derive_next_action(world, o)
  /\ last.tool = "preflight" =>
       /\ mode = "shell"
       /\ \E o \in PreflightOptions :
            /\ last.exit = preflight_main(world, o)
            /\ last.says = "full" => ~ o.skip_cert /\ ~ o.skip_runtime

ControlInv == Good(Desk) /\ WorkerGood /\ ShellTold

LEMMA ControlInit == Init => ControlInv
<1> SUFFICES ASSUME Init PROVE ControlInv
  OBVIOUS
<1>1. IsMachine(world)
  <2>1. CASE mode = "shell"
    BY <2>1, ControlAssumption DEF Init
  <2>2. CASE mode = "gui"
    BY <2>2, ControlAssumption DEF Init
  <2>3. CASE mode = "build"
    <3>1. IsMachine(Healthy)
      BY DEF IsMachine, Healthy, Facts, FactValues
    <3> QED
      BY <2>3, <3>1 DEF Init
  <2> QED
    BY <2>1, <2>2, <2>3 DEF Init
<1>2. CacheGood(cache) /\ StartGood(start)
  BY DEF Init, CacheGood, StartGood, NoCache, NotStarted
<1>3. Good(Desk)
  BY <1>1, <1>2, DeskIs DEF Good
<1>4. WorkerGood
  BY DEF Init, WorkerGood, Idle
<1>5. ShellTold
  BY DEF Init, ShellTold, NoTool, None
<1> QED
  BY <1>3, <1>4, <1>5 DEF ControlInv

LEMMA BecomesGood == ASSUME NEW d, Good(d), Becomes(d) PROVE Good(Desk)'
<1>1. Desk' = [world |-> d.world, active |-> d.active, cache |-> d.cache, error |-> d.error,
               failure |-> d.failure, winner |-> d.winner, core |-> d.core, start |-> d.start]
  BY DEF Becomes, Desk
<1> QED
  BY <1>1 DEF Good, DeskFields

\* The GUI does not disturb what the shell was told: nothing.
LEMMA GuiTells ==
  ASSUME ShellTold, mode = "gui", UNCHANGED <<mode, last>> PROVE ShellTold'
BY DEF ShellTold

\* The steps that leave the desk as it is
LEMMA SameDesk ==
  ASSUME Good(Desk), UNCHANGED <<active, cache, start, core, error, failure>>, IsMachine(world')
  PROVE  Good(Desk)'
BY DeskIs DEF Good, Desk, DeskFields

LEMMA RunStepKeeps ==
  ASSUME ControlInv, RunStep PROVE ControlInv'
<1> DEFINE w == Selected(world, worker.config)
<1>0. Good(Desk) /\ WorkerGood /\ ShellTold /\ IsMachine(world)
  BY DeskIs DEF ControlInv, Good
<1>1. PICK code : StepEnds(code)
  BY DEF RunStep, PreflightStep, DecisionStep, ReadinessStep, OtherStep, CutShort
<1>2. IsMachine(world')
  <2>1. CASE PreflightStep(w) \/ DecisionStep(w) \/ ReadinessStep(w) \/ CutShort
    BY <1>0, <2>1 DEF PreflightStep, DecisionStep, ReadinessStep, CutShort
  <2>2. CASE OtherStep(w)
    BY <1>0, <2>2, WorldsAreMachines DEF OtherStep
  <2> QED
    BY <2>1, <2>2 DEF RunStep
<1>3. Good(Desk)'
  BY <1>0, <1>2, SameDesk DEF RunStep
<1>4. WorkerGood'
  <2>1. worker.at = "running" /\ busy' = busy
    BY DEF RunStep, Running
  <2>2. /\ DOMAIN worker' = DOMAIN worker
        /\ worker'.failed = (worker.failed \/ code # 0)
        /\ worker'.final = FirstFailure(worker.final, code)
    BY <1>0, <1>1 DEF StepEnds, WorkerGood
  <2> QED
    BY <1>0, <2>1, <2>2 DEF WorkerGood, FirstFailure
<1>5. ShellTold'
  BY <1>0, GuiTells DEF RunStep, Running
<1> QED
  BY <1>3, <1>4, <1>5 DEF ControlInv

\* The steps of the Tk loop and of the machine
LEMMA GuiKeeps ==
  ASSUME ControlInv, GuiNext \/ MachineNext PROVE ControlInv'
<1>0. Good(Desk) /\ WorkerGood /\ ShellTold /\ IsMachine(world)
  BY DeskIs DEF ControlInv, Good
<1>1. ASSUME mode = "gui", UNCHANGED <<mode, last>>, NEW d, Good(d), Becomes(d), WorkerGood'
      PROVE  ControlInv'
  BY <1>0, <1>1, BecomesGood, GuiTells DEF ControlInv
<1>2. ASSUME NEW label, NEW rotate, RunCommand(label, rotate) PROVE WorkerGood'
  BY <1>2 DEF RunCommand, Started, WorkerGood
<1>3. CASE \/ \E label \in CommandLabels, rotate \in BOOLEAN : RunCommand(label, rotate)
           \/ OfferDownload
  <2>1. WorkerGood'
    BY <1>2, <1>3 DEF OfferDownload
  <2>2. mode = "gui" /\ UNCHANGED <<mode, last>> /\ \E d : Good(d) /\ Becomes(d)
    BY <1>0, <1>3, QuietSteps DEF Moves
  <2> QED
    BY <1>1, <2>1, <2>2
<1>4. CASE \/ RefreshStatus \/ ShowSmartTips \/ ConnectXray \/ DisconnectXray
           \/ CacheAges \/ CoreListens \/ CoreExits
  <2>1. UNCHANGED <<worker, busy>>
    BY <1>4 DEF RefreshStatus, ShowSmartTips, ConnectXray, DisconnectXray, CacheAges, CoreListens,
                CoreExits, Happens, Handled
  <2>2. WorkerGood'
    BY <1>0, <2>1 DEF WorkerGood
  <2>3. mode = "gui" /\ UNCHANGED <<mode, last>> /\ \E d : Good(d) /\ Becomes(d)
    BY <1>0, <1>4, QuietSteps DEF Moves
  <2> QED
    BY <1>1, <2>2, <2>3
<1>5. CASE \E p \in Picks : SelectProfile(p)
  <2>1. PICK p \in Picks : SelectProfile(p)
    BY <1>5
  <2>2. mode = "gui" /\ UNCHANGED <<mode, last>> /\ \E d : Good(d) /\ Becomes(d)
    BY <1>0, <2>1, SelectStep DEF Switches
  <2>3. WorkerGood'
    BY <1>0, <2>1 DEF SelectProfile, Handled, WorkerGood
  <2> QED
    BY <1>1, <2>2, <2>3
<1>6. CASE \E counter \in Counters, restart \in BOOLEAN : ApplyRecommended(counter, restart)
  <2>1. PICK counter \in Counters, restart \in BOOLEAN : ApplyRecommended(counter, restart)
    BY <1>6
  <2>2. mode = "gui" /\ UNCHANGED <<mode, last>> /\ \E d : Good(d) /\ Becomes(d)
    BY <1>0, <2>1, ApplyStep, ControlAssumption DEF Switches
  <2>3. WorkerGood'
    BY <1>0, <2>1 DEF ApplyRecommended, Handled, WorkerGood
  <2> QED
    BY <1>1, <2>2, <2>3
<1>7. CASE _finish_command
  <2>1. mode = "gui" /\ UNCHANGED <<mode, last>> /\ \E d : Good(d) /\ Becomes(d)
    BY <1>0, <1>7, FinishStep DEF Switches
  <2>2. WorkerGood'
    BY <1>7, FinishStep, <1>0 DEF WorkerGood, Idle
  <2> QED
    BY <1>1, <2>1, <2>2
<1>8. CASE \E p \in {"gate", "auto"} : TogglePreference(p)
  <2>1. /\ mode = "gui"
        /\ UNCHANGED <<mode, world, active, cache, error, failure, core, start, winner, busy,
                       worker, last>>
    BY <1>8 DEF TogglePreference, Act
  <2>2. WorkerGood'
    BY <1>0, <2>1 DEF WorkerGood
  <2>3. Good(Desk)'
    BY <1>0, <2>1, SameDesk
  <2> QED
    BY <1>0, <2>1, <2>2, <2>3, GuiTells DEF ControlInv
<1>9. CASE \E f \in Drifts : Drift(f[1], f[2])
  <2>1. PICK fact, value : Drift(fact, value)
    BY <1>9
  <2>2. IsMachine(world')
    BY <1>0, <2>1, FactChanged DEF Drift
  <2>3. Good(Desk)'
    BY <1>0, <2>1, <2>2, SameDesk DEF Drift
  <2>4. WorkerGood' /\ ShellTold'
    BY <1>0, <2>1, GuiTells DEF Drift, WorkerGood
  <2> QED
    BY <2>3, <2>4 DEF ControlInv
<1> QED
  BY <1>3, <1>4, <1>5, <1>6, <1>7, <1>8, <1>9, RunStepKeeps DEF GuiNext, MachineNext

\* The tools of the shell leave the desk and the machine alone.
LEMMA ShellKeeps ==
  ASSUME ControlInv, ShellNext PROVE ControlInv'
<1>0. Good(Desk) /\ WorkerGood /\ ShellTold /\ IsMachine(world)
  BY DeskIs DEF ControlInv, Good
<1>1. /\ UNCHANGED <<mode, world, active, cache, error, failure, core, start, busy, worker>>
  BY DEF ShellNext, ShellReadiness, ShellPreflight, ShellHealth, ShellVerified, ShellDecision,
         ShellApply, ShellAdvise, ShellOnboard, ShellScore, GenerateProfiles, Tool
<1>2. Good(Desk)' /\ WorkerGood'
  BY <1>0, <1>1, SameDesk DEF WorkerGood
<1> SUFFICES ShellTold'
  BY <1>2 DEF ControlInv
<1>3. CASE \E o \in Options : ShellReadiness(o)
  <2>1. PICK o \in Options : ShellReadiness(o)
    BY <1>3
  <2>2. /\ mode = "shell" /\ last'.tool = "readiness"
        /\ last'.says = build_project_state(world, o).next_action
    BY <2>1 DEF ShellReadiness, Tool
  <2>3. build_project_state(world, o).next_action = derive_next_action(world, o)
    BY DEF build_project_state
  <2> QED
    BY <1>0, <1>1, <2>2, <2>3 DEF ShellTold
<1>4. CASE \E o \in PreflightOptions : ShellPreflight(o)
  <2>1. PICK o \in PreflightOptions : ShellPreflight(o)
    BY <1>4
  <2>2. /\ mode = "shell" /\ last'.tool = "preflight" /\ last'.exit = preflight_main(world, o)
        /\ last'.says = IF o.skip_cert \/ o.skip_runtime THEN "partial" ELSE "full"
    BY <2>1 DEF ShellPreflight, Tool
  <2> QED
    BY <1>0, <1>1, <2>2 DEF ShellTold
<1>5. CASE \/ \E skip \in BOOLEAN : ShellHealth(skip)
           \/ \E page \in PageOutcomes : ShellVerified(page)
           \/ \E phase \in Phases \cup {None}, hints \in Hints, profile \in Intents,
                 counter \in Counters : ShellDecision(phase, hints, profile, counter)
           \/ \E hints \in Hints, remember \in BOOLEAN : ShellApply(hints, remember)
           \/ ShellAdvise
           \/ \E persona \in Personas, dry_run \in BOOLEAN : ShellOnboard(persona, dry_run)
           \/ ShellScore
  <2>1. last'.tool \in {"health", "verified", "decision", "apply", "advise", "onboard",
                        "path_scorer"}
    BY <1>5 DEF ShellHealth, ShellVerified, ShellDecision, ShellApply, ShellAdvise, ShellOnboard,
                ShellScore, Tool
  <2> QED
    BY <1>0, <1>1, <2>1 DEF ShellTold
<1>6. CASE \E profile \in StandardProfiles, offset \in Offsets : GenerateProfiles(profile, offset)
  <2>1. last' = last
    BY <1>6 DEF GenerateProfiles
  <2> QED
    BY <1>0, <1>1, <2>1 DEF ShellTold
<1> QED
  BY <1>3, <1>4, <1>5, <1>6 DEF ShellNext

LEMMA ControlStep == ControlInv /\ [Next]_vars => ControlInv'
<1> SUFFICES ASSUME ControlInv, [Next]_vars PROVE ControlInv'
  OBVIOUS
<1>1. CASE Next
  BY <1>1, GuiKeeps, ShellKeeps DEF Next
<1>2. CASE UNCHANGED vars
  BY <1>2 DEF vars, ControlInv, Desk, WorkerGood, ShellTold
<1> QED
  BY <1>1, <1>2

THEOREM ControlInvariant == Spec => []ControlInv
BY ControlInit, ControlStep, PTL DEF Spec

-----------------------------------------------------------------------------
(* The properties                                                          *)

\* GateJudgesRecentFacts: every gated start of connect_xray, whatever ran
\* before it, was judged on readiness that GuiReadinessCache.get had just
\* found fresh and of the same config, or had just failed to rebuild.
THEOREM GateRecent == Spec => []GateJudgesRecentFacts
<1>1. ControlInv => GateJudgesRecentFacts
  BY DeskIs DEF ControlInv, Good, StartGood, GateJudgesRecentFacts
<1> QED
  BY <1>1, ControlInvariant, PTL

\* ViewsAgree: on every machine and with a cached readiness of any age, the
\* views that refresh_status paints from one snapshot do not contradict its
\* header.
THEOREM ViewsConsistent == Spec => []ViewsAgree
<1>1. ControlInv => ViewsAgree
  <2> SUFFICES ASSUME ControlInv PROVE ViewsAgree
    OBVIOUS
  <2>1. Agree(Snapshot(Desk), core)
    <3>1. ~ cache.held \/ \E v : cache.state = build_project_state(v, NoOptions)
      BY DeskIs DEF ControlInv, Good, CacheGood
    <3>2. Snapshot(Desk) = _status_snapshot(world, cache, error, core)
      BY DeskIs DEF Snapshot
    <3> QED
      BY <3>1, <3>2, SnapshotsAgree
  <2>2. Agree(FreshSnapshot, core)
    <3>1. Rebuilt(Desk).cache.state = build_project_state(Selected(world, active), NoOptions)
      BY DEF Rebuilt, Desk
    <3>2. FreshSnapshot = _status_snapshot(world, Rebuilt(Desk).cache, FALSE, core)
      BY DeskIs DEF FreshSnapshot, LiveSnapshot
    <3> QED
      BY <3>1, <3>2, SnapshotsAgree
  <2> QED
    BY <2>1, <2>2 DEF ViewsAgree, Agree
<1> QED
  BY <1>1, ControlInvariant, PTL

\* What a fresh look at the machine is made of
LEMMA FreshLook ==
  LET v == Selected(world, active)
  IN  /\ FreshState = build_project_state(v, NoOptions)
      /\ FailedChecks = Failed(v)
      /\ \E c : /\ c.held /\ c.state = build_project_state(v, NoOptions)
                /\ FreshSnapshot = _status_snapshot(world, c, FALSE, core)
<1> DEFINE v == Selected(world, active)
           c == Rebuilt(Desk).cache
<1>1. c.held /\ c.state = build_project_state(v, NoOptions)
  BY DEF Rebuilt, Desk
<1>2. FreshSnapshot = _status_snapshot(world, c, FALSE, core)
  BY DeskIs DEF FreshSnapshot, LiveSnapshot
<1> HIDE DEF c
<1> QED
  BY <1>1, <1>2 DEF FreshState, FailedChecks, Failed

\* VerdictsAgree: the header, the readiness guide, the connect gate, the
\* preflight and the path scores do not contradict each other on any machine,
\* but for the gaps the property names.
THEOREM DecidersAgree == Spec => []VerdictsAgree
<1>1. ControlInv => VerdictsAgree
  <2> SUFFICES ASSUME ControlInv PROVE VerdictsAgree
    OBVIOUS
  <2> DEFINE v == Selected(world, active)
  <2>1. /\ FreshState = build_project_state(v, NoOptions)
        /\ FailedChecks = Failed(v)
    BY FreshLook
  <2>2. PICK c : /\ c.held /\ c.state = build_project_state(v, NoOptions)
                 /\ FreshSnapshot = _status_snapshot(world, c, FALSE, core)
    BY FreshLook
  <2>3. IsMachine(world)
    BY DeskIs DEF ControlInv, Good
  <2>4. mode = "shell" => v = world
    BY <2>3, StandardIsPrimary DEF ControlInv, ShellTold
  <2> HIDE DEF v
  <2>5. HeaderHonest
    <3> SUFFICES ASSUME _status_level(FreshSnapshot) = "pass"
                 PROVE  FailedChecks \subseteq {"cert.expiry"}
      BY DEF HeaderHonest
    <3> DEFINE s == FreshSnapshot
    <3>1. s.exists /\ ~ Exposed(s) /\ s.fields.cert_key_match # "mismatch"
      <4> HIDE DEF s
      <4> QED
        BY ReadyMeans DEF s
    <3>2. config_ok(v) /\ listener_exposure(v) # "exposed" /\ cert_key_match(v) # "mismatch"
      <4>1. /\ s.exists <=> config_ok(v)
            /\ s.fields.listener = listener_exposure(v)
            /\ s.fields.cert_key_match = cert_key_match(v)
        <5>1. ASSUME NEW e
              PROVE  LET r == _status_snapshot(world, c, e, core)
                     IN  /\ r.exists <=> config_ok(v)
                         /\ r.fields.listener = listener_exposure(v)
                         /\ r.fields.cert_key_match = cert_key_match(v)
          BY <2>2, HeldSnapshot
        <5> QED
          BY <2>2, <5>1
      <4> HIDE DEF s
      <4> QED
        BY <3>1, <4>1 DEF Exposed
    <3> QED
      BY <2>1, <3>2, FailedAre
  <2>6. StartCoreStarts
    <3> SUFFICES ASSUME last.tool = "readiness", last.says = "Start Core"
                 PROVE  /\ GateBlockers(FreshSnapshot, preflight)
                             \subseteq {"key_acl", "xray_pin", "preflight_fail"}
                        /\ validate_config_main(v) = 0 => preflight_main(v, GuiPreflight) = 0
      BY DEF StartCoreStarts, v
    <3>1. PICK o \in Options : "Start Core" = derive_next_action(world, o)
      BY DEF ControlInv, ShellTold
    <3>2. v = world
      BY <2>4 DEF ControlInv, ShellTold
    <3>3. /\ config_ok(v) /\ v.xray # "none" /\ exposure(v, o) = "closed"
          /\ v.cert /\ v.key
      BY <3>1, <3>2, NextActionMeans
    <3>4. listener_exposure(v) = "closed"
      BY <3>3 DEF exposure
    <3>5. v.lines = {}
      BY <3>4 DEF listener_exposure
    <3>6. validate_config_main(v) = 0 => preflight_main(v, GuiPreflight) = 0
      BY <3>3, <3>5, PreflightPasses
    <3>7. GateBlockers(FreshSnapshot, preflight) \subseteq {"key_acl", "xray_pin", "preflight_fail"}
      BY <2>2, <3>3, <3>4, FreshBlockers
    <3> QED
      BY <3>6, <3>7
  <2>7. GuideComplete
    <3> SUFFICES ASSUME FreshState.next_action = "Run Page Check"
                 PROVE  /\ GateBlockers(FreshSnapshot, preflight)
                             \subseteq {"xray_pin", "preflight_fail"}
                        /\ /\ validate_config_main(v) = 0
                           /\ \A l \in v.lines : ~ MarkedExposed(l)
                           => preflight_main(v, GuiPreflight) = 0
                        /\ FailedChecks \subseteq {"cert.expiry"}
                        /\ FreshState.repairs \subseteq {"cloakbrowser"}
      BY DEF GuideComplete, v
    <3>1. "Run Page Check" = derive_next_action(v, NoOptions)
      BY <2>1 DEF build_project_state
    <3>2. /\ config_ok(v) /\ v.xray # "none" /\ exposure(v, NoOptions) # "exposed"
          /\ cert_key_match(v) # "mismatch" /\ key_permissions(v) # "broad"
          /\ v.cert /\ v.key
      BY <3>1, NextActionMeans
    <3>3. listener_exposure(v) # "exposed"
      BY <3>2 DEF exposure, NoOptions
    <3>4. GateBlockers(FreshSnapshot, preflight) \subseteq {"xray_pin", "preflight_fail"}
      BY <2>2, <3>2, <3>3, FreshBlockers
    <3>5. FailedChecks \subseteq {"cert.expiry"}
      BY <2>1, <3>2, <3>3, FailedAre
    <3>6. FreshState.repairs = build_repairs(v, NoOptions)
      BY <2>1 DEF build_project_state
    <3> QED
      BY <3>1, <3>2, <3>4, <3>5, <3>6, GuideRepairs, PreflightPasses
  <2>8. PreflightCovers
    <3> SUFFICES ASSUME last.tool = "preflight", last.says = "full", last.exit = 0
                 PROVE  FailedChecks \subseteq {"cert.key_match", "cert.expiry"}
      BY DEF PreflightCovers
    <3>1. PICK o \in PreflightOptions :
            0 = preflight_main(world, o) /\ ~ o.skip_cert /\ ~ o.skip_runtime
      BY DEF ControlInv, ShellTold
    <3>2. v = world
      BY <2>4 DEF ControlInv, ShellTold
    <3> QED
      BY <2>1, <3>1, <3>2, PreflightSaw, FailedAre
  <2> QED
    BY <2>5, <2>6, <2>7, <2>8, ScoresOrdered DEF VerdictsAgree
<1> QED
  BY <1>1, ControlInvariant, PTL

\* What the worker has posted, only _finish_command takes.
LEMMA PostedIsTaken ==
  ASSUME Next, busy, worker.at = "posted", worker' # worker PROVE _finish_command
<1>1. ~ RunStep
  BY DEF RunStep, Running
<1>2. \A label, rotate : ~ RunCommand(label, rotate)
  BY DEF RunCommand
<1>3. ~ MachineNext /\ ~ ShellNext
  BY DEF MachineNext, CacheAges, Drift, CoreListens, CoreExits, Happens, Handled, ShellNext,
         ShellReadiness, ShellPreflight, ShellHealth, ShellVerified, ShellDecision, ShellApply,
         ShellAdvise, ShellOnboard, ShellScore, GenerateProfiles, Tool
<1>4. /\ ~ RefreshStatus /\ ~ ShowSmartTips /\ ~ ConnectXray /\ ~ DisconnectXray
      /\ \A p : ~ SelectProfile(p) /\ ~ TogglePreference(p)
      /\ \A counter, restart : ~ ApplyRecommended(counter, restart)
  BY DEF RefreshStatus, ShowSmartTips, ConnectXray, DisconnectXray, SelectProfile,
         TogglePreference, ApplyRecommended, Happens, Handled
<1> QED
  BY <1>1, <1>2, <1>3, <1>4 DEF Next, GuiNext, OfferDownload

\* FailureShown: when a command that failed in any of its steps is finished,
\* last_command_failure is set, or a refresh of the same step has found the
\* setup ready.
THEOREM FailureKept == Spec => FailureShown
<1> DEFINE P == worker.at = "posted" /\ worker.failed /\ worker' # worker
                  => failure' \/ LooksReady(Desk)'
<1>1. ControlInv /\ [Next]_vars => [P]_vars
  <2> SUFFICES ASSUME ControlInv, Next, worker.at = "posted", worker.failed, worker' # worker
               PROVE  failure' \/ LooksReady(Desk)'
    OBVIOUS
  <2>1. worker.final # 0 /\ busy /\ Good(Desk)
    BY DEF ControlInv, WorkerGood
  <2>2. _finish_command
    BY <2>1, PostedIsTaken
  <2>3. PICK d : Becomes(d) /\ Kept(d)
    BY <2>1, <2>2, FinishStep
  <2>4. CASE d.failure
    BY <2>3, <2>4 DEF Becomes
  <2>5. CASE LooksReady(d)
    <3>1. Desk'.world = d.world /\ Desk'.cache = d.cache /\ Desk'.core = d.core
      BY <2>3 DEF Becomes, Desk
    <3>2. LooksReady(Desk')
      BY <2>5, <3>1, LooksReadyOf
    <3> QED
      BY <3>2
  <2> QED
    BY <2>3, <2>4, <2>5 DEF Kept
<1> QED
  BY <1>1, ControlInvariant, PTL DEF Spec, FailureShown

\* What a decision report does to the winner file
LEMMA DecisionWrites ==
  ASSUME NEW w, NEW phase, NEW hints, NEW profile, NEW counter \in Nat, NEW old
  PROVE  LET out == decision_report(w, phase, hints, profile, counter, old)
         IN  \/ out.winner = old
             \/ out.winner \in w.profiles /\ out.written /\ out.report.labels = {}
<1> DEFINE labels == derive_strategy_labels(phase, hints)
           n == recommend_profile(w, labels, profile, counter, old).winner
           out == decision_report(w, phase, hints, profile, counter, old)
<1>1. n = old \/ (labels = {} /\ n \in w.profiles)
  <2> HIDE DEF labels
  <2> QED
    BY RecommendWrites
<1>2. /\ out.winner = IF ValidationRaises(w) THEN old ELSE n
      /\ out.written <=> ~ ValidationRaises(w)
      /\ out.report.labels = labels
  BY DEF decision_report
<1> HIDE DEF out, labels, n
<1> QED
  BY <1>1, <1>2 DEF out

LEMMA ApplyWrites ==
  ASSUME NEW w, NEW rep, NEW hints, NEW remember, NEW old
  PROVE  LET n == apply_strategy_profile(w, rep, hints, remember, old).winner
         IN  n = old \/ n \in w.profiles
BY RecommendWrites DEF apply_strategy_profile

\* What the advisor's plan does to it
LEMMA AdviseWrites ==
  ASSUME NEW w, NEW rep, NEW state, NEW old
  PROVE  LET n == build_advisor_plan(w, rep, state, old).winner
         IN  n = old \/ (rep.labels = {} /\ n \in w.profiles)
<1> DEFINE labels == AdvisorLabels(rep, state)
           n == build_advisor_plan(w, rep, state, old).winner
<1>1. n = old \/ n = recommend_profile(w, labels, "balanced", 0, old).winner
  BY DEF build_advisor_plan
<1>2. labels = {} => rep.labels = {}
  BY DEF AdvisorLabels, load_decision_labels
<1> HIDE DEF labels, n
<1>3. n = old \/ (labels = {} /\ n \in w.profiles)
  BY <1>1, RecommendWrites
<1> QED
  BY <1>2, <1>3 DEF n

\* The winner file changes for a reason in every step.
LEMMA WinnerHasCause ==
  ASSUME ControlInv, Next, winner' # winner
  PROVE  /\ winner' \in world.profiles
         /\ winner' = active' \/ report'.labels = {} \/ last'.tool = "apply"
<1>0. Good(Desk) /\ IsMachine(world)
  BY DeskIs DEF ControlInv, Good
<1>1. ASSUME NEW d, Switches(Desk, d), Becomes(d), UNCHANGED report
      PROVE  winner' \in world.profiles /\ (winner' = active' \/ report'.labels = {})
  BY <1>1, DeskIs DEF Switches, Becomes
<1>2. CASE \/ \E label \in CommandLabels, rotate \in BOOLEAN : RunCommand(label, rotate)
           \/ OfferDownload \/ RefreshStatus \/ ShowSmartTips \/ ConnectXray \/ DisconnectXray
           \/ CacheAges \/ CoreListens \/ CoreExits
  <2>1. (\E d : Moves(Desk, d) /\ Becomes(d)) /\ UNCHANGED report
    BY <1>0, <1>2, QuietSteps
  <2> QED
    BY <1>1, <2>1, MovesSwitches
<1>3. CASE \E p \in Picks : SelectProfile(p)
  BY <1>0, <1>1, <1>3, SelectStep
<1>4. CASE \E counter \in Counters, restart \in BOOLEAN : ApplyRecommended(counter, restart)
  BY <1>0, <1>1, <1>4, ApplyStep, ControlAssumption
<1>5. CASE _finish_command
  BY <1>0, <1>1, <1>5, FinishStep
<1>6. CASE RunStep
  <2> DEFINE w == Selected(world, worker.config)
  <2>1. DecisionStep(w) \/ ReadinessStep(w)
    BY <1>6 DEF RunStep, PreflightStep, OtherStep, CutShort
  <2>2. w.profiles = world.profiles
    BY <1>0, SelectedProfiles
  <2> HIDE DEF w
  <2>3. CASE DecisionStep(w)
    <3>1. PICK phase \in Phases, counter \in Counters :
            LET out == decision_report(w, phase, {}, _active_profile_intent(worker.config),
                                       counter, winner)
            IN  report' = (IF out.written THEN out.report ELSE report) /\ winner' = out.winner
      BY <2>3 DEF DecisionStep
    <3>2. counter \in Nat
      BY ControlAssumption
    <3> QED
      BY <2>2, <3>1, <3>2, DecisionWrites
  <2>4. CASE ReadinessStep(w)
    <3>1. /\ winner' = build_advisor_plan(w, report, build_project_state(w, NoOptions),
                                          winner).winner
          /\ UNCHANGED report
      BY <2>4 DEF ReadinessStep
    <3> QED
      BY <2>2, <3>1, AdviseWrites
  <2> QED
    BY <2>1, <2>3, <2>4
<1>7. CASE ShellNext
  <2>1. CASE \E phase \in Phases \cup {None}, hints \in Hints, profile \in Intents,
                counter \in Counters : ShellDecision(phase, hints, profile, counter)
    <3>1. PICK phase \in Phases \cup {None}, hints \in Hints, profile \in Intents,
               counter \in Counters : ShellDecision(phase, hints, profile, counter)
      BY <2>1
    <3>2. counter \in Nat
      BY ControlAssumption
    <3> DEFINE out == decision_report(world, phase, hints, profile, counter, winner)
    <3>3. winner' = out.winner /\ report' = IF out.written THEN out.report ELSE report
      BY <3>1 DEF ShellDecision
    <3>4. \/ out.winner = winner
          \/ out.winner \in world.profiles /\ out.written /\ out.report.labels = {}
      BY <3>2, DecisionWrites
    <3> HIDE DEF out
    <3> QED
      BY <3>3, <3>4
  <2>2. CASE \E hints \in Hints, remember \in BOOLEAN : ShellApply(hints, remember)
    <3>1. PICK hints, remember : ShellApply(hints, remember)
      BY <2>2
    <3>2. /\ winner' = apply_strategy_profile(world, report, hints, remember, winner).winner
          /\ last'.tool = "apply"
      BY <3>1 DEF ShellApply, Tool
    <3> QED
      BY <3>2, ApplyWrites
  <2>3. CASE \/ ShellAdvise
             \/ \E persona \in Personas, dry_run \in BOOLEAN : ShellOnboard(persona, dry_run)
             \/ \E o \in Options : ShellReadiness(o)
    <3>1. PICK state : /\ \/ winner' = winner
                          \/ winner' = build_advisor_plan(world, report, state, winner).winner
                       /\ UNCHANGED report
      BY <2>3 DEF ShellAdvise, ShellOnboard, ShellReadiness
    <3> QED
      BY <3>1, AdviseWrites
  <2>4. CASE \/ \E o \in PreflightOptions : ShellPreflight(o)
             \/ \E skip \in BOOLEAN : ShellHealth(skip)
             \/ \E page \in PageOutcomes : ShellVerified(page)
             \/ ShellScore
             \/ \E profile \in StandardProfiles, offset \in Offsets :
                  GenerateProfiles(profile, offset)
    BY <2>4 DEF ShellPreflight, ShellHealth, ShellVerified, ShellScore, GenerateProfiles
  <2> QED
    BY <1>7, <2>1, <2>2, <2>3, <2>4 DEF ShellNext
<1>8. CASE \/ \E p \in {"gate", "auto"} : TogglePreference(p)
           \/ \E f \in Drifts : Drift(f[1], f[2])
  BY <1>8 DEF TogglePreference, Drift
<1> QED
  BY <1>2, <1>3, <1>4, <1>5, <1>6, <1>7, <1>8 DEF Next, GuiNext, MachineNext

\* ProfileHasCause: the winner file names an existing profile that was applied
\* or recommended without failure labels, and _after_decision_report switches
\* the profile only when the user has asked for that, after a report that
\* succeeded and found a failure, and to the profile it selected.
THEOREM ProfileChangesJust == Spec => ProfileHasCause
<1> DEFINE P == /\ winner' # winner
                     => /\ winner' \in world.profiles
                        /\ winner' = active' \/ report'.labels = {} \/ last'.tool = "apply"
                /\ worker.at = "posted" /\ active' # active /\ worker' # worker
                     => /\ prefs.auto /\ ~ worker.failed
                        /\ report.phase # "healthy" /\ active' = report.selected
<1>1. ControlInv /\ [Next]_vars => [P]_vars
  <2> SUFFICES ASSUME ControlInv, Next PROVE P
    OBVIOUS
  <2>1. ASSUME worker.at = "posted", active' # active, worker' # worker
        PROVE  /\ prefs.auto /\ ~ worker.failed
               /\ report.phase # "healthy" /\ active' = report.selected
    <3>1. busy /\ Good(Desk) /\ (worker.failed => worker.final # 0)
      BY <2>1 DEF ControlInv, WorkerGood
    <3>2. _finish_command
      BY <2>1, <3>1, PostedIsTaken
    <3>3. PICK d : /\ Becomes(d)
                   /\ \/ d.active = active
                      \/ AutoApplies(worker.label, worker.final) /\ d.active = report.selected
      BY <3>1, <3>2, FinishStep
    <3>4. AutoApplies(worker.label, worker.final) /\ active' = report.selected
      BY <2>1, <3>3 DEF Becomes
    <3> QED
      BY <3>1, <3>4 DEF AutoApplies
  <2> QED
    BY <2>1, WinnerHasCause
<1> QED
  BY <1>1, ControlInvariant, PTL DEF Spec, ProfileHasCause

-----------------------------------------------------------------------------
(* What generate_profiles.py does to the rules                           *)

IsRule(r) == r = Rule(r.tag, r.out, r.matches)

\* A sequence of rules, over whatever set it is one.
LEMMA RulesAre ==
  ASSUME NEW S, NEW s \in Seq(S), \A i \in DOMAIN s : IsRule(s[i])
  PROVE  IsRules(s)
<1>1. s \in Seq({s[i] : i \in DOMAIN s})
  <2>1. \A i \in 1 .. Len(s) : s[i] \in {s[j] : j \in DOMAIN s}
    OBVIOUS
  <2>2. s = [i \in 1 .. Len(s) |-> s[i]] /\ Len(s) \in Nat
    OBVIOUS
  <2> HIDE DEF IsRule
  <2> QED
    BY <2>1, <2>2
<1> QED
  BY <1>1 DEF IsRules, IsRule, Range

\* What SelectInSeq returns: the least index in I, or 0.
LEMMA LeastIndex ==
  ASSUME NEW n \in Nat, NEW I, I \subseteq 1 .. n, NEW k, k = IF I # {} THEN Min(I) ELSE 0
  PROVE  /\ k \in 0 .. n
         /\ k = 0 => I = {}
         /\ k # 0 => k \in I /\ \A i \in I : k <= i
<1>1. CASE I = {}
  BY <1>1
<1>2. CASE I # {}
  <2>1. I \subseteq Nat
    OBVIOUS
  <2>2. PICK i \in I : \A j \in I : i <= j
    BY <1>2, <2>1, LeastNatural
  <2>3. Min(I) \in I /\ \A j \in I : Min(I) <= j
    BY <2>2 DEF Min
  <2>4. k \in I /\ \A j \in I : k <= j
    BY <1>2, <2>3
  <2> QED
    BY <1>2, <2>4
<1> QED
  BY <1>1, <1>2

\* t is s with e at place k.
InsertedAt(s, k, e, t) ==
  /\ Len(t) = Len(s) + 1
  /\ t[k] = e
  /\ \A j \in 1 .. Len(s) + 1 :
       /\ j < k => t[j] = s[j]
       /\ j > k => t[j] = s[j - 1]

\* InsertAt keeps the rules and their order, and puts the new one between them.
LEMMA Inserts ==
  ASSUME NEW S, NEW s \in Seq(S), NEW e \in S, NEW k \in 1 .. Len(s) + 1,
         NEW t, t = InsertAt(s, k, e)
  PROVE  t \in Seq(S) /\ InsertedAt(s, k, e, t)
<1> DEFINE a == SubSeq(s, 1, k - 1)
           b == SubSeq(s, k, Len(s))
<1>1. a \in Seq(S) /\ Len(a) = k - 1 /\ \A j \in 1 .. k - 1 : a[j] = s[j]
  OBVIOUS
<1>2. b \in Seq(S) /\ Len(b) = Len(s) + 1 - k /\ \A j \in 1 .. Len(s) + 1 - k : b[j] = s[j + k - 1]
  OBVIOUS
<1>3. t = a \o <<e>> \o b
  BY DEF InsertAt
<1> HIDE DEF a, b
<1>4. /\ t \in Seq(S) /\ Len(t) = Len(s) + 1 /\ t[k] = e
      /\ \A j \in 1 .. k - 1 : t[j] = a[j]
      /\ \A j \in k + 1 .. Len(s) + 1 : t[j] = b[j - k]
  BY <1>1, <1>2, <1>3
<1>5. \A j \in k + 1 .. Len(s) + 1 : b[j - k] = s[j - 1]
  BY <1>2
<1>6. ASSUME NEW j \in 1 .. Len(s) + 1, j < k PROVE t[j] = s[j]
  BY <1>1, <1>4, <1>6
<1>7. ASSUME NEW j \in 1 .. Len(s) + 1, j > k PROVE t[j] = s[j - 1]
  BY <1>4, <1>5, <1>7
<1> QED
  BY <1>4, <1>6, <1>7 DEF InsertedAt

\* t has the entries of s at other places, and e once more if that is new.
Extends(s, e, t) ==
  /\ \A j \in DOMAIN t : t[j] = e \/ \E i \in DOMAIN s : t[j] = s[i]
  /\ \A i \in DOMAIN s : \E j \in DOMAIN t : t[j] = s[i]
  /\ \A j, k \in DOMAIN t : j # k =>
       \/ \E h, i \in DOMAIN s : h # i /\ t[j] = s[h] /\ t[k] = s[i]
       \/ (\A i \in DOMAIN s : s[i].tag # e.tag) /\
          \E i \in DOMAIN s : (t[j] = e /\ t[k] = s[i]) \/ (t[k] = e /\ t[j] = s[i])

\* insert_udp_policy: the rules stay, and one with the policy's tag is there.
LEMMA UdpInserted ==
  ASSUME NEW rules, IsRules(rules), NEW e, IsRule(e)
  PROVE  /\ IsRules(insert_udp_policy(rules, e))
         /\ Extends(rules, e, insert_udp_policy(rules, e))
         /\ \E j \in DOMAIN insert_udp_policy(rules, e) : insert_udp_policy(rules, e)[j].tag = e.tag
<1> DEFINE t == insert_udp_policy(rules, e)
           S == Range(rules) \cup {e}
<1>0. rules \in Seq(S) /\ e \in S /\ \A i \in DOMAIN rules : IsRule(rules[i])
  <2>1. rules \in Seq(Range(rules)) /\ Range(rules) \subseteq S
    BY DEF IsRules
  <2> HIDE DEF S
  <2>2. rules \in Seq(S)
    BY <2>1
  <2> QED
    BY <2>2 DEF S, IsRules, IsRule
<1> HIDE DEF S
<1>1. CASE \E i \in DOMAIN rules : rules[i].tag = e.tag
  <2>1. t = rules
    BY <1>1 DEF insert_udp_policy
  <2> QED
    BY <1>1, <2>1, Zenon DEF Extends
<1>2. CASE \A i \in DOMAIN rules : rules[i].tag # e.tag
  <2> DEFINE I == {i \in 1 .. Len(rules) : rules[i].tag = "r040_direct_private_regional"}
             k == IF I # {} THEN Min(I) ELSE 0
  <2>1. t = InsertAt(rules, k + 1, e)
    BY <1>2 DEF insert_udp_policy, SelectInSeq
  <2>2. k \in 0 .. Len(rules)
    <3>1. Len(rules) \in Nat /\ I \subseteq 1 .. Len(rules)
      BY <1>0
    <3> HIDE DEF I
    <3> QED
      BY <3>1, LeastIndex
  <2> HIDE DEF k, t
  <2>3. k + 1 \in 1 .. Len(rules) + 1
    BY <2>2
  <2>4. /\ t \in Seq(S) /\ Len(t) = Len(rules) + 1 /\ t[k + 1] = e
        /\ \A j \in 1 .. Len(rules) + 1 :
              /\ j < k + 1 => t[j] = rules[j]
              /\ j > k + 1 => t[j] = rules[j - 1]
    <3> DEFINE at == k + 1
    <3> HIDE DEF at, I
    <3>1. t = InsertAt(rules, at, e) /\ at \in 1 .. Len(rules) + 1
      BY <2>1, <2>3 DEF at
    <3>2. rules \in Seq(S) /\ e \in S
      BY <1>0
    <3>3. t \in Seq(S) /\ InsertedAt(rules, at, e, t)
      BY <3>1, <3>2, Inserts
    <3> QED
      BY <3>3 DEF at, InsertedAt
  <2>5. DOMAIN t = 1 .. Len(rules) + 1 /\ DOMAIN rules = 1 .. Len(rules)
    BY <1>0, <2>4
  <2> DEFINE old(j) == IF j < k + 1 THEN j ELSE j - 1
  <2>6. ASSUME NEW j \in DOMAIN t, j # k + 1
        PROVE  old(j) \in DOMAIN rules /\ t[j] = rules[old(j)]
    BY <2>2, <2>4, <2>5, <2>6
  <2>7. \A j \in DOMAIN t : t[j] = e \/ \E i \in DOMAIN rules : t[j] = rules[i]
    BY <2>4, <2>6
  <2>8. ASSUME NEW i \in DOMAIN rules PROVE \E j \in DOMAIN t : t[j] = rules[i]
    <3>1. CASE i < k + 1
      BY <2>2, <2>4, <2>5, <3>1
    <3>2. CASE i >= k + 1
      <4>1. i + 1 \in DOMAIN t /\ t[i + 1] = rules[i]
        BY <2>2, <2>4, <2>5, <3>2
      <4> QED
        BY <4>1
    <3> QED
      BY <2>2, <2>5, <3>1, <3>2
  <2>9. ASSUME NEW j \in DOMAIN t, NEW m \in DOMAIN t, j # m
        PROVE  \/ \E h, i \in DOMAIN rules : h # i /\ t[j] = rules[h] /\ t[m] = rules[i]
               \/ \E i \in DOMAIN rules :
                    (t[j] = e /\ t[m] = rules[i]) \/ (t[m] = e /\ t[j] = rules[i])
    <3>1. CASE j = k + 1
      BY <2>4, <2>6, <2>9, <3>1
    <3>2. CASE m = k + 1
      BY <2>4, <2>6, <2>9, <3>2
    <3>3. CASE j # k + 1 /\ m # k + 1
      <4>1. old(j) # old(m)
        BY <2>2, <2>5, <2>9, <3>3
      <4> HIDE DEF old
      <4> QED
        BY <2>6, <3>3, <4>1
    <3> QED
      BY <3>1, <3>2, <3>3
  <2>10. Extends(rules, e, t)
    BY <1>2, <2>7, <2>8, <2>9 DEF Extends
  <2>11. IsRules(t)
    BY <1>0, <2>4, <2>7, RulesAre
  <2> QED
    BY <2>2, <2>4, <2>5, <2>10, <2>11 DEF t
<1> QED
  BY <1>1, <1>2

\* set_global_catchall: the first rule that has one of the two tags, if there
\* is one, gets the outbound and its tag.
LEMMA CatchallSet ==
  ASSUME NEW rules, IsRules(rules), NEW out
  PROVE  LET t == set_global_catchall(rules, out)
         IN  /\ IsRules(t) /\ DOMAIN t = DOMAIN rules
             /\ \/ t = rules /\ \A i \in DOMAIN rules : rules[i].tag \notin CatchallTags
                \/ \E m \in DOMAIN rules :
                     /\ rules[m].tag \in CatchallTags
                     /\ t[m] = Rule(CatchallTag(out), out, rules[m].matches)
                     /\ \A i \in DOMAIN rules : i # m => t[i] = rules[i]
<1> DEFINE t == set_global_catchall(rules, out)
           I == {i \in 1 .. Len(rules) : rules[i].tag \in CatchallTags}
           k == IF I # {} THEN Min(I) ELSE 0
           R == Range(rules)
<1>0. rules \in Seq(R) /\ \A i \in DOMAIN rules : IsRule(rules[i])
  BY DEF IsRules, IsRule
<1> HIDE DEF R
<1>1. t = IF k = 0 THEN rules ELSE [rules EXCEPT ![k].out = out, ![k].tag = CatchallTag(out)]
  BY DEF set_global_catchall, SelectInSeq
<1>2. /\ k \in 0 .. Len(rules)
      /\ k = 0 => I = {}
      /\ k # 0 => k \in I /\ \A i \in I : k <= i
  <2>1. Len(rules) \in Nat /\ I \subseteq 1 .. Len(rules)
    BY <1>0
  <2> HIDE DEF I
  <2> QED
    BY <2>1, LeastIndex
<1> HIDE DEF k, t
<1>3. CASE k = 0
  BY <1>0, <1>1, <1>2, <1>3 DEF t
<1>4. CASE k # 0
  <2>1. k \in DOMAIN rules /\ rules[k].tag \in CatchallTags /\ IsRule(rules[k])
    BY <1>0, <1>2, <1>4
  <2>2. /\ DOMAIN t = DOMAIN rules
        /\ \A i \in DOMAIN rules : i # k => t[i] = rules[i]
        /\ t[k] = [[rules[k] EXCEPT !.out = out] EXCEPT !.tag = CatchallTag(out)]
    BY <1>0, <1>1, <1>4, <2>1
  <2>3. t[k] = Rule(CatchallTag(out), out, rules[k].matches)
    BY <2>1, <2>2 DEF Rule, IsRule
  <2>4. IsRule(t[k])
    BY <2>3 DEF Rule, IsRule
  <2>5. IsRules(t)
    <3> DEFINE T == R \cup {t[k]}
    <3>1. \A i \in 1 .. Len(rules) : t[i] \in T
      BY <1>0, <2>2
    <3>2. t = [i \in 1 .. Len(rules) |-> t[i]]
      <4>1. rules = [i \in 1 .. Len(rules) |-> rules[i]]
        BY <1>0
      <4>2. \A v : [rules EXCEPT ![k] = v] =
                    [i \in 1 .. Len(rules) |-> IF i = k THEN v ELSE rules[i]]
        BY <2>1, <4>1, Zenon
      <4>3. \E v : t = [rules EXCEPT ![k] = v]
        BY <1>1, <1>4
      <4> QED
        BY <2>1, <4>2, <4>3
    <3> HIDE DEF T
    <3>3. t \in Seq(T)
      BY <1>0, <3>1, <3>2
    <3>4. \A i \in DOMAIN t : IsRule(t[i])
      BY <1>0, <2>2, <2>4
    <3> QED
      BY <3>3, <3>4, RulesAre
  <2> QED
    BY <2>1, <2>2, <2>3, <2>5 DEF t
<1> QED
  BY <1>3, <1>4

-----------------------------------------------------------------------------
(* What validate_config.py asks, and what the remarks say                  *)

\* What validate_config.py fails a config for, of all it looks at.
LEMMA Accepted ==
  ASSUME NEW c
  PROVE  "fail" \notin validate_config(c) <=>
           /\ DOMAIN c.ports = InboundTags
           /\ c.listen \in {"loopback", "unset"}
           /\ TagsDistinct(c.rules)
           /\ REDIRECT_TO_INBOUND \subseteq DOMAIN c.ports /\ c.dns
           /\ \A t \in REDIRECT_TO_INBOUND \cap DOMAIN c.ports : c.redirects[t] = c.ports[t]
           /\ infer_profile(c) = "strict" => Catchall(c, "block")
<1>1. "fail" \in PortStatuses(c) <=> DOMAIN c.ports # InboundTags
  BY DEF PortStatuses, Asked
<1>2. inbound_listen_status(c) = "fail" <=> c.listen \notin {"loopback", "unset"}
  BY DEF inbound_listen_status
<1>3. "fail" \in TagStatuses(c) <=> ~ TagsDistinct(c.rules)
  <2>1. \A ok : Asked(ok, "warn") # "fail"
    BY DEF Asked
  <2>2. Asked(TagsDistinct(c.rules), "fail") = "fail" <=> ~ TagsDistinct(c.rules)
    BY DEF Asked
  <2> QED
    BY <2>1, <2>2, Zenon DEF TagStatuses
<1>4. "fail" \in ReferenceStatuses(c) <=> ~ (REDIRECT_TO_INBOUND \subseteq DOMAIN c.ports /\ c.dns)
  BY DEF ReferenceStatuses, Asked
<1>5. RedirectStatus(c) = "fail" <=>
        ~ \A t \in REDIRECT_TO_INBOUND \cap DOMAIN c.ports : c.redirects[t] = c.ports[t]
  BY Zenon DEF RedirectStatus, Asked
<1>6. "fail" \in PolicyStatuses(c) <=> infer_profile(c) = "strict" /\ ~ Catchall(c, "block")
  BY DEF PolicyStatuses, Asked
<1> QED
  BY <1>1, <1>2, <1>3, <1>4, <1>5, <1>6 DEF validate_config

\* The remarks of a profile name it.
LEMMA Inferred ==
  ASSUME NEW c, NEW p \in StandardProfiles, c.remarks = {p}
  PROVE  infer_profile(c) = p
<1> DEFINE order == <<"strict", "balanced", "compatibility", "debug">>
           I == {i \in 1 .. Len(order) : order[i] \in c.remarks}
           k == IF I # {} THEN Min(I) ELSE 0
<1>1. infer_profile(c) = IF k = 0 THEN "base" ELSE order[k]
  BY DEF infer_profile, SelectInSeq
<1>2. \E n \in 1 .. 4 : order[n] = p /\ I = {n}
  <2>1. \A i \in 1 .. 4 : order[i] \in c.remarks <=> order[i] = p
    OBVIOUS
  <2>2. I = {i \in 1 .. 4 : order[i] = p}
    BY <2>1
  <2> QED
    BY <2>2 DEF StandardProfiles
<1> HIDE DEF I, order
<1>3. PICK n \in 1 .. 4 : order[n] = p /\ I = {n}
  BY <1>2
<1>4. Min({n}) = n
  BY DEF Min
<1>5. k = n
  BY <1>3, <1>4
<1> QED
  BY <1>1, <1>3, <1>5

\* The rule of one profile that has the tag of another's is that other's.
LEMMA UdpRules ==
  ASSUME NEW p \in StandardProfiles
  PROVE  /\ IsRule(UdpRule(p)) /\ UdpRule(p).matches = "udp443"
         /\ UdpRule(p).out = PROFILE_POLICIES[p].udp443
         /\ UdpRule(p).tag \notin CatchallTags /\ UdpRule(p).tag # Untagged
         /\ \A q \in StandardProfiles : UdpRule(p).tag = UdpRule(q).tag => UdpRule(p) = UdpRule(q)
<1>1. /\ IsRule(UdpRule(p)) /\ UdpRule(p).matches = "udp443"
      /\ UdpRule(p).out = PROFILE_POLICIES[p].udp443
  BY DEF UdpRule, Rule, IsRule
<1>2. \A q \in StandardProfiles :
        \/ UdpRule(q) = Rule("r050_block_quic_udp443", "block", "udp443")
        \/ UdpRule(q) = Rule("r050_direct_quic_udp443", "direct", "udp443")
  BY DEF UdpRule, PROFILE_POLICIES, StandardProfiles
<1>3. \A q \in StandardProfiles : UdpRule(p).tag = UdpRule(q).tag => UdpRule(p) = UdpRule(q)
  BY <1>2 DEF Rule
<1>4. UdpRule(p).tag \notin CatchallTags /\ UdpRule(p).tag # Untagged
  <2>1. UdpRule(p).tag \in {"r050_block_quic_udp443", "r050_direct_quic_udp443"}
    BY <1>2 DEF Rule
  <2>2. CatchallTags = {"r900_block_global_catchall", "r900_direct_global_catchall"}
    BY DEF CatchallTags, CatchallTag
  <2> QED
    BY <2>1, <2>2 DEF Untagged
<1> QED
  BY <1>1, <1>3, <1>4

\* insert_udp_policy keeps the tags telling and distinct.
LEMMA InsertTells ==
  ASSUME NEW rules, NEW remarks, TagsTell(rules, remarks), NEW p \in StandardProfiles,
         NEW t, Extends(rules, UdpRule(p), t)
  PROVE  /\ TagsTell(t, remarks \cup {p})
         /\ TagsDistinct(rules) => TagsDistinct(t)
<1> DEFINE e == UdpRule(p)
<1>1. /\ e.matches = "udp443" /\ e.tag \notin CatchallTags
      /\ \A q \in StandardProfiles : e.tag = UdpRule(q).tag => e = UdpRule(q)
  BY UdpRules
<1>2. /\ \A j \in DOMAIN t : t[j] = e \/ \E i \in DOMAIN rules : t[j] = rules[i]
      /\ \A j, k \in DOMAIN t : j # k =>
           \/ \E h, i \in DOMAIN rules : h # i /\ t[j] = rules[h] /\ t[k] = rules[i]
           \/ (\A i \in DOMAIN rules : rules[i].tag # e.tag) /\
              \E i \in DOMAIN rules :
                 (t[j] = e /\ t[k] = rules[i]) \/ (t[k] = e /\ t[j] = rules[i])
  BY DEF Extends
<1> HIDE DEF e
<1>3. ASSUME NEW j \in DOMAIN t
      PROVE  /\ t[j].matches = "udp443" => \E q \in remarks \cup {p} : t[j] = UdpRule(q)
             /\ \A q \in StandardProfiles : t[j].tag = UdpRule(q).tag => t[j] = UdpRule(q)
             /\ t[j].tag \in CatchallTags => t[j].matches = "any_ip"
  <2>1. CASE t[j] = e
    <3>1. e = UdpRule(p)
      BY DEF e
    <3> QED
      BY <1>1, <2>1, <3>1
  <2>2. CASE \E i \in DOMAIN rules : t[j] = rules[i]
    <3>1. PICK i \in DOMAIN rules : t[j] = rules[i]
      BY <2>2
    <3> QED
      BY <3>1 DEF TagsTell
  <2> QED
    BY <1>2, <2>1, <2>2
<1>4. ASSUME NEW j \in DOMAIN t, NEW k \in DOMAIN t, j # k
      PROVE  ~ (t[j].matches = "any_ip" /\ t[k].matches = "any_ip")
  <2>1. CASE \E h, i \in DOMAIN rules : h # i /\ t[j] = rules[h] /\ t[k] = rules[i]
    BY <2>1 DEF TagsTell
  <2>2. CASE t[j] = e \/ t[k] = e
    BY <1>1, <2>2
  <2> QED
    BY <1>2, <1>4, <2>1, <2>2
<1>5. TagsTell(t, remarks \cup {p})
  BY <1>3, <1>4 DEF TagsTell
<1>6. ASSUME TagsDistinct(rules), NEW j \in DOMAIN t, NEW k \in DOMAIN t, j # k,
             t[j].tag = t[k].tag, t[j].tag # Untagged
      PROVE  FALSE
  <2>1. CASE \E h, i \in DOMAIN rules : h # i /\ t[j] = rules[h] /\ t[k] = rules[i]
    BY <1>6, <2>1 DEF TagsDistinct
  <2>2. CASE (\A i \in DOMAIN rules : rules[i].tag # e.tag) /\
             \E i \in DOMAIN rules :
                (t[j] = e /\ t[k] = rules[i]) \/ (t[k] = e /\ t[j] = rules[i])
    BY <1>6, <2>2
  <2> QED
    BY <1>2, <1>6, <2>1, <2>2
<1> QED
  BY <1>5, <1>6 DEF TagsDistinct

\* The rules after set_global_catchall
CatchallIs(rules, out, t) ==
  /\ DOMAIN t = DOMAIN rules
  /\ \/ t = rules /\ \A i \in DOMAIN rules : rules[i].tag \notin CatchallTags
     \/ \E m \in DOMAIN rules :
          /\ rules[m].tag \in CatchallTags
          /\ t[m] = Rule(CatchallTag(out), out, rules[m].matches)
          /\ \A i \in DOMAIN rules : i # m => t[i] = rules[i]

\* set_global_catchall keeps the tags telling and distinct, and no rule for
\* every address sends elsewhere.
LEMMA CatchallTells ==
  ASSUME NEW rules, NEW remarks, TagsTell(rules, remarks), NEW out, NEW t,
         CatchallIs(rules, out, t)
  PROVE  /\ TagsTell(t, remarks)
         /\ TagsDistinct(rules) => TagsDistinct(t)
         /\ (\E i \in DOMAIN rules : rules[i].tag \in CatchallTags)
            => /\ \E i \in DOMAIN t : t[i].matches = "any_ip"
               /\ \A i \in DOMAIN t : t[i].matches = "any_ip" => t[i].out = out
<1>1. CASE t = rules /\ \A i \in DOMAIN rules : rules[i].tag \notin CatchallTags
  BY <1>1
<1>2. CASE \E m \in DOMAIN rules :
             /\ rules[m].tag \in CatchallTags
             /\ t[m] = Rule(CatchallTag(out), out, rules[m].matches)
             /\ \A i \in DOMAIN rules : i # m => t[i] = rules[i]
  <2>1. PICK m \in DOMAIN rules :
          /\ rules[m].tag \in CatchallTags
          /\ t[m] = Rule(CatchallTag(out), out, rules[m].matches)
          /\ \A i \in DOMAIN rules : i # m => t[i] = rules[i]
    BY <1>2
  <2>2. rules[m].matches = "any_ip"
    BY <2>1 DEF TagsTell
  <2>3. t[m].tag = CatchallTag(out) /\ t[m].out = out /\ t[m].matches = "any_ip"
    BY <2>1, <2>2 DEF Rule
  <2>4. CatchallTag(out) \in CatchallTags
    BY DEF CatchallTag, CatchallTags
  <2>5. DOMAIN t = DOMAIN rules
    BY DEF CatchallIs
  <2>6. \A i \in DOMAIN rules :
          i # m => rules[i].matches # "any_ip" /\ rules[i].tag \notin CatchallTags
    BY <2>2 DEF TagsTell
  <2>7. \A p \in StandardProfiles : UdpRule(p).tag \notin CatchallTags
    BY UdpRules
  <2>8. ASSUME NEW i \in DOMAIN t
        PROVE  /\ t[i].matches = "udp443" => \E q \in remarks : t[i] = UdpRule(q)
               /\ \A q \in StandardProfiles : t[i].tag = UdpRule(q).tag => t[i] = UdpRule(q)
               /\ t[i].tag \in CatchallTags => t[i].matches = "any_ip"
    <3>1. CASE i = m
      BY <2>3, <2>4, <2>7, <3>1
    <3>2. CASE i # m
      <4>1. t[i] = rules[i] /\ i \in DOMAIN rules
        BY <2>1, <2>5, <3>2
      <4> QED
        BY <4>1 DEF TagsTell
    <3> QED
      BY <3>1, <3>2
  <2>9. TagsTell(t, remarks)
    BY <2>1, <2>5, <2>6, <2>8 DEF TagsTell
  <2>10. TagsDistinct(rules) => TagsDistinct(t)
    <3>1. SUFFICES ASSUME TagsDistinct(rules), NEW i \in DOMAIN t, NEW j \in DOMAIN t,
                          t[i].tag = t[j].tag, t[i].tag # Untagged
                   PROVE  i = j
      BY DEF TagsDistinct
    <3>2. CASE i = m
      BY <2>1, <2>3, <2>4, <2>5, <2>6, <3>1, <3>2
    <3>3. CASE j = m
      BY <2>1, <2>3, <2>4, <2>5, <2>6, <3>1, <3>3
    <3>4. CASE i # m /\ j # m
      BY <2>1, <2>5, <3>1, <3>4 DEF TagsDistinct
    <3> QED
      BY <3>2, <3>3, <3>4
  <2> QED
    BY <2>1, <2>3, <2>5, <2>6, <2>9, <2>10
<1> QED
  BY <1>1, <1>2 DEF CatchallIs

-----------------------------------------------------------------------------
(* One call of generate_profiles.py                                        *)

\* generate_profile, part by part of the config
LEMMA Generated ==
  ASSUME NEW c, IsConfig(c), NEW p \in StandardProfiles, NEW offset \in Int,
         NEW d, d = generate_profile(c, p, offset)
  PROVE  /\ d = [part \in DOMAIN Primary |-> d[part]]
         /\ d.remarks = c.remarks \cup {p} /\ d.listen = c.listen /\ d.dns = c.dns
         /\ d.rules = set_global_catchall(insert_udp_policy(c.rules, UdpRule(p)),
                                          PROFILE_POLICIES[p].catchall)
         /\ d.ports = IF offset = 0 THEN c.ports
                      ELSE [t \in DOMAIN c.ports |-> DEFAULT_LOCAL_PORTS[t] + offset]
         /\ d.redirects = IF offset = 0 THEN c.redirects
                          ELSE [t \in DOMAIN c.redirects |->
                                  IF c.redirects[t] \in DefaultPorts THEN c.redirects[t] + offset
                                  ELSE c.redirects[t]]
<1> DEFINE rules == set_global_catchall(insert_udp_policy(c.rules, UdpRule(p)),
                                        PROFILE_POLICIES[p].catchall)
           m == make_profile(c, p)
           Parts == {"remarks", "operating", "listen", "dns", "ports", "redirects", "rules"}
<1>1. DOMAIN Primary = Parts
  BY DEF Primary
<1>2. c = [part \in Parts |-> c[part]]
  BY <1>1 DEF IsConfig
<1>3. m = [[c EXCEPT !.remarks = @ \cup {p}, !.rules = rules] EXCEPT !.operating = p]
  BY DEF make_profile, attach_for_operating_profile
<1> HIDE DEF rules, m
<1>4. /\ m = [part \in Parts |-> m[part]]
      /\ m.remarks = c.remarks \cup {p} /\ m.listen = c.listen /\ m.dns = c.dns
      /\ m.rules = rules /\ m.ports = c.ports /\ m.redirects = c.redirects
  BY <1>2, <1>3
<1>5. d = apply_port_offset(m, offset)
  BY DEF generate_profile, m
<1>6. CASE offset = 0
  BY <1>1, <1>4, <1>5, <1>6 DEF apply_port_offset, rules
<1>7. CASE offset # 0
  <2> DEFINE P == [t \in DOMAIN m.ports |-> DEFAULT_LOCAL_PORTS[t] + offset]
             Q == [t \in DOMAIN m.redirects |->
                     IF m.redirects[t] \in DefaultPorts THEN m.redirects[t] + offset
                     ELSE m.redirects[t]]
  <2>1. d = [m EXCEPT !.ports = P, !.redirects = Q]
    BY <1>5, <1>7 DEF apply_port_offset
  <2> HIDE DEF P, Q
  <2>2. /\ d = [part \in Parts |-> d[part]]
        /\ d.remarks = m.remarks /\ d.listen = m.listen /\ d.dns = m.dns
        /\ d.rules = m.rules /\ d.ports = P /\ d.redirects = Q
    BY <1>4, <2>1
  <2>3. P = [t \in DOMAIN c.ports |-> DEFAULT_LOCAL_PORTS[t] + offset]
    BY <1>4, Zenon DEF P
  <2>4. Q = [t \in DOMAIN c.redirects |->
               IF c.redirects[t] \in DefaultPorts THEN c.redirects[t] + offset
               ELSE c.redirects[t]]
    BY <1>4, Zenon DEF Q
  <2> QED
    BY <1>1, <1>4, <1>7, <2>2, <2>3, <2>4 DEF rules
<1> QED
  BY <1>6, <1>7

\* A profile of a config is a config; its rules are those of insert_udp_policy
\* and set_global_catchall.
LEMMA GeneratedConfig ==
  ASSUME NEW c, IsConfig(c), NEW p \in StandardProfiles, NEW offset \in Int,
         NEW d, d = generate_profile(c, p, offset)
  PROVE  /\ IsConfig(d) /\ d.remarks = c.remarks \cup {p}
         /\ \E t : /\ Extends(c.rules, UdpRule(p), t)
                   /\ \E j \in DOMAIN t : t[j].tag = UdpRule(p).tag
                   /\ CatchallIs(t, PROFILE_POLICIES[p].catchall, d.rules)
<1> DEFINE t == insert_udp_policy(c.rules, UdpRule(p))
<1>1. /\ d = [part \in DOMAIN Primary |-> d[part]]
      /\ d.remarks = c.remarks \cup {p}
      /\ d.rules = set_global_catchall(t, PROFILE_POLICIES[p].catchall)
      /\ d.ports = IF offset = 0 THEN c.ports
                   ELSE [u \in DOMAIN c.ports |-> DEFAULT_LOCAL_PORTS[u] + offset]
      /\ d.redirects = IF offset = 0 THEN c.redirects
                       ELSE [u \in DOMAIN c.redirects |->
                               IF c.redirects[u] \in DefaultPorts THEN c.redirects[u] + offset
                               ELSE c.redirects[u]]
  BY Generated
<1>2. IsRules(c.rules) /\ IsRule(UdpRule(p))
  BY UdpRules DEF IsConfig
<1>3. /\ IsRules(t) /\ Extends(c.rules, UdpRule(p), t)
      /\ \E j \in DOMAIN t : t[j].tag = UdpRule(p).tag
  BY <1>2, UdpInserted
<1> HIDE DEF t
<1>4. IsRules(d.rules) /\ CatchallIs(t, PROFILE_POLICIES[p].catchall, d.rules)
  BY <1>1, <1>3, CatchallSet DEF CatchallIs
<1>5. /\ DOMAIN d.ports = DOMAIN c.ports /\ DOMAIN d.ports \subseteq InboundTags
      /\ d.ports \in [DOMAIN d.ports -> Int]
  <2>1. \A u \in InboundTags : DEFAULT_LOCAL_PORTS[u] \in Int
    BY DEF InboundTags, DEFAULT_LOCAL_PORTS
  <2>2. DOMAIN c.ports \subseteq InboundTags /\ c.ports \in [DOMAIN c.ports -> Int]
    BY DEF IsConfig
  <2>3. \A u \in DOMAIN c.ports : DEFAULT_LOCAL_PORTS[u] + offset \in Int
    BY <2>1, <2>2
  <2> QED
    BY <1>1, <2>2, <2>3
<1>6. d.redirects \in [REDIRECT_TO_INBOUND -> Int]
  <2>1. c.redirects \in [REDIRECT_TO_INBOUND -> Int]
    BY DEF IsConfig
  <2> QED
    BY <1>1, <2>1
<1>7. d.remarks \subseteq StandardProfiles
  BY <1>1 DEF IsConfig
<1>8. IsConfig(d)
  BY <1>1, <1>4, <1>5, <1>6, <1>7 DEF IsConfig
<1> QED
  BY <1>1, <1>3, <1>4, <1>8

\* The tags of a profile tell what its rules do if those of its base did.
LEMMA GeneratedTells ==
  ASSUME NEW c, IsConfig(c), NEW p \in StandardProfiles, NEW offset \in Int,
         NEW d, d = generate_profile(c, p, offset), TagsTell(c.rules, c.remarks)
  PROVE  /\ TagsTell(d.rules, d.remarks)
         /\ TagsDistinct(c.rules) => TagsDistinct(d.rules)
         /\ \E i \in DOMAIN d.rules : d.rules[i].matches = "udp443"
         /\ (\E i \in DOMAIN c.rules : c.rules[i].tag \in CatchallTags) =>
              /\ \E i \in DOMAIN d.rules : d.rules[i].matches = "any_ip"
              /\ \A i \in DOMAIN d.rules : d.rules[i].matches = "any_ip"
                                             => d.rules[i].out = PROFILE_POLICIES[p].catchall
<1>1. PICK t : /\ Extends(c.rules, UdpRule(p), t)
               /\ \E j \in DOMAIN t : t[j].tag = UdpRule(p).tag
               /\ CatchallIs(t, PROFILE_POLICIES[p].catchall, d.rules)
  BY GeneratedConfig
<1>2. d.remarks = c.remarks \cup {p}
  BY GeneratedConfig
<1>3. TagsTell(t, d.remarks) /\ (TagsDistinct(c.rules) => TagsDistinct(t))
  BY <1>1, <1>2, InsertTells
<1>4. /\ TagsTell(d.rules, d.remarks) /\ (TagsDistinct(t) => TagsDistinct(d.rules))
      /\ (\E i \in DOMAIN t : t[i].tag \in CatchallTags) =>
              /\ \E i \in DOMAIN d.rules : d.rules[i].matches = "any_ip"
              /\ \A i \in DOMAIN d.rules : d.rules[i].matches = "any_ip"
                                             => d.rules[i].out = PROFILE_POLICIES[p].catchall
  BY <1>1, <1>3, CatchallTells
<1>5. (\E i \in DOMAIN c.rules : c.rules[i].tag \in CatchallTags) =>
        \E i \in DOMAIN t : t[i].tag \in CatchallTags
  BY <1>1 DEF Extends
<1>6. \E i \in DOMAIN d.rules : d.rules[i].matches = "udp443"
  <2>1. PICK j \in DOMAIN t : t[j].tag = UdpRule(p).tag
    BY <1>1
  <2>2. t[j] = UdpRule(p) /\ t[j].matches = "udp443" /\ t[j].tag \notin CatchallTags
    BY <1>3, <2>1, UdpRules DEF TagsTell
  <2>3. j \in DOMAIN d.rules /\ d.rules[j] = t[j]
    BY <1>1, <2>1, <2>2 DEF CatchallIs
  <2> QED
    BY <2>2, <2>3
<1> QED
  BY <1>3, <1>4, <1>5, <1>6

\* The first rule of each kind is one that has the policy's outbound.
LEMMA PolicyHolds ==
  ASSUME NEW c, IsRules(c.rules), NEW p \in StandardProfiles, TagsTell(c.rules, {p}),
         \E i \in DOMAIN c.rules : c.rules[i].matches = "udp443",
         \A i \in DOMAIN c.rules : c.rules[i].matches = "any_ip"
                                     => c.rules[i].out = PROFILE_POLICIES[p].catchall
  PROVE  PolicyInForce(c, p)
<1> DEFINE U == {i \in 1 .. Len(c.rules) : c.rules[i].matches = "udp443"}
           A == {i \in 1 .. Len(c.rules) : c.rules[i].matches = "any_ip"}
           u == IF U # {} THEN Min(U) ELSE 0
           a == IF A # {} THEN Min(A) ELSE 0
<1>1. DOMAIN c.rules = 1 .. Len(c.rules) /\ Len(c.rules) \in Nat
  <2>1. c.rules \in Seq(Range(c.rules))
    BY DEF IsRules
  <2> QED
    BY <2>1
<1>2. U # {} /\ U \subseteq 1 .. Len(c.rules) /\ A \subseteq 1 .. Len(c.rules)
  BY <1>1
<1>3. PolicyInForce(c, p) <=>
        /\ u # 0 /\ c.rules[u].out = PROFILE_POLICIES[p].udp443
        /\ a # 0 => c.rules[a].out = PROFILE_POLICIES[p].catchall
  BY DEF PolicyInForce, SelectInSeq
<1>4. u # 0 /\ u \in U
  <2> HIDE DEF U
  <2> QED
    BY <1>1, <1>2, LeastIndex
<1>5. a # 0 => a \in A
  <2> HIDE DEF A
  <2> QED
    BY <1>1, <1>2, LeastIndex
<1> HIDE DEF u, a
<1>6. c.rules[u] = UdpRule(p) /\ UdpRule(p).out = PROFILE_POLICIES[p].udp443
  BY <1>1, <1>4, UdpRules DEF TagsTell
<1>7. a # 0 => c.rules[a].out = PROFILE_POLICIES[p].catchall
  BY <1>1, <1>5
<1> QED
  BY <1>3, <1>4, <1>6, <1>7

\* One call of generate_profiles.py on a base that validate_config.py accepts
LEMMA GeneratedSound ==
  ASSUME NEW c, IsConfig(c), NEW p \in StandardProfiles, NEW offset \in Int,
         NEW d, d = generate_profile(c, p, offset), TagsTell(c.rules, c.remarks),
         "fail" \notin validate_config(c), c.remarks \subseteq {p},
         \E i \in DOMAIN c.rules : c.rules[i].tag \in CatchallTags,
         offset = 0 \/ \A t \in REDIRECT_TO_INBOUND : c.redirects[t] = DEFAULT_LOCAL_PORTS[t]
  PROVE  "fail" \notin validate_config(d) /\ PolicyInForce(d, p)
<1>1. /\ DOMAIN c.ports = InboundTags /\ c.listen \in {"loopback", "unset"}
      /\ TagsDistinct(c.rules) /\ REDIRECT_TO_INBOUND \subseteq DOMAIN c.ports /\ c.dns
      /\ \A t \in REDIRECT_TO_INBOUND \cap DOMAIN c.ports : c.redirects[t] = c.ports[t]
  BY Accepted
<1>2. /\ d.remarks = {p} /\ d.listen = c.listen /\ d.dns = c.dns
      /\ d.ports = IF offset = 0 THEN c.ports
                   ELSE [t \in DOMAIN c.ports |-> DEFAULT_LOCAL_PORTS[t] + offset]
      /\ d.redirects = IF offset = 0 THEN c.redirects
                       ELSE [t \in DOMAIN c.redirects |->
                               IF c.redirects[t] \in DefaultPorts THEN c.redirects[t] + offset
                               ELSE c.redirects[t]]
  <2>1. c.remarks \cup {p} = {p}
    OBVIOUS
  <2> QED
    BY <2>1, Generated
<1>3. IsConfig(d) /\ IsRules(d.rules)
  <2>1. IsConfig(d)
    BY GeneratedConfig
  <2> QED
    BY <2>1 DEF IsConfig
<1>4. /\ TagsTell(d.rules, d.remarks) /\ TagsDistinct(d.rules)
      /\ \E i \in DOMAIN d.rules : d.rules[i].matches = "udp443"
      /\ \E i \in DOMAIN d.rules : d.rules[i].matches = "any_ip"
      /\ \A i \in DOMAIN d.rules : d.rules[i].matches = "any_ip"
                                     => d.rules[i].out = PROFILE_POLICIES[p].catchall
  BY <1>1, GeneratedTells, SMTT(30)
<1>5. DOMAIN d.ports = InboundTags
  BY <1>1, <1>2
<1>6. ASSUME NEW t \in REDIRECT_TO_INBOUND PROVE d.redirects[t] = d.ports[t]
  <2>0. t \in InboundTags /\ t \in DOMAIN c.redirects /\ c.redirects[t] = c.ports[t]
    BY <1>1 DEF IsConfig
  <2>1. CASE offset = 0
    BY <1>2, <2>0, <2>1
  <2>2. CASE offset # 0
    <3>1. c.redirects[t] = DEFAULT_LOCAL_PORTS[t]
      BY <2>2
    <3>2. DEFAULT_LOCAL_PORTS[t] \in DefaultPorts
      BY <2>0 DEF DefaultPorts
    <3> QED
      BY <1>1, <1>2, <2>0, <2>2, <3>1, <3>2
  <2> QED
    BY <2>1, <2>2
<1>7. infer_profile(d) = "strict" => Catchall(d, "block")
  <2>1. infer_profile(d) = p
    BY <1>2, Inferred
  <2>2. PROFILE_POLICIES["strict"].catchall = "block"
    BY DEF PROFILE_POLICIES
  <2> QED
    BY <1>4, <2>1, <2>2 DEF Catchall
<1>8. "fail" \notin validate_config(d)
  BY <1>1, <1>2, <1>4, <1>5, <1>6, <1>7, Accepted
<1>9. TagsTell(d.rules, {p})
  BY <1>2, <1>4
<1> QED
  BY <1>3, <1>4, <1>8, <1>9, PolicyHolds

\* A shell that only makes profiles makes them of configs.
BuildsConfigs == mode = "build" => IsConfig(draft)

\* Only GenerateProfiles changes what the next call is given as --base.
LEMMA DraftKept ==
  ASSUME Next, ~ \E p \in StandardProfiles, o \in Offsets : GenerateProfiles(p, o)
  PROVE  UNCHANGED <<mode, draft>>
<1>1. CASE GuiNext
  BY <1>1 DEF GuiNext, RunCommand, OfferDownload, RunStep, _finish_command, RefreshStatus,
              ShowSmartTips, SelectProfile, ApplyRecommended, ConnectXray, DisconnectXray,
              TogglePreference, Handled, Happens
<1>2. CASE MachineNext
  BY <1>2 DEF MachineNext, CacheAges, Drift, CoreListens, CoreExits, Handled, Happens
<1>3. CASE ShellNext
  BY <1>3 DEF ShellNext, ShellReadiness, ShellPreflight, ShellHealth, ShellVerified, ShellDecision,
              ShellApply, ShellAdvise, ShellOnboard, ShellScore, Tool
<1> QED
  BY <1>1, <1>2, <1>3 DEF Next

LEMMA BuildInit == Init => BuildsConfigs
BY ControlAssumption DEF Init, BuildsConfigs

LEMMA BuildStep == BuildsConfigs /\ [Next]_vars => BuildsConfigs'
<1> SUFFICES ASSUME BuildsConfigs, [Next]_vars PROVE BuildsConfigs'
  OBVIOUS
<1>1. CASE \E p \in StandardProfiles, o \in Offsets : GenerateProfiles(p, o)
  <2>1. PICK p \in StandardProfiles, o \in Offsets : GenerateProfiles(p, o)
    BY <1>1
  <2>2. mode = "build" /\ draft' = generate_profile(draft, p, o)
    BY <2>1 DEF GenerateProfiles
  <2>3. IsConfig(draft) /\ o \in Int
    BY <2>2, ControlAssumption DEF BuildsConfigs
  <2>4. IsConfig(draft')
    BY <2>2, <2>3, GeneratedConfig
  <2> QED
    BY <2>4 DEF BuildsConfigs
<1>2. CASE Next /\ ~ \E p \in StandardProfiles, o \in Offsets : GenerateProfiles(p, o)
  BY <1>2, DraftKept DEF BuildsConfigs
<1>3. CASE UNCHANGED vars
  BY <1>3 DEF vars, BuildsConfigs
<1> QED
  BY <1>1, <1>2, <1>3

\* GeneratedProfilesSound: whatever the base and however often profiles are
\* made of profiles, a profile made by generate_profiles.py is one that
\* validate_config.py accepts and that does what PROFILE_POLICIES says.
THEOREM ProfilesSound == Spec => GeneratedProfilesSound
<1> DEFINE Sound ==
      \A profile \in StandardProfiles, offset \in Offsets :
          GenerateProfiles(profile, offset) /\ TagsTell(draft.rules, draft.remarks)
          => /\ TagsTell(draft.rules, draft.remarks)'
             /\ /\ "fail" \notin validate_config(draft)
                /\ draft.remarks \subseteq {profile}
                /\ \E i \in DOMAIN draft.rules : draft.rules[i].tag \in CatchallTags
                /\ offset = 0 \/ \A t \in REDIRECT_TO_INBOUND :
                                    draft.redirects[t] = DEFAULT_LOCAL_PORTS[t]
                => "fail" \notin validate_config(draft') /\ PolicyInForce(draft', profile)
<1>1. BuildsConfigs => Sound
  <2> SUFFICES ASSUME BuildsConfigs, NEW p \in StandardProfiles, NEW offset \in Offsets,
                      GenerateProfiles(p, offset), TagsTell(draft.rules, draft.remarks)
               PROVE  /\ TagsTell(draft.rules, draft.remarks)'
                      /\ /\ "fail" \notin validate_config(draft)
                         /\ draft.remarks \subseteq {p}
                         /\ \E i \in DOMAIN draft.rules : draft.rules[i].tag \in CatchallTags
                         /\ offset = 0 \/ \A t \in REDIRECT_TO_INBOUND :
                                             draft.redirects[t] = DEFAULT_LOCAL_PORTS[t]
                         => "fail" \notin validate_config(draft') /\ PolicyInForce(draft', p)
    OBVIOUS
  <2>1. IsConfig(draft) /\ offset \in Int /\ draft' = generate_profile(draft, p, offset)
    BY ControlAssumption DEF GenerateProfiles, BuildsConfigs
  <2>2. TagsTell(draft'.rules, draft'.remarks)
    BY <2>1, GeneratedTells, SMTT(30)
  <2> QED
    BY <2>1, <2>2, GeneratedSound
<1> QED
  BY <1>1, BuildInit, BuildStep, PTL DEF Spec, GeneratedProfilesSound

\* The config in the repository meets all that GeneratedSound asks for: its
\* profiles are accepted and in force whatever --port-offset is.
THEOREM PrimaryProfilesSound ==
  ASSUME NEW p \in StandardProfiles, NEW offset \in Int
  PROVE  /\ "fail" \notin validate_config(generate_profile(Primary, p, offset))
         /\ PolicyInForce(generate_profile(Primary, p, offset), p)
<1> DEFINE tags == <<"r030_dns_port53", "r040_direct_private_regional",
                     "r210_redirect_google_tcp443_h2", "r900_direct_global_catchall",
                     "r999_block_final">>
           kinds == <<"port53", "regional", "tcp443", "any_ip", "all_ports">>
<1>1. /\ DOMAIN Primary.rules = 1 .. 5 /\ Primary.remarks = {} /\ Primary.listen = "loopback"
      /\ Primary.dns /\ Primary.ports = DEFAULT_LOCAL_PORTS
      /\ Primary.redirects = [t \in REDIRECT_TO_INBOUND |-> DEFAULT_LOCAL_PORTS[t]]
      /\ \A i \in 1 .. 5 : Primary.rules[i].tag = tags[i] /\ Primary.rules[i].matches = kinds[i]
  BY DEF Primary, Rule
<1>2. IsRules(Primary.rules)
  <2> DEFINE R == {Primary.rules[i] : i \in 1 .. 5}
  <2>1. \A i \in DOMAIN Primary.rules : IsRule(Primary.rules[i])
    BY DEF Primary, Rule, IsRule
  <2>2. Primary.rules \in Seq(R)
    <3>1. Primary.rules = [i \in 1 .. 5 |-> Primary.rules[i]]
      BY DEF Primary
    <3>2. \A i \in 1 .. 5 : Primary.rules[i] \in R
      OBVIOUS
    <3> HIDE DEF R
    <3> QED
      BY <3>1, <3>2
  <2> QED
    BY <2>1, <2>2, RulesAre
<1>3. IsConfig(Primary)
  <2>1. Primary = [part \in DOMAIN Primary |-> Primary[part]]
    BY DEF Primary
  <2>2. /\ DOMAIN DEFAULT_LOCAL_PORTS \subseteq InboundTags
        /\ DEFAULT_LOCAL_PORTS \in [DOMAIN DEFAULT_LOCAL_PORTS -> Int]
        /\ [t \in REDIRECT_TO_INBOUND |-> DEFAULT_LOCAL_PORTS[t]] \in [REDIRECT_TO_INBOUND -> Int]
    BY DEF InboundTags, DEFAULT_LOCAL_PORTS, REDIRECT_TO_INBOUND
  <2> QED
    BY <1>1, <1>2, <2>1, <2>2 DEF IsConfig
<1> HIDE DEF tags, kinds
<1>4. CatchallTags = {"r900_block_global_catchall", "r900_direct_global_catchall"}
  BY DEF CatchallTags, CatchallTag
<1>5. \A q \in StandardProfiles :
        UdpRule(q).tag \in {"r050_block_quic_udp443", "r050_direct_quic_udp443"}
  BY DEF UdpRule, Rule, PROFILE_POLICIES, StandardProfiles
<1>6. TagsTell(Primary.rules, Primary.remarks)
  <2>1. \A i \in 1 .. 5 : /\ kinds[i] # "udp443" /\ (kinds[i] = "any_ip" => i = 4)
                          /\ tags[i] \notin {"r050_block_quic_udp443", "r050_direct_quic_udp443"}
                          /\ tags[i] \in CatchallTags => kinds[i] = "any_ip"
    BY <1>4 DEF tags, kinds
  <2> QED
    BY <1>1, <1>5, <2>1 DEF TagsTell
<1>7. \E i \in DOMAIN Primary.rules : Primary.rules[i].tag \in CatchallTags
  <2>1. tags[4] \in CatchallTags
    BY <1>4 DEF tags
  <2> QED
    BY <1>1, <2>1
<1>8. TagsDistinct(Primary.rules)
  <2>1. \A i, j \in 1 .. 5 : tags[i] = tags[j] => i = j
    BY DEF tags
  <2> QED
    BY <1>1, <2>1 DEF TagsDistinct
<1>9. infer_profile(Primary) = "base"
  <2> DEFINE order == <<"strict", "balanced", "compatibility", "debug">>
  <2>1. {i \in 1 .. Len(order) : order[i] \in Primary.remarks} = {}
    BY <1>1
  <2> QED
    BY <2>1 DEF infer_profile, SelectInSeq
<1>10. \A t \in REDIRECT_TO_INBOUND :
         Primary.redirects[t] = DEFAULT_LOCAL_PORTS[t] /\ Primary.redirects[t] = Primary.ports[t]
  BY <1>1
<1>11. "fail" \notin validate_config(Primary)
  <2>1. DOMAIN Primary.ports = InboundTags /\ REDIRECT_TO_INBOUND \subseteq DOMAIN Primary.ports
    BY <1>1 DEF InboundTags, REDIRECT_TO_INBOUND
  <2> QED
    BY <1>1, <1>8, <1>9, <1>10, <2>1, Accepted
<1> QED
  BY <1>1, <1>3, <1>6, <1>7, <1>10, <1>11, GeneratedSound
=============================================================================
