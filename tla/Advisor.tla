-------------------------------- MODULE Advisor --------------------------------
(***************************************************************************)
(* The advisor's plan (src/scripts/core/intelligent_advisor.py) and the    *)
(* playbooks (core/automation_playbook.py).  A recommendation is its       *)
(* priority and its id.                                                    *)
(***************************************************************************)
EXTENDS Strategy, Sequences

Personas == {"newcomer", "maintainer", "lab"}

(* Every report that decision_report.py writes has a recommendation, so the  *)
(* labels are never derived from its phase again.                            *)
load_decision_labels(report) == report.labels

(* page_check_status is never "fail" or "pass", so the labels are those of   *)
(* the report, or static_ja3 for a fingerprint that was never measured.      *)
AdvisorLabels(report, state) ==
    IF load_decision_labels(report) # {} THEN load_decision_labels(report)
    ELSE IF state.ja3_configured /\ ~ state.ja3_measured THEN {"static_ja3"} ELSE {}

infer_persona(w, state, labels) ==
    IF labels \cap {"tls_block", "static_ja3", "webrtc_leak", "dns_leak"} # {} THEN "lab"
    ELSE IF labels # {} /\ w.profiles \cap EvasionProfiles # {} THEN "lab"
    ELSE IF state.release_ready THEN "maintainer" ELSE "newcomer"

Rec(cond, priority, id) == [cond |-> cond, priority |-> priority, id |-> id]

ReadinessRecs(state) ==
    << Rec(state.listener = "exposed", 0, "fix_listener"),
       Rec(~ state.cert_exists \/ ~ state.key_exists, 0, "generate_ca"),
       Rec(/\ state.cert_exists /\ state.key_exists
           /\ state.trust \notin {"pass", "not_supported", "skipped"}, 1, "trust_ca"),
       Rec(state.listener = "closed", 1, "start_core"),
       Rec(state.playwright, 1, "page_check"),
       Rec(~ state.playwright, 2, "install_playwright"),
       Rec(state.release_blockers # {}, 2, "release_blockers") >>

RepairRecs(state) == << Rec(~ state.config_ok, 0, "repair_config") >>

ProfileRecs(w, state, labels, persona, selected) ==
    << Rec(~ state.profiles_ready, 0, "regenerate_profiles"),
       Rec(persona = "lab" /\ ~ (EvasionProfiles \subseteq w.profiles), 1, "lab_prepare"),
       Rec(selected \in EvasionProfiles, 1, "use_evasion_profile"),
       Rec(selected \in StandardProfiles /\ labels # {}, 2, "apply_profile"),
       Rec(labels \cap {"tls_block", "static_ja3"} # {}, 1, "evasion_fragment"),
       Rec(labels \cap {"webrtc_leak", "dns_leak"} # {}, 1, "evasion_high_stealth"),
       Rec(persona = "lab", 3, "ebpf_containment_lab"),
       Rec(state.ja3_configured, 2, "ja3_oracle"),
       Rec(persona = "newcomer", 2, "onboard") >>

(* The stable sort puts the first of the most urgent entries on top. *)
Top(recs) ==
    LET held == {i \in DOMAIN recs : recs[i].cond}
        urgent == Min({recs[i].priority : i \in held})
    IN  IF held = {} THEN "none"
        ELSE recs[Min({i \in held : recs[i].priority = urgent})].id

(* build_advisor_plan: an unusable config ends the plan before a profile is  *)
(* recommended; otherwise the recommendation may write the winner file, also *)
(* under --no-persist.                                                       *)
build_advisor_plan(w, report, state, winner) ==
    LET labels == AdvisorLabels(report, state)
        persona == infer_persona(w, state, labels)
        pick == recommend_profile(w, labels, "balanced", 0, winner)
    IN  IF ~ state.config_ok
        THEN [persona |-> persona, suggested |-> None, winner |-> winner,
              top |-> Top(ReadinessRecs(state) \o RepairRecs(state))]
        ELSE [persona |-> persona, suggested |-> pick.selected, winner |-> pick.winner,
              top |-> Top(ReadinessRecs(state)
                            \o ProfileRecs(w, state, labels, persona, pick.selected))]

-----------------------------------------------------------------------------
PlaybookSteps(persona) ==
    CASE persona = "maintainer" -> <<"audit", "release_check", "config_src", "build_profiles">>
      [] persona = "lab" -> <<"lab_prepare", "lab_evidence", "wire_proof_structure">>
      [] OTHER -> <<"validate_config", "static_preflight", "readiness_probe", "advisor">>

(* run_playbook replaces argv[0] alone, so every command keeps the "-3" of   *)
(* the py launcher, which the interpreter refuses: no step succeeds.         *)
StepCode(step) == 2

(* How many steps run and how the playbook ends; no step of PLAYBOOKS is     *)
(* optional, and the run stops at the first failure.                         *)
run_playbook(persona, dry_run) ==
    LET steps == PlaybookSteps(persona)
        failed == {i \in DOMAIN steps : StepCode(steps[i]) # 0}
    IN  IF dry_run THEN [ran |-> 0, overall |-> "pass"]
        ELSE [ran |-> IF failed = {} THEN Len(steps) ELSE Min(failed),
              overall |-> IF failed = {} THEN "pass" ELSE "fail"]
=============================================================================
