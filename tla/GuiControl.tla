------------------------------ MODULE GuiControl ------------------------------
(***************************************************************************)
(* The control plane: the GUI's command runner, readiness cache, connect   *)
(* gate and profile switching (src/scripts/gui.py, core/gui_readiness.py), *)
(* beside the same tools run from a shell.  The machine changes under them.*)
(*                                                                         *)
(* The life of the core itself is in XrayLifecycle and that of the key     *)
(* file in KeyAtRest; here a core is running or not, and a command that    *)
(* fails has changed nothing.                                              *)
(***************************************************************************)
EXTENDS GuiViews

CONSTANTS
    ShellWorlds,    \* the machines the shell's tools are run on
    GuiWorlds,      \* the machines the GUI is opened on, with the report left there
    Drifts,         \* what may change meanwhile, as pairs of fact and value
    MaxDrifts,      \* bound: how many facts change while the GUI is open
    MaxActs,        \* bound: how many things the user does
    MaxTools,       \* bound: how many tools the shell runs
    MaxBuilds,      \* bound: how often profiles are made of profiles
    Bases,          \* the configs that profiles are made of
    Offsets,        \* the values of --port-offset that are tried
    Picks,          \* the configs the user picks by hand
    Phases,         \* the outcomes of a staged probe that are tried
    Reports,        \* the decision reports the shell's tools may find
    Intents,        \* the values of --profile that are tried
    Hints,          \* the sets of --leak-hint that are tried
    Counters        \* the session counters that are tried

(* A machine is a record of the facts. *)
IsMachine(w) == w = [fact \in Facts |-> w[fact]]

ASSUME ControlAssumption ==
    /\ MaxDrifts \in Nat /\ MaxActs \in Nat /\ MaxTools \in Nat
    /\ MaxBuilds \in Nat /\ Offsets \subseteq Int /\ \A b \in Bases : IsConfig(b)
    /\ Phases \subseteq ProbePhases /\ Intents \subseteq StandardProfiles /\ Counters \subseteq Nat
    /\ \A w \in ShellWorlds \cup {g[1] : g \in GuiWorlds} : IsMachine(w)

VARIABLES
    mode,       \* "gui", "shell", or "build" for a shell that only makes profiles
    world,      \* the machine
    preflight,  \* the overall status in preflight.latest.json, or None
    report,     \* decision-report.latest.json
    winner,     \* strategy-winner.json
    prefs,      \* block_connect_on_preflight_fail and auto_apply_strategy_on_probe
    active,     \* the selected config: "standard" or a profile
    cache,      \* GuiReadinessCache's state, key and age
    error,      \* GuiReadinessCache's error is set
    failure,    \* last_command_failure is set
    core,       \* the GUI's own Xray runs
    start,      \* what the gate went by when that Xray was started
    busy,       \* is_busy
    worker,     \* the worker thread and the message it posts to the Tk loop
    stuck,      \* an exception left a finish handler before it cleared is_busy
    last,       \* the last tool of the shell, its exit code and what it says
    draft,      \* the config the next generate_profiles.py is given as --base
    used        \* how much of the bounds is used up

vars == <<mode, world, preflight, report, winner, prefs, active, cache, error, failure, core,
          start, busy, worker, stuck, last, draft, used>>

NoCache == [held |-> FALSE, state |-> NoState, key |-> None, fresh |-> FALSE]
NotStarted == [gated |-> FALSE, live |-> {}, recent |-> TRUE]
Idle == [at |-> "idle", label |-> None, config |-> None, todo |-> <<>>, final |-> 0,
         failed |-> FALSE]
NoTool == [tool |-> None, exit |-> 0, says |-> None]

(* The primary config is the world's.  The standard profiles are copies of   *)
(* it with make_profile's changes, made while it was an object; the evasion  *)
(* profiles are files of the repository, and only the stealth one has other  *)
(* DNS servers.                                                              *)
ConfigOf(w, p) ==
    IF p = "standard" THEN w.config ELSE IF p \notin w.profiles THEN "missing"
    ELSE IF p \in StandardProfiles /\ w.config = "unpinned" THEN "unpinned" ELSE "pinned"

BaseOf(w, p) ==
    CASE p = "standard" -> w.base
      [] p \in StandardProfiles -> make_profile(w.base, p)
      [] OTHER -> [Primary EXCEPT !.operating = p, !.dns = (p # "evasion-high-stealth")]

Selected(w, p) == [w EXCEPT !.config = ConfigOf(w, p), !.base = BaseOf(w, p)]

-----------------------------------------------------------------------------
(* What the handlers of one step read and write, as a record.  A handler     *)
(* maps it to the set of ways it may come out, so that one may call another. *)
Desk == [world |-> world, active |-> active, cache |-> cache, error |-> error,
         failure |-> failure, winner |-> winner, core |-> core, start |-> start]

Becomes(d) ==
    /\ world' = d.world /\ active' = d.active /\ cache' = d.cache /\ error' = d.error
    /\ failure' = d.failure /\ winner' = d.winner /\ core' = d.core /\ start' = d.start

\* Mutant: a cached state has no age.
IgnoresAge(d) == d.cache.held /\ d.cache.key = d.active

CacheFresh(d) == d.cache.held /\ d.cache.key = d.active /\ d.cache.fresh

Rebuilt(d) ==
    [d EXCEPT !.error = FALSE,
              !.cache = [held |-> TRUE, key |-> d.active, fresh |-> TRUE,
                         state |-> build_project_state(Selected(d.world, d.active), NoOptions)]]

(* GuiReadinessCache.get, one of the outcomes: resolving the path raises, a  *)
(* fresh state is returned with whatever error there was, the build raises   *)
(* and leaves the old state, or there is a new one.                          *)
get(d, force) ==
    {[d EXCEPT !.error = TRUE], IF CacheFresh(d) /\ ~ force THEN d ELSE Rebuilt(d)}

(* _intelligent_hint: every snapshot builds the advisor's plan, which may    *)
(* write the winner file.                                                    *)
Advised(d) ==
    IF ~ d.cache.held THEN d
    ELSE [d EXCEPT !.winner = build_advisor_plan(d.world, report, d.cache.state, @).winner]

Snapshot(d) == _status_snapshot(d.world, d.cache, d.error, d.core)

(* config_proxy_endpoint calls get on whatever JSON the config holds. *)
Raises(d) == ConfigOf(d.world, d.active) = "array"

(* A header that says Ready forgets the last failure. *)
Painted(d) == [d EXCEPT !.failure = IF _status_level(Snapshot(d)) = "pass" THEN FALSE ELSE @]

refresh_status(d) == {Painted(Advised(t)) : t \in get(d, FALSE)}

(* The Tk loop drops the exception of a handler that ends in a refresh. *)
Refreshed(d) == IF Raises(d) THEN {d} ELSE refresh_status(d)

(* The core's port closes with it. *)
Unlisten(w) ==
    IF "127.0.0.1" \in w.lines
    THEN [w EXCEPT !.lines = @ \ {"127.0.0.1"}, !.loopback = FALSE] ELSE w

disconnect_xray(d) ==
    Refreshed(IF d.core THEN [d EXCEPT !.core = FALSE, !.start = NotStarted, !.world = Unlisten(@)]
              ELSE d)

(* The gate's verdict on what is there now, whatever the cache holds *)
LiveSnapshot(d) == _status_snapshot(d.world, Rebuilt(d).cache, FALSE, d.core)
LiveBlockers(d) == GateBlockers(LiveSnapshot(d), preflight)

(* connect_xray from the gate on: j is the desk after the snapshot the gate  *)
(* takes of k.  Popen may fail.                                              *)
GatedStart(k) ==
    UNION {IF prefs.gate /\ evaluate_startup_gate(Snapshot(j), preflight) = "fail" THEN {j}
           ELSE {j, [j EXCEPT !.core = TRUE,
                              !.start = [gated |-> prefs.gate, live |-> LiveBlockers(j),
                                         recent |-> \/ j.error
                                                    \/ j.cache.fresh /\ j.cache.key = j.active]]}
           : j \in IF prefs.gate THEN {Advised(t) : t \in get(k, FALSE)} ELSE {k}}

(* A missing key may come back from its sidecar before the gate looks. *)
connect_xray(d) ==
    IF d.core THEN Refreshed(d)
    ELSE IF Raises(d) THEN {d}
    ELSE IF d.world.loopback THEN refresh_status(d)
    ELSE IF d.world.xray = "none" \/ ConfigOf(d.world, d.active) = "missing" THEN {d}
    ELSE IF d.world.key THEN GatedStart(d)
    ELSE {d} \cup GatedStart([d EXCEPT !.world.key = TRUE])

(* _select_profile for a profile of the picker *)
_select_profile(d, p) == Refreshed([d EXCEPT !.active = p])

_active_profile_intent(p) == IF p \in StandardProfiles THEN p ELSE "balanced"

(* The profile apply_recommended_profile goes for, and the winner file: the  *)
(* report's selection as it stands, however old, else a new recommendation.  *)
Recommended(d, counter) ==
    LET labels == IF report.labels # {} THEN report.labels
                  ELSE derive_strategy_labels(report.phase, {})
        intent == IF report.profile # None THEN report.profile ELSE _active_profile_intent(d.active)
    IN  IF report.selected # None THEN [selected |-> report.selected, winner |-> d.winner]
        ELSE recommend_profile(d.world, labels, intent, counter, d.winner)

(* The rest of it once the user has agreed: a profile without a file is not  *)
(* selected; one that is selected is remembered after the refresh.           *)
Applied(d, pick) ==
    LET t == [d EXCEPT !.winner = pick.winner]
    IN  IF pick.selected \notin d.world.profiles THEN {t}
        ELSE {[s EXCEPT !.winner = pick.selected] : s \in _select_profile(t, pick.selected)}

-----------------------------------------------------------------------------
(* The commands and their steps.  "probe" stands for one or more tools that  *)
(* only print; "pip" for the packages an install needs first; the checks of  *)
(* the validation page have a readiness probe and a decision report of their *)
(* own, the latter without a callback ("decision_check").                    *)
SingleCommands ==
    {"probe", "readiness", "health", "path_scorer", "decision", "profiles", "ca", "restrict",
     "wrap", "unwrap", "preflight", "ja3"}

RepairSteps ==
    <<"profiles", "probe", "validate", "probe", "static_preflight", "probe">>

(* rotate: the user agrees to a new CA, asked when a file of it is missing *)
Steps(label, rotate) ==
    CASE label \in SingleCommands -> <<label>>
      [] label = "decision_check" -> <<"decision">>
      [] label = "setup_check" -> <<"validate", "static_preflight", "probe">>
      [] label = "repair" -> IF rotate THEN Append(RepairSteps, "ca") ELSE RepairSteps
      [] label = "page_tools" -> <<"pip", "playwright">>
      [] label = "stealth_tools" -> <<"pip", "cloak">>
      [] label = "all_tools" -> <<"pip", "playwright", "pip", "cloak", "pip">>
      [] label = "download" -> <<"download">>

CommandLabels == SingleCommands \cup {"decision_check", "setup_check", "repair", "page_tools",
                                     "stealth_tools", "all_tools", "download"}

(* Early returns before run_async or run_sequence; a dialog the user declines *)
(* is a command that is not started.                                          *)
MayStart(label) ==
    CASE label = "path_scorer" -> report # NoReport
      [] label \in {"restrict", "wrap"} -> world.key
      [] label = "repair" -> world.config # "missing"
      [] OTHER -> TRUE

StaticPreflight == [GuiPreflight EXCEPT !.skip_cert = TRUE, !.skip_runtime = TRUE, !.no_dns = TRUE]

(* The exit code of a step that is not cut short, on the config it was given. *)
ExitCodes(w, step) ==
    CASE step = "validate" -> {validate_config_main(w)}
      [] step = "static_preflight" -> {preflight_main(w, StaticPreflight)}
      [] step = "preflight" -> {preflight_main(w, GuiPreflight)}
      [] step = "decision" -> {validate_config_main(w)}
      [] step = "health" -> {health_main(w, FALSE)}
      [] step = "profiles" -> {IF w.config \in {"pinned", "unpinned"} THEN 0 ELSE 1}
      [] step = "ca" -> {IF w.xray = "none" THEN 2 ELSE 0}
      [] step = "restrict" -> {IF w.key THEN 0 ELSE 1}
      [] OTHER -> {0, 1}

(* generate_profiles writes the four standard profiles from the primary one; *)
(* whether git then sees a change depends on what is in its index.           *)
ProfilesGenerated(w) ==
    {[w EXCEPT !.profiles = @ \cup StandardProfiles, !.synced = s] : s \in BOOLEAN}

(* A new pair, which no store knows yet *)
CaGenerated(w) ==
    [w EXCEPT !.cert = TRUE, !.key = TRUE, !.pair = "match", !.expiry = "valid",
              !.acl = "restricted", !.trust = "untrusted"]

(* --force replaces a binary that is there already. *)
XrayInstalled(w) == [w EXCEPT !.xray = "recent"]

normalize_validation(observed, expected) ==
    IF observed = None THEN "not_measured" ELSE IF expected = None THEN "measured"
    ELSE IF observed = expected THEN "match" ELSE "mismatch"

(* verify_ja3_against_oracle writes evidence when the oracle names a hash,   *)
(* here one of two; there may be none to expect.                             *)
EvidenceSaved(w) ==
    {w} \cup {[w EXCEPT !.ja3 = normalize_validation(observed, expected)] :
                observed \in {"a", "b"}, expected \in {"a", None}}

(* What a step that ends with 0 leaves behind *)
Worlds(w, step) ==
    CASE step = "profiles" -> ProfilesGenerated(w)
      [] step = "ca" -> {CaGenerated(w)}
      [] step = "restrict" -> {[w EXCEPT !.acl = "restricted"]}
      [] step = "wrap" -> {[w EXCEPT !.acl = "restricted", !.key = k] : k \in BOOLEAN}
      [] step = "unwrap" -> {[w EXCEPT !.key = TRUE]}
      [] step = "download" -> {XrayInstalled(w)}
      [] step = "playwright" -> {[w EXCEPT !.playwright = TRUE]}
      [] step = "cloak" -> {[w EXCEPT !.cloak = TRUE]}
      [] step = "ja3" -> EvidenceSaved(w)
      [] OTHER -> {w}

(* The commands that are given the selected config; the others read the      *)
(* primary one.                                                              *)
ConfigArgument(label) == IF label \in {"preflight", "decision"} THEN active ELSE "standard"

(* Something the user does, within the bound, once the refresh that ends     *)
(* __init__ has built the first readiness or failed to.                      *)
Act ==
    /\ mode = "gui" /\ used.acts < MaxActs
    /\ cache.held \/ error
    /\ used' = [used EXCEPT !.acts = @ + 1]

Started(label, rotate) ==
    /\ busy' = TRUE
    /\ worker' = [at |-> "running", label |-> label, config |-> ConfigArgument(label),
                  todo |-> Steps(label, rotate), final |-> 0, failed |-> FALSE]

(* run_async and run_sequence; run_ja3_oracle takes a snapshot first *)
RunCommand(label, rotate) ==
    /\ Act /\ ~ busy
    /\ MayStart(label)
    /\ rotate => label = "repair" /\ (~ world.cert \/ ~ world.key)
    /\ label = "ja3" => ~ Raises(Desk)
    /\ \E d \in IF label = "ja3" THEN {Advised(t) : t \in get(Desk, FALSE)} ELSE {Desk} : Becomes(d)
    /\ Started(label, rotate)
    /\ UNCHANGED <<mode, preflight, report, prefs, stuck, last, draft>>

\* Mutant: the code of the last step is kept.
LastCode(final, code) == code

FirstFailure(final, code) == IF final = 0 THEN code ELSE final

\* Mutant: the timeout is not caught and ends the thread without a post.
StepEndsUncaught(code) ==
    worker' = [worker EXCEPT !.todo = Tail(@), !.final = FirstFailure(@, code),
                             !.failed = @ \/ code # 0,
                             !.at = CASE code = 124 -> "dead"
                                      [] Len(worker.todo) = 1 -> "posted"
                                      [] OTHER -> "running"]

(* One turn of the worker's loop: the command runs to its exit code, or to   *)
(* its timeout or an OSError (124 and 1, here one code), and the loop goes   *)
(* on.  The last turn posts the result to the Tk loop.                       *)
StepEnds(code) ==
    worker' = [worker EXCEPT !.todo = Tail(@), !.final = FirstFailure(@, code),
                             !.failed = @ \/ code # 0,
                             !.at = IF Len(worker.todo) = 1 THEN "posted" ELSE "running"]

Running == mode = "gui" /\ worker.at = "running"

(* The report goes to its file whatever the verdict, unless the tool raises. *)
PreflightStep(w) ==
    /\ Head(worker.todo) = "preflight"
    /\ \E code \in ExitCodes(w, "preflight") : StepEnds(code)
    /\ preflight' = IF ValidationRaises(w) THEN preflight ELSE PreflightOverall(w, GuiPreflight)
    /\ UNCHANGED <<world, report, winner>>

DecisionStep(w) ==
    /\ Head(worker.todo) = "decision"
    /\ \E phase \in Phases, counter \in Counters :
         LET out == decision_report(w, phase, {}, _active_profile_intent(worker.config), counter,
                                    winner)
         IN  /\ StepEnds(out.exit)
             /\ report' = IF out.written THEN out.report ELSE report
             /\ winner' = out.winner
    /\ UNCHANGED <<world, preflight>>

(* readiness.py --json puts the advisor's plan into its output. *)
ReadinessStep(w) ==
    LET state == build_project_state(w, NoOptions)
    IN  /\ Head(worker.todo) = "readiness"
        /\ StepEnds(readiness_main(state))
        /\ winner' = build_advisor_plan(w, report, state, winner).winner
        /\ UNCHANGED <<world, preflight, report>>

OtherStep(w) ==
    /\ Head(worker.todo) \notin {"preflight", "decision", "readiness"}
    /\ \E code \in ExitCodes(w, Head(worker.todo)) :
         /\ StepEnds(code)
         /\ world' \in IF code = 0 THEN Worlds(world, Head(worker.todo)) ELSE {world}
    /\ UNCHANGED <<preflight, report, winner>>

CutShort ==
    /\ StepEnds(124)
    /\ UNCHANGED <<world, preflight, report, winner>>

RunStep ==
    /\ Running
    /\ LET w == Selected(world, worker.config)
       IN  PreflightStep(w) \/ DecisionStep(w) \/ ReadinessStep(w) \/ OtherStep(w) \/ CutShort
    /\ UNCHANGED <<mode, prefs, active, cache, error, failure, core, start, busy, stuck, last, used,
                   draft>>

-----------------------------------------------------------------------------
(* The after callbacks that end in a refresh *)
CallbackRefreshes(label, code) ==
    label \in {"preflight", "ja3"} \/ (label \in {"restrict", "wrap", "unwrap"} /\ code = 0)

\* Mutant: the exit code is not asked.
AppliesAfterFailure(label, code) ==
    /\ label = "decision" /\ prefs.auto
    /\ report.selected # None /\ report.phase # "healthy"

(* _after_decision_report *)
AutoApplies(label, code) ==
    /\ label = "decision" /\ code = 0 /\ prefs.auto
    /\ report.selected # None /\ report.phase # "healthy"

FinishCallback(d, label, code) ==
    IF CallbackRefreshes(label, code) THEN refresh_status(d)
    ELSE IF AutoApplies(label, code) THEN Applied(d, Recommended(d, 0))
    ELSE {d}

BusyAfter(raised) == raised

TakesPost == mode = "gui" /\ worker.at = "posted" /\ worker' = Idle

(* _finish_command: the failure is noted, the callback runs, and only then   *)
(* is_busy is cleared; an exception of the callback's refresh leaves it set. *)
_finish_command ==
    LET noted == [Desk EXCEPT !.failure = worker.final # 0]
        raised == CallbackRefreshes(worker.label, worker.final) /\ Raises(Desk)
        called == FinishCallback(noted, worker.label, worker.final)
    IN  /\ TakesPost
        /\ busy' = BusyAfter(raised)
        /\ stuck' = (stuck \/ raised)
        /\ \E d \in IF raised THEN {noted} ELSE UNION {Refreshed(c) : c \in called} : Becomes(d)
        /\ UNCHANGED <<mode, preflight, report, prefs, last, used, draft>>

(* A handler on the Tk thread that leaves the worker and the files alone *)
Handled(results) ==
    /\ \E d \in results : Becomes(d)
    /\ UNCHANGED <<mode, preflight, report, prefs, busy, worker, stuck, last, draft>>

(* The same when nobody has asked for it *)
Happens(results) == mode = "gui" /\ Handled(results) /\ UNCHANGED used

(* The loop of _periodic_status_refresh skips its turn while a command runs; *)
(* run_status_snapshot and the refresh after a start do not.                 *)
RefreshStatus == ~ Raises(Desk) /\ Happens(refresh_status(Desk))

ShowSmartTips == Act /\ Handled({Advised(t) : t \in get(Desk, TRUE)})

SelectProfile(p) ==
    /\ p \in {"standard"} \cup world.profiles /\ p # active
    /\ Act /\ Handled(_select_profile(Desk, p))

(* A restart stops the core and starts it on the new profile. *)
ApplyRecommended(counter, restart) ==
    /\ Act
    /\ restart => core
    /\ LET applied == Applied(Desk, Recommended(Desk, counter))
           stopped == UNION {disconnect_xray(d) : d \in applied}
       IN  Handled(IF restart THEN UNION {connect_xray(d) : d \in stopped} ELSE applied)

ConnectXray == Act /\ Handled(connect_xray(Desk))

(* Start Core without a binary offers the download. *)
OfferDownload ==
    /\ ~ core /\ ~ Raises(Desk) /\ ~ world.loopback /\ world.xray = "none"
    /\ RunCommand("download", FALSE)

DisconnectXray == Act /\ Handled(disconnect_xray(Desk))

(* The two switches of the settings, written to gui-preferences.json *)
TogglePreference(p) ==
    /\ Act
    /\ prefs' = [prefs EXCEPT ![p] = ~ @]
    /\ UNCHANGED <<mode, world, preflight, report, winner, active, cache, error, failure, core,
                   start, busy, worker, stuck, last, draft>>

-----------------------------------------------------------------------------
(* The machine: twelve seconds pass, a fact changes, the core listens, and   *)
(* it exits (_handle_xray_exit).                                             *)
CacheAges ==
    /\ cache.held /\ cache.fresh
    /\ Happens({[Desk EXCEPT !.cache.fresh = FALSE]})

Drift(fact, value) ==
    /\ mode = "gui" /\ used.drifts < MaxDrifts /\ world[fact] # value
    /\ world' = [world EXCEPT ![fact] = value]
    /\ used' = [used EXCEPT !.drifts = @ + 1]
    /\ UNCHANGED <<mode, preflight, report, winner, prefs, active, cache, error, failure, core,
                   start, busy, worker, stuck, last, draft>>

CoreListens ==
    /\ core /\ "127.0.0.1" \notin world.lines
    /\ Happens({[Desk EXCEPT !.world.lines = @ \cup {"127.0.0.1"}, !.world.loopback = TRUE]})

CoreExits == core /\ Happens(disconnect_xray(Desk))

-----------------------------------------------------------------------------
(* The shell's tools *)
Tool(tool, exit, says) ==
    /\ mode = "shell" /\ used.tools < MaxTools
    /\ last' = [tool |-> tool, exit |-> exit, says |-> says]
    /\ used' = [used EXCEPT !.tools = @ + 1]
    /\ UNCHANGED <<mode, world, prefs, active, cache, error, failure, core, start, busy, worker,
                   stuck, draft>>

(* The text view, on a terminal without --json, builds no plan. *)
ShellReadiness(o) ==
    LET state == build_project_state(world, o)
    IN  /\ Tool("readiness", readiness_main(state), state.next_action)
        /\ winner' \in {winner, build_advisor_plan(world, report, state, winner).winner}
        /\ UNCHANGED <<preflight, report>>

ShellPreflight(o) ==
    /\ Tool("preflight", preflight_main(world, o),
            IF o.skip_cert \/ o.skip_runtime THEN "partial" ELSE "full")
    /\ preflight' = IF ValidationRaises(world) THEN preflight ELSE PreflightOverall(world, o)
    /\ UNCHANGED <<report, winner>>

ShellHealth(skip) ==
    LET groups == HealthGroups(world, skip)
    IN  /\ Tool("health", health_main(world, skip),
                build_policy_recommendation(groups, HealthOverall(groups)).suggested)
        /\ UNCHANGED <<preflight, report, winner>>

ShellVerified(page) ==
    LET bundle == build_bundle(build_project_state(world, NoOptions), page)
    IN  /\ Tool("verified", verified_main(bundle),
                IF bundle.release_blockers = {} THEN None ELSE "blocked")
        /\ UNCHANGED <<preflight, report, winner>>

ShellDecision(phase, hints, profile, counter) ==
    LET out == decision_report(world, phase, hints, profile, counter, winner)
    IN  /\ Tool("decision", out.exit, out.report.action)
        /\ report' = IF out.written THEN out.report ELSE report
        /\ winner' = out.winner
        /\ UNCHANGED preflight

ShellApply(hints, remember) ==
    LET out == apply_strategy_profile(world, report, hints, remember, winner)
    IN  /\ Tool("apply", out.exit, out.selected)
        /\ winner' = out.winner
        /\ UNCHANGED <<preflight, report>>

ShellAdvise ==
    LET plan == build_advisor_plan(world, report, build_project_state(world, NoOptions), winner)
    IN  /\ Tool("advise", 0, plan.top)
        /\ winner' = plan.winner
        /\ UNCHANGED <<preflight, report>>

(* onboard.py: the advisor's plan, then the playbook; --skip-playbook ends   *)
(* like a dry run.                                                           *)
ShellOnboard(persona, dry_run) ==
    LET plan == build_advisor_plan(world, report, build_project_state(world, NoOptions), winner)
        run == run_playbook(persona, dry_run)
    IN  /\ Tool("onboard", IF run.overall = "pass" THEN 0 ELSE 1, persona)
        /\ winner' = plan.winner
        /\ UNCHANGED <<preflight, report>>

ShellScore ==
    /\ Tool("path_scorer", IF report = NoReport THEN 1 ELSE 0, build_advisory(report).advice)
    /\ UNCHANGED <<preflight, report, winner>>

(* generate_profiles.py writes a file for every profile; any one of them may *)
(* be the --base of the next call.                                           *)
GenerateProfiles(profile, offset) ==
    /\ mode = "build" /\ used.tools < MaxBuilds
    /\ OffsetAllowed(offset)
    /\ draft' = generate_profile(draft, profile, offset)
    /\ used' = [used EXCEPT !.tools = @ + 1]
    /\ UNCHANGED <<mode, world, preflight, report, winner, prefs, active, cache, error, failure,
                   core, start, busy, worker, stuck, last>>

-----------------------------------------------------------------------------
(* load_preferences where nothing was saved: the gate is on, applying is not. *)
DefaultPreferences == [gate |-> TRUE, auto |-> FALSE]

(* An earlier preflight may have left a failed report behind. *)
Init ==
    /\ \/ mode = "shell" /\ world \in ShellWorlds /\ report \in Reports /\ draft = world.base
       \/ mode = "gui" /\ \E g \in GuiWorlds : world = g[1] /\ report = g[2] /\ draft = g[1].base
       \/ mode = "build" /\ world = Healthy /\ report = NoReport /\ draft \in Bases
    /\ preflight \in IF mode = "shell" THEN {None, "fail"} ELSE {None}
    /\ winner = None
    /\ prefs = DefaultPreferences
    /\ active = "standard" /\ cache = NoCache /\ error = FALSE /\ failure = FALSE
    /\ core = FALSE /\ start = NotStarted
    /\ busy = FALSE /\ worker = Idle /\ stuck = FALSE
    /\ last = NoTool /\ used = [drifts |-> 0, acts |-> 0, tools |-> 0]

GuiNext ==
    \/ \E label \in CommandLabels, rotate \in BOOLEAN : RunCommand(label, rotate)
    \/ OfferDownload
    \/ RunStep
    \/ _finish_command
    \/ RefreshStatus
    \/ ShowSmartTips
    \/ \E p \in Picks : SelectProfile(p)
    \/ \E counter \in Counters, restart \in BOOLEAN : ApplyRecommended(counter, restart)
    \/ ConnectXray
    \/ DisconnectXray
    \/ \E p \in {"gate", "auto"} : TogglePreference(p)

MachineNext ==
    \/ CacheAges
    \/ \E d \in Drifts : Drift(d[1], d[2])
    \/ CoreListens
    \/ CoreExits

ShellNext ==
    \/ \E o \in Options : ShellReadiness(o)
    \/ \E o \in PreflightOptions : ShellPreflight(o)
    \/ \E skip \in BOOLEAN : ShellHealth(skip)
    \/ \E page \in PageOutcomes : ShellVerified(page)
    \/ \E phase \in Phases \cup {None}, hints \in Hints, profile \in Intents,
          counter \in Counters : ShellDecision(phase, hints, profile, counter)
    \/ \E hints \in Hints, remember \in BOOLEAN : ShellApply(hints, remember)
    \/ ShellAdvise
    \/ \E persona \in Personas, dry_run \in BOOLEAN : ShellOnboard(persona, dry_run)
    \/ ShellScore
    \/ \E profile \in StandardProfiles, offset \in Offsets : GenerateProfiles(profile, offset)

Next == GuiNext \/ MachineNext \/ ShellNext

(* Every command has a timeout and the Tk loop takes what is posted to it:   *)
(* the worker's part of RunStep and of _finish_command is fair.              *)
Turn == Running /\ \E code \in {0, 1, 2, 124} : StepEnds(code)

Spec == Init /\ [][Next]_vars /\ WF_worker(Turn) /\ WF_worker(TakesPost)

-----------------------------------------------------------------------------
(* The deciders on one machine, looked at afresh *)
FreshState == build_project_state(Selected(world, active), NoOptions)
FreshSnapshot == LiveSnapshot(Desk)
FailedChecks ==
    {c.id : c \in {d \in Checks(Selected(world, active), NoOptions) : d.status = "fail"}}

(* The header says Ready of a machine that readiness fails only when the     *)
(* certificate has expired, which the header does not ask.                   *)
HeaderHonest ==
    last = NoTool /\ mode = "shell" /\ _status_level(FreshSnapshot) = "pass"
       => FailedChecks \subseteq {"cert.expiry"}

(* When readiness says Start Core, starting it meets no blocker but the      *)
(* key's permissions, the version pin and the failed report of an earlier    *)
(* preflight, which readiness asks later or never; and the last of these is  *)
(* lifted by running preflight again, unless the config does not validate.   *)
StartCoreStarts ==
    LET w == Selected(world, active)
    IN  last.tool = "readiness" /\ last.says = "Start Core"
          => /\ GateBlockers(FreshSnapshot, preflight)
                   \subseteq {"key_acl", "xray_pin", "preflight_fail"}
             /\ validate_config_main(w) = 0 => preflight_main(w, GuiPreflight) = 0

(* When it has nothing left to repair, neither has the gate but the pin and  *)
(* an earlier preflight, which would pass now unless the config does not     *)
(* validate or something listens; and the only checks that fail are ones     *)
(* that readiness never guides to.                                           *)
GuideComplete ==
    LET w == Selected(world, active)
    IN  last.tool = "readiness" /\ FreshState.next_action = "Run Page Check"
          => /\ GateBlockers(FreshSnapshot, preflight) \subseteq {"xray_pin", "preflight_fail"}
             /\ validate_config_main(w) = 0 /\ (\A l \in w.lines : ~ MarkedExposed(l))
                  => preflight_main(w, GuiPreflight) = 0
             /\ FailedChecks \subseteq {"cert.expiry"}
             /\ FreshState.repairs \subseteq {"cloakbrowser"}

(* A full preflight that passes leaves readiness nothing to fail but what    *)
(* preflight does not look at: the pair and the expiry date.                 *)
PreflightCovers ==
    last.tool = "preflight" /\ last.says = "full" /\ last.exit = 0
       => FailedChecks \subseteq {"cert.key_match", "cert.expiry"}

(* Path scores and path states are two readings of one phase: a worse state  *)
(* has a lower score.                                                        *)
ScoresFollowStates ==
    LET rank == [s \in {"HEALTHY", "SUSPECT", "QUARANTINED", "CIRCUIT_OPEN"} |->
                   CASE s = "HEALTHY" -> 3 [] s = "SUSPECT" -> 2 [] s = "QUARANTINED" -> 1
                     [] OTHER -> 0]
    IN  \A p, q \in ValidPhases :
          rank[PathStatus(p)] > rank[PathStatus(q)] => BaseScore(p) > BaseScore(q)

(* The independent deciders of gui.py, readiness.py, preflight_gate.py,      *)
(* preflight.py and path_scorer.py do not contradict each other on one       *)
(* machine, but for the gaps each part names.                                *)
VerdictsAgree ==
    HeaderHonest /\ StartCoreStarts /\ GuideComplete /\ PreflightCovers /\ ScoresFollowStates

(* refresh_status paints every view from one snapshot, a cached one too: no  *)
(* view but the version pin's is red under a header that says Ready, the     *)
(* diagnostic title is then cleared and the main button asks for no repair,  *)
(* and under a red header the banner is red too, unless the certificate and  *)
(* the key do not match, which the banner does not ask.                      *)
ViewsAgree ==
    LET snap == IF mode = "gui" THEN Snapshot(Desk) ELSE FreshSnapshot
        level == _status_level(snap)
    IN  /\ level = "pass" => /\ "fail" \notin ViewLevels(snap, level)
                             /\ DiagnosticTitle(snap, level, FALSE) = "cleared"
                             /\ connection_state(snap, core) # "No core"
                             /\ PrimaryAction(snap, FALSE) \notin
                                   {"config_folder", "generate_ca", "health_tab"}
        /\ level = "fail" => \/ Banner(snap, level).level = "fail"
                             \/ snap.fields.cert_key_match = "mismatch"

(* The connect gate is not outdated: when a gated start of the core would    *)
(* have been blocked by the facts of that moment, the readiness it was       *)
(* judged on was under twelve seconds old and of the same config, or its     *)
(* rebuild had failed (GuiReadinessCache.get).                               *)
GateJudgesRecentFacts ==
    core /\ start.gated => start.live = {} \/ start.recent

(* The header says Ready, or would but for a readiness build that failed *)
LooksReady(d) == _status_level([Snapshot(d) EXCEPT !.error = FALSE]) = "pass"

(* A command that failed in any of its steps is not forgotten: when it       *)
(* finishes the GUI remembers the failure (run_sequence, _finish_command),   *)
(* unless a refresh on the way found the setup ready and wiped it.           *)
FailureShown ==
    [][ worker.at = "posted" /\ worker.failed /\ worker' # worker
          => failure' \/ LooksReady(Desk)' ]_vars

(* Profiles change for a reason: the winner file names a profile that exists *)
(* and was either applied or recommended without failure labels, which is    *)
(* more than the docs allow (WinnerWasApplied), and when a decision report   *)
(* switches the profile by itself the user has asked for that, the report    *)
(* succeeded, its phase is a failure and the profile is the one it selected. *)
ProfileHasCause ==
    [][ /\ winner' # winner
             => /\ winner' \in world.profiles
                /\ winner' = active' \/ report'.labels = {} \/ last'.tool = "apply"
        /\ worker.at = "posted" /\ active' # active /\ worker' # worker
             => /\ prefs.auto /\ ~ worker.failed
                /\ report.phase # "healthy" /\ active' = report.selected ]_vars

(* strategy_winner.py: "Persist last successful strategy profile": the file  *)
(* changes to a profile that is in use, or that apply_strategy_profile.py    *)
(* has been asked for.                                                       *)
WinnerWasApplied ==
    [][ winner' # winner => winner' = active' \/ last'.tool = "apply" ]_vars

(* The two switches of a profile are in force: the first rule for UDP 443    *)
(* and the one for every address send where PROFILE_POLICIES says.           *)
PolicyInForce(c, profile) ==
    LET udp == SelectInSeq(c.rules, LAMBDA r : r.matches = "udp443")
        any == SelectInSeq(c.rules, LAMBDA r : r.matches = "any_ip")
    IN  /\ udp # 0 /\ c.rules[udp].out = PROFILE_POLICIES[profile].udp443
        /\ any # 0 => c.rules[any].out = PROFILE_POLICIES[profile].catchall

(* The tags tell what the rules do, and the remarks which profiles put a     *)
(* rule for UDP 443 there: this is what generate_profiles.py goes by.        *)
TagsTell(rules, remarks) ==
    /\ \A i \in DOMAIN rules :
         /\ rules[i].matches = "udp443" => \E p \in remarks : rules[i] = UdpRule(p)
         /\ \A p \in StandardProfiles : rules[i].tag = UdpRule(p).tag => rules[i] = UdpRule(p)
         /\ rules[i].tag \in CatchallTags => rules[i].matches = "any_ip"
    /\ \A i, j \in DOMAIN rules :
         rules[i].matches = "any_ip" /\ rules[j].matches = "any_ip" => i = j

(* What generate_profiles.py writes, validate_config.py accepts and does     *)
(* what the profile is for, also when it is made of its own earlier output:  *)
(* if the tags of the base tell what its rules do, they still do, and if     *)
(* validate_config.py accepts the base, the base is no profile of another    *)
(* name, its catch-all has the tag it is found by, and its ports have not    *)
(* been moved before when they are moved now, then both switches of the      *)
(* profile are in force.                                                     *)
GeneratedProfilesSound ==
    [][ \A profile \in StandardProfiles, offset \in Offsets :
          GenerateProfiles(profile, offset) /\ TagsTell(draft.rules, draft.remarks)
          => /\ TagsTell(draft.rules, draft.remarks)'
             /\ /\ "fail" \notin validate_config(draft)
                /\ draft.remarks \subseteq {profile}
                /\ \E i \in DOMAIN draft.rules : draft.rules[i].tag \in CatchallTags
                /\ offset = 0 \/ \A t \in REDIRECT_TO_INBOUND :
                                    draft.redirects[t] = DEFAULT_LOCAL_PORTS[t]
                => "fail" \notin validate_config(draft') /\ PolicyInForce(draft', profile) ]_vars

(* is_busy ends: every command that is started gives the buttons back,       *)
(* unless the refresh in its callback raises.                                *)
BusyEnds == busy ~> (~ busy \/ stuck)
=============================================================================
