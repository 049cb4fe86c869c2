# A TLA+ model of MITM-DomainFronting

This directory holds TLA+ modules translated from the repository's source, the
TLC configurations that check them on small instances, and TLAPS proofs that
hold for every value of the constants. `PROJECT.json` maps every definition to
the lines it models and lists runs, mutants, hazards, findings and theorems.

```
tlc -workers 2 -config MCPathScheduler.cfg MCPathScheduler     # a run
tlapm PathSchedulerProofs.tla                                  # a proof module
```

## 1. The system

The repository has two programs and a set of tools.

* The **control app** (Python, `scripts/`): a Tk GUI that starts, watches and
  stops a bundled Xray core, runs helper scripts as child processes, manages the
  local CA and advises on configurations.
* The **stream core** (Rust, `src/`): a loopback listener that parses a TLS
  ClientHello and decides which ALPN to lock, with a path scheduler, a
  certificate cache, an HTTP/2 coalescing guard and an overlay beside it.
* An optional **eBPF filter** (`tools/ebpf/`, `scripts/ebpf_xdp_loader.py`) that
  drops TCP while no supervised core is alive.

### Inventory

| component | state | operations | what is hard | what makes it correct |
|---|---|---|---|---|
| path scheduler (`src/scheduler.rs`) | per arm: breaker state, window of samples, load, failure streak, backoff, last probe | `begin_request`, `finish_request`, `select_probe`, `select_foreground` | callers answer late and in any order; probes and requests share `finish_request`; saturating arithmetic | state, streak and window agree; no phantom load; nobody starves |
| process supervisor (`core/process_supervisor.py`) | one child, its process group or job object | `spawn`, `terminate` | both may fail half-way; the child ends by itself at any time | what was started can be stopped |
| GUI core lifecycle (`gui.py` 4802-4961) | `xray_process`, `xray_supervisor`, `stream_count`, queued callbacks | connect, disconnect, restart, close; reader thread | reader threads and queued callbacks outlive the core they are about; the GUI may be killed | the running core is never forgotten; its exit is noticed |
| eBPF containment (`core/ebpf_containment.py`, `ebpf_xdp_loader.py`, `containment_xdp.bpf.c`) | filter attached, maps pinned, `supervisor_alive` | start and stop hooks, load, detach | the loader is another process and may be cut short | a started core is not behind a filter that drops its traffic |
| CA key at rest (`core/key_at_rest.py`, `mitm_trust.py`) | certificate, key, DPAPI sidecar, backups | wrap, unwrap, generate, rotate, remove, use by connect | killed between file operations; connect runs beside a helper | the newest key is not lost; certificate and key are of one pair |
| stream worker (`src/main.rs`, `src/parser.rs`) | buffers, read under way, settings | read records, parse, orchestrate | the peer chooses lengths, fragments and delays | memory and time bounded; the worker ends |
| ALPN policy and orchestration (`src/alpn_policy.rs`, `src/tls_orchestrator*.rs`) | none | lock, fall back, bypass | a second lock after a failed first one | what is locked is agreed by client, provider and upstream |
| GUI command runner and views (`gui.py` 3942-5894) | `is_busy`, last failure, selected profile, the worker thread and what it posts | `run_async`, `run_sequence`, `_finish_command`, `refresh_status`, `connect_xray`'s gate, `apply_recommended_profile`, `safe_auto_fix` | worker threads and timeouts; a callback that raises; a machine that changes between a check and its use | the GUI does not stay busy; a failed step is told; the views of one snapshot agree |
| cooperative overlay (`src/cooperative_overlay.rs`) | sessions, sequence numbers, path state | open, accept chunk, path failed/validated, prune, evict | replay across eviction; a clock that is an argument | at most N sessions; chunks in order, once |
| certificate cache (`src/cert_cache.rs`) | entries, denied names | `get`, `insert`, `mark_denied`, `denied_reason` | expiry and two caps in one insert, with ties and a clock that is an argument | every insert leaves both caps met and evicts the oldest |
| HTTP/2 coalescing guard (`src/h2_coalescing.rs`) | per session id: provider, authorities, last use | `assert_authority`, `evict_if_needed` | normalisation before comparison; an id that is evicted and comes back | a session has one provider until it is evicted |
| packet ingress (`src/ingress*.rs`, `src/backend_runtime.rs`) | batch buffer, queues, chosen backend | `recv_batch`, `send_batch`, `slot_for`; selection with fallbacks | references that outlive their batch; one bad reference among good ones | what is sent is what was filled, all of it or nothing |
| readiness and preflight (`core/readiness.py`, `core/gui_readiness.py`, `core/preflight_gate.py`, `preflight.py`, `health_probe.py`, `verified_session.py`) | a 12-second cache, a stored report | build state, gate, report | stale answers, answers for another config; five deciders with questions of their own | the deciders agree on one machine; the gate does not judge old facts |
| strategy selection (`core/strategy_*.py`, `decision_report.py`, `path_scorer.py`, `apply_strategy_profile.py`) | winner file, stored report, selected profile | probe, classify, score, recommend, apply | reads also write: a mere recommendation is remembered | a profile changes for a reason, to one that exists |
| advice and automation (`core/intelligent_advisor.py`, `core/automation_playbook.py`, `core/failure_classifier.py`) | none of its own; writes the winner file through the recommendation | plan, playbook | a status refresh runs it | as above |
| config build and validation (`generate_profiles.py`, `validate_config.py`, `core/ja3_pool_attach.py`; `config_source.py` and others) | config files | generate profiles, move ports, validate | profiles made of profiles; first match wins | what is generated validates and its policy is in force |
| probes, labs, browser helpers, trust-store reports, release tools | none | one-shot I/O | the network | not a matter for a model |

**Interactions.** The GUI calls the supervisor, and the supervisor calls the
containment hooks; the loader, another process, changes the same BPF maps. The
GUI's `connect_xray` reads and may rewrite the key file that helper commands
(separate processes started by `run_async`) rewrite. Reader threads post to the
Tk queue; the main thread runs user commands and callbacks one at a time. In the
stream core every connection has a worker thread and workers share nothing; the
scheduler is `&mut self` and its callers interleave around it. The caches and the
packet buffer are `&mut self` too and share nothing with each other.

`refresh_status` runs periodically and after commands. It reads the readiness
cache, which on a rebuild runs the advisor, which recommends a profile, which may
write the winner file. The connect gate reads the same cache and the preflight
report of whatever run stored one last. `apply_recommended_profile` reads the
stored decision report, selects the profile and restarts a running core.

## 2. Modules

| module | models | extended by |
|---|---|---|
| `PathScheduler` | `src/scheduler.rs` | `MCPathScheduler`, `PathSchedulerProofs` |
| `EbpfContainment` | the filter, its hooks, the loader | `ProcessSupervisor` |
| `ProcessSupervisor` | children, port, pipes, `spawn`, `terminate` | `XrayLifecycle` |
| `XrayLifecycle` | the GUI's use of both | `XrayLifecycleProofs` |
| `KeyAtRest` | CA files, helper commands, connect | `KeyAtRestProofs` |
| `AlpnPolicy` | the ALPN decision, as functions | `StreamWorker` |
| `StreamWorker` | `handle_client` and the record loop | `StreamWorkerProofs` |
| `OverlaySessions` | what a session of the overlay promises (abstract) | instance in `CooperativeOverlay` |
| `CooperativeOverlay` | `src/cooperative_overlay.rs` | `DataPlane`, `CooperativeOverlayProofs` |
| `CertCache`, `H2Coalescing`, `PacketIngress` | the other tables of the data plane | `DataPlane` |
| `DataPlane` | the four side by side | `MCDataPlane`, `DataPlaneProofs` |
| `ConfigProfiles` | the config, generation and validation of profiles | `Readiness` |
| `Readiness` | readiness checks, next action, repairs, startup gate | `Preflight` |
| `Preflight` | full preflight, health probe, verified session | `Strategy` |
| `Strategy` | staged probe, labels, scoring, decision report, path score, apply | `Advisor` |
| `Advisor` | advisor plan and playbooks | `GuiViews` |
| `GuiViews` | what the GUI shows of a snapshot | `GuiControl` |
| `GuiControl` | the GUI's commands, cache, gate and profiles; the same tools in a shell | `MCGuiControl`, `GuiControlProofs` |
| `EvictionLemmas` | no code: rank and count in a strict order, for the proofs | `CooperativeOverlayProofs`, `DataPlaneProofs`, `GuiControlProofs` |

Definitions keep the source's names (`finish_request`, `_handle_xray_exit`,
`lock_alpn`); names of our own are for the pieces of a handler.

**PathScheduler.** One function variable per field of `ArmStats`. The Rust
methods are atomic, so each is one action; `requests` and `probes` are the calls
a caller still owes an answer for. `finish_request` is the same for both, as in
the code, and it is the code's own asymmetry that a probe is not counted in
`in_flight` but its answer takes one off. The confidence bonus is irrational, so
`Outranks` compares what is certain and leaves the rest nondeterministic. The
jitter hash is any percentage of `Jitter`. `overtaken` is a history variable.
More than one probe per arm may be out: a late foreground failure reopens a
half-open circuit while its probe is still under way.

**EbpfContainment / ProcessSupervisor / XrayLifecycle.** A child is `unborn`,
`running`, `dying` (poll() still says it runs, descriptors are being closed) or
`exited`. `terminate` ends it (Linux: SIGTERM, SIGKILL, each awaited; Windows: the job, not awaited)
or raises. A reader binds to `self.xray_process` when it first *runs*; it may
therefore read a later core's pipe, or none. `Killed` ends the GUI at any step:
on Windows the job handle takes the child along, on Linux nothing does.
`Relaunch` starts a new launch that owns nothing. The platform is chosen in
`Init`. Only lines that announce an accepted stream are modelled; a line that
does not decode ends its reader (`ReaderFails`). The loader's calls are separate
steps: attach, pin, mark alive; mark dead, detach; and it may be killed between
two of them. Every bpftool call, the loader's and the hooks', may also fail: the
callers ignore the result, the map or the filter stays as it was, and `refused`
remembers what was refused since.

**KeyAtRest.** Key pairs are numbered by generation; a file holds a generation,
nothing, or a torn write. A helper command is a program counter over its file
operations and may be interrupted before any of them. `connect_xray` has its own
counter and may overlap a helper started from the GUI, because nothing in
`connect_xray` looks at `is_busy`.

**StreamWorker / AlpnPolicy.** Bytes are counted. The peer chooses record type
and length at each header and delivers any number of bytes at a time; the clock
ticks while a read waits. The parser's buffers, the check of a record against
the budget and the loop are as in the code; the body's fields end in an offer or
in `Invalid`. The settings are read per flow, after the parse.

**CooperativeOverlay / OverlaySessions.** `sessions` is the HashMap, `limits` what
`new` was given, raised to 1. Each method takes `&mut self` and is one step, its
refusals included. Clock readings, sequence numbers, payload lengths and the
authenticator's answers are arguments, and the crate only exports the type (its
tests are its only callers), so every call may bring any of them. The
eviction loop removes the oldest session until there is room; `Youngest` is the
set it leaves. `delivered` is a history variable: the numbers accepted in a
session's present life. `OverlaySessions` has only the live sessions and their
streams; `live` is mapped to the keys of the HashMap. A session may come back
after an eviction and then starts at 0: the abstract specification says so, and
promises order and uniqueness for one life.

**CertCache / H2Coalescing / PacketIngress / DataPlane.** Each method is one
action. The clock is an argument of the caller and nothing makes it grow, so any
call may bring any time. A key of the certificate cache is its rank in the derived
order of `CertCacheKey`, which breaks ties on last use. An authority of the HTTP/2
guard is what `normalize_authority` tells apart: form, host, port; `asserted` is a
history variable, what was accepted since a session was bound. A packet is a
length and a tag for its bytes; a reference is a slot, whether its offset is
aligned, and a length, and the caller may keep it as long as it likes. These tables
and the overlay share no state, so a behaviour of `DataPlane` exercises one of them.

**ConfigProfiles.** A config is its ports, redirects, listen address, DNS flag,
remarks and the routing rules one of the tools singles out, each with its tag, its
outbound and what it matches. `generate_profile` and `validate_config` are
functions on it.

**Readiness / Preflight / Strategy / Advisor / GuiViews.** Pure functions of a
*world*, a record of facts about the machine (config, Xray binary, certificate,
key and its permissions, lines of `netstat` about the port, profiles on disk, and
so on, in `FactValues`). A check is its id and its status. The winner file, which
some of these functions write, is an argument and a result. `GuiViews` maps one
status snapshot to the level of every view.

**GuiControl.** Three modes. In `gui` the main thread's handlers, the worker thread
and the machine interleave: a handler is a function from a `Desk` (the fields it
may change) to the set of desks it may leave, so a refresh nested in a callback
nested in a command is one step of the Tk loop, as in the program. `worker` is the
thread of `run_async` or `run_sequence`: it runs its steps one by one, each may
fail or time out, and posts its result; `_finish_command` takes the post. In
`shell` the same tools are run once on any of the worlds, with no preflight report
on disk or with the failed one of an earlier run, and `last` is what they said and
exited with; a tool that runs the advisor, readiness among them, may write the
winner file. In `build` profiles are generated from a config, and from
what was generated (`draft`). The core is running or not; its life is the subject of
`XrayLifecycle`, and that of the key file of `KeyAtRest`.

## 3. Runs

| run | expects | instance and why it is enough |
|---|---|---|
| `scheduler` | pass | two arms (starvation needs two), a window of two (so it shifts during a streak of three), two outstanding calls per arm (a late answer beside a probe), a clock with three readings past the first and the second backoff; from the third trip on the scaled u64 saturates |
| `scheduler_recovery` | violation | one arm: a foreground request begun before the trip closes the open circuit without a probe |
| `lifecycle` | pass | two cores (a late report needs an old and a new one), one accepted line each, two launches, both platforms, an external listener that comes and goes, containment enabled with an interface in the GUI's environment, a loader that may be cut short and bpftool calls that may be refused |
| `lifecycle_exit_liveness` | violation | a core that ends by itself leaves `supervisor_alive` at 1 |
| `lifecycle_parent_exit` | violation | on Linux a killed GUI leaves its core running |
| `key_at_rest` | pass | two generations (an old sidecar beside a new pair), four commands (wrap, rotate, unwrap, and one in between), each interrupted anywhere, connects beside them; DPAPI available |
| `key_stays_wrapped` | violation | the connect after a wrap with removal writes the plaintext back |
| `stream_worker` | pass | limit 24, record limit 6, lengths at, below and above each limit and zero, two ALPN offers, every combination of the settings; a timeout of two ticks |
| `alpn_downgrade` | violation | `reject_mismatch` refuses a downgrade to http/1.1 and the fallback locks it |
| `data_plane` | pass | certificates: four keys of three provider families, caps of 2 and 1 (each cap evicts where the other does not), lifetimes of zero and two, three clock readings; HTTP/2: three ids for two places, two providers; packets: lengths to one above the budget, two queued, two references per send (a good one beside a bad one), a slot refilled; overlay: three sessions for one or two places (eviction with a choice, ties included), limits of 0 given to `new`, clock readings far enough apart for an idle session, two chunk numbers (a replay, a gap), payloads at and above the limit. Symmetry in packet tags and providers, which are only compared |
| `control_plane` | pass | shell: every machine that differs from a healthy one in at most two facts (over a thousand), one tool each; GUI: two machines (one lacks Xray and has an invalid config and an old report), two user actions with everything they set off, one of two drifts (key permissions widened, config replaced by an array) at any moment; build: seven base configs, chains of three generations, offsets that move ports to free, to colliding and to impossible numbers |
| `winner_was_applied` | violation | one machine, one tool: a readiness probe writes a profile nobody applied to the winner file |

What the passing runs check, hazard by hazard, is in `PROJECT.json`; each
property has a mutant, a plausible bug in the mapped code that breaks it.

* Scheduler: `StateMatchesFailures`, `StreakIsNewestSamples` (streak and window
  tell one story), `NoPhantomLoad`, `HalfOpenHasProbe` (an arm in HalfOpen has a
  caller that can move it out), `NoProbeStarvation`, `OpenArmIsProbed`.
* Lifecycle: `OwnedCoreIsTracked`, `CloseLeavesNoCore`, `CoreNotBlackholed`,
  `CountEndsAtZero`, `ExitIsNoticed`, `RestartRefusedByOthers` (on Linux the core a
  restart has just stopped is off the port when its successor starts).
  `CoreNotBlackholed` excepts a loader run under way or cut short and the refusal of
  the last mark, or of a pin or detach of this filter; refusals before it, and every
  order of hooks and loader, are covered.
* Key: `KeySurvives`, `RotateIsUndoable`, `PairAgrees`, `StartsOnWholeKey`. The
  accidents that do lose a key or mix a pair are history variables (`cut`,
  `clobbered`, `discarded`, and for a start `overlap`) named in the properties,
  so that everything else is excluded.
* Stream: `BuffersBounded`, `PinnedPerByte` (what the read timeout does bound),
  `LockIsAgreed`, `WorkerEnds`.
* Overlay: `SessionCap`, `NoNeedlessEviction`, `SweepsLeaveNoIdleSession`,
  `RepliesHonest` (the answer to a chunk agrees with the stream), and
  `SessionsInOrder`, the refinement.
* Data plane: `InsertLeavesBounded` (after an insert both caps hold, nothing
  expired is left, and the new entry is gone only if the rules say so),
  `OneProviderPerSession`, `RebindOnlyAfterEviction`, `SendBatchFaithful` (a send
  queues exactly the packets its references were made for, or nothing; a slot
  refilled with the same length is the named exception).
* Control plane: `VerdictsAgree` (header, readiness, gate, preflight and path
  score do not contradict each other on one machine, but for the gaps the parts of
  the property name: among them that readiness says Start Core, or has nothing
  left to repair, while the failed report of an earlier preflight blocks the gate,
  in which case a new preflight passes if the config validates and, for the second,
  nothing listens), `ViewsAgree`,
  `GateJudgesRecentFacts` (a start that the facts of the moment would have blocked
  was judged on readiness under twelve seconds old, of the same config, or after a
  failed rebuild), `FailureShown`, `ProfileHasCause`, `GeneratedProfilesSound` (a
  profile made of a config that the validator accepts is accepted too and has its
  UDP and catch-all policy in force, if the base's tags tell what their rules
  match), `BusyEnds`.

**Bounds.** `MaxRequests`, `Clock`, `U64Max` (scaled), `MaxSpawns`, `MaxLines`,
`MaxEpochs`, `MaxGens`, `MaxCommands`, `MaxOffers`, `MaxWait`, `MaxClock`, `MaxSeq`,
`MaxNow`, `MaxSeen`, `MaxQueued`, `MaxRefs`, `OutLen`, `MaxDrifts`, `MaxActs`,
`MaxTools`, `MaxBuilds` and the sets `Lengths`, `TTLs`, `Picks`, `Reports`,
`Phases`, `Intents`, `Hints`, `Counters`, `Bases`, `Offsets`, `Drifts`,
`ShellWorlds` and `GuiWorlds` are bounds of the model, not of the code. `total_samples` counts to 2:
the code only asks whether it is above 1.

**Deadlock.** `CHECK_DEADLOCK FALSE` where the system may stop: the scheduler at
the end of its bounded clock, the key model after its last command, the worker
when it is done, the data plane and the control plane at their bounds. The
lifecycle runs check for deadlock.

**Fairness.**
* Scheduler: the clock moves, a probe loop keeps calling `select_probe`, and a
  caller that was given a probe answers. The last two are duties of the caller;
  the code itself has no timer. If a probe's answer is lost, its arm stays
  HalfOpen for good (a hazard in the list). `OpenArmIsProbed` leaves out a
  backoff that saturates beyond the clock.
* Lifecycle: reader threads are scheduled, Tk runs its queue and ends a command
  it has begun, a dying child ends. The user, the loader and a healthy core owe
  nothing.
* Stream worker: the thread runs and time passes; nothing of the peer. Without a
  timeout (0, or `set_read_timeout` failed, which is only a warning) a silent
  peer does pin a worker, so `WorkerEnds` is about `timed` workers.

* Control plane: `WF_worker(Turn)`, since every command runs with a timeout and so
  the worker's next step ends, and `WF_worker(TakesPost)`, since Tk runs what was
  posted to it. The user, the machine and the core owe nothing.

`KeyAtRest!TypeOK` is not part of a run; `KeyAtRestProofs!TypeCorrect` proves it.

## 4. Findings

Each violation run states what a comment or document says; `PROJECT.json` quotes it.

1. `scheduler.rs:194-195` says recovery happens through a single half-open probe
   only; a late foreground success also closes the circuit.
2. `docs/intelligent-automation.md:122` says the hooks update the liveness map
   when the core stops; they do not when it ends by itself.
3. The architecture document lists parent exit on Linux as ending the process
   group; a killed GUI sends no signal.
4. The wrap dialog says Xray will unwrap the key in memory; the key is written
   back to disk and stays there.
5. `alpn_policy.rs:10-14` says `RejectMismatch` fails closed when the upstream's
   choice is not the client's first; with the http/1.1 fallback configured
   (`tls_orchestrator.rs:159`) the refused downgrade is locked after all.
6. `strategy_winner.py:2` calls the winner the last *successful* profile, and
   `docs/intelligent-automation.md:69` has it written after a profile was applied;
   `recommend_profile` (`strategy_profiles.py:99`) writes what it recommends when
   there are no failure labels, and readiness, onboarding, the advisor, the decision
   report and every status refresh call it.

Observed while modelling, without a run of their own:
* With `MITM_EBPF_CONTAINMENT` unset in the GUI and the filter attached, a stop
  marks the map dead and no later start marks it alive: the next core's TCP is
  dropped. The lifecycle run and `ContainmentSafe` therefore assume it is set.
* `main.rs:21-23` calls the handshake timeout an upper bound on the whole hello. It
  bounds each read, and every byte starts it anew: `PinnedPerByte` has the bound.
* The hooks and the loader ignore the result of bpftool (`ebpf_containment.py:76`,
  77, 87), and line 59 passes the four bytes of the value as one argument, which
  bpftool most likely refuses, so that no mark may ever reach the map. The model
  leaves the outcome of each call open; after a refused mark alive the started core
  is dropped.
* With an interface in the GUI's environment every stop detaches the filter, so
  nothing drops TCP after a stop; `docs/reference/track-d-ebpf-helper-adr.md`
  says a stop leads to `XDP_DROP`.
* Between the loader's attach and its mark, TCP is dropped also for a running
  core; after a loader killed there, or a `--detach` without an interface, no
  hook reaches the map (`loader_cut`).
* After a restart on Windows the old core may still hold the port: the new one is
  refused as an external listener (`RestartRefused`).
* Rotation neither backs up nor removes the DPAPI sidecar, so a later unwrap puts
  the old key beside the new certificate. `remove_local` leaves it as well. The
  prompt at `gui.py:5867` speaks of deleting it; the code keeps it.
* `ensure_key_material_available` passes on any existing key file, a torn one too.
* A client without ALPN under inference gets no upstream selection and so the
  configured fallback.
* The size test at the end of the parser's loop cannot fire (`BuffersBounded`
  contains the reason); a hello whose four-byte header is split across records is
  rejected.

Readiness, gate and views:
* A config that is a JSON array reads as present and ok in readiness, while
  `config_proxy_endpoint` (`gui.py:362`) raises on it. The refresh then raises; if
  it was the callback of a command, `is_busy` stays set (`stuck`). Preflight,
  validation and the decision report raise as well.
* `preflight.py:258` marks any listener line on the port as exposed, so a full
  preflight beside the running core fails; the report is stored, has no age limit,
  and blocks later connects (`preflight_gate.py:51`) although readiness says Start
  Core. A new full preflight with the core stopped lifts it.
* A bare `::1` reads as exposed in readiness, and a line in TIME_WAIT as an open
  listener. A missing or wrapped key reads as permission "broad" and a
  group-readable one blocks the gate, while preflight says info and health passes.
* Start Core is offered while the key's permissions or the version pin block the
  gate. An expired CA fails readiness, is not guided to, and the header says Ready.
  The last three branches of `derive_next_action` cannot be reached.
* After a rebuild that fails, the gate judges the old state whatever its age or
  config; a fresh answer keeps an old error. A header that says Ready clears the
  last failure.

Strategy and automation:
* The recommendation is remembered with `--no-persist` too, and a remembered winner
  then overrides the intent. The session counter alone rotates picks.
* Auto-apply also switches for a TCP failure, whose label set is empty.
* `run_playbook` replaces `py` by the interpreter and keeps the launcher's argument
  `-3`, so every step that is not a dry run fails; `verified_session.py` exits 0 on a failed page check.

Profiles:
* A profile made of a strict profile is still judged as strict, by its remarks, and
  fails. Ports moved a second time leave the redirects behind. A catch-all without
  its tag stays direct in strict. Making debug again from a balanced profile that
  was made of debug keeps the direct UDP rule in front.
* The fakedns and high-stealth evasion configs fail `validate_config`
  (`route_inbound_references`).

Data plane: the map of denied names has no cap, and `slot_for` compares lengths
only, so a slot refilled with a packet of the same length is sent as if it were the
old one.

## 5. Proofs

| theorem | says |
|---|---|
| `PathSchedulerProofs!TypeCorrect` | every field keeps its type |
| `PathSchedulerProofs!BreakerSafe` | `StateMatchesFailures`, `HalfOpenHasProbe`, `NoPhantomLoad` |
| `PathSchedulerProofs!ProbeFairness` | `NoProbeStarvation` |
| `PathSchedulerProofs!WindowAgrees` | `StreakIsNewestSamples` |
| `XrayLifecycleProofs!TypeCorrect` | types, from `TypesAndPairing` |
| `XrayLifecycleProofs!CoreTracked` | `OwnedCoreIsTracked`, `CloseLeavesNoCore` |
| `XrayLifecycleProofs!ContainmentSafe` | `CoreNotBlackholed`, if containment is enabled |
| `XrayLifecycleProofs!RestartOnFreePort` | `RestartRefusedByOthers` |
| `XrayLifecycleProofs!CounterSettles` | `CountEndsAtZero` |
| `KeyAtRestProofs!TypeCorrect` | types, from `KeyInvariant` |
| `KeyAtRestProofs!NewestKeySurvives` | `KeySurvives` |
| `KeyAtRestProofs!RotationUndoable` | `RotateIsUndoable` |
| `KeyAtRestProofs!PairStaysTogether` | `PairAgrees` |
| `KeyAtRestProofs!WholeKeyAtStart` | `StartsOnWholeKey` |
| `StreamWorkerProofs!TypeCorrect` | types |
| `StreamWorkerProofs!ParserBounded` | `BuffersBounded` |
| `StreamWorkerProofs!TimeBounded` | `PinnedPerByte` |
| `StreamWorkerProofs!AlpnSound` | `LockIsAgreed` |
| `StreamWorkerProofs!NoEndlessHello` | each step but a wait lowers `Work`, a natural number; waits use up the timeout |
| `CooperativeOverlayProofs!TypeCorrect` | types |
| `CooperativeOverlayProofs!Implements` | `SessionsInOrder`: the table implements `OverlaySessions` |
| `CooperativeOverlayProofs!AnswersTrue` | `RepliesHonest` |
| `CooperativeOverlayProofs!SweepsComplete` | `SweepsLeaveNoIdleSession` |
| `CooperativeOverlayProofs!TableBounded` | `SessionCap` |
| `CooperativeOverlayProofs!EvictionJust` | `NoNeedlessEviction` |
| `DataPlaneProofs!CacheBounded` | `InsertLeavesBounded` |
| `DataPlaneProofs!OneProvider` | `OneProviderPerSession` |
| `DataPlaneProofs!RebindNeedsEviction` | `RebindOnlyAfterEviction` |
| `DataPlaneProofs!SendFaithful` | `SendBatchFaithful` |
| `GuiControlProofs!GateRecent` | `GateJudgesRecentFacts` |
| `GuiControlProofs!ViewsConsistent` | `ViewsAgree` |
| `GuiControlProofs!DecidersAgree` | `VerdictsAgree` |
| `GuiControlProofs!FailureKept` | `FailureShown` |
| `GuiControlProofs!ProfileChangesJust` | `ProfileHasCause` |
| `GuiControlProofs!ProfilesSound` | `GeneratedProfilesSound` |
| `GuiControlProofs!PrimaryProfilesSound` | every profile made of the repository's config, with any port offset, is accepted and has its policy in force |

They rest on the named assumptions of the modules (`SchedulerAssumption`,
`EbpfAssumption`, `SupervisorAssumption`, `LifecycleAssumption`, `KeyAssumption`,
`OffersAssumption`, `StreamAssumption`, `OverlayAssumption`, `CertAssumption`,
`H2Assumption`, `IngressAssumption`, `ControlAssumption`), which say that the
constants have their types; a machine of `GuiControl`, for one, is a record of the
facts, whatever their values, and a base is any config (a sequence of rules, ports
and the rest). `Clock` lies below `U64Max`, since a saturated
backoff must lie in the future. The arguments:

* *Breaker* (`BreakerInv`): the four invariants together are inductive; a state
  that follows the streak alone makes the order of answers irrelevant.
* *Probe order* (`OvertakeInv`): the claim about two arms is not inductive. Added:
  no probe lies in the future; an open arm's last probe lies before the end of
  its backoff; once b has overtaken a, b's last probe is later than a's, so
  the order of `last_probe_ms` puts a first from then on.
* *Window* : `PushKeepsStreak` is the one fact about the ring buffer, full or not.
* *Lifecycle* (`LifecycleInv`): added to the two claims are `ReportsAreTrue` (an
  exit report in the queue is about a child that has ended: the reason why the
  identity test in `_handle_xray_exit` is enough) and `BornInThePast`. Everything
  that does not spawn satisfies `StatusForward`; `TypesAndPairing` carries that
  process and supervisor name the same child.
* *Containment* (`AttachedIsReachable`): the filter is attached only on Linux with
  consent, and outside a loader run that is still pinning, or was cut, its maps
  are where the hook of `spawn` finds them. A mark that succeeds clears an earlier
  refusal of one, and a refused pin or detach stays in `refused` until the filter is gone or new,
  so with nothing refused the map says what the last hook wrote.
* *Restart* (`PortInv`): the property is about one step; the reason lies in the one
  before. A core of this launch on the port is the one the App holds (`PortIsOwned`),
  so stopping that one clears the port, and nothing of this launch takes it between
  the two halves of a restart (`RestartClears`).
* *Stream counter* (`CountInv`): the property speaks of an empty queue only, which
  says nothing of the step before. Added: while no reader can post any more, the
  last callback in a queue that is not empty is an exit report, and handling one,
  of whatever core, resets the counter; a child that was never started has no
  reader, so a new core does not inherit one.
* *Key at rest* (`KeyInv`): the properties are about file contents, the reasons are
  in the program counters. `StepOfCommand` ties each step to its command;
  `ConnectBeside` says beside which commands a connect can be, and that one that
  writes the key is never beside a wrap; `BuffersCurrent` that whoever is about to
  write a key holds what the sidecar still holds; `NewestInPlace` that without an
  accident a key file nobody is writing holds the newest key; `RotationKeeps` what
  a rotation has put aside at each of its steps, also when its backup directory is
  that of a rotation within the same second and holds that one's files.
* *Buffers* (`BufferInv`): a header is always of five bytes, what is wanted was
  checked against the budget, and the handshake is part of the raw bytes.
* *Time* (`TimeInv`): `age <= Timeout * bytes + idle` and `idle <= Timeout`.
* *ALPN*: `LockSound`, `FallbackSound` and `OrchestrationSound` are about the
  functions; the invariant only carries the outcome.
* *Work* (`Work`): four for each byte still allowed and a rank for the stage. Handling
  a record receives no byte, so a stage alone cannot fall all round the loop; a
  byte outweighs the rise of the rank when a header begins, and an empty record
  has cost five of them. `BufferInv` keeps it from going below zero. With it
  `WorkerEnds` needs of fairness only that an enabled worker step or tick happens.
* *Overlay* (`Linked`): a live session's counter is the length of its stream, a
  stream is 0, 1, 2, ..., a closed session has none. With it every call is an
  abstract step or a stutter, and each answer to a chunk follows from the counter.
  The counter saturates at u64::MAX; the assumption that no session gets that far
  is what makes it a step of one.
* *Evictions* (`EvictionLemmas`): the overlay's table, the certificate cache and the
  ranking of profiles all keep or pick by rank, "fewer than n are above it" in a
  strict order. The lemmas say that in a finite set the n greatest are at most n,
  that when somebody is left out they are exactly n and all above it, and that
  every place below the size is taken by somebody. The
  provers have no induction over data; the least number with a property, which
  well-foundedness of the naturals gives, takes its place. The rest is that last
  use with ties broken by key (or session id, or priority) is a strict order.
* *Certificate cache* (`CertInv`): the cache is a map of entries; the two evictions
  after the sweep only take away, so each cap survives the other.
* *HTTP/2 guard* (`H2Inv`): what was accepted in a session's present life names its
  provider; an eviction forgets both. The eviction of `RebindOnlyAfterEviction`
  needs that a table that is not empty has a least recently seen session.
* *Packets* (`IngressInv`): a reference given out for the present window still
  names its packet there; `send_batch` resolves every reference before it queues.
* *Control plane* (`ControlInv`): the deciders and views are functions, and
  `SnapshotsAgree`, `FailedAre`, `FreshBlockers`, `GuideRepairs`, `PreflightSaw`,
  `PreflightPasses` and `ScoreRanges` prove what they have in common on any machine.
  The invariant brings in history: a cached state was built of some machine (any: it
  may be old), what the shell's last tool said it said of this machine, a gated
  start went by recent facts, a failed step is in the code the worker will post, and
  a worker that is not idle holds `is_busy`. Handlers are composed of handlers;
  `Moves` and `Switches` say what each may do to a desk, and compose;
  `RecommendWrites` and `AdviseWrites` say what a recommendation and the advisor's
  plan may write. That a refresh wipes a failure only on a setup it has just seen
  ready (`Kept`) survives a second refresh in the same step because the cache is
  then fresh.
* *Profiles* (`BuildsConfigs`: the draft is always a config): the rule a tool looks
  for is the one of least index (`LeastIndex`); the UDP rule goes behind the private
  and regional one, or first, and every other rule and their order stay
  (`InsertedAt`, `Inserts`, `UdpInserted`); `CatchallSet` says what becomes of the
  first tagged catch-all. With `TagsTell`, which both edits keep (`InsertTells`,
  `CatchallTells`, `GeneratedTells`), what matches UDP 443 and what matches
  everything are the rules the two edits made (`PolicyHolds`), and `Accepted` says
  which checks of the validator can fail at all.

**Only model-checked.** The liveness properties (`OpenArmIsProbed`,
`ExitIsNoticed`, `WorkerEnds`, `BusyEnds`) and everything with ENABLED are outside this
prover; so is induction over data (what a recursive function computes for all
inputs), and a module that declares a RECURSIVE operator could not be proved
about, so none does. The other properties of the passing runs are proved,
`VerdictsAgree` and `ViewsAgree` among them, which the run evaluates on machines
two facts away from a healthy one and the proof on all. `GeneratedProfilesSound` has a condition, `TagsTell`: a hand-made
base may carry the catch-all's tag on a rule that matches something else, or a UDP
rule of its own in front, and then the policy need not be in force. The tools edit
rules by their tags and do not look at what they match, so the condition is on the
base; the property also says that it holds of the result.

## 6. Not modelled

* Widgets, themes, text, telemetry records and logging.
* Message boxes run a nested Tk event loop; callbacks inside one are not modelled.
* Socket authorisation in the BPF program (its mode is never set), unlinks of pins
  that fail, the containment state file.
* Helper commands run from a terminal while the GUI is open; ACL tightening, whose
  result the code ignores.
* The accept loop: it keeps no state besides its backoff after an error; it gives
  every connection a thread and keeps no count of them.
* Packet I/O of the two backends beyond their queues; the strings JA3 hashes.
* The ranking of providers over several reports in `path_scorer.py`.
* The merge of config sources, the linter and the evasion generator: batch steps of
  a release without state between them. Labs, packaging and download steps.
* Launching browsers and reading their pages, reading trust stores: a fact of the
  world stands for what they find.
* The components listed `not_modelled` in `PROJECT.json`, with the reason there.

## 7. Plan

The order is by what carries state and can go wrong between two actors.

1. Done: path scheduler; lifecycle with supervisor and containment; key at rest;
   stream worker with ALPN policy; overlay with its abstract specification.
2. Done: certificate cache, HTTP/2 guard and packet ingress (`DataPlane`).
3. Done: config profiles, readiness, preflight, strategy, advice, views and the
   command runner (`GuiControl`).
4. Done: proofs of every safety invariant and action property of the passing runs.
5. Left with TLC: the four liveness properties. Left to model: the components
   `PROJECT.json` lists as partly or not modelled, as far as they come to keep state.
