---------------------------- MODULE MCGuiControl ----------------------------
(* A small instance of GuiControl. *)
EXTENDS GuiControl

Changed(worlds) ==
    UNION {UNION {{[w EXCEPT ![f] = v] : v \in FactValues[f]} : f \in Facts} : w \in worlds}

(* The machines that differ from a healthy one in at most two facts *)
MCShellWorlds == Changed(Changed({Healthy}))

MCDrifts == {<<"acl", "world">>, <<"config", "array">>}

MCPhases == {"healthy", "tcp_refused", "tls_silent_drop"}
(* A report of an earlier session, about a machine that had every profile *)
OldReport == decision_report(Healthy, "tls_silent_drop", {}, "strict", 0, None).report
MCReports == {NoReport, OldReport}

(* No core runs: on a machine that is otherwise healthy, and on one without  *)
(* Xray, with a config that does not validate and the report of another.     *)
Stopped == [Healthy EXCEPT !.lines = {}, !.loopback = FALSE]
MCGuiWorlds ==
    {<<Stopped, NoReport>>,
     <<[Stopped EXCEPT !.config = "unpinned", !.base.dns = FALSE, !.xray = "none",
                        !.profiles = StandardProfiles], OldReport>>}

(* The primary config and hand-made variants of it: ports moved together, a  *)
(* catch-all or a regional rule without a tag, no listen address, one that   *)
(* is not loopback, an inbound that is missing                               *)
Moved == [Primary EXCEPT !.ports = [t \in DOMAIN @ |-> @[t] + 7],
                         !.redirects = [t \in DOMAIN @ |-> @[t] + 7]]
MCBases ==
    {Primary, Moved, [Primary EXCEPT !.rules[4].tag = Untagged],
     [Primary EXCEPT !.rules[2].tag = Untagged],
     [Primary EXCEPT !.listen = "unset"], [Primary EXCEPT !.listen = "other"],
     [Primary EXCEPT !.ports = [t \in DOMAIN @ \ {"meta_h2"} |-> @[t]]]}

(* 111 moves ports onto other default ports, 60000 out of the range *)
MCOffsets == {0, 100, 111, 60000}

(* One machine, for a question about what one tool writes *)
OneWorld == {Healthy}

MCHints == {{}, {"webrtc_leak"}}
=============================================================================
