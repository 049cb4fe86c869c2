--------------------------- MODULE ConfigProfiles ---------------------------
(***************************************************************************)
(* The Xray config as its tools see it: the operating profiles made of the *)
(* primary config (src/scripts/generate_profiles.py, core/                 *)
(* ja3_pool_attach.py) and the static validation (validate_config.py).     *)
(*                                                                         *)
(* Of the routing rules only those are kept that one of the tools singles  *)
(* out.  A rule is its tag, its outbound and what it matches; the other    *)
(* rules are neither touched nor asked for but by name.                    *)
(***************************************************************************)
EXTENDS Integers, Sequences, SequencesExt

StandardProfiles == {"strict", "balanced", "compatibility", "debug"}
Untagged == "no ruleTag"

DEFAULT_LOCAL_PORTS ==
    [mixed_in |-> 10808, google_h11 |-> 11666, google_h2 |-> 11777,
     fastly_h2 |-> 11888, meta_h2 |-> 11999]

InboundTags == DOMAIN DEFAULT_LOCAL_PORTS
DefaultPorts == {DEFAULT_LOCAL_PORTS[t] : t \in InboundTags}

(* redirect-out-x goes to the port of tls-decrypt-x; nothing goes to mixed-in *)
REDIRECT_TO_INBOUND == InboundTags \ {"mixed_in"}

Rule(tag, out, matches) == [tag |-> tag, out |-> out, matches |-> matches]

(* The config in the repository.  remarks: the profile names among the words *)
(* of "remarks"; dns: the DNS servers have the tags that rules refer to.     *)
Primary ==
    [remarks |-> {}, operating |-> "none", listen |-> "loopback", dns |-> TRUE,
     ports |-> DEFAULT_LOCAL_PORTS,
     redirects |-> [t \in REDIRECT_TO_INBOUND |-> DEFAULT_LOCAL_PORTS[t]],
     rules |-> << Rule("r030_dns_port53", "dns-out", "port53"),
                  Rule("r040_direct_private_regional", "direct", "regional"),
                  Rule("r210_redirect_google_tcp443_h2", "redirect-out", "tcp443"),
                  Rule("r900_direct_global_catchall", "direct", "any_ip"),
                  Rule("r999_block_final", "block", "all_ports") >>]

(* The rules are a list of rules. *)
IsRules(rules) ==
    /\ rules \in Seq(Range(rules))
    /\ \A i \in DOMAIN rules : rules[i] = Rule(rules[i].tag, rules[i].out, rules[i].matches)

(* A config has the parts of the primary one; an inbound may be missing. *)
IsConfig(c) ==
    /\ c = [part \in DOMAIN Primary |-> c[part]]
    /\ c.remarks \subseteq StandardProfiles
    /\ DOMAIN c.ports \subseteq InboundTags /\ c.ports \in [DOMAIN c.ports -> Int]
    /\ c.redirects \in [REDIRECT_TO_INBOUND -> Int]
    /\ IsRules(c.rules)

TagsOf(rules) == [i \in DOMAIN rules |-> rules[i].tag]

-----------------------------------------------------------------------------
(* generate_profiles.py *)
PROFILE_POLICIES ==
    [strict |-> [catchall |-> "block", udp443 |-> "block", tag |-> "r050_block_quic_udp443"],
     balanced |-> [catchall |-> "direct", udp443 |-> "direct", tag |-> "r050_direct_quic_udp443"],
     compatibility |->
        [catchall |-> "direct", udp443 |-> "direct", tag |-> "r050_direct_quic_udp443"],
     debug |-> [catchall |-> "direct", udp443 |-> "block", tag |-> "r050_block_quic_udp443"]]

UdpRule(profile) ==
    Rule(PROFILE_POLICIES[profile].tag, PROFILE_POLICIES[profile].udp443, "udp443")

(* Behind the first r040, or in front of everything when there is none; a    *)
(* rule that is there already stays where it is.                             *)
insert_udp_policy(rules, rule) ==
    IF \E i \in DOMAIN rules : rules[i].tag = rule.tag THEN rules
    ELSE InsertAt(rules,
                  SelectInSeq(rules, LAMBDA r : r.tag = "r040_direct_private_regional") + 1,
                  rule)

CatchallTag(out) ==
    IF out = "block" THEN "r900_block_global_catchall" ELSE "r900_direct_global_catchall"

CatchallTags == {CatchallTag("block"), CatchallTag("direct")}

(* Found by its tag: a catch-all without one is left as it is. *)
set_global_catchall(rules, out) ==
    LET i == SelectInSeq(rules, LAMBDA r : r.tag \in CatchallTags)
    IN  IF i = 0 THEN rules
        ELSE [rules EXCEPT ![i].out = out, ![i].tag = CatchallTag(out)]

(* attach_for_operating_profile: the pool's metadata names the profile *)
attach_for_operating_profile(c, profile) == [c EXCEPT !.operating = profile]

make_profile(base, profile) ==
    LET rules == set_global_catchall(insert_udp_policy(base.rules, UdpRule(profile)),
                                     PROFILE_POLICIES[profile].catchall)
    IN  attach_for_operating_profile(
            [base EXCEPT !.remarks = @ \cup {profile}, !.rules = rules], profile)

(* The offset is refused, before anything is written, when a port leaves the *)
(* range.                                                                    *)
OffsetAllowed(offset) == \A p \in DefaultPorts : p + offset \in 1 .. 65535

\* Mutant: the redirects stay where they were.
MovesInboundsOnly(c, offset) ==
    IF offset = 0 THEN c
    ELSE [c EXCEPT !.ports = [t \in DOMAIN @ |-> DEFAULT_LOCAL_PORTS[t] + offset]]

(* Inbounds get their default port plus the offset whatever port they had;   *)
(* a redirect moves only if it went to a default port.                       *)
apply_port_offset(c, offset) ==
    IF offset = 0 THEN c
    ELSE [c EXCEPT !.ports = [t \in DOMAIN @ |-> DEFAULT_LOCAL_PORTS[t] + offset],
                   !.redirects = [t \in DOMAIN @ |->
                                    IF @[t] \in DefaultPorts THEN @[t] + offset ELSE @[t]]]

generate_profile(base, profile, offset) == apply_port_offset(make_profile(base, profile), offset)

-----------------------------------------------------------------------------
(* validate_config.py *)

(* The words of "remarks" are asked for in this order. *)
infer_profile(c) ==
    LET order == <<"strict", "balanced", "compatibility", "debug">>
        i == SelectInSeq(order, LAMBDA p : p \in c.remarks)
    IN  IF i = 0 THEN "base" ELSE order[i]

summarize(statuses) ==
    IF "fail" \in statuses THEN "fail" ELSE IF "warn" \in statuses THEN "warn" ELSE "pass"

Asked(ok, otherwise) == IF ok THEN "pass" ELSE otherwise

inbound_listen_status(c) ==
    CASE c.listen = "loopback" -> "pass" [] c.listen = "unset" -> "warn" [] OTHER -> "fail"

(* required_inbound_tags and required_ports *)
PortStatuses(c) ==
    LET all == DOMAIN c.ports = InboundTags
    IN  {Asked(all, "fail"),
         Asked(DefaultPorts \subseteq {c.ports[t] : t \in DOMAIN c.ports},
               IF all THEN "warn" ELSE "fail")}

(* The rules of a config in the order the documents give for its profile *)
OrderWithUdp(udp, catchall) ==
    <<"r030_dns_port53", "r040_direct_private_regional", udp, "r210_redirect_google_tcp443_h2",
      catchall, "r999_block_final">>

ExpectedOrder(profile) ==
    CASE profile = "base" -> TagsOf(Primary.rules)
      [] profile = "strict" -> OrderWithUdp("r050_block_quic_udp443", "r900_block_global_catchall")
      [] profile = "debug" -> OrderWithUdp("r050_block_quic_udp443", "r900_direct_global_catchall")
      [] OTHER -> OrderWithUdp("r050_direct_quic_udp443", "r900_direct_global_catchall")

(* tag_counts of the tags there are *)
TagsDistinct(rules) ==
    \A i, j \in DOMAIN rules : rules[i].tag = rules[j].tag /\ rules[i].tag # Untagged => i = j

(* rule_tags, duplicate_rule_tags and route_order *)
TagStatuses(c) ==
    LET tags == SelectSeq(TagsOf(c.rules), LAMBDA t : t # Untagged)
    IN  {Asked(Len(tags) = Len(c.rules), "warn"), Asked(TagsDistinct(c.rules), "fail"),
         Asked(tags = ExpectedOrder(infer_profile(c)), "warn")}

(* Rules refer to inbounds and DNS servers by their tags *)
ReferenceStatuses(c) ==
    {Asked(REDIRECT_TO_INBOUND \subseteq DOMAIN c.ports /\ c.dns, "fail"), Asked(c.dns, "warn")}

(* redirect_target_ports asks only about inbounds that are there *)
RedirectStatus(c) ==
    Asked(\A t \in REDIRECT_TO_INBOUND \cap DOMAIN c.ports : c.redirects[t] = c.ports[t], "fail")

Catchall(c, out) == \E i \in DOMAIN c.rules : c.rules[i].matches = "any_ip" /\ c.rules[i].out = out
Matched(c, what) == \E i \in DOMAIN c.rules : c.rules[i].matches = what

(* port 53, TCP 443, UDP 443, the catch-all and the final block *)
PolicyStatuses(c) ==
    {Asked(Matched(c, "port53"), "warn"), Asked(Matched(c, "tcp443"), "warn"),
     Asked(Matched(c, "udp443") \/ infer_profile(c) = "base", "warn"),
     IF infer_profile(c) = "strict" THEN Asked(Catchall(c, "block"), "fail")
     ELSE Asked(Catchall(c, "direct"), "warn"),
     Asked(Matched(c, "all_ports"), "warn")}

validate_config(c) ==
    PortStatuses(c) \cup {inbound_listen_status(c)} \cup TagStatuses(c) \cup ReferenceStatuses(c)
    \cup {RedirectStatus(c)} \cup PolicyStatuses(c)
=============================================================================
