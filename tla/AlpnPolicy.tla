------------------------------ MODULE AlpnPolicy -----------------------------
(***************************************************************************)
(* The ALPN decision of the Rust stream core: the policy lock              *)
(* (src/alpn_policy.rs), the policy-aware upstream and local backends      *)
(* (src/tls_orchestrator_backend.rs) and the orchestration of the two with *)
(* its three fallbacks (src/tls_orchestrator.rs).  No state: every         *)
(* definition is a function of the client's offer and the configuration.   *)
(***************************************************************************)
EXTENDS Integers, Sequences

CONSTANT MaxOffers    \* bound: protocols in a client's ALPN extension

ASSUME OffersAssumption == MaxOffers \in Nat

\* "other" stands for every protocol name the code has no constant for
Protocols == {"h2", "http/1.1", "other"}
Modes == {"CloneUpstream", "ForceHttp11", "ForceH2", "RejectMismatch"}
Fallbacks == {"FailClosed", "ForceHttp11IfPossible", "BypassWithoutMitm"}
AlpnErrors == {"NoUpstreamSelection", "ClientDidNotOffer", "ProviderDisallows",
               "UpstreamMismatch", "ClientPreferenceDowngraded"}

\* parse_alpn: in the client's order, repeats allowed, no empty name
Offers == UNION {[1 .. n -> Protocols] : n \in 0 .. MaxOffers}

\* The MITM_STREAM_* settings handle_client reads; parse_allowed_alpn never
\* yields an empty list
Configs == [mode: Modes, fallback: Fallbacks,
            allowed: (SUBSET Protocols) \ {{}},
            observed: Protocols \cup {"none"}, infer: BOOLEAN]

contains_protocol(offered, p) == \E i \in DOMAIN offered : offered[i] = p

\* lock_alpn: the protocol it locks, or the error it returns
lock_alpn(offered, allowed, up, mode) ==
  LET selected == CASE mode = "ForceHttp11" -> "http/1.1"
                    [] mode = "ForceH2" -> "h2"
                    [] OTHER -> up
  IN  CASE selected = "none" -> "NoUpstreamSelection"
        [] ~contains_protocol(offered, selected) -> "ClientDidNotOffer"
        [] selected \notin allowed -> "ProviderDisallows"
        [] mode \in {"ForceHttp11", "ForceH2"} /\ up \notin {"none", selected}
             -> "UpstreamMismatch"
        [] mode = "RejectMismatch" /\ offered[1] # selected
             -> "ClientPreferenceDowngraded"
        [] OTHER -> selected

\* PolicyAwareTlsBackend: the observed protocol, else the client's first
\* offer that the provider allows
negotiate_alpn(c, alpn) ==
  LET Fits(i) == alpn[i] \in c.allowed
      first == CHOOSE i \in DOMAIN alpn : Fits(i) /\ \A j \in 1 .. i - 1 : ~Fits(j)
  IN  CASE c.observed # "none" -> c.observed
        [] c.observed = "none" /\ ~c.infer -> "failed"
        [] OTHER -> IF \E i \in DOMAIN alpn : Fits(i) THEN alpn[first] ELSE "none"

\* A client without the extension counts as one that offers http/1.1
client_offered_alpn(alpn) == IF alpn = << >> THEN <<"http/1.1">> ELSE alpn

Result(kind, p) == [kind |-> kind, alpn |-> p]

\* Mutant: an error of lock_alpn passes for the protocol.
LockedBlindly(lock) == Result("Locked", lock)

\* What orchestrate_tls_session returns for a lock that succeeded or failed;
\* PolicyAwareTlsBackend's commit and bypass never fail
Locked(lock) ==
  IF lock \in AlpnErrors THEN Result("AlpnPolicy", "none") ELSE Result("Locked", lock)

\* Mutant: apply_fallback with the None of apply_upstream_error_fallback
FallbackForgetsUpstream(c, offered, up, error) ==
  CASE c.fallback = "FailClosed" -> Result(error, "none")
    [] c.fallback = "ForceHttp11IfPossible"
         -> Locked(lock_alpn(offered, c.allowed, "none", "ForceHttp11"))
    [] OTHER -> Result("Bypassed", "none")

\* apply_upstream_error_fallback with up = "none", apply_fallback otherwise
Fallback(c, offered, up, error) ==
  CASE c.fallback = "FailClosed" -> Result(error, "none")
    [] c.fallback = "ForceHttp11IfPossible"
         -> Locked(lock_alpn(offered, c.allowed, up, "ForceHttp11"))
    [] OTHER -> Result("Bypassed", "none")

apply_upstream_error_fallback(c, offered) ==
  Fallback(c, offered, "none", "UpstreamNegotiationFailed")

apply_fallback(c, offered, up) == Fallback(c, offered, up, "AlpnPolicy")

orchestrate_tls_session(c, alpn) ==
  LET offered == client_offered_alpn(alpn)
      up == negotiate_alpn(c, alpn)
      lock == lock_alpn(offered, c.allowed, up, c.mode)
  IN  CASE up = "failed" -> apply_upstream_error_fallback(c, offered)
        [] up # "failed" /\ lock \in AlpnErrors -> apply_fallback(c, offered, up)
        [] OTHER -> Locked(lock)
==============================================================================
