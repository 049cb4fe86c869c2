---------------------------- MODULE H2Coalescing ----------------------------
(***************************************************************************)
(* The guard that keeps an HTTP/2 connection on one provider               *)
(* (src/src/h2_coalescing.rs).  An authority is given by what              *)
(* normalize_authority tells apart: its form, its host and its port.       *)
(***************************************************************************)
EXTENDS Naturals, FiniteSets, Functions

CONSTANTS SessionIds,    \* session ids, natural numbers as in the code
          Providers, Hosts,
          MaxSessions,   \* the argument of CoalescingController::new
          MaxSeen        \* bound: the last value of the caller's clock

ASSUME H2Assumption ==
    /\ SessionIds \subseteq Nat /\ MaxSessions \in Nat /\ MaxSeen \in Nat

VARIABLES h2_sessions,  \* id -> [provider, authorities, last_seen]
          asserted,  \* per id, the <<host, provider>> accepted since it was bound
          verdict    \* the last answer: [id, result, evicted]

h2Vars == <<h2_sessions, asserted, verdict>>

Forms == {"name", "ipv6"}
Ports == {"none", "valid", "invalid"}  \* "invalid": not a u16, the empty port too
EmptyHost == "empty"                   \* what is left of "", ":443" and "[]"
Authority == [form : Forms, host : Hosts \cup {EmptyHost}, port : Ports]

(* The port is dropped, so two ports of a host are one authority; a port     *)
(* that is present and malformed rejects the authority.                      *)
NormalizeAuthority(a) ==
    IF a.host = EmptyHost \/ a.port = "invalid" THEN {} ELSE {<<a.form, a.host>>}

Limit == IF MaxSessions = 0 THEN 1 ELSE MaxSessions

H2Init ==
    /\ h2_sessions = << >>
    /\ asserted = [i \in SessionIds |-> {}]
    /\ verdict = [id |-> 0, result |-> "none", evicted |-> {}]

LeastRecent(i) ==
    \A j \in DOMAIN h2_sessions :
       \/ h2_sessions[i].last_seen < h2_sessions[j].last_seen
       \/ h2_sessions[i].last_seen = h2_sessions[j].last_seen /\ i <= j

\* Mutant: room is made one entry too early.
EvictEarly ==
    IF Cardinality(DOMAIN h2_sessions) + 1 < Limit THEN {}
    ELSE {i \in DOMAIN h2_sessions : LeastRecent(i)}

(* evict_if_needed: one session, however far over the limit the table is *)
EvictIfNeeded ==
    IF Cardinality(DOMAIN h2_sessions) < Limit THEN {}
    ELSE {i \in DOMAIN h2_sessions : LeastRecent(i)}

Reject(i, why) ==
    /\ verdict' = [id |-> i, result |-> why, evicted |-> {}]
    /\ UNCHANGED <<h2_sessions, asserted>>

\* Mutant: the provider of a known authority is not compared.
AnyProviderAgrees(i, p) == TRUE

ProviderAgrees(i, p) == h2_sessions[i].provider = p

AssertEmpty(i, a) == NormalizeAuthority(a) = {} /\ Reject(i, "EmptyAuthority")

AssertMismatch(i, a, p) ==
    /\ NormalizeAuthority(a) # {}
    /\ i \in DOMAIN h2_sessions
    /\ ~ ProviderAgrees(i, p)
    /\ Reject(i, "ProviderMismatch")

AssertKnown(i, a, p, now) ==
    /\ NormalizeAuthority(a) # {}
    /\ i \in DOMAIN h2_sessions
    /\ ProviderAgrees(i, p)
    /\ h2_sessions' = [h2_sessions EXCEPT ![i].authorities = @ \cup NormalizeAuthority(a),
                                       ![i].last_seen = now]
    /\ asserted' = [asserted EXCEPT ![i] = @ \cup {<<n, p>> : n \in NormalizeAuthority(a)}]
    /\ verdict' = [id |-> i, result |-> "ok", evicted |-> {}]

AssertNew(i, a, p, now) ==
    LET gone == EvictIfNeeded
        kept == DOMAIN h2_sessions \ gone
        bound == [provider |-> p, authorities |-> NormalizeAuthority(a), last_seen |-> now]
    IN  /\ NormalizeAuthority(a) # {}
        /\ i \notin DOMAIN h2_sessions
        /\ h2_sessions' = [j \in kept \cup {i} |-> IF j = i THEN bound ELSE h2_sessions[j]]
        /\ asserted' = [j \in SessionIds |->
                          CASE j = i -> {<<n, p>> : n \in NormalizeAuthority(a)}
                            [] j \in gone -> {}
                            [] OTHER -> asserted[j]]
        /\ verdict' = [id |-> i, result |-> "bound", evicted |-> gone]

H2Next ==
    \E i \in SessionIds, a \in Authority, p \in Providers, now \in 0 .. MaxSeen :
       \/ AssertEmpty(i, a)
       \/ AssertMismatch(i, a, p)
       \/ AssertKnown(i, a, p, now)
       \/ AssertNew(i, a, p, now)

-----------------------------------------------------------------------------
(* The guard's purpose: the authorities coalesced on a session were each     *)
(* accepted for that session's own provider and since it was bound, so no    *)
(* connection carries two providers while the table remembers it, and the    *)
(* table never holds more sessions than its limit (assert_authority).        *)
OneProviderPerSession ==
    /\ Cardinality(DOMAIN h2_sessions) <= Limit
    /\ \A i \in DOMAIN h2_sessions :
          asserted[i] = h2_sessions[i].authorities \X {h2_sessions[i].provider}

(* A session the guard has bound changes its provider only by being evicted  *)
(* from a full table and asserting an authority again: the connection with   *)
(* that id may still be open, and the guard has forgotten it                 *)
(* (evict_if_needed takes the least recently seen session only).             *)
RebindOnlyAfterEviction ==
    [][\A i \in DOMAIN h2_sessions :
          \/ /\ i \in DOMAIN h2_sessions'
             /\ h2_sessions'[i].provider = h2_sessions[i].provider
             /\ h2_sessions[i].authorities \subseteq h2_sessions'[i].authorities
          \/ /\ i \notin DOMAIN h2_sessions'
             /\ Cardinality(DOMAIN h2_sessions) >= Limit
             /\ LeastRecent(i)]_h2Vars
=============================================================================
