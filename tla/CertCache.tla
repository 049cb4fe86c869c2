----------------------------- MODULE CertCache -----------------------------
(***************************************************************************)
(* The cache of leaf certificates and the map of denied names              *)
(* (src/src/cert_cache.rs).  Every operation is handed the caller's clock; *)
(* nothing in the code makes that clock grow from one call to the next, so *)
(* each call takes any time.  A key is its rank in the derived order on    *)
(* CertCacheKey.  The certificate bytes, key_id, created_ms and hits are   *)
(* read by nobody and are left out; the reason of a denial is the name's.  *)
(***************************************************************************)
EXTENDS Naturals, FiniteSets, Functions

CONSTANTS CertKeys,        \* the keys, as ranks in the order of CertCacheKey
          ProviderFamily,  \* the provider_family of each key
          Domains,         \* names that may be denied, in lower case
          MaxEntries, MaxEntriesPerProvider,
          MaxNow, TTLs     \* bounds: the clock's last value, the ttl_ms tried

ASSUME CertAssumption ==
    /\ CertKeys \subseteq Nat /\ IsFiniteSet(CertKeys)
    /\ DOMAIN ProviderFamily = CertKeys
    /\ MaxEntries \in Nat /\ MaxEntriesPerProvider \in Nat
    /\ MaxNow \in Nat /\ TTLs \subseteq Nat

VARIABLES entries,   \* key -> [last_used, expires], for the keys cached
          negative,  \* domain -> expires_at_ms, for the names denied
          call       \* the last call: [op, arg, now, ttl, hit]

certVars == <<entries, negative, call>>

Now == 0 .. MaxNow
Without(f, x) == Restrict(f, DOMAIN f \ {x})
With(f, x, v) == [y \in DOMAIN f \cup {x} |-> IF y = x THEN v ELSE f[y]]

CertInit ==
    /\ entries = << >>
    /\ negative = << >>
    /\ call = [op |-> "new", arg |-> 0, now |-> 0, ttl |-> 0, hit |-> FALSE]

(* get: an expired entry is dropped, a live one is marked as used *)
Get(k, now) ==
    LET cached == k \in DOMAIN entries
        hit == cached /\ entries[k].expires > now
    IN  /\ entries' = IF hit THEN [entries EXCEPT ![k].last_used = now]
                      ELSE Without(entries, k)
        /\ call' = [op |-> "get", arg |-> k, now |-> now, ttl |-> 0, hit |-> hit]
        /\ UNCHANGED negative

(* min_by over (last_used_ms, key): k goes before j *)
OlderThan(e, k, j) ==
    \/ e[k].last_used < e[j].last_used
    \/ e[k].last_used = e[j].last_used /\ k < j

(* What a loop that removes the oldest entry of group while it has more than *)
(* cap members leaves of it.                                                 *)
EvictOldest(e, group, cap) ==
    {k \in group : Cardinality({j \in group : OlderThan(e, k, j)}) < cap}

EvictExpired(now, e) == Restrict(e, {k \in DOMAIN e : e[k].expires > now})

FamilyOf(e, k) == {j \in DOMAIN e : ProviderFamily[j] = ProviderFamily[k]}

\* Mutant: the cap of one provider is not enforced.
NoProviderEviction(e) == e

EvictForProviderCap(e) ==
    IF MaxEntriesPerProvider = 0 THEN e
    ELSE Restrict(e, {k \in DOMAIN e :
                        k \in EvictOldest(e, FamilyOf(e, k), MaxEntriesPerProvider)})

EvictForGlobalCap(e) == Restrict(e, EvictOldest(e, DOMAIN e, MaxEntries))

(* insert: put the entry, then sweep both maps, then the two caps *)
Insert(k, now, ttl) ==
    LET put == With(entries, k, [last_used |-> now, expires |-> now + ttl])
    IN  /\ entries' = EvictForGlobalCap(EvictForProviderCap(EvictExpired(now, put)))
        /\ negative' = Restrict(negative, {d \in DOMAIN negative : negative[d] > now})
        /\ call' = [op |-> "insert", arg |-> k, now |-> now, ttl |-> ttl, hit |-> TRUE]

MarkDenied(d, now, ttl) ==
    /\ negative' = With(negative, d, now + ttl)
    /\ call' = [op |-> "mark_denied", arg |-> d, now |-> now, ttl |-> ttl, hit |-> TRUE]
    /\ UNCHANGED entries

DeniedReason(d, now) ==
    LET denied == d \in DOMAIN negative /\ negative[d] > now
    IN  /\ negative' = IF denied THEN negative ELSE Without(negative, d)
        /\ call' = [op |-> "denied_reason", arg |-> d, now |-> now, ttl |-> 0, hit |-> denied]
        /\ UNCHANGED entries

CertNext ==
    \E now \in Now :
       \/ \E k \in CertKeys : Get(k, now)
       \/ \E k \in CertKeys, ttl \in TTLs : Insert(k, now, ttl)
       \/ \E d \in Domains, ttl \in TTLs : MarkDenied(d, now, ttl)
       \/ \E d \in Domains : DeniedReason(d, now)

-----------------------------------------------------------------------------
(* After an insert both caps of the cache hold, neither map holds an entry   *)
(* that had expired by the time of the insert, and the certificate that was  *)
(* inserted is in the cache unless it had no time to live or the cap was     *)
(* spent on entries used at the same time or, by the clock of another call,  *)
(* later (evict_for_provider_cap and evict_for_global_cap, whose tie on last *)
(* use is broken by the key and may fall on the new entry).  The denied      *)
(* names have no cap: only this sweep ever shortens their map by itself.     *)
InsertLeavesBounded ==
    call.op = "insert" =>
       /\ Cardinality(DOMAIN entries) <= MaxEntries
       /\ MaxEntriesPerProvider > 0 =>
             \A k \in DOMAIN entries :
                Cardinality(FamilyOf(entries, k)) <= MaxEntriesPerProvider
       /\ \A k \in DOMAIN entries : entries[k].expires > call.now
       /\ \A d \in DOMAIN negative : negative[d] > call.now
       /\ \/ call.arg \in DOMAIN entries
          \/ call.ttl = 0 \/ MaxEntries = 0
          \/ \E k \in DOMAIN entries : entries[k].last_used >= call.now
=============================================================================
