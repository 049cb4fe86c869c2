--------------------------- MODULE DataPlaneProofs ---------------------------
(***************************************************************************)
(* Proofs about the tables of the Rust data plane, for every capacity, set *)
(* of keys, sessions and packets and every order of the callers' clocks:   *)
(* the certificate cache after an insert, the HTTP/2 guard's one provider  *)
(* per session and its evictions, and what send_batch queues.              *)
(***************************************************************************)
EXTENDS DataPlane, EvictionLemmas, SequenceTheorems

-----------------------------------------------------------------------------
(* The certificate cache                                                   *)

\* A map of cached entries: only keys, each with its two times
CacheMap(e) ==
    /\ DOMAIN e \subseteq CertKeys
    /\ e \in [DOMAIN e -> [last_used : Nat, expires : Nat]]

\* The order of min_by on the entries of group, as a set of pairs
UseOrder(e, group) == {p \in group \X group : OlderThan(e, p[1], p[2])}

\* What the removal loop leaves of a group: at most cap entries, and if one
\* went then cap of them, each used no earlier than the one that went.
LEMMA EvictOldestLeaves ==
  ASSUME NEW e, CacheMap(e), NEW group, group \subseteq DOMAIN e, NEW cap \in Nat
  PROVE  /\ EvictOldest(e, group, cap) \subseteq group
         /\ IsFiniteSet(EvictOldest(e, group, cap))
         /\ Cardinality(EvictOldest(e, group, cap)) <= cap
         /\ \A k \in group \ EvictOldest(e, group, cap) :
               /\ Cardinality(EvictOldest(e, group, cap)) = cap
               /\ \A j \in EvictOldest(e, group, cap) : e[k].last_used <= e[j].last_used
<1>1. \A k \in group : k \in Nat /\ e[k].last_used \in Nat
  BY CertAssumption DEF CacheMap
<1>2. IsFiniteSet(group)
  BY CertAssumption, FS_Subset DEF CacheMap
<1>3. \A k, j \in group : <<k, j>> \in UseOrder(e, group) <=> OlderThan(e, k, j)
  BY DEF UseOrder
<1>4. StrictOrder(UseOrder(e, group), group)
  <2>1. \A k \in group : ~ OlderThan(e, k, k)
    BY <1>1 DEF OlderThan
  <2>2. \A k, j \in group : k # j => OlderThan(e, k, j) \/ OlderThan(e, j, k)
    BY <1>1 DEF OlderThan
  <2>3. \A k, j, l \in group :
          OlderThan(e, k, j) /\ OlderThan(e, j, l) => OlderThan(e, k, l)
    BY <1>1 DEF OlderThan
  <2> QED
    BY <1>3, <2>1, <2>2, <2>3 DEF StrictOrder
<1>5. EvictOldest(e, group, cap) = Greatest(UseOrder(e, group), group, cap)
  <2>1. \A k \in group :
          {j \in group : OlderThan(e, k, j)} = Above(UseOrder(e, group), group, k)
    BY <1>3 DEF Above
  <2> QED
    BY <2>1 DEF EvictOldest, Greatest
<1> DEFINE left == EvictOldest(e, group, cap)
<1>6. left \subseteq group
  BY DEF EvictOldest
<1>7. IsFiniteSet(left) /\ Cardinality(left) <= cap
  BY <1>2, <1>4, <1>5, GreatestAtMost
<1>8. ASSUME NEW k \in group \ left
      PROVE  /\ Cardinality(left) = cap
             /\ \A j \in left : e[k].last_used <= e[j].last_used
  <2>1. /\ Cardinality(left) = cap
        /\ \A j \in left : <<k, j>> \in UseOrder(e, group)
    <3> HIDE DEF left
    <3> QED
      BY <1>2, <1>4, <1>5, <1>8, GreatestAreFull DEF left
  <2>2. \A j \in left : OlderThan(e, k, j)
    BY <1>3, <1>6, <2>1
  <2> QED
    BY <1>1, <1>6, <2>1, <2>2 DEF OlderThan
<1> QED
  BY <1>6, <1>7, <1>8

\* A map cut down to some of its keys keeps their entries.
LEMMA RestrictKeeps ==
  ASSUME NEW e, CacheMap(e), NEW S, S \subseteq DOMAIN e
  PROVE  /\ CacheMap(Restrict(e, S))
         /\ DOMAIN Restrict(e, S) = S
         /\ \A k \in S : Restrict(e, S)[k] = e[k]
BY DEF CacheMap, Restrict

\* The provider cap leaves each family within it; if it drops an entry, an
\* entry used no earlier stays.
LEMMA ProviderCapLeaves ==
  ASSUME NEW e, CacheMap(e)
  PROVE  LET f == EvictForProviderCap(e)
         IN  /\ CacheMap(f)
             /\ DOMAIN f \subseteq DOMAIN e
             /\ \A k \in DOMAIN f : f[k] = e[k]
             /\ MaxEntriesPerProvider > 0 =>
                  \A k \in DOMAIN f :
                     /\ IsFiniteSet(FamilyOf(f, k))
                     /\ Cardinality(FamilyOf(f, k)) <= MaxEntriesPerProvider
             /\ \A k \in DOMAIN e \ DOMAIN f :
                  \E j \in DOMAIN f : e[k].last_used <= f[j].last_used
<1> DEFINE f == EvictForProviderCap(e)
           cap == MaxEntriesPerProvider
           left(k) == EvictOldest(e, FamilyOf(e, k), cap)
<1>1. CASE cap = 0
  BY <1>1 DEF EvictForProviderCap
<1>2. CASE cap # 0
  <2> DEFINE S == {k \in DOMAIN e : k \in left(k)}
  <2>0. cap \in Nat /\ cap > 0
    BY <1>2, CertAssumption
  <2>1. f = Restrict(e, S)
    BY <1>2 DEF EvictForProviderCap
  <2>2. CacheMap(f) /\ DOMAIN f = S /\ \A k \in S : f[k] = e[k]
    <3>1. S \subseteq DOMAIN e
      OBVIOUS
    <3> HIDE DEF S, f
    <3> QED
      BY <2>1, <3>1, RestrictKeeps
  <2>3. \A k \in DOMAIN e :
          /\ k \in FamilyOf(e, k)
          /\ left(k) \subseteq FamilyOf(e, k)
          /\ IsFiniteSet(left(k)) /\ Cardinality(left(k)) <= cap
          /\ \A i \in FamilyOf(e, k) \ left(k) :
               /\ Cardinality(left(k)) = cap
               /\ \A j \in left(k) : e[i].last_used <= e[j].last_used
    <3>1. \A k \in DOMAIN e : FamilyOf(e, k) \subseteq DOMAIN e /\ k \in FamilyOf(e, k)
      BY DEF FamilyOf
    <3> QED
      BY <2>0, <3>1, EvictOldestLeaves
  <2>4. \A k \in DOMAIN e : \A j \in FamilyOf(e, k) :
          j \in DOMAIN e /\ FamilyOf(e, j) = FamilyOf(e, k)
    BY DEF FamilyOf
  <2>5. \A k \in DOMAIN e : left(k) \subseteq S
    <3> SUFFICES ASSUME NEW k \in DOMAIN e, NEW j \in left(k) PROVE j \in S
      OBVIOUS
    <3>1. j \in DOMAIN e /\ FamilyOf(e, j) = FamilyOf(e, k)
      BY <2>3, <2>4
    <3> QED
      BY <3>1
  <2>6. ASSUME NEW k \in S
        PROVE  IsFiniteSet(FamilyOf(f, k)) /\ Cardinality(FamilyOf(f, k)) <= cap
    <3>1. FamilyOf(f, k) \subseteq left(k)
      <4> SUFFICES ASSUME NEW j \in FamilyOf(f, k) PROVE j \in left(k)
        OBVIOUS
      <4>1. j \in S /\ j \in FamilyOf(e, k)
        BY <2>2 DEF FamilyOf
      <4>2. j \in left(j) /\ FamilyOf(e, j) = FamilyOf(e, k)
        BY <2>4, <4>1
      <4> QED
        BY <4>2
    <3>2. IsFiniteSet(left(k)) /\ Cardinality(left(k)) <= cap
      BY <2>3
    <3>3. /\ IsFiniteSet(FamilyOf(f, k))
          /\ Cardinality(FamilyOf(f, k)) <= Cardinality(left(k))
      <4> HIDE DEF left, f
      <4> QED
        BY <3>1, <3>2, FS_Subset
    <3> HIDE DEF left, f
    <3> QED
      BY <2>0, <3>2, <3>3, FS_CardinalityType
  <2>7. ASSUME NEW k \in DOMAIN e \ S
        PROVE  \E j \in S : e[k].last_used <= f[j].last_used
    <3>1. k \in FamilyOf(e, k) \ left(k)
      BY <2>3
    <3>2. /\ Cardinality(left(k)) = cap /\ IsFiniteSet(left(k))
          /\ \A j \in left(k) : e[k].last_used <= e[j].last_used
      BY <2>3, <3>1
    <3>3. left(k) # {}
      BY <2>0, <3>2, FS_EmptySet
    <3>4. left(k) \subseteq S
      BY <2>5
    <3> HIDE DEF left, f, S
    <3> QED
      BY <2>2, <3>2, <3>3, <3>4
  <2> HIDE DEF f, S
  <2> QED
    BY <2>0, <2>2, <2>6, <2>7 DEF f, S
<1> QED
  BY <1>1, <1>2, CertAssumption

\* The global cap, likewise
LEMMA GlobalCapLeaves ==
  ASSUME NEW e, CacheMap(e)
  PROVE  LET f == EvictForGlobalCap(e)
         IN  /\ CacheMap(f)
             /\ DOMAIN f \subseteq DOMAIN e
             /\ \A k \in DOMAIN f : f[k] = e[k]
             /\ Cardinality(DOMAIN f) <= MaxEntries
             /\ MaxEntries > 0 =>
                  \A k \in DOMAIN e \ DOMAIN f :
                     \E j \in DOMAIN f : e[k].last_used <= f[j].last_used
<1> DEFINE f == EvictForGlobalCap(e)
           left == EvictOldest(e, DOMAIN e, MaxEntries)
<1>1. /\ left \subseteq DOMAIN e
      /\ IsFiniteSet(left) /\ Cardinality(left) <= MaxEntries
      /\ \A k \in DOMAIN e \ left :
           /\ Cardinality(left) = MaxEntries
           /\ \A j \in left : e[k].last_used <= e[j].last_used
  BY CertAssumption, EvictOldestLeaves
<1>2. f = Restrict(e, left)
  BY DEF EvictForGlobalCap
<1>3. CacheMap(f) /\ DOMAIN f = left /\ \A k \in left : f[k] = e[k]
  <2> HIDE DEF left, f
  <2> QED
    BY <1>1, <1>2, RestrictKeeps
<1>4. ASSUME MaxEntries > 0, NEW k \in DOMAIN e \ left
      PROVE  left # {}
  <2>1. Cardinality(left) = MaxEntries
    BY <1>1, <1>4
  <2> QED
    BY <1>4, <2>1, FS_EmptySet, CertAssumption
<1> HIDE DEF left, f
<1> QED
  BY <1>1, <1>3, <1>4 DEF f

\* The invariant: the cache is a map of entries, and the bounds hold after
\* the insert that was the last call.
CertInv == CacheMap(entries) /\ InsertLeavesBounded

\* An insert leaves both caps kept, nothing expired, and its own entry or one
\* used no earlier.
LEMMA InsertBounds ==
  ASSUME CertInv, NEW k \in CertKeys, NEW t \in Now, NEW ttl \in TTLs,
         Insert(k, t, ttl)
  PROVE  CertInv'
<1> DEFINE put == With(entries, k, [last_used |-> t, expires |-> t + ttl])
           live == EvictExpired(t, put)
           capped == EvictForProviderCap(live)
<1>0. t \in Nat /\ ttl \in Nat
  BY CertAssumption DEF Now
<1>1. /\ CacheMap(put) /\ k \in DOMAIN put
      /\ put[k] = [last_used |-> t, expires |-> t + ttl]
  BY <1>0 DEF CertInv, CacheMap, With
<1>2. /\ CacheMap(live)
      /\ DOMAIN live = {j \in DOMAIN put : put[j].expires > t}
      /\ \A j \in DOMAIN live : live[j] = put[j]
  <2> DEFINE S == {j \in DOMAIN put : put[j].expires > t}
  <2>1. live = Restrict(put, S) /\ S \subseteq DOMAIN put
    BY DEF EvictExpired
  <2> HIDE DEF put, live, S
  <2> QED
    BY <1>1, <2>1, RestrictKeeps DEF S
<1>3. /\ CacheMap(capped)
      /\ DOMAIN capped \subseteq DOMAIN live
      /\ \A j \in DOMAIN capped : capped[j] = live[j]
      /\ MaxEntriesPerProvider > 0 =>
           \A j \in DOMAIN capped :
              /\ IsFiniteSet(FamilyOf(capped, j))
              /\ Cardinality(FamilyOf(capped, j)) <= MaxEntriesPerProvider
      /\ \A i \in DOMAIN live \ DOMAIN capped :
           \E j \in DOMAIN capped : live[i].last_used <= capped[j].last_used
  <2> HIDE DEF live
  <2> QED
    BY <1>2, ProviderCapLeaves
<1>4. /\ entries' = EvictForGlobalCap(capped)
      /\ negative' = Restrict(negative, {d \in DOMAIN negative : negative[d] > t})
      /\ call' = [op |-> "insert", arg |-> k, now |-> t, ttl |-> ttl, hit |-> TRUE]
  BY DEF Insert
<1> HIDE DEF put, live, capped
<1>5. /\ CacheMap(entries)'
      /\ DOMAIN entries' \subseteq DOMAIN capped
      /\ \A j \in DOMAIN entries' : entries'[j] = capped[j]
      /\ Cardinality(DOMAIN entries') <= MaxEntries
      /\ MaxEntries > 0 =>
           \A i \in DOMAIN capped \ DOMAIN entries' :
              \E j \in DOMAIN entries' : capped[i].last_used <= entries'[j].last_used
  BY <1>3, <1>4, GlobalCapLeaves DEF CacheMap
<1>6. ASSUME MaxEntriesPerProvider > 0, NEW j \in DOMAIN entries'
      PROVE  Cardinality(FamilyOf(entries', j)) <= MaxEntriesPerProvider
  <2>1. FamilyOf(entries', j) \subseteq FamilyOf(capped, j)
    BY <1>5 DEF FamilyOf
  <2>2. /\ IsFiniteSet(FamilyOf(capped, j))
        /\ Cardinality(FamilyOf(capped, j)) <= MaxEntriesPerProvider
    BY <1>3, <1>5, <1>6
  <2>3. /\ IsFiniteSet(FamilyOf(entries', j))
        /\ Cardinality(FamilyOf(entries', j)) <= Cardinality(FamilyOf(capped, j))
    BY <2>1, <2>2, FS_Subset
  <2> QED
    BY <2>2, <2>3, FS_CardinalityType, CertAssumption
<1>7. \A j \in DOMAIN entries' : entries'[j].expires > t
  BY <1>2, <1>3, <1>5
<1>8. \A d \in DOMAIN negative' : negative'[d] > t
  BY <1>4 DEF Restrict
<1>9. ASSUME k \notin DOMAIN entries', ttl # 0, MaxEntries # 0
      PROVE  \E j \in DOMAIN entries' : entries'[j].last_used >= t
  <2>1. MaxEntries > 0
    BY <1>9, CertAssumption
  <2>2. k \in DOMAIN live /\ live[k].last_used = t
    <3>1. t + ttl > t
      BY <1>0, <1>9
    <3> QED
      BY <1>1, <1>2, <3>1
  <2>3. PICK i \in DOMAIN capped : t <= capped[i].last_used
    <3>1. CASE k \in DOMAIN capped
      BY <1>0, <1>3, <2>2, <3>1
    <3>2. CASE k \notin DOMAIN capped
      BY <1>3, <2>2, <3>2
    <3> QED
      BY <3>1, <3>2
  <2>4. CASE i \in DOMAIN entries'
    BY <1>0, <1>3, <1>5, <2>3, <2>4 DEF CacheMap
  <2>5. CASE i \notin DOMAIN entries'
    <3>1. PICK j \in DOMAIN entries' : capped[i].last_used <= entries'[j].last_used
      BY <1>5, <2>1, <2>5
    <3>2. capped[i].last_used \in Nat /\ entries'[j].last_used \in Nat
      BY <1>3, <1>5 DEF CacheMap
    <3> QED
      BY <1>0, <2>3, <3>1, <3>2
  <2> QED
    BY <2>4, <2>5
<1>10. call'.op = "insert" /\ call'.arg = k /\ call'.now = t /\ call'.ttl = ttl
  BY <1>4
<1>11. InsertLeavesBounded'
  BY <1>5, <1>6, <1>7, <1>8, <1>9, <1>10, Zenon DEF InsertLeavesBounded, FamilyOf
<1> QED
  BY <1>5, <1>11 DEF CertInv

\* One call keeps the cache's invariant.
LEMMA CertStep ==
  ASSUME CertInv, CertNext
  PROVE  CertInv'
<1>1. ASSUME NEW k \in CertKeys, NEW t \in Now, Get(k, t)
      PROVE  CertInv'
  <2>1. call'.op # "insert"
    BY <1>1 DEF Get
  <2>2. t \in Nat
    BY CertAssumption DEF Now
  <2>3. CacheMap(entries)'
    <3>1. CASE entries' = Without(entries, k)
      <4>1. DOMAIN entries \ {k} \subseteq DOMAIN entries
        OBVIOUS
      <4>2. CacheMap(Without(entries, k))
        BY <4>1, RestrictKeeps DEF CertInv, Without
      <4> QED
        BY <3>1, <4>2 DEF CacheMap
    <3>2. CASE k \in DOMAIN entries /\ entries' = [entries EXCEPT ![k].last_used = t]
      BY <2>2, <3>2 DEF CertInv, CacheMap
    <3> QED
      BY <1>1, <3>1, <3>2 DEF Get
  <2> QED
    BY <2>1, <2>3 DEF CertInv, InsertLeavesBounded
<1>2. ASSUME NEW d \in Domains, NEW t \in Now, NEW ttl \in TTLs, MarkDenied(d, t, ttl)
      PROVE  CertInv'
  BY <1>2 DEF MarkDenied, CertInv, CacheMap, InsertLeavesBounded
<1>3. ASSUME NEW d \in Domains, NEW t \in Now, DeniedReason(d, t)
      PROVE  CertInv'
  BY <1>3 DEF DeniedReason, CertInv, CacheMap, InsertLeavesBounded
<1> QED
  BY <1>1, <1>2, <1>3, InsertBounds DEF CertNext

\* For every pair of capacities and every order of the callers' clocks, an
\* insert leaves both caps kept and nothing expired in either map, and loses
\* the certificate it was given only to entries used no earlier.
THEOREM CacheBounded == DataSpec => []InsertLeavesBounded
<1>1. DataInit => CertInv
  BY DEF DataInit, CertInit, CertInv, CacheMap, InsertLeavesBounded
<1>2. CertInv /\ [DataNext]_dataVars => CertInv'
  <2> SUFFICES ASSUME CertInv, [DataNext]_dataVars
               PROVE  CertInv'
    OBVIOUS
  <2>1. CASE UNCHANGED certVars
    BY <2>1 DEF certVars, CertInv, CacheMap, InsertLeavesBounded, FamilyOf
  <2>2. CASE CertNext
    BY <2>2, CertStep
  <2> QED
    BY <2>1, <2>2 DEF DataNext, dataVars, certVars
<1>3. CertInv => InsertLeavesBounded
  BY DEF CertInv
<1> QED
  BY <1>1, <1>2, <1>3, PTL DEF DataSpec

-----------------------------------------------------------------------------
(* The HTTP/2 guard                                                        *)

\* A normalised authority, as the guard stores it
Names == Forms \X (Hosts \cup {EmptyHost})

\* The types, the finiteness that makes the count mean something, and the
\* guard's promise, which together are inductive
H2Inv ==
    /\ DOMAIN h2_sessions \subseteq SessionIds
    /\ h2_sessions \in [DOMAIN h2_sessions ->
                       [provider : Providers, authorities : SUBSET Names, last_seen : Nat]]
    /\ asserted \in [SessionIds -> SUBSET (Names \X Providers)]
    /\ IsFiniteSet(DOMAIN h2_sessions)
    /\ OneProviderPerSession

\* A table with a session in it has a least recently seen one: the clocks'
\* least value, and among the sessions seen then the least id.
LEMMA LeastRecentExists ==
  ASSUME H2Inv, DOMAIN h2_sessions # {}
  PROVE  \E i \in DOMAIN h2_sessions : LeastRecent(i)
<1>1. \A i \in DOMAIN h2_sessions : i \in Nat /\ h2_sessions[i].last_seen \in Nat
  BY H2Assumption DEF H2Inv
<1>2. PICK o \in DOMAIN h2_sessions :
        \A j \in DOMAIN h2_sessions : h2_sessions[o].last_seen <= h2_sessions[j].last_seen
  <2> DEFINE T == {h2_sessions[i].last_seen : i \in DOMAIN h2_sessions}
  <2>1. T \subseteq Nat /\ T # {}
    BY <1>1
  <2>2. PICK m \in T : \A n \in T : m <= n
    BY <2>1, LeastNatural
  <2> QED
    BY <2>2
<1> DEFINE S == {i \in DOMAIN h2_sessions : h2_sessions[i].last_seen = h2_sessions[o].last_seen}
<1>3. S \subseteq Nat /\ S # {}
  BY <1>1
<1>4. PICK i \in S : \A j \in S : i <= j
  BY <1>3, LeastNatural
<1>5. ASSUME NEW j \in DOMAIN h2_sessions
      PROVE  \/ h2_sessions[i].last_seen < h2_sessions[j].last_seen
             \/ h2_sessions[i].last_seen = h2_sessions[j].last_seen /\ i <= j
  <2>1. h2_sessions[i].last_seen = h2_sessions[o].last_seen
    BY <1>4
  <2>2. CASE h2_sessions[j].last_seen = h2_sessions[o].last_seen
    BY <1>4, <2>1, <2>2
  <2>3. CASE h2_sessions[j].last_seen # h2_sessions[o].last_seen
    BY <1>1, <1>2, <2>1, <2>3
  <2> QED
    BY <2>2, <2>3
<1> QED
  BY <1>4, <1>5 DEF LeastRecent

LEMMA LimitType == Limit \in Nat /\ Limit > 0
BY H2Assumption DEF Limit

\* evict_if_needed makes room for one session in a full table.
LEMMA EvictionLeavesRoom ==
  ASSUME H2Inv, NEW kept, kept = DOMAIN h2_sessions \ EvictIfNeeded
  PROVE  IsFiniteSet(kept) /\ Cardinality(kept) < Limit /\ kept \subseteq DOMAIN h2_sessions
<1> DEFINE n == Cardinality(DOMAIN h2_sessions)
<1>0. IsFiniteSet(DOMAIN h2_sessions) /\ n \in Nat /\ n <= Limit
  BY FS_CardinalityType DEF H2Inv, OneProviderPerSession
<1>1. CASE n < Limit
  <2>1. kept = DOMAIN h2_sessions
    BY <1>1 DEF EvictIfNeeded
  <2> QED
    BY <1>0, <1>1, <2>1
<1>2. CASE ~ (n < Limit)
  <2>1. n = Limit
    BY <1>0, <1>2, LimitType
  <2>2. DOMAIN h2_sessions # {}
    BY <2>1, LimitType, FS_EmptySet
  <2>3. PICK i \in DOMAIN h2_sessions : LeastRecent(i)
    BY <2>2, LeastRecentExists
  <2>4. EvictIfNeeded = {j \in DOMAIN h2_sessions : LeastRecent(j)}
    BY <1>2 DEF EvictIfNeeded
  <2>5. kept \subseteq DOMAIN h2_sessions \ {i}
    BY <2>3, <2>4
  <2>6. IsFiniteSet(DOMAIN h2_sessions \ {i}) /\ Cardinality(DOMAIN h2_sessions \ {i}) = n - 1
    BY <1>0, <2>3, FS_RemoveElement
  <2>7. IsFiniteSet(kept) /\ Cardinality(kept) <= n - 1
    BY <2>5, <2>6, FS_Subset
  <2>8. Cardinality(kept) < Limit
    BY <1>0, <2>1, <2>7, FS_CardinalityType
  <2> QED
    BY <2>5, <2>7, <2>8
<1> QED
  BY <1>1, <1>2

\* What an accepted authority does to its session
LEMMA KnownEffect ==
  ASSUME H2Inv, NEW i, NEW a, NEW p, NEW t, AssertKnown(i, a, p, t)
  PROVE  h2_sessions' = [h2_sessions EXCEPT ![i] =
           [provider |-> p, authorities |-> h2_sessions[i].authorities \cup NormalizeAuthority(a),
            last_seen |-> t]]
<1> DEFINE names == NormalizeAuthority(a)
           more == h2_sessions[i].authorities \cup names
<1>1. i \in DOMAIN h2_sessions /\ h2_sessions[i].provider = p
  BY DEF AssertKnown, ProviderAgrees
<1>2. h2_sessions' = [h2_sessions EXCEPT ![i].authorities = more, ![i].last_seen = t]
  BY DEF AssertKnown
<1>3. h2_sessions[i] \in [provider : Providers, authorities : SUBSET Names, last_seen : Nat]
  BY <1>1 DEF H2Inv
<1> HIDE DEF more
<1>4. h2_sessions' = [h2_sessions EXCEPT ![i] = [@ EXCEPT !.authorities = more, !.last_seen = t]]
  BY <1>2
<1>5. [h2_sessions[i] EXCEPT !.authorities = more, !.last_seen = t]
        = [provider |-> p, authorities |-> more, last_seen |-> t]
  <2> DEFINE R == [provider : Providers, authorities : {more} \cup SUBSET Names,
                   last_seen : {t} \cup Nat]
             added == [h2_sessions[i] EXCEPT !.authorities = more, !.last_seen = t]
  <2>1. added \in R
    BY <1>3
  <2>2. added.provider = p /\ added.authorities = more /\ added.last_seen = t
    BY <1>1, <1>3
  <2> HIDE DEF added
  <2>3. added = [provider |-> p, authorities |-> more, last_seen |-> t]
    BY <2>1, <2>2
  <2> QED
    BY <2>3, Zenon DEF added
<1> QED
  BY <1>4, <1>5 DEF more

\* One assertion keeps the guard's invariant.
LEMMA H2Step ==
  ASSUME H2Inv, H2Next
  PROVE  H2Inv'
<1>1. PICK i \in SessionIds, a \in Authority, p \in Providers, t \in 0 .. MaxSeen :
        \/ AssertEmpty(i, a)
        \/ AssertMismatch(i, a, p)
        \/ AssertKnown(i, a, p, t)
        \/ AssertNew(i, a, p, t)
  BY DEF H2Next
<1> DEFINE names == NormalizeAuthority(a)
<1>2. names \in SUBSET Names /\ t \in Nat
  BY H2Assumption DEF NormalizeAuthority, Names, Authority
<1>3. {<<n, p>> : n \in names} = names \X {p}
  OBVIOUS
<1> HIDE DEF names
<1>4. CASE AssertEmpty(i, a) \/ AssertMismatch(i, a, p)
  BY <1>4 DEF AssertEmpty, AssertMismatch, Reject, H2Inv, OneProviderPerSession
<1>5. CASE AssertKnown(i, a, p, t)
  <2> DEFINE R == [provider : Providers, authorities : SUBSET Names, last_seen : Nat]
             added == [provider |-> p, authorities |-> h2_sessions[i].authorities \cup names,
                       last_seen |-> t]
  <2>1. /\ i \in DOMAIN h2_sessions /\ h2_sessions[i].provider = p
        /\ h2_sessions' = [h2_sessions EXCEPT ![i] = added]
        /\ asserted' = [asserted EXCEPT ![i] = @ \cup (names \X {p})]
    <3>1. h2_sessions' = [h2_sessions EXCEPT ![i] = added]
      BY <1>5, KnownEffect DEF names
    <3>2. asserted' = [asserted EXCEPT ![i] = @ \cup {<<n, p>> : n \in names}]
      BY <1>5 DEF AssertKnown, names
    <3> QED
      BY <1>3, <1>5, <3>1, <3>2 DEF AssertKnown, ProviderAgrees
  <2>2. /\ h2_sessions[i] \in R
        /\ added \in R /\ added.provider = p
        /\ added.authorities = h2_sessions[i].authorities \cup names
    BY <1>2, <2>1 DEF H2Inv
  <2>3. /\ DOMAIN h2_sessions' = DOMAIN h2_sessions
        /\ h2_sessions' \in [DOMAIN h2_sessions -> R]
        /\ h2_sessions'[i] = added
        /\ \A j \in DOMAIN h2_sessions : j # i => h2_sessions'[j] = h2_sessions[j]
    <3> HIDE DEF added, R
    <3> QED
      BY <2>1, <2>2 DEF H2Inv, R
  <2>4. asserted' \in [SessionIds -> SUBSET (Names \X Providers)]
    <3>1. names \X {p} \subseteq Names \X Providers
      BY <1>2
    <3> QED
      BY <2>1, <3>1 DEF H2Inv
  <2>5. asserted'[i] = asserted[i] \cup (names \X {p})
    BY <2>1 DEF H2Inv
  <2>6. asserted'[i] = added.authorities \X {added.provider}
    <3>1. asserted[i] = h2_sessions[i].authorities \X {p}
      BY <2>1 DEF H2Inv, OneProviderPerSession
    <3> QED
      BY <2>2, <2>5, <3>1
  <2>7. \A j \in DOMAIN h2_sessions :
          asserted'[j] = h2_sessions'[j].authorities \X {h2_sessions'[j].provider}
    <3>1. \A j \in DOMAIN h2_sessions : j # i =>
            asserted'[j] = asserted[j] /\ h2_sessions'[j] = h2_sessions[j]
      BY <2>1, <2>3 DEF H2Inv
    <3> QED
      BY <2>3, <2>6, <3>1 DEF H2Inv, OneProviderPerSession
  <2> QED
    BY <2>3, <2>4, <2>7 DEF H2Inv, OneProviderPerSession, R
<1>6. CASE AssertNew(i, a, p, t)
  <2> DEFINE gone == EvictIfNeeded
             kept == DOMAIN h2_sessions \ gone
             bound == [provider |-> p, authorities |-> names, last_seen |-> t]
             pairs == {<<n, p>> : n \in names}
             R == [provider : Providers, authorities : SUBSET Names, last_seen : Nat]
  <2>1. IsFiniteSet(kept) /\ Cardinality(kept) < Limit /\ kept \subseteq DOMAIN h2_sessions
    BY EvictionLeavesRoom
  <2>2. bound \in R /\ bound.provider = p /\ bound.authorities = names
    BY <1>2
  <2>3. /\ i \notin DOMAIN h2_sessions
        /\ h2_sessions' = [j \in kept \cup {i} |-> IF j = i THEN bound ELSE h2_sessions[j]]
        /\ asserted' = [j \in SessionIds |->
                          CASE j = i -> pairs
                            [] j \in gone -> {}
                            [] OTHER -> asserted[j]]
    BY <1>6 DEF AssertNew, names
  <2> HIDE DEF bound, gone, pairs
  <2>4. /\ DOMAIN h2_sessions' = kept \cup {i}
        /\ i \notin kept
        /\ h2_sessions'[i] = bound
        /\ \A j \in kept : h2_sessions'[j] = h2_sessions[j]
    BY <2>1, <2>3
  <2>5. /\ asserted'[i] = names \X {p}
        /\ \A j \in kept : asserted'[j] = asserted[j]
    <3>1. \A j \in kept : j \in SessionIds /\ j # i /\ j \notin gone
      BY <2>1, <2>4 DEF H2Inv
    <3>2. \A j \in SessionIds : j # i /\ j \notin gone => asserted'[j] = asserted[j]
      BY <2>3
    <3>3. asserted'[i] = pairs
      <4>1. i \notin gone
        BY <2>3 DEF gone, EvictIfNeeded
      <4> QED
        BY <2>3, <4>1
    <3> QED
      BY <1>3, <3>1, <3>2, <3>3 DEF pairs
  <2>6. asserted' \in [SessionIds -> SUBSET (Names \X Providers)]
    <3>1. names \X {p} \subseteq Names \X Providers
      BY <1>2
    <3> QED
      BY <1>3, <2>3, <3>1 DEF H2Inv, pairs
  <2>7. h2_sessions' \in [DOMAIN h2_sessions' -> R]
    BY <2>1, <2>2, <2>3, <2>4 DEF H2Inv
  <2>8. IsFiniteSet(DOMAIN h2_sessions') /\ Cardinality(DOMAIN h2_sessions') <= Limit
    <3> HIDE DEF kept
    <3>1. /\ IsFiniteSet(DOMAIN h2_sessions')
          /\ Cardinality(DOMAIN h2_sessions') = Cardinality(kept) + 1
      BY <2>1, <2>4, FS_AddElement
    <3> QED
      BY <2>1, <3>1, LimitType, FS_CardinalityType
  <2>9. \A j \in DOMAIN h2_sessions' :
          asserted'[j] = h2_sessions'[j].authorities \X {h2_sessions'[j].provider}
    BY <2>1, <2>2, <2>4, <2>5 DEF H2Inv, OneProviderPerSession
  <2>10. DOMAIN h2_sessions' \subseteq SessionIds
    BY <2>1, <2>4 DEF H2Inv
  <2> QED
    BY <2>6, <2>7, <2>8, <2>9, <2>10 DEF H2Inv, OneProviderPerSession
<1> QED
  BY <1>1, <1>4, <1>5, <1>6

LEMMA H2InvInductive ==
  /\ DataInit => H2Inv
  /\ H2Inv /\ [DataNext]_dataVars => H2Inv'
<1>1. ASSUME DataInit PROVE H2Inv
  <2>1. DOMAIN h2_sessions = {}
    BY <1>1 DEF DataInit, H2Init
  <2>2. IsFiniteSet(DOMAIN h2_sessions) /\ Cardinality(DOMAIN h2_sessions) <= Limit
    BY <2>1, FS_EmptySet, LimitType
  <2> QED
    BY <1>1, <2>1, <2>2 DEF DataInit, H2Init, H2Inv, OneProviderPerSession
<1>2. ASSUME H2Inv, [DataNext]_dataVars PROVE H2Inv'
  <2>1. CASE UNCHANGED h2Vars
    BY <1>2, <2>1 DEF h2Vars, H2Inv, OneProviderPerSession
  <2>2. CASE H2Next
    BY <1>2, <2>2, H2Step
  <2> QED
    BY <1>2, <2>1, <2>2 DEF DataNext, dataVars, h2Vars
<1> QED
  BY <1>1, <1>2

\* For every limit and every order of assertions and clocks, a session in the
\* table carries authorities of one provider only, all accepted since it was
\* bound, and the table stays within its limit.
THEOREM OneProvider == DataSpec => []OneProviderPerSession
<1>1. H2Inv => OneProviderPerSession
  BY DEF H2Inv
<1> QED
  BY <1>1, H2InvInductive, PTL DEF DataSpec

\* No step takes a bound session from its provider or drops an authority of
\* it but the eviction of the least recently seen one from a full table.
THEOREM RebindNeedsEviction == DataSpec => RebindOnlyAfterEviction
<1> DEFINE P == \A i \in DOMAIN h2_sessions :
                  \/ /\ i \in DOMAIN h2_sessions'
                     /\ h2_sessions'[i].provider = h2_sessions[i].provider
                     /\ h2_sessions[i].authorities \subseteq h2_sessions'[i].authorities
                  \/ /\ i \notin DOMAIN h2_sessions'
                     /\ Cardinality(DOMAIN h2_sessions) >= Limit
                     /\ LeastRecent(i)
<1>1. ASSUME H2Inv, [DataNext]_dataVars
      PROVE  [P]_h2Vars
  <2>1. CASE UNCHANGED h2Vars
    BY <2>1
  <2>2. CASE H2Next
    <3> SUFFICES ASSUME NEW i \in DOMAIN h2_sessions
                 PROVE  \/ /\ i \in DOMAIN h2_sessions'
                           /\ h2_sessions'[i].provider = h2_sessions[i].provider
                           /\ h2_sessions[i].authorities \subseteq h2_sessions'[i].authorities
                        \/ /\ i \notin DOMAIN h2_sessions'
                           /\ Cardinality(DOMAIN h2_sessions) >= Limit
                           /\ LeastRecent(i)
      OBVIOUS
    <3>1. PICK u \in SessionIds, a \in Authority, p \in Providers, t \in 0 .. MaxSeen :
            \/ AssertEmpty(u, a)
            \/ AssertMismatch(u, a, p)
            \/ AssertKnown(u, a, p, t)
            \/ AssertNew(u, a, p, t)
      BY <2>2 DEF H2Next
    <3>2. CASE AssertEmpty(u, a) \/ AssertMismatch(u, a, p)
      BY <3>2 DEF AssertEmpty, AssertMismatch, Reject
    <3>3. CASE AssertKnown(u, a, p, t)
      <4> DEFINE added == [provider |-> p,
                           authorities |-> h2_sessions[u].authorities \cup NormalizeAuthority(a),
                           last_seen |-> t]
      <4>1. h2_sessions' = [h2_sessions EXCEPT ![u] = added] /\ h2_sessions[u].provider = p
        <5>1. h2_sessions' = [h2_sessions EXCEPT ![u] = added]
          BY <1>1, <3>3, KnownEffect
        <5> QED
          BY <3>3, <5>1 DEF AssertKnown, ProviderAgrees
      <4>2. /\ added.provider = h2_sessions[u].provider
            /\ h2_sessions[u].authorities \subseteq added.authorities
        BY <4>1
      <4> HIDE DEF added
      <4> QED
        BY <4>1, <4>2
    <3>4. CASE AssertNew(u, a, p, t)
      <4>1. /\ u \notin DOMAIN h2_sessions
            /\ DOMAIN h2_sessions' = (DOMAIN h2_sessions \ EvictIfNeeded) \cup {u}
            /\ \A j \in DOMAIN h2_sessions \ EvictIfNeeded : h2_sessions'[j] = h2_sessions[j]
        BY <3>4 DEF AssertNew
      <4>2. CASE i \in EvictIfNeeded
        <5>1. Cardinality(DOMAIN h2_sessions) \in Nat /\ Limit \in Nat
          BY <1>1, LimitType, FS_CardinalityType DEF H2Inv
        <5>2. ~ (Cardinality(DOMAIN h2_sessions) < Limit) /\ LeastRecent(i)
          BY <4>2 DEF EvictIfNeeded
        <5> QED
          BY <4>1, <4>2, <5>1, <5>2
      <4>3. CASE i \notin EvictIfNeeded
        BY <4>1, <4>3
      <4> QED
        BY <4>2, <4>3
    <3> QED
      BY <3>1, <3>2, <3>3, <3>4
  <2> QED
    BY <1>1, <2>1, <2>2 DEF DataNext, dataVars, h2Vars
<1>2. H2Inv /\ [DataNext]_dataVars => [P]_h2Vars
  BY <1>1
<1> QED
  BY <1>2, H2InvInductive, PTL DEF DataSpec, RebindOnlyAfterEviction

-----------------------------------------------------------------------------
(* The packet buffer                                                       *)

Ref == [slot : Nat, aligned : BOOLEAN, len : Nat]

\* The queues and the window hold packets, and a reference that fill_batch
\* gave out for the present window still names its packet there.
IngressInv ==
    /\ rx \in Seq(Packet) /\ tx \in Seq(Packet) /\ batch \in Seq(Packet)
    /\ held \subseteq [ref : Ref, packet : Packet, fresh : BOOLEAN]
    /\ \A h \in held : h.fresh => /\ h.ref.slot + 1 \in 1 .. Len(batch)
                                  /\ h.packet = batch[h.ref.slot + 1]

LEMMA PacketLen ==
  ASSUME NEW p \in Packet
  PROVE  p.len \in Nat
BY IngressAssumption DEF Packet, Budget

\* fill_batch takes the head of the queue as the new window.
LEMMA FillStep ==
  ASSUME IngressInv, NEW n \in 1 .. OutLen, FillBatch(n)
  PROVE  IngressInv'
<1> DEFINE count == IF n < Len(rx) THEN n ELSE Len(rx)
           window == SubSeq(rx, 1, count)
           old == {[h EXCEPT !.fresh = FALSE] : h \in {g \in held : g.fresh}}
           fresh == {[ref |-> RefTo(window, i), packet |-> window[i], fresh |-> TRUE] :
                       i \in 1 .. count}
<1>1. rx \in Seq(Packet) /\ Len(rx) \in Nat /\ n \in Nat
  BY IngressAssumption DEF IngressInv
<1>2. count \in 0 .. Len(rx) /\ count \in Nat
  BY <1>1
<1>3. batch' = window /\ rx' = SubSeq(rx, count + 1, Len(rx)) /\ tx' = tx
      /\ held' = old \cup fresh
  BY DEF FillBatch
<1> HIDE DEF count
<1>4. \A i \in 1 .. Len(rx) : rx[i] \in Packet
  BY <1>1, ElementOfSeq
<1>5. window \in Seq(Packet) /\ Len(window) = count
  <2>1. \A i \in 1 .. count : rx[i] \in Packet
    BY <1>2, <1>4
  <2> QED
    BY <1>2, <2>1, SubSeqProperties
<1>6. rx' \in Seq(Packet)
  <2>1. \A i \in count + 1 .. Len(rx) : rx[i] \in Packet
    BY <1>2, <1>4
  <2> QED
    BY <1>1, <1>2, <1>3, <2>1, SubSeqProperties
<1> DEFINE H == [ref : Ref, packet : Packet, fresh : BOOLEAN]
<1>7. \A h \in old : h \in H /\ ~ h.fresh
  BY DEF IngressInv
<1> HIDE DEF window
<1>8. ASSUME NEW h \in fresh
      PROVE  /\ h \in H
             /\ h.ref.slot + 1 \in 1 .. Len(window)
             /\ h.packet = window[h.ref.slot + 1]
  <2>1. PICK i \in 1 .. count :
          h = [ref |-> RefTo(window, i), packet |-> window[i], fresh |-> TRUE]
    OBVIOUS
  <2>2. window[i] \in Packet
    BY <1>2, <1>5, ElementOfSeq
  <2>3. RefTo(window, i) \in Ref /\ RefTo(window, i).slot = i - 1
    BY <1>2, <2>2, PacketLen DEF RefTo, Ref
  <2>4. h.ref.slot + 1 = i
    BY <1>2, <2>1, <2>3
  <2> QED
    BY <1>5, <2>1, <2>2, <2>3, <2>4
<1> HIDE DEF old, fresh
<1> QED
  BY <1>3, <1>5, <1>6, <1>7, <1>8 DEF IngressInv

\* The references of a send, and what it stages
LEMMA StagedPackets ==
  ASSUME IngressInv, NEW n \in 0 .. MaxRefs, NEW refs \in [1 .. n -> Sendable]
  PROVE  /\ Len(refs) = n /\ n \in Nat
         /\ Staged(refs) \in Seq(Packet)
         /\ ~ (\A i \in 1 .. n : Resolves(refs[i])) => Staged(refs) = << >>
         /\ (\A i \in 1 .. n : Resolves(refs[i])) =>
              /\ Len(Staged(refs)) = n
              /\ \A i \in 1 .. n : Staged(refs)[i] = batch[refs[i].slot + 1]
<1>1. n \in Nat
  BY IngressAssumption
<1>2. Len(refs) = n
  BY <1>1
<1>3. \A i \in 1 .. n : refs[i] \in Ref
  <2>1. Sendable \subseteq Ref
    <3>1. \A h \in held : h.ref \in Ref
      BY DEF IngressInv
    <3>2. Forged \subseteq Ref
      <4> DEFINE unaligned == {FALSE}
      <4>1. unaligned \subseteq BOOLEAN
        BY Zenon
      <4>2. Forged = [slot : {0}, aligned : unaligned, len : {1}]
        BY Zenon DEF Forged
      <4> HIDE DEF unaligned
      <4> QED
        BY <4>1, <4>2 DEF Ref
    <3> QED
      BY <3>1, <3>2 DEF Sendable
  <2> QED
    BY <2>1
<1>4. CASE \A i \in 1 .. n : Resolves(refs[i])
  <2>1. Staged(refs) = [i \in 1 .. n |-> batch[refs[i].slot + 1]]
    BY <1>2, <1>4 DEF Staged
  <2>2. ASSUME NEW i \in 1 .. n
        PROVE  batch[refs[i].slot + 1] \in Packet
    <3>1. refs[i].slot \in Nat /\ refs[i].slot < Len(batch)
      BY <1>3, <1>4 DEF Resolves, Ref
    <3>2. batch \in Seq(Packet) /\ Len(batch) \in Nat
      BY DEF IngressInv
    <3>3. refs[i].slot + 1 \in 1 .. Len(batch)
      BY <3>1, <3>2
    <3> QED
      BY <3>2, <3>3, ElementOfSeq
  <2>3. Staged(refs) \in Seq(Packet) /\ Len(Staged(refs)) = n
    BY <1>1, <2>1, <2>2
  <2> QED
    BY <1>1, <1>2, <1>4, <2>1, <2>3
<1>5. CASE ~ \A i \in 1 .. n : Resolves(refs[i])
  <2>1. Staged(refs) = << >>
    BY <1>2, <1>5 DEF Staged
  <2> QED
    BY <1>1, <1>2, <1>5, <2>1
<1> QED
  BY <1>4, <1>5

\* One call keeps the buffer's invariant.
LEMMA IngressStep ==
  ASSUME IngressInv, IngressNext
  PROVE  IngressInv'
<1>1. CASE \E os \in Targets, preference \in Preferences, fd \in Descriptors,
              nic \in Interfaces, bound \in BOOLEAN :
                BuildRuntimeBackend(os, preference, fd, nic, bound)
  BY <1>1 DEF BuildRuntimeBackend, IngressInv
<1>2. CASE \E p \in Packet : PushRx(p)
  BY <1>2 DEF PushRx, IngressInv
<1>3. CASE PopTx
  <2>1. tx' = Tail(tx) /\ tx # << >> /\ UNCHANGED <<rx, batch, held>>
    BY <1>3 DEF PopTx
  <2>2. tx' \in Seq(Packet)
    BY <2>1, HeadTailProperties DEF IngressInv
  <2> QED
    BY <2>1, <2>2 DEF IngressInv
<1>4. CASE \E n \in 1 .. OutLen : FillBatch(n)
  BY <1>4, FillStep
<1>5. CASE \E n \in 0 .. MaxRefs : \E refs \in [1 .. n -> Sendable] : SendBatch(refs)
  <2>1. PICK n \in 0 .. MaxRefs : \E refs \in [1 .. n -> Sendable] : SendBatch(refs)
    BY <1>5
  <2>2. PICK refs \in [1 .. n -> Sendable] : SendBatch(refs)
    BY <2>1
  <2>3. tx' = tx \o Staged(refs) /\ UNCHANGED <<rx, batch, held>>
    BY <2>2 DEF SendBatch
  <2>4. Staged(refs) \in Seq(Packet)
    BY StagedPackets
  <2>5. tx' \in Seq(Packet)
    BY <2>3, <2>4, ConcatProperties DEF IngressInv
  <2> QED
    BY <2>3, <2>5 DEF IngressInv
<1> QED
  BY <1>1, <1>2, <1>3, <1>4, <1>5 DEF IngressNext

\* A queue is its two parts after something was appended to it.
LEMMA SplitConcat ==
  ASSUME NEW S, NEW s \in Seq(S), NEW t \in Seq(S)
  PROVE  /\ SubSeq(s \o t, 1, Len(s)) = s
         /\ SubSeq(s \o t, Len(s) + 1, Len(s \o t)) = t
<1> DEFINE st == s \o t
           a == SubSeq(st, 1, Len(s))
           b == SubSeq(st, Len(s) + 1, Len(st))
<1>1. /\ st \in Seq(S) /\ Len(st) = Len(s) + Len(t)
      /\ \A i \in 1 .. Len(s) + Len(t) :
           st[i] = IF i <= Len(s) THEN s[i] ELSE t[i - Len(s)]
      /\ Len(s) \in Nat /\ Len(t) \in Nat
  BY ConcatProperties
<1>2. \A i \in 1 .. Len(st) : st[i] \in S
  BY <1>1, ElementOfSeq
<1> HIDE DEF st
<1>3. /\ a \in Seq(S) /\ Len(a) = Len(s)
      /\ \A i \in 1 .. Len(s) : a[i] = st[i]
  <2>1. \A i \in 1 .. Len(s) : st[i] \in S
    BY <1>1, <1>2
  <2>2. /\ a \in Seq(S)
        /\ Len(a) = IF 1 <= Len(s) THEN Len(s) - 1 + 1 ELSE 0
        /\ \A i \in 1 .. Len(s) - 1 + 1 : a[i] = st[1 + i - 1]
    BY <1>1, <2>1, SubSeqProperties
  <2> QED
    BY <1>1, <2>2
<1>4. /\ b \in Seq(S) /\ Len(b) = Len(t)
      /\ \A i \in 1 .. Len(t) : b[i] = st[Len(s) + i]
  <2>1. \A i \in Len(s) + 1 .. Len(st) : st[i] \in S
    BY <1>1, <1>2
  <2>2. /\ b \in Seq(S)
        /\ Len(b) = IF Len(s) + 1 <= Len(st) THEN Len(st) - (Len(s) + 1) + 1 ELSE 0
        /\ \A i \in 1 .. Len(st) - (Len(s) + 1) + 1 : b[i] = st[Len(s) + 1 + i - 1]
    BY <1>1, <2>1, SubSeqProperties
  <2> QED
    BY <1>1, <2>2
<1> HIDE DEF a, b
<1>5. a = s
  <2>1. \A i \in 1 .. Len(a) : a[i] = s[i]
    BY <1>1, <1>3
  <2> QED
    BY <1>3, <2>1, SeqEqual
<1>6. b = t
  <2>1. ASSUME NEW i \in 1 .. Len(t)
        PROVE  b[i] = t[i]
    <3>1. /\ Len(s) + i \in 1 .. Len(s) + Len(t)
          /\ ~ (Len(s) + i <= Len(s))
          /\ (Len(s) + i) - Len(s) = i
      BY <1>1
    <3>2. st[Len(s) + i] = t[(Len(s) + i) - Len(s)]
      BY <1>1, <3>1
    <3> QED
      BY <1>4, <3>1, <3>2
  <2> QED
    BY <1>4, <2>1, SeqEqual
<1> QED
  BY <1>5, <1>6 DEF a, b, st

\* For every budget, window and queue, send_batch queues all of its packets
\* or none, each the one at its reference's slot of the present window, and a
\* reference given out for this window sends the packet it was given for.
THEOREM SendFaithful == DataSpec => SendBatchFaithful
<1> DEFINE P == sent' # NoSend =>
                  LET added == SubSeq(tx', Len(tx) + 1, Len(tx'))
                      refs == sent'.refs
                  IN  /\ SubSeq(tx', 1, Len(tx)) = tx
                      /\ Len(added) \in {0, Len(refs)}
                      /\ sent'.ok <=> Len(added) = Len(refs)
                      /\ \A i \in 1 .. Len(added) :
                            /\ added[i] = batch[refs[i].slot + 1]
                            /\ added[i].len = refs[i].len
                            /\ \A h \in held :
                                 h.ref = refs[i] /\ h.fresh => h.packet = added[i]
<1>1. DataInit => IngressInv
  BY DEF DataInit, IngressInit, IngressInv
<1>2. ASSUME IngressInv, [DataNext]_dataVars
      PROVE  IngressInv'
  <2>1. CASE UNCHANGED ingressVars
    BY <1>2, <2>1 DEF ingressVars, IngressInv
  <2>2. CASE IngressNext
    BY <1>2, <2>2, IngressStep
  <2> QED
    BY <1>2, <2>1, <2>2 DEF DataNext, dataVars, ingressVars
<1>3. ASSUME IngressInv, NEW n \in 0 .. MaxRefs, NEW refs \in [1 .. n -> Sendable],
             SendBatch(refs)
      PROVE  P
  <2> DEFINE staged == Staged(refs)
             all == \A i \in 1 .. n : Resolves(refs[i])
  <2>1. /\ Len(refs) = n /\ n \in Nat
        /\ staged \in Seq(Packet)
        /\ ~ all => staged = << >>
        /\ all => /\ Len(staged) = n
                  /\ \A i \in 1 .. n : staged[i] = batch[refs[i].slot + 1]
    BY <1>3, StagedPackets
  <2>2. tx' = tx \o staged /\ sent'.refs = refs /\ sent'.ok = all
    BY <1>3, <2>1 DEF SendBatch
  <2> HIDE DEF staged
  <2>3. /\ SubSeq(tx', 1, Len(tx)) = tx
        /\ SubSeq(tx', Len(tx) + 1, Len(tx')) = staged
    BY <1>3, <2>1, <2>2, SplitConcat DEF IngressInv
  <2>4. Len(staged) \in {0, n}
    BY <2>1
  <2>5. CASE all
    <3>1. ASSUME NEW i \in 1 .. n
          PROVE  /\ staged[i] = batch[refs[i].slot + 1]
                 /\ staged[i].len = refs[i].len
                 /\ \A h \in held : h.ref = refs[i] /\ h.fresh => h.packet = staged[i]
      BY <1>3, <2>1, <2>5 DEF Resolves, IngressInv
    <3>2. sent'.ok <=> Len(staged) = Len(refs)
      BY <2>1, <2>2, <2>5
    <3> QED
      BY <2>1, <2>2, <2>3, <2>4, <2>5, <3>1, <3>2
  <2>6. CASE ~ all
    <3>1. staged = << >> /\ Len(staged) = 0
      BY <2>1, <2>6
    <3>2. n # 0
      BY <2>1, <2>6
    <3>3. ~ sent'.ok
      BY <2>2, <2>6
    <3> QED
      BY <2>1, <2>2, <2>3, <3>1, <3>2, <3>3
  <2> QED
    BY <2>5, <2>6
<1>4. ASSUME IngressInv, [DataNext]_dataVars
      PROVE  [P]_ingressVars
  <2>1. CASE UNCHANGED ingressVars
    BY <2>1
  <2>2. CASE IngressNext
    <3>1. CASE sent' = NoSend
      BY <3>1
    <3>2. CASE \E n \in 0 .. MaxRefs : \E refs \in [1 .. n -> Sendable] : SendBatch(refs)
      BY <1>3, <1>4, <3>2
    <3> QED
      BY <2>2, <3>1, <3>2
        DEF IngressNext, BuildRuntimeBackend, PushRx, PopTx, FillBatch
  <2> QED
    BY <1>4, <2>1, <2>2 DEF DataNext, dataVars, ingressVars
<1>5. IngressInv /\ [DataNext]_dataVars => IngressInv' /\ [P]_ingressVars
  BY <1>2, <1>4
<1> QED
  BY <1>1, <1>5, PTL DEF DataSpec, SendBatchFaithful
=============================================================================
