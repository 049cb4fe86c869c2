--------------------------- MODULE OverlaySessions ---------------------------
(***************************************************************************)
(* What the cooperative overlay promises its peers, without clocks, limits *)
(* or sequence counters.  A session is live or not.  While it lives, the   *)
(* chunks it delivers are numbered 0, 1, 2, ... with none missing and none *)
(* twice.  Sessions may be dropped when another one opens or in a sweep; a *)
(* dropped session forgets its chunks, and may open again from 0.          *)
(***************************************************************************)
EXTENDS Naturals, Sequences

CONSTANT Sessions

VARIABLES live,       \* the sessions that are open
          delivered   \* the numbers each one has delivered in its present life

avars == <<live, delivered>>

AbsInit == /\ live = {}
           /\ delivered = [s \in Sessions |-> << >>]

\* What is remembered when only the sessions of keep go on.
Forget(keep) == [s \in Sessions |-> IF s \in keep THEN delivered[s] ELSE << >>]

Open(s, keep) == /\ s \notin live
                 /\ live' = keep \cup {s}
                 /\ delivered' = Forget(keep)

Deliver(s) == /\ s \in live
              /\ delivered' = [delivered EXCEPT ![s] = Append(@, Len(@))]
              /\ UNCHANGED live

Expire(keep) == /\ live' = keep
                /\ delivered' = Forget(keep)

AbsNext == \E keep \in SUBSET live : \/ \E s \in Sessions : Open(s, keep)
                                     \/ Expire(keep)
                                     \/ \E s \in Sessions : Deliver(s)

AbsSpec == AbsInit /\ [][AbsNext]_avars
=============================================================================
