------------------------------ MODULE DataPlane ------------------------------
(***************************************************************************)
(* The tables of the Rust data plane side by side: the certificate cache,  *)
(* the HTTP/2 guard, the packet buffer and the overlay's sessions.  They   *)
(* share no state and no lock, so each behaviour exercises one of them.    *)
(***************************************************************************)
EXTENDS CertCache, H2Coalescing, PacketIngress, CooperativeOverlay

VARIABLE table   \* the one this behaviour exercises

dataVars == <<certVars, h2Vars, ingressVars, vars, table>>

\* The limits of an overlay that is not exercised make no difference: any one
SomeLimits ==
    CHOOSE l \in {new(s, t, p) : s \in SessionLimits, t \in IdleTtls, p \in PayloadLimits} : TRUE

DataInit ==
    /\ table \in {"certs", "h2", "packets", "overlay"}
    /\ CertInit /\ H2Init /\ IngressInit /\ Init
    /\ table # "overlay" => limits = SomeLimits

DataNext ==
    \/ table = "certs" /\ CertNext /\ UNCHANGED <<h2Vars, ingressVars, vars, table>>
    \/ table = "h2" /\ H2Next /\ UNCHANGED <<certVars, ingressVars, vars, table>>
    \/ table = "packets" /\ IngressNext /\ UNCHANGED <<certVars, h2Vars, vars, table>>
    \/ table = "overlay" /\ Next /\ UNCHANGED <<certVars, h2Vars, ingressVars, table>>

DataSpec == DataInit /\ [][DataNext]_dataVars

=============================================================================
