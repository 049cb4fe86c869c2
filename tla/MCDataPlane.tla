----------------------------- MODULE MCDataPlane -----------------------------
(* Four keys of three provider families: a family can fill its own cap, and  *)
(* the three together have room for more entries than the cache as a whole,  *)
(* so that both evictions happen.                                            *)
EXTENDS DataPlane, TLC

MCProviderFamily == <<"google", "google", "fastly", "meta">>

(* The tags and the providers are only ever compared for equality. *)
MCSymmetry == Permutations(Tags) \cup Permutations(Providers)
=============================================================================
