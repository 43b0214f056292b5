---------------------------- MODULE MCMediaFetch ----------------------------
(***************************************************************************)
(* MediaFetch on small instances.  Fetches, hosts and devices are          *)
(* interchangeable, and the run has no liveness property, so states that   *)
(* differ only in their names are identified.                              *)
(***************************************************************************)
EXTENDS MediaFetch, TLC

Symmetry == Permutations(Fetches) \union Permutations(Hosts)
              \union Permutations(Devices)
=============================================================================
