----------------------------- MODULE MCStagedMap -----------------------------
(***************************************************************************)
(* StagedMap for TLC: one map path and the startup image, two contents,    *)
(* two AccessPorts.                                                        *)
(***************************************************************************)
EXTENDS StagedMap, TLC

Symmetry == Permutations(Payloads) \union Permutations(Serials)
=============================================================================
