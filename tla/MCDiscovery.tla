---------------------------- MODULE MCDiscovery ----------------------------
(***************************************************************************)
(* Four objects with four relations between them at most, and one or two   *)
(* roots.                                                                  *)
(***************************************************************************)
EXTENDS Discovery, FiniteSetsExt

CONSTANTS o1, o2, o3, o4

FourUris == {o1, o2, o3, o4}

\* Chains, cycles and forks, with objects that relate to nothing.
SparseRelations ==
  {[u \in FourUris |-> {v \in FourUris : <<u, v>> \in links}] :
     links \in UNION {kSubset(k, FourUris \X FourUris) : k \in 0..4}}

\* By symmetry, the first root may be the first object.
OneOrTwoRoots == {<<o1>>, <<o1, o1>>, <<o1, o2>>}

=============================================================================
