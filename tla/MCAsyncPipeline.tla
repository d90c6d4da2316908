-------------------------- MODULE MCAsyncPipeline --------------------------
(***************************************************************************)
(* Instances of AsyncPipeline for TLC.  Descriptor 0 is always one of the  *)
(* sockets: it has no negation, so IGNORE treats it apart.                 *)
(***************************************************************************)
EXTENDS AsyncPipeline, TLC

MCGranularities == {-1, 0}

Symmetry == Permutations(Clients) \union Permutations(Objects)
=============================================================================
