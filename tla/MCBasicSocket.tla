---------------------------- MODULE MCBasicSocket ----------------------------
(* BasicSocket on a small instance: a thread with two objects and two with *)
(* one.                                                                    *)
EXTENDS BasicSocket, TLC

CONSTANTS s1, s2, s3, s4, t1, t2, t3

MCSockets == {s1, s2, s3, s4}
MCThreads == {t1, t2, t3}
MCOwner == [s \in MCSockets |-> CASE s \in {s1, s2} -> t1 [] s = s3 -> t2 [] s = s4 -> t3]

\* The threads t2 and t3 are alike, each with its object.
ASSUME SwapAssumption == SomeSocket \in {s1, s2}

Swap == (t2 :> t3) @@ (t3 :> t2) @@ (s3 :> s4) @@ (s4 :> s3)

Symmetry == Permutations(Descriptors) \union Permutations(Infos) \union {Swap}

\* Bounds: nothing is explored after two close() have crossed, where one
\* property promises nothing and the others are proved, or when every info of
\* the instance has leaked.
WithinBounds == ~crossed /\ \E i \in Infos : Fresh(i) \/ i \in Live
=============================================================================
