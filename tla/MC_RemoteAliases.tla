-------------------------- MODULE MC_RemoteAliases --------------------------
(* Model values and definitions for checking RemoteAliases with TLC. *)
EXTENDS RemoteAliases, TLC

CONSTANTS i1, i2, r1, r2

MCTwoInstances == {i1, i2}
MCOneInstance  == {i1}
MCAliases      == {r1, r2}
MCKinds        == {"Pull", "Push"}

\* Handles are interchangeable, and so are alias names.
MCSymmetry == Permutations(MCTwoInstances) \cup Permutations(MCAliases)

====
