-------------------------------- MODULE MCCell --------------------------------
(***************************************************************************)
(* Small instances of Cell: a release, and one that adds a migration.      *)
(***************************************************************************)
EXTENDS Cell, TLC

CONSTANTS m1, m2

TwoReleases  == m1 :> 1 @@ m2 :> 2
TwoCatalogue == m1 :> {1} @@ m2 :> {1, 2}
TwoMin       == m1 :> 1 @@ m2 :> 2
TwoMax       == m1 :> 1 @@ m2 :> 2

BootSymmetry == Permutations(Boots)
=============================================================================
