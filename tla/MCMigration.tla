----------------------------- MODULE MCMigration -----------------------------
(***************************************************************************)
(* Small instances of Migration.  "old" and "new" are two releases of the  *)
(* migrator; "partial" carries only a later owner's migrations, as         *)
(* migration.Run(ctx, db, source) is called with in the tests.             *)
(***************************************************************************)
EXTENDS Migration, TLC

CONSTANTS old, new, partial

\* Releases whose catalogues extend each other.
OrderedCatalogue == old :> {1} @@ new :> {1, 2, 3}
OrderedMin       == old :> 1 @@ new :> 2
OrderedMax       == old :> 1 @@ new :> 3

\* A third binary with a gap at the bottom of its catalogue and a window
\* that its own migrations overshoot.
GapCatalogue == old :> {1} @@ new :> {1, 2, 3} @@ partial :> {2}
GapMin       == old :> 1 @@ new :> 2 @@ partial :> 1
GapMax       == old :> 1 @@ new :> 3 @@ partial :> 1

\* Two owners: the second release adds a migration dated before one of the
\* other owner that the first release has already applied.
LateCatalogue == old :> {1, 3} @@ new :> {1, 2, 3}
LateMin       == old :> 3 @@ new :> 3
LateMax       == old :> 3 @@ new :> 3
=============================================================================
