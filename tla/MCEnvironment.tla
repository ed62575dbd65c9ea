--------------------------- MODULE MCEnvironment ---------------------------
(* Instances of Environment for TLC. *)
EXTENDS Environment

CONSTANTS r1, r2, r3

TwoRuns == {r1, r2}
ThreeRuns == {r1, r2, r3}

\* A scenario with one database, one Redis and one service.
NoNames == << >>
OneMigration == <<"flyway-db">>
OneRedis == <<"redis-a">>
TwoRedis == <<"redis-a", "redis-b">>
OneApp == <<"app-a">>
TwoApps == <<"app-a", "app-b">>

Developer == {<<"developer", "db">>}

RunSymmetry == Permutations(Runs)
=============================================================================
