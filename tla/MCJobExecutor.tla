--------------------------- MODULE MCJobExecutor ---------------------------
(* Small instances of JobExecutor: one Lance dataset, one SQLite table and  *)
(* one table of a SQL server, with a job for each.                          *)
EXTENDS JobExecutor, TLC

Jobs == {"toLance", "toSqlite", "toPostgres"}
Tables == {"lance", "sqlite", "postgres"}
DestinationOf == [j \in Jobs |->
    CASE j = "toLance" -> "lance" [] j = "toSqlite" -> "sqlite" [] OTHER -> "postgres"]

Symmetry == Permutations(Run)
=============================================================================
