--------------------------- MODULE MCJobScheduler ---------------------------
(* Small instances of JobScheduler. *)
EXTENDS JobScheduler, TLC

CONSTANTS t1, t2, k1, i1, i2, r1, r2

OneKind  == [t \in Tasks |-> k1]
KnowAll  == [i \in Instances |-> Kinds]
OldBuild == [i \in Instances |-> IF i = i2 THEN {} ELSE Kinds]

\* Rows are interchangeable, and so are instances of the same build.
AnyRow         == Permutations(Runs)
AnyRowInstance == Permutations(Runs) \cup Permutations(Instances)
=============================================================================
