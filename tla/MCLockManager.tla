--------------------------- MODULE MCLockManager ---------------------------
(***************************************************************************)
(* Instances of LockManager for TLC: every record belongs to the one table *)
(* RecTable; transactions are interchangeable, as are records, and tables  *)
(* when there are no records.                                              *)
(***************************************************************************)
EXTENDS LockManager, TLC

CONSTANT RecTable    \* the table that all records of the instance belong to

MCTableOf == [r \in Rec |-> RecTable]

Symmetry == Permutations(Txn \ Autocommit)
              \cup IF Rec = {} THEN Permutations(Table) ELSE Permutations(Rec)

=============================================================================
