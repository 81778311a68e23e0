--------------------------- MODULE MCFileExtents ---------------------------
(* FileExtents for model checking: partitions are interchangeable. *)
EXTENDS FileExtents, TLC

PartitionSymmetry == Permutations(Partitions)

=============================================================================
