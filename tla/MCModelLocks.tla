---------------------------- MODULE MCModelLocks ----------------------------
(* Three processes on one model: a pair that conflicts and a third that comes
   in between.  Three inodes are enough for both names and an unlinked file that
   is still open; creating a file waits while all three are referenced.  Processes
   and inode numbers are symmetric. *)
EXTENDS ModelLocks, TLC

Symmetry == Permutations(Clients) \cup Permutations(Inodes)
=============================================================================
