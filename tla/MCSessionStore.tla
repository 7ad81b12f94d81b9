--------------------------- MODULE MCSessionStore ---------------------------
(* Instances of SessionStore for TLC. *)
EXTENDS SessionStore, TLC

\* Inode numbers are interchangeable, and so are sessions and the threads of a kind.
Symmetry == Permutations(Inodes) \cup Permutations(Savers) \cup Permutations(Sessions)
==============================================================================
