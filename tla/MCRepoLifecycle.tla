-------------------------- MODULE MCRepoLifecycle --------------------------
(* RepoLifecycle on small instances: users, slots and files are alike.     *)
EXTENDS RepoLifecycle, TLC

Interchangeable == Permutations(Users) \cup Permutations(Posts) \cup Permutations(Files)
=============================================================================
