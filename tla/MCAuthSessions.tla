--------------------------- MODULE MCAuthSessions ---------------------------
(* AuthSessions on small instances: browsers and slots are interchangeable. *)
EXTENDS AuthSessions, TLC

Interchangeable == Permutations(Browsers) \cup Permutations(Slots)
=============================================================================
