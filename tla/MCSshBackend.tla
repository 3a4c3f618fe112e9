---------------------------- MODULE MCSshBackend ----------------------------
(* Instances of SshBackend for TLC. *)
EXTENDS SshBackendClaims, TLC

\* Calls of one kind are interchangeable (safety runs only).
CallSymmetry == Permutations(Scripts) \cup Permutations(Streams)

=============================================================================
