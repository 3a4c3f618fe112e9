------------------------------ MODULE MCWinRm ------------------------------
(* Instances of WinRmBackend for TLC. *)
EXTENDS WinRmBackendClaims

MCPosters == Calls \X {"main", "output"}

\* One more than are ever in use at a time.
MCConns == 1..4

=============================================================================
