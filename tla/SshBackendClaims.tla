-------------------------- MODULE SshBackendClaims --------------------------
(***************************************************************************)
(* What a comment of ssh.go says of the SSH backend and its code does not  *)
(* keep, stated as a property.  A run refutes it.                          *)
(***************************************************************************)
EXTENDS SshBackend

\* keepaliveLoop's comment: a failed keepalive "marks the backend not-alive
\* (RunScript reconnects on the next call)".  Once Configure has opened the
\* backend, and until it is shut down, no call is turned away as not open.
DeadBackendReconnects ==
    \A p \in Calls : result[p] = "not open" => pc[Provider] # "ready"

=============================================================================
