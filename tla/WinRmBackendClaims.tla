-------------------------- MODULE WinRmBackendClaims -------------------------
(***************************************************************************)
(* What a comment of the code says of runShellCmd and the code does not    *)
(* keep, stated as a property.  A run refutes it.                          *)
(***************************************************************************)
EXTENDS WinRmBackend

\* "Returns the exit code and any transport error": RunScript, which stages
\* and runs its script with runShellCmd, says "ok" only of a script whose text
\* reached the host and ran.
OkMeansRan ==
    \A p \in Calls : result[p] = "ok" =>
        text[p] = "whole" /\ \E i \in 1..2 : copies[p][i] = "finished"

=============================================================================
