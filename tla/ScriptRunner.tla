---------------------------- MODULE ScriptRunner ----------------------------
(***************************************************************************)
(* What a transport backend promises the typed Hyper-V client: the         *)
(* contract of connection.Runner (internal/connection/runner.go) and of    *)
(* the sentinel errors next to it (errors.go), for RunScript.              *)
(*                                                                         *)
(* A call hands one script to the host and returns one outcome.  Scripts   *)
(* have effects that must not be repeated, so the outcome has to tell the  *)
(* caller what it may conclude about the script:                           *)
(*   "ok"       an exit status arrived: the script ran to its end;         *)
(*   "unsent"   the call gave up before it handed the script over: the     *)
(*              script never runs, not even after the return;              *)
(*   "dropped"  ErrSessionDropped: the session ended in the middle of the  *)
(*              script, which was started and may still be running;        *)
(*   "unknown"  ErrTimeout and any other error.  It says nothing: the      *)
(*              script may run, may have run, may be on its way to the     *)
(*              host still and start after the return, or never start.     *)
(*                                                                         *)
(* Two parameters say what a backend does not promise.  Over SSH a script  *)
(* is started once at most and is the text it was given; both are wider    *)
(* over WinRM.                                                             *)
(***************************************************************************)
EXTENDS Naturals, FiniteSets

CONSTANTS
    Calls,          \* the RunScript calls made during one provider process
    Limit,          \* how many scripts may be waited for at a time
    MaxStarts,      \* how often a script that is handed over may be started
    TextMayBeLost   \* what is started may be something else than the script

VARIABLES
    call,       \* what each call's caller has seen of it
    sent,       \* the calls that have handed their script over
    script,     \* what the host has done: each start of each call's script
    text        \* what was started: "whole", the script, or "other"

vars == <<call, sent, script, text>>

Outcomes == {"ok", "unsent", "dropped", "unknown"}

Starts == 1..MaxStarts

Awaited == {c \in sent : call[c] = "pending"}

Started(c) == \E n \in Starts : script[c][n] # "none"

RanToItsEnd(c) ==
    /\ \E n \in Starts : script[c][n] = "finished"
    /\ TextMayBeLost \/ text[c] = "whole"

Init ==
    /\ call = [c \in Calls |-> "new"]
    /\ sent = {}
    /\ script = [c \in Calls |-> [n \in Starts |-> "none"]]
    /\ text = [c \in Calls |-> "none"]

Invoke(c) ==
    /\ call[c] = "new"
    /\ call' = [call EXCEPT ![c] = "pending"]
    /\ UNCHANGED <<sent, script, text>>

\* The script is handed over once, while there is room for one more.
Submit(c) ==
    /\ call[c] = "pending"
    /\ c \notin sent
    /\ Cardinality(Awaited) < Limit
    /\ sent' = sent \cup {c}
    /\ UNCHANGED <<call, script, text>>

\* The host starts it, which may be after the caller gave up waiting.
Start(c, n, t) ==
    /\ c \in sent
    /\ call[c] \in {"pending", "unknown"}
    /\ script[c][n] = "none"
    /\ script' = [script EXCEPT ![c][n] = "running"]
    /\ t = "whole" \/ TextMayBeLost
    /\ text[c] \in {"none", t}
    /\ text' = [text EXCEPT ![c] = t]
    /\ UNCHANGED <<call, sent>>

\* The host finishes the script whether or not anyone still waits for it.
Complete(c, n) ==
    /\ script[c][n] = "running"
    /\ script' = [script EXCEPT ![c][n] = "finished"]
    /\ UNCHANGED <<call, sent, text>>

MayReturn(c, outcome) ==
    \/ outcome = "ok" /\ call[c] = "pending" /\ c \in sent /\ RanToItsEnd(c)
    \/ outcome = "unsent" /\ call[c] \in {"new", "pending"} /\ c \notin sent
    \/ outcome = "dropped" /\ call[c] = "pending" /\ c \in sent /\ Started(c)
    \/ outcome = "unknown" /\ call[c] = "pending"

Return(c, outcome) ==
    /\ MayReturn(c, outcome)
    /\ call' = [call EXCEPT ![c] = outcome]
    /\ UNCHANGED <<sent, script, text>>

Next ==
    \E c \in Calls :
        \/ Invoke(c)
        \/ Submit(c)
        \/ \E n \in Starts : Complete(c, n)
        \/ \E n \in Starts, t \in {"whole", "other"} : Start(c, n, t)
        \/ \E outcome \in Outcomes : Return(c, outcome)

Spec == Init /\ [][Next]_vars

=============================================================================
