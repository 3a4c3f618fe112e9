---------------------------- MODULE WinRmBackend ----------------------------
(***************************************************************************)
(* The WinRM backend, internal/connection/winrm.go: Open, Close and        *)
(* RunScript.  A call opens a shell on the host and runs three commands in *)
(* it: one that stages the script, whose text is its stdin, one that runs  *)
(* the staged file, with the parameters as its stdin, and one that removes *)
(* it.  Then it deletes the shell; a semaphore bounds the calls that have  *)
(* one.  Every request is a Post of NtlmTransport.                         *)
(*                                                                         *)
(* A command has a goroutine of its own that polls for its output while    *)
(* the call feeds its stdin: each call has two posters.  masterzen/winrm   *)
(* and the host are modelled from how the code uses them.  What goes       *)
(* through stdin counts as one message; of the two that do, the text of    *)
(* the script and its parameters, the model follows only the text.         *)
(*                                                                         *)
(* An operator named Mut... is a wrong version of the one below it.        *)
(***************************************************************************)
EXTENDS NtlmTransport

CONSTANTS
    Calls,          \* the RunScript calls of one provider process
    MaxShells       \* capacity of b.shellSem

Main(p) == <<p, "main">>
Output(p) == <<p, "output">>

ASSUME PostersAssumption == Posters = Calls \X {"main", "output"}

ASSUME ShellsAssumption == MaxShells \in Nat \ {0}

VARIABLES
    status,     \* of b.client: "opening", "open", "closed"
    sem,        \* the calls holding a slot of b.shellSem
    pc,         \* where each call is
    command,    \* the command it is at: "stage", "run" or "clean"
    output,     \* the goroutine that polls for the command's output
    result,     \* how a call ended
    spoiled,    \* a post of the call failed, or was handled twice
    shell,      \* host: the shell the call last created
    stray,      \* host: it also has a shell whose creation was not heard of
    input,      \* host: how often what goes through stdin arrived
    file,       \* host: what the stage command wrote
    copies,     \* host: each start of the staged file
    text        \* host: what the file held when it was started

calls == <<status, sem, pc, command, output, result, spoiled>>
host == <<shell, stray, input, file, copies, text>>
vars == <<transport, calls, host>>

Results == {"none", "ok", "not open", "cancelled", "failed", "timeout"}

Steps == {"create", "launch", "feed", "end", "join", "delete"}

OutputEnded == {"finished", "broken", "stopped"}

TypeOK ==
    /\ TransportTypeOK
    /\ status \in {"opening", "open", "closed"}
    /\ sem \subseteq Calls
    /\ Cardinality(sem) <= MaxShells
    /\ pc \in [Calls -> {"idle", "queue", "done"} \cup Steps]
    /\ command \in [Calls -> {"stage", "run", "clean"}]
    /\ output \in [Calls -> {"off", "polling", "stopping"} \cup OutputEnded]
    /\ result \in [Calls -> Results]
    /\ spoiled \in [Calls -> BOOLEAN]
    /\ shell \in [Calls -> {"none", "open", "deleted"}]
    /\ stray \in [Calls -> BOOLEAN]
    /\ input \in [Calls -> 0..2]
    /\ file \in [Calls -> {"none", "empty", "whole", "double"}]
    /\ copies \in [Calls -> [1..2 -> {"none", "running", "finished"}]]
    /\ text \in [Calls -> {"none", "whole", "other"}]

Init ==
    /\ TransportInit
    /\ status = "opening"
    /\ sem = {}
    /\ pc = [p \in Calls |-> "idle"]
    /\ command = [p \in Calls |-> "stage"]
    /\ output = [p \in Calls |-> "off"]
    /\ result = [p \in Calls |-> "none"]
    /\ spoiled = [p \in Calls |-> FALSE]
    /\ shell = [p \in Calls |-> "none"]
    /\ stray = [p \in Calls |-> FALSE]
    /\ input = [p \in Calls |-> 0]
    /\ file = [p \in Calls |-> "none"]
    /\ copies = [p \in Calls |-> [i \in 1..2 |-> "none"]]
    /\ text = [p \in Calls |-> "none"]

-----------------------------------------------------------------------------
(* The host *)

\* Only the first copy's start can go unheard: a post is sent twice at most.
LastCopy(p) == IF copies[p][2] # "none" THEN copies[p][2] ELSE copies[p][1]

\* The command whose output is polled for has ended.
CommandEnded(p) ==
    CASE command[p] = "stage" -> file[p] # "none"
      [] command[p] = "run" -> LastCopy(p) = "finished"
      [] command[p] = "clean" -> file[p] = "none"

HostCreates(p) ==
    /\ stray' = [stray EXCEPT ![p] = shell[p] = "open"]
    /\ shell' = [shell EXCEPT ![p] = "open"]
    /\ UNCHANGED <<input, file, copies, text>>

HostRuns(p) ==
    /\ LET i == IF copies[p][1] = "none" THEN 1 ELSE 2
       IN  copies' = [copies EXCEPT ![p][i] = "running"]
    /\ text' = [text EXCEPT ![p] = IF file[p] = "whole" THEN "whole" ELSE "other"]
    /\ UNCHANGED <<shell, stray, input, file>>

HostReadsInput(p) ==
    /\ input' = [input EXCEPT ![p] = IF @ = 0 THEN 1 ELSE 2]
    /\ UNCHANGED <<shell, stray, file, copies, text>>

\* stdin ends: what arrived until then is what gets written.
HostWritesFile(p) ==
    /\ file' = [file EXCEPT ![p] =
                  IF @ # "none" THEN @
                  ELSE CASE input[p] = 0 -> "empty"
                         [] input[p] = 1 -> "whole"
                         [] input[p] = 2 -> "double"]
    /\ UNCHANGED <<shell, stray, input, copies, text>>

HostRemovesFile(p) ==
    /\ file' = [file EXCEPT ![p] = "none"]
    /\ input' = [input EXCEPT ![p] = 0]
    /\ UNCHANGED <<shell, stray, copies, text>>

HostDeletes(p) ==
    /\ shell' = [shell EXCEPT ![p] = "deleted"]
    /\ UNCHANGED <<stray, input, file, copies, text>>

\* What handling the message of a call does.
HostHandles(p) ==
    CASE pc[p] = "create" -> HostCreates(p)
      [] pc[p] = "launch" /\ command[p] = "run" -> HostRuns(p)
      [] pc[p] = "launch" /\ command[p] = "clean" -> HostRemovesFile(p)
      [] pc[p] = "feed" /\ command[p] = "stage" -> HostReadsInput(p)
      [] pc[p] = "end" /\ command[p] = "stage" -> HostWritesFile(p)
      [] pc[p] = "delete" -> HostDeletes(p)
      [] OTHER -> UNCHANGED host

ScriptEnds(p) ==
    /\ \E i \in 1..2 :
         /\ copies[p][i] = "running"
         /\ copies' = [copies EXCEPT ![p][i] = "finished"]
    /\ UNCHANGED <<transport, calls, shell, stray, input, file, text>>

-----------------------------------------------------------------------------
(* Posting *)

MainPost(p) ==
    /\ HandledStep(Main(p))
    /\ HostHandles(p)
    /\ UNCHANGED calls

OutputPost(p) ==
    /\ HandledStep(Output(p))
    /\ UNCHANGED <<calls, host>>

\* The host answers a poll when there is something to tell, or after the
\* operation timeout, which feeding a script to the host does not outlast.
Answers(p) == pc[p] = "join" \/ output[p] = "stopping" \/ CommandEnded(p)

Posting(q) ==
    /\ PostStep(q)
    /\ \A p \in Calls : q = Output(p) /\ post[q] = "asked" => Answers(p)
    /\ UNCHANGED <<calls, host>>

Network ==
    /\ NetworkStep
    /\ UNCHANGED <<calls, host>>

\* The call's own post has ended, and how.
Replied(p) == post[Main(p)] = "ok"
Failed(p) == post[Main(p)] = "error"
Settled(p) == post[Main(p)] \in Ended

Bad(p) == Failed(p) \/ handled[Main(p)] > 1

\* The call goes on to a step that begins with the posts of Q.
GoOn(p, step, Q) ==
    /\ pc' = [pc EXCEPT ![p] = step]
    /\ NextPosts({Main(p)}, Q)
    /\ spoiled' = [spoiled EXCEPT ![p] = @ \/ Bad(p)]
    /\ UNCHANGED host

\* A command is over, and what comes of it decides the call: the staged file
\* is removed once it was launched, whatever became of it, and what comes of
\* the removal decides nothing.
CommandOver(p, r) ==
    /\ output' = [output EXCEPT ![p] = "off"]
    /\ IF command[p] = "run"
         THEN /\ command' = [command EXCEPT ![p] = "clean"]
              /\ GoOn(p, "launch", {Main(p)})
         ELSE /\ UNCHANGED command
              /\ GoOn(p, "delete", {Main(p)})
    /\ result' = IF command[p] = "clean" THEN result
                                         ELSE [result EXCEPT ![p] = r]

-----------------------------------------------------------------------------
(* Open and Close *)

\* Open's health check is a script that runs alone: what it leaves is an
\* authenticated session, with its connection.
OpenSucceeds ==
    /\ status = "opening"
    /\ status' = "open"
    /\ session' \in Conns
    /\ idle' = {session'}
    /\ UNCHANGED <<injected, ciphers, posting, observed, sem, pc, command, output,
                   result, spoiled, host>>

OpenFails ==
    /\ status = "opening"
    /\ status' = "closed"
    /\ UNCHANGED <<transport, sem, pc, command, output, result, spoiled, host>>

\* Calls under way keep their client: Close shows to those that come later.
Close ==
    /\ status = "open"
    /\ \E p \in Calls : pc[p] = "idle"
    /\ status' = "closed"
    /\ UNCHANGED <<transport, sem, pc, command, output, result,
                   spoiled, host>>

-----------------------------------------------------------------------------
(* RunScript *)

Invoke(p) ==
    /\ pc[p] = "idle"
    /\ status # "opening"
    /\ IF status = "closed"
         THEN /\ pc' = [pc EXCEPT ![p] = "done"]
              /\ result' = [result EXCEPT ![p] = "not open"]
         ELSE /\ pc' = [pc EXCEPT ![p] = "queue"]
              /\ UNCHANGED result
    /\ UNCHANGED <<transport, status, sem, command, output,
                   spoiled, host>>

\* acquireShell, CreateShell.
AcquireShell(p) ==
    /\ pc[p] = "queue"
    /\ Cardinality(sem) < MaxShells
    /\ sem' = sem \cup {p}
    /\ pc' = [pc EXCEPT ![p] = "create"]
    /\ NextPosts({}, {Main(p)})
    /\ UNCHANGED <<status, command, output, result, spoiled, host>>

CancelQueued(p) ==
    /\ pc[p] = "queue"
    /\ pc' = [pc EXCEPT ![p] = "done"]
    /\ result' = [result EXCEPT ![p] = "cancelled"]
    /\ UNCHANGED <<transport, status, sem, command, output,
                   spoiled, host>>

Created(p) ==
    /\ pc[p] = "create"
    /\ Replied(p)
    /\ GoOn(p, "launch", {Main(p)})
    /\ UNCHANGED <<status, sem, command, output, result>>

CreateFails(p) ==
    /\ pc[p] = "create"
    /\ Failed(p)
    /\ result' = [result EXCEPT ![p] = "failed"]
    /\ sem' = sem \ {p}
    /\ GoOn(p, "done", {})
    /\ UNCHANGED <<status, command, output>>

\* ExecuteWithContext: the command's output is polled for from now on.  The
\* script's text is always fed, its parameters if it has any, and the removal
\* has no stdin.
Launched(p) ==
    /\ pc[p] = "launch"
    /\ Replied(p)
    /\ output' = [output EXCEPT ![p] = "polling"]
    /\ \/ command[p] \in {"stage", "run"} /\ GoOn(p, "feed", {Main(p), Output(p)})
       \/ command[p] \in {"run", "clean"} /\ GoOn(p, "join", {Output(p)})
    /\ UNCHANGED <<status, sem, command, result>>

\* The error is a timeout when the context has ended by then.
LaunchFails(p) ==
    /\ pc[p] = "launch"
    /\ Failed(p)
    /\ \E r \in {"failed", "timeout"} : CommandOver(p, r)
    /\ UNCHANGED <<status, sem>>

\* The text is written and stdin closed.  runShellCmd does not look at the
\* error of writing it.
Fed(p) ==
    /\ pc[p] = "feed"
    /\ Settled(p)
    /\ GoOn(p, "end", {Main(p)})
    /\ UNCHANGED <<status, sem, command, output, result>>

\* Nor at the error of closing it.
InputEnds(p) ==
    /\ pc[p] = "end"
    /\ Settled(p)
    /\ GoOn(p, "join", {})
    /\ UNCHANGED <<status, sem, command, output, result>>

\* The stage command exits with zero, and the file is launched.
Staged(p) ==
    /\ pc[p] = "join"
    /\ command[p] = "stage"
    /\ output[p] = "finished"
    /\ command' = [command EXCEPT ![p] = "run"]
    /\ output' = [output EXCEPT ![p] = "off"]
    /\ GoOn(p, "launch", {Main(p)})
    /\ UNCHANGED <<status, sem, result>>

MutStageRefusedReturns(p) ==
    /\ pc[p] = "join"
    /\ command[p] = "stage"
    /\ output[p] = "finished"
    /\ result' = [result EXCEPT ![p] = "failed"]
    /\ sem' = sem \ {p}
    /\ output' = [output EXCEPT ![p] = "off"]
    /\ GoOn(p, "done", {})
    /\ UNCHANGED <<status, command>>

\* It exits with another status.
StageRefused(p) ==
    /\ pc[p] = "join"
    /\ command[p] = "stage"
    /\ output[p] = "finished"
    /\ CommandOver(p, "failed")
    /\ UNCHANGED <<status, sem>>

MutExitStatusOfStopped(p) ==
    /\ pc[p] = "join"
    /\ command[p] # "stage"
    /\ output[p] \in {"finished", "stopped"}
    /\ CommandOver(p, "ok")
    /\ UNCHANGED <<status, sem>>

\* The run ended, with any exit status, or the removal did.
ExitStatus(p) ==
    /\ pc[p] = "join"
    /\ command[p] # "stage"
    /\ output[p] = "finished"
    /\ CommandOver(p, "ok")
    /\ UNCHANGED <<status, sem>>

CommandFails(p) ==
    /\ pc[p] = "join"
    /\ output[p] \in {"broken", "stopped"}
    /\ \E r \in {"failed", "timeout"} :
         /\ output[p] = "stopped" => r = "timeout"
         /\ CommandOver(p, r)
    /\ UNCHANGED <<status, sem>>

\* The deferred shell.Close, and then the deferred releaseShell.
Deleted(p) ==
    /\ pc[p] = "delete"
    /\ Settled(p)
    /\ sem' = sem \ {p}
    /\ GoOn(p, "done", {})
    /\ UNCHANGED <<status, command, output, result>>

-----------------------------------------------------------------------------
(* fetchOutput of masterzen/winrm *)

Polls(p) == output[p] = "polling" /\ post[Output(p)] \in Ended

OutputGoesOn(p, to, Q) ==
    /\ output' = [output EXCEPT ![p] = to]
    /\ NextPosts({Output(p)}, Q)
    /\ UNCHANGED <<status, sem, pc, command, result, spoiled, host>>

PollAgain(p) ==
    /\ Polls(p)
    /\ post[Output(p)] = "ok"
    /\ ~CommandEnded(p)
    /\ OutputGoesOn(p, "polling", {Output(p)})

PollEnds(p) ==
    /\ Polls(p)
    /\ post[Output(p)] = "ok"
    /\ CommandEnded(p)
    /\ OutputGoesOn(p, "finished", {})

\* The post failed, or the reply that told of the end was lost and a second
\* one does not tell of it.
PollFails(p) ==
    /\ Polls(p)
    /\ \/ post[Output(p)] = "error"
       \/ CommandEnded(p) /\ handled[Output(p)] > 1
    /\ OutputGoesOn(p, "broken", {})

MutContextEndsStaging(p) ==
    /\ Polls(p)
    /\ command[p] = "stage"
    /\ post[Output(p)] = "ok"
    /\ OutputGoesOn(p, "stopping", {Output(p)})

\* The context has ended: the command is told to stop.
ContextEnds(p) ==
    /\ Polls(p)
    /\ post[Output(p)] = "ok"
    /\ OutputGoesOn(p, "stopping", {Output(p)})

Stopped(p) ==
    /\ output[p] = "stopping"
    /\ post[Output(p)] \in Ended
    /\ OutputGoesOn(p, "stopped", {})

-----------------------------------------------------------------------------
CallStep(p) ==
    \/ Created(p) \/ CreateFails(p) \/ Launched(p) \/ LaunchFails(p)
    \/ Fed(p) \/ InputEnds(p)
    \/ Staged(p) \/ StageRefused(p) \/ ExitStatus(p) \/ CommandFails(p)
    \/ Deleted(p)

OutputStep(p) ==
    PollAgain(p) \/ PollEnds(p) \/ PollFails(p) \/ ContextEnds(p) \/ Stopped(p)

Next ==
    \/ OpenSucceeds \/ OpenFails \/ Close
    \/ \E p \in Calls :
         \/ Invoke(p) \/ AcquireShell(p) \/ CancelQueued(p)
         \/ CallStep(p) \/ OutputStep(p)
         \/ MainPost(p) \/ OutputPost(p)
    \/ \E q \in Posters : Posting(q)
    \/ \E p \in Calls : ScriptEnds(p)
    \/ Network

Spec == Init /\ [][Next]_vars

-----------------------------------------------------------------------------
(* Fairness.  Goroutines are scheduled; the host answers a request or its   *)
(* connection is lost, and answers a poll at the latest after the operation *)
(* timeout it was given; a context with a deadline ends, and each poll that *)
(* returns then sees it.  Nothing makes a script end.                       *)

CallFairness(p) ==
    /\ WF_vars(AcquireShell(p) \/ CallStep(p) \/ MainPost(p) \/ Posting(Main(p)))
    /\ WF_vars(OutputStep(p) \/ OutputPost(p) \/ Posting(Output(p)))
    /\ SF_vars(ContextEnds(p))

FairSpec == Spec /\ \A p \in Calls : CallFairness(p)

-----------------------------------------------------------------------------
(* Properties *)

\* A shell on the host belongs to a call that has a slot, so there are never
\* more of them than MaxShells, on every path out of a call: only a post that
\* failed or was handled twice leaves one behind.
ShellsHaveSlots ==
    \A p \in Calls \ sem : (shell[p] = "open" \/ stray[p]) => spoiled[p]

RunnerOutcome(p) ==
    CASE result[p] = "ok" -> "ok"
      [] result[p] \in {"not open", "cancelled"} -> "unsent"
      [] result[p] \in {"failed", "timeout"} -> "unknown"

RunnerCall(p) ==
    CASE pc[p] = "idle" -> "new"
      [] pc[p] = "done" -> RunnerOutcome(p)
      [] OTHER -> "pending"

Contract == INSTANCE ScriptRunner WITH
    Calls <- Calls,
    Limit <- MaxShells,
    MaxStarts <- 2,
    TextMayBeLost <- TRUE,
    call <- [p \in Calls |-> RunnerCall(p)],
    sent <- {p \in Calls : command[p] # "stage"},
    script <- copies,
    text <- text

\* RunScript keeps the Runner contract as far as this backend goes.  A script
\* is handed over once, while its call holds a slot; "ok" means that a start
\* of the staged file ran to its end, whatever failed before; a call that was
\* turned away never hands its script over.  Two promises of the SSH backend
\* are not made here: the file may be started twice, because the reply to its
\* launch was lost, and it may hold something else than the script.
KeepsContract == Contract!Spec

\* Every call returns, although its script may never end.
CallsReturn == \A p \in Calls : pc[p] # "idle" ~> pc[p] = "done"

=============================================================================
