----------------------------- MODULE SshBackend -----------------------------
(***************************************************************************)
(* The SSH transport, internal/connection/ssh.go: one persistent           *)
(* ssh.Client shared by every RunScript and StreamFile call, a keepalive   *)
(* goroutine per client, a semaphore bounding the sessions, and the lazy   *)
(* reconnect of a call that finds the client marked dead.                  *)
(*                                                                         *)
(* A call is a goroutine, and a step below is what it does between two     *)
(* points where another goroutine can see or change the shared fields.     *)
(* Each call reconnects at most once and the provider opens once, so an    *)
(* ssh.Client is named after the goroutine that dialled it.                *)
(*                                                                         *)
(* An operator named Mut... is a wrong version of the one below it, kept   *)
(* to see that a run notices the difference; no action uses it.            *)
(***************************************************************************)
EXTENDS Naturals, FiniteSets

CONSTANTS
    Scripts,                \* the RunScript calls of one provider process
    Streams,                \* its StreamFile calls
    Provider,               \* Configure and the shutdown path in main
    NoClient,               \* Go's nil for b.client
    Nobody,                 \* the mutex is free
    MaxConcurrentSessions   \* capacity of b.sem

ASSUME SessionsAssumption == MaxConcurrentSessions \in Nat \ {0}

ASSUME NamesAssumption ==
    /\ Scripts \cap Streams = {}
    /\ Provider \notin Scripts \cup Streams
    /\ {NoClient, Nobody} \cap (Scripts \cup Streams \cup {Provider}) = {}

Calls == Scripts \cup Streams
Procs == Calls \cup {Provider}

VARIABLES
    mu,         \* holder of b.mu across a dial, or Nobody
    client,     \* b.client
    alive,      \* b.alive
    sem,        \* the calls holding a slot of b.sem
    link,       \* the connection behind each client
    keepalive,  \* the keepalive goroutine of each client
    pc,         \* where each goroutine is
    held,       \* the client a call read into its local variable
    result,     \* how a call ended, or "none"
    remote      \* each call's script: its exec request, and what the host did

backend == <<mu, client, alive, sem>>
network == <<link, keepalive>>
local == <<pc, held, result>>
vars == <<backend, network, local, remote>>

Results == {"none", "ok", "not open", "cancelled", "reconnect failed",
            "failed", "dropped", "timeout"}

\* The code between acquiring a slot (or, for a stream, the first read of
\* the client) and returning.
Steps == {"check", "close", "open", "dial", "recapture",
          "stage", "start", "sent", "running", "cleanup"}

\* A session of the call is or may be open on the client it holds.
SessionSteps == {"stage", "start", "sent", "running", "cleanup"}

\* StreamFile takes no slot and runs nothing on the host.
StreamSteps == {"idle", "check", "close", "open", "dial", "recapture", "stage",
                "done", "crashed"}

Connected == {"up", "stalled", "down"}

TypeOK ==
    /\ mu \in Procs \cup {Nobody}
    /\ client \in Procs \cup {NoClient}
    /\ alive \in BOOLEAN
    /\ sem \subseteq Scripts
    /\ link \in [Procs -> {"none", "closed"} \cup Connected]
    /\ keepalive \in [Procs -> {"off", "waiting", "sending"}]
    /\ pc \in [Procs -> {"idle", "queue", "done", "ready", "failed", "crashed"}
                           \cup Steps]
    /\ \A p \in Streams : pc[p] \in StreamSteps
    /\ held \in [Calls -> Procs \cup {NoClient}]
    /\ result \in [Calls -> Results]
    /\ remote \in [Scripts -> {"none", "sent", "running", "finished"}]

Init ==
    /\ mu = Nobody
    /\ client = NoClient
    /\ alive = FALSE
    /\ sem = {}
    /\ link = [c \in Procs |-> "none"]
    /\ keepalive = [c \in Procs |-> "off"]
    /\ pc = [p \in Procs |-> IF p = Provider THEN "open" ELSE "idle"]
    /\ held = [p \in Calls |-> NoClient]
    /\ result = [p \in Calls |-> "none"]
    /\ remote = [p \in Scripts |-> "none"]

Goto(p, step) == pc' = [pc EXCEPT ![p] = step]

MutReturnKeepsSlot(p, r) ==
    /\ Goto(p, "done")
    /\ result' = [result EXCEPT ![p] = r]
    /\ sem' = sem

\* The function returns: its deferred release of the slot runs too.
Return(p, r) ==
    /\ Goto(p, "done")
    /\ result' = [result EXCEPT ![p] = r]
    /\ sem' = sem \ {p}

\* The outcome is decided, and the deferred removal of the staged script is
\* still to run.
Conclude(p, r) ==
    /\ Goto(p, "cleanup")
    /\ result' = [result EXCEPT ![p] = r]

-----------------------------------------------------------------------------
(* Open, Close and reconnect *)

MutCloseLeavesAlive ==
    /\ mu = Nobody
    /\ client' = NoClient
    /\ link' = [c \in Procs |-> IF c = client THEN "closed" ELSE link[c]]
    /\ UNCHANGED <<mu, alive, sem, keepalive>>

CloseClient ==
    /\ mu = Nobody
    /\ client' = NoClient
    /\ alive' = (alive /\ client = NoClient)
    /\ link' = [c \in Procs |-> IF c = client THEN "closed" ELSE link[c]]
    /\ UNCHANGED <<mu, sem, keepalive>>

AfterOpen(p) == IF p = Provider THEN "ready" ELSE "recapture"

\* Open on a backend that already has a client.
OpenNothing(p) ==
    /\ pc[p] = "open"
    /\ mu = Nobody
    /\ client # NoClient
    /\ Goto(p, AfterOpen(p))
    /\ UNCHANGED <<backend, network, held, result, remote>>

MutOpenDialsAnyway(p) ==
    /\ pc[p] = "open"
    /\ mu = Nobody
    /\ mu' = p
    /\ Goto(p, "dial")
    /\ UNCHANGED <<client, alive, sem, network, held, result, remote>>

\* Open on a closed backend: b.mu is held until the handshake ends.
OpenDial(p) ==
    /\ pc[p] = "open"
    /\ mu = Nobody
    /\ client = NoClient
    /\ mu' = p
    /\ Goto(p, "dial")
    /\ UNCHANGED <<client, alive, sem, network, held, result, remote>>

DialSucceeds(p) ==
    /\ pc[p] = "dial"
    /\ mu' = Nobody
    /\ client' = p
    /\ alive' = TRUE
    /\ link' = [link EXCEPT ![p] = "up"]
    /\ keepalive' = [keepalive EXCEPT ![p] = "waiting"]
    /\ Goto(p, AfterOpen(p))
    /\ UNCHANGED <<sem, held, result, remote>>

\* The dial or handshake fails or its context ends.  Configure reports it;
\* RunScript and StreamFile return it to their caller.
DialFails(p) ==
    /\ pc[p] = "dial"
    /\ mu' = Nobody
    /\ IF p = Provider
         THEN Goto(p, "failed") /\ UNCHANGED <<result, sem>>
         ELSE Return(p, "reconnect failed")
    /\ UNCHANGED <<client, alive, network, held, remote>>

\* main's shutdown path: CloseActive, while calls may still be running.
Shutdown ==
    /\ pc[Provider] = "ready"
    /\ CloseClient
    /\ Goto(Provider, "done")
    /\ UNCHANGED <<held, result, remote>>

-----------------------------------------------------------------------------
(* RunScript and StreamFile *)

MutInvokeQueuesAll(p) ==
    /\ pc[p] = "idle"
    /\ pc[Provider] \in {"ready", "done"}
    /\ mu = Nobody
    /\ held' = [held EXCEPT ![p] = client]
    /\ IF client = NoClient
         THEN Return(p, "not open")
         ELSE Goto(p, "queue") /\ UNCHANGED <<result, sem>>
    /\ UNCHANGED <<mu, client, alive, network, remote>>

\* Both read b.client first; only RunScript then waits for a slot.
Invoke(p) ==
    /\ pc[p] = "idle"
    /\ pc[Provider] \in {"ready", "done"}
    /\ mu = Nobody
    /\ held' = [held EXCEPT ![p] = client]
    /\ IF client = NoClient
         THEN Return(p, "not open")
         ELSE /\ Goto(p, IF p \in Scripts THEN "queue" ELSE "check")
              /\ UNCHANGED <<result, sem>>
    /\ UNCHANGED <<mu, client, alive, network, remote>>

AcquireSlot(p) ==
    /\ pc[p] = "queue"
    /\ Cardinality(sem) < MaxConcurrentSessions
    /\ sem' = sem \cup {p}
    /\ Goto(p, "check")
    /\ UNCHANGED <<mu, client, alive, network, held, result, remote>>

\* The caller's context ends while it waits for a slot.
CancelQueued(p) ==
    /\ pc[p] = "queue"
    /\ Return(p, "cancelled")
    /\ UNCHANGED <<mu, client, alive, network, held, remote>>

CheckAlive(p) ==
    /\ pc[p] = "check"
    /\ Goto(p, IF alive THEN "stage" ELSE "close")
    /\ UNCHANGED <<backend, network, held, result, remote>>

\* reconnect: Close and Open take b.mu one after the other.
ReconnectClose(p) ==
    /\ pc[p] = "close"
    /\ CloseClient
    /\ Goto(p, "open")
    /\ UNCHANGED <<held, result, remote>>

Recapture(p) ==
    /\ pc[p] = "recapture"
    /\ mu = Nobody
    /\ held' = [held EXCEPT ![p] = client]
    /\ Goto(p, "stage")
    /\ UNCHANGED <<backend, network, result, remote>>

\* b.client was nil when it was read again: NewSession dereferences it, and
\* the panic ends the provider process with everything that was under way.
NilClientPanic(p) ==
    /\ pc[p] = "stage"
    /\ held[p] = NoClient
    /\ pc' = [q \in Procs |-> IF q \in Calls /\ pc[q] \in {"idle", "done"}
                                THEN pc[q] ELSE "crashed"]
    /\ mu' = Nobody
    /\ client' = NoClient
    /\ alive' = FALSE
    /\ sem' = {}
    /\ link' = [c \in Procs |-> IF link[c] = "none" THEN "none" ELSE "closed"]
    /\ keepalive' = [c \in Procs |-> "off"]
    /\ UNCHANGED <<held, result, remote>>

\* scpSink has copied the script (RunScript) or the file (StreamFile).
StageSucceeds(p) ==
    /\ pc[p] = "stage"
    /\ held[p] # NoClient
    /\ link[held[p]] = "up"
    /\ IF p \in Scripts
         THEN Goto(p, "start") /\ UNCHANGED <<result, sem>>
         ELSE Return(p, "ok")
    /\ UNCHANGED <<mu, client, alive, network, held, remote>>

\* No session within the attempts, an SCP error, or the context ended.
StageFails(p) ==
    /\ pc[p] = "stage"
    /\ held[p] # NoClient
    /\ Return(p, "failed")
    /\ UNCHANGED <<mu, client, alive, network, held, remote>>

\* A session is open, and session.Run writes its exec request: from now on
\* the call waits, whatever becomes of the request.
SendExec(p) ==
    /\ pc[p] = "start"
    /\ link[held[p]] = "up"
    /\ remote' = [remote EXCEPT ![p] = "sent"]
    /\ Goto(p, "sent")
    /\ UNCHANGED <<backend, network, held, result>>

\* No session within the attempts, or the host refuses the exec request.
StartFails(p) ==
    /\ pc[p] = "start"
    /\ Conclude(p, "failed")
    /\ UNCHANGED <<backend, network, held, remote>>

ExecReply(p) ==
    /\ pc[p] = "sent"
    /\ remote[p] # "sent"
    /\ link[held[p]] = "up"
    /\ Goto(p, "running")
    /\ UNCHANGED <<backend, network, held, result, remote>>

\* The connection is lost before the reply to the exec request: Run's error
\* is neither an ExitError nor an ExitMissingError.
ExecReplyLost(p) ==
    /\ pc[p] = "sent"
    /\ link[held[p]] \in {"down", "closed"}
    /\ Conclude(p, "failed")
    /\ UNCHANGED <<backend, network, held, remote>>

ExitStatus(p) ==
    /\ pc[p] = "running"
    /\ remote[p] = "finished"
    /\ link[held[p]] = "up"
    /\ Conclude(p, "ok")
    /\ UNCHANGED <<backend, network, held, remote>>

\* The channel closes with no exit status, alone or with its connection.
ExitMissing(p) ==
    /\ pc[p] = "running"
    /\ link[held[p]] # "stalled"
    /\ alive' = FALSE
    /\ Conclude(p, "dropped")
    /\ UNCHANGED <<mu, client, sem, network, held, remote>>

MutTimeoutNamesDrop(p) ==
    /\ pc[p] \in {"sent", "running"}
    /\ Conclude(p, "dropped")
    /\ UNCHANGED <<backend, network, held, remote>>

\* CommandTimeout or the caller's context ends the wait for the session.  The
\* exec request may have been answered, may be on its way, or be lost.
CommandTimeout(p) ==
    /\ pc[p] \in {"sent", "running"}
    /\ Conclude(p, "timeout")
    /\ UNCHANGED <<backend, network, held, remote>>

\* The deferred del of the staged script needs a session of its own, opened
\* with no context: it fails fast on a dead connection and blocks on a
\* stalled one.  On a connection that works the host meets the exec request
\* first.  Then the call returns.
Cleanup(p) ==
    /\ pc[p] = "cleanup"
    /\ link[held[p]] # "stalled"
    /\ link[held[p]] = "up" => remote[p] # "sent"
    /\ Return(p, result[p])
    /\ UNCHANGED <<mu, client, alive, network, held, remote>>

-----------------------------------------------------------------------------
(* keepaliveLoop *)

\* The ticker wins the select, even against a closed keepaliveDone.
KeepaliveSend(c) ==
    /\ keepalive[c] = "waiting"
    /\ keepalive' = [keepalive EXCEPT ![c] = "sending"]
    /\ UNCHANGED <<backend, link, local, remote>>

KeepaliveReply(c) ==
    /\ keepalive[c] = "sending"
    /\ link[c] = "up"
    /\ keepalive' = [keepalive EXCEPT ![c] = "waiting"]
    /\ UNCHANGED <<backend, link, local, remote>>

MutKeepaliveJustStops(c) ==
    /\ keepalive[c] = "sending"
    /\ link[c] \in {"down", "closed"}
    /\ keepalive' = [keepalive EXCEPT ![c] = "off"]
    /\ UNCHANGED <<backend, link, local, remote>>

KeepaliveFails(c) ==
    /\ keepalive[c] = "sending"
    /\ link[c] \in {"down", "closed"}
    /\ alive' = FALSE
    /\ keepalive' = [keepalive EXCEPT ![c] = "off"]
    /\ UNCHANGED <<mu, client, sem, link, local, remote>>

\* Close closed keepaliveDone along with the client.
KeepaliveDone(c) ==
    /\ keepalive[c] = "waiting"
    /\ link[c] = "closed"
    /\ keepalive' = [keepalive EXCEPT ![c] = "off"]
    /\ UNCHANGED <<backend, link, local, remote>>

-----------------------------------------------------------------------------
(* The network and the host *)

\* Packets stop arriving and no error is reported yet.
LinkStalls(c) ==
    /\ link[c] = "up"
    /\ link' = [link EXCEPT ![c] = "stalled"]
    /\ UNCHANGED <<backend, keepalive, local, remote>>

\* The connection is reset, or the kernel gives up on a stalled one.
LinkDrops(c) ==
    /\ link[c] \in {"up", "stalled"}
    /\ link' = [link EXCEPT ![c] = "down"]
    /\ UNCHANGED <<backend, keepalive, local, remote>>

\* The exec request reaches the host, if it does: it may have got there just
\* before the connection was lost, and after the call gave up.
HostStarts(p) ==
    /\ remote[p] = "sent"
    /\ remote' = [remote EXCEPT ![p] = "running"]
    /\ UNCHANGED <<backend, network, local>>

\* A script that was started runs to its end whatever became of the session.
ScriptFinishes(p) ==
    /\ remote[p] = "running"
    /\ remote' = [remote EXCEPT ![p] = "finished"]
    /\ UNCHANGED <<backend, network, local>>

-----------------------------------------------------------------------------
OpenStep(p) == OpenNothing(p) \/ OpenDial(p) \/ DialSucceeds(p) \/ DialFails(p)

CallStep(p) ==
    \/ Invoke(p)
    \/ CheckAlive(p) \/ ReconnectClose(p) \/ Recapture(p)
    \/ NilClientPanic(p) \/ StageSucceeds(p) \/ StageFails(p)

ScriptStep(p) ==
    \/ AcquireSlot(p) \/ CancelQueued(p)
    \/ SendExec(p) \/ StartFails(p)
    \/ ExecReply(p) \/ ExecReplyLost(p)
    \/ ExitStatus(p) \/ ExitMissing(p) \/ CommandTimeout(p)
    \/ Cleanup(p)

KeepaliveStep(c) ==
    KeepaliveSend(c) \/ KeepaliveReply(c) \/ KeepaliveFails(c) \/ KeepaliveDone(c)

Next ==
    \/ \E p \in Procs : OpenStep(p) \/ KeepaliveStep(p)
    \/ \E p \in Calls : CallStep(p)
    \/ \E p \in Scripts : ScriptStep(p) \/ HostStarts(p) \/ ScriptFinishes(p)
    \/ Shutdown
    \/ \E c \in Procs : LinkStalls(c) \/ LinkDrops(c)

Spec == Init /\ [][Next]_vars

-----------------------------------------------------------------------------
(* Fairness.  Goroutines are scheduled; a wait for a slot is served in      *)
(* order, and each call waits once; a dial ends; the command timeout fires; *)
(* an exec request arrives on a connection that works.  Nothing makes a     *)
(* script finish, and a step that waits on a stalled connection does not    *)
(* happen while it is stalled.                                              *)

ExecArrives(p) == remote[p] = "sent" /\ link[held[p]] = "up" /\ HostStarts(p)

NotStalled(p) == held[p] # NoClient => link[held[p]] # "stalled"

CallFairness(p) ==
    /\ WF_vars(OpenStep(p))
    /\ WF_vars(CheckAlive(p) \/ ReconnectClose(p) \/ Recapture(p))
    /\ WF_vars(/\ NotStalled(p)
               /\ (NilClientPanic(p) \/ StageSucceeds(p) \/ StageFails(p)))

ScriptFairness(p) ==
    /\ WF_vars(AcquireSlot(p))
    /\ WF_vars(NotStalled(p) /\ (SendExec(p) \/ StartFails(p)))
    /\ WF_vars(CommandTimeout(p))
    /\ WF_vars(ExecArrives(p))
    /\ WF_vars(Cleanup(p))

CodeFairness ==
    /\ WF_vars(OpenStep(Provider))
    /\ \A p \in Calls : CallFairness(p)
    /\ \A p \in Scripts : ScriptFairness(p)
    /\ \A c \in Procs : WF_vars(KeepaliveStep(c))

\* Go's dialer turns TCP keepalive on, so the kernel ends a stalled connection.
StallEnds(c) == link[c] = "stalled" /\ LinkDrops(c)

CodeSpec == Spec /\ CodeFairness

FairSpec == CodeSpec /\ \A c \in Procs : WF_vars(StallEnds(c))

-----------------------------------------------------------------------------
(* Properties *)

\* The backend never loses track of a connection: one that was not closed is
\* b.client, so Close reaches it (Open's nil check under b.mu).
OneOpenClient == \A c \in Procs : link[c] \in Connected => client = c

\* A backend marked alive has a client and a keepalive goroutine on it, the
\* one that will notice its death (Open, Close, keepaliveLoop).
AliveIsWatched ==
    alive => client # NoClient /\ keepalive[client] # "off"

Busy(p) == p \in Scripts /\ pc[p] \in Steps

\* A slot is held exactly by the RunScript calls between acquiring it and
\* returning, on every return path, and they are never more than the cap.
SlotAccounting ==
    /\ sem = {p \in Scripts : Busy(p)}
    /\ Cardinality(sem) <= MaxConcurrentSessions

\* RunScript keeps what the Runner contract says of its outcome.  A script is
\* handed over at most once, while its call holds a slot, and started at most
\* once, maybe only after the call has timed out; "ok" means it ran to its
\* end, a dropped session that it was started, and a call that gave up before
\* its exec request never runs it, not even later.  A timeout or any other
\* error tells the caller nothing about the script.
RunnerOutcome(p) ==
    CASE result[p] = "ok" -> "ok"
      [] result[p] \in {"not open", "cancelled", "reconnect failed"} -> "unsent"
      [] result[p] = "dropped" -> "dropped"
      [] result[p] \in {"timeout", "failed"} -> "unknown"

RunnerCall(p) ==
    CASE pc[p] = "idle" -> "new"
      [] pc[p] = "done" -> RunnerOutcome(p)
      [] OTHER -> "pending"

Started(p) == remote[p] \in {"running", "finished"}

Contract == INSTANCE ScriptRunner WITH
    Calls <- Scripts,
    Limit <- MaxConcurrentSessions,
    MaxStarts <- 1,
    TextMayBeLost <- FALSE,
    call <- [p \in Scripts |-> RunnerCall(p)],
    sent <- {p \in Scripts : remote[p] # "none"},
    script <- [p \in Scripts |->
                 [n \in 1..1 |-> IF Started(p) THEN remote[p] ELSE "none"]],
    text <- [p \in Scripts |-> IF Started(p) THEN "whole" ELSE "none"]

KeepsContract == Contract!Spec

ProcessUp == pc[Provider] # "crashed"

\* Every call returns, unless the process dies: no slot, mutex or session it
\* waits for is withheld for ever, even if its script never finishes.
CallsReturn ==
    \A p \in Calls : pc[p] # "idle" ~> pc[p] = "done" \/ ~ProcessUp

\* A dead connection is noticed: the backend is marked not alive, or the
\* client replaced, with no call needed to run into it (keepaliveLoop).
DeadLinkNoticed ==
    \A c \in Procs :
        client = c /\ link[c] = "down" ~> ~alive \/ client # c \/ ~ProcessUp

=============================================================================
