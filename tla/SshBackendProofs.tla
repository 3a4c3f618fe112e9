-------------------------- MODULE SshBackendProofs --------------------------
(***************************************************************************)
(* Proofs about SshBackend for every set of calls and every cap.           *)
(*                                                                         *)
(* The connection is governed by b.mu: at most one goroutine dials, and    *)
(* only while there is no client (ConnInv).  The slots follow the program  *)
(* counters of the RunScript calls (SlotAccounting).  Each invariant is    *)
(* inductive relative to TypeOK.                                           *)
(***************************************************************************)
EXTENDS SshBackend, FiniteSetTheorems, TLAPS

\* What the proofs need of the names of the goroutines.
LEMMA Names ==
    /\ Scripts \cap Streams = {}
    /\ Scripts \subseteq Calls
    /\ Streams \subseteq Calls
    /\ Calls \subseteq Procs
    /\ Provider \in Procs
    /\ Provider \notin Calls
    /\ NoClient \notin Procs
    /\ Nobody \notin Procs
  BY NamesAssumption DEF Calls, Procs

USE Names

\* b.mu is held across a dial and only then, by the goroutine that dials,
\* and there is no client while it is held.
DialExclusive ==
    /\ \A p \in Procs : pc[p] = "dial" <=> mu = p
    /\ mu # Nobody => client = NoClient

CurrentConnected == client # NoClient => link[client] \in Connected

ConnInv == DialExclusive /\ CurrentConnected /\ OneOpenClient /\ AliveIsWatched

-----------------------------------------------------------------------------
(* Type correctness *)

LEMMA TypeInit == Init => TypeOK
<1> SUFFICES ASSUME Init PROVE TypeOK
  OBVIOUS
<1> USE DEF Init
<1>1. /\ mu \in Procs \cup {Nobody}
      /\ client \in Procs \cup {NoClient}
      /\ alive \in BOOLEAN
      /\ sem \subseteq Scripts
  OBVIOUS
<1>2. /\ link \in [Procs -> {"none", "closed"} \cup Connected]
      /\ keepalive \in [Procs -> {"off", "waiting", "sending"}]
  OBVIOUS
<1>3. /\ pc \in [Procs -> {"idle", "queue", "done", "ready", "failed", "crashed"}
                            \cup Steps]
      /\ \A p \in Streams : pc[p] \in StreamSteps
  BY DEF Steps, StreamSteps
<1>4. /\ held \in [Calls -> Procs \cup {NoClient}]
      /\ result \in [Calls -> Results]
      /\ remote \in [Scripts -> {"none", "sent", "running", "finished"}]
  BY DEF Results
<1> QED BY <1>1, <1>2, <1>3, <1>4 DEF TypeOK

LEMMA TypeStep == TypeOK /\ [Next]_vars => TypeOK'
<1> SUFFICES ASSUME TypeOK, [Next]_vars PROVE TypeOK'
  OBVIOUS
<1> USE DEF TypeOK, Steps, StreamSteps, Connected, Results, backend, network, local,
            Goto, Return, Conclude
<1>1. ASSUME NEW p \in Procs, OpenStep(p) PROVE TypeOK'
  <2>1. CASE OpenNothing(p)
    BY <2>1 DEF OpenNothing, AfterOpen
  <2>2. CASE OpenDial(p)
    BY <2>2 DEF OpenDial
  <2>3. CASE DialSucceeds(p)
    BY <2>3 DEF DialSucceeds, AfterOpen
  <2>4. CASE DialFails(p)
    <3>1. CASE p = Provider
      <4>1. p \notin Streams
        BY <3>1
      <4> QED BY <2>4, <3>1, <4>1 DEF DialFails
    <3>2. CASE p # Provider
      BY <2>4, <3>2 DEF DialFails, Procs
    <3> QED BY <3>1, <3>2
  <2> QED BY <1>1, <2>1, <2>2, <2>3, <2>4 DEF OpenStep
<1>2. ASSUME NEW c \in Procs, KeepaliveStep(c) PROVE TypeOK'
  <2>1. CASE KeepaliveSend(c)
    BY <2>1 DEF KeepaliveSend
  <2>2. CASE KeepaliveReply(c)
    BY <2>2 DEF KeepaliveReply
  <2>3. CASE KeepaliveFails(c)
    BY <2>3 DEF KeepaliveFails
  <2>4. CASE KeepaliveDone(c)
    BY <2>4 DEF KeepaliveDone
  <2> QED BY <1>2, <2>1, <2>2, <2>3, <2>4 DEF KeepaliveStep
<1>3. ASSUME NEW p \in Calls, CallStep(p) PROVE TypeOK'
  <2>1. CASE Invoke(p)
    BY <2>1 DEF Invoke
  <2>2. CASE CheckAlive(p)
    BY <2>2 DEF CheckAlive
  <2>3. CASE ReconnectClose(p)
    BY <2>3 DEF ReconnectClose, CloseClient
  <2>4. CASE Recapture(p)
    BY <2>4 DEF Recapture
  <2>5. CASE NilClientPanic(p)
    BY <2>5 DEF NilClientPanic
  <2>6. CASE StageSucceeds(p)
    <3>1. UNCHANGED <<mu, client, alive, link, keepalive, held, remote>>
      BY <2>6 DEF StageSucceeds
    <3>2. CASE p \in Scripts
      <4>1. /\ pc' = [pc EXCEPT ![p] = "start"]
            /\ UNCHANGED <<result, sem>>
        BY <2>6, <3>2 DEF StageSucceeds
      <4>2. p \notin Streams
        BY <3>2, NamesAssumption
      <4> QED BY <3>1, <4>1, <4>2
    <3>3. CASE p \notin Scripts
      <4>1. /\ pc' = [pc EXCEPT ![p] = "done"]
            /\ result' = [result EXCEPT ![p] = "ok"]
            /\ sem' = sem \ {p}
        BY <2>6, <3>3 DEF StageSucceeds
      <4> QED BY <3>1, <4>1
    <3> QED BY <3>2, <3>3
  <2>7. CASE StageFails(p)
    BY <2>7 DEF StageFails
  <2> QED BY <1>3, <2>1, <2>2, <2>3, <2>4, <2>5, <2>6, <2>7 DEF CallStep
<1>4. ASSUME NEW p \in Scripts, ScriptStep(p) PROVE TypeOK'
  <2>1. CASE AcquireSlot(p)
    BY <2>1 DEF AcquireSlot
  <2>2. CASE CancelQueued(p)
    BY <2>2 DEF CancelQueued
  <2>3. CASE SendExec(p)
    BY <2>3 DEF SendExec
  <2>4. CASE StartFails(p)
    BY <2>4 DEF StartFails
  <2>5. CASE ExecReply(p)
    BY <2>5 DEF ExecReply
  <2>6. CASE ExecReplyLost(p)
    BY <2>6 DEF ExecReplyLost
  <2>7. CASE ExitStatus(p)
    BY <2>7 DEF ExitStatus
  <2>8. CASE ExitMissing(p)
    BY <2>8 DEF ExitMissing
  <2>9. CASE CommandTimeout(p)
    BY <2>9 DEF CommandTimeout
  <2>10. CASE Cleanup(p)
    BY <2>10 DEF Cleanup
  <2> QED BY <1>4, <2>1, <2>2, <2>3, <2>4, <2>5, <2>6, <2>7, <2>8, <2>9, <2>10
            DEF ScriptStep
<1>5. ASSUME NEW p \in Scripts, HostStarts(p) \/ ScriptFinishes(p) PROVE TypeOK'
  BY <1>5 DEF HostStarts, ScriptFinishes
<1>6. CASE Shutdown
  BY <1>6 DEF Shutdown, CloseClient
<1>7. ASSUME NEW c \in Procs, LinkStalls(c) \/ LinkDrops(c) PROVE TypeOK'
  BY <1>7 DEF LinkStalls, LinkDrops
<1>8. CASE UNCHANGED vars
  BY <1>8 DEF vars
<1> QED BY <1>1, <1>2, <1>3, <1>4, <1>5, <1>6, <1>7, <1>8 DEF Next

\* The variables of the backend keep their types, for every set of calls.
THEOREM TypeCorrect == Spec => []TypeOK
  BY TypeInit, TypeStep, PTL DEF Spec

-----------------------------------------------------------------------------
(* The connection: ConnInv *)

\* A step that moves one goroutine between points outside a dial, and
\* touches no field of the connection.
LEMMA ElsewhereKeepsConn ==
    ASSUME TypeOK, ConnInv,
           UNCHANGED <<mu, client, alive, link, keepalive>>,
           \A p \in Procs : pc'[p] = "dial" <=> pc[p] = "dial"
    PROVE  ConnInv'
  BY DEF ConnInv, DialExclusive, CurrentConnected, OneOpenClient, AliveIsWatched

LEMMA ConnInit == Init => ConnInv
  BY DEF Init, ConnInv, DialExclusive, CurrentConnected, OneOpenClient,
         AliveIsWatched, Connected

\* Close keeps it: the client it forgets is the client it closes.
LEMMA CloseKeepsConn ==
    ASSUME TypeOK, ConnInv, CloseClient,
           \A p \in Procs : pc'[p] = "dial" <=> pc[p] = "dial"
    PROVE  ConnInv'
  BY DEF TypeOK, CloseClient, ConnInv, DialExclusive, CurrentConnected,
         OneOpenClient, AliveIsWatched, Connected

LEMMA ConnStep == TypeOK /\ ConnInv /\ [Next]_vars => ConnInv'
<1> SUFFICES ASSUME TypeOK, ConnInv, [Next]_vars PROVE ConnInv'
  OBVIOUS
<1> USE DEF backend, network, local, Goto, Return, Conclude
<1> DEFINE Elsewhere ==
      /\ UNCHANGED <<mu, client, alive, link, keepalive>>
      /\ \A p \in Procs : pc'[p] = "dial" <=> pc[p] = "dial"
<1>0. Elsewhere => ConnInv'
  BY ElsewhereKeepsConn
<1>1. ASSUME NEW p \in Procs, OpenStep(p) PROVE ConnInv'
  <2> USE DEF TypeOK
  <2>1. CASE OpenNothing(p)
    <3>1. Elsewhere
      BY <2>1 DEF OpenNothing, AfterOpen
    <3> QED BY <1>0, <3>1
  <2>2. CASE OpenDial(p)
    BY <2>2 DEF OpenDial, ConnInv, DialExclusive, CurrentConnected,
                OneOpenClient, AliveIsWatched
  <2>3. CASE DialSucceeds(p)
    BY <2>3 DEF DialSucceeds, AfterOpen, ConnInv, DialExclusive,
                CurrentConnected, OneOpenClient, AliveIsWatched, Connected
  <2>4. CASE DialFails(p)
    BY <2>4 DEF DialFails, ConnInv, DialExclusive, CurrentConnected,
                OneOpenClient, AliveIsWatched
  <2> QED BY <1>1, <2>1, <2>2, <2>3, <2>4 DEF OpenStep
<1>2. ASSUME NEW c \in Procs, KeepaliveStep(c) PROVE ConnInv'
  <2> USE DEF TypeOK, ConnInv, DialExclusive, CurrentConnected, OneOpenClient,
              AliveIsWatched, Connected
  <2>1. CASE KeepaliveSend(c)
    BY <2>1 DEF KeepaliveSend
  <2>2. CASE KeepaliveReply(c)
    BY <2>2 DEF KeepaliveReply
  <2>3. CASE KeepaliveFails(c)
    BY <2>3 DEF KeepaliveFails
  <2>4. CASE KeepaliveDone(c)
    BY <2>4 DEF KeepaliveDone
  <2> QED BY <1>2, <2>1, <2>2, <2>3, <2>4 DEF KeepaliveStep
<1>3. ASSUME NEW p \in Calls, CallStep(p) PROVE ConnInv'
  <2> USE DEF TypeOK
  <2>1. CASE Invoke(p)
    <3>1. Elsewhere
      BY <2>1 DEF Invoke
    <3> QED BY <1>0, <3>1
  <2>2. CASE CheckAlive(p)
    <3>1. Elsewhere
      BY <2>2 DEF CheckAlive
    <3> QED BY <1>0, <3>1
  <2>3. CASE ReconnectClose(p)
    BY <2>3, CloseKeepsConn DEF ReconnectClose
  <2>4. CASE Recapture(p)
    <3>1. Elsewhere
      BY <2>4 DEF Recapture
    <3> QED BY <1>0, <3>1
  <2>5. CASE NilClientPanic(p)
    BY <2>5 DEF NilClientPanic, ConnInv, DialExclusive, CurrentConnected,
                OneOpenClient, AliveIsWatched, Connected
  <2>6. CASE StageSucceeds(p) \/ StageFails(p)
    <3>1. Elsewhere
      BY <2>6 DEF StageSucceeds, StageFails
    <3> QED BY <1>0, <3>1
  <2> QED BY <1>3, <2>1, <2>2, <2>3, <2>4, <2>5, <2>6 DEF CallStep
<1>4. ASSUME NEW p \in Scripts, ScriptStep(p) PROVE ConnInv'
  <2> USE DEF TypeOK
  <2>1. CASE ExitMissing(p)
    BY <2>1 DEF ExitMissing, ConnInv, DialExclusive, CurrentConnected,
                OneOpenClient, AliveIsWatched
  <2>2. CASE AcquireSlot(p) \/ CancelQueued(p) \/ SendExec(p) \/ StartFails(p)
    <3>1. Elsewhere
      BY <2>2 DEF AcquireSlot, CancelQueued, SendExec, StartFails
    <3> QED BY <1>0, <3>1
  <2>3. CASE ExecReply(p) \/ ExecReplyLost(p) \/ ExitStatus(p)
    <3>1. Elsewhere
      BY <2>3 DEF ExecReply, ExecReplyLost, ExitStatus
    <3> QED BY <1>0, <3>1
  <2>4. CASE CommandTimeout(p) \/ Cleanup(p)
    <3>1. Elsewhere
      BY <2>4 DEF CommandTimeout, Cleanup
    <3> QED BY <1>0, <3>1
  <2> QED BY <1>4, <2>1, <2>2, <2>3, <2>4 DEF ScriptStep
<1>5. ASSUME NEW p \in Scripts, HostStarts(p) \/ ScriptFinishes(p) PROVE ConnInv'
  BY <1>5, <1>0 DEF HostStarts, ScriptFinishes
<1>6. CASE Shutdown
  BY <1>6, CloseKeepsConn DEF Shutdown, TypeOK
<1>7. ASSUME NEW c \in Procs, LinkStalls(c) \/ LinkDrops(c) PROVE ConnInv'
  BY <1>7 DEF LinkStalls, LinkDrops, TypeOK, ConnInv, DialExclusive,
              CurrentConnected, OneOpenClient, AliveIsWatched, Connected
<1>8. CASE UNCHANGED vars
  BY <1>8, <1>0 DEF vars
<1> QED BY <1>1, <1>2, <1>3, <1>4, <1>5, <1>6, <1>7, <1>8 DEF Next

\* No connection is ever lost track of, and a backend marked alive has a
\* client whose death its keepalive goroutine will notice, however many
\* calls reconnect at once.
THEOREM ConnectionSafety == Spec => [](OneOpenClient /\ AliveIsWatched)
<1>1. TypeOK /\ ConnInv /\ [Next]_vars => (TypeOK /\ ConnInv)'
  BY TypeStep, ConnStep
<1>2. Init => TypeOK /\ ConnInv
  BY TypeInit, ConnInit
<1>3. ConnInv => OneOpenClient /\ AliveIsWatched
  BY DEF ConnInv
<1> QED BY <1>1, <1>2, <1>3, PTL DEF Spec

-----------------------------------------------------------------------------
(* The slots: SlotInv *)

SlotInv == SlotAccounting /\ IsFiniteSet(sem)

\* A step that moves no RunScript call into or out of the slotted part.
LEMMA ElsewhereKeepsSlots ==
    ASSUME SlotInv, UNCHANGED sem,
           \A q \in Scripts : pc'[q] \in Steps <=> pc[q] \in Steps
    PROVE  SlotInv'
  BY DEF SlotInv, SlotAccounting, Busy

\* A return releases the slot of the call, if it holds one.
LEMMA ReturnKeepsSlots ==
    ASSUME TypeOK, SlotInv, NEW p \in Calls, NEW r, Return(p, r)
    PROVE  SlotInv'
<1> USE DEF Return, Goto
<1>1. sem' = {q \in Scripts : pc'[q] \in Steps}
  BY DEF TypeOK, SlotInv, SlotAccounting, Busy, Steps
<1>2. IsFiniteSet(sem') /\ Cardinality(sem') <= Cardinality(sem)
  BY FS_Subset, sem' \subseteq sem DEF SlotInv
<1>3. Cardinality(sem) \in Nat /\ Cardinality(sem') \in Nat
  BY <1>2, FS_CardinalityType DEF SlotInv
<1> QED BY <1>1, <1>2, <1>3, SessionsAssumption DEF SlotInv, SlotAccounting, Busy

\* A call enters through a free slot.
LEMMA AcquireKeepsSlots ==
    ASSUME TypeOK, SlotInv, NEW p \in Scripts, AcquireSlot(p)
    PROVE  SlotInv'
<1> USE DEF AcquireSlot, Goto
<1>1. p \notin sem /\ sem' = {q \in Scripts : pc'[q] \in Steps}
  BY DEF TypeOK, SlotInv, SlotAccounting, Busy, Steps
<1>2. IsFiniteSet(sem') /\ Cardinality(sem') = Cardinality(sem) + 1
  BY <1>1, FS_AddElement DEF SlotInv
<1>3. Cardinality(sem) \in Nat
  BY FS_CardinalityType DEF SlotInv
<1> QED BY <1>1, <1>2, <1>3, SessionsAssumption DEF SlotInv, SlotAccounting, Busy

\* A crash of the process leaves no call in the slotted part.
LEMMA CrashKeepsSlots ==
    ASSUME TypeOK, NEW p \in Calls, NilClientPanic(p)
    PROVE  SlotInv'
<1>1. sem' = {} /\ sem' = {q \in Scripts : pc'[q] \in Steps}
  BY DEF NilClientPanic, TypeOK, Steps
<1> QED BY <1>1, FS_EmptySet, SessionsAssumption DEF SlotInv, SlotAccounting, Busy

LEMMA SlotInit == Init => SlotInv
<1> SUFFICES ASSUME Init PROVE SlotInv
  OBVIOUS
<1>1. sem = {} /\ sem = {q \in Scripts : pc[q] \in Steps}
  BY DEF Init, Steps
<1> QED BY <1>1, FS_EmptySet, SessionsAssumption DEF SlotInv, SlotAccounting, Busy

LEMMA SlotStep == TypeOK /\ SlotInv /\ [Next]_vars => SlotInv'
<1> SUFFICES ASSUME TypeOK, SlotInv, [Next]_vars PROVE SlotInv'
  OBVIOUS
<1> DEFINE Elsewhere ==
      /\ UNCHANGED sem
      /\ \A q \in Scripts : pc'[q] \in Steps <=> pc[q] \in Steps
<1>0. Elsewhere => SlotInv'
  BY ElsewhereKeepsSlots
<1>1. ASSUME NEW p \in Procs, OpenStep(p) PROVE SlotInv'
  <2>1. CASE OpenNothing(p) \/ OpenDial(p) \/ DialSucceeds(p)
    <3>1. Elsewhere
      BY <2>1 DEF OpenNothing, OpenDial, DialSucceeds, AfterOpen, Goto, Steps,
                  backend, TypeOK
    <3> QED BY <1>0, <3>1
  <2>2. CASE DialFails(p) /\ p = Provider
    <3>1. Elsewhere
      BY <2>2 DEF DialFails, Goto, TypeOK
    <3> QED BY <1>0, <3>1
  <2>3. CASE DialFails(p) /\ p # Provider
    BY <2>3, ReturnKeepsSlots DEF DialFails, Procs
  <2> QED BY <1>1, <2>1, <2>2, <2>3 DEF OpenStep
<1>2. ASSUME NEW c \in Procs, KeepaliveStep(c) PROVE SlotInv'
  <2>1. Elsewhere
    BY <1>2 DEF KeepaliveStep, KeepaliveSend, KeepaliveReply, KeepaliveFails,
                KeepaliveDone, backend, local
  <2> QED BY <1>0, <2>1
<1>3. ASSUME NEW p \in Calls, CallStep(p) PROVE SlotInv'
  <2>1. CASE Invoke(p) /\ client = NoClient
    BY <2>1, ReturnKeepsSlots DEF Invoke
  <2>2. CASE Invoke(p) /\ client # NoClient
    <3>1. CASE p \in Scripts
      <4>1. Elsewhere
        BY <2>2, <3>1 DEF Invoke, Goto, Steps, TypeOK
      <4> QED BY <1>0, <4>1
    <3>2. CASE p \notin Scripts
      <4>1. Elsewhere
        BY <2>2, <3>2 DEF Invoke, Goto, TypeOK
      <4> QED BY <1>0, <4>1
    <3> QED BY <3>1, <3>2
  <2>3. CASE CheckAlive(p) \/ Recapture(p)
    <3>1. Elsewhere
      BY <2>3 DEF CheckAlive, Recapture, Goto, Steps, backend, TypeOK
    <3> QED BY <1>0, <3>1
  <2>4. CASE ReconnectClose(p)
    <3>1. Elsewhere
      BY <2>4 DEF ReconnectClose, CloseClient, Goto, Steps, TypeOK
    <3> QED BY <1>0, <3>1
  <2>5. CASE NilClientPanic(p)
    BY <2>5, CrashKeepsSlots
  <2>6. CASE StageSucceeds(p) /\ p \in Scripts
    <3>1. Elsewhere
      BY <2>6 DEF StageSucceeds, Goto, Steps, TypeOK
    <3> QED BY <1>0, <3>1
  <2>7. CASE StageSucceeds(p) /\ p \notin Scripts
    BY <2>7, ReturnKeepsSlots DEF StageSucceeds
  <2>8. CASE StageFails(p)
    BY <2>8, ReturnKeepsSlots DEF StageFails
  <2> QED BY <1>3, <2>1, <2>2, <2>3, <2>4, <2>5, <2>6, <2>7, <2>8 DEF CallStep
<1>4. ASSUME NEW p \in Scripts, ScriptStep(p) PROVE SlotInv'
  <2>1. CASE AcquireSlot(p)
    BY <2>1, AcquireKeepsSlots
  <2>2. CASE CancelQueued(p) \/ Cleanup(p)
    BY <2>2, ReturnKeepsSlots DEF CancelQueued, Cleanup
  <2>3. CASE SendExec(p) \/ StartFails(p) \/ ExecReply(p) \/ ExecReplyLost(p)
    <3>1. Elsewhere
      BY <2>3 DEF SendExec, StartFails, ExecReply, ExecReplyLost, Goto,
                  Conclude, Steps, backend, TypeOK
    <3> QED BY <1>0, <3>1
  <2>4. CASE ExitStatus(p) \/ ExitMissing(p) \/ CommandTimeout(p)
    <3>1. Elsewhere
      BY <2>4 DEF ExitStatus, ExitMissing, CommandTimeout, Goto, Conclude,
                  Steps, backend, TypeOK
    <3> QED BY <1>0, <3>1
  <2> QED BY <1>4, <2>1, <2>2, <2>3, <2>4 DEF ScriptStep
<1>5. ASSUME NEW p \in Scripts, HostStarts(p) \/ ScriptFinishes(p) PROVE SlotInv'
  BY <1>5, <1>0 DEF HostStarts, ScriptFinishes, backend, local
<1>6. CASE Shutdown
  <2>1. Elsewhere
    BY <1>6 DEF Shutdown, CloseClient, Goto, TypeOK
  <2> QED BY <1>0, <2>1
<1>7. ASSUME NEW c \in Procs, LinkStalls(c) \/ LinkDrops(c) PROVE SlotInv'
  BY <1>7, <1>0 DEF LinkStalls, LinkDrops, backend, local
<1>8. CASE UNCHANGED vars
  BY <1>8, <1>0 DEF vars, backend, local
<1> QED BY <1>1, <1>2, <1>3, <1>4, <1>5, <1>6, <1>7, <1>8 DEF Next

\* At most MaxConcurrentSessions RunScript calls are ever between their slot
\* and their return, and no return path keeps a slot.
THEOREM SlotSafety == Spec => []SlotAccounting
<1>1. Init => SlotInv
  BY SlotInit
<1>2. TypeOK /\ SlotInv /\ [Next]_vars => (TypeOK /\ SlotInv)'
  BY TypeStep, SlotStep
<1>3. SlotInv => SlotAccounting
  BY DEF SlotInv
<1> QED BY <1>1, <1>2, <1>3, TypeInit, PTL DEF Spec

-----------------------------------------------------------------------------
(* The Runner contract: ResultInv *)

BeforeExec == {"idle", "queue", "check", "close", "open", "dial", "recapture",
               "stage", "start"}

\* How far a RunScript call is, what it is going to return, and what the
\* host did with its script.
ResultInv ==
    \A p \in Scripts :
        /\ pc[p] \in BeforeExec => remote[p] = "none" /\ result[p] = "none"
        /\ pc[p] \in {"sent", "running"} =>
               remote[p] # "none" /\ result[p] = "none"
        /\ pc[p] = "running" => Started(p)
        /\ pc[p] \in {"cleanup", "done"} => result[p] # "none"
        /\ pc[p] = "cleanup" => result[p] \in {"ok", "failed", "dropped", "timeout"}
        /\ result[p] = "ok" => remote[p] = "finished"
        /\ result[p] = "dropped" => Started(p)
        /\ result[p] \in {"not open", "cancelled", "reconnect failed"} =>
               remote[p] = "none"
        /\ pc[p] \notin {"ready", "failed"}

\* A crash takes every goroutine with it.
CrashInv ==
    (\E p \in Scripts : pc[p] = "crashed") =>
        /\ pc[Provider] = "crashed"
        /\ \A p \in Calls : pc[p] \in {"idle", "done", "crashed"}

LEMMA ResultInit == Init => ResultInv /\ CrashInv
  BY DEF Init, ResultInv, CrashInv, BeforeExec

\* A return that claims nothing about the script.
LEMMA EarlyReturn ==
    ASSUME TypeOK, ResultInv, UNCHANGED remote, NEW p \in Calls,
           NEW r \in Results \ {"none", "ok", "dropped"},
           p \in Scripts => remote[p] = "none", Return(p, r)
    PROVE  ResultInv'
<1> USE DEF Return, Goto, TypeOK
<1>1. pc'[p] = "done" /\ result'[p] = r
  OBVIOUS
<1>2. \A q \in Scripts : q # p => pc'[q] = pc[q] /\ result'[q] = result[q]
  OBVIOUS
<1> QED BY <1>1, <1>2 DEF ResultInv, BeforeExec, Started

LEMMA ResultStep == TypeOK /\ ResultInv /\ [Next]_vars => ResultInv'
<1> SUFFICES ASSUME TypeOK, ResultInv, [Next]_vars PROVE ResultInv'
  OBVIOUS
<1> USE DEF ResultInv, BeforeExec, Started, backend, network, local, Goto, Return,
            Conclude, TypeOK
<1>1. ASSUME NEW p \in Procs, OpenStep(p) PROVE ResultInv'
  <2>1. CASE OpenNothing(p)
    BY <2>1 DEF OpenNothing, AfterOpen
  <2>2. CASE OpenDial(p)
    BY <2>2 DEF OpenDial
  <2>3. CASE DialSucceeds(p)
    BY <2>3 DEF DialSucceeds, AfterOpen
  <2>4. CASE DialFails(p)
    <3>1. CASE p = Provider
      BY <2>4, <3>1 DEF DialFails
    <3>2. CASE p # Provider
      <4>1. p \in Calls
        BY <3>2 DEF Procs
      <4>2. /\ Return(p, "reconnect failed") /\ UNCHANGED remote
            /\ p \in Scripts => remote[p] = "none"
        BY <2>4, <3>2 DEF DialFails
      <4> HIDE DEF Return, ResultInv, TypeOK
      <4> QED BY <4>1, <4>2, EarlyReturn DEF Results
    <3> QED BY <3>1, <3>2
  <2> QED BY <1>1, <2>1, <2>2, <2>3, <2>4 DEF OpenStep
<1>2. ASSUME NEW c \in Procs, KeepaliveStep(c) PROVE ResultInv'
  BY <1>2 DEF KeepaliveStep, KeepaliveSend, KeepaliveReply, KeepaliveFails,
              KeepaliveDone
<1>3. ASSUME NEW p \in Calls, CallStep(p) PROVE ResultInv'
  <2>1. CASE Invoke(p)
    <3>1. CASE client = NoClient
      <4>1. /\ Return(p, "not open") /\ UNCHANGED remote
            /\ p \in Scripts => remote[p] = "none"
        BY <2>1, <3>1 DEF Invoke
      <4> HIDE DEF Return, ResultInv, TypeOK
      <4> QED BY <4>1, EarlyReturn DEF Results
    <3>2. CASE client # NoClient
      BY <2>1, <3>2 DEF Invoke
    <3> QED BY <3>1, <3>2
  <2>2. CASE CheckAlive(p)
    BY <2>2 DEF CheckAlive
  <2>3. CASE ReconnectClose(p)
    BY <2>3 DEF ReconnectClose, CloseClient
  <2>4. CASE Recapture(p)
    BY <2>4 DEF Recapture
  <2>5. CASE NilClientPanic(p)
    BY <2>5 DEF NilClientPanic
  <2>6. CASE StageSucceeds(p) /\ p \in Scripts
    <3>1. pc' = [pc EXCEPT ![p] = "start"] /\ UNCHANGED <<result, remote>>
      BY <2>6 DEF StageSucceeds
    <3> QED BY <2>6, <3>1 DEF StageSucceeds
  <2>7. CASE StageSucceeds(p) /\ p \notin Scripts
    <3>1. /\ \A q \in Scripts : pc'[q] = pc[q] /\ result'[q] = result[q]
          /\ UNCHANGED remote
      BY <2>7 DEF StageSucceeds
    <3> HIDE DEF TypeOK, Return, Goto
    <3> QED BY <3>1
  <2>8. CASE StageFails(p)
    BY <2>8 DEF StageFails
  <2> QED BY <1>3, <2>1, <2>2, <2>3, <2>4, <2>5, <2>6, <2>7, <2>8 DEF CallStep
<1>4. ASSUME NEW p \in Scripts, ScriptStep(p) PROVE ResultInv'
  <2>1. CASE AcquireSlot(p)
    BY <2>1 DEF AcquireSlot
  <2>2. CASE CancelQueued(p)
    BY <2>2 DEF CancelQueued
  <2>3. CASE SendExec(p)
    BY <2>3 DEF SendExec
  <2>4. CASE StartFails(p)
    BY <2>4 DEF StartFails
  <2>5. CASE ExecReply(p)
    BY <2>5 DEF ExecReply
  <2>6. CASE ExecReplyLost(p)
    BY <2>6 DEF ExecReplyLost
  <2>7. CASE ExitStatus(p)
    BY <2>7 DEF ExitStatus
  <2>8. CASE ExitMissing(p)
    BY <2>8 DEF ExitMissing
  <2>9. CASE CommandTimeout(p)
    BY <2>9 DEF CommandTimeout
  <2>10. CASE Cleanup(p)
    BY <2>10 DEF Cleanup
  <2> QED BY <1>4, <2>1, <2>2, <2>3, <2>4, <2>5, <2>6, <2>7, <2>8, <2>9, <2>10
            DEF ScriptStep
<1>5. ASSUME NEW p \in Scripts, HostStarts(p) \/ ScriptFinishes(p)
      PROVE  ResultInv'
  BY <1>5 DEF HostStarts, ScriptFinishes
<1>6. CASE Shutdown
  BY <1>6 DEF Shutdown, CloseClient
<1>7. ASSUME NEW c \in Procs, LinkStalls(c) \/ LinkDrops(c) PROVE ResultInv'
  BY <1>7 DEF LinkStalls, LinkDrops
<1>8. CASE UNCHANGED vars
  BY <1>8 DEF vars
<1> QED BY <1>1, <1>2, <1>3, <1>4, <1>5, <1>6, <1>7, <1>8 DEF Next

LEMMA CrashStep == TypeOK /\ CrashInv /\ [Next]_vars => CrashInv'
<1> SUFFICES ASSUME TypeOK, CrashInv, [Next]_vars PROVE CrashInv'
  OBVIOUS
<1> USE DEF CrashInv, backend, network, local, Goto, Return, Conclude, TypeOK
<1>1. ASSUME NEW p \in Procs, OpenStep(p) PROVE CrashInv'
  <2>1. CASE OpenNothing(p)
    BY <2>1 DEF OpenNothing, AfterOpen
  <2>2. CASE OpenDial(p)
    BY <2>2 DEF OpenDial
  <2>3. CASE DialSucceeds(p)
    BY <2>3 DEF DialSucceeds, AfterOpen
  <2>4. CASE DialFails(p)
    <3>1. ~ \E q \in Scripts : pc[q] = "crashed"
      BY <2>4 DEF DialFails, Procs
    <3>2. pc' = [pc EXCEPT ![p] = "failed"] \/ pc' = [pc EXCEPT ![p] = "done"]
      BY <2>4 DEF DialFails
    <3> QED BY <3>1, <3>2
  <2> QED BY <1>1, <2>1, <2>2, <2>3, <2>4 DEF OpenStep
<1>2. ASSUME NEW c \in Procs, KeepaliveStep(c) PROVE CrashInv'
  BY <1>2 DEF KeepaliveStep, KeepaliveSend, KeepaliveReply, KeepaliveFails,
              KeepaliveDone
<1>3. ASSUME NEW p \in Calls, CallStep(p) PROVE CrashInv'
  <2>1. CASE Invoke(p)
    <3>1. ~ \E q \in Scripts : pc[q] = "crashed"
      BY <2>1 DEF Invoke
    <3>2. \E s \in {"queue", "check", "done"} : pc' = [pc EXCEPT ![p] = s]
      BY <2>1 DEF Invoke
    <3> QED BY <3>1, <3>2
  <2>2. CASE CheckAlive(p)
    BY <2>2 DEF CheckAlive
  <2>3. CASE ReconnectClose(p)
    BY <2>3 DEF ReconnectClose, CloseClient
  <2>4. CASE Recapture(p)
    BY <2>4 DEF Recapture
  <2>5. CASE NilClientPanic(p)
    BY <2>5 DEF NilClientPanic
  <2>6. CASE StageSucceeds(p)
    BY <2>6 DEF StageSucceeds
  <2>7. CASE StageFails(p)
    BY <2>7 DEF StageFails
  <2> QED BY <1>3, <2>1, <2>2, <2>3, <2>4, <2>5, <2>6, <2>7 DEF CallStep
<1>4. ASSUME NEW p \in Scripts, ScriptStep(p) PROVE CrashInv'
  <2>1. CASE AcquireSlot(p)
    BY <2>1 DEF AcquireSlot
  <2>2. CASE CancelQueued(p)
    BY <2>2 DEF CancelQueued
  <2>3. CASE SendExec(p)
    BY <2>3 DEF SendExec
  <2>4. CASE StartFails(p)
    BY <2>4 DEF StartFails
  <2>5. CASE ExecReply(p)
    BY <2>5 DEF ExecReply
  <2>6. CASE ExecReplyLost(p)
    BY <2>6 DEF ExecReplyLost
  <2>7. CASE ExitStatus(p)
    BY <2>7 DEF ExitStatus
  <2>8. CASE ExitMissing(p)
    BY <2>8 DEF ExitMissing
  <2>9. CASE CommandTimeout(p)
    BY <2>9 DEF CommandTimeout
  <2>10. CASE Cleanup(p)
    BY <2>10 DEF Cleanup
  <2> QED BY <1>4, <2>1, <2>2, <2>3, <2>4, <2>5, <2>6, <2>7, <2>8, <2>9, <2>10
            DEF ScriptStep
<1>5. ASSUME NEW p \in Scripts, HostStarts(p) \/ ScriptFinishes(p) PROVE CrashInv'
  BY <1>5 DEF HostStarts, ScriptFinishes
<1>6. CASE Shutdown
  BY <1>6 DEF Shutdown, CloseClient
<1>7. ASSUME NEW c \in Procs, LinkStalls(c) \/ LinkDrops(c) PROVE CrashInv'
  BY <1>7 DEF LinkStalls, LinkDrops
<1>8. CASE UNCHANGED vars
  BY <1>8 DEF vars
<1> QED BY <1>1, <1>2, <1>3, <1>4, <1>5, <1>6, <1>7, <1>8 DEF Next

-----------------------------------------------------------------------------
(* SshBackend implements ScriptRunner *)

USE SessionsAssumption

\* The caller of no RunScript call sees a difference.
SameCalls == \A p \in Scripts : RunnerCall(p)' = RunnerCall(p)

LEMMA SameCallsStutter ==
    ASSUME SameCalls, UNCHANGED remote
    PROVE  UNCHANGED Contract!vars
  BY DEF SameCalls, Started, Contract!vars

\* A call that moves between two points before its return shows nothing.
LEMMA MoveIsInvisible ==
    ASSUME TypeOK, UNCHANGED remote, NEW p \in Procs, NEW s,
           pc' = [pc EXCEPT ![p] = s],
           p \in Scripts => pc[p] \notin {"idle", "done"} /\ s \notin {"idle", "done"},
           \A q \in Scripts : q # p => result'[q] = result[q]
    PROVE  UNCHANGED Contract!vars
<1>1. SameCalls
  BY DEF SameCalls, RunnerCall, RunnerOutcome, TypeOK
<1> QED BY <1>1, SameCallsStutter

\* A return shows the caller the outcome that its result stands for.
LEMMA ReturnIsReturn ==
    ASSUME TypeOK, UNCHANGED remote, NEW p \in Scripts, NEW r \in Results,
           Return(p, r), NEW o,
           o = RunnerOutcome(p)', o \in Contract!Outcomes,
           Contract!MayReturn(p, o)
    PROVE  Contract!Return(p, o)
<1> USE DEF TypeOK, Return, Goto
<1>1. RunnerCall(p)' = o
  BY DEF RunnerCall
<1>2. ASSUME NEW q \in Scripts, q # p PROVE RunnerCall(q)' = RunnerCall(q)
  BY <1>2 DEF RunnerCall, RunnerOutcome
<1>3. \A q \in Scripts : remote'[q] = remote[q] /\ Started(q)' = Started(q)
  BY DEF Started
<1> HIDE DEF TypeOK, Return, Goto
<1> QED BY <1>1, <1>2, <1>3 DEF Contract!Return

\* What a returned call showed its caller.
LEMMA DoneOutcome ==
    ASSUME TypeOK, ResultInv, NEW q \in Scripts, pc[q] = "done"
    PROVE  RunnerCall(q) \in Contract!Outcomes
<1>1. result[q] \in Results \ {"none"}
  BY DEF TypeOK, ResultInv
<1>2. RunnerCall(q) = RunnerOutcome(q)
  BY DEF RunnerCall
<1> QED BY <1>1, <1>2 DEF RunnerOutcome, Results, Contract!Outcomes

\* The calls that have handed their script over and not returned hold slots,
\* so the one that is about to hand over its own finds room.
LEMMA RoomToSubmit ==
    ASSUME TypeOK, SlotInv, ResultInv, CrashInv,
           NEW p \in Scripts, pc[p] = "start"
    PROVE  Cardinality(Contract!Awaited) < MaxConcurrentSessions
<1>1. ASSUME NEW q \in Scripts, remote[q] # "none", RunnerCall(q) = "pending"
      PROVE  q \in sem \ {p}
  <2>1. pc[q] \notin {"idle", "done"}
    BY <1>1, DoneOutcome DEF RunnerCall, Contract!Outcomes
  <2>2. pc[q] \notin {"queue", "ready", "failed", "start"}
    BY <1>1 DEF ResultInv, BeforeExec
  <2>3. pc[q] # "crashed"
    BY DEF CrashInv
  <2>4. pc[q] \in Steps
    BY <2>1, <2>2, <2>3 DEF TypeOK
  <2> QED BY <2>2, <2>4 DEF SlotInv, SlotAccounting, Busy
<1>2. Contract!Awaited \subseteq sem \ {p}
  BY <1>1 DEF Contract!Awaited
<1>3. p \in sem
  BY DEF SlotInv, SlotAccounting, Busy, Steps
<1>4. /\ IsFiniteSet(sem \ {p})
      /\ Cardinality(sem \ {p}) = Cardinality(sem) - 1
  BY <1>3, FS_RemoveElement DEF SlotInv
<1>5. Cardinality(Contract!Awaited) <= Cardinality(sem \ {p})
  BY <1>2, <1>4, FS_Subset
<1>6. /\ Cardinality(sem) \in Nat
      /\ Cardinality(Contract!Awaited) \in Nat
  BY <1>2, <1>4, FS_Subset, FS_CardinalityType DEF SlotInv
<1> QED BY <1>4, <1>5, <1>6 DEF SlotInv, SlotAccounting

\* The cardinality of the instance is the one of the theorems above.
LEMMA SameCardinality ==
    ASSUME NEW S PROVE Contract!Cardinality(S) = Cardinality(S)
  BY Zenon DEF Cardinality, Contract!Cardinality

ImplInv == TypeOK /\ SlotInv /\ ResultInv /\ CrashInv

LEMMA ContractStep == ImplInv /\ [Next]_vars => [Contract!Next]_(Contract!vars)
<1> SUFFICES ASSUME ImplInv, [Next]_vars
             PROVE  [Contract!Next]_(Contract!vars)
  OBVIOUS
<1> USE DEF ImplInv
<1>0. ASSUME NEW p \in Scripts, NEW r \in Results \ {"none"}, Return(p, r),
             UNCHANGED remote, NEW o \in Contract!Outcomes,
             o = RunnerOutcome(p)', Contract!MayReturn(p, o)
      PROVE  Contract!Next
  BY <1>0, ReturnIsReturn DEF Contract!Next
<1>1. ASSUME NEW p \in Procs, OpenStep(p) PROVE [Contract!Next]_(Contract!vars)
  <2>1. CASE OpenNothing(p) \/ OpenDial(p) \/ DialSucceeds(p)
    <3>1. /\ pc[p] \in {"open", "dial"}
          /\ UNCHANGED <<remote, result>>
          /\ \E s \in {"dial", "ready", "recapture"} : pc' = [pc EXCEPT ![p] = s]
      BY <2>1 DEF OpenNothing, OpenDial, DialSucceeds, AfterOpen, Goto
    <3> QED BY <3>1, MoveIsInvisible
  <2>2. CASE DialFails(p) /\ p \notin Scripts
    <3>1. SameCalls
      BY <2>2 DEF DialFails, Return, Goto, SameCalls, RunnerCall, RunnerOutcome,
                  TypeOK
    <3> QED BY <2>2, <3>1, SameCallsStutter DEF DialFails
  <2>3. CASE DialFails(p) /\ p \in Scripts
    <3>1. Return(p, "reconnect failed") /\ UNCHANGED remote /\ pc[p] = "dial"
      BY <2>3 DEF DialFails
    <3>2. RunnerOutcome(p)' = "unsent"
      BY <2>3, <3>1 DEF RunnerOutcome, Return, TypeOK
    <3>3. Contract!MayReturn(p, "unsent")
      BY <2>3, <3>1 DEF Contract!MayReturn, RunnerCall, ResultInv, BeforeExec
    <3> QED BY <1>0, <2>3, <3>1, <3>2, <3>3 DEF Results, Contract!Outcomes
  <2> QED BY <1>1, <2>1, <2>2, <2>3 DEF OpenStep
<1>2. ASSUME NEW c \in Procs, KeepaliveStep(c) PROVE UNCHANGED Contract!vars
  <2>1. SameCalls /\ UNCHANGED remote
    BY <1>2 DEF KeepaliveStep, KeepaliveSend, KeepaliveReply, KeepaliveFails,
                KeepaliveDone, local, SameCalls, RunnerCall, RunnerOutcome
  <2> QED BY <2>1, SameCallsStutter
<1>3. ASSUME NEW p \in Calls, CallStep(p) PROVE [Contract!Next]_(Contract!vars)
  <2>1. CASE p \notin Scripts /\ ~NilClientPanic(p)
    <3>1. /\ UNCHANGED remote
          /\ \A q \in Scripts : pc'[q] = pc[q] /\ result'[q] = result[q]
      <4> USE DEF Return, Goto, TypeOK
      <4>1. CASE Invoke(p)
        BY <2>1, <4>1 DEF Invoke
      <4>2. CASE CheckAlive(p) \/ ReconnectClose(p) \/ Recapture(p)
        BY <2>1, <4>2 DEF CheckAlive, ReconnectClose, Recapture
      <4>3. CASE StageSucceeds(p) \/ StageFails(p)
        BY <2>1, <4>3 DEF StageSucceeds, StageFails
      <4> QED BY <1>3, <2>1, <4>1, <4>2, <4>3 DEF CallStep
    <3>2. SameCalls
      BY <3>1 DEF SameCalls, RunnerCall, RunnerOutcome
    <3> QED BY <3>1, <3>2, SameCallsStutter
  <2>2. CASE NilClientPanic(p)
    <3>1. SameCalls
      BY <2>2 DEF NilClientPanic, SameCalls, RunnerCall, RunnerOutcome, TypeOK
    <3> QED BY <2>2, <3>1, SameCallsStutter DEF NilClientPanic
  <2>3. CASE p \in Scripts /\ Invoke(p) /\ client = NoClient
    <3>1. Return(p, "not open") /\ UNCHANGED remote /\ pc[p] = "idle"
      BY <2>3 DEF Invoke
    <3>2. RunnerOutcome(p)' = "unsent"
      BY <2>3, <3>1 DEF RunnerOutcome, Return, TypeOK
    <3>3. Contract!MayReturn(p, "unsent")
      BY <2>3, <3>1 DEF Contract!MayReturn, RunnerCall, ResultInv, BeforeExec
    <3> QED BY <1>0, <2>3, <3>1, <3>2, <3>3 DEF Results, Contract!Outcomes
  <2>4. CASE p \in Scripts /\ Invoke(p) /\ client # NoClient
    <3>1. /\ pc[p] = "idle" /\ pc' = [pc EXCEPT ![p] = "queue"]
          /\ UNCHANGED <<result, remote>>
      BY <2>4 DEF Invoke, Goto
    <3>2. RunnerCall(p) = "new" /\ RunnerCall(p)' = "pending"
      BY <2>4, <3>1 DEF RunnerCall, ResultInv, BeforeExec, TypeOK
    <3>3. \A q \in Scripts : q # p => RunnerCall(q)' = RunnerCall(q)
      BY <3>1 DEF RunnerCall, RunnerOutcome, TypeOK
    <3>4. Contract!Invoke(p)
      BY <2>4, <3>1, <3>2, <3>3 DEF Contract!Invoke, Started
    <3> QED BY <2>4, <3>4 DEF Contract!Next
  <2>5. CASE /\ p \in Scripts
             /\ \/ CheckAlive(p) \/ ReconnectClose(p) \/ Recapture(p)
                \/ StageSucceeds(p)
    <3>1. /\ pc[p] \in {"check", "close", "recapture", "stage"}
          /\ UNCHANGED <<remote, result>>
          /\ \E s \in {"stage", "close", "open", "start"} :
                 pc' = [pc EXCEPT ![p] = s]
      BY <2>5 DEF CheckAlive, ReconnectClose, Recapture, StageSucceeds, Goto
    <3> QED BY <3>1, MoveIsInvisible
  <2>6. CASE p \in Scripts /\ StageFails(p)
    <3>1. Return(p, "failed") /\ UNCHANGED remote /\ pc[p] = "stage"
      BY <2>6 DEF StageFails
    <3>2. RunnerOutcome(p)' = "unknown"
      BY <2>6, <3>1 DEF RunnerOutcome, Return, TypeOK
    <3>3. Contract!MayReturn(p, "unknown")
      BY <2>6, <3>1 DEF Contract!MayReturn, RunnerCall
    <3> QED BY <1>0, <2>6, <3>1, <3>2, <3>3 DEF Results, Contract!Outcomes
  <2> QED BY <1>3, <2>1, <2>2, <2>3, <2>4, <2>5, <2>6 DEF CallStep
<1>4. ASSUME NEW p \in Scripts, ScriptStep(p)
      PROVE  [Contract!Next]_(Contract!vars)
  <2>1. CASE AcquireSlot(p) \/ StartFails(p) \/ ExecReply(p)
    <3>1. /\ pc[p] \in {"queue", "start", "sent"}
          /\ UNCHANGED remote
          /\ \E s \in {"check", "cleanup", "running"} : pc' = [pc EXCEPT ![p] = s]
          /\ \A q \in Scripts : q # p => result'[q] = result[q]
      BY <2>1 DEF AcquireSlot, StartFails, ExecReply, Goto, Conclude, TypeOK
    <3> QED BY <3>1, MoveIsInvisible
  <2>2. CASE \/ ExecReplyLost(p) \/ ExitStatus(p) \/ ExitMissing(p)
             \/ CommandTimeout(p)
    <3>1. /\ pc[p] \in {"sent", "running"}
          /\ UNCHANGED remote
          /\ pc' = [pc EXCEPT ![p] = "cleanup"]
          /\ \A q \in Scripts : q # p => result'[q] = result[q]
      BY <2>2 DEF ExecReplyLost, ExitStatus, ExitMissing, CommandTimeout, Goto,
                  Conclude, TypeOK
    <3> QED BY <3>1, MoveIsInvisible
  <2>3. CASE CancelQueued(p)
    <3>1. Return(p, "cancelled") /\ UNCHANGED remote /\ pc[p] = "queue"
      BY <2>3 DEF CancelQueued
    <3>2. RunnerOutcome(p)' = "unsent"
      BY <3>1 DEF RunnerOutcome, Return, TypeOK
    <3>3. Contract!MayReturn(p, "unsent")
      BY <3>1 DEF Contract!MayReturn, RunnerCall, ResultInv, BeforeExec
    <3> QED BY <1>0, <3>1, <3>2, <3>3 DEF Results, Contract!Outcomes
  <2>4. CASE SendExec(p)
    <3>1. /\ pc[p] = "start" /\ pc' = [pc EXCEPT ![p] = "sent"]
          /\ remote[p] = "none" /\ remote' = [remote EXCEPT ![p] = "sent"]
          /\ UNCHANGED result
      BY <2>4 DEF SendExec, Goto, ResultInv, BeforeExec
    <3>2. RunnerCall(p) = "pending"
      BY <3>1 DEF RunnerCall
    <3>3. SameCalls
      BY <3>1 DEF SameCalls, RunnerCall, RunnerOutcome, TypeOK
    <3>4. Cardinality(Contract!Awaited) < MaxConcurrentSessions
      BY <3>1, RoomToSubmit
    <3>5. /\ p \notin {q \in Scripts : remote[q] # "none"}
          /\ {q \in Scripts : remote'[q] # "none"}
               = {q \in Scripts : remote[q] # "none"} \cup {p}
      BY <3>1 DEF TypeOK
    <3>6. \A q \in Scripts : /\ Started(q)' = Started(q)
                             /\ Started(q) => remote'[q] = remote[q]
      BY <3>1 DEF Started, TypeOK
    <3>7. Contract!Submit(p)
      BY <3>2, <3>3, <3>4, <3>5, <3>6, SameCardinality
         DEF Contract!Submit, SameCalls
    <3> QED BY <3>7 DEF Contract!Next
  <2>5. CASE Cleanup(p)
    <3> DEFINE r == result[p]
    <3>1. /\ Return(p, r) /\ UNCHANGED remote /\ pc[p] = "cleanup"
          /\ r \in {"ok", "failed", "dropped", "timeout"}
      BY <2>5 DEF Cleanup, ResultInv
    <3>2. result'[p] = r
      BY <3>1 DEF Return, TypeOK
    <3>3. CASE r = "ok"
      <4>1. RunnerOutcome(p)' = "ok"
        BY <3>2, <3>3 DEF RunnerOutcome
      <4>2. remote[p] = "finished" /\ Started(p) /\ RunnerCall(p) = "pending"
        BY <3>1, <3>3 DEF ResultInv, Started, RunnerCall
      <4>3. Contract!MayReturn(p, "ok")
        BY <4>2 DEF Contract!MayReturn, Contract!RanToItsEnd, Contract!Starts
      <4> QED BY <1>0, <3>1, <4>1, <4>3 DEF Results, Contract!Outcomes
    <3>4. CASE r = "dropped"
      <4>1. RunnerOutcome(p)' = "dropped"
        BY <3>2, <3>4 DEF RunnerOutcome
      <4>2. Started(p) /\ remote[p] # "none" /\ RunnerCall(p) = "pending"
        BY <3>1, <3>4 DEF ResultInv, Started, RunnerCall
      <4>3. Contract!MayReturn(p, "dropped")
        BY <4>2 DEF Contract!MayReturn, Contract!Started, Contract!Starts
      <4> QED BY <1>0, <3>1, <4>1, <4>3 DEF Results, Contract!Outcomes
    <3>5. CASE r \in {"failed", "timeout"}
      <4>1. RunnerOutcome(p)' = "unknown"
        BY <3>2, <3>5 DEF RunnerOutcome
      <4>2. Contract!MayReturn(p, "unknown")
        BY <3>1, <3>5 DEF Contract!MayReturn, RunnerCall
      <4> QED BY <1>0, <3>1, <4>1, <4>2 DEF Results, Contract!Outcomes
    <3> QED BY <3>1, <3>3, <3>4, <3>5
  <2> QED BY <1>4, <2>1, <2>2, <2>3, <2>4, <2>5 DEF ScriptStep
<1>5. ASSUME NEW p \in Scripts, HostStarts(p) \/ ScriptFinishes(p)
      PROVE  [Contract!Next]_(Contract!vars)
  <2>1. SameCalls
    BY <1>5 DEF HostStarts, ScriptFinishes, local, SameCalls, RunnerCall,
                RunnerOutcome, TypeOK
  <2>2. CASE HostStarts(p)
    <3>1. /\ remote[p] = "sent" /\ remote' = [remote EXCEPT ![p] = "running"]
          /\ UNCHANGED <<pc, result>>
      BY <2>2 DEF HostStarts, local
    <3>2. RunnerCall(p) \in {"pending", "unknown"}
      BY <3>1, DoneOutcome DEF RunnerCall, RunnerOutcome, ResultInv, BeforeExec,
                               Started, TypeOK, Results
    <3>3. \A q \in Scripts : remote'[q] # "none" <=> remote[q] # "none"
      BY <3>1 DEF TypeOK
    <3>4. /\ ~Started(p) /\ Started(p)' /\ remote'[p] = "running"
          /\ \A q \in Scripts : q # p => /\ Started(q)' = Started(q)
                                         /\ remote'[q] = remote[q]
      BY <3>1 DEF Started, TypeOK
    <3>5. [q \in Scripts |-> [n \in 1..1 |-> IF Started(q) THEN remote[q] ELSE "none"]]'
            = [[q \in Scripts |-> [n \in 1..1 |-> IF Started(q) THEN remote[q] ELSE "none"]]
                 EXCEPT ![p][1] = "running"]
      BY <3>4
    <3>6. [q \in Scripts |-> IF Started(q) THEN "whole" ELSE "none"]'
            = [[q \in Scripts |-> IF Started(q) THEN "whole" ELSE "none"]
                 EXCEPT ![p] = "whole"]
      BY <3>4
    <3>7. {q \in Scripts : remote[q] # "none"}' = {q \in Scripts : remote[q] # "none"}
      BY <3>3
    <3>8. [q \in Scripts |-> RunnerCall(q)]' = [q \in Scripts |-> RunnerCall(q)]
      BY <2>1 DEF SameCalls
    <3>9. Contract!Start(p, 1, "whole")
      BY <3>1, <3>2, <3>4, <3>5, <3>6, <3>7, <3>8 DEF Contract!Start
    <3> QED BY <3>9 DEF Contract!Next, Contract!Starts
  <2>3. CASE ScriptFinishes(p)
    <3>1. /\ remote[p] = "running" /\ remote' = [remote EXCEPT ![p] = "finished"]
      BY <2>3 DEF ScriptFinishes
    <3>2. \A q \in Scripts : remote'[q] # "none" <=> remote[q] # "none"
      BY <3>1 DEF TypeOK
    <3>3. /\ Started(p) /\ remote'[p] = "finished"
          /\ \A q \in Scripts : /\ Started(q)' = Started(q)
                                /\ q # p => remote'[q] = remote[q]
      BY <3>1 DEF Started, TypeOK
    <3>4. Contract!Complete(p, 1)
      BY <2>1, <3>1, <3>2, <3>3 DEF Contract!Complete, SameCalls
    <3> QED BY <3>4 DEF Contract!Next, Contract!Starts
  <2> QED BY <1>5, <2>2, <2>3
<1>6. CASE Shutdown
  <2>1. SameCalls /\ UNCHANGED remote
    BY <1>6 DEF Shutdown, Goto, SameCalls, RunnerCall, RunnerOutcome, TypeOK
  <2> QED BY <2>1, SameCallsStutter
<1>7. ASSUME NEW c \in Procs, LinkStalls(c) \/ LinkDrops(c)
      PROVE  UNCHANGED Contract!vars
  <2>1. SameCalls /\ UNCHANGED remote
    BY <1>7 DEF LinkStalls, LinkDrops, local, SameCalls, RunnerCall, RunnerOutcome
  <2> QED BY <2>1, SameCallsStutter
<1>8. CASE UNCHANGED vars
  <2>1. SameCalls /\ UNCHANGED remote
    BY <1>8 DEF vars, local, SameCalls, RunnerCall, RunnerOutcome
  <2> QED BY <2>1, SameCallsStutter
<1> QED BY <1>1, <1>2, <1>3, <1>4, <1>5, <1>6, <1>7, <1>8 DEF Next

LEMMA ContractInit == Init => Contract!Init
<1> SUFFICES ASSUME Init PROVE Contract!Init
  OBVIOUS
<1>1. \A p \in Scripts : RunnerCall(p) = "new"
  BY DEF Init, RunnerCall
<1> QED BY <1>1 DEF Init, Started, Contract!Init, Contract!Starts

\* RunScript over the SSH backend keeps the Runner contract: no more than
\* MaxConcurrentSessions calls wait for a script they handed over, a script is
\* handed over and started at most once, and each outcome says the truth
\* about the script, also about what the host does with it after the return.
THEOREM ImplementsRunner == Spec => KeepsContract
<1>1. Init => ImplInv
  BY TypeInit, SlotInit, ResultInit DEF ImplInv
<1>2. ImplInv /\ [Next]_vars => ImplInv'
  BY TypeStep, SlotStep, ResultStep, CrashStep DEF ImplInv
<1> QED BY <1>1, <1>2, ContractInit, ContractStep, PTL
        DEF Spec, KeepsContract, Contract!Spec

=============================================================================
