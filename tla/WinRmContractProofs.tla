------------------------ MODULE WinRmContractProofs -------------------------
(***************************************************************************)
(* The proof that WinRmBackend implements ScriptRunner, for every set of   *)
(* calls, every cap on shells and any number of failures of the network.   *)
(*                                                                         *)
(* RunInv says what each place of a call tells of its result and of the    *)
(* starts of its script.  A message is handled twice at most, so there is  *)
(* a second start only if the first was not heard of, and both find the    *)
(* same file; a removal that is under way no longer decides the result.    *)
(***************************************************************************)
EXTENDS WinRmBackendProofs

Begun(p) == copies[p][1] # "none"

RunOK(p) ==
    /\ pc[p] \in {"idle", "queue", "create"} => command[p] = "stage"
    /\ command[p] = "stage" => ~Begun(p)
    /\ pc[p] \in Steps \cup {"idle", "queue"} =>
         IF pc[p] = "delete" \/ command[p] = "clean"
           THEN result[p] \in {"ok", "failed", "timeout"}
           ELSE result[p] = "none"
    /\ pc[p] = "done" => result[p] # "none"
    /\ result[p] \in {"not open", "cancelled"} => command[p] = "stage"
    /\ copies[p][2] # "none" => Begun(p)
    /\ text[p] = "none" <=> ~Begun(p)
    /\ pc[p] = "launch" /\ command[p] = "run" /\ Begun(p) =>
         /\ handled[Main(p)] >= IF copies[p][2] = "none" THEN 1 ELSE 2
         /\ text[p] = IF file[p] = "whole" THEN "whole" ELSE "other"
    /\ (command[p] = "run" /\ output[p] = "finished") \/ result[p] = "ok" =>
         LastCopy(p) = "finished"

RunInv == \A p \in Calls : RunOK(p)

LEMMA RunInit == Init => RunInv
  BY DEF Init, RunInv, RunOK, Begun, Steps

\* What a call's step or a post leaves of another call.
Same(q) ==
    /\ pc'[q] = pc[q] /\ command'[q] = command[q] /\ output'[q] = output[q]
    /\ result'[q] = result[q] /\ copies'[q] = copies[q] /\ text'[q] = text[q]
    /\ file'[q] = file[q] /\ handled'[Main(q)] = handled[Main(q)]

LEMMA SameRun ==
    ASSUME NEW q \in Calls, RunOK(q), Same(q)
    PROVE  RunOK(q)'
  BY DEF RunOK, Same, Begun, LastCopy

\* A call that goes on leaves the other calls, and the host, as they are.
LEMMA GoOnSame ==
    ASSUME Inv, NEW p \in Calls, NEW step, NEW Q \in SUBSET {Main(p), Output(p)},
           GoOn(p, step, Q), ~InPost(Main(p)), Output(p) \in Q => ~InPost(Output(p)),
           \A q \in Calls \ {p} : /\ command'[q] = command[q] /\ output'[q] = output[q]
                                  /\ result'[q] = result[q]
    PROVE  /\ \A q \in Calls \ {p} : Same(q)
           /\ pc'[p] = step
           /\ UNCHANGED <<copies, file, text>>
<1>1. /\ PostInv'
      /\ \A r \in Posters :
           /\ r \in Q => post'[r] = "begin" /\ handled'[r] = 0
           /\ r \notin Q =>
                IF r = Main(p) THEN post'[r] = "none"
                ELSE post'[r] = post[r] /\ handled'[r] = handled[r]
      /\ pc' = [pc EXCEPT ![p] = step]
      /\ spoiled' = [spoiled EXCEPT ![p] = @ \/ Bad(p)]
      /\ Bad(p) \in BOOLEAN
      /\ UNCHANGED <<shell, stray, input, file, copies, text>>
  BY GoOnKeeps, Zenon
<1>2. \A q \in Calls \ {p} : Main(q) \in Posters /\ Main(q) \notin {Main(p), Output(p)}
  BY Names
<1>3. \A q \in Calls \ {p} : handled'[Main(q)] = handled[Main(q)]
  BY <1>1, <1>2
<1>4. pc'[p] = step /\ \A q \in Calls \ {p} : pc'[q] = pc[q]
  BY <1>1 DEF Inv, TypeOK
<1> QED BY <1>1, <1>3, <1>4 DEF Same

LEMMA GoOnRun ==
    ASSUME Inv, RunInv, NEW p \in Calls, NEW step, NEW Q \in SUBSET {Main(p), Output(p)},
           GoOn(p, step, Q), ~InPost(Main(p)), Output(p) \in Q => ~InPost(Output(p)),
           \A q \in Calls \ {p} : /\ command'[q] = command[q] /\ output'[q] = output[q]
                                  /\ result'[q] = result[q],
           pc'[p] = step /\ UNCHANGED <<copies, file, text>> => RunOK(p)'
    PROVE  RunInv'
<1>1. /\ \A q \in Calls \ {p} : Same(q)
      /\ pc'[p] = step
      /\ UNCHANGED <<copies, file, text>>
  BY GoOnSame
<1>2. \A q \in Calls \ {p} : RunOK(q)'
  BY <1>1, SameRun DEF RunInv
<1>3. RunOK(p)'
  BY <1>1
<1> QED BY <1>2, <1>3 DEF RunInv

\* The end of a call's own post, and where it goes from there.
LEMMA CallStepRun ==
    ASSUME Inv, RunInv, NEW p \in Calls, CallStep(p)
    PROVE  RunInv'
<1>0. /\ TypeOK /\ RunOK(p)
      /\ pc[p] = "join" => post[Main(p)] = "none"
      /\ pc[p] \in {"create", "launch"} => output[p] = "off"
      /\ output[p] \notin {"polling", "stopping"} => post[Output(p)] = "none"
  BY DEF Inv, CallInv, CallPosts, RunInv
<1>a. command[p] \in {"stage", "run", "clean"}
  BY <1>0 DEF TypeOK
<1> USE Names DEF Replied, Failed, Settled, Ended, InPost, Begun, LastCopy, Steps
<1>1. CASE Created(p)
  <2>1. GoOn(p, "launch", {Main(p)}) /\ ~InPost(Main(p)) /\ pc[p] = "create"
        /\ UNCHANGED <<command, output, result>>
    BY <1>1 DEF Created
  <2>2. pc'[p] = "launch" /\ UNCHANGED <<copies, file, text>> => RunOK(p)'
    BY <1>0, <2>1 DEF RunOK
  <2> QED BY <2>1, <2>2, GoOnRun
<1>2. CASE CreateFails(p)
  <2>1. GoOn(p, "done", {}) /\ ~InPost(Main(p)) /\ pc[p] = "create"
        /\ UNCHANGED <<command, output>> /\ result' = [result EXCEPT ![p] = "failed"]
    BY <1>2 DEF CreateFails
  <2>2. result'[p] = "failed" /\ \A q \in Calls \ {p} : result'[q] = result[q]
    BY <2>1, <1>0 DEF TypeOK
  <2>3. pc'[p] = "done" /\ UNCHANGED <<copies, file, text>> => RunOK(p)'
    BY <1>0, <2>1, <2>2 DEF RunOK
  <2> QED BY <2>1, <2>2, <2>3, GoOnRun
<1>3. CASE Launched(p)
  <2>1. /\ ~InPost(Main(p)) /\ ~InPost(Output(p)) /\ pc[p] = "launch"
        /\ UNCHANGED <<command, result>> /\ output' = [output EXCEPT ![p] = "polling"]
    BY <1>0, <1>3 DEF Launched
  <2>2. output'[p] = "polling" /\ \A q \in Calls \ {p} : output'[q] = output[q]
    BY <1>0, <2>1 DEF TypeOK
  <2>3. ASSUME NEW step \in {"feed", "join"}
        PROVE  pc'[p] = step /\ UNCHANGED <<copies, file, text>> => RunOK(p)'
    BY <1>0, <2>1, <2>2 DEF RunOK
  <2>4. GoOn(p, "feed", {Main(p), Output(p)}) \/ GoOn(p, "join", {Output(p)})
    BY <1>3 DEF Launched
  <2>5. CASE GoOn(p, "feed", {Main(p), Output(p)})
    BY <2>1, <2>2, <2>3, <2>5, GoOnRun
  <2>6. CASE GoOn(p, "join", {Output(p)})
    BY <2>1, <2>2, <2>3, <2>6, GoOnRun
  <2> QED BY <2>4, <2>5, <2>6
<1>4. CASE Fed(p)
  <2>1. GoOn(p, "end", {Main(p)}) /\ ~InPost(Main(p)) /\ pc[p] = "feed"
        /\ UNCHANGED <<command, output, result>>
    BY <1>4 DEF Fed
  <2>2. pc'[p] = "end" /\ UNCHANGED <<copies, file, text>> => RunOK(p)'
    BY <1>0, <2>1 DEF RunOK
  <2> QED BY <2>1, <2>2, GoOnRun
<1>5. CASE InputEnds(p)
  <2>1. GoOn(p, "join", {}) /\ ~InPost(Main(p)) /\ pc[p] = "end"
        /\ UNCHANGED <<command, output, result>>
    BY <1>5 DEF InputEnds
  <2>2. pc'[p] = "join" /\ UNCHANGED <<copies, file, text>> => RunOK(p)'
    BY <1>0, <2>1 DEF RunOK
  <2> QED BY <2>1, <2>2, GoOnRun
<1>6. CASE Staged(p)
  <2>1. GoOn(p, "launch", {Main(p)}) /\ ~InPost(Main(p)) /\ pc[p] = "join"
        /\ command[p] = "stage" /\ command' = [command EXCEPT ![p] = "run"]
        /\ output' = [output EXCEPT ![p] = "off"] /\ UNCHANGED result
    BY <1>0, <1>6 DEF Staged
  <2>2. /\ output'[p] = "off" /\ command'[p] = "run"
        /\ \A q \in Calls \ {p} : output'[q] = output[q] /\ command'[q] = command[q]
    BY <1>0, <2>1 DEF TypeOK
  <2>3. pc'[p] = "launch" /\ UNCHANGED <<copies, file, text>> => RunOK(p)'
    BY <1>0, <2>1, <2>2 DEF RunOK
  <2> QED BY <2>1, <2>2, <2>3, GoOnRun
<1>7. ASSUME NEW r \in {"ok", "failed", "timeout"}, CommandOver(p, r),
             pc[p] \in {"launch", "join"}, ~InPost(Main(p)),
             r = "ok" => command[p] # "stage" /\ output[p] = "finished"
      PROVE  RunInv'
  <2>1. output' = [output EXCEPT ![p] = "off"]
    BY <1>7 DEF CommandOver
  <2>2. output'[p] = "off" /\ \A q \in Calls \ {p} : output'[q] = output[q]
    BY <1>0, <2>1 DEF TypeOK
  <2>3. /\ result'[p] = IF command[p] = "clean" THEN result[p] ELSE r
        /\ \A q \in Calls \ {p} : result'[q] = result[q]
    BY <1>0, <1>7 DEF CommandOver, TypeOK
  <2>4. CASE command[p] = "run"
    <3>1. GoOn(p, "launch", {Main(p)}) /\ command' = [command EXCEPT ![p] = "clean"]
      BY <1>7, <2>4 DEF CommandOver
    <3>2. command'[p] = "clean" /\ \A q \in Calls \ {p} : command'[q] = command[q]
      BY <1>0, <3>1 DEF TypeOK
    <3>3. pc'[p] = "launch" /\ UNCHANGED <<copies, file, text>> => RunOK(p)'
      BY <1>0, <1>7, <2>2, <2>3, <2>4, <3>2 DEF RunOK
    <3> QED BY <1>7, <2>2, <2>3, <3>1, <3>2, <3>3, GoOnRun
  <2>5. CASE command[p] # "run"
    <3>1. GoOn(p, "delete", {Main(p)}) /\ UNCHANGED command
      BY <1>7, <2>5 DEF CommandOver
    <3>2. pc'[p] = "delete" /\ UNCHANGED <<copies, file, text>> => RunOK(p)'
      BY <1>0, <1>a, <1>7, <2>2, <2>3, <2>5, <3>1 DEF RunOK
    <3> QED BY <1>7, <2>2, <2>3, <3>1, <3>2, GoOnRun
  <2> QED BY <2>4, <2>5
<1>8. CASE StageRefused(p) \/ ExitStatus(p) \/ LaunchFails(p) \/ CommandFails(p)
  <2>1. ~InPost(Main(p)) /\ pc[p] \in {"launch", "join"}
    BY <1>0, <1>8 DEF StageRefused, ExitStatus, LaunchFails, CommandFails
  <2>2. PICK r \in {"ok", "failed", "timeout"} :
          /\ CommandOver(p, r)
          /\ r = "ok" => command[p] # "stage" /\ output[p] = "finished"
    BY <1>8 DEF StageRefused, ExitStatus, LaunchFails, CommandFails
  <2> QED BY <1>7, <2>1, <2>2
<1>9. CASE Deleted(p)
  <2>1. GoOn(p, "done", {}) /\ ~InPost(Main(p)) /\ pc[p] = "delete"
        /\ UNCHANGED <<command, output, result>>
    BY <1>9 DEF Deleted
  <2>2. pc'[p] = "done" /\ UNCHANGED <<copies, file, text>> => RunOK(p)'
    BY <1>0, <2>1 DEF RunOK
  <2> QED BY <2>1, <2>2, GoOnRun
<1> QED BY <1>1, <1>2, <1>3, <1>4, <1>5, <1>6, <1>8, <1>9 DEF CallStep

LEMMA OutputGoesOnRun ==
    ASSUME Inv, RunInv, NEW p \in Calls, NEW to, NEW Q \in SUBSET {Output(p)},
           OutputGoesOn(p, to, Q), to = "finished" => CommandEnded(p)
    PROVE  RunInv'
<1> USE Names
<1>1. /\ NextPosts({Output(p)}, Q)
      /\ output' = [output EXCEPT ![p] = to]
      /\ UNCHANGED <<pc, command, result, file, copies, text>>
  BY DEF OutputGoesOn, host
<1>2. \A q \in Calls : handled'[Main(q)] = handled[Main(q)]
  BY <1>1, NextPostsMoves DEF Inv, PostInv
<1>3. output'[p] = to /\ \A q \in Calls \ {p} : output'[q] = output[q]
  BY <1>1 DEF Inv, TypeOK
<1>4. \A q \in Calls \ {p} : Same(q)
  BY <1>1, <1>2, <1>3 DEF Same
<1>5. \A q \in Calls \ {p} : RunOK(q)'
  BY <1>4, SameRun DEF RunInv
<1>6. RunOK(p)'
  <2>1. RunOK(p) /\ (to = "finished" /\ command[p] = "run" =>
                       LastCopy(p) = "finished")
    BY DEF RunInv, CommandEnded
  <2> QED BY <1>1, <1>2, <1>3, <2>1 DEF RunOK, Begun, LastCopy
<1> QED BY <1>5, <1>6 DEF RunInv

LEMMA OutputStepRun ==
    ASSUME Inv, RunInv, NEW p \in Calls, OutputStep(p)
    PROVE  RunInv'
<1>1. CASE PollAgain(p)
  BY <1>1, OutputGoesOnRun DEF PollAgain
<1>2. CASE PollEnds(p)
  BY <1>2, OutputGoesOnRun DEF PollEnds
<1>3. CASE PollFails(p)
  BY <1>3, OutputGoesOnRun DEF PollFails
<1>4. CASE ContextEnds(p)
  BY <1>4, OutputGoesOnRun DEF ContextEnds
<1>5. CASE Stopped(p)
  BY <1>5, OutputGoesOnRun DEF Stopped
<1> QED BY <1>1, <1>2, <1>3, <1>4, <1>5 DEF OutputStep

LEMMA BeginRun ==
    ASSUME Inv, RunInv, NEW p \in Calls, Invoke(p) \/ AcquireShell(p) \/ CancelQueued(p)
    PROVE  RunInv'
<1> USE Names
<1>1. /\ pc[p] \in {"idle", "queue"} /\ TypeOK /\ RunOK(p)
      /\ UNCHANGED <<command, output, file, copies, text>>
  BY DEF Invoke, AcquireShell, CancelQueued, host, Inv, RunInv
<1>2. PICK to \in {"queue", "create", "done"}, r \in {result[p], "not open", "cancelled"} :
        /\ pc' = [pc EXCEPT ![p] = to] /\ result' = [result EXCEPT ![p] = r]
        /\ to = "done" <=> r # result[p]
  <2>1. result[p] = "none" /\ result = [result EXCEPT ![p] = result[p]]
    BY <1>1 DEF RunOK, TypeOK
  <2>2. CASE AcquireShell(p)
    BY <2>1, <2>2 DEF AcquireShell
  <2>3. CASE CancelQueued(p)
    BY <2>1, <2>3 DEF CancelQueued
  <2>4. CASE Invoke(p) /\ status = "closed"
    BY <2>1, <2>4 DEF Invoke
  <2>5. CASE Invoke(p) /\ status # "closed"
    BY <2>1, <2>5 DEF Invoke
  <2> QED BY <2>2, <2>3, <2>4, <2>5
<1>3. result'[p] = r
  BY <1>1, <1>2 DEF TypeOK
<1>4. \A q \in Calls \ {p} : handled'[Main(q)] = handled[Main(q)]
  <2>1. CASE AcquireShell(p)
    <3>1. NextPosts({}, {Main(p)}) /\ TransportTypeOK
      BY <2>1 DEF AcquireShell, Inv, PostInv
    <3>2. \A q \in Posters : q \notin {} \cup {Main(p)} => handled'[q] = handled[q]
      BY <3>1, NextPostsMoves
    <3> QED BY <3>2
  <2>2. CASE Invoke(p) \/ CancelQueued(p)
    BY <2>2 DEF Invoke, CancelQueued, transport, posting, observed
  <2> QED BY <2>1, <2>2
<1>5. pc'[p] = to /\ \A q \in Calls \ {p} : pc'[q] = pc[q] /\ result'[q] = result[q]
  BY <1>1, <1>2 DEF TypeOK
<1>6. \A q \in Calls \ {p} : RunOK(q)'
  BY <1>1, <1>4, <1>5, SameRun DEF Same, RunInv
<1>7. RunOK(p)'
  BY <1>1, <1>2, <1>3, <1>5 DEF RunOK, Begun, LastCopy, Steps
<1> QED BY <1>6, <1>7 DEF RunInv

\* A second start finds the file the first one found.
LEMMA MainPostRun ==
    ASSUME Inv, RunInv, NEW p \in Calls, MainPost(p)
    PROVE  RunInv'
<1> USE Names
<1>1. /\ HandledStep(Main(p)) /\ HostHandles(p)
      /\ UNCHANGED <<pc, command, output, result>>
  BY DEF MainPost, calls
<1>2. TypeOK /\ RunOK(p)
  BY DEF Inv, RunInv
<1>3. /\ handled' = [handled EXCEPT ![Main(p)] = @ + 1]
      /\ handled'[Main(p)] \in 0..2
  BY <1>1, HandledMoves, PostsStep DEF Inv, PostInv, TransportTypeOK
<1>4. /\ handled[Main(p)] \in 0..1 /\ handled'[Main(p)] = handled[Main(p)] + 1
      /\ \A q \in Calls \ {p} : handled'[Main(q)] = handled[Main(q)]
  <2>1. handled \in [Posters -> 0..2]
    BY <1>2 DEF TypeOK, TransportTypeOK
  <2> QED BY <1>3, <2>1
<1>5. /\ \A q \in Calls \ {p} :
           copies'[q] = copies[q] /\ text'[q] = text[q] /\ file'[q] = file[q]
      /\ pc[p] # "launch" \/ command[p] # "run" => UNCHANGED <<copies, text>>
      /\ pc[p] = "launch" /\ command[p] = "run" => file'[p] = file[p]
  <2>1. CASE pc[p] = "launch" /\ command[p] = "run"
    BY <1>1, <1>2, <2>1 DEF HostHandles, HostRuns, TypeOK
  <2>2. CASE ~(pc[p] = "launch" /\ command[p] = "run")
    <3>1. UNCHANGED <<file, copies, text>> \/ HostWritesFile(p) \/ HostRemovesFile(p)
      BY <1>1, <2>2 DEF HostHandles, HostCreates, HostReadsInput, HostDeletes, host
    <3>2. /\ UNCHANGED <<copies, text>>
          /\ UNCHANGED file \/ \E f : file' = [file EXCEPT ![p] = f]
      BY <3>1 DEF HostWritesFile, HostRemovesFile
    <3> QED BY <1>2, <2>2, <3>2 DEF TypeOK
  <2> QED BY <2>1, <2>2
<1>6. \A q \in Calls \ {p} : RunOK(q)'
  BY <1>1, <1>4, <1>5, SameRun DEF Same, RunInv
<1>7. RunOK(p)'
  <2>1. CASE pc[p] = "launch" /\ command[p] = "run"
    <3>1. /\ output[p] = "off" /\ result[p] = "none" /\ file'[p] = file[p]
      BY <1>2, <1>5, <2>1 DEF Inv, CallInv, CallPosts, RunOK, Steps
    <3>2. copies' = [copies EXCEPT ![p][IF copies[p][1] = "none" THEN 1 ELSE 2] = "running"]
      BY <1>1, <2>1 DEF HostHandles, HostRuns
    <3>3. text'[p] = IF file[p] = "whole" THEN "whole" ELSE "other"
      BY <1>1, <1>2, <2>1 DEF HostHandles, HostRuns, TypeOK
    <3>4. CASE Begun(p)
      <4>1. copies[p][2] = "none" /\ handled[Main(p)] = 1
        <5>1. handled[Main(p)] >= IF copies[p][2] = "none" THEN 1 ELSE 2
          BY <1>2, <2>1, <3>4 DEF RunOK
        <5> QED BY <1>4, <5>1
      <4>2. copies'[p][1] = copies[p][1] /\ copies'[p][2] = "running"
        BY <1>2, <3>2, <3>4 DEF TypeOK, Begun
      <4> QED BY <1>1, <1>2, <1>4, <2>1, <3>1, <3>3, <3>4, <4>1, <4>2
            DEF RunOK, Begun, LastCopy, Steps
    <3>5. CASE ~Begun(p)
      <4>1. copies[p][2] = "none"
        BY <1>2, <3>5 DEF RunOK
      <4>2. copies'[p][1] = "running" /\ copies'[p][2] = "none"
        BY <1>2, <3>2, <3>5, <4>1 DEF TypeOK, Begun
      <4> QED BY <1>1, <1>2, <1>4, <2>1, <3>1, <3>3, <3>5, <4>2
            DEF RunOK, Begun, LastCopy, Steps
    <3> QED BY <3>4, <3>5
  <2>2. CASE ~(pc[p] = "launch" /\ command[p] = "run")
    <3>1. UNCHANGED <<copies, text>>
      BY <1>5, <2>2
    <3> QED BY <1>1, <1>2, <2>2, <3>1 DEF RunOK, Begun, LastCopy
  <2> QED BY <2>1, <2>2
<1> QED BY <1>6, <1>7 DEF RunInv

\* The steps of the transport, of a script, and of Open and Close.
LEMMA ElsewhereRun ==
    ASSUME Inv, RunInv, UNCHANGED <<pc, command, output, result, file, text>>,
           \A q \in Calls : handled'[Main(q)] = handled[Main(q)],
           UNCHANGED copies \/ \E p \in Calls : ScriptEnds(p)
    PROVE  RunInv'
<1>1. CASE UNCHANGED copies
  BY <1>1, SameRun DEF Same, RunInv
<1>2. ASSUME NEW p \in Calls, NEW i \in 1..2, copies[p][i] = "running",
             copies' = [copies EXCEPT ![p][i] = "finished"]
      PROVE  RunInv'
  <2>1. TypeOK /\ RunOK(p)
    BY DEF Inv, RunInv
  <2>2. \A q \in Calls \ {p} : RunOK(q)'
    BY <1>2, <2>1, SameRun DEF Same, RunInv, TypeOK
  <2>3. /\ copies'[p][1] = IF i = 1 THEN "finished" ELSE copies[p][1]
        /\ copies'[p][2] = IF i = 2 THEN "finished" ELSE copies[p][2]
    BY <1>2, <2>1 DEF TypeOK
  <2>4. RunOK(p)'
    <3>1. Begun(p) /\ Begun(p)' /\ (copies'[p][2] = "none" <=> copies[p][2] = "none")
      <4>1. copies[p][2] # "none" => copies[p][1] # "none"
        BY <2>1 DEF RunOK, Begun
      <4> QED BY <1>2, <2>3, <4>1 DEF Begun
    <3>2. LastCopy(p) = "finished" => LastCopy(p)' = "finished"
      BY <1>2, <2>3 DEF LastCopy
    <3>3. handled'[Main(p)] = handled[Main(p)]
      OBVIOUS
    <3> QED BY <2>1, <3>1, <3>2, <3>3 DEF RunOK
  <2> QED BY <2>2, <2>4 DEF RunInv
<1> QED BY <1>1, <1>2 DEF ScriptEnds

LEMMA RunStep == Inv /\ RunInv /\ [Next]_vars => RunInv'
<1> SUFFICES ASSUME Inv, RunInv, [Next]_vars PROVE RunInv'
  OBVIOUS
<1> USE Names
<1>1. CASE UNCHANGED vars
  BY <1>1, ElsewhereRun DEF vars, transport, observed, calls, host
<1>2. CASE OpenSucceeds \/ OpenFails \/ Close
  BY <1>2, ElsewhereRun DEF OpenSucceeds, OpenFails, Close, transport, observed, host
<1>3. ASSUME NEW p \in Calls, Invoke(p) \/ AcquireShell(p) \/ CancelQueued(p)
      PROVE  RunInv'
  BY <1>3, BeginRun
<1>4. ASSUME NEW p \in Calls, CallStep(p) PROVE RunInv'
  BY <1>4, CallStepRun
<1>5. ASSUME NEW p \in Calls, OutputStep(p) PROVE RunInv'
  BY <1>5, OutputStepRun
<1>6. ASSUME NEW p \in Calls, MainPost(p) PROVE RunInv'
  BY <1>6, MainPostRun
<1>7. ASSUME NEW p \in Calls, OutputPost(p) PROVE RunInv'
  <2>1. handled' = [handled EXCEPT ![Output(p)] = @ + 1]
    BY <1>7, HandledMoves DEF OutputPost, Inv, PostInv
  <2>2. handled \in [Posters -> 0..2]
    BY DEF Inv, PostInv, TransportTypeOK
  <2>3. \A q \in Calls : handled'[Main(q)] = handled[Main(q)]
    BY <2>1, <2>2
  <2> QED BY <1>7, <2>3, ElsewhereRun DEF OutputPost, calls, host
<1>8. ASSUME NEW q \in Posters, Posting(q) PROVE RunInv'
  <2>1. UNCHANGED handled
    BY <1>8, PostMoves DEF Posting, Inv, PostInv
  <2> QED BY <1>8, <2>1, ElsewhereRun DEF Posting, calls, host
<1>9. CASE Network
  <2>1. UNCHANGED handled
    BY <1>9, NetworkMoves DEF Network, Inv, PostInv
  <2> QED BY <1>9, <2>1, ElsewhereRun DEF Network, calls, host
<1>10. ASSUME NEW p \in Calls, ScriptEnds(p) PROVE RunInv'
  BY <1>10, ElsewhereRun DEF ScriptEnds, transport, observed, calls
<1> QED BY <1>1, <1>2, <1>3, <1>4, <1>5, <1>6, <1>7, <1>8, <1>9, <1>10 DEF Next

-----------------------------------------------------------------------------
(* What a step shows of the calls *)

\* What a call shows of itself depends on where it is, its result and whether
\* its script was handed over.
Sent(q) == command[q] # "stage"

Seen(q) == RunnerCall(q)' = RunnerCall(q) /\ (Sent(q)' <=> Sent(q))

LEMMA SameSeen ==
    ASSUME NEW q \in Calls, pc'[q] = pc[q], result'[q] = result[q], command'[q] = command[q]
    PROVE  Seen(q)
  BY DEF Seen, RunnerCall, RunnerOutcome, Sent

LEMMA InsideSeen ==
    ASSUME NEW q \in Calls, pc[q] \notin {"idle", "done"}, pc'[q] \notin {"idle", "done"},
           Sent(q)' <=> Sent(q)
    PROVE  Seen(q)
  BY DEF Seen, RunnerCall

\* The contract's variables, one by one.
SentCalls == {q \in Calls : command[q] # "stage"}

ShownCalls == [q \in Calls |-> RunnerCall(q)]

LEMMA SameSent ==
    ASSUME \A q \in Calls : Sent(q)' <=> Sent(q)
    PROVE  SentCalls' = SentCalls
  BY DEF SentCalls, Sent

LEMMA AllSeen ==
    ASSUME \A q \in Calls : Seen(q), UNCHANGED <<copies, text>>
    PROVE  UNCHANGED Contract!vars
<1>1. SentCalls' = SentCalls
  BY SameSent DEF Seen
<1>2. ShownCalls' = ShownCalls
  BY DEF ShownCalls, Seen
<1> QED BY <1>1, <1>2 DEF Contract!vars, SentCalls, ShownCalls

\* One call returns, and the others and the host show nothing.
LEMMA OneReturns ==
    ASSUME NEW p \in Calls, NEW o \in Contract!Outcomes, UNCHANGED <<copies, text>>,
           \A q \in Calls \ {p} : Seen(q), Sent(p)' <=> Sent(p),
           RunnerCall(p)' = o, Contract!MayReturn(p, o)
    PROVE  Contract!Next
<1>1. SentCalls' = SentCalls
  BY SameSent DEF Seen
<1>2. ShownCalls' = [ShownCalls EXCEPT ![p] = o]
  BY DEF ShownCalls, Seen
<1>3. Contract!Return(p, o)
  BY <1>1, <1>2 DEF Contract!Return, SentCalls, ShownCalls
<1> QED BY <1>3 DEF Contract!Next

LEMMA SameCardinality ==
    ASSUME NEW S PROVE Contract!Cardinality(S) = Cardinality(S)
  BY Zenon DEF Cardinality, Contract!Cardinality

\* Every script that is waited for has a slot, and not the one of p.
LEMMA RoomToSubmit ==
    ASSUME Inv, RunInv, NEW p \in Calls, pc[p] \in Steps, command[p] = "stage"
    PROVE  Contract!Cardinality(Contract!Awaited) < MaxShells
<1>1. ASSUME NEW q \in Calls, command[q] # "stage", RunnerCall(q) = "pending"
      PROVE  q \in sem \ {p}
  <2>1. TypeOK /\ RunOK(q) /\ (q \in sem <=> pc[q] \in Steps)
    BY DEF Inv, RunInv, CallInv, Slots
  <2>2. pc[q] \notin {"idle", "queue", "done"}
    <3>1. pc[q] # "done"
      <4>1. CASE pc[q] = "done"
        <5>1. RunnerCall(q) = RunnerOutcome(q) /\ result[q] \in Results \ {"none"}
          BY <2>1, <4>1 DEF RunnerCall, TypeOK, RunOK
        <5> QED BY <1>1, <5>1 DEF RunnerOutcome, Results
      <4> QED BY <4>1
    <3> QED BY <1>1, <2>1, <3>1 DEF RunOK
  <2> QED BY <1>1, <2>1, <2>2 DEF TypeOK
<1>2. Contract!Awaited \subseteq sem \ {p}
  BY <1>1 DEF Contract!Awaited
<1>3. p \in sem /\ IsFiniteSet(sem)
  BY DEF Inv, CallInv, Slots
<1>4. /\ IsFiniteSet(sem \ {p})
      /\ Cardinality(sem \ {p}) = Cardinality(sem) - 1
  BY <1>3, FS_RemoveElement
<1>5. /\ Cardinality(Contract!Awaited) <= Cardinality(sem \ {p})
      /\ Cardinality(sem) \in Nat /\ Cardinality(Contract!Awaited) \in Nat
  BY <1>2, <1>3, <1>4, FS_Subset, FS_CardinalityType
<1>6. Cardinality(sem) <= MaxShells /\ MaxShells \in Nat
  BY ShellsAssumption DEF Inv, TypeOK
<1> QED BY <1>4, <1>5, <1>6, SameCardinality

-----------------------------------------------------------------------------
(* Every step is one of the contract, or shows nothing *)

\* Staging is over: the script is handed over.
LEMMA StagedContract ==
    ASSUME Inv, RunInv, NEW p \in Calls, Staged(p)
    PROVE  Contract!Submit(p)
<1>1. /\ pc[p] = "join" /\ pc' = [pc EXCEPT ![p] = "launch"] /\ UNCHANGED result
      /\ command[p] = "stage" /\ command' = [command EXCEPT ![p] = "run"]
      /\ UNCHANGED <<copies, text>> /\ TypeOK
  BY DEF Staged, GoOn, host, Inv
<1>2. /\ pc'[p] = "launch" /\ command'[p] = "run"
      /\ \A q \in Calls \ {p} : pc'[q] = pc[q] /\ command'[q] = command[q]
  BY <1>1 DEF TypeOK
<1>3. ShownCalls' = ShownCalls
  <2>1. \A q \in Calls : RunnerCall(q)' = RunnerCall(q)
    BY <1>1, <1>2 DEF RunnerCall, RunnerOutcome
  <2> QED BY <2>1 DEF ShownCalls
<1>4. SentCalls' = SentCalls \cup {p}
  BY <1>1, <1>2 DEF SentCalls
<1>5. RunnerCall(p) = "pending"
  BY <1>1 DEF RunnerCall
<1>6. Contract!Cardinality(Contract!Awaited) < MaxShells
  BY <1>1, RoomToSubmit DEF Steps
<1> QED BY <1>1, <1>3, <1>4, <1>5, <1>6
        DEF Contract!Submit, SentCalls, ShownCalls

LEMMA CallShape ==
    ASSUME TypeOK, NEW p \in Calls, CallStep(p), ~Staged(p)
    PROVE  /\ UNCHANGED <<copies, text>> /\ pc[p] \in Steps
           /\ \A q \in Calls \ {p} : Seen(q)
           /\ Sent(p)' <=> Sent(p)
           /\ pc'[p] \in Steps \/ CreateFails(p) \/ Deleted(p)
<1> USE DEF Steps
<1>1. \E step : GoOn(p, step, {Main(p)}) \/ GoOn(p, step, {})
                \/ GoOn(p, step, {Output(p)}) \/ GoOn(p, step, {Main(p), Output(p)})
  BY DEF CallStep, Created, CreateFails, Launched, LaunchFails, Fed, InputEnds,
         StageRefused, ExitStatus, CommandFails, Deleted, CommandOver
<1>2. UNCHANGED <<copies, text>> /\ \A q \in Calls \ {p} : pc'[q] = pc[q]
  BY <1>1 DEF GoOn, host, TypeOK
<1>3. /\ \/ UNCHANGED command
         \/ command[p] = "run" /\ command' = [command EXCEPT ![p] = "clean"]
      /\ UNCHANGED result \/ \E r : result' = [result EXCEPT ![p] = r]
      /\ pc[p] \in Steps
  BY DEF CallStep, Created, CreateFails, Launched, LaunchFails, Fed, InputEnds,
         StageRefused, ExitStatus, CommandFails, Deleted, CommandOver
<1>4. \A q \in Calls \ {p} : command'[q] = command[q] /\ result'[q] = result[q]
  BY <1>3 DEF TypeOK
<1>5. \A q \in Calls \ {p} : Seen(q)
  BY <1>2, <1>4, SameSeen
<1>6. Sent(p)' <=> Sent(p)
  BY <1>3 DEF Sent, TypeOK
<1>7. pc'[p] \in Steps \/ CreateFails(p) \/ Deleted(p)
  <2>1. \A step, Q : GoOn(p, step, Q) => pc'[p] = step
    BY DEF GoOn, TypeOK
  <2>2. \A r : CommandOver(p, r) => pc'[p] \in {"launch", "delete"}
    BY <2>1 DEF CommandOver
  <2> QED BY <2>1, <2>2
        DEF CallStep, Created, Launched, LaunchFails, Fed, InputEnds,
            StageRefused, ExitStatus, CommandFails
<1> QED BY <1>2, <1>3, <1>5, <1>6, <1>7

LEMMA CallStepContract ==
    ASSUME Inv, RunInv, NEW p \in Calls, CallStep(p)
    PROVE  [Contract!Next]_(Contract!vars)
<1>1. TypeOK /\ RunOK(p)
  BY DEF Inv, RunInv
<1>2. CASE Staged(p)
  BY <1>2, StagedContract DEF Contract!Next
<1>3. CASE ~Staged(p)
  <2>1. /\ UNCHANGED <<copies, text>> /\ pc[p] \in Steps
        /\ \A q \in Calls \ {p} : Seen(q)
        /\ Sent(p)' <=> Sent(p)
        /\ pc'[p] \in Steps \/ CreateFails(p) \/ Deleted(p)
    BY <1>1, <1>3, CallShape
  <2>2. RunnerCall(p) = "pending"
    BY <2>1 DEF RunnerCall, Steps
  <2>3. CASE pc'[p] \in Steps
    <3>1. Seen(p)
      BY <2>1, <2>3, InsideSeen DEF Steps
    <3> QED BY <2>1, <3>1, AllSeen
  <2>4. CASE CreateFails(p)
    <3>1. pc'[p] = "done" /\ result'[p] = "failed"
      BY <1>1, <2>4 DEF CreateFails, GoOn, TypeOK
    <3>2. RunnerCall(p)' = "unknown"
      BY <3>1 DEF RunnerCall, RunnerOutcome
    <3>3. Contract!MayReturn(p, "unknown")
      BY <2>2 DEF Contract!MayReturn
    <3> QED BY <2>1, <3>2, <3>3, OneReturns DEF Contract!Outcomes
  <2>5. CASE Deleted(p)
    <3>1. /\ pc[p] = "delete" /\ pc'[p] = "done" /\ result'[p] = result[p]
          /\ result[p] \in {"ok", "failed", "timeout"}
      BY <1>1, <2>5 DEF Deleted, GoOn, TypeOK, RunOK, Steps
    <3>2. CASE result[p] = "ok"
      <4>1. RunnerCall(p)' = "ok"
        BY <3>1, <3>2 DEF RunnerCall, RunnerOutcome
      <4>2. LastCopy(p) = "finished"
        BY <1>1, <3>2 DEF RunOK
      <4>3. \E i \in 1..2 : copies[p][i] = "finished"
        BY <4>2 DEF LastCopy
      <4>4. command[p] # "stage"
        <5>1. copies[p][1] # "none" \/ copies[p][2] # "none"
          BY <4>3
        <5> QED BY <1>1, <5>1 DEF RunOK, Begun
      <4>5. Contract!MayReturn(p, "ok")
        BY <2>2, <4>3, <4>4
           DEF Contract!MayReturn, Contract!RanToItsEnd, Contract!Starts
      <4> QED BY <2>1, <4>1, <4>5, OneReturns DEF Contract!Outcomes
    <3>3. CASE result[p] \in {"failed", "timeout"}
      <4>1. RunnerCall(p)' = "unknown"
        BY <3>1, <3>3 DEF RunnerCall, RunnerOutcome
      <4>2. Contract!MayReturn(p, "unknown")
        BY <2>2 DEF Contract!MayReturn
      <4> QED BY <2>1, <4>1, <4>2, OneReturns DEF Contract!Outcomes
    <3> QED BY <3>1, <3>2, <3>3
  <2> QED BY <2>1, <2>3, <2>4, <2>5
<1> QED BY <1>2, <1>3

LEMMA BeginContract ==
    ASSUME Inv, RunInv, NEW p \in Calls, Invoke(p) \/ AcquireShell(p) \/ CancelQueued(p)
    PROVE  [Contract!Next]_(Contract!vars)
<1>1. TypeOK /\ RunOK(p)
  BY DEF Inv, RunInv
<1>2. UNCHANGED <<command, copies, text>> /\ pc[p] \in {"idle", "queue"}
  BY DEF Invoke, AcquireShell, CancelQueued, host
<1>3. command[p] = "stage" /\ \A q \in Calls : Sent(q)' <=> Sent(q)
  BY <1>1, <1>2 DEF RunOK, Sent
<1>4. CASE AcquireShell(p)
  <2>1. /\ \A q \in Calls \ {p} : pc'[q] = pc[q] /\ result'[q] = result[q]
        /\ pc[p] = "queue" /\ pc'[p] = "create"
    BY <1>1, <1>4 DEF AcquireShell, TypeOK
  <2>2. \A q \in Calls : Seen(q)
    BY <1>2, <1>3, <2>1, SameSeen, InsideSeen
  <2> QED BY <1>2, <2>2, AllSeen
<1>5. ASSUME NEW r \in {"not open", "cancelled"},
             pc' = [pc EXCEPT ![p] = "done"], result' = [result EXCEPT ![p] = r]
      PROVE  Contract!Next
  <2>1. /\ \A q \in Calls \ {p} : pc'[q] = pc[q] /\ result'[q] = result[q]
        /\ pc'[p] = "done" /\ result'[p] = r
    BY <1>1, <1>5 DEF TypeOK
  <2>2. RunnerCall(p)' = "unsent"
    BY <2>1 DEF RunnerCall, RunnerOutcome
  <2>3. Contract!MayReturn(p, "unsent")
    BY <1>2, <1>3 DEF Contract!MayReturn, RunnerCall
  <2>4. \A q \in Calls \ {p} : Seen(q)
    BY <1>2, <2>1, SameSeen
  <2> QED BY <1>2, <1>3, <2>2, <2>3, <2>4, OneReturns DEF Contract!Outcomes
<1>6. CASE CancelQueued(p)
  BY <1>5, <1>6 DEF CancelQueued
<1>7. CASE Invoke(p) /\ status = "closed"
  BY <1>5, <1>7 DEF Invoke
<1>8. CASE Invoke(p) /\ status # "closed"
  <2>1. /\ \A q \in Calls \ {p} : pc'[q] = pc[q] /\ result'[q] = result[q]
        /\ pc[p] = "idle" /\ pc'[p] = "queue"
    BY <1>1, <1>8 DEF Invoke, TypeOK
  <2>2. RunnerCall(p) = "new" /\ RunnerCall(p)' = "pending"
    BY <2>1 DEF RunnerCall
  <2>3. \A q \in Calls \ {p} : Seen(q)
    BY <1>2, <2>1, SameSeen
  <2>4. ShownCalls' = [ShownCalls EXCEPT ![p] = "pending"]
    BY <2>2, <2>3 DEF ShownCalls, Seen
  <2>5. SentCalls' = SentCalls
    BY <1>3, SameSent
  <2>6. Contract!Invoke(p)
    BY <1>2, <2>2, <2>4, <2>5 DEF Contract!Invoke, SentCalls, ShownCalls
  <2> QED BY <2>6 DEF Contract!Next
<1> QED BY <1>4, <1>6, <1>7, <1>8

\* A launch that is handled starts what the file holds.
LEMMA MainPostContract ==
    ASSUME Inv, RunInv, NEW p \in Calls, MainPost(p)
    PROVE  [Contract!Next]_(Contract!vars)
<1>1. /\ TypeOK /\ RunOK(p) /\ HostHandles(p) /\ UNCHANGED <<pc, command, result>>
  BY DEF Inv, RunInv, MainPost, calls
<1>2. \A q \in Calls : Seen(q)
  BY <1>1, SameSeen
<1>3. CASE ~(pc[p] = "launch" /\ command[p] = "run")
  <2>1. UNCHANGED <<copies, text>>
    BY <1>1, <1>3 DEF HostHandles, HostCreates, HostReadsInput, HostWritesFile,
                      HostRemovesFile, HostDeletes, host
  <2> QED BY <1>2, <2>1, AllSeen
<1>4. CASE pc[p] = "launch" /\ command[p] = "run"
  <2> DEFINE first == IF copies[p][1] = "none" THEN 1 ELSE 2
             t == IF file[p] = "whole" THEN "whole" ELSE "other"
  <2>1. /\ copies' = [copies EXCEPT ![p][first] = "running"]
        /\ text' = [text EXCEPT ![p] = t]
        /\ first \in 1..2 /\ t \in {"whole", "other"}
        /\ Begun(p) <=> first = 2
    BY <1>1, <1>4 DEF HostHandles, HostRuns, Begun
  <2>2. t = IF file[p] = "whole" THEN "whole" ELSE "other"
    OBVIOUS
  <2> HIDE DEF first, t
  <2>3. copies[p][first] = "none"
    <3>1. CASE Begun(p)
      <4>1. handled' = [handled EXCEPT ![Main(p)] = @ + 1] /\ PostInv'
        BY Names, HandledMoves, PostsStep DEF MainPost, Inv, PostInv
      <4>2. handled \in [Posters -> 0..2] /\ handled'[Main(p)] \in 0..2
        BY <4>1, Names DEF Inv, PostInv, TransportTypeOK
      <4>3. handled[Main(p)] \in 0..1
        BY <4>1, <4>2, Names
      <4>4. handled[Main(p)] >= IF copies[p][2] = "none" THEN 1 ELSE 2
        BY <1>1, <1>4, <3>1 DEF RunOK
      <4>5. copies[p][2] = "none" /\ first = 2
        BY <2>1, <3>1, <4>3, <4>4
      <4> QED BY <4>5
    <3>2. CASE ~Begun(p)
      BY <2>1, <3>2 DEF Begun
    <3> QED BY <3>1, <3>2
  <2>4. text[p] \in {"none", t}
    BY <1>1, <1>4, <2>2 DEF RunOK
  <2>5. p \in SentCalls /\ RunnerCall(p) = "pending"
    BY <1>4 DEF SentCalls, RunnerCall
  <2>6. SentCalls' = SentCalls /\ ShownCalls' = ShownCalls
    BY <1>2, SameSent DEF ShownCalls, Seen
  <2>7. Contract!Start(p, first, t)
    BY <2>1, <2>3, <2>4, <2>5, <2>6 DEF Contract!Start, SentCalls, ShownCalls
  <2> QED BY <2>1, <2>7 DEF Contract!Next, Contract!Starts
<1> QED BY <1>3, <1>4

LEMMA ScriptEndsContract ==
    ASSUME Inv, NEW p \in Calls, ScriptEnds(p)
    PROVE  Contract!Next
<1>1. UNCHANGED <<pc, result, command, text>>
  BY DEF ScriptEnds, calls
<1>2. PICK i \in 1..2 : copies[p][i] = "running"
                        /\ copies' = [copies EXCEPT ![p][i] = "finished"]
  BY DEF ScriptEnds
<1>3. \A q \in Calls : Seen(q)
  BY <1>1, SameSeen
<1>4. SentCalls' = SentCalls /\ ShownCalls' = ShownCalls
  BY <1>3, SameSent DEF ShownCalls, Seen
<1>5. Contract!Complete(p, i)
  BY <1>1, <1>2, <1>4 DEF Contract!Complete, SentCalls, ShownCalls
<1> QED BY <1>5 DEF Contract!Next, Contract!Starts

LEMMA ContractStep == Inv /\ RunInv /\ [Next]_vars => [Contract!Next]_(Contract!vars)
<1> SUFFICES ASSUME Inv, RunInv, [Next]_vars
             PROVE  [Contract!Next]_(Contract!vars)
  OBVIOUS
<1>1. CASE UNCHANGED <<pc, result, command, copies, text>>
  <2>1. \A q \in Calls : Seen(q)
    BY <1>1, SameSeen
  <2> QED BY <1>1, <2>1, AllSeen
<1>2. CASE \/ UNCHANGED vars \/ OpenSucceeds \/ OpenFails \/ Close \/ Network
           \/ (\E p \in Calls : OutputPost(p) \/ OutputStep(p)) \/ \E q \in Posters : Posting(q)
  <2>1. UNCHANGED <<pc, result, command, copies, text>>
    BY <1>2 DEF vars, calls, host, OpenSucceeds, OpenFails, Close, Network, OutputPost,
                Posting, OutputStep, PollAgain, PollEnds, PollFails, ContextEnds, Stopped,
                OutputGoesOn
  <2> QED BY <1>1, <2>1
<1>3. ASSUME NEW p \in Calls, Invoke(p) \/ AcquireShell(p) \/ CancelQueued(p)
      PROVE  [Contract!Next]_(Contract!vars)
  BY <1>3, BeginContract
<1>4. ASSUME NEW p \in Calls, CallStep(p) PROVE [Contract!Next]_(Contract!vars)
  BY <1>4, CallStepContract
<1>5. ASSUME NEW p \in Calls, MainPost(p) PROVE [Contract!Next]_(Contract!vars)
  BY <1>5, MainPostContract
<1>6. ASSUME NEW p \in Calls, ScriptEnds(p) PROVE [Contract!Next]_(Contract!vars)
  BY <1>6, ScriptEndsContract
<1> QED BY <1>2, <1>3, <1>4, <1>5, <1>6 DEF Next

LEMMA ContractInit == Init => Contract!Init
<1> SUFFICES ASSUME Init PROVE Contract!Init
  OBVIOUS
<1>1. \A p \in Calls : RunnerCall(p) = "new" /\ command[p] = "stage"
  BY DEF Init, RunnerCall
<1>2. SentCalls = {} /\ ShownCalls = [p \in Calls |-> "new"]
  BY <1>1 DEF SentCalls, ShownCalls
<1> QED BY <1>2 DEF Init, Contract!Init, Contract!Starts, SentCalls, ShownCalls

\* RunScript over WinRM keeps the Runner contract with two starts and a text
\* that may be lost: a script is handed over once, while its call holds one of
\* MaxShells slots, what a call that was turned away had to run never runs, and
\* a call that returns an exit status returns that of a start of the staged file
\* that ran to its end (runScriptOnClient, Post's retry).  That what was started
\* is the script, and once, is not part of it.
THEOREM ImplementsRunner == Spec => KeepsContract
<1>1. Init => Inv /\ RunInv
  BY InvInit, RunInit
<1>2. Inv /\ RunInv /\ [Next]_vars => (Inv /\ RunInv)'
  BY InvStep, RunStep
<1> QED BY <1>1, <1>2, ContractInit, ContractStep, PTL
        DEF Spec, KeepsContract, Contract!Spec

=============================================================================
