------------------------ MODULE ImageContractProofs -------------------------
(***************************************************************************)
(* The proof that ImageStore implements DestinationFile when no script     *)
(* outlives its call and the path is written in one way, for any number of *)
(* operations of each kind.                                                *)
(*                                                                         *)
(* Told(o) is what is known of the destination at each step of operation   *)
(* o.  It survives the steps of the others because they have no turn while *)
(* o has (OthersTold).                                                     *)
(***************************************************************************)
EXTENDS ImageStoreProofs

\* No fetch that decompresses has an expected hash: it would be compared with
\* the file at the destination before the fetch, and with the archive after.
Unsummed == \A o \in Compressed : want[o] = NoHash

Alone == ~ScriptsOutliveCalls /\ OneSpelling

\* The images that operation o may put in place.
Asked(o) == Contract!Images(o)

Expected(o) ==
    /\ o \in Uploads => want[o] # NoHash
    /\ o \in Uploads \cup Downloads => expect[o] = want[o]
    /\ o \in Copies /\ script[o] \in {"none", "start", "copy"} => expect[o] = want[o]
    /\ o \in Copies /\ script[o] = "verify" => expect[o] \in Asked(o)
    /\ o \in Fetches /\ caller[o] \in {"stage", "submit", "running"} =>
         expect[o] \in Asked(o)

Staged(o) ==
    /\ script[o] \in {"enumerate", "move", "rename", "pivot"} => part[o] \in Asked(o)
    /\ script[o] \in {"retarget", "overwrite", "overwriting"} => pivot[o] \in Asked(o)

Concluded(o) ==
    /\ script[o] \in {"delete", "retry"} => want[o] \in {NoHash, dest}
    /\ script[o] \in {"restore", "unpivot", "clean"} =>
         outcome[o] \in {"ok", "failed", "mismatch"}
    /\ script[o] \in {"restore", "unpivot", "clean"} /\ outcome[o] = "ok" =>
         dest \in Asked(o)
    /\ script[o] = "readback" => dest \in Asked(o)

\* What the outcome of a script that is over, and has not been returned yet,
\* says of the file.
Truth(o) ==
    /\ outcome[o] # "none"
    /\ outcome[o] = "ok" => IF o \in Removes THEN dest = Absent
                            ELSE dest \in Asked(o) /\ seen[o] = dest
    /\ outcome[o] = "missing" /\ o \in Removes => dest = Absent
    /\ outcome[o] = "drift" => o \in Removes /\ dest \notin {want[o], Absent}

Told(o) ==
    /\ Expected(o)
    /\ Staged(o)
    /\ Concluded(o)
    /\ script[o] = "over" /\ caller[o] = "running" => Truth(o)

ToldInv == \A o \in Ops : Told(o)

Inv ==
    /\ TypeOK
    /\ FileInv
    /\ StagingSafe
    /\ LockInv
    /\ Unsummed
    /\ ToldInv

LEMMA AskedWhole ==
    ASSUME TypeOK, Unsummed, NEW o \in Placers
    PROVE  /\ Asked(o) \subseteq Contents
           /\ want[o] = NoHash => Asked(o) = Contents
           /\ want[o] # NoHash => Asked(o) = {want[o]}
<1>1. want[o] \in Contents \cup {NoHash}
  BY DEF TypeOK, Ops, Hashes
<1>2. o \in Compressed => want[o] = NoHash
  BY DEF Unsummed
<1> QED BY <1>1, <1>2, ContentsAssumption DEF Asked, Contract!Images

-----------------------------------------------------------------------------
(* The invariant *)

LEMMA ToldInit == Init => ToldInv
  BY OpsAssumption DEF Init, ToldInv, Told, Expected, Staged, Concluded, Placers, Ops

\* What the steps of one operation leave of another one.
Same(q) ==
    /\ caller'[q] = caller[q] /\ expect'[q] = expect[q] /\ script'[q] = script[q]
    /\ outcome'[q] = outcome[q] /\ seen'[q] = seen[q]
    /\ part'[q] = part[q] /\ pivot'[q] = pivot[q]

LEMMA SameTold ==
    ASSUME NEW q \in Ops, Told(q), Same(q), UNCHANGED <<want, dest>>
    PROVE  Told(q)'
  BY DEF Told, Expected, Staged, Concluded, Truth, Same, Asked, Contract!Images

\* While o has the lock, no other operation has its turn.
LEMMA OthersTold ==
    ASSUME Inv, Alone, NEW o \in Ops, caller[o] \in HoldingSteps,
           NEW q \in Ops, q # o, Same(q), UNCHANGED want
    PROVE  Told(q)'
<1>1. caller[q] \notin HoldingSteps
  BY DEF Inv, LockInv, HoldersHold, Alone, OneSpelling, TypeOK
<1>2. caller[q] \in {"idle", "done"} /\ script[q] \in {"none", "over"}
  BY <1>1 DEF Inv, LockInv, ScriptUnderCall, Alone, HoldingSteps, TypeOK
<1>3. Told(q)
  BY DEF Inv, ToldInv
<1> QED BY <1>2, <1>3
        DEF Told, Expected, Staged, Concluded, Same, Asked, Contract!Images

LEMMA CallTold ==
    ASSUME Inv, Alone, NEW o \in Ops, CallStep(o)
    PROVE  ToldInv'
<1>1. UNCHANGED <<want, dest>> /\ \A q \in Ops \ {o} : Same(q)
  BY DEF CallStep, Lock, Skip, NoSkip, Fetch, Stage, StageFails, Submit, GiveUp, Return,
         Lose, CallTo, Done, Same, request, staging, Inv, TypeOK
<1>2. \A q \in Ops \ {o} : Told(q)'
  BY <1>1, SameTold DEF Inv, ToldInv
<1>3. NoSkip(o) => UNCHANGED <<expect, script, outcome, seen, part, pivot>>
  BY DEF NoSkip, staging
<1>4. Told(o)'
  <2> USE DEF Inv, ToldInv, Told, Expected, Staged, Concluded, TypeOK, CallTo, Done,
              request, staging, Asked, Contract!Images
  <2>1. CASE Lock(o)
    <3>1. script'[o] = "none" /\ script[o] = "none"
      BY <2>1 DEF Lock, FileInv, ScriptAfterSubmit
    <3>2. o \in Fetches => caller'[o] = "skip"
      BY <2>1, OpsAssumption DEF Lock, Placers
    <3>3. UNCHANGED <<want, expect, outcome, seen, part, pivot, dest>>
      BY <2>1 DEF Lock
    <3> QED BY <3>1, <3>2, <3>3
  <2>2. CASE Skip(o)
    BY <2>2 DEF Skip
  <2>3. CASE NoSkip(o)
    <3>1. script'[o] = "none" /\ script[o] = "none"
      BY <2>3 DEF NoSkip, FileInv, ScriptAfterSubmit
    <3>2. o \in Fetches => caller'[o] = "fetch"
      BY <2>3, OpsAssumption DEF NoSkip
    <3> QED BY <1>1, <1>3, <2>3, <3>1, <3>2
  <2>4. ASSUME NEW c \in Contents, Fetch(o, c) PROVE Told(o)'
    <3>1. script'[o] = "none" /\ script[o] = "none"
      BY <2>4 DEF Fetch, FileInv, ScriptAfterSubmit
    <3>2. o \in Fetches /\ o \notin Uploads \cup Downloads \cup Copies
      BY <2>4, OpsAssumption DEF Fetch, StagingSafe, StagingInv
    <3>3. CASE want[o] \in {NoHash, c}
      <4>1. expect'[o] = Image(o, c)
        BY <2>4, <3>3 DEF Fetch
      <4>2. Image(o, c) \in Contract!Images(o)
        BY <2>4, <3>3, ContentsAssumption DEF Image
      <4> QED BY <2>4, <3>1, <3>2, <4>1, <4>2 DEF Fetch
    <3>4. CASE want[o] \notin {NoHash, c}
      BY <2>4, <3>1, <3>2, <3>4 DEF Fetch
    <3> QED BY <3>3, <3>4
  <2>5. ASSUME NEW f \in Files, Stage(o, f) PROVE Told(o)'
    <3>1. script'[o] = "none" /\ script[o] = "none"
      BY <2>5 DEF Stage, FileInv, ScriptAfterSubmit
    <3> QED BY <2>5, <3>1 DEF Stage
  <2>6. CASE StageFails(o)
    <3>1. script'[o] = "none" /\ script[o] = "none"
      BY <2>6 DEF StageFails, FileInv, ScriptAfterSubmit
    <3> QED BY <2>6, <3>1 DEF StageFails
  <2>7. CASE Submit(o)
    <3>1. script'[o] = "start" /\ script[o] = "none"
      BY <2>7 DEF Submit, FileInv, ScriptAfterSubmit
    <3> QED BY <2>7, <3>1 DEF Submit
  <2>8. CASE GiveUp(o)
    BY <2>8 DEF GiveUp
  <2>9. CASE Return(o)
    BY <2>9 DEF Return
  <2>10. CASE Lose(o)
    BY <2>10 DEF Lose
  <2> QED BY <2>1, <2>2, <2>3, <2>4, <2>5, <2>6, <2>7, <2>8, <2>9, <2>10 DEF CallStep
<1> QED BY <1>2, <1>4 DEF ToldInv

\* A step of a script is one of an operation that has its turn.
LEMMA HostFrame ==
    ASSUME Inv, Alone, NEW o \in Ops, HostStep(o)
    PROVE  /\ caller[o] = "running"
           /\ UNCHANGED <<lock, caller, result, spelling, want>>
           /\ \A q \in Ops \ {o} : Same(q)
<1>1. script[o] \notin {"none", "over"}
  BY DEF HostStep, PlaceStep, SwapStep, RemoveStep,
         Start, Download, DownloadFails, Copy, CopyFails, Verify, Move,
         MoveDeletes, Rename, MoveFails, Clean, Readback, Enumerate,
         EnumerateFails, MovePivot, MovePivotFails, Retarget, Overwrite,
         OverwriteDone, SwapFails, Restore, Unpivot, Check, Delete,
         DeleteMissing, DeleteLocked, DeleteFails
<1>2. UNCHANGED <<lock, caller, result, spelling, want>>
  BY DEF HostStep, PlaceStep, SwapStep, RemoveStep, PutInPlace,
         Start, Download, DownloadFails, Copy, CopyFails, Verify, Move,
         MoveDeletes, Rename, MoveFails, Clean, Readback, Enumerate,
         EnumerateFails, MovePivot, MovePivotFails, Retarget, Overwrite,
         OverwriteDone, SwapFails, Restore, Unpivot, Check, Delete,
         DeleteMissing, DeleteLocked, DeleteFails, go, request
<1> USE DEF Inv, TypeOK, ScriptTo, Conclude, Same, go, staging
<1>3. PlaceStep(o) => \A q \in Ops \ {o} : Same(q)
  BY DEF PlaceStep, PutInPlace, Start, Download, DownloadFails, Copy, CopyFails,
         Verify, Move, MoveDeletes, Rename, MoveFails, Clean, Readback
<1>4. SwapStep(o) => \A q \in Ops \ {o} : Same(q)
  BY DEF SwapStep, Enumerate, EnumerateFails, MovePivot, MovePivotFails, Retarget,
         Overwrite, OverwriteDone, SwapFails, Restore, Unpivot
<1>5. RemoveStep(o) => \A q \in Ops \ {o} : Same(q)
  BY DEF RemoveStep, Check, Delete, DeleteMissing, DeleteLocked, DeleteFails
<1> QED BY <1>1, <1>2, <1>3, <1>4, <1>5
        DEF HostStep, LockInv, ScriptUnderCall, Alone

LEMMA HostTold ==
    ASSUME Inv, Alone, NEW o \in Ops, HostStep(o), Told(o)'
    PROVE  ToldInv'
  BY HostFrame, OthersTold DEF ToldInv, HoldingSteps, CallerSteps

LEMMA PlaceTold ==
    ASSUME Inv, Alone, NEW o \in Ops, PlaceStep(o)
    PROVE  ToldInv'
<1>1. caller[o] = "running" /\ caller'[o] = "running" /\ want' = want
  BY HostFrame DEF HostStep
<1>2. /\ script[o] = "copy" => o \in Copies
      /\ o \in Copies => o \notin Uploads \cup Fetches \cup Downloads
  BY OpsAssumption DEF Inv, StagingSafe, StagingInv
<1>3. o \in Placers =>
        /\ Asked(o) \subseteq Contents
        /\ want[o] = NoHash => Asked(o) = Contents
        /\ want[o] # NoHash => Asked(o) = {want[o]}
        /\ Asked(o)' = Asked(o)
  BY <1>1, AskedWhole DEF Inv, Asked, Contract!Images
<1>4. Expected(o) /\ Staged(o) /\ Concluded(o)
  BY DEF Inv, ToldInv, Told
<1>5. Start(o) \/ (o \in Placers /\ o \notin Removes)
  <2>1. \/ Start(o)
        \/ script[o] \in {"download", "copy", "verify", "move", "rename", "clean", "readback"}
    BY DEF PlaceStep, Download, DownloadFails, Copy, CopyFails, Verify, Move,
           MoveDeletes, Rename, MoveFails, Clean, Readback
  <2>2. CASE Start(o)
    BY <2>2
  <2>3. CASE script[o] \in {"download", "copy", "verify", "move", "rename", "clean", "readback"}
    BY <2>3 DEF Inv, TypeOK, RemoveSteps, Ops
  <2> QED BY <2>1, <2>2, <2>3
<1>6. Uploads \cup Fetches \cup Downloads \cup Copies = Placers
  BY DEF Placers
<1>7. Told(o)'
  <2> HIDE DEF Asked
  <2> USE <1>1, <1>2, <1>3, <1>4, <1>5, <1>6
      DEF Told, Expected, Staged, Concluded, Truth, ScriptTo, Conclude,
          request, staging
  <2> USE DEF Inv, TypeOK
  <2>1. CASE Start(o)
    <3>1. /\ UNCHANGED <<expect, seen, part, pivot, dest>>
          /\ \/ script'[o] = "over" /\ outcome'[o] = "unread"
             \/ /\ script'[o] \in {"download", "copy", "check", "verify"}
                /\ script'[o] = "copy" => o \in Copies
                /\ script'[o] = "verify" => o \notin Copies
                /\ outcome' = outcome
      BY <2>1, OpsAssumption DEF Start
    <3> QED BY <2>1, <3>1 DEF Start
  <2>2. ASSUME NEW c \in Contents, Download(o, c) PROVE Told(o)'
    <3>1. o \notin Copies
      BY <2>2, OpsAssumption DEF Download, StagingSafe, StagingInv
    <3> QED BY <2>2, <3>1 DEF Download, Start
  <2>3. CASE DownloadFails(o)
    BY <2>3 DEF DownloadFails, Start
  <2>4. ASSUME NEW h \in Contents, NEW c \in Contents, Copy(o, h, c) PROVE Told(o)'
    <3>1. o \in Copies /\ o \in Placers
      BY <2>4 DEF Copy
    <3>2. expect'[o] = IF want[o] = NoHash THEN h ELSE want[o]
      BY <2>4, <3>1 DEF Copy
    <3>3. expect'[o] \in Asked(o)
      BY <3>1, <3>2
    <3> QED BY <2>4, <3>1, <3>3 DEF Copy
  <2>5. CASE CopyFails(o)
    BY <2>5 DEF CopyFails, Placers
  <2>6. CASE Verify(o)
    <3>1. o \in Placers
      BY <2>6 DEF Verify, Start
    <3>2. CASE Verified(o)
      <4>1. part[o] \in Asked(o)
        BY <2>6, <3>1, <3>2, ContentsAssumption
           DEF Verify, Verified, FileInv, StagedIsWhole, Placers, Files
      <4>2. /\ UNCHANGED <<expect, outcome, seen, part, pivot, dest>>
            /\ script'[o] \in {"enumerate", "move"}
        BY <2>6, <3>2 DEF Verify
      <4> QED BY <3>1, <4>1, <4>2
    <3>3. CASE ~Verified(o)
      BY <2>6, <3>1, <3>3 DEF Verify
    <3> QED BY <3>2, <3>3
  <2>7. CASE Move(o) \/ Rename(o)
    BY <2>7 DEF Move, Rename, PutInPlace, Start
  <2>8. CASE MoveDeletes(o)
    BY <2>8 DEF MoveDeletes, Start
  <2>9. CASE MoveFails(o)
    <3>1. /\ UNCHANGED <<expect, seen, part, pivot, dest>>
          /\ script'[o] = "clean"
          /\ outcome'[o] \in {"ok", "failed"}
          /\ outcome'[o] = "ok" => dest = part[o]
      BY <2>9 DEF MoveFails
    <3> QED BY <2>9, <3>1 DEF MoveFails, Start
  <2>10. CASE Clean(o)
    BY <2>10 DEF Clean, Start
  <2>11. CASE Readback(o)
    <3>1. o \in Placers
      BY <2>11 DEF Readback, Start
    <3>2. dest # Absent
      BY <2>11, <3>1, ContentsAssumption DEF Readback
    <3>3. /\ UNCHANGED <<expect, part, pivot, dest>>
          /\ script'[o] = "over" /\ outcome'[o] = "ok" /\ seen'[o] = dest
      BY <2>11, <3>2 DEF Readback
    <3> QED BY <2>11, <3>1, <3>3, OpsAssumption DEF Readback
  <2> QED BY <2>1, <2>2, <2>3, <2>4, <2>5, <2>6, <2>7, <2>8, <2>9, <2>10, <2>11
          DEF PlaceStep
<1> QED BY <1>7, HostTold DEF HostStep

LEMMA SwapTold ==
    ASSUME Inv, Alone, NEW o \in Ops, SwapStep(o)
    PROVE  ToldInv'
<1>1. caller[o] = "running" /\ caller'[o] = "running" /\ want' = want
  BY HostFrame DEF HostStep
<1>2. Asked(o)' = Asked(o)
  BY <1>1 DEF Asked, Contract!Images
<1>3. Expected(o) /\ Staged(o) /\ Concluded(o)
  BY DEF Inv, ToldInv, Told
<1>4. Told(o)'
  <2> HIDE DEF Asked
  <2> USE <1>1, <1>2, <1>3
      DEF Told, Expected, Staged, Concluded, ScriptTo, Conclude,
          request, staging, Inv, TypeOK
  <2>1. CASE Enumerate(o)
    BY <2>1 DEF Enumerate
  <2>2. CASE EnumerateFails(o)
    BY <2>2 DEF EnumerateFails
  <2>3. CASE MovePivot(o)
    BY <2>3 DEF MovePivot
  <2>4. CASE MovePivotFails(o)
    BY <2>4 DEF MovePivotFails
  <2>5. CASE Retarget(o)
    BY <2>5 DEF Retarget
  <2>6. CASE Overwrite(o)
    BY <2>6 DEF Overwrite
  <2>7. CASE OverwriteDone(o)
    BY <2>7 DEF OverwriteDone
  <2>8. CASE SwapFails(o)
    BY <2>8 DEF SwapFails
  <2>9. CASE Restore(o)
    BY <2>9 DEF Restore
  <2>10. CASE Unpivot(o)
    BY <2>10 DEF Unpivot
  <2> QED BY <2>1, <2>2, <2>3, <2>4, <2>5, <2>6, <2>7, <2>8, <2>9, <2>10 DEF SwapStep
<1> QED BY <1>4, HostTold DEF HostStep

LEMMA RemoveTold ==
    ASSUME Inv, Alone, NEW o \in Ops, RemoveStep(o)
    PROVE  ToldInv'
<1>1. caller[o] = "running" /\ caller'[o] = "running" /\ want' = want
  BY HostFrame DEF HostStep
<1>2. o \in Removes /\ o \notin Placers
  BY OpsAssumption
     DEF Inv, TypeOK, Ops, RemoveStep, Check, Delete, DeleteMissing, DeleteLocked,
         DeleteFails, RemoveSteps
<1>3. Concluded(o)
  BY DEF Inv, ToldInv, Told
<1>4. Told(o)'
  <2> USE <1>1, <1>2, <1>3
      DEF Told, Expected, Staged, Concluded, Truth, ScriptTo, Conclude, Placers,
          request, staging, Inv, TypeOK
  <2>1. CASE Check(o)
    BY <2>1 DEF Check
  <2>2. CASE Delete(o)
    BY <2>2 DEF Delete
  <2>3. CASE DeleteMissing(o)
    BY <2>3 DEF DeleteMissing
  <2>4. CASE DeleteLocked(o)
    BY <2>4 DEF DeleteLocked
  <2>5. CASE DeleteFails(o)
    BY <2>5 DEF DeleteFails
  <2> QED BY <2>1, <2>2, <2>3, <2>4, <2>5 DEF RemoveStep
<1> QED BY <1>4, HostTold DEF HostStep

LEMMA InvInit == Init /\ Unsummed => Inv
  BY TypeInit, FileInit, StagingInit, LockInit, ToldInit DEF Inv

LEMMA InvStep == Alone /\ Inv /\ [Next]_vars => Inv'
<1> SUFFICES ASSUME Alone, Inv, [Next]_vars PROVE Inv'
  OBVIOUS
<1>1. ScriptAfterSubmit
  BY DEF Inv, FileInv
<1>2. TypeOK' /\ FileInv' /\ StagingSafe' /\ LockInv'
  BY <1>1, TypeStep, FileStep, StagingStep, LockStep DEF Inv
<1>3. ASSUME NEW o \in Ops, HostStep(o) PROVE ToldInv' /\ UNCHANGED want
  BY <1>3, HostFrame, PlaceTold, SwapTold, RemoveTold DEF HostStep
<1>4. ASSUME NEW o \in Ops, CallStep(o) PROVE ToldInv' /\ UNCHANGED want
  <2>1. UNCHANGED want
    BY <1>4 DEF CallStep, Lock, Skip, NoSkip, Fetch, Stage, StageFails, Submit, GiveUp,
                Return, Lose, request
  <2> QED BY <1>4, <2>1, CallTold
<1>5. ASSUME VmStep \/ UNCHANGED vars PROVE ToldInv' /\ UNCHANGED want
  <2>1. UNCHANGED <<want, dest>> /\ \A q \in Ops : Same(q)
    BY <1>5 DEF VmStep, Mount, Eject, PowerOn, PowerOff, vars, go, request, staging, Same
  <2> QED BY <2>1, SameTold DEF Inv, ToldInv
<1>6. ToldInv' /\ UNCHANGED want
  BY <1>3, <1>4, <1>5 DEF Next
<1> QED BY <1>2, <1>6 DEF Inv, Unsummed

-----------------------------------------------------------------------------
(* The steps of DestinationFile *)

LEMMA TurnOf ==
    ASSUME TypeOK, LockInv, OneSpelling, NEW o \in Ops, caller[o] \in HoldingSteps
    PROVE  Turn = o
<1>1. spelling[o] \in Spellings /\ lock[spelling[o]] = o /\ o # Nobody
  BY OpsAssumption DEF TypeOK, LockInv, HoldersHold
<1>2. \A q \in Ops : (\E s \in Spellings : lock[s] = q) <=> q = o
  BY <1>1 DEF OneSpelling
<1> QED BY <1>1, <1>2 DEF Turn

LEMMA NoTurn ==
    ASSUME \A s \in Spellings : lock[s] = Nobody
    PROVE  Turn = Nobody
  BY DEF Turn

Answers == [o \in Ops |-> Answer(o)]

\* The call returns r: the operation has answered.
LEMMA CallEnds ==
    ASSUME Inv, Alone, NEW o \in Ops, NEW r \in Outcomes \ {"none"}, Done(o, r),
           caller[o] \in HoldingSteps, UNCHANGED <<want, dest>>,
           seen' \in {seen, [seen EXCEPT ![o] = dest]},
           r \in {"ok", "missing", "drift"} => Contract!Truthful(o, r)
    PROVE  Contract!Next
<1>1. Turn = o
  BY TurnOf DEF Inv, Alone
<1>2. Turn' = Nobody
  <2>1. \A s \in Spellings : lock'[s] = Nobody
    BY DEF Done, Inv, TypeOK, Alone, OneSpelling
  <2> QED BY <2>1 DEF Turn
<1> DEFINE a == IF r \in {"ok", "missing", "drift"} THEN r ELSE "error"
<1>3. Answers' = [Answers EXCEPT ![o] = a]
  <2>1. Answer(o)' = a
    BY DEF Done, CallTo, Answer, Inv, TypeOK
  <2>2. \A q \in Ops \ {o} : Answer(q)' = Answer(q)
    BY DEF Done, CallTo, Answer, Inv, TypeOK
  <2> QED BY <2>1, <2>2 DEF Answers
<1>4. Contract!Truthful(o, a)
  BY DEF Contract!Truthful
<1>5. a \in {"ok", "missing", "drift", "error"}
  OBVIOUS
<1> HIDE DEF a
<1>6. Contract!End(o, a)
  BY <1>1, <1>2, <1>3, <1>4 DEF Contract!End, Answers
<1> QED BY <1>5, <1>6 DEF Contract!Next, Contract!Ops, Ops

LEMMA CallContract ==
    ASSUME Inv, Alone, NEW o \in Ops, CallStep(o), LockInv', TypeOK'
    PROVE  [Contract!Next]_(Contract!vars)
<1> USE DEF HoldingSteps, CallerSteps
<1>1. UNCHANGED <<want, dest>>
  BY DEF CallStep, Lock, Skip, NoSkip, Fetch, Stage, StageFails, Submit, GiveUp, Return,
         Lose, request
<1>2. CASE Lock(o)
  <2>1. Turn = Nobody
    <3>1. \A s \in Spellings : lock[s] = Nobody
      BY <1>2 DEF Lock, Alone, OneSpelling, Inv, TypeOK
    <3> QED BY <3>1, NoTurn
  <2>2. Turn' = o
    <3>1. caller'[o] \in HoldingSteps
      BY <1>2 DEF Lock, CallTo, Inv, TypeOK
    <3>2. spelling'[o] \in Spellings /\ lock'[spelling'[o]] = o /\ o # Nobody
      BY <3>1, OpsAssumption DEF TypeOK, LockInv, HoldersHold
    <3>3. \A q \in Ops : (\E s \in Spellings : lock'[s] = q) <=> q = o
      BY <3>2 DEF Alone, OneSpelling
    <3> QED BY <3>2, <3>3 DEF Turn
  <2>3. Answers' = Answers /\ Answer(o) = "none"
    <3>1. \A q \in Ops : Answer(q)' = Answer(q)
      BY <1>2 DEF Lock, CallTo, Answer, Inv, TypeOK
    <3> QED BY <1>2, <3>1 DEF Answers, Answer, Lock
  <2>4. Contract!Begin(o)
    BY <1>1, <1>2, <2>1, <2>2, <2>3 DEF Contract!Begin, Answers, Lock
  <2> QED BY <2>4 DEF Contract!Next, Contract!Ops, Ops
<1>3. CASE /\ \E step \in {"fetch", "stage", "submit", "running"} : CallTo(o, step)
           /\ caller[o] \in HoldingSteps
           /\ UNCHANGED <<result, seen>>
  <2>1. \A q \in Ops : Answer(q)' = Answer(q)
    BY <1>3 DEF CallTo, Answer, Inv, TypeOK
  <2>2. Turn = o
    BY <1>3, TurnOf DEF Inv, Alone
  <2>3. Turn' = o
    <3>1. caller'[o] \in HoldingSteps
      BY <1>3 DEF CallTo, Inv, TypeOK
    <3>2. spelling'[o] \in Spellings /\ lock'[spelling'[o]] = o /\ o # Nobody
      BY <3>1, OpsAssumption DEF TypeOK, LockInv, HoldersHold
    <3>3. \A q \in Ops : (\E s \in Spellings : lock'[s] = q) <=> q = o
      BY <3>2 DEF Alone, OneSpelling
    <3> QED BY <3>2, <3>3 DEF Turn
  <2> QED BY <1>1, <1>3, <2>1, <2>2, <2>3 DEF Contract!vars
<1>4. CASE NoSkip(o)
  BY <1>3, <1>4 DEF NoSkip
<1>5. CASE \E f \in Files : Stage(o, f)
  BY <1>3, <1>5 DEF Stage
<1>6. CASE Submit(o)
  BY <1>3, <1>6 DEF Submit
<1>7. CASE StageFails(o) \/ GiveUp(o)
  BY <1>1, <1>7, CallEnds DEF StageFails, GiveUp, Outcomes
<1>8. ASSUME NEW c \in Contents, Fetch(o, c) PROVE [Contract!Next]_(Contract!vars)
  <2>1. CASE want[o] \in {NoHash, c}
    BY <1>3, <1>8, <2>1 DEF Fetch
  <2>2. CASE want[o] \notin {NoHash, c}
    BY <1>1, <1>8, <2>2, CallEnds DEF Fetch, Outcomes
  <2> QED BY <2>1, <2>2
<1>9. CASE Skip(o)
  <2>1. o \in Placers
    BY <1>9 DEF Skip, Inv, TypeOK, Ops
  <2>2. seen' = [seen EXCEPT ![o] = dest] /\ seen'[o] = dest
    BY <1>9 DEF Skip, Inv, TypeOK
  <2>3. dest \in Contract!Images(o)
    BY <1>9, <2>1, AskedWhole DEF Skip, Inv, Asked
  <2>4. Contract!Truthful(o, "ok")
    BY <2>1, <2>2, <2>3 DEF Contract!Truthful
  <2> QED BY <1>1, <1>9, <2>2, <2>4, CallEnds DEF Skip, Outcomes
<1>10. CASE Return(o)
  <2>1. Truth(o)
    BY <1>10 DEF Return, Inv, ToldInv, Told
  <2>2. outcome[o] \in Outcomes \ {"none"}
    BY <2>1 DEF Truth, Inv, TypeOK
  <2>3. outcome[o] \in {"ok", "missing", "drift"} => Contract!Truthful(o, outcome[o])
    BY <1>10, <2>1 DEF Return, Truth, Asked, Contract!Truthful, Ops
  <2> QED BY <1>1, <1>10, <2>2, <2>3, CallEnds DEF Return
<1> QED BY <1>2, <1>4, <1>5, <1>6, <1>7, <1>8, <1>9, <1>10 DEF CallStep, Lose, Alone

LEMMA HostContract ==
    ASSUME Inv, Alone, NEW o \in Ops, HostStep(o)
    PROVE  [Contract!Next]_(Contract!vars)
<1>1. caller[o] = "running" /\ UNCHANGED <<lock, caller, result, spelling, want>>
  BY HostFrame
<1>2. Turn = o
  BY <1>1, TurnOf DEF Inv, Alone, HoldingSteps, CallerSteps
<1>3. Turn' = Turn /\ Answers' = Answers
  BY <1>1 DEF Turn, Answers, Answer
<1>4. CASE UNCHANGED <<dest, seen>>
  BY <1>1, <1>3, <1>4 DEF Contract!vars, Answers
<1>5. ASSUME o \in Placers, UNCHANGED seen,
             dest' \in Asked(o) \cup {Absent} \cup (IF o \in SafeReplacers THEN {Torn} ELSE {})
      PROVE  Contract!Next
  <2>1. Contract!Place(o)
    BY <1>1, <1>2, <1>3, <1>5 DEF Contract!Place, Answers, Asked
  <2> QED BY <2>1 DEF Contract!Next, Contract!Ops, Ops
<1>6. Staged(o) /\ Concluded(o)
  BY DEF Inv, ToldInv, Told
<1>7. script[o] \in {"move", "rename", "overwrite", "overwriting", "readback"} => o \in Placers
  BY DEF Inv, TypeOK, Ops, RemoveSteps
<1>8. CASE PlaceStep(o)
  <2>1. CASE Move(o) \/ Rename(o)
    BY <1>5, <1>6, <1>7, <2>1 DEF Move, Rename, PutInPlace, Staged
  <2>2. CASE MoveDeletes(o)
    BY <1>5, <1>7, <2>2 DEF MoveDeletes
  <2>3. CASE Readback(o)
    <3>1. Contract!Report(o)
      BY <1>1, <1>2, <1>3, <2>3 DEF Readback, Contract!Report, Answers
    <3> QED BY <3>1 DEF Contract!Next, Contract!Ops, Ops
  <2>4. CASE ~(Move(o) \/ Rename(o) \/ MoveDeletes(o) \/ Readback(o))
    BY <1>4, <1>8, <2>4
       DEF PlaceStep, Start, Download, DownloadFails, Copy, CopyFails, Verify,
           MoveFails, Clean
  <2> QED BY <2>1, <2>2, <2>3, <2>4
<1>9. CASE SwapStep(o)
  <2>1. CASE Overwrite(o)
    BY <1>5, <1>7, <2>1 DEF Overwrite, Inv, FileInv, OnlySafeReplacersSwap
  <2>2. CASE OverwriteDone(o)
    BY <1>5, <1>6, <1>7, <2>2 DEF OverwriteDone, Staged
  <2>3. CASE ~(Overwrite(o) \/ OverwriteDone(o))
    BY <1>4, <1>9, <2>3
       DEF SwapStep, Enumerate, EnumerateFails, MovePivot, MovePivotFails, Retarget,
           SwapFails, Restore, Unpivot
  <2> QED BY <2>1, <2>2, <2>3
<1>10. CASE RemoveStep(o)
  <2>1. CASE Delete(o)
    <3>1. o \in Removes
      BY <2>1 DEF Delete, Inv, TypeOK, Ops, RemoveSteps
    <3>2. Contract!Remove(o)
      BY <1>1, <1>2, <1>3, <1>6, <2>1, <3>1 DEF Delete, Concluded, Contract!Remove, Answers
    <3> QED BY <3>1, <3>2 DEF Contract!Next, Contract!Ops
  <2>2. CASE ~Delete(o)
    BY <1>4, <1>10, <2>2
       DEF RemoveStep, Check, DeleteMissing, DeleteLocked, DeleteFails
  <2> QED BY <2>1, <2>2
<1> QED BY <1>8, <1>9, <1>10 DEF HostStep

LEMMA ContractStep == Alone /\ Inv /\ [Next]_vars => [Contract!Next]_(Contract!vars)
<1> SUFFICES ASSUME Alone, Inv, [Next]_vars
             PROVE  [Contract!Next]_(Contract!vars)
  OBVIOUS
<1>1. LockInv' /\ TypeOK'
  BY InvStep DEF Inv
<1>2. CASE VmStep \/ UNCHANGED vars
  <2>1. UNCHANGED <<lock, caller, result, want, dest, seen>>
    BY <1>2 DEF VmStep, Mount, Eject, PowerOn, PowerOff, vars, go, request
  <2>2. Turn' = Turn /\ Answers' = Answers
    BY <2>1 DEF Turn, Answers, Answer
  <2> QED BY <2>1, <2>2 DEF Contract!vars, Answers
<1>3. ASSUME NEW o \in Ops, CallStep(o) PROVE [Contract!Next]_(Contract!vars)
  BY <1>1, <1>3, CallContract
<1>4. ASSUME NEW o \in Ops, HostStep(o) PROVE [Contract!Next]_(Contract!vars)
  BY <1>4, HostContract
<1> QED BY <1>2, <1>3, <1>4 DEF Next

LEMMA ContractInit == Init => Contract!Init
<1> SUFFICES ASSUME Init PROVE Contract!Init
  OBVIOUS
<1>1. Turn = Nobody
  BY NoTurn DEF Init
<1>2. [o \in Ops |-> Answer(o)] = [o \in Ops |-> "none"]
  BY DEF Init, Answer
<1> QED BY <1>1, <1>2 DEF Init, Contract!Init, Contract!Ops, Ops, Hashes

\* When no script outlives its call, all paths are written alike, and a fetch
\* that decompresses has no expected hash, placing and removing are operations
\* on one file, one after the other, whose answers are true: a placement that
\* succeeded put the image in place that was asked for, and a removal took only
\* a file with the expected hash (lockDestinationPath, new.ps1, remove.ps1).
THEOREM ImplementsDestinationFile ==
    ASSUME Alone PROVE Spec /\ Unsummed => KeepsContract
<1>1. Inv /\ [Next]_vars => Inv'
  BY InvStep
<1>2. Inv /\ [Next]_vars => [Contract!Next]_(Contract!vars)
  BY ContractStep
<1> QED BY <1>1, <1>2, InvInit, ContractInit, PTL DEF Spec, KeepsContract, Contract!Spec

=============================================================================
