-------------------------- MODULE ImageStoreProofs --------------------------
(***************************************************************************)
(* Proofs about ImageStore, for any number of operations of each kind.     *)
(*                                                                         *)
(* FileInv is the inductive strengthening of WholeImages: what the script  *)
(* has staged, or moved to its pivot, is a whole image at every step that  *)
(* may put it at the destination, and a script that failed has concluded.  *)
(* StagingInv ties each staging file to the steps that make and clear it.  *)
(***************************************************************************)
EXTENDS ImageStore, FiniteSetTheorems, TLAPS

\* A verified staging file is a whole image until it is moved away.
StagedIsWhole ==
    \A o \in Ops :
        /\ script[o] \in {"enumerate", "move", "rename", "pivot"} => part[o] \in Contents
        /\ script[o] = "verify" /\ o \in Downloads => part[o] \in Contents

PivotIsWhole ==
    \A o \in Ops :
        script[o] \in {"retarget", "overwrite", "overwriting"} => pivot[o] \in Contents

OnlySafeReplacersSwap ==
    \A o \in Ops :
        script[o] \in {"enumerate", "pivot", "retarget", "overwrite",
                       "overwriting", "restore", "unpivot"} => o \in SafeReplacers

\* A script starts when its call submits it.
ScriptAfterSubmit ==
    \A o \in Ops :
        caller[o] \in {"idle", "skip", "fetch", "stage", "submit"} => script[o] = "none"

\* A script concludes once, or once more when it reads back what it placed.
Undecided ==
    \A o \in Ops :
        /\ script[o] \notin {"restore", "unpivot", "clean", "readback", "over"} =>
               outcome[o] = "none"
        /\ script[o] = "readback" => outcome[o] = "ok"

FileInv ==
    /\ ScriptAfterSubmit
    /\ StagedIsWhole
    /\ PivotIsWhole
    /\ OnlySafeReplacersSwap
    /\ WholeImages
    /\ Undecided

-----------------------------------------------------------------------------
(* Types *)

LEMMA TypeInit == Init => TypeOK
<1> SUFFICES ASSUME Init PROVE TypeOK
  OBVIOUS
<1> USE OpsAssumption, ContentsAssumption
    DEF Init, Outcomes, CallerSteps, ScriptSteps, Files, Hashes, RemoveSteps
<1>1. slot \in {"none", "dest"} \cup Ops
  OBVIOUS
<1>2. /\ lock \in [Spellings -> Ops \cup {Nobody}]
      /\ part \in [Ops -> Files] /\ pivot \in [Ops -> Files] /\ seen \in [Ops -> Files]
      /\ caller \in [Ops -> CallerSteps] /\ script \in [Ops -> ScriptSteps]
      /\ result \in [Ops -> Outcomes] /\ outcome \in [Ops -> Outcomes]
  OBVIOUS
<1> QED BY <1>1, <1>2 DEF TypeOK, Ops

\* The steps of the Go call.
LEMMA TypeCall ==
    ASSUME TypeOK, NEW o \in Ops, CallStep(o)
    PROVE  TypeOK'
<1> USE OpsAssumption, ContentsAssumption
    DEF TypeOK, Outcomes, CallerSteps, Files, Hashes, CallTo, Done,
        request, staging, vm
<1> USE DEF RemoveSteps
<1>1. CASE Lock(o)
  BY <1>1 DEF Lock
<1>2. CASE Skip(o)
  BY <1>2 DEF Skip
<1>3. CASE NoSkip(o)
  <2>1. o \notin Removes
    BY <1>3 DEF NoSkip
  <2>2. PICK s \in CallerSteps : caller' = [caller EXCEPT ![o] = s]
    BY <1>3 DEF NoSkip
  <2> QED BY <1>3, <2>1, <2>2 DEF NoSkip
<1>4. ASSUME NEW c \in Contents, Fetch(o, c) PROVE TypeOK'
  <2>1. o \notin Removes
    BY <1>4 DEF Fetch
  <2>2. CASE want[o] \in {NoHash, c}
    <3>1. Unpacked[c] \in Contents
      BY <1>4
    <3>2. Image(o, c) \in Hashes
      BY <1>4, <3>1 DEF Image
    <3>3. PICK h \in Hashes : expect' = [expect EXCEPT ![o] = h]
      BY <1>4, <2>2, <3>2 DEF Fetch
    <3>4. /\ caller' = [caller EXCEPT ![o] = "stage"]
          /\ UNCHANGED <<lock, result, spelling, want, script, outcome, seen, part,
                         pivot, dest, slot, running>>
      BY <1>4, <2>2 DEF Fetch
    <3> QED BY <2>1, <3>3, <3>4
  <2>3. CASE want[o] \notin {NoHash, c}
    <3>1. /\ caller' = [caller EXCEPT ![o] = "done"]
          /\ result' = [result EXCEPT ![o] = "mismatch"]
          /\ lock' = [lock EXCEPT ![spelling[o]] = Nobody]
          /\ UNCHANGED <<spelling, want, expect, script, outcome, seen, part,
                         pivot, dest, slot, running>>
      BY <1>4, <2>3 DEF Fetch
    <3> QED BY <2>1, <3>1
  <2> QED BY <2>2, <2>3
<1>5. ASSUME NEW f \in Files, Stage(o, f) PROVE TypeOK'
  BY <1>5 DEF Stage
<1>6. CASE StageFails(o)
  BY <1>6 DEF StageFails
<1>7. CASE Submit(o)
  BY <1>7 DEF Submit, ScriptSteps
<1>8. CASE GiveUp(o)
  BY <1>8 DEF GiveUp
<1>9. CASE Return(o)
  BY <1>9 DEF Return
<1>10. CASE Lose(o)
  BY <1>10 DEF Lose
<1> QED BY <1>1, <1>2, <1>3, <1>4, <1>5, <1>6, <1>7, <1>8, <1>9, <1>10 DEF CallStep

\* The steps of new.ps1 outside the swap.
LEMMA TypePlace ==
    ASSUME TypeOK, NEW o \in Ops, PlaceStep(o)
    PROVE  TypeOK'
<1> USE OpsAssumption, ContentsAssumption
    DEF TypeOK, Outcomes, Files, Hashes, ScriptTo, Conclude, ScriptSteps,
        ReplaceSteps, RemoveSteps, request, go, staging, vm
<1>1. CASE Start(o)
  BY <1>1 DEF Start, Ops, Placers
<1>2. ASSUME NEW c \in Contents, Download(o, c) PROVE TypeOK'
  BY <1>2 DEF Download
<1>3. CASE DownloadFails(o)
  BY <1>3 DEF DownloadFails
<1>4. ASSUME NEW h \in Contents, NEW c \in Contents, Copy(o, h, c) PROVE TypeOK'
  BY <1>4 DEF Copy
<1>5. CASE CopyFails(o)
  BY <1>5 DEF CopyFails
<1>6. CASE Verify(o)
  <2>1. CASE Verified(o)
    <3>1. PICK s \in {"enumerate", "move"} : script' = [script EXCEPT ![o] = s]
      BY <1>6, <2>1 DEF Verify
    <3>2. o \notin Removes
      BY <1>6 DEF Verify
    <3> QED BY <1>6, <2>1, <3>1, <3>2 DEF Verify
  <2>2. CASE ~Verified(o)
    <3>1. /\ script' = [script EXCEPT ![o] = "clean"]
          /\ outcome' = [outcome EXCEPT ![o] = "mismatch"]
          /\ UNCHANGED <<lock, caller, result, spelling, want, expect, seen, part,
                         pivot, dest, slot, running>>
      BY <1>6, <2>2 DEF Verify
    <3>2. o \notin Removes
      BY <1>6 DEF Verify
    <3> QED BY <3>1, <3>2
  <2> QED BY <2>1, <2>2
<1>7. CASE Move(o)
  BY <1>7 DEF Move, PutInPlace
<1>8. CASE MoveDeletes(o)
  BY <1>8 DEF MoveDeletes
<1>9. CASE Rename(o)
  BY <1>9 DEF Rename, PutInPlace
<1>10. CASE MoveFails(o)
  BY <1>10 DEF MoveFails
<1>11. CASE Clean(o)
  BY <1>11 DEF Clean
<1>12. CASE Readback(o)
  BY <1>12 DEF Readback
<1> QED BY <1>1, <1>2, <1>3, <1>4, <1>5, <1>6, <1>7, <1>8, <1>9, <1>10, <1>11, <1>12
        DEF PlaceStep

\* The steps of the swap.
LEMMA TypeSwap ==
    ASSUME TypeOK, NEW o \in Ops, SwapStep(o)
    PROVE  TypeOK'
<1> USE OpsAssumption, ContentsAssumption
    DEF TypeOK, Outcomes, Files, ScriptTo, Conclude, ScriptSteps,
        ReplaceSteps, RemoveSteps, request, go, staging, vm
<1>1. CASE Enumerate(o)
  BY <1>1 DEF Enumerate
<1>2. CASE EnumerateFails(o)
  BY <1>2 DEF EnumerateFails
<1>3. CASE MovePivot(o)
  BY <1>3 DEF MovePivot
<1>4. CASE MovePivotFails(o)
  BY <1>4 DEF MovePivotFails
<1>5. CASE Retarget(o)
  BY <1>5 DEF Retarget
<1>6. CASE Overwrite(o)
  BY <1>6 DEF Overwrite
<1>7. CASE OverwriteDone(o)
  BY <1>7 DEF OverwriteDone
<1>8. CASE SwapFails(o)
  BY <1>8 DEF SwapFails
<1>9. CASE Restore(o)
  BY <1>9 DEF Restore
<1>10. CASE Unpivot(o)
  BY <1>10 DEF Unpivot
<1> QED BY <1>1, <1>2, <1>3, <1>4, <1>5, <1>6, <1>7, <1>8, <1>9, <1>10 DEF SwapStep

\* The steps of remove.ps1.
LEMMA TypeRemove ==
    ASSUME TypeOK, NEW o \in Ops, RemoveStep(o)
    PROVE  TypeOK'
<1> USE OpsAssumption, ContentsAssumption
    DEF TypeOK, Outcomes, Files, ScriptTo, Conclude, ScriptSteps,
        ReplaceSteps, RemoveSteps, request, go, staging, vm
<1>1. CASE Check(o)
  <2>1. PICK s \in {"over", "delete"}, r \in Outcomes :
            /\ script' = [script EXCEPT ![o] = s]
            /\ outcome' = [outcome EXCEPT ![o] = r]
    <3>1. CASE dest = Absent \/ want[o] \notin {NoHash, dest}
      BY <1>1, <3>1 DEF Check
    <3>2. CASE dest # Absent /\ want[o] \in {NoHash, dest}
      BY <1>1, <3>2 DEF Check
    <3> QED BY <3>1, <3>2
  <2>2. /\ o \notin Placers
        /\ UNCHANGED <<lock, caller, result, spelling, want, expect, seen, part,
                       pivot, dest, slot, running>>
    BY <1>1 DEF Check
  <2> QED BY <2>1, <2>2
<1>2. CASE Delete(o)
  BY <1>2 DEF Delete
<1>3. CASE DeleteMissing(o)
  BY <1>3 DEF DeleteMissing
<1>4. CASE DeleteLocked(o)
  <2>1. PICK s \in {"over", "retry"}, r \in Outcomes :
            /\ script' = [script EXCEPT ![o] = s]
            /\ outcome' = [outcome EXCEPT ![o] = r]
    <3>1. CASE o \in Forced /\ script[o] = "delete" /\ slot = "dest"
      BY <1>4, <3>1 DEF DeleteLocked
    <3>2. CASE ~(o \in Forced /\ script[o] = "delete" /\ slot = "dest")
      BY <1>4, <3>2 DEF DeleteLocked
    <3> QED BY <3>1, <3>2
  <2>2. /\ o \notin Placers
        /\ slot' \in {"none", "dest"} \cup Ops
        /\ UNCHANGED <<lock, caller, result, spelling, want, expect, seen, part,
                       pivot, dest, running>>
    BY <1>4 DEF DeleteLocked
  <2> QED BY <2>1, <2>2
<1>5. CASE DeleteFails(o)
  BY <1>5 DEF DeleteFails
<1> QED BY <1>1, <1>2, <1>3, <1>4, <1>5 DEF RemoveStep

LEMMA TypeStep == TypeOK /\ [Next]_vars => TypeOK'
<1> SUFFICES ASSUME TypeOK, [Next]_vars PROVE TypeOK'
  OBVIOUS
<1>1. ASSUME NEW o \in Ops, CallStep(o) \/ HostStep(o) PROVE TypeOK'
  BY <1>1, TypeCall, TypePlace, TypeSwap, TypeRemove DEF HostStep
<1>2. CASE VmStep
  BY <1>2 DEF VmStep, Mount, Eject, PowerOn, PowerOff, TypeOK, go, request, staging
<1>3. CASE UNCHANGED vars
  BY <1>3 DEF TypeOK, vars, go, request, staging, vm
<1> QED BY <1>1, <1>2, <1>3 DEF Next

\* Every variable keeps its type, and removals never enter the steps of a
\* placement nor placements those of a removal.
THEOREM TypeCorrect == Spec => []TypeOK
  BY TypeInit, TypeStep, PTL DEF Spec

-----------------------------------------------------------------------------
(* The file: FileInv *)

LEMMA FileInit == Init => FileInv
<1> SUFFICES ASSUME Init PROVE FileInv
  OBVIOUS
<1>1. dest # Torn
  BY ContentsAssumption DEF Init
<1>2. \A o \in Ops : script[o] = "none" /\ outcome[o] = "none"
  BY DEF Init
<1> QED BY <1>1, <1>2 DEF FileInv, ScriptAfterSubmit, StagedIsWhole,
           PivotIsWhole, OnlySafeReplacersSwap, WholeImages, Undecided

\* The steps of the Go call touch the host only by staging and starting.
LEMMA FileCall ==
    ASSUME TypeOK, FileInv, NEW o \in Ops, CallStep(o)
    PROVE  FileInv'
<1> USE DEF TypeOK, FileInv, ScriptAfterSubmit, StagedIsWhole, PivotIsWhole,
            OnlySafeReplacersSwap, WholeImages, Undecided,
            go, request, staging, vm, CallTo, Done
<1>1. CASE Lock(o)
  BY <1>1 DEF Lock
<1>2. CASE Skip(o)
  BY <1>2 DEF Skip
<1>3. CASE NoSkip(o)
  BY <1>3 DEF NoSkip
<1>4. ASSUME NEW c \in Contents, Fetch(o, c) PROVE FileInv'
  BY <1>4 DEF Fetch
<1>5. ASSUME NEW f \in Files, Stage(o, f) PROVE FileInv'
  BY <1>5 DEF Stage
<1>6. CASE StageFails(o)
  BY <1>6 DEF StageFails
<1>7. CASE Submit(o)
  BY <1>7 DEF Submit
<1>8. CASE GiveUp(o)
  BY <1>8 DEF GiveUp
<1>9. CASE Return(o)
  BY <1>9 DEF Return
<1>10. CASE Lose(o)
  BY <1>10 DEF Lose
<1> QED BY <1>1, <1>2, <1>3, <1>4, <1>5, <1>6, <1>7, <1>8, <1>9, <1>10 DEF CallStep

LEMMA FilePlace ==
    ASSUME TypeOK, FileInv, NEW o \in Ops, PlaceStep(o)
    PROVE  FileInv'
<1> USE OpsAssumption, ContentsAssumption
<1> USE DEF TypeOK, FileInv, ScriptAfterSubmit, StagedIsWhole, PivotIsWhole,
            OnlySafeReplacersSwap, WholeImages, Undecided,
            go, request, staging, vm,
            ScriptTo, Conclude, Files, Hashes, InUse, Mounted
<1>1. CASE Start(o)
  <2>1. PICK s \in {"download", "copy", "check", "verify", "over"} :
            /\ script' = [script EXCEPT ![o] = s]
            /\ s = "verify" => o \notin Downloads
            /\ s = "over" => outcome' = [outcome EXCEPT ![o] = "unread"]
            /\ s # "over" => UNCHANGED outcome
    BY <1>1 DEF Start
  <2>2. /\ script[o] = "start"
        /\ caller[o] \notin {"idle", "skip", "fetch", "stage", "submit"}
        /\ UNCHANGED <<caller, part, pivot, dest, slot, running>>
    BY <1>1 DEF Start
  <2>3. Undecided'
    BY <2>1, <2>2
  <2>4. WholeImages'
    <3>1. outcome[o] = "none"
      BY <2>2
    <3>2. \A q \in Ops : q # o => outcome'[q] = outcome[q] /\ script'[q] = script[q]
      BY <2>1
    <3>3. SafeReplacers \subseteq Ops
      BY DEF Ops, Placers
    <3> QED BY <2>2, <3>1, <3>2, <3>3
  <2>5. ScriptAfterSubmit' /\ StagedIsWhole' /\ PivotIsWhole' /\ OnlySafeReplacersSwap'
    BY <2>1, <2>2
  <2> QED BY <2>3, <2>4, <2>5
<1>2. ASSUME NEW c \in Contents, Download(o, c) PROVE FileInv'
  BY <1>2 DEF Download
<1>3. CASE DownloadFails(o)
  BY <1>3 DEF DownloadFails
<1>4. ASSUME NEW h \in Contents, NEW c \in Contents, Copy(o, h, c) PROVE FileInv'
  BY <1>4 DEF Copy
<1>5. CASE CopyFails(o)
  BY <1>5 DEF CopyFails
<1>6. CASE Verify(o)
  <2>1. CASE Verified(o)
    <3>1. part[o] \in Files /\ expect[o] \in Hashes
      OBVIOUS
    <3>2. part[o] = expect[o] => part[o] \in Contents
      BY <3>1
    <3>3. script[o] = "verify" /\ o \in Downloads => part[o] \in Contents
      OBVIOUS
    <3>4. part[o] \in Contents
      BY <1>6, <2>1, <3>2, <3>3 DEF Verify, Verified
    <3>5. PICK s \in {"enumerate", "move"} :
              /\ script' = [script EXCEPT ![o] = s]
              /\ s = "enumerate" => o \in SafeReplacers
              /\ UNCHANGED outcome
      BY <1>6, <2>1 DEF Verify
    <3>6. /\ script[o] = "verify"
          /\ caller[o] \notin {"idle", "skip", "fetch", "stage", "submit"}
          /\ UNCHANGED <<caller, part, pivot, dest, slot, running>>
      BY <1>6 DEF Verify
    <3> QED BY <3>4, <3>5, <3>6
  <2>2. CASE ~Verified(o)
    <3>1. /\ script' = [script EXCEPT ![o] = "clean"]
          /\ outcome' = [outcome EXCEPT ![o] = "mismatch"]
          /\ script[o] = "verify"
          /\ caller[o] \notin {"idle", "skip", "fetch", "stage", "submit"}
          /\ UNCHANGED <<caller, part, pivot, dest, slot, running>>
      BY <1>6, <2>2 DEF Verify
    <3> QED BY <3>1
  <2> QED BY <2>1, <2>2
<1>7. CASE Move(o)
  BY <1>7 DEF Move, PutInPlace
<1>8. CASE MoveDeletes(o)
  BY <1>8 DEF MoveDeletes
<1>9. CASE Rename(o)
  BY <1>9 DEF Rename, PutInPlace
<1>10. CASE MoveFails(o)
  BY <1>10 DEF MoveFails
<1>11. CASE Clean(o)
  BY <1>11 DEF Clean
<1>12. CASE Readback(o)
  BY <1>12 DEF Readback
<1> QED BY <1>1, <1>2, <1>3, <1>4, <1>5, <1>6, <1>7, <1>8, <1>9, <1>10, <1>11, <1>12
        DEF PlaceStep

LEMMA FileSwap ==
    ASSUME TypeOK, FileInv, NEW o \in Ops, SwapStep(o)
    PROVE  FileInv'
<1> USE OpsAssumption, ContentsAssumption
<1> USE DEF TypeOK, FileInv, ScriptAfterSubmit, StagedIsWhole, PivotIsWhole,
            OnlySafeReplacersSwap, WholeImages, Undecided,
            go, request, staging, vm,
            ScriptTo, Conclude, Files, InUse, Mounted
<1>1. CASE Enumerate(o)
  BY <1>1 DEF Enumerate
<1>2. CASE EnumerateFails(o)
  BY <1>2 DEF EnumerateFails
<1>3. CASE MovePivot(o)
  BY <1>3 DEF MovePivot
<1>4. CASE MovePivotFails(o)
  BY <1>4 DEF MovePivotFails
<1>5. CASE Retarget(o)
  BY <1>5 DEF Retarget
<1>6. CASE Overwrite(o)
  BY <1>6 DEF Overwrite
<1>7. CASE OverwriteDone(o)
  BY <1>7 DEF OverwriteDone
<1>8. CASE SwapFails(o)
  BY <1>8 DEF SwapFails
<1>9. CASE Restore(o)
  BY <1>9 DEF Restore
<1>10. CASE Unpivot(o)
  BY <1>10 DEF Unpivot
<1> QED BY <1>1, <1>2, <1>3, <1>4, <1>5, <1>6, <1>7, <1>8, <1>9, <1>10 DEF SwapStep

LEMMA FileRemove ==
    ASSUME TypeOK, FileInv, NEW o \in Ops, RemoveStep(o)
    PROVE  FileInv'
<1> USE OpsAssumption, ContentsAssumption
<1> USE DEF TypeOK, FileInv, ScriptAfterSubmit, StagedIsWhole, PivotIsWhole,
            OnlySafeReplacersSwap, WholeImages, Undecided,
            go, request, staging, vm,
            ScriptTo, Conclude, Files, InUse, Mounted, Outcomes
<1>1. CASE Check(o)
  <2>1. PICK s \in {"over", "delete"}, r \in Outcomes :
            /\ script' = [script EXCEPT ![o] = s]
            /\ outcome' = [outcome EXCEPT ![o] = r]
            /\ s = "delete" => UNCHANGED outcome
    <3>1. CASE dest = Absent \/ want[o] \notin {NoHash, dest}
      BY <1>1, <3>1 DEF Check
    <3>2. CASE dest # Absent /\ want[o] \in {NoHash, dest}
      BY <1>1, <3>2 DEF Check
    <3> QED BY <3>1, <3>2
  <2>2. /\ script[o] = "check"
        /\ caller[o] \notin {"idle", "skip", "fetch", "stage", "submit"}
        /\ UNCHANGED <<caller, part, pivot, dest, slot, running>>
    BY <1>1 DEF Check
  <2> QED BY <2>1, <2>2
<1>2. CASE Delete(o)
  BY <1>2 DEF Delete
<1>3. CASE DeleteMissing(o)
  BY <1>3 DEF DeleteMissing
<1>4. CASE DeleteLocked(o)
  <2>1. PICK s \in {"over", "retry"}, r \in Outcomes :
            /\ script' = [script EXCEPT ![o] = s]
            /\ outcome' = [outcome EXCEPT ![o] = r]
            /\ s = "retry" => UNCHANGED outcome
    <3>1. CASE o \in Forced /\ script[o] = "delete" /\ slot = "dest"
      BY <1>4, <3>1 DEF DeleteLocked
    <3>2. CASE ~(o \in Forced /\ script[o] = "delete" /\ slot = "dest")
      BY <1>4, <3>2 DEF DeleteLocked
    <3> QED BY <3>1, <3>2
  <2>2. /\ script[o] \in {"delete", "retry"}
        /\ caller[o] \notin {"idle", "skip", "fetch", "stage", "submit"}
        /\ slot' \in {slot, "none"}
        /\ UNCHANGED <<caller, part, pivot, dest>>
    BY <1>4 DEF DeleteLocked
  <2> QED BY <2>1, <2>2
<1>5. CASE DeleteFails(o)
  BY <1>5 DEF DeleteFails
<1> QED BY <1>1, <1>2, <1>3, <1>4, <1>5 DEF RemoveStep

LEMMA FileStep == TypeOK /\ FileInv /\ [Next]_vars => FileInv'
<1> SUFFICES ASSUME TypeOK, FileInv, [Next]_vars PROVE FileInv'
  OBVIOUS
<1> USE DEF FileInv, ScriptAfterSubmit, StagedIsWhole, PivotIsWhole,
            OnlySafeReplacersSwap, WholeImages, Undecided,
            go, request, staging, vm
<1>1. ASSUME NEW o \in Ops, CallStep(o) \/ HostStep(o) PROVE FileInv'
  <2> HIDE DEF FileInv
  <2> QED BY <1>1, FileCall, FilePlace, FileSwap, FileRemove DEF HostStep
<1>2. CASE VmStep
  BY <1>2 DEF VmStep, Mount, Eject, PowerOn, PowerOff
<1>3. CASE UNCHANGED vars
  BY <1>3 DEF vars
<1> QED BY <1>1, <1>2, <1>3 DEF Next

\* Whatever is corrupted or lost on the way and however many scripts outlive
\* their calls, part of an image is at the destination only while a swap under
\* a mounted image is writing it, or after such a swap has failed and said so.
THEOREM FileSafety == Spec => []WholeImages
<1>1. FileInv => WholeImages
  BY DEF FileInv
<1> QED BY <1>1, FileInit, FileStep, TypeCorrect, PTL DEF Spec

-----------------------------------------------------------------------------
(* The staging files: StagingInv *)

\* Each kind of operation goes through its own steps only, and a staging file
\* is made by the step before verification and gone before the read-back.
StagingInv ==
    \A o \in Ops :
        /\ caller[o] = "fetch" => o \in Fetches
        /\ caller[o] = "stage" => o \in Fetches \cup Uploads
        /\ script[o] = "download" => o \in Downloads
        /\ script[o] = "copy" => o \in Copies
        /\ o \in Removes => part[o] = Absent
        /\ o \in Copies /\ script[o] \in {"none", "start", "copy"} => part[o] = Absent
        /\ script[o] = "readback" => part[o] = Absent

StagingSafe == StagingInv /\ StagingCleared

LEMMA StagingInit == Init => StagingSafe
  BY DEF Init, StagingSafe, StagingInv, StagingCleared

LEMMA StagingCall ==
    ASSUME TypeOK, ScriptAfterSubmit, StagingSafe, NEW o \in Ops, CallStep(o)
    PROVE  StagingSafe'
<1> USE OpsAssumption
<1> USE DEF TypeOK, ScriptAfterSubmit, StagingSafe, StagingInv, StagingCleared,
            go, request, staging, vm, CallTo, Done, Ops, Placers
<1>1. CASE Lock(o)
  <2>1. PICK s \in {"submit", "skip"} : caller' = [caller EXCEPT ![o] = s]
    BY <1>1 DEF Lock
  <2> QED BY <1>1, <2>1 DEF Lock
<1>2. CASE Skip(o)
  BY <1>2 DEF Skip
<1>3. CASE NoSkip(o)
  <2>1. PICK s \in {"fetch", "stage", "submit"} :
            /\ caller' = [caller EXCEPT ![o] = s]
            /\ s = "fetch" => o \in Fetches
            /\ s = "stage" => o \in Uploads
    BY <1>3 DEF NoSkip
  <2> QED BY <1>3, <2>1 DEF NoSkip
<1>4. ASSUME NEW c \in Contents, Fetch(o, c) PROVE StagingSafe'
  <2>1. PICK s \in {"stage", "done"} : caller' = [caller EXCEPT ![o] = s]
    BY <1>4 DEF Fetch
  <2> QED BY <1>4, <2>1 DEF Fetch
<1>5. ASSUME NEW f \in Files, Stage(o, f) PROVE StagingSafe'
  BY <1>5 DEF Stage
<1>6. CASE StageFails(o)
  <2>1. PICK f \in {Absent, Torn} : part' = [part EXCEPT ![o] = f]
    BY <1>6 DEF StageFails
  <2> QED BY <1>6, <2>1 DEF StageFails
<1>7. CASE Submit(o)
  BY <1>7 DEF Submit
<1>8. CASE GiveUp(o)
  BY <1>8 DEF GiveUp
<1>9. CASE Return(o)
  BY <1>9 DEF Return
<1>10. CASE Lose(o)
  BY <1>10 DEF Lose
<1> QED BY <1>1, <1>2, <1>3, <1>4, <1>5, <1>6, <1>7, <1>8, <1>9, <1>10 DEF CallStep

LEMMA StagingPlace ==
    ASSUME TypeOK, ScriptAfterSubmit, StagingSafe, NEW o \in Ops, PlaceStep(o)
    PROVE  StagingSafe'
<1> USE OpsAssumption
<1> USE DEF TypeOK, ScriptAfterSubmit, StagingSafe, StagingInv, StagingCleared,
            go, request, staging, vm, ScriptTo, Conclude, Ops, Placers
<1>1. CASE Start(o)
  <2>1. PICK s \in {"download", "copy", "check", "verify", "over"} :
            /\ script' = [script EXCEPT ![o] = s]
            /\ s = "download" => o \in Downloads
            /\ s = "copy" => o \in Copies
            /\ s = "verify" => o \notin Copies
            /\ s = "over" => outcome' = [outcome EXCEPT ![o] = "unread"]
            /\ s # "over" => UNCHANGED outcome
    BY <1>1 DEF Start
  <2>2. script[o] = "start" /\ UNCHANGED <<caller, part>>
    BY <1>1 DEF Start
  <2> QED BY <2>1, <2>2
<1>2. ASSUME NEW c \in Contents, Download(o, c) PROVE StagingSafe'
  BY <1>2 DEF Download
<1>3. CASE DownloadFails(o)
  <2>1. PICK f \in {Absent, Torn} : part' = [part EXCEPT ![o] = f]
    BY <1>3 DEF DownloadFails
  <2> QED BY <1>3, <2>1 DEF DownloadFails
<1>4. ASSUME NEW h \in Contents, NEW c \in Contents, Copy(o, h, c) PROVE StagingSafe'
  BY <1>4 DEF Copy
<1>5. CASE CopyFails(o)
  BY <1>5 DEF CopyFails
<1>6. CASE Verify(o)
  <2>1. /\ script[o] = "verify" /\ o \notin Removes
        /\ UNCHANGED <<caller, part>>
    BY <1>6 DEF Verify, RemoveSteps
  <2>2. PICK s \in {"enumerate", "move", "clean"} : script' = [script EXCEPT ![o] = s]
    BY <1>6 DEF Verify
  <2>3. \A q \in Ops : q # o => outcome'[q] = outcome[q]
    BY <1>6 DEF Verify
  <2> QED BY <2>1, <2>2, <2>3
<1>7. CASE Move(o)
  BY <1>7 DEF Move, PutInPlace
<1>8. CASE MoveDeletes(o)
  BY <1>8 DEF MoveDeletes
<1>9. CASE Rename(o)
  BY <1>9 DEF Rename, PutInPlace
<1>10. CASE MoveFails(o)
  BY <1>10 DEF MoveFails
<1>11. CASE Clean(o)
  <2>1. PICK s \in {"readback", "over"} : script' = [script EXCEPT ![o] = s]
    BY <1>11 DEF Clean
  <2> QED BY <1>11, <2>1 DEF Clean
<1>12. CASE Readback(o)
  BY <1>12 DEF Readback
<1> QED BY <1>1, <1>2, <1>3, <1>4, <1>5, <1>6, <1>7, <1>8, <1>9, <1>10, <1>11, <1>12
        DEF PlaceStep

LEMMA StagingSwap ==
    ASSUME TypeOK, ScriptAfterSubmit, StagingSafe, NEW o \in Ops, SwapStep(o)
    PROVE  StagingSafe'
<1> USE OpsAssumption
<1> USE DEF TypeOK, ScriptAfterSubmit, StagingSafe, StagingInv, StagingCleared,
            go, request, staging, vm, ScriptTo, Conclude, Ops, Placers
<1>1. CASE Enumerate(o)
  <2>1. PICK s \in {"pivot", "move"} : script' = [script EXCEPT ![o] = s]
    BY <1>1 DEF Enumerate
  <2> QED BY <1>1, <2>1 DEF Enumerate
<1>2. CASE EnumerateFails(o)
  BY <1>2 DEF EnumerateFails
<1>3. CASE MovePivot(o)
  BY <1>3 DEF MovePivot
<1>4. CASE MovePivotFails(o)
  BY <1>4 DEF MovePivotFails
<1>5. CASE Retarget(o)
  BY <1>5 DEF Retarget
<1>6. CASE Overwrite(o)
  BY <1>6 DEF Overwrite
<1>7. CASE OverwriteDone(o)
  BY <1>7 DEF OverwriteDone
<1>8. CASE SwapFails(o)
  BY <1>8 DEF SwapFails
<1>9. CASE Restore(o)
  BY <1>9 DEF Restore
<1>10. CASE Unpivot(o)
  BY <1>10 DEF Unpivot
<1> QED BY <1>1, <1>2, <1>3, <1>4, <1>5, <1>6, <1>7, <1>8, <1>9, <1>10 DEF SwapStep

\* A removal has no staging file, whatever becomes of it.
LEMMA StagingRemove ==
    ASSUME TypeOK, ScriptAfterSubmit, StagingSafe, NEW o \in Ops, RemoveStep(o)
    PROVE  StagingSafe'
<1>1. /\ script[o] \in RemoveSteps
      /\ UNCHANGED <<caller, part>>
      /\ \E s \in RemoveSteps \cup {"over"} : script' = [script EXCEPT ![o] = s]
      /\ \A q \in Ops : q # o => outcome'[q] = outcome[q]
  BY DEF RemoveStep, Check, Delete, DeleteMissing, DeleteLocked, DeleteFails,
         RemoveSteps, Conclude, ScriptTo, TypeOK, go, request, staging, vm
<1>2. o \in Removes
  BY <1>1 DEF TypeOK, Ops
<1> QED BY <1>1, <1>2, OpsAssumption
        DEF TypeOK, RemoveSteps, StagingSafe, StagingInv, StagingCleared, Ops, Placers

LEMMA StagingStep == TypeOK /\ ScriptAfterSubmit /\ StagingSafe /\ [Next]_vars => StagingSafe'
<1> SUFFICES ASSUME TypeOK, ScriptAfterSubmit, StagingSafe, [Next]_vars PROVE StagingSafe'
  OBVIOUS
<1>1. ASSUME NEW o \in Ops, CallStep(o) \/ HostStep(o) PROVE StagingSafe'
  BY <1>1, StagingCall, StagingPlace, StagingSwap, StagingRemove DEF HostStep
<1>2. CASE VmStep \/ UNCHANGED vars
  BY <1>2 DEF VmStep, Mount, Eject, PowerOn, PowerOff, vars, go, staging, vm, StagingSafe, StagingInv, StagingCleared
<1> QED BY <1>1, <1>2 DEF Next

\* No script that got to work leaves a staging file behind, whatever the
\* operations, and however many scripts outlive their calls.
THEOREM StagingSafety == Spec => []StagingCleared
<1>1. FileInv => ScriptAfterSubmit
  BY DEF FileInv
<1>2. StagingSafe => StagingCleared
  BY DEF StagingSafe
<1> QED BY <1>1, <1>2, StagingInit, StagingStep, FileInit, FileStep, TypeCorrect, PTL
        DEF Spec

-----------------------------------------------------------------------------
(* The lock *)

\* A caller between Lock and Done has its spelling's lock.
HoldersHold ==
    \A o \in Ops : caller[o] \in HoldingSteps => lock[spelling[o]] = o

\* Without early returns, a script works under its call.
ScriptUnderCall ==
    ~ScriptsOutliveCalls =>
        \A o \in Ops : script[o] \notin {"none", "over"} => caller[o] = "running"

LockInv == HoldersHold /\ LockHeldByCaller /\ ScriptUnderCall

\* All configurations write the destination path the same way.
OneSpelling == \A s, t \in Spellings : s = t

LEMMA LockInit == Init => LockInv
<1> SUFFICES ASSUME Init PROVE LockInv
  OBVIOUS
<1>1. /\ \A o \in Ops : caller[o] = "idle" /\ script[o] = "none"
      /\ \A s \in Spellings : lock[s] = Nobody
  BY DEF Init
<1> QED BY <1>1 DEF LockInv, HoldersHold, LockHeldByCaller, ScriptUnderCall,
           HoldingSteps

\* A caller that goes on under its lock, by a step that leaves no script
\* working once it is past "running".
LEMMA LockKeptOn ==
    ASSUME TypeOK, LockInv, NEW o \in Ops, NEW step \in HoldingSteps,
           caller[o] \in HoldingSteps,
           caller[o] = "running" => step = "running",
           CallTo(o, step), UNCHANGED <<lock, spelling>>,
           \A q \in Ops \ {o} : script'[q] = script[q],
           script'[o] = script[o] \/ step = "running"
    PROVE  LockInv'
<1> USE DEF TypeOK, LockInv, HoldingSteps, CallerSteps, CallTo
<1>1. HoldersHold'
  BY DEF HoldersHold
<1>2. LockHeldByCaller'
  BY DEF LockHeldByCaller
<1>3. ScriptUnderCall'
  BY DEF ScriptUnderCall
<1> QED BY <1>1, <1>2, <1>3

\* A call that returns gives its lock back.
LEMMA LockGivenBack ==
    ASSUME TypeOK, LockInv, NEW o \in Ops, NEW r, Done(o, r),
           caller[o] \in HoldingSteps,
           ScriptsOutliveCalls \/ script[o] \in {"none", "over"},
           UNCHANGED <<spelling, script>>
    PROVE  LockInv'
<1> USE OpsAssumption DEF TypeOK, LockInv, HoldingSteps, CallerSteps, CallTo, Done
<1>1. HoldersHold'
  BY DEF HoldersHold
<1>2. LockHeldByCaller'
  BY DEF LockHeldByCaller, HoldersHold
<1>3. ScriptUnderCall'
  BY DEF ScriptUnderCall
<1> QED BY <1>1, <1>2, <1>3

LEMMA LockCall ==
    ASSUME TypeOK, ScriptAfterSubmit, LockInv, NEW o \in Ops, CallStep(o)
    PROVE  LockInv'
<1> USE ContentsAssumption DEF request
<1>1. CASE Lock(o)
  <2> USE <1>1, OpsAssumption
      DEF Lock, CallTo, TypeOK, LockInv, HoldingSteps, CallerSteps
  <2>1. HoldersHold'
    BY DEF HoldersHold
  <2>2. LockHeldByCaller'
    BY DEF LockHeldByCaller
  <2>3. ScriptUnderCall'
    BY DEF ScriptUnderCall
  <2> QED BY <2>1, <2>2, <2>3
<1>2. CASE Skip(o)
  BY <1>2, LockGivenBack DEF Skip, HoldingSteps, CallerSteps, ScriptAfterSubmit
<1>3. CASE NoSkip(o)
  <2>1. PICK step \in {"fetch", "stage", "submit"} : CallTo(o, step)
    BY <1>3 DEF NoSkip
  <2> QED BY <1>3, <2>1, LockKeptOn DEF NoSkip, HoldingSteps, CallerSteps
<1>4. ASSUME NEW c \in Contents, Fetch(o, c) PROVE LockInv'
  <2>1. CASE want[o] \in {NoHash, c}
    BY <1>4, <2>1, LockKeptOn DEF Fetch, HoldingSteps, CallerSteps
  <2>2. CASE want[o] \notin {NoHash, c}
    BY <1>4, <2>2, LockGivenBack
       DEF Fetch, HoldingSteps, CallerSteps, ScriptAfterSubmit
  <2> QED BY <2>1, <2>2
<1>5. ASSUME NEW f \in Files, Stage(o, f) PROVE LockInv'
  BY <1>5, LockKeptOn DEF Stage, HoldingSteps, CallerSteps
<1>6. CASE StageFails(o)
  BY <1>6, LockGivenBack DEF StageFails, HoldingSteps, CallerSteps, ScriptAfterSubmit
<1>7. CASE Submit(o)
  <2>1. \A q \in Ops \ {o} : script'[q] = script[q]
    BY <1>7 DEF Submit, TypeOK
  <2> QED BY <1>7, <2>1, LockKeptOn DEF Submit, HoldingSteps, CallerSteps
<1>8. CASE GiveUp(o)
  BY <1>8, LockGivenBack DEF GiveUp, HoldingSteps, CallerSteps, ScriptAfterSubmit
<1>9. CASE Return(o)
  BY <1>9, LockGivenBack DEF Return, HoldingSteps, CallerSteps
<1>10. CASE Lose(o)
  BY <1>10, LockGivenBack DEF Lose, HoldingSteps, CallerSteps
<1> QED BY <1>1, <1>2, <1>3, <1>4, <1>5, <1>6, <1>7, <1>8, <1>9, <1>10 DEF CallStep

\* Every step of a script is a step of one that is working already.
LEMMA LockHost ==
    ASSUME TypeOK, LockInv, NEW o \in Ops, HostStep(o)
    PROVE  LockInv'
<1>1. script[o] \notin {"none", "over"}
  BY DEF HostStep, PlaceStep, SwapStep, RemoveStep,
         Start, Download, DownloadFails, Copy, CopyFails, Verify, Move,
         MoveDeletes, Rename, MoveFails, Clean, Readback, Enumerate,
         EnumerateFails, MovePivot, MovePivotFails, Retarget, Overwrite,
         OverwriteDone, SwapFails, Restore, Unpivot, Check, Delete,
         DeleteMissing, DeleteLocked, DeleteFails
<1>2. UNCHANGED <<lock, caller, spelling>>
  BY DEF HostStep, PlaceStep, SwapStep, RemoveStep, PutInPlace,
         Start, Download, DownloadFails, Copy, CopyFails, Verify, Move,
         MoveDeletes, Rename, MoveFails, Clean, Readback, Enumerate,
         EnumerateFails, MovePivot, MovePivotFails, Retarget, Overwrite,
         OverwriteDone, SwapFails, Restore, Unpivot, Check, Delete,
         DeleteMissing, DeleteLocked, DeleteFails, go, request
<1>3. \A q \in Ops \ {o} : script'[q] = script[q]
  BY DEF HostStep, PlaceStep, SwapStep, RemoveStep, PutInPlace, TypeOK,
         Start, Download, DownloadFails, Copy, CopyFails, Verify, Move,
         MoveDeletes, Rename, MoveFails, Clean, Readback, Enumerate,
         EnumerateFails, MovePivot, MovePivotFails, Retarget, Overwrite,
         OverwriteDone, SwapFails, Restore, Unpivot, Check, Delete,
         DeleteMissing, DeleteLocked, DeleteFails, ScriptTo, Conclude
<1> QED BY <1>1, <1>2, <1>3
        DEF LockInv, HoldersHold, LockHeldByCaller, ScriptUnderCall, HoldingSteps

LEMMA LockStep == TypeOK /\ ScriptAfterSubmit /\ LockInv /\ [Next]_vars => LockInv'
<1> SUFFICES ASSUME TypeOK, ScriptAfterSubmit, LockInv, [Next]_vars PROVE LockInv'
  OBVIOUS
<1>1. ASSUME NEW o \in Ops, CallStep(o) \/ HostStep(o) PROVE LockInv'
  BY <1>1, LockCall, LockHost
<1>2. CASE VmStep \/ UNCHANGED vars
  BY <1>2 DEF VmStep, Mount, Eject, PowerOn, PowerOff, vars, go, request, LockInv, HoldersHold,
              LockHeldByCaller, ScriptUnderCall, HoldingSteps
<1> QED BY <1>1, <1>2 DEF Next

\* The lock of a spelling is held by a call that is under way and that took
\* it for its own path: every return gives it back.
THEOREM LockSafety == Spec => []LockHeldByCaller
<1>1. FileInv => ScriptAfterSubmit
  BY DEF FileInv
<1>2. LockInv => LockHeldByCaller
  BY DEF LockInv
<1> QED BY <1>1, <1>2, LockInit, LockStep, FileInit, FileStep, TypeCorrect, PTL
        DEF Spec

LEMMA OneWorker ==
    LockInv => (~ScriptsOutliveCalls /\ OneSpelling /\ TypeOK => OneScript)
<1> SUFFICES ASSUME LockInv, ~ScriptsOutliveCalls, OneSpelling, TypeOK
             PROVE  OneScript
  OBVIOUS
<1>1. \A p, q \in Working : p = q
  BY DEF Working, LockInv, HoldersHold, ScriptUnderCall, OneSpelling, TypeOK,
         HoldingSteps, CallerSteps
<1>2. CASE Working = {}
  BY <1>2, FS_EmptySet DEF OneScript
<1>3. CASE Working # {}
  <2>1. PICK o : Working = {o}
    BY <1>1, <1>3
  <2> QED BY <2>1, FS_Singleton DEF OneScript
<1> QED BY <1>2, <1>3

\* When no script outlives its call and all paths are written alike, at most
\* one script works on the destination, whatever the number of operations.
THEOREM ScriptExclusion ==
    Spec => [](~ScriptsOutliveCalls /\ OneSpelling => OneScript)
<1>1. FileInv => ScriptAfterSubmit
  BY DEF FileInv
<1> QED BY <1>1, OneWorker, LockInit, LockStep, FileInit, FileStep, TypeCorrect, PTL
        DEF Spec

=============================================================================
