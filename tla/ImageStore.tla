----------------------------- MODULE ImageStore -----------------------------
(***************************************************************************)
(* Placing and removing one file on the Hyper-V host: the typed client's   *)
(* NewImageFileFrom..., CopyHostFile, RemoveImageFile and RemoveVHD        *)
(* (internal/hyperv/image_file.go, vhd.go) with the scripts they run there *)
(* (internal/scripts/image_file/new.ps1 and remove.ps1).                   *)
(*                                                                         *)
(* An operation has two parts that can come apart.  Its caller holds the   *)
(* Go lock of the destination path; its script runs on the host, and goes  *)
(* on there when RunScript has returned early (a timeout, a dropped        *)
(* session).  A file is represented by its content, whose SHA-256 is the   *)
(* content itself, or Torn for bytes that are no one's image.              *)
(***************************************************************************)
EXTENDS Naturals, FiniteSets

CONSTANTS
    Uploads,        \* NewImageFileFromLocalPath, NewImageFileFromBytes
    Fetches,        \* url mode, the runner downloads (runner_download, compression)
    Compressed,     \* the Fetches with a codec
    Downloads,      \* url mode, the host downloads
    Copies,         \* CopyHostFile
    Removes,        \* RemoveImageFile, RemoveVHD
    SafeReplacers,  \* the operations with replace_while_mounted
    Forced,         \* the Removes with force
    Spellings,      \* the ways configurations write the one destination path
    Contents,       \* whole images
    Unpacked,       \* what each content decompresses to
    Absent, Torn,   \* no file; a file that holds part of an image
    NoHash,         \* no expected SHA-256
    Nobody,         \* the lock is free
    ScriptsOutliveCalls     \* may RunScript return before its script ends?

Placers == Uploads \cup Fetches \cup Downloads \cup Copies
Ops == Placers \cup Removes

ASSUME OpsAssumption ==
    /\ Placers \cap Removes = {}
    /\ Uploads \cap (Fetches \cup Downloads \cup Copies) = {}
    /\ Fetches \cap (Downloads \cup Copies) = {}
    /\ Downloads \cap Copies = {}
    /\ Compressed \subseteq Fetches
    /\ SafeReplacers \subseteq Uploads \cup Copies
    /\ Forced \subseteq Removes
    /\ {Nobody, "none", "dest"} \cap Ops = {}

ASSUME ContentsAssumption ==
    /\ {Absent, Torn, NoHash} \cap Contents = {}
    /\ Absent # Torn /\ NoHash \notin {Absent, Torn}
    /\ Unpacked \in [Contents -> Contents]
    /\ ScriptsOutliveCalls \in BOOLEAN

Files == Contents \cup {Absent, Torn}
Hashes == Contents \cup {NoHash}

VARIABLES
    lock,       \* imageFileLocks: the holder of each spelling's mutex
    caller,     \* where each Go call is
    result,     \* what it returned
    spelling,   \* its destination_path as written
    want,       \* the SHA-256 its caller gave, or NoHash
    expect,     \* the one the script is told to verify
    script,     \* where its script is on the host
    outcome,    \* what the script has concluded
    seen,       \* the content an operation reports
    part,       \* its staging file
    pivot,      \* its DVD swap file
    dest,       \* the file at the destination
    slot,       \* the file a VM's DVD drive names: "none", "dest" or a pivot
    running     \* whether that VM is running

request == <<spelling, want>>
go == <<lock, caller, result>>
staging == <<part, pivot>>
vm == <<slot, running>>
vars == <<go, request, expect, script, outcome, seen, staging, dest, vm>>

Outcomes == {"none", "ok", "failed", "mismatch", "drift", "missing", "locked",
             "unread", "lost"}

CallerSteps == {"idle", "skip", "fetch", "stage", "submit", "running", "done"}

\* A caller between lockDestinationPath and its deferred unlock.
HoldingSteps == CallerSteps \ {"idle", "done"}

ReplaceSteps == {"enumerate", "move", "rename", "pivot", "retarget",
                 "overwrite", "overwriting", "restore", "unpivot"}

RemoveSteps == {"check", "delete", "retry"}

ScriptSteps == {"none", "start", "download", "copy", "verify", "clean",
                "readback", "over"} \cup ReplaceSteps \cup RemoveSteps

TypeOK ==
    /\ lock \in [Spellings -> Ops \cup {Nobody}]
    /\ caller \in [Ops -> CallerSteps]
    /\ result \in [Ops -> Outcomes]
    /\ spelling \in [Ops -> Spellings]
    /\ want \in [Ops -> Hashes]
    /\ expect \in [Ops -> Hashes]
    /\ script \in [Ops -> ScriptSteps]
    /\ outcome \in [Ops -> Outcomes]
    /\ seen \in [Ops -> Files]
    /\ part \in [Ops -> Files]
    /\ pivot \in [Ops -> Files]
    /\ dest \in Files
    /\ slot \in {"none", "dest"} \cup Ops
    /\ running \in BOOLEAN
    /\ \A o \in Removes :
           /\ caller[o] \notin {"skip", "fetch", "stage"}
           /\ script[o] \in {"none", "start", "over"} \cup RemoveSteps
    /\ \A o \in Placers : script[o] \notin RemoveSteps

Init ==
    /\ lock = [s \in Spellings |-> Nobody]
    /\ caller = [o \in Ops |-> "idle"]
    /\ result = [o \in Ops |-> "none"]
    /\ spelling \in [Ops -> Spellings]
    /\ want \in [Ops -> Hashes]
    /\ \A o \in Uploads : want[o] # NoHash
    /\ expect = want
    /\ script = [o \in Ops |-> "none"]
    /\ outcome = [o \in Ops |-> "none"]
    /\ seen = [o \in Ops |-> Absent]
    /\ part = [o \in Ops |-> Absent]
    /\ pivot = [o \in Ops |-> Absent]
    /\ dest \in Contents \cup {Absent}
    /\ slot \in (IF dest = Absent THEN {"none"} ELSE {"none", "dest"})
    /\ running \in BOOLEAN

-----------------------------------------------------------------------------
(* The Go call *)

CallTo(o, step) == caller' = [caller EXCEPT ![o] = step]

\* The call returns r and its deferred unlock runs.
Done(o, r) ==
    /\ CallTo(o, "done")
    /\ result' = [result EXCEPT ![o] = r]
    /\ lock' = [lock EXCEPT ![spelling[o]] = Nobody]

MutLockSkipsAll(o) ==
    /\ caller[o] = "idle"
    /\ lock[spelling[o]] = Nobody
    /\ lock' = [lock EXCEPT ![spelling[o]] = o]
    /\ CallTo(o, "skip")
    /\ UNCHANGED <<result, request, expect, script, outcome, seen, staging, dest, vm>>

MutLockOnlyPlacers(o) ==
    /\ caller[o] = "idle"
    /\ IF o \in Removes
         THEN UNCHANGED lock
         ELSE /\ lock[spelling[o]] = Nobody
              /\ lock' = [lock EXCEPT ![spelling[o]] = o]
    /\ CallTo(o, IF o \in Removes THEN "submit" ELSE "skip")
    /\ UNCHANGED <<result, request, expect, script, outcome, seen, staging, dest, vm>>

Lock(o) ==
    /\ caller[o] = "idle"
    /\ lock[spelling[o]] = Nobody
    /\ lock' = [lock EXCEPT ![spelling[o]] = o]
    /\ CallTo(o, IF o \in Removes THEN "submit" ELSE "skip")
    /\ UNCHANGED <<result, request, expect, script, outcome, seen, staging, dest, vm>>

\* skipIfDestinationMatches: the file is there already.
Skip(o) ==
    /\ caller[o] = "skip"
    /\ want[o] # NoHash
    /\ dest = want[o]
    /\ seen' = [seen EXCEPT ![o] = dest]
    /\ Done(o, "ok")
    /\ UNCHANGED <<request, expect, script, outcome, staging, dest, vm>>

\* No expected hash, no such file, another content, or the read failed.
NoSkip(o) ==
    /\ caller[o] = "skip"
    /\ CallTo(o, CASE o \in Fetches -> "fetch"
                   [] o \in Uploads -> "stage"
                   [] OTHER -> "submit")
    /\ UNCHANGED <<lock, result, request, expect, script, outcome, seen, staging, dest, vm>>

\* What a fetch of content c puts at the destination.
Image(o, c) == IF o \in Compressed THEN Unpacked[c] ELSE c

\* The runner downloads content c, checks it and decompresses it.
Fetch(o, c) ==
    /\ caller[o] = "fetch"
    /\ IF want[o] \in {NoHash, c}
         THEN /\ expect' = [expect EXCEPT ![o] = Image(o, c)]
              /\ CallTo(o, "stage")
              /\ UNCHANGED <<lock, result>>
         ELSE Done(o, "mismatch") /\ UNCHANGED expect
    /\ UNCHANGED <<request, script, outcome, seen, staging, dest, vm>>

\* StreamFile succeeds; a fault on the way, or a local file that changed
\* after it was hashed, leaves other bytes than the expected ones.
Stage(o, f) ==
    /\ caller[o] = "stage"
    /\ f # Absent
    /\ part' = [part EXCEPT ![o] = f]
    /\ CallTo(o, "submit")
    /\ UNCHANGED <<lock, result, request, expect, script, outcome, seen, pivot, dest, vm>>

\* StreamFile fails and leaves what it had written.
StageFails(o) ==
    /\ caller[o] = "stage"
    /\ \E f \in {Absent, Torn} : part' = [part EXCEPT ![o] = f]
    /\ Done(o, "failed")
    /\ UNCHANGED <<request, expect, script, outcome, seen, pivot, dest, vm>>

Submit(o) ==
    /\ caller[o] = "submit"
    /\ script' = [script EXCEPT ![o] = "start"]
    /\ CallTo(o, "running")
    /\ UNCHANGED <<lock, result, request, expect, outcome, seen, staging, dest, vm>>

MutGiveUpKeepsLock(o) ==
    /\ caller[o] \in {"skip", "fetch", "stage", "submit"}
    /\ CallTo(o, "done")
    /\ result' = [result EXCEPT ![o] = "failed"]
    /\ UNCHANGED <<lock, request, expect, script, outcome, seen, staging, dest, vm>>

\* The runner cannot read its own file, the fetch fails, or the script is
\* never handed over.
GiveUp(o) ==
    /\ caller[o] \in {"skip", "fetch", "stage", "submit"}
    /\ Done(o, "failed")
    /\ UNCHANGED <<request, expect, script, outcome, seen, staging, dest, vm>>

Return(o) ==
    /\ caller[o] = "running"
    /\ script[o] = "over"
    /\ Done(o, outcome[o])
    /\ UNCHANGED <<request, expect, script, outcome, seen, staging, dest, vm>>

\* RunScript returns ErrTimeout or ErrSessionDropped: the lock is released,
\* the script is not stopped.
Lose(o) ==
    /\ ScriptsOutliveCalls
    /\ caller[o] = "running"
    /\ Done(o, "lost")
    /\ UNCHANGED <<request, expect, script, outcome, seen, staging, dest, vm>>

CallStep(o) ==
    \/ Lock(o) \/ Skip(o) \/ NoSkip(o)
    \/ \E c \in Contents : Fetch(o, c)
    \/ \E f \in Files : Stage(o, f)
    \/ StageFails(o) \/ Submit(o) \/ GiveUp(o)
    \/ Return(o) \/ Lose(o)

-----------------------------------------------------------------------------
(* new.ps1 on the host *)

ScriptTo(o, step) == script' = [script EXCEPT ![o] = step]

\* The script has concluded r and goes on to its finally block.
Conclude(o, r, step) ==
    /\ outcome' = [outcome EXCEPT ![o] = r]
    /\ ScriptTo(o, step)

\* A running VM keeps the file in its drive open; a stopped one only names it.
Mounted(f) == slot = f /\ running

\* A handle on the destination is open: a running VM's, or a copy's.
InUse == Mounted("dest") \/ \E o \in Ops : script[o] = "overwriting"

\* The payload is read and the destination directory made, or neither the
\* work nor its cleanup begins.
Start(o) ==
    /\ script[o] = "start"
    /\ \/ /\ ScriptTo(o, CASE o \in Downloads -> "download"
                           [] o \in Copies -> "copy"
                           [] o \in Removes -> "check"
                           [] OTHER -> "verify")
          /\ UNCHANGED outcome
       \/ Conclude(o, "unread", "over")
    /\ UNCHANGED <<go, request, expect, seen, staging, dest, vm>>

Download(o, c) ==
    /\ script[o] = "download"
    /\ part' = [part EXCEPT ![o] = c]
    /\ ScriptTo(o, "verify")
    /\ UNCHANGED <<go, request, expect, outcome, seen, pivot, dest, vm>>

DownloadFails(o) ==
    /\ script[o] = "download"
    /\ \E f \in {Absent, Torn} : part' = [part EXCEPT ![o] = f]
    /\ Conclude(o, "failed", "clean")
    /\ UNCHANGED <<go, request, expect, seen, pivot, dest, vm>>

\* The source is hashed now if no hash was given, and then copied: h and c
\* differ when it is replaced in between.
Copy(o, h, c) ==
    /\ script[o] = "copy"
    /\ expect' = [expect EXCEPT ![o] = IF want[o] = NoHash THEN h ELSE @]
    /\ part' = [part EXCEPT ![o] = c]
    /\ ScriptTo(o, "verify")
    /\ UNCHANGED <<go, request, outcome, seen, pivot, dest, vm>>

\* No source (ObjectNotFound), or Copy-Item fails and its .part is removed.
CopyFails(o) ==
    /\ script[o] = "copy"
    /\ \E r \in {"missing", "failed"} : Conclude(o, r, "over")
    /\ UNCHANGED <<go, request, expect, seen, staging, dest, vm>>

Verified(o) == part[o] = expect[o] \/ (o \in Downloads /\ expect[o] = NoHash)

MutVerifyTrustsStage(o) ==
    /\ script[o] = "verify"
    /\ ScriptTo(o, IF o \in SafeReplacers THEN "enumerate" ELSE "move")
    /\ UNCHANGED <<go, request, expect, outcome, seen, staging, dest, vm>>

Verify(o) ==
    /\ script[o] = "verify"
    /\ IF Verified(o)
         THEN /\ ScriptTo(o, IF o \in SafeReplacers THEN "enumerate" ELSE "move")
              /\ UNCHANGED outcome
         ELSE Conclude(o, "mismatch", "clean")
    /\ UNCHANGED <<go, request, expect, seen, staging, dest, vm>>

\* The staged file takes the place of nothing.
PutInPlace(o) ==
    /\ dest = Absent
    /\ dest' = part[o]
    /\ part' = [part EXCEPT ![o] = Absent]
    /\ Conclude(o, "ok", "clean")
    /\ UNCHANGED <<go, request, expect, seen, pivot, vm>>

Move(o) == script[o] = "move" /\ PutInPlace(o)

\* Move-Item -Force over a file: delete, then rename.
MoveDeletes(o) ==
    /\ script[o] = "move"
    /\ dest # Absent
    /\ ~InUse
    /\ dest' = Absent
    /\ ScriptTo(o, "rename")
    /\ UNCHANGED <<go, request, expect, outcome, seen, staging, vm>>

Rename(o) == script[o] = "rename" /\ PutInPlace(o)

\* Move-Item fails, with the destination in use or for another reason: a
\* destination with the staged content is adopted.
MoveFails(o) ==
    /\ script[o] \in {"move", "rename"}
    /\ Conclude(o, IF dest = part[o] THEN "ok" ELSE "failed", "clean")
    /\ UNCHANGED <<go, request, expect, seen, staging, dest, vm>>

MutCleanOnlyOnSuccess(o) ==
    /\ script[o] = "clean"
    /\ part' = [part EXCEPT ![o] = IF outcome[o] = "ok" THEN Absent ELSE @]
    /\ ScriptTo(o, IF outcome[o] = "ok" THEN "readback" ELSE "over")
    /\ UNCHANGED <<go, request, expect, outcome, seen, pivot, dest, vm>>

\* The finally block removes what is left of the staging file.  Its errors
\* are ignored; the name is fresh and nothing else opens it, so there are none.
Clean(o) ==
    /\ script[o] = "clean"
    /\ part' = [part EXCEPT ![o] = Absent]
    /\ ScriptTo(o, IF outcome[o] = "ok" THEN "readback" ELSE "over")
    /\ UNCHANGED <<go, request, expect, outcome, seen, pivot, dest, vm>>

\* Read-HypervImageFileResult hashes the destination as it is now.
Readback(o) ==
    /\ script[o] = "readback"
    /\ seen' = [seen EXCEPT ![o] = dest]
    /\ Conclude(o, IF dest = Absent THEN "missing" ELSE "ok", "over")
    /\ UNCHANGED <<go, request, expect, staging, dest, vm>>

PlaceStep(o) ==
    \/ Start(o)
    \/ \E c \in Contents : Download(o, c)
    \/ DownloadFails(o)
    \/ \E h, c \in Contents : Copy(o, h, c)
    \/ CopyFails(o)
    \/ Verify(o) \/ Move(o) \/ MoveDeletes(o) \/ Rename(o) \/ MoveFails(o)
    \/ Clean(o) \/ Readback(o)

-----------------------------------------------------------------------------
(* Invoke-HypervDvdSafeReplace: swap the media of a mounted image *)

\* Which drives hold the destination is looked up once.
Enumerate(o) ==
    /\ script[o] = "enumerate"
    /\ ScriptTo(o, IF slot = "dest" THEN "pivot" ELSE "move")
    /\ UNCHANGED <<go, request, expect, outcome, seen, staging, dest, vm>>

EnumerateFails(o) ==
    /\ script[o] = "enumerate"
    /\ Conclude(o, "failed", "clean")
    /\ UNCHANGED <<go, request, expect, seen, staging, dest, vm>>

MovePivot(o) ==
    /\ script[o] = "pivot"
    /\ pivot' = [pivot EXCEPT ![o] = part[o]]
    /\ part' = [part EXCEPT ![o] = Absent]
    /\ ScriptTo(o, "retarget")
    /\ UNCHANGED <<go, request, expect, outcome, seen, dest, vm>>

MovePivotFails(o) ==
    /\ script[o] = "pivot"
    /\ Conclude(o, "failed", "clean")
    /\ UNCHANGED <<go, request, expect, seen, staging, dest, vm>>

\* Set-VMDvdDrive -Path <pivot> releases the handle on the destination.  It
\* names the drive, so the medium may have changed since the look-up; it
\* fails on an empty drive.
Retarget(o) ==
    /\ script[o] = "retarget"
    /\ slot # "none"
    /\ slot' = o
    /\ ScriptTo(o, "overwrite")
    /\ UNCHANGED <<go, request, expect, outcome, seen, staging, dest, running>>

\* Copy-Item opens the destination and writes it bit by bit.
Overwrite(o) ==
    /\ script[o] = "overwrite"
    /\ ~InUse
    /\ dest' = Torn
    /\ ScriptTo(o, "overwriting")
    /\ UNCHANGED <<go, request, expect, outcome, seen, staging, vm>>

OverwriteDone(o) ==
    /\ script[o] = "overwriting"
    /\ dest' = pivot[o]
    /\ Conclude(o, "ok", "restore")
    /\ UNCHANGED <<go, request, expect, seen, staging, vm>>

MutSwapFailureIgnored(o) ==
    /\ script[o] \in {"retarget", "overwrite", "overwriting"}
    /\ Conclude(o, "ok", "restore")
    /\ UNCHANGED <<go, request, expect, seen, staging, dest, vm>>

\* Set-VMDvdDrive or Copy-Item fails and its finally block runs.
SwapFails(o) ==
    /\ script[o] \in {"retarget", "overwrite", "overwriting"}
    /\ Conclude(o, "failed", "restore")
    /\ UNCHANGED <<go, request, expect, seen, staging, dest, vm>>

\* Set-VMDvdDrive -Path <destination>; a failure is ignored.
Restore(o) ==
    /\ script[o] = "restore"
    /\ \/ slot # "none" /\ dest # Absent /\ slot' = "dest"
       \/ UNCHANGED slot
    /\ ScriptTo(o, "unpivot")
    /\ UNCHANGED <<go, request, expect, outcome, seen, staging, dest, running>>

\* The pivot is removed, whatever names it, and errors are ignored: only a
\* running VM that still has it open keeps it.
Unpivot(o) ==
    /\ script[o] = "unpivot"
    /\ pivot' = [pivot EXCEPT ![o] = IF Mounted(o) THEN @ ELSE Absent]
    /\ ScriptTo(o, "clean")
    /\ UNCHANGED <<go, request, expect, outcome, seen, part, dest, vm>>

SwapStep(o) ==
    \/ Enumerate(o) \/ EnumerateFails(o)
    \/ MovePivot(o) \/ MovePivotFails(o)
    \/ Retarget(o) \/ Overwrite(o) \/ OverwriteDone(o) \/ SwapFails(o)
    \/ Restore(o) \/ Unpivot(o)

-----------------------------------------------------------------------------
(* remove.ps1 on the host *)

MutCheckIgnoresHash(o) ==
    /\ script[o] = "check"
    /\ IF dest = Absent
         THEN Conclude(o, "missing", "over")
         ELSE ScriptTo(o, "delete") /\ UNCHANGED outcome
    /\ UNCHANGED <<go, request, expect, seen, staging, dest, vm>>

\* Test-Path, then the hash of the file against the last-known one.
Check(o) ==
    /\ script[o] = "check"
    /\ IF dest = Absent
         THEN Conclude(o, "missing", "over")
         ELSE IF want[o] \notin {NoHash, dest}
                THEN Conclude(o, "drift", "over")
                ELSE ScriptTo(o, "delete") /\ UNCHANGED outcome
    /\ UNCHANGED <<go, request, expect, seen, staging, dest, vm>>

Delete(o) ==
    /\ script[o] \in {"delete", "retry"}
    /\ dest # Absent
    /\ ~InUse
    /\ dest' = Absent
    /\ Conclude(o, "ok", "over")
    /\ UNCHANGED <<go, request, expect, seen, staging, vm>>

\* Gone since the check.
DeleteMissing(o) ==
    /\ script[o] \in {"delete", "retry"}
    /\ dest = Absent
    /\ Conclude(o, IF script[o] = "delete" THEN "missing" ELSE "locked", "over")
    /\ UNCHANGED <<go, request, expect, seen, staging, dest, vm>>

\* A sharing violation: with force, the drives that hold the file lose it
\* and the delete is tried once more.
DeleteLocked(o) ==
    /\ script[o] \in {"delete", "retry"}
    /\ InUse
    /\ IF o \in Forced /\ script[o] = "delete" /\ slot = "dest"
         THEN ScriptTo(o, "retry") /\ slot' = "none" /\ UNCHANGED outcome
         ELSE Conclude(o, "locked", "over") /\ UNCHANGED slot
    /\ UNCHANGED <<go, request, expect, seen, staging, dest, running>>

\* Remove-Item or a detach fails for another reason.
DeleteFails(o) ==
    /\ script[o] \in {"delete", "retry"}
    /\ Conclude(o, IF script[o] = "delete" THEN "failed" ELSE "locked", "over")
    /\ UNCHANGED <<go, request, expect, seen, staging, dest, vm>>

RemoveStep(o) ==
    \/ Check(o)
    \/ Delete(o) \/ DeleteMissing(o) \/ DeleteLocked(o) \/ DeleteFails(o)

-----------------------------------------------------------------------------
(* A VM mounts and ejects the image, and is started and stopped *)

Mount ==
    /\ slot = "none"
    /\ dest # Absent
    /\ slot' = "dest"
    /\ UNCHANGED <<go, request, expect, script, outcome, seen, staging, dest, running>>

Eject ==
    /\ slot # "none"
    /\ slot' = "none"
    /\ UNCHANGED <<go, request, expect, script, outcome, seen, staging, dest, running>>

\* It does not start with a medium that is not there.
PowerOn ==
    /\ ~running
    /\ \/ slot = "none"
       \/ slot = "dest" /\ dest # Absent
       \/ slot \in Ops /\ pivot[slot] # Absent
    /\ running' = TRUE
    /\ UNCHANGED <<go, request, expect, script, outcome, seen, staging, dest, slot>>

PowerOff ==
    /\ running
    /\ running' = FALSE
    /\ UNCHANGED <<go, request, expect, script, outcome, seen, staging, dest, slot>>

VmStep == Mount \/ Eject \/ PowerOn \/ PowerOff

-----------------------------------------------------------------------------
HostStep(o) == PlaceStep(o) \/ SwapStep(o) \/ RemoveStep(o)

Next ==
    \/ \E o \in Ops : CallStep(o) \/ HostStep(o)
    \/ VmStep

Spec == Init /\ [][Next]_vars

\* Goroutines and scripts go on, and the command timeout ends a wait for a
\* script; a download may never end.  The lock is granted in order, and each
\* call asks for it once.
FairSpec ==
    /\ Spec
    /\ \A o \in Ops :
           /\ WF_vars(CallStep(o))
           /\ WF_vars(HostStep(o) /\ script[o] # "download")

-----------------------------------------------------------------------------
(* Properties *)

\* The destination never holds part of an image, whatever is corrupted, lost
\* or left behind on the way, but while a swap under a mounted image writes it
\* and after one that failed half-way, and that placement reports a failure
\* (new.ps1: a file is verified before it is moved in or copied).
WholeImages ==
    dest = Torn =>
        \E o \in SafeReplacers : script[o] = "overwriting" \/ outcome[o] = "failed"

\* A script that got to work leaves no staging file, however it ends (the
\* finally blocks of new.ps1).
StagingCleared ==
    \A o \in Ops :
        script[o] = "over" /\ outcome[o] # "unread" => part[o] = Absent

Working == {o \in Ops : script[o] \notin {"none", "over"}}

\* When no script outlives its call, and the path is always written the same
\* way, one script at a time works on the destination (lockDestinationPath).
OneScript == Cardinality(Working) <= 1

\* An operation's lock is given back on every return (lockDestinationPath).
LockHeldByCaller ==
    \A s \in Spellings : lock[s] # Nobody =>
        caller[lock[s]] \in HoldingSteps /\ spelling[lock[s]] = s

Turn == IF \E s \in Spellings : lock[s] # Nobody
          THEN CHOOSE o \in Ops : \E s \in Spellings : lock[s] = o
          ELSE Nobody

Answer(o) ==
    IF caller[o] # "done" THEN "none"
      ELSE IF result[o] \in {"none", "ok", "missing", "drift"} THEN result[o] ELSE "error"

\* With one spelling and no script outliving its call, placing and removing
\* are operations on one file, one after the other, whose answers are true.
Contract == INSTANCE DestinationFile WITH
    Packed <- Compressed,
    Swappers <- SafeReplacers,
    Nobody <- Nobody,
    file <- dest,
    turn <- Turn,
    answer <- [o \in Ops |-> Answer(o)],
    report <- seen

KeepsContract == Contract!Spec

\* Every call gets its turn and returns, even if the download of another one
\* never ends: no lock is kept (lockDestinationPath, CommandTimeout).
CallsReturn == \A o \in Ops : <>(caller[o] = "done")

=============================================================================
