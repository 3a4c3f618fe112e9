-------------------------- MODULE DestinationFile --------------------------
(***************************************************************************)
(* What placing and removing a file on the host promise together: the doc  *)
(* comments of NewImageFileFromURL, NewImageFileFromLocalPath,             *)
(* CopyHostFile and RemoveImageFile (internal/hyperv/image_file.go).       *)
(*                                                                         *)
(* One operation at a time has its turn on the file.  A replacement is not *)
(* atomic: the file may be gone for a moment, and stay gone or, when the   *)
(* image was mounted, stay torn if the replacement fails.  But an          *)
(* operation that answers tells the truth:                                 *)
(*   "ok" of a placement    the file is the image that was asked for, and  *)
(*                          the reported hash is the file's;               *)
(*   "ok" of a removal      the file is gone, and it had the expected hash;*)
(*   "missing"              there is no file;                              *)
(*   "drift"                the file has another hash and was left alone;  *)
(*   "error"                nothing is promised.                           *)
(***************************************************************************)
CONSTANTS Placers, Removes, Packed, Swappers,
          Contents, Unpacked, Absent, Torn, NoHash, Nobody

VARIABLES
    want,       \* the expected hash of each operation, or NoHash
    file,       \* the file at the destination
    turn,       \* the operation at work, or Nobody
    answer,     \* what each operation answered, or "none"
    report      \* the hash a placement reports

vars == <<want, file, turn, answer, report>>

Ops == Placers \cup Removes

\* The images operation o may put in place.
Images(o) ==
    IF want[o] = NoHash
      THEN Contents
      ELSE IF o \in Packed THEN {Unpacked[want[o]]} ELSE {want[o]}

Init ==
    /\ want \in [Ops -> Contents \cup {NoHash}]
    /\ file \in Contents \cup {Absent}
    /\ turn = Nobody
    /\ answer = [o \in Ops |-> "none"]
    /\ report = [o \in Ops |-> Absent]

Begin(o) ==
    /\ turn = Nobody
    /\ answer[o] = "none"
    /\ turn' = o
    /\ UNCHANGED <<want, file, answer, report>>

Place(o) ==
    /\ turn = o
    /\ o \in Placers
    /\ file' \in Images(o) \cup {Absent}
                  \cup (IF o \in Swappers THEN {Torn} ELSE {})
    /\ UNCHANGED <<want, turn, answer, report>>

Remove(o) ==
    /\ turn = o
    /\ o \in Removes
    /\ want[o] \in {NoHash, file}
    /\ file' = Absent
    /\ UNCHANGED <<want, turn, answer, report>>

Report(o) ==
    /\ turn = o
    /\ report' = [report EXCEPT ![o] = file]
    /\ UNCHANGED <<want, file, turn, answer>>

Truthful(o, a) ==
    \/ a = "ok" /\ o \in Placers /\ file \in Images(o) /\ report'[o] = file
    \/ a = "ok" /\ o \in Removes /\ file = Absent
    \/ a = "missing" /\ (o \in Removes => file = Absent)
    \/ a = "drift" /\ o \in Removes /\ file \notin {want[o], Absent}
    \/ a = "error"

End(o, a) ==
    /\ turn = o
    /\ Truthful(o, a)
    /\ turn' = Nobody
    /\ answer' = [answer EXCEPT ![o] = a]
    /\ report' \in {report, [report EXCEPT ![o] = file]}
    /\ UNCHANGED <<want, file>>

Next ==
    \E o \in Ops :
        \/ Begin(o) \/ Place(o) \/ Remove(o) \/ Report(o)
        \/ \E a \in {"ok", "missing", "drift", "error"} : End(o, a)

Spec == Init /\ [][Next]_vars

=============================================================================
