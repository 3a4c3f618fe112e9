------------------------------ MODULE DiskHost ------------------------------
(***************************************************************************)
(* The files of the host that hyperv_image_file and hyperv_vhd manage, and *)
(* what they are made from: files of the runner, urls, and other files of  *)
(* the host.                                                               *)
(*                                                                         *)
(* A resource has one path for good, and stands for it: a new path is a    *)
(* replacement, and replacements are modelled.  That the path is locked    *)
(* and a file is placed step by step is ImageStore's subject; here each    *)
(* script is one step, which may also fail, do less, or end late.          *)
(***************************************************************************)
EXTENDS Terraform

CONSTANTS
    Images, Disks,     \* the resources of each type
    Templates,         \* files of the host that nobody here manages
    Origins,           \* urls, and files of the runner
    Contents, Blank,   \* what is in a file; of a new disk, nothing
    LayoutOf,          \* type and size of the disk that a content is
    Initially,         \* what the templates hold and the origins offer at first
    Sizes,
    Outside            \* what others do

Paths == Images \cup Disks \cup Templates

DiskTypes == {"fixed", "dynamic", "differencing"}

\* written: has a guest written to it?
Files == [data : Contents \cup {Blank}, type : DiskTypes, size : Sizes,
          parent : Paths \cup {Null}, written : BOOLEAN]

ASSUME DiskAssumption ==
    /\ Resources = Images \cup Disks
    /\ Images \cap Disks = {} /\ Templates \cap Resources = {}
    /\ Blank \notin Contents /\ Null \notin Files
    /\ LayoutOf \in [Contents -> [type : {"fixed", "dynamic"}, size : Sizes]]
    /\ Sizes \subseteq Nat
    /\ Initially \in [Origins \cup Templates -> Contents]

\* A hash stands for what it is the hash of, so a file is its own.
Holding(c) == [data |-> c, type |-> LayoutOf[c].type, size |-> LayoutOf[c].size,
               parent |-> Null, written |-> FALSE]

\* file: by path, or Null.  origin: what is offered.  busy: held open by a
\* running VM.
EmptyHost ==
    [file |-> [p \in Paths |-> IF p \in Templates THEN Holding(Initially[p]) ELSE Null],
     origin |-> [o \in Origins |-> Initially[o]], busy |-> {}]

Exists(h, p) == h.file[p] # Null

\* A running VM holds its disk open, and what that is a child of.
Open(h, p) == p \in h.busy \/ \E q \in h.busy : h.file[q].parent = p

Placed(h, p, f) == [h EXCEPT !.file[p] = f]

\* RemoveImageFile and RemoveVHD; a detached drive lets go of the file.
Removed(h, p) == [h EXCEPT !.file[p] = Null, !.busy = @ \ {p}]

-----------------------------------------------------------------------------
(* source_path *)

\* A source that is gone since the resource was made is an error of the plan.
SourceGone(r, source) == ~Exists(host, source) /\ st[r] # NoState /\ r \notin tainted

(* CopyHostFile, which both resources use *)

\* What the copy is taken from: the destination itself if it has the hash
\* asked for already, else the source if that has it.  expected is Null if
\* the source could not be hashed at plan time.
Copied(h, p, source, expected) ==
    IF expected # Null /\ h.file[p] = expected THEN expected
      ELSE IF Exists(h, source) /\ expected \in {Null, h.file[source]}
        THEN h.file[source] ELSE Null

\* A file in use is replaced only where replace_while_mounted is set, or not
\* touched at all.
MayReplace(h, p, f, mounted) == ~Open(h, p) \/ mounted \/ h.file[p] = f

=============================================================================
