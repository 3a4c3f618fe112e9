----------------------------- MODULE VhdResource ----------------------------
(***************************************************************************)
(* hyperv_vhd: internal/resources/vhd with internal/hyperv/vhd.go and      *)
(* internal/scripts/vhd.  Block size and format follow from the other      *)
(* attributes and are left out; `fill' is file_size_bytes.                 *)
(***************************************************************************)
EXTENDS DiskHost

\* src is Null where a disk is made, and not copied; then it has a type, a
\* parent if it is a child, and a size if it is not.
SourceModeAllows(v, c) ==
    /\ "src" \in DOMAIN c
    /\ IF c.src = Null THEN DOMAIN c \ {"size", "parent"} = {"src", "type"} /\ c.type \in DiskTypes
         ELSE c.src \in Paths \ {v} /\ DOMAIN c \subseteq {"src", "size"}

ParentAllowed(c) ==
    /\ c.src = Null => ("parent" \in DOMAIN c <=> c.type = "differencing")
    /\ "parent" \in DOMAIN c => c.parent \in Paths

SizeAllowed(c) ==
    /\ c.src = Null => ("size" \in DOMAIN c <=> c.type # "differencing")
    /\ "size" \in DOMAIN c => c.size \in Sizes

WellFormedVhd(v, c) == SourceModeAllows(v, c) /\ ParentAllowed(c) /\ SizeAllowed(c)

ASSUME VhdAssumption == \A v \in Disks : \A c \in Configs[v] : WellFormedVhd(v, c)

-----------------------------------------------------------------------------
(* Plans *)

Copies(c) == c # NoConfig /\ c.src # Null

\* ModifyPlan hashes the source, if it is there.
VhdSets(v) ==
    IF Copies(cfg[v]) /\ Exists(host, cfg[v].src)
      THEN [sha |-> host.file[cfg[v].src]] ELSE NoSets

VhdPlanFails(v) == Copies(cfg[v]) /\ SourceGone(v, cfg[v].src)

VhdSchema(v) ==
    [forces |-> {"src", "type", "parent"}, sticky |-> {"type", "size", "parent", "sha", "fill"},
     sets |-> VhdSets(v)]

-----------------------------------------------------------------------------
(* The scripts *)

\* The size of a fixed disk's file is its own; another's grows as it is written.
Fill(f) == IF f.type = "fixed" THEN <<f.size>> ELSE <<f.data, f.written>>

\* modelFromVHD
VhdState(h, v, p) ==
    LET f == h.file[v]
    IN [src |-> p.src, sha |-> IF p.src = Null THEN Null ELSE Of(p, "sha", Null),
        type |-> f.type, size |-> f.size, parent |-> f.parent, fill |-> Fill(f)]

\* New-VHD does not overwrite.
NewAccepts(h, v, p) == ~Exists(h, v) /\ (p.type = "differencing" => Exists(h, p.parent))

NewVHD(h, v, p) ==
    Placed(h, v,
        IF p.type = "differencing"
          THEN [data |-> Blank, type |-> p.type, size |-> h.file[p.parent].size,
                parent |-> p.parent, written |-> FALSE]
          ELSE [data |-> Blank, type |-> p.type, size |-> p.size,
                parent |-> Null, written |-> FALSE])

NewPartly(h, v, p) == IF NewAccepts(h, v, p) THEN {h, NewVHD(h, v, p)} ELSE {h}

\* CopyHostFile without replace_while_mounted; what it lands, or Null.
CopyLands(h, v, p) ==
    LET f == Copied(h, v, p.src, Of(p, "sha", Null))
    IN IF f # Null /\ MayReplace(h, v, f, FALSE) THEN f ELSE Null

CopyPartly(h, v, p) ==
    IF CopyLands(h, v, p) # Null THEN {h, Placed(h, v, CopyLands(h, v, p))} ELSE {h}

\* Resize-VHD shrinks only what is empty at its end, and no fixed disk in use.
ResizeAccepts(h, v, size) ==
    /\ Exists(h, v)
    /\ size >= h.file[v].size \/ (h.file[v].data = Blank /\ ~h.file[v].written)
    /\ ~(h.file[v].type = "fixed" /\ Open(h, v))

ResizeVHD(h, v, size) == Placed(h, v, [h.file[v] EXCEPT !.size = size])

ResizePartly(h, v, size) ==
    IF ResizeAccepts(h, v, size) THEN {h, ResizeVHD(h, v, size)} ELSE {h}

\* Remove-Item does not delete what a running VM holds open.
RemoveVHDPartly(h, v) == IF Open(h, v) THEN {h} ELSE {h, Removed(h, v)}

VhdCall(do, v) == [do |-> do, of |-> v, with |-> plan[v]]

-----------------------------------------------------------------------------
(* Create without a source *)

CreateVHD(v) ==
    /\ at[v] = "create" /\ plan[v].src = Null
    /\ \/ /\ NewAccepts(host, v, plan[v])
          /\ Ran(NewVHD(host, v, plan[v]))
          /\ Return(v, VhdState(host', v, plan[v]))
       \/ /\ ~NewAccepts(host, v, plan[v])
          /\ Ran(host) /\ Fail(v)
       \/ /\ CallFails(VhdCall("new", v), NewPartly(host, v, plan[v]))
          /\ Fail(v) \/ Goto(v, "createVerify")

Expected(v) ==
    /\ Exists(host, v)
    /\ host.file[v].type = plan[v].type
    /\ plan[v].type # "differencing" => host.file[v].size = plan[v].size

MutAdoptsAnySize(v) ==
    /\ at[v] = "createVerify"
    /\ \/ /\ Exists(host, v) /\ host.file[v].type = plan[v].type
          /\ Ran(host) /\ Return(v, VhdState(host, v, plan[v]))
       \/ ~Exists(host, v) /\ Ran(host) /\ Fail(v)
       \/ PollFails(v)

\* recoverVHDNewOnDrop: a disk of the type and the size is taken for the one
\* made.
VerifyVHD(v) ==
    /\ at[v] = "createVerify"
    /\ \/ Expected(v) /\ Ran(host) /\ Return(v, VhdState(host, v, plan[v]))
       \/ ~Expected(v) /\ Ran(host) /\ Fail(v)
       \/ PollFails(v)

-----------------------------------------------------------------------------
(* copyAndResize *)

MutCopiesAgain(v) ==
    \/ at[v] = "create" /\ plan[v].src # Null
    \/ at[v] = "update" /\ plan[v].src # Null

\* Create with a source, or Update when the source has changed.
CopyDue(v) ==
    \/ at[v] = "create" /\ plan[v].src # Null
    \/ at[v] = "update" /\ plan[v].src # Null /\ plan[v].sha # st[v].sha

\* What was copied is what the state will say was copied.
CopyVHD(v) ==
    /\ CopyDue(v)
    /\ \/ LET f == CopyLands(host, v, plan[v])
              known == DOMAIN plan[v] \cup {"sha"}
          IN /\ f # Null
             /\ Ran(Placed(host, v, f))
             /\ at' = [at EXCEPT ![v] = IF "size" \in DOMAIN plan[v] THEN "resize" ELSE "look"]
             /\ plan' = [plan EXCEPT ![v] =
                            [a \in known |-> IF a = "sha" THEN f ELSE plan[v][a]]]
             /\ UNCHANGED <<memory, phase, op, tries>>
       \/ /\ CopyLands(host, v, plan[v]) = Null
          /\ Ran(host) /\ Fail(v)
       \/ /\ CallFails(VhdCall("copy", v), CopyPartly(host, v, plan[v]))
          /\ Fail(v)

ResizeCopy(v) ==
    /\ at[v] = "resize"
    /\ \/ /\ ResizeAccepts(host, v, plan[v].size)
          /\ Ran(ResizeVHD(host, v, plan[v].size))
          /\ Return(v, VhdState(host', v, plan[v]))
       \/ /\ ~ResizeAccepts(host, v, plan[v].size)
          /\ Ran(host) /\ Goto(v, "rollback")
       \/ /\ CallFails(VhdCall("resize", v), ResizePartly(host, v, plan[v].size))
          /\ Goto(v, "rollback")

\* The copy is removed by its path, whatever is there now.
RollBack(v) ==
    /\ at[v] = "rollback" /\ Fail(v)
    /\ \/ Ran(IF Open(host, v) THEN host ELSE Removed(host, v))
       \/ CallFails(VhdCall("remove", v), RemoveVHDPartly(host, v))

LookAtCopy(v) ==
    /\ at[v] = "look"
    /\ \/ Exists(host, v) /\ Ran(host) /\ Return(v, VhdState(host, v, plan[v]))
       \/ ~Exists(host, v) /\ Ran(host) /\ Fail(v)
       \/ ReadFails /\ Fail(v)

-----------------------------------------------------------------------------
(* Read, Update, Delete *)

MutReadFailsOnMissing(v) ==
    /\ at[v] = "read"
    /\ \/ Exists(host, v) /\ Ran(host) /\ Refreshed(v, VhdState(host, v, st[v]))
       \/ ~Exists(host, v) /\ Ran(host) /\ Fail(v)
       \/ ReadFails /\ Fail(v)

\* source_sha256 stays what was last copied.
ReadVHD(v) ==
    /\ at[v] = "read"
    /\ \/ Ran(host)
          /\ Refreshed(v, IF Exists(host, v) THEN VhdState(host, v, st[v]) ELSE NoState)
       \/ ReadFails /\ Fail(v)

\* Update when the source is the same: a resize that fails leaves the disk.
UpdateVHD(v) ==
    /\ at[v] = "update" /\ ~CopyDue(v)
    /\ IF plan[v].size = st[v].size
         THEN Ran(host) /\ Return(v, plan[v])
         ELSE \/ /\ ResizeAccepts(host, v, plan[v].size)
                 /\ Ran(ResizeVHD(host, v, plan[v].size))
                 /\ Return(v, VhdState(host', v, plan[v]))
              \/ /\ ~ResizeAccepts(host, v, plan[v].size)
                 /\ Ran(host) /\ Fail(v)
              \/ /\ CallFails(VhdCall("resize", v), ResizePartly(host, v, plan[v].size))
                 /\ Fail(v)

DeleteVHD(v) ==
    /\ at[v] = "delete"
    /\ \/ ~Open(host, v) /\ Ran(Removed(host, v)) /\ Deleted(v)
       \/ Open(host, v) /\ Ran(host) /\ Fail(v)
       \/ CallFails(VhdCall("remove", v), RemoveVHDPartly(host, v)) /\ Fail(v)

\* ImportState has the path only, so nothing is known of a source.
ImportVHD(v) ==
    Exists(host, v) /\ Import(v, VhdState(host, v, [src |-> Null]))

VhdStep(v) ==
    \/ CreateVHD(v) \/ VerifyVHD(v)
    \/ CopyVHD(v) \/ ResizeCopy(v) \/ RollBack(v) \/ LookAtCopy(v)
    \/ ReadVHD(v) \/ UpdateVHD(v) \/ DeleteVHD(v)

VhdPartly(h, c) ==
    CASE c.do = "new" -> NewPartly(h, c.of, c.with)
      [] c.do = "copy" -> CopyPartly(h, c.of, c.with)
      [] c.do = "resize" -> ResizePartly(h, c.of, c.with.size)
      [] c.do = "remove" -> RemoveVHDPartly(h, c.of)

=============================================================================
