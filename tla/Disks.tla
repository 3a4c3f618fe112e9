------------------------------- MODULE Disks --------------------------------
(***************************************************************************)
(* Image files and virtual disks together, over any number of applies: an  *)
(* image that a disk is copied from, a disk that another is a child of.    *)
(***************************************************************************)
EXTENDS ImageFileResource, VhdResource

Schema(r) == IF r \in Images THEN ImageSchema(r) ELSE VhdSchema(r)

Init == InitTerraform(EmptyHost)

Step(r) == (r \in Images /\ ImageStep(r)) \/ (r \in Disks /\ VhdStep(r))

PlanFails(r) == IF r \in Images THEN ImagePlanFails(r) ELSE VhdPlanFails(r)

Begun(r) == at[r] \in {"create", "update", "delete"} => MayBegin(r)

Walk ==
    \/ Start
    \/ PlanAll([r \in workspace |-> Schema(r)], \A r \in workspace : ~PlanFails(r))
    \/ \E r \in workspace : Skip(r)
    \/ Finish

ApplyStep == Walk \/ \E r \in workspace : Begun(r) /\ Step(r)

-----------------------------------------------------------------------------
(* What others do, and what comes late *)

\* What the configured resources are made from.
SourceOf(c) ==
    IF c = NoConfig THEN {}
      ELSE IF "mode" \in DOMAIN c THEN {c.from}
      ELSE {c.src} \cup (IF "parent" \in DOMAIN c THEN {c.parent} ELSE {})

InUse == UNION {SourceOf(cfg[r]) : r \in workspace}

\* A file vanishes or gets another content, a VM that uses it starts or stops,
\* its guest writes to a disk, and upstream offers something new.
Elsewhere ==
    LET idle == {r \in workspace : ~Open(host, r)}
        files == {r \in workspace : Exists(host, r)}
    IN UNION {
        IF "gone" \in Outside
          THEN {Removed(host, r) : r \in files \cap idle} ELSE {},
        IF "foreign" \in Outside
          THEN {Placed(host, r, Holding(c)) : r \in idle, c \in Contents} ELSE {},
        IF "run" \in Outside
          THEN {[host EXCEPT !.busy = @ \cup {r}] : r \in files}
               \cup {[host EXCEPT !.busy = @ \ {r}] : r \in files} ELSE {},
        IF "write" \in Outside
          THEN {Placed(host, v, [host.file[v] EXCEPT !.written = TRUE]) :
                    v \in files \cap Disks} ELSE {},
        IF "upgrade" \in Outside
          THEN {[host EXCEPT !.origin[o] = c] : o \in Origins \cap InUse, c \in Contents}
               \cup {Placed(host, t, Holding(c)) : t \in Templates \cap InUse, c \in Contents}
               \cup {Removed(host, t) : t \in Templates \cap InUse}
          ELSE {}} \ {host}

Others ==
    \/ Edit
    \/ Interfere(Elsewhere)
    \/ Land(IF late.of \in Images THEN ImagePartly(host, late) ELSE VhdPartly(host, late))

Imports ==
    \E r \in workspace : (r \in Images /\ ImportImage(r)) \/ (r \in Disks /\ ImportVHD(r))

Next == ApplyStep \/ Others \/ Imports

Spec == Init /\ [][Next]_tvars

\* The user applies again and again, and calls end.
FairSpec == Spec /\ WF_tvars(ApplyStep) /\ WF_tvars(late # NoCall /\ Others)

-----------------------------------------------------------------------------
(* Types *)

ImageStates ==
    [mode : Modes, from : Origins \cup Contents \cup Paths \cup {Null},
     sum : Contents \cup {Null}, mounted : BOOLEAN, keep : BOOLEAN, force : BOOLEAN,
     sha : Files]

VhdStates ==
    [src : Paths \cup {Null}, sha : Files \cup {Null}, type : DiskTypes, size : Sizes,
     parent : Paths \cup {Null}, fill : {Fill(f) : f \in Files}]

ASSUME NoStateAssumption == NoState \notin ImageStates /\ NoState \notin VhdStates

Steps == Ended \cup {"none", "read", "create", "createVerify", "resize", "rollback", "look",
                     "update", "delete"}

TypeOK ==
    /\ workspace \in Workspaces
    /\ \A r \in Resources : cfg[r] \in Configs[r] \cup {NoConfig}
    /\ \A i \in Images : st[i] \in ImageStates \cup {NoState}
    /\ \A v \in Disks : st[v] \in VhdStates \cup {NoState}
    /\ tainted \subseteq {r \in Resources : st[r] # NoState}
    /\ phase \in {"idle", "refresh", "apply"}
    /\ op \in [Resources -> {"none", "create", "update", "replace", "delete"}]
    /\ at \in [Resources -> Steps]
    /\ tries \in [Resources -> 0 .. VerifyAttempts - 1]
    /\ host.file \in [Paths -> Files \cup {Null}]
    /\ host.origin \in [Origins -> Contents]
    /\ host.busy \subseteq {p \in Paths : Exists(host, p)}
    /\ disturbed \in BOOLEAN
    /\ events \in Nat

-----------------------------------------------------------------------------
(* Properties *)

\* Whatever else happens, a handler destroys what a guest has written to a disk
\* only to destroy or replace the disk, or to copy to it: when it has not been
\* copied yet, or its source is no longer what was copied (Update,
\* copyAndResize).
KeepsGuestData ==
    [][\A v \in Disks :
           /\ at' # at
           /\ Exists(host, v) /\ host.file[v].written
           /\ IF Exists(host', v) THEN ~host'.file[v].written ELSE TRUE
           => \/ op[v] \in {"delete", "replace"}
              \/ /\ plan[v].src # Null
                 /\ op[v] = "create" \/ plan[v].sha # st[v].sha]_tvars

\* Terraform forgets a resource only when its file is gone, and an image that
\* it is told to leave, or did not place, with the file as it was.
ForgetsOnlyTheGone ==
    [][\A r \in Resources : st[r] # NoState /\ st'[r] = NoState =>
           IF r \in Images /\ at[r] = "delete" /\ Leaves(st[r])
             THEN host'.file[r] = host.file[r] ELSE ~Exists(host', r)]_tvars

\* The image is what its source has; an url is asked once.
ImageInSync(i) ==
    LET c == cfg[i] f == host.file[i]
    IN CASE c.mode = "local" -> f = Holding(host.origin[c.from])
         [] c.mode = "bytes" -> f = Holding(c.from)
         [] c.mode = "source" -> f = host.file[c.from] /\ f # Null
         [] c.mode = "url" -> f # Null /\ (op[i] = "create" /\ c.sum # Null => f = Holding(c.sum))
         [] OTHER -> f # Null

\* The disk is as it is configured, and was copied from what its source is now.
VhdInSync(v) ==
    /\ Exists(host, v) /\ AsPlanned(VhdState(host, v, st[v]), cfg[v])
    /\ cfg[v].src # Null => st[v].sha = host.file[cfg[v].src]

InSync(r) ==
    IF cfg[r] = NoConfig THEN r \in Disks => ~Exists(host, r)
      ELSE /\ st[r] # NoState
           /\ IF r \in Images THEN ImageInSync(r) ELSE VhdInSync(r)

Unknown(r) == st[r] = NoState /\ op[r] = "none"

\* What the file is copied from was itself made or changed by this apply.
SourceChanged(r) ==
    \E q \in workspace :
        /\ op[q] # "none" /\ cfg[r] # NoConfig
        /\ IF r \in Images THEN cfg[r].mode = "source" /\ cfg[r].from = q ELSE cfg[r].src = q

\* Literal bytes that somebody else has changed are not written again.
Drifted(i) == i \in Images /\ op[i] = "update" /\ cfg[i].mode = "bytes"

\* An apply that nobody disturbs and in which nothing fails has made every
\* file what is configured, except a copy whose source it made or changed too
\* (ModifyPlan hashes it before), literal bytes that had drifted, and what
\* Terraform did not know of.
OkMeansInSync ==
    [][phase = "apply" /\ phase' = "idle" /\ ~disturbed /\ (\A r \in workspace : at[r] = "ok")
        => \A r \in workspace : InSync(r) \/ SourceChanged(r) \/ Drifted(r) \/ Unknown(r)]_tvars

\* What a copy has of its source.
Inherited(r) == IF at[r] = "resize" THEN {"type", "parent"} ELSE {}

\* What a handler may return that was not planned: the file size and, after a
\* copy, the type and the parent of a disk it updates; a child that was there
\* before, of another parent (recoverVHDNewOnDrop).
Surprising(r) ==
    /\ r \in Disks
    /\ \/ at[r] = "createVerify" /\ plan[r].type = "differencing"
       \/ /\ op[r] = "update"
          /\ \A a \in DOMAIN plan[r] \ ({"fill"} \cup Inherited(r)) : st'[r][a] = plan[r][a]

\* Undisturbed, no handler returns anything else that was not planned, which
\* Terraform reports as a bug of the provider.
ReturnsThePlan ==
    [][\A r \in Resources :
           at'[r] = "inconsistent" /\ at[r] # "inconsistent" => disturbed \/ Surprising(r)]_tvars

\* A file that Terraform does not know of: none is made over it, or it stays.
Orphaned(r) ==
    /\ st[r] = NoState /\ Exists(host, r)
    /\ cfg[r] = NoConfig \/ (r \in Disks /\ cfg[r].src = Null)

\* What no apply gets past: a file in use, a source or a parent that is not
\* there or is not what it has to be, literal bytes that have drifted, and a
\* disk that would have to shrink.
StuckAlone(r) ==
    \/ Open(host, r)
    \/ /\ cfg[r] # NoConfig
       /\ IF r \in Images
            THEN \/ Landing(host, r, cfg[r]) = Null
                 \/ cfg[r].mode = "bytes" /\ Exists(host, r)
            ELSE \/ cfg[r].src # Null /\ ~Exists(host, cfg[r].src)
                 \/ "parent" \in DOMAIN cfg[r] /\ ~Exists(host, cfg[r].parent)
                 \/ /\ "size" \in DOMAIN cfg[r]
                    /\ LET f == IF cfg[r].src = Null THEN host.file[r] ELSE host.file[cfg[r].src]
                       IN f # Null /\ cfg[r].size < f.size /\ (f.data # Blank \/ f.written)

\* A plan that fails for one fails for all, even for the image that would be
\* the missing source.
Stuck(r) ==
    \/ StuckAlone(r)
    \/ \E q \in Requires[r] \cap workspace : StuckAlone(q) \/ Orphaned(q)
    \/ \E q \in workspace :
           r \in Requires[q] /\ StuckAlone(q) /\ Operation(r, Schema(r)) \in {"delete", "replace"}
    \/ \E q \in workspace : PlanFails(q)

\* Applied again and again, every resource becomes what it is configured to
\* be, after any failures and interference.
Converges ==
    <>[](phase = "idle" => \A r \in workspace : InSync(r) \/ Orphaned(r) \/ Stuck(r))

=============================================================================
