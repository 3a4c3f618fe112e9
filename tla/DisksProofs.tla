----------------------------- MODULE DisksProofs -----------------------------
(***************************************************************************)
(* Proofs about Disks, for any images, disks, templates and configurations *)
(* and any number of edits, failures and outside changes: what a guest has *)
(* written to a disk is destroyed only where the plan says so; Terraform   *)
(* forgets only what is gone; handlers return what was planned; and an     *)
(* undisturbed apply without failures leaves the files in sync.            *)
(*                                                                         *)
(* A step of Create or Update is right or wrong by what was planned, and   *)
(* by the hash that was taken then.  So the first invariant says what a    *)
(* plan holds (Fits), where a handler can be under which operation         *)
(* (Allowed), and what a call that is left on the host may still do        *)
(* (LateFits).                                                             *)
(*                                                                         *)
(* The second, Facts, adds that what is planned is what is configured      *)
(* (Asked), that its hash is still that of what will be placed (Hashed),   *)
(* and that while nobody disturbs the host, what was read is still true    *)
(* (AsRead) and what is done stays done (Settled).  Effect says what a     *)
(* handler's step may do; StepEffect that all of them do so.               *)
(***************************************************************************)
EXTENDS Disks, TLAPS

Operations == {"none", "create", "update", "replace", "delete"}

FileHost(h) ==
    /\ h = [file |-> h.file, origin |-> h.origin, busy |-> h.busy]
    /\ h.file \in [Paths -> Files \cup {Null}]
    /\ h.origin \in [Origins -> Contents]

\* What an image is placed with.
Places(p) ==
    /\ p.mode \in Modes
    /\ p.mode \in {"url", "local"} => p.from \in Origins
    /\ p.mode = "bytes" => p.from \in Contents
    /\ p.mode = "source" => p.from \in Paths

\* What a disk is made with, copied from, and resized to.
Makes(p) ==
    /\ p.type \in DiskTypes
    /\ p.type # "differencing" => p.size \in Sizes
    /\ p.type = "differencing" => p.parent \in Paths

Resizes(p) == "size" \in DOMAIN p => p.size \in Sizes

VhdFits(o, p) ==
    /\ "src" \in DOMAIN p /\ p.src \in Paths \cup {Null}
    /\ Resizes(p)
    /\ o = "update" => /\ {"size", "sha"} \subseteq DOMAIN p
                       /\ p.src # Null => p.sha # Null
    /\ o # "update" /\ p.src = Null => Makes(p)

Fits(r) ==
    op[r] \in {"create", "update", "replace"} =>
        IF r \in Images THEN Places(plan[r]) ELSE VhdFits(op[r], plan[r])

\* Under which operations a disk's handler is at a step.
Allowed(v) ==
    /\ at[v] \in {"create", "createVerify"} => op[v] = "create"
    /\ at[v] = "update" => op[v] = "update"
    /\ at[v] = "delete" => op[v] \in {"delete", "replace"}
    /\ at[v] \in {"resize", "rollback", "look"} =>
         /\ op[v] \in {"create", "update"}
         /\ plan[v].src # Null
         /\ op[v] = "create" \/ plan[v].sha # st[v].sha
    /\ at[v] = "resize" => "size" \in DOMAIN plan[v]

Begins(i) == at[i] \in {"create", "update"} => op[i] = at[i]

Known(v) == st[v] # NoState => st[v].size \in Sizes

CallFits(c) ==
    \/ /\ c.of \in Images
       /\ c.do = "remove" \/ (c.do = "place" /\ Places(c.with))
    \/ /\ c.of \in Disks
       /\ \/ c.do = "remove"
          \/ c.do = "copy" /\ c.with.src \in Paths
          \/ c.do = "resize" /\ c.with.size \in Sizes
          \/ c.do = "new" /\ Makes(c.with)

LateFits == late # NoCall => CallFits(late)

Shape ==
    /\ workspace \subseteq Resources
    /\ cfg = [r \in Resources |-> cfg[r]]
    /\ st = [r \in Resources |-> st[r]]
    /\ plan = [r \in Resources |-> plan[r]]
    /\ op \in [Resources -> Operations]
    /\ at \in [Resources -> Steps]

Inv ==
    /\ Shape
    /\ FileHost(host)
    /\ LateFits
    /\ \A r \in Resources : cfg[r] \in Configs[r] \cup {NoConfig}
    /\ \A r \in Resources : Fits(r)
    /\ \A v \in Disks : Allowed(v) /\ Known(v)
    /\ \A i \in Images : Begins(i)
    /\ phase = "idle" => at = [r \in Resources |-> "none"]

-----------------------------------------------------------------------------
(* The host *)

LEMMA HoldingType == \A c \in Contents : Holding(c) \in Files
  BY DiskAssumption DEF Holding, Files, DiskTypes

LEMMA PlacedType ==
    ASSUME NEW h, FileHost(h), NEW p \in Paths, NEW f \in Files \cup {Null}
    PROVE  /\ FileHost(Placed(h, p, f))
           /\ Placed(h, p, f).file[p] = f
           /\ \A q \in Paths \ {p} : Placed(h, p, f).file[q] = h.file[q]
  BY DEF FileHost, Placed

LEMMA RemovedType ==
    ASSUME NEW h, FileHost(h), NEW p \in Paths
    PROVE  /\ FileHost(Removed(h, p))
           /\ Removed(h, p).file[p] = Null
           /\ \A q \in Paths \ {p} : Removed(h, p).file[q] = h.file[q]
<1> DEFINE g == [Placed(h, p, Null) EXCEPT !.busy = @ \ {p}]
<1>1. Removed(h, p) = g
  BY DEF Removed, Placed
<1>2. FileHost(Placed(h, p, Null))
  BY PlacedType
<1>3. FileHost(g) /\ g.file = Placed(h, p, Null).file
  <2> DEFINE b == Placed(h, p, Null)
  <2>1. b = [file |-> b.file, origin |-> b.origin, busy |-> b.busy] /\ FileHost(b)
    BY <1>2 DEF FileHost
  <2> HIDE DEF b
  <2>2. g = [file |-> b.file, origin |-> b.origin, busy |-> b.busy \ {p}]
    BY <2>1 DEF b
  <2> QED BY <2>1, <2>2 DEF FileHost, b
<1> QED BY <1>1, <1>3, PlacedType

LEMMA CopiedType ==
    ASSUME NEW h, FileHost(h), NEW p \in Paths, NEW source \in Paths, NEW expected
    PROVE  /\ Copied(h, p, source, expected) \in Files \cup {Null}
           /\ Copied(h, p, source, expected) # Null /\ expected # Null
                => Copied(h, p, source, expected) = expected
  BY DEF FileHost, Copied, Exists

LEMMA LandingType ==
    ASSUME NEW h, FileHost(h), NEW i \in Images, NEW p, Places(p)
    PROVE  Landing(h, i, p) \in Files \cup {Null}
<1>1. i \in Paths /\ h.file[i] \in Files \cup {Null}
  BY DEF Paths, FileHost
<1>2. CASE p.mode = "source"
  BY <1>1, <1>2, CopiedType DEF Landing, Places
<1>3. CASE p.mode # "source"
  BY <1>1, <1>3, HoldingType DEF Landing, Places, Modes, FileHost
<1> QED BY <1>2, <1>3

LEMMA PlaceType ==
    ASSUME NEW h, FileHost(h), NEW i \in Images, NEW p, Places(p)
    PROVE  /\ FileHost(Place(h, i, p))
           /\ \A q \in Paths \ {i} : Place(h, i, p).file[q] = h.file[q]
<1>1. i \in Paths
  BY DEF Paths
<1> QED BY <1>1, LandingType, PlacedType DEF Place

LEMMA NewType ==
    ASSUME NEW h, FileHost(h), NEW v \in Disks, NEW p, Makes(p), NewAccepts(h, v, p)
    PROVE  /\ FileHost(NewVHD(h, v, p)) /\ NewVHD(h, v, p).file[v] \in Files
           /\ \A q \in Paths \ {v} : NewVHD(h, v, p).file[q] = h.file[q]
<1>1. v \in Paths
  BY DEF Paths
<1> DEFINE f == NewVHD(h, v, p).file[v]
<1>2. f \in Files /\ NewVHD(h, v, p) = Placed(h, v, f)
  <2>1. CASE p.type = "differencing"
    <3> DEFINE g == [data |-> Blank, type |-> p.type, size |-> h.file[p.parent].size,
                     parent |-> p.parent, written |-> FALSE]
    <3>1. h.file[p.parent] \in Files /\ p.parent \in Paths
      BY <2>1 DEF Makes, NewAccepts, Exists, FileHost
    <3>2. g \in Files
      BY <2>1, <3>1 DEF Files, DiskTypes
    <3>3. NewVHD(h, v, p) = Placed(h, v, g)
      BY <2>1 DEF NewVHD
    <3> HIDE DEF g
    <3> QED BY <1>1, <3>2, <3>3, PlacedType
  <2>2. CASE p.type # "differencing"
    <3> DEFINE g == [data |-> Blank, type |-> p.type, size |-> p.size,
                     parent |-> Null, written |-> FALSE]
    <3>1. g \in Files
      BY <2>2 DEF Files, Makes
    <3>2. NewVHD(h, v, p) = Placed(h, v, g)
      BY <2>2 DEF NewVHD
    <3> HIDE DEF g
    <3> QED BY <1>1, <3>1, <3>2, PlacedType
  <2> QED BY <2>1, <2>2
<1>3. FileHost(Placed(h, v, f)) /\ \A q \in Paths \ {v} : Placed(h, v, f).file[q] = h.file[q]
  BY <1>1, <1>2, PlacedType
<1> QED BY <1>2, <1>3

\* A copy lands what was hashed at plan time, if anything was.
LEMMA CopyType ==
    ASSUME NEW h, FileHost(h), NEW v \in Disks, NEW p, p.src \in Paths,
           CopyLands(h, v, p) # Null
    PROVE  /\ CopyLands(h, v, p) \in Files
           /\ FileHost(Placed(h, v, CopyLands(h, v, p)))
           /\ "sha" \in DOMAIN p /\ p.sha # Null => CopyLands(h, v, p) = p.sha
<1>1. v \in Paths
  BY DEF Paths
<1> DEFINE f == Copied(h, v, p.src, Of(p, "sha", Null))
<1>2. f \in Files \cup {Null} /\ (f # Null /\ Of(p, "sha", Null) # Null => f = Of(p, "sha", Null))
  BY <1>1, CopiedType
<1>3. f # Null /\ CopyLands(h, v, p) = f
  BY DEF CopyLands
<1>4. "sha" \in DOMAIN p => Of(p, "sha", Null) = p.sha
  BY DEF Of
<1> QED BY <1>1, <1>2, <1>3, <1>4, PlacedType

\* A resize keeps the content.
LEMMA ResizeType ==
    ASSUME NEW h, FileHost(h), NEW v \in Disks, NEW size \in Sizes, ResizeAccepts(h, v, size)
    PROVE  /\ FileHost(ResizeVHD(h, v, size))
           /\ ResizeVHD(h, v, size).file[v] \in Files
           /\ ResizeVHD(h, v, size).file[v].written = h.file[v].written
           /\ \A q \in Paths \ {v} : ResizeVHD(h, v, size).file[q] = h.file[q]
<1> DEFINE f == [h.file[v] EXCEPT !.size = size]
<1>1. v \in Paths /\ h.file[v] \in Files
  BY DEF Paths, FileHost, ResizeAccepts, Exists
<1>2. f \in Files /\ f.written = h.file[v].written
  BY <1>1 DEF Files
<1>3. /\ FileHost(Placed(h, v, f)) /\ Placed(h, v, f).file[v] = f
      /\ \A q \in Paths \ {v} : Placed(h, v, f).file[q] = h.file[q]
  <2> HIDE DEF f
  <2> QED BY <1>1, <1>2, PlacedType
<1> QED BY <1>2, <1>3 DEF ResizeVHD

\* What a call that is left on the host does keeps the host's files files.
LEMMA LatePartly ==
    ASSUME FileHost(host), LateFits, late # NoCall,
           NEW h \in IF late.of \in Images THEN ImagePartly(host, late)
                                           ELSE VhdPartly(host, late)
    PROVE  FileHost(h)
<1>1. CASE late.of \in Images
  <2>1. late.of \notin Disks
    BY <1>1, DiskAssumption
  <2>2. late.do = "remove" \/ (late.do = "place" /\ Places(late.with))
    BY <2>1 DEF LateFits, CallFits
  <2>3. late.of \in Paths
    BY <1>1 DEF Paths
  <2>4. h \in {host, Removed(host, late.of), Place(host, late.of, late.with)}
    BY <1>1, <2>2 DEF ImagePartly, PlacePartly, RemovePartly
  <2>5. late.do = "place" => FileHost(Place(host, late.of, late.with))
    BY <1>1, <2>2, PlaceType
  <2>6. late.do = "remove" => h \in {host, Removed(host, late.of)}
    BY <1>1, <2>2 DEF ImagePartly, RemovePartly
  <2> QED BY <2>2, <2>3, <2>4, <2>5, <2>6, RemovedType
<1>2. CASE late.of \notin Images
  <2>1. /\ late.of \in Disks
        /\ \/ late.do = "remove"
           \/ late.do = "copy" /\ late.with.src \in Paths
           \/ late.do = "resize" /\ late.with.size \in Sizes
           \/ late.do = "new" /\ Makes(late.with)
    BY <1>2 DEF LateFits, CallFits
  <2>2. late.of \in Paths
    BY <2>1 DEF Paths
  <2>3. CASE late.do = "remove"
    <3>1. h \in {host, Removed(host, late.of)}
      BY <1>2, <2>3 DEF VhdPartly, RemoveVHDPartly
    <3> QED BY <2>2, <3>1, RemovedType
  <2>4. CASE late.do = "copy" /\ late.with.src \in Paths
    <3>1. h = host \/ (CopyLands(host, late.of, late.with) # Null
                       /\ h = Placed(host, late.of, CopyLands(host, late.of, late.with)))
      BY <1>2, <2>4 DEF VhdPartly, CopyPartly
    <3> QED BY <2>1, <2>4, <3>1, CopyType
  <2>5. CASE late.do = "resize" /\ late.with.size \in Sizes
    <3>1. h = host \/ (ResizeAccepts(host, late.of, late.with.size)
                       /\ h = ResizeVHD(host, late.of, late.with.size))
      BY <1>2, <2>5 DEF VhdPartly, ResizePartly
    <3> QED BY <2>1, <2>5, <3>1, ResizeType
  <2>6. CASE late.do = "new" /\ Makes(late.with)
    <3>1. h = host \/ (NewAccepts(host, late.of, late.with)
                       /\ h = NewVHD(host, late.of, late.with))
      BY <1>2, <2>6 DEF VhdPartly, NewPartly
    <3> QED BY <2>1, <2>6, <3>1, NewType
  <2> QED BY <2>1, <2>3, <2>4, <2>5, <2>6
<1> QED BY <1>1, <1>2

\* What others make of the host.
LEMMA ElsewhereIs ==
    ASSUME workspace \subseteq Resources, NEW h \in Elsewhere
    PROVE  \/ \E r \in workspace : h = Removed(host, r)
           \/ \E r \in workspace, c \in Contents : h = Placed(host, r, Holding(c))
           \/ \E r \in workspace : Exists(host, r) /\ h = [host EXCEPT !.busy = @ \cup {r}]
           \/ \E r \in workspace : h = [host EXCEPT !.busy = @ \ {r}]
           \/ \E v \in workspace \cap Disks :
                  Exists(host, v) /\ h = Placed(host, v, [host.file[v] EXCEPT !.written = TRUE])
           \/ \E o \in Origins, c \in Contents : h = [host EXCEPT !.origin[o] = c]
           \/ \E t \in Templates, c \in Contents : h = Placed(host, t, Holding(c))
           \/ \E t \in Templates : h = Removed(host, t)
<1> DEFINE files == {r \in workspace : Exists(host, r)}
           idle == {r \in workspace : ~Open(host, r)}
           gone == {Removed(host, r) : r \in files \cap idle}
           foreign == {Placed(host, r, Holding(c)) : r \in idle, c \in Contents}
           run == {[host EXCEPT !.busy = @ \cup {r}] : r \in files}
                  \cup {[host EXCEPT !.busy = @ \ {r}] : r \in files}
           write == {Placed(host, v, [host.file[v] EXCEPT !.written = TRUE]) :
                         v \in files \cap Disks}
           upgrade == {[host EXCEPT !.origin[o] = c] : o \in Origins \cap InUse, c \in Contents}
                      \cup {Placed(host, t, Holding(c)) : t \in Templates \cap InUse, c \in Contents}
                      \cup {Removed(host, t) : t \in Templates \cap InUse}
<1>1. h \in gone \/ h \in foreign \/ h \in run \/ h \in write \/ h \in upgrade
  <2> HIDE DEF gone, foreign, run, write, upgrade
  <2> QED BY DEF Elsewhere, gone, foreign, run, write, upgrade, idle, files
<1>2. h \in gone => \E r \in workspace : h = Removed(host, r)
  OBVIOUS
<1>3. h \in foreign => \E r \in workspace, c \in Contents : h = Placed(host, r, Holding(c))
  OBVIOUS
<1>4. h \in run => \/ \E r \in workspace : Exists(host, r) /\ h = [host EXCEPT !.busy = @ \cup {r}]
                   \/ \E r \in workspace : h = [host EXCEPT !.busy = @ \ {r}]
  OBVIOUS
<1>5. h \in write =>
          \E v \in workspace \cap Disks :
              Exists(host, v) /\ h = Placed(host, v, [host.file[v] EXCEPT !.written = TRUE])
  OBVIOUS
<1>6. h \in upgrade =>
          \/ \E o \in Origins, c \in Contents : h = [host EXCEPT !.origin[o] = c]
          \/ \E t \in Templates, c \in Contents : h = Placed(host, t, Holding(c))
          \/ \E t \in Templates : h = Removed(host, t)
  OBVIOUS
<1> QED BY <1>1, <1>2, <1>3, <1>4, <1>5, <1>6

\* So does what others do.
LEMMA ElsewhereType ==
    ASSUME FileHost(host), workspace \subseteq Resources, NEW h \in Elsewhere
    PROVE  FileHost(h)
<1>1. workspace \subseteq Paths /\ Templates \subseteq Paths /\ Disks \subseteq Paths
  BY DiskAssumption DEF Paths
<1>2. ASSUME NEW p \in Paths, NEW c \in Contents PROVE FileHost(Placed(host, p, Holding(c)))
  BY HoldingType, PlacedType
<1>3. ASSUME NEW r \in workspace
      PROVE  /\ FileHost([host EXCEPT !.busy = @ \cup {r}])
             /\ FileHost([host EXCEPT !.busy = @ \ {r}])
  BY DEF FileHost
<1>4. ASSUME NEW v \in Paths, Exists(host, v)
      PROVE  FileHost(Placed(host, v, [host.file[v] EXCEPT !.written = TRUE]))
  <2> DEFINE f == [host.file[v] EXCEPT !.written = TRUE]
  <2>1. f \in Files
    BY <1>4 DEF FileHost, Exists, Files
  <2> HIDE DEF f
  <2>2. FileHost(Placed(host, v, f))
    BY <2>1, PlacedType
  <2> QED BY <2>2 DEF f
<1>5. ASSUME NEW o \in Origins, NEW c \in Contents PROVE FileHost([host EXCEPT !.origin[o] = c])
  <2>1. [host EXCEPT !.origin[o] = c]
          = [file |-> host.file, origin |-> [host.origin EXCEPT ![o] = c], busy |-> host.busy]
    BY DEF FileHost
  <2> QED BY <2>1 DEF FileHost
<1>6. ASSUME NEW p \in Paths PROVE FileHost(Removed(host, p))
  BY RemovedType
<1> QED BY <1>1, <1>2, <1>3, <1>4, <1>5, <1>6, ElsewhereIs

-----------------------------------------------------------------------------
(* What a step leaves of guests' data *)

\* The plan has it destroyed.
MayDestroy(v) ==
    \/ op[v] \in {"delete", "replace"}
    \/ plan[v].src # Null /\ (op[v] = "create" \/ plan[v].sha # st[v].sha)

\* The host may become h by a step of r.
Spares(r, h) ==
    /\ FileHost(h)
    /\ \A q \in Paths \ {r} : h.file[q] = host.file[q]
    /\ r \in Disks /\ Exists(host, r) /\ host.file[r].written =>
           (Exists(h, r) /\ h.file[r].written) \/ MayDestroy(r)

LEMMA HostSpares == \A r : FileHost(host) => Spares(r, host)
  BY DEF Spares

LEMMA PlaceSpares ==
    ASSUME FileHost(host), NEW i \in Images, NEW p, Places(p)
    PROVE  Spares(i, Place(host, i, p)) /\ \A h \in PlacePartly(host, i, p) : Spares(i, h)
<1>1. Spares(i, Place(host, i, p))
  BY PlaceType, DiskAssumption DEF Spares
<1> QED BY <1>1, HostSpares DEF PlacePartly

LEMMA RemoveImageSpares ==
    ASSUME FileHost(host), NEW i \in Images
    PROVE  /\ Spares(i, Removed(host, i))
           /\ \A s : \A h \in RemovePartly(host, i, s) : Spares(i, h)
<1>1. Spares(i, Removed(host, i))
  BY RemovedType, DiskAssumption DEF Spares, Paths
<1> QED BY <1>1, HostSpares DEF RemovePartly

LEMMA NewSpares ==
    ASSUME FileHost(host), NEW v \in Disks, NEW p, Makes(p)
    PROVE  /\ NewAccepts(host, v, p) => Spares(v, NewVHD(host, v, p))
           /\ \A h \in NewPartly(host, v, p) : Spares(v, h)
<1>1. NewAccepts(host, v, p) => Spares(v, NewVHD(host, v, p))
  BY NewType DEF Spares, NewAccepts
<1> QED BY <1>1, HostSpares DEF NewPartly

LEMMA CopySpares ==
    ASSUME FileHost(host), NEW v \in Disks, NEW p, p.src \in Paths, MayDestroy(v)
    PROVE  /\ CopyLands(host, v, p) # Null => Spares(v, Placed(host, v, CopyLands(host, v, p)))
           /\ \A h \in CopyPartly(host, v, p) : Spares(v, h)
<1>1. ASSUME CopyLands(host, v, p) # Null
      PROVE  Spares(v, Placed(host, v, CopyLands(host, v, p)))
  <2>1. CopyLands(host, v, p) \in Files /\ v \in Paths
    BY <1>1, CopyType DEF Paths
  <2> QED BY <2>1, PlacedType DEF Spares
<1> QED BY <1>1, HostSpares DEF CopyPartly

LEMMA ResizeSpares ==
    ASSUME FileHost(host), NEW v \in Disks, NEW size \in Sizes
    PROVE  /\ ResizeAccepts(host, v, size) => Spares(v, ResizeVHD(host, v, size))
           /\ \A h \in ResizePartly(host, v, size) : Spares(v, h)
<1>1. ASSUME ResizeAccepts(host, v, size) PROVE Spares(v, ResizeVHD(host, v, size))
  <2>1. Exists(ResizeVHD(host, v, size), v)
    BY <1>1, ResizeType, DiskAssumption DEF Exists
  <2> QED BY <1>1, <2>1, ResizeType DEF Spares
<1> QED BY <1>1, HostSpares DEF ResizePartly

LEMMA RemoveVHDSpares ==
    ASSUME FileHost(host), NEW v \in Disks, MayDestroy(v)
    PROVE  Spares(v, Removed(host, v)) /\ \A h \in RemoveVHDPartly(host, v) : Spares(v, h)
<1>1. Spares(v, Removed(host, v))
  BY RemovedType DEF Spares, Paths
<1> QED BY <1>1, HostSpares DEF RemoveVHDPartly

-----------------------------------------------------------------------------
(* How steps keep the invariant *)

LEMMA InvInit == Init => Inv
<1> SUFFICES ASSUME Init PROVE Inv
  OBVIOUS
<1>1. FileHost(EmptyHost)
  BY HoldingType, DiskAssumption DEF FileHost, EmptyHost, Paths
<1>2. /\ workspace \in Workspaces
      /\ cfg = [r \in Resources |-> NoConfig] /\ st = [r \in Resources |-> NoState]
      /\ plan = [r \in Resources |-> NoPlan] /\ op = [r \in Resources |-> "none"]
      /\ at = [r \in Resources |-> "none"] /\ late = NoCall /\ host = EmptyHost
  BY DEF Init, InitTerraform
<1>3. Shape
  BY <1>2, TerraformAssumption DEF Shape, Operations, Steps
<1>4. \A r \in Resources : Fits(r) /\ Allowed(r) /\ Known(r) /\ Begins(r)
  BY <1>2 DEF Fits, Allowed, Known, Begins
<1>5. Disks \subseteq Resources /\ Images \subseteq Resources
  BY DiskAssumption
<1> QED BY <1>1, <1>2, <1>3, <1>4, <1>5 DEF Inv, LateFits

\* A step of r changes what Terraform has of r.
OwnChange(r) ==
    /\ UNCHANGED <<user, phase>>
    /\ \E x \in Steps : at' = [at EXCEPT ![r] = x]
    /\ \E s : st' = [st EXCEPT ![r] = s]
    /\ \E p : plan' = [plan EXCEPT ![r] = p]
    /\ \E o \in Operations : op' = [op EXCEPT ![r] = o]

Fine(r) == Fits(r) /\ IF r \in Images THEN Begins(r) ELSE Allowed(r) /\ Known(r)

LEMMA OwnKeeps ==
    ASSUME Inv, NEW r \in Resources, at[r] # "none", OwnChange(r),
           FileHost(host'), LateFits', Fine(r)'
    PROVE  Inv'
<1>1. PICK x \in Steps : at' = [at EXCEPT ![r] = x]
  BY DEF OwnChange
<1>2. PICK s : st' = [st EXCEPT ![r] = s]
  BY DEF OwnChange
<1>3. PICK p : plan' = [plan EXCEPT ![r] = p]
  BY DEF OwnChange
<1>4. PICK o \in Operations : op' = [op EXCEPT ![r] = o]
  BY DEF OwnChange
<1>5. Shape'
  BY <1>1, <1>2, <1>3, <1>4 DEF Inv, Shape, OwnChange, user
<1>6. \A q \in Resources \ {r} :
          at'[q] = at[q] /\ st'[q] = st[q] /\ plan'[q] = plan[q] /\ op'[q] = op[q]
  <2>1. \A q \in Resources \ {r} : at'[q] = at[q]
    BY <1>1 DEF Inv, Shape
  <2>2. \A q \in Resources \ {r} : st'[q] = st[q]
    BY <1>2 DEF Inv, Shape
  <2>3. \A q \in Resources \ {r} : plan'[q] = plan[q]
    BY <1>3 DEF Inv, Shape
  <2>4. \A q \in Resources \ {r} : op'[q] = op[q]
    BY <1>4 DEF Inv, Shape
  <2> QED BY <2>1, <2>2, <2>3, <2>4
<1>7. \A q \in Resources : Fits(q)'
  BY <1>6 DEF Inv, Fits, Fine
<1>8. \A v \in Disks : Allowed(v)' /\ Known(v)'
  BY <1>6, DiskAssumption DEF Inv, Allowed, Known, Fine
<1>9. \A i \in Images : Begins(i)'
  BY <1>6, DiskAssumption DEF Inv, Begins, Fine
<1>10. phase' # "idle"
  BY DEF Inv, OwnChange
<1>11. cfg' = cfg
  BY DEF OwnChange, user
<1> QED BY <1>5, <1>7, <1>8, <1>9, <1>10, <1>11 DEF Inv

\* Every way in which a handler ends.
LEMMA EndKeeps ==
    ASSUME Inv, NEW r \in Resources, at[r] # "none",
           NEW s, r \in Disks /\ s # NoState => s.size \in Sizes,
           Fail(r) \/ Refreshed(r, s) \/ Return(r, s) \/ Deleted(r),
           UNCHANGED user, FileHost(host'), LateFits'
    PROVE  Inv'
<1> USE DEF Inv, Shape, memory, walk
<1>1. CASE Fail(r) \/ Refreshed(r, s) \/ Return(r, s)
  <2>1. /\ \E x \in Ended : at' = [at EXCEPT ![r] = x]
        /\ st' = [st EXCEPT ![r] = st[r]] \/ st' = [st EXCEPT ![r] = s]
        /\ UNCHANGED <<phase, op, plan>>
    <3>1. st = [st EXCEPT ![r] = st[r]]
      OBVIOUS
    <3>2. CASE Fail(r)
      BY <3>1, <3>2 DEF Fail, Ended
    <3>3. CASE Refreshed(r, s)
      BY <3>3 DEF Refreshed, Ended
    <3>4. CASE Return(r, s)
      <4>1. \E x \in {"ok", "inconsistent"} : at' = [at EXCEPT ![r] = x]
        BY <3>4 DEF Return
      <4> QED BY <3>4, <4>1 DEF Return, Ended
    <3> QED BY <1>1, <3>2, <3>3, <3>4
  <2>2. at'[r] \in Ended
    BY <2>1
  <2>3. OwnChange(r)
    <3>1. plan' = [plan EXCEPT ![r] = plan[r]] /\ op' = [op EXCEPT ![r] = op[r]]
      BY <2>1
    <3> QED BY <2>1, <3>1 DEF OwnChange, Steps
  <2>4. Fits(r)'
    BY <2>1 DEF Fits
  <2>5. r \in Disks => Known(r)'
    BY <2>1 DEF Known
  <2>6. Allowed(r)' /\ Begins(r)'
    BY <2>2 DEF Allowed, Begins, Ended
  <2> QED BY <2>3, <2>4, <2>5, <2>6, OwnKeeps, DiskAssumption DEF Fine
<1>2. CASE Deleted(r)
  <2>1. /\ st' = [st EXCEPT ![r] = NoState]
        /\ plan' = [plan EXCEPT ![r] = plan[r]]
        /\ phase' = phase
    BY <1>2 DEF Deleted
  <2>2. \/ /\ op[r] = "replace"
           /\ op' = [op EXCEPT ![r] = "create"] /\ at' = [at EXCEPT ![r] = "create"]
        \/ /\ op' = [op EXCEPT ![r] = op[r]] /\ at' = [at EXCEPT ![r] = "ok"]
    BY <1>2 DEF Deleted
  <2>3. OwnChange(r)
    BY <2>1, <2>2 DEF OwnChange, Steps, Ended, Operations
  <2>4. Fits(r)'
    BY <2>1, <2>2 DEF Fits, VhdFits
  <2>5. Allowed(r)' /\ Begins(r)' /\ Known(r)'
    BY <2>1, <2>2 DEF Allowed, Begins, Known
  <2> QED BY <2>3, <2>4, <2>5, OwnKeeps DEF Fine
<1> QED BY <1>1, <1>2

\* How a call leaves the host.
LEMMA CallHost ==
    ASSUME FileHost(host), LateFits, NEW r, NEW c, NEW partly, CallFails(c, partly),
           CallFits(c), \A h \in partly : Spares(r, h)
    PROVE  FileHost(host') /\ LateFits' /\ UNCHANGED user /\ Spares(r, host')
<1>1. host' \in partly \/ host' = host
  BY DEF CallFails
<1> QED BY <1>1, HostSpares DEF CallFails, LateFits, Spares

LEMMA RanHost ==
    ASSUME LateFits, NEW r, NEW h, Ran(h), Spares(r, h)
    PROVE  FileHost(host') /\ LateFits' /\ UNCHANGED user /\ Spares(r, host')
  BY DEF Ran, LateFits, Spares

LEMMA ReadHost ==
    ASSUME FileHost(host), LateFits, NEW r, ReadFails
    PROVE  FileHost(host') /\ LateFits' /\ UNCHANGED user /\ Spares(r, host')
  BY HostSpares DEF ReadFails, LateFits

\* A call after which the handler is over, well or not.
LEMMA CallEnds ==
    ASSUME Inv, NEW r \in Resources, at[r] # "none",
           NEW s, r \in Disks /\ s # NoState => s.size \in Sizes,
           Fail(r) \/ Refreshed(r, s) \/ Return(r, s) \/ Deleted(r),
           FileHost(host') /\ LateFits' /\ UNCHANGED user /\ Spares(r, host')
    PROVE  Inv' /\ Spares(r, host')
  BY EndKeeps

\* The disk that is read has a size.
LEMMA ReadSize ==
    ASSUME NEW h, FileHost(h), NEW v \in Disks, Exists(h, v), NEW p
    PROVE  VhdState(h, v, p).size \in Sizes
<1>1. h.file[v] \in Files
  BY DEF FileHost, Exists, Paths
<1>2. VhdState(h, v, p).size = h.file[v].size
  BY DEF VhdState
<1> QED BY <1>1, <1>2 DEF Files

LEMMA ImageStepKeeps ==
    ASSUME Inv, NEW i \in Images, ImageStep(i)
    PROVE  Inv' /\ Spares(i, host')
<1> USE DEF Inv
<1>1. i \in Resources /\ i \notin Disks /\ FileHost(host) /\ LateFits
  BY DiskAssumption
<1>2. Spares(i, host)
  BY HostSpares
<1>3. ASSUME at[i] \in {"create", "update"}, PlaceImage(i)
      PROVE  Inv' /\ Spares(i, host')
  <2>1. Places(plan[i])
    BY <1>1, <1>3 DEF Begins, Fits
  <2>2. CallFits(PlaceCall(i))
    BY <2>1 DEF CallFits, PlaceCall
  <2>3. CASE /\ Ran(Place(host, i, plan[i]))
             /\ Return(i, ImageState(host', i, plan[i]))
    BY <1>1, <1>3, <2>1, <2>3, PlaceSpares, RanHost, CallEnds
  <2>4. CASE Ran(host) /\ Fail(i)
    BY <1>1, <1>2, <1>3, <2>4, RanHost, CallEnds
  <2>5. CASE CallFails(PlaceCall(i), PlacePartly(host, i, plan[i])) /\ Fail(i)
    <3>1. FileHost(host') /\ LateFits' /\ UNCHANGED user /\ Spares(i, host')
      BY <1>1, <2>1, <2>2, <2>5, PlaceSpares, CallHost
    <3> QED BY <1>1, <1>3, <2>5, <3>1, CallEnds
  <2> QED BY <1>3, <2>3, <2>4, <2>5 DEF PlaceImage
<1>4. CASE CreateImage(i)
  BY <1>3, <1>4 DEF CreateImage
<1>5. CASE ReadImage(i)
  <2>1. CASE ReadFails /\ Fail(i)
    BY <1>1, <1>5, <2>1, ReadHost, CallEnds DEF ReadImage
  <2>2. CASE /\ Ran(host)
             /\ Refreshed(i, IF Exists(host, i) THEN ImageState(host, i, st[i]) ELSE NoState)
    <3>1. FileHost(host') /\ LateFits' /\ UNCHANGED user /\ Spares(i, host')
      BY <1>1, <1>2, <2>2, RanHost
    <3> QED BY <1>1, <1>5, <2>2, <3>1, CallEnds DEF ReadImage
  <2> QED BY <1>5, <2>1, <2>2 DEF ReadImage
<1>6. CASE UpdateImage(i)
  <2>1. CASE Rewrites(i) /\ PlaceImage(i)
    BY <1>3, <1>6, <2>1 DEF UpdateImage
  <2>2. CASE Ran(host) /\ Return(i, plan[i])
    <3>1. FileHost(host') /\ LateFits' /\ UNCHANGED user /\ Spares(i, host')
      BY <1>1, <1>2, <2>2, RanHost
    <3> QED BY <1>1, <1>6, <2>2, <3>1, CallEnds DEF UpdateImage
  <2> QED BY <1>6, <2>1, <2>2 DEF UpdateImage
<1>7. CASE DeleteImage(i)
  <2>1. CASE Ran(host) /\ (Deleted(i) \/ Fail(i))
    <3>1. FileHost(host') /\ LateFits' /\ UNCHANGED user /\ Spares(i, host')
      BY <1>1, <1>2, <2>1, RanHost
    <3> QED BY <1>1, <1>7, <2>1, <3>1, CallEnds DEF DeleteImage
  <2>2. CASE Ran(Removed(host, i)) /\ Deleted(i)
    <3>1. FileHost(host') /\ LateFits' /\ UNCHANGED user /\ Spares(i, host')
      BY <1>1, <2>2, RemoveImageSpares, RanHost
    <3> QED BY <1>1, <1>7, <2>2, <3>1, CallEnds DEF DeleteImage
  <2>3. CASE CallFails(RemoveImageCall(i), RemovePartly(host, i, st[i])) /\ Fail(i)
    <3>1. CallFits(RemoveImageCall(i))
      BY DEF CallFits, RemoveImageCall
    <3>2. FileHost(host') /\ LateFits' /\ UNCHANGED user /\ Spares(i, host')
      BY <1>1, <2>3, <3>1, RemoveImageSpares, CallHost
    <3> QED BY <1>1, <1>7, <2>3, <3>2, CallEnds DEF DeleteImage
  <2> QED BY <1>7, <2>1, <2>2, <2>3 DEF DeleteImage
<1> QED BY <1>4, <1>5, <1>6, <1>7 DEF ImageStep

\* A step within a disk's handler.
LEMMA MoveKeeps ==
    ASSUME Inv, NEW v \in Disks, at[v] # "none", NEW step \in Steps, Goto(v, step),
           FileHost(host') /\ LateFits' /\ UNCHANGED user /\ Spares(v, host'),
           \/ step = "createVerify" /\ op[v] = "create"
           \/ step = "rollback" /\ at[v] = "resize"
    PROVE  Inv' /\ Spares(v, host')
<1> USE DEF Inv, Shape
<1>1. v \in Resources /\ v \notin Images
  BY DiskAssumption
<1>2. at' = [at EXCEPT ![v] = step] /\ UNCHANGED <<st, plan, op, phase>>
  BY DEF Goto, memory, walk
<1>3. OwnChange(v)
  <2>1. /\ st' = [st EXCEPT ![v] = st[v]] /\ plan' = [plan EXCEPT ![v] = plan[v]]
        /\ op' = [op EXCEPT ![v] = op[v]] /\ op[v] \in Operations
    BY <1>1, <1>2
  <2> QED BY <1>2, <2>1 DEF OwnChange
<1>4. Fits(v)' /\ Known(v)'
  BY <1>1, <1>2 DEF Fits, Known
<1>5. Allowed(v)'
  BY <1>1, <1>2 DEF Allowed
<1> QED BY <1>1, <1>3, <1>4, <1>5, OwnKeeps DEF Fine

LEMMA PollKeeps ==
    ASSUME Inv, NEW v \in Disks, at[v] # "none", PollFails(v)
    PROVE  Inv' /\ Spares(v, host')
<1>1. v \in Resources /\ FileHost(host) /\ LateFits
  BY DiskAssumption DEF Inv
<1>2. FileHost(host') /\ LateFits' /\ UNCHANGED user /\ Spares(v, host')
  BY <1>1, ReadHost DEF PollFails
<1>3. CASE Fail(v)
  BY <1>1, <1>2, <1>3, CallEnds
<1>4. CASE UNCHANGED <<memory, walk, at>>
  BY <1>2, <1>4 DEF Inv, Shape, Fits, Allowed, Known, Begins, memory, walk, user
<1> QED BY <1>3, <1>4 DEF PollFails

\* A handler whose call left the host as it was.
LEMMA QuietEnds ==
    ASSUME Inv, NEW r \in Resources, at[r] # "none", Ran(host) \/ ReadFails,
           NEW s, r \in Disks /\ s # NoState => s.size \in Sizes,
           Fail(r) \/ Refreshed(r, s) \/ Return(r, s) \/ Deleted(r)
    PROVE  Inv' /\ Spares(r, host')
  BY HostSpares, RanHost, ReadHost, CallEnds DEF Inv

LEMMA CreateKeeps ==
    ASSUME Inv, NEW v \in Disks, CreateVHD(v)
    PROVE  Inv' /\ Spares(v, host')
<1>1. v \in Resources /\ v \notin Images /\ v \in Paths /\ FileHost(host) /\ LateFits
  BY DiskAssumption DEF Inv, Paths
<1>2. at[v] # "none" /\ op[v] = "create" /\ Makes(plan[v])
  BY <1>1 DEF CreateVHD, Inv, Allowed, Fits, VhdFits
<1>3. CASE /\ NewAccepts(host, v, plan[v])
           /\ Ran(NewVHD(host, v, plan[v]))
           /\ Return(v, VhdState(host', v, plan[v]))
  <2>1. FileHost(host') /\ LateFits' /\ UNCHANGED user /\ Spares(v, host')
    BY <1>1, <1>2, <1>3, NewSpares, RanHost
  <2>2. Exists(host', v)
    BY <1>1, <1>2, <1>3, NewType, DiskAssumption DEF Ran, Exists
  <2>3. VhdState(host', v, plan[v]).size \in Sizes
    BY <2>1, <2>2, ReadSize
  <2> QED BY <1>1, <1>2, <1>3, <2>1, <2>3, CallEnds
<1>4. CASE Ran(host) /\ Fail(v)
  BY <1>1, <1>2, <1>4, QuietEnds
<1>5. CASE /\ CallFails(VhdCall("new", v), NewPartly(host, v, plan[v]))
           /\ Fail(v) \/ Goto(v, "createVerify")
  <2>1. CallFits(VhdCall("new", v))
    BY <1>2 DEF CallFits, VhdCall
  <2>2. FileHost(host') /\ LateFits' /\ UNCHANGED user /\ Spares(v, host')
    BY <1>1, <1>2, <1>5, <2>1, NewSpares, CallHost
  <2>3. CASE Fail(v)
    BY <1>1, <1>2, <2>2, <2>3, CallEnds
  <2>4. CASE Goto(v, "createVerify")
    BY <1>2, <2>2, <2>4, MoveKeeps DEF Steps
  <2> QED BY <1>5, <2>3, <2>4
<1> QED BY <1>3, <1>4, <1>5 DEF CreateVHD

LEMMA LookKeeps ==
    ASSUME Inv, NEW v \in Disks, VerifyVHD(v) \/ LookAtCopy(v) \/ ReadVHD(v)
    PROVE  Inv' /\ Spares(v, host')
<1>1. v \in Resources /\ FileHost(host) /\ at[v] # "none"
  BY DiskAssumption DEF Inv, VerifyVHD, LookAtCopy, ReadVHD
<1>2. \A p : Exists(host, v) => VhdState(host, v, p).size \in Sizes
  BY <1>1, ReadSize
<1>3. CASE VerifyVHD(v)
  BY <1>1, <1>2, <1>3, QuietEnds, PollKeeps DEF VerifyVHD, Expected
<1>4. CASE LookAtCopy(v)
  BY <1>1, <1>2, <1>4, QuietEnds DEF LookAtCopy
<1>5. CASE ReadVHD(v)
  <2> DEFINE s == IF Exists(host, v) THEN VhdState(host, v, st[v]) ELSE NoState
  <2>1. s # NoState => s.size \in Sizes
    BY <1>2
  <2> HIDE DEF s
  <2>2. (Ran(host) /\ Refreshed(v, s)) \/ (ReadFails /\ Fail(v))
    BY <1>5 DEF ReadVHD, s
  <2> QED BY <1>1, <2>1, <2>2, QuietEnds
<1> QED BY <1>3, <1>4, <1>5

LEMMA CopyKeeps ==
    ASSUME Inv, NEW v \in Disks, CopyVHD(v)
    PROVE  Inv' /\ Spares(v, host')
<1>1. v \in Resources /\ v \notin Images /\ v \in Paths /\ FileHost(host) /\ LateFits
  BY DiskAssumption DEF Inv, Paths
<1>2. at[v] # "none" /\ op[v] \in {"create", "update"} /\ VhdFits(op[v], plan[v])
  BY <1>1 DEF CopyVHD, CopyDue, Inv, Allowed, Fits
<1>3. plan[v].src # Null /\ plan[v].src \in Paths /\ MayDestroy(v)
  BY <1>1, <1>2 DEF CopyVHD, CopyDue, VhdFits, MayDestroy, Inv, Allowed
<1>4. CASE CopyLands(host, v, plan[v]) # Null
           /\ Ran(Placed(host, v, CopyLands(host, v, plan[v])))
           /\ at' = [at EXCEPT ![v] = IF "size" \in DOMAIN plan[v] THEN "resize" ELSE "look"]
           /\ plan' = [plan EXCEPT ![v] =
                          [a \in DOMAIN plan[v] \cup {"sha"} |->
                              IF a = "sha" THEN CopyLands(host, v, plan[v]) ELSE plan[v][a]]]
           /\ UNCHANGED <<memory, phase, op, tries>>
  <2> DEFINE f == CopyLands(host, v, plan[v])
             p == [a \in DOMAIN plan[v] \cup {"sha"} |-> IF a = "sha" THEN f ELSE plan[v][a]]
  <2>1. FileHost(host') /\ LateFits' /\ UNCHANGED user /\ Spares(v, host')
    BY <1>1, <1>3, <1>4, CopySpares, RanHost
  <2>2. f # Null /\ ("sha" \in DOMAIN plan[v] /\ plan[v].sha # Null => f = plan[v].sha)
    BY <1>1, <1>3, <1>4, CopyType
  <2>3. plan' = [plan EXCEPT ![v] = p]
    BY <1>4
  <2>4. /\ DOMAIN p = DOMAIN plan[v] \cup {"sha"} /\ p.sha = f
        /\ p.src = plan[v].src /\ ("size" \in DOMAIN p => p.size = plan[v].size)
    BY <1>2 DEF VhdFits
  <2>5. VhdFits(op[v], p)
    BY <1>2, <1>3, <2>2, <2>4 DEF VhdFits, Resizes
  <2>6. op[v] = "create" \/ p.sha # st[v].sha
    BY <1>1, <1>2, <1>3, <2>2, <2>4 DEF CopyVHD, CopyDue, VhdFits, Inv, Allowed
  <2> HIDE DEF p
  <2>7. plan'[v] = p /\ op' = op /\ st' = st
    BY <1>1, <1>4, <2>3 DEF Inv, Shape, memory
  <2>8. at'[v] \in {"resize", "look"} /\ (at'[v] = "resize" => "size" \in DOMAIN p)
    BY <1>1, <1>4, <2>4 DEF Inv, Shape
  <2>9. OwnChange(v)
    <3>1. \E x \in {"resize", "look"} : at' = [at EXCEPT ![v] = x]
      BY <1>4
    <3>2. st' = [st EXCEPT ![v] = st[v]] /\ op' = [op EXCEPT ![v] = op[v]]
          /\ op[v] \in Operations /\ phase' = phase
      BY <1>1, <1>4, <2>7 DEF Inv, Shape
    <3> QED BY <2>1, <2>3, <3>1, <3>2 DEF OwnChange, Steps
  <2>10. Fits(v)' /\ Known(v)'
    BY <1>1, <2>5, <2>7 DEF Fits, Known, Inv
  <2>11. Allowed(v)'
    BY <1>2, <1>3, <2>4, <2>6, <2>7, <2>8 DEF Allowed
  <2> QED BY <1>1, <1>2, <2>1, <2>9, <2>10, <2>11, OwnKeeps DEF Fine
<1>5. CASE Ran(host) /\ Fail(v)
  BY <1>1, <1>2, <1>5, QuietEnds
<1>6. CASE CallFails(VhdCall("copy", v), CopyPartly(host, v, plan[v])) /\ Fail(v)
  <2>1. CallFits(VhdCall("copy", v))
    BY <1>3 DEF CallFits, VhdCall
  <2>2. FileHost(host') /\ LateFits' /\ UNCHANGED user /\ Spares(v, host')
    BY <1>1, <1>3, <1>6, <2>1, CopySpares, CallHost
  <2> QED BY <1>1, <1>2, <1>6, <2>2, CallEnds
<1> QED BY <1>4, <1>5, <1>6 DEF CopyVHD

\* Resize-VHD in place, or of a copy.
LEMMA ResizeKeeps ==
    ASSUME Inv, NEW v \in Disks, ResizeCopy(v) \/ UpdateVHD(v)
    PROVE  Inv' /\ Spares(v, host')
<1>1. v \in Resources /\ v \notin Images /\ v \in Paths /\ FileHost(host) /\ LateFits
  BY DiskAssumption DEF Inv, Paths
<1>2. at[v] # "none" /\ op[v] \in {"create", "update"} /\ plan[v].size \in Sizes
  BY <1>1 DEF ResizeCopy, UpdateVHD, Inv, Allowed, Fits, VhdFits, Resizes
<1>3. CASE /\ ResizeAccepts(host, v, plan[v].size)
           /\ Ran(ResizeVHD(host, v, plan[v].size))
           /\ Return(v, VhdState(host', v, plan[v]))
  <2>1. FileHost(host') /\ LateFits' /\ UNCHANGED user /\ Spares(v, host')
    BY <1>1, <1>2, <1>3, ResizeSpares, RanHost
  <2>2. Exists(host', v)
    BY <1>1, <1>2, <1>3, ResizeType, DiskAssumption DEF Ran, Exists
  <2>3. VhdState(host', v, plan[v]).size \in Sizes
    BY <2>1, <2>2, ReadSize
  <2> QED BY <1>1, <1>2, <1>3, <2>1, <2>3, CallEnds
<1>4. CASE Ran(host) /\ (Fail(v) \/ Return(v, plan[v]))
  BY <1>1, <1>2, <1>4, QuietEnds
<1>5. CASE Ran(host) /\ Goto(v, "rollback") /\ at[v] = "resize"
  BY <1>1, <1>2, <1>5, HostSpares, RanHost, MoveKeeps DEF Steps
<1>6. CASE /\ CallFails(VhdCall("resize", v), ResizePartly(host, v, plan[v].size))
           /\ Fail(v) \/ (Goto(v, "rollback") /\ at[v] = "resize")
  <2>1. CallFits(VhdCall("resize", v))
    BY <1>2 DEF CallFits, VhdCall
  <2>2. FileHost(host') /\ LateFits' /\ UNCHANGED user /\ Spares(v, host')
    BY <1>1, <1>2, <1>6, <2>1, ResizeSpares, CallHost
  <2>3. CASE Fail(v)
    BY <1>1, <1>2, <2>2, <2>3, CallEnds
  <2>4. CASE Goto(v, "rollback") /\ at[v] = "resize"
    BY <1>2, <2>2, <2>4, MoveKeeps DEF Steps
  <2> QED BY <1>6, <2>3, <2>4
<1> QED BY <1>3, <1>4, <1>5, <1>6 DEF ResizeCopy, UpdateVHD

\* The roll-back of a copy, and Delete.
LEMMA RemoveKeeps ==
    ASSUME Inv, NEW v \in Disks, RollBack(v) \/ DeleteVHD(v)
    PROVE  Inv' /\ Spares(v, host')
<1>1. v \in Resources /\ FileHost(host) /\ LateFits
  BY DiskAssumption DEF Inv
<1>2. at[v] # "none" /\ MayDestroy(v)
  BY DEF RollBack, DeleteVHD, MayDestroy, Inv, Allowed
<1>3. CASE Ran(host) /\ (Fail(v) \/ Deleted(v))
  BY <1>1, <1>2, <1>3, QuietEnds
<1>4. CASE Ran(Removed(host, v)) /\ (Fail(v) \/ Deleted(v))
  BY <1>1, <1>2, <1>4, RemoveVHDSpares, RanHost, CallEnds
<1>5. CASE CallFails(VhdCall("remove", v), RemoveVHDPartly(host, v)) /\ Fail(v)
  <2>1. CallFits(VhdCall("remove", v))
    BY DEF CallFits, VhdCall
  <2>2. FileHost(host') /\ LateFits' /\ UNCHANGED user /\ Spares(v, host')
    BY <1>1, <1>2, <1>5, <2>1, RemoveVHDSpares, CallHost
  <2> QED BY <1>1, <1>2, <1>5, <2>2, CallEnds
<1> QED BY <1>3, <1>4, <1>5 DEF RollBack, DeleteVHD

LEMMA StepKeeps ==
    ASSUME Inv, NEW r \in workspace, Step(r)
    PROVE  Inv' /\ Spares(r, host')
  BY ImageStepKeeps, CreateKeeps, LookKeeps, CopyKeeps, ResizeKeeps, RemoveKeeps
     DEF Step, VhdStep

-----------------------------------------------------------------------------
(* What Terraform and others do *)

LEMMA QuietKeeps ==
    ASSUME Inv, Quiet
    PROVE  Inv' /\ host' = host
<1>1. /\ at' = [r \in Resources |-> "none"] /\ op' = [r \in Resources |-> "none"]
      /\ plan' = [r \in Resources |-> NoPlan]
      /\ UNCHANGED <<workspace, cfg, st, host, late>>
  BY DEF Quiet, user, memory
<1>2. Shape'
  BY <1>1 DEF Inv, Shape, Operations, Steps
<1>3. \A r \in Resources : Fits(r)' /\ Allowed(r)' /\ Begins(r)' /\ (Known(r) => Known(r)')
  BY <1>1 DEF Fits, Allowed, Begins, Known
<1>4. Disks \subseteq Resources /\ Images \subseteq Resources
  BY DiskAssumption
<1> QED BY <1>1, <1>2, <1>3, <1>4 DEF Inv, LateFits

\* What an image is planned to be placed with.
LEMMA PlannedImage ==
    ASSUME Inv, NEW i \in Images,
           Operation(i, ImageSchema(i)) \in {"create", "update", "replace"}
    PROVE  Places(Planned(i, ImageSchema(i)))
<1> DEFINE c == cfg[i]
           p == Planned(i, ImageSchema(i))
<1>1. i \in Resources /\ c \in Configs[i] \cup {NoConfig}
  BY DiskAssumption DEF Inv
<1>2. c # NoConfig
  BY DEF Operation
<1>3. WellFormedImage(i, c)
  BY <1>1, <1>2, ImageAssumption
<1>4. \E prior : p = Proposed(c, prior, ImageSchema(i))
  BY DEF Planned
<1>5. DOMAIN ImageSchema(i).sets \subseteq {"sha"}
  BY DEF ImageSchema, ImageSets, NoSets
<1>6. p.mode = c.mode /\ p.from = c.from
  BY <1>3, <1>4, <1>5 DEF Proposed, WellFormedImage
<1>7. c.mode \in Modes /\ c.from \in CASE c.mode \in {"url", "local"} -> Origins
                                       [] c.mode = "bytes" -> Contents
                                       [] c.mode = "source" -> Paths \ {i}
                                       [] c.mode = "host" -> {Null}
  BY <1>3 DEF WellFormedImage
<1> HIDE DEF p, c
<1>8. Places(p)
  BY <1>6, <1>7 DEF Places, Modes
<1> QED BY <1>8 DEF p

\* What a disk is planned to be made with or copied from, by a plan that does
\* not fail.
LEMMA PlannedDisk ==
    ASSUME Inv, NEW v \in Disks, ~VhdPlanFails(v),
           Operation(v, VhdSchema(v)) \in {"create", "update", "replace"}
    PROVE  VhdFits(Operation(v, VhdSchema(v)), Planned(v, VhdSchema(v)))
<1> DEFINE c == cfg[v]
           o == Operation(v, VhdSchema(v))
           p == Planned(v, VhdSchema(v))
<1>1. v \in Resources /\ v \in Paths /\ c \in Configs[v] \cup {NoConfig} /\ FileHost(host) /\ Known(v)
  BY DiskAssumption DEF Inv, Paths
<1>2. c # NoConfig
  BY DEF Operation
<1>3. WellFormedVhd(v, c)
  BY <1>1, <1>2, VhdAssumption
<1>4. VhdSchema(v).sets = VhdSets(v) /\ VhdSchema(v).sticky = {"type", "size", "parent", "sha", "fill"}
  BY DEF VhdSchema
<1>5. /\ o = "update" => p = Proposed(c, st[v], VhdSchema(v)) /\ st[v] # NoState /\ v \notin tainted
      /\ o # "update" => p = Proposed(c, NoState, VhdSchema(v))
  BY DEF Planned, Operation
<1>6. /\ DOMAIN VhdSets(v) \subseteq {"sha"}
      /\ Copies(c) /\ Exists(host, c.src) =>
             DOMAIN VhdSets(v) = {"sha"} /\ VhdSets(v).sha = host.file[c.src]
  BY DEF VhdSets, NoSets
<1>7. \A a \in DOMAIN c \ {"sha"} : a \in DOMAIN p /\ p[a] = c[a]
  BY <1>4, <1>5, <1>6 DEF Proposed
<1>8. "src" \in DOMAIN p /\ p.src = c.src /\ p.src \in Paths \cup {Null}
  BY <1>3, <1>7 DEF WellFormedVhd, SourceModeAllows
<1>9. Resizes(p)
  <2>1. CASE "size" \in DOMAIN c
    BY <1>3, <1>7, <2>1 DEF WellFormedVhd, SizeAllowed, Resizes
  <2>2. CASE "size" \notin DOMAIN c
    BY <1>1, <1>4, <1>5, <1>6, <2>2 DEF Proposed, Resizes, Known
  <2> QED BY <2>1, <2>2
<1>10. o = "update" => {"size", "sha"} \subseteq DOMAIN p
  BY <1>4, <1>5 DEF Proposed
<1>11. o = "update" /\ p.src # Null => p.sha # Null
  <2> SUFFICES ASSUME o = "update", c.src # Null PROVE p.sha # Null
    BY <1>8
  <2>1. Copies(c) /\ Exists(host, c.src)
    BY <1>2, <1>5 DEF Copies, VhdPlanFails, SourceGone
  <2>2. p.sha = host.file[c.src]
    BY <1>4, <1>5, <1>6, <2>1 DEF Proposed
  <2> QED BY <2>1, <2>2 DEF Exists
<1>12. o # "update" /\ p.src = Null => Makes(p)
  BY <1>3, <1>7, <1>8 DEF WellFormedVhd, SourceModeAllows, ParentAllowed, SizeAllowed, Makes
<1> QED BY <1>8, <1>9, <1>10, <1>11, <1>12 DEF VhdFits

LEMMA PlanKeeps ==
    ASSUME Inv, PlanAll([r \in workspace |-> Schema(r)], \A r \in workspace : ~PlanFails(r))
    PROVE  Inv' /\ host' = host
<1>1. CASE Quiet
  BY <1>1, QuietKeeps
<1>2. CASE ~Quiet
  <2> DEFINE all == [r \in workspace |-> Schema(r)]
  <2>1. /\ \A r \in workspace : ~PlanFails(r)
        /\ phase' = "apply"
        /\ op' = [r \in Resources |->
                      IF r \in workspace THEN Operation(r, all[r]) ELSE "none"]
        /\ plan' = [r \in Resources |->
                        IF r \in workspace THEN Planned(r, all[r]) ELSE NoPlan]
        /\ at' = [r \in Resources |-> Handler(op'[r])]
        /\ UNCHANGED <<workspace, cfg, st, host, late>>
    BY <1>2 DEF PlanAll, user, memory, world
  <2>2. \A r \in workspace : all[r] = Schema(r)
    OBVIOUS
  <2>3. \A r : \A schema : Operation(r, schema) \in Operations
    BY DEF Operation, Operations
  <2> HIDE DEF all
  <2>4. op' \in [Resources -> Operations] /\ plan' = [r \in Resources |-> plan'[r]]
    BY <2>1, <2>3 DEF Operations
  <2>5. at' \in [Resources -> Steps]
    BY <2>1, <2>4 DEF Handler, Operations, Steps, Ended
  <2>6. Shape'
    BY <2>1, <2>4, <2>5 DEF Inv, Shape
  <2>7. ASSUME NEW r \in Resources PROVE Fits(r)'
    <3>1. CASE r \in workspace /\ r \in Images
      BY <2>1, <2>2, <3>1, PlannedImage DEF Schema, Fits
    <3>2. CASE r \in workspace /\ r \notin Images
      <4>1. r \in Disks /\ ~VhdPlanFails(r)
        BY <2>1, <3>2, DiskAssumption DEF PlanFails
      <4>2. op'[r] = Operation(r, VhdSchema(r)) /\ plan'[r] = Planned(r, VhdSchema(r))
        BY <2>1, <2>2, <3>2 DEF Schema
      <4> QED BY <3>2, <4>1, <4>2, PlannedDisk DEF Fits
    <3>3. CASE r \notin workspace
      BY <2>1, <3>3 DEF Fits
    <3> QED BY <3>1, <3>2, <3>3
  <2>8. \A r \in Resources : Allowed(r)' /\ Begins(r)' /\ (Known(r) => Known(r)')
    BY <2>1, <2>4 DEF Allowed, Begins, Known, Handler, Operations
  <2>9. Disks \subseteq Resources /\ Images \subseteq Resources
    BY DiskAssumption
  <2> QED BY <2>1, <2>6, <2>7, <2>8, <2>9 DEF Inv, LateFits
<1> QED BY <1>1, <1>2

LEMMA WalkKeeps ==
    ASSUME Inv, Walk
    PROVE  Inv' /\ host' = host
<1>1. CASE Start
  <2>1. /\ phase' = "refresh"
        /\ at' = [r \in Resources |-> IF r \in workspace /\ st[r] # NoState THEN "read" ELSE "ok"]
        /\ UNCHANGED <<workspace, cfg, st, op, plan, host, late>>
    BY <1>1 DEF Start, user, memory, world
  <2>2. Shape'
    BY <2>1 DEF Inv, Shape, Steps, Ended
  <2>3. \A r \in Resources : /\ Fits(r) => Fits(r)'
                             /\ Allowed(r)' /\ Begins(r)' /\ (Known(r) => Known(r)')
    BY <2>1 DEF Fits, Allowed, Begins, Known
  <2>4. Disks \subseteq Resources /\ Images \subseteq Resources
    BY DiskAssumption
  <2> QED BY <2>1, <2>2, <2>3, <2>4 DEF Inv, LateFits
<1>2. CASE PlanAll([r \in workspace |-> Schema(r)], \A r \in workspace : ~PlanFails(r))
  BY <1>2, PlanKeeps
<1>3. ASSUME NEW r \in workspace, Skip(r) PROVE Inv' /\ host' = host
  <2>1. r \in Resources /\ phase = "apply"
    BY <1>3 DEF Inv, Shape, Skip
  <2>2. at' = [at EXCEPT ![r] = "error"] /\ at[r] # "none"
        /\ UNCHANGED <<user, phase, st, op, plan, host, late>>
    BY <1>3 DEF Skip, memory, walk, world
  <2>3. OwnChange(r)
    <3>1. /\ st' = [st EXCEPT ![r] = st[r]] /\ plan' = [plan EXCEPT ![r] = plan[r]]
          /\ op' = [op EXCEPT ![r] = op[r]] /\ op[r] \in Operations
      BY <2>1, <2>2 DEF Inv, Shape
    <3> QED BY <2>2, <3>1 DEF OwnChange, Steps, Ended
  <2>4. Fits(r)' /\ (r \in Disks => Known(r)')
    BY <2>1, <2>2 DEF Inv, Fits, Known
  <2>5. Allowed(r)' /\ Begins(r)'
    BY <2>1, <2>2 DEF Inv, Shape, Allowed, Begins
  <2>6. FileHost(host') /\ LateFits'
    BY <2>2 DEF Inv, LateFits
  <2> QED BY <2>1, <2>2, <2>3, <2>4, <2>5, <2>6, OwnKeeps, DiskAssumption DEF Fine
<1>4. CASE Finish
  BY <1>4, QuietKeeps DEF Finish, Quiet
<1> QED BY <1>1, <1>2, <1>3, <1>4 DEF Walk

LEMMA OthersKeep ==
    ASSUME Inv, Others
    PROVE  Inv' /\ at' = at
<1> USE DEF Inv, Shape, LateFits, Fits, Allowed, Known, Begins
<1>1. CASE Edit
  <2>1. /\ \E c \in Configurations :
               cfg' = [r \in Resources |-> IF r \in workspace THEN c[r] ELSE NoConfig]
        /\ UNCHANGED <<workspace, st, op, plan, at, phase, host, late>>
    BY <1>1 DEF Edit, memory, walk
  <2>2. \A r \in Resources : cfg'[r] \in Configs[r] \cup {NoConfig}
    BY <2>1 DEF Configurations
  <2>3. cfg' = [r \in Resources |-> cfg'[r]]
    BY <2>1
  <2> QED BY <2>1, <2>2, <2>3
<1>2. CASE Interfere(Elsewhere)
  <2>1. host' \in Elsewhere /\ UNCHANGED <<workspace, cfg, st, op, plan, at, phase, late>>
    BY <1>2 DEF Interfere, user, memory, walk
  <2>2. FileHost(host')
    BY <2>1, ElsewhereType
  <2> QED BY <2>1, <2>2
<1>3. CASE Land(IF late.of \in Images THEN ImagePartly(host, late) ELSE VhdPartly(host, late))
  <2>1. /\ late # NoCall /\ late' = NoCall
        /\ host' \in IF late.of \in Images THEN ImagePartly(host, late) ELSE VhdPartly(host, late)
        /\ UNCHANGED <<workspace, cfg, st, op, plan, at, phase>>
    BY <1>3 DEF Land, user, memory, walk
  <2>2. FileHost(host')
    BY <2>1, LatePartly
  <2> QED BY <2>1, <2>2
<1> QED BY <1>1, <1>2, <1>3 DEF Others

LEMMA ImportsKeep ==
    ASSUME Inv, Imports
    PROVE  Inv' /\ at' = at
<1>1. PICK r \in workspace : (r \in Images /\ ImportImage(r)) \/ (r \in Disks /\ ImportVHD(r))
  BY DEF Imports
<1>2. PICK s : Import(r, s) /\ (r \in Disks => s.size \in Sizes)
  <2>1. CASE r \in Images
    BY <1>1, <2>1, DiskAssumption DEF ImportImage
  <2>2. CASE r \in Disks
    BY <1>1, <2>2, ReadSize, DiskAssumption DEF ImportVHD, Inv
  <2> QED BY <1>1, <2>1, <2>2
<1>3. /\ phase = "idle" /\ st' = [st EXCEPT ![r] = s]
      /\ UNCHANGED <<workspace, cfg, op, plan, at, phase, host, late>>
  BY <1>2 DEF Import, user, walk
<1>4. \A q \in Resources : st'[q] = IF q = r THEN s ELSE st[q]
  BY <1>3 DEF Inv, Shape
<1>5. \A v \in Disks : Known(v)'
  BY <1>2, <1>4, DiskAssumption DEF Inv, Known
<1>6. \A v \in Disks : Allowed(v)'
  BY <1>3, DiskAssumption DEF Inv, Allowed
<1> QED BY <1>3, <1>5, <1>6 DEF Inv, Shape, Fits, Begins, LateFits

LEMMA InvStep == Inv /\ [Next]_tvars => Inv'
<1>1. Inv /\ UNCHANGED tvars => Inv'
  BY DEF tvars, user, memory, walk, world, Inv, Shape, Fits, Allowed, Known, Begins, LateFits
<1> QED BY <1>1, StepKeeps, WalkKeeps, OthersKeep, ImportsKeep DEF Next, ApplyStep

-----------------------------------------------------------------------------

LEMMA StepsKeepData ==
    ASSUME Inv, [Next]_tvars, NEW v \in Disks, at' # at,
           Exists(host, v), host.file[v].written,
           IF Exists(host', v) THEN ~host'.file[v].written ELSE TRUE
    PROVE  MayDestroy(v)
<1>1. v \in Paths
  BY DEF Paths
<1>2. host' # host
  OBVIOUS
<1>3. PICK r \in workspace : Step(r)
  BY <1>2, WalkKeeps, OthersKeep, ImportsKeep
     DEF Next, ApplyStep, tvars, world
<1>4. Spares(r, host')
  BY <1>3, StepKeeps
<1> QED BY <1>1, <1>4 DEF Spares, Exists

\* A handler destroys what a guest has written to a disk only to destroy or
\* replace the disk, or to copy to it a source that has not been copied yet:
\* for any resources, configurations and failures, whatever others do meanwhile
\* and whatever late calls have done.
THEOREM GuestDataKept == Spec => KeepsGuestData
<1>1. Inv /\ [Next]_tvars =>
        [\A v \in Disks :
           /\ at' # at
           /\ Exists(host, v) /\ host.file[v].written
           /\ IF Exists(host', v) THEN ~host'.file[v].written ELSE TRUE
           => \/ op[v] \in {"delete", "replace"}
              \/ /\ plan[v].src # Null
                 /\ op[v] = "create" \/ plan[v].sha # st[v].sha]_tvars
  BY StepsKeepData DEF MayDestroy
<1> QED BY <1>1, InvInit, InvStep, PTL DEF Spec, KeepsGuestData

-----------------------------------------------------------------------------
(* The second invariant *)

LEMMA Kinds ==
    /\ Resources = Images \cup Disks /\ Resources \subseteq Paths
    /\ \A i \in Images : i \in Resources /\ i \in Paths /\ i \notin Disks
    /\ \A v \in Disks : v \in Resources /\ v \in Paths /\ v \notin Images
  BY DiskAssumption DEF Paths

States(r) == IF r \in Images THEN ImageStates ELSE VhdStates

\* What Read would find of r is what Terraform has of it.
Current(h, r, s) ==
    /\ Exists(h, r)
    /\ s = IF r \in Images THEN ImageState(h, r, s) ELSE VhdState(h, r, s)

\* What of r is configured to be copied from another file, and from which.
Sourced(r) == cfg[r] # NoConfig /\ IF r \in Images THEN cfg[r].mode = "source" ELSE cfg[r].src # Null
From(r) == IF r \in Images THEN cfg[r].from ELSE cfg[r].src

\* ModifyPlan may hash what will be at the path.
Hashes(r) == Sourced(r) \/ (r \in Images /\ cfg[r].mode \in {"local", "bytes"})

Forces(r) == IF r \in Images THEN {"mode", "from", "sum"} ELSE {"src", "type", "parent"}

\* Only of a copy is it known what it was copied from.
Traced(r, s) == s # NoState /\ r \in Disks /\ s.src = Null => s.sha = Null

Copying == {"resize", "rollback", "look"}

\* Where a handler is fits what Terraform is doing with its resource.
Course(r) ==
    /\ at[r] = "none" <=> phase = "idle"
    /\ op[r] # "none" => phase = "apply" /\ r \in workspace
    /\ phase = "refresh" => at[r] \in {"read", "ok", "error"}
    /\ at[r] = "read" => phase = "refresh" /\ st[r] # NoState
    /\ at[r] = "delete" => op[r] \in {"delete", "replace"}
    /\ op[r] = "replace" => at[r] \in {"delete", "error"}
    /\ at[r] \in Copying \cup {"createVerify"} => r \in Disks
    /\ at[r] = "createVerify" => plan[r].src = Null
    /\ at[r] \in Copying => "sha" \in DOMAIN plan[r]
    /\ at[r] = "look" => op[r] = "create" /\ "size" \notin DOMAIN plan[r]

\* What is planned is what is configured, and perhaps a hash; to update, all
\* that the state has.
Asked(r) ==
    /\ op[r] = "delete" => cfg[r] = NoConfig
    /\ op[r] \in {"create", "replace", "update"} =>
           /\ cfg[r] # NoConfig
           /\ \A a \in DOMAIN cfg[r] : a \in DOMAIN plan[r] /\ plan[r][a] = cfg[r][a]
           /\ "sha" \in DOMAIN plan[r] /\ Hashes(r) => plan[r].sha \in Files
           /\ IF op[r] = "update" THEN plan[r] \in States(r)
                ELSE /\ DOMAIN plan[r] \subseteq DOMAIN cfg[r] \cup {"sha"}
                     /\ "sha" \in DOMAIN plan[r] => Hashes(r)

\* What is updated is not what only a replacement may change.
Updates(r) ==
    at[r] = "update" =>
        /\ st[r] # NoState
        /\ \A a \in Forces(r) : plan[r][a] = st[r][a]
        /\ ~Hashes(r) => plan[r].sha = st[r].sha

\* The planned hash is still that of what will be placed.
Hashed(r) ==
    op[r] \in {"create", "replace", "update"} /\ "sha" \in DOMAIN plan[r] =>
        /\ Sourced(r) /\ ~disturbed => plan[r].sha = host.file[From(r)] \/ SourceChanged(r)
        /\ r \in Images /\ cfg[r].mode = "bytes" => plan[r].sha = Holding(cfg[r].from)
        /\ r \in Images /\ cfg[r].mode = "local" /\ ~disturbed =>
               plan[r].sha = Holding(host.origin[cfg[r].from])

\* Nobody has touched what was read, and what is updated.
AsRead(r) ==
    ~disturbed /\ st[r] # NoState /\ (at[r] = "update" \/ (phase = "refresh" /\ at[r] = "ok"))
        => Current(host, r, st[r])

\* What is done stays done.
Settled(r) ==
    phase = "apply" /\ ~disturbed /\ at[r] = "ok"
        => InSync(r) \/ SourceChanged(r) \/ Drifted(r) \/ Unknown(r)

Fact(r) ==
    /\ Course(r) /\ Asked(r) /\ Updates(r) /\ Hashed(r) /\ Traced(r, st[r])
    /\ r \in workspace => AsRead(r) /\ Settled(r)

Facts == TypeOK /\ \A r \in Resources : Fact(r)

-----------------------------------------------------------------------------
(* What a step does to the host *)

Busy(h) == h.busy \subseteq {p \in Paths : Exists(h, p)}

\* Of the files, only that of r is another.
Within(r, h) ==
    /\ FileHost(h) /\ Busy(h)
    /\ h.origin = host.origin
    /\ \A q \in Paths \ {r} : h.file[q] = host.file[q]

LEMMA PlacedWithin ==
    ASSUME FileHost(host), Busy(host), NEW r \in Paths, NEW f \in Files
    PROVE  Within(r, Placed(host, r, f)) /\ Placed(host, r, f).file[r] = f
<1>1. /\ FileHost(Placed(host, r, f)) /\ Placed(host, r, f).file[r] = f
      /\ \A q \in Paths \ {r} : Placed(host, r, f).file[q] = host.file[q]
  BY PlacedType
<1>2. Placed(host, r, f).origin = host.origin /\ Placed(host, r, f).busy = host.busy
  BY DEF Placed, FileHost
<1> QED BY <1>1, <1>2, DiskAssumption DEF Within, Busy, Exists

LEMMA RemovedWithin ==
    ASSUME FileHost(host), Busy(host), NEW r \in Paths
    PROVE  Within(r, Removed(host, r)) /\ Removed(host, r).file[r] = Null
<1>1. /\ FileHost(Removed(host, r)) /\ Removed(host, r).file[r] = Null
      /\ \A q \in Paths \ {r} : Removed(host, r).file[q] = host.file[q]
  BY RemovedType
<1>2. Removed(host, r).origin = host.origin /\ Removed(host, r).busy = host.busy \ {r}
  BY DEF Removed, FileHost
<1> QED BY <1>1, <1>2 DEF Within, Busy, Exists

LEMMA HostWithin == \A r : FileHost(host) /\ Busy(host) => Within(r, host)
  BY DEF Within

LEMMA PlaceWithin ==
    ASSUME FileHost(host), Busy(host), NEW i \in Images, NEW p, Places(p)
    PROVE  /\ PlaceAccepts(host, i, p) =>
                  /\ Within(i, Place(host, i, p)) /\ Landing(host, i, p) \in Files
                  /\ Place(host, i, p).file[i] = Landing(host, i, p)
           /\ \A h \in PlacePartly(host, i, p) : Within(i, h)
<1>1. ASSUME PlaceAccepts(host, i, p)
      PROVE  /\ Within(i, Place(host, i, p)) /\ Landing(host, i, p) \in Files
             /\ Place(host, i, p).file[i] = Landing(host, i, p)
  <2>1. Landing(host, i, p) \in Files /\ i \in Paths
    BY <1>1, LandingType, Kinds DEF PlaceAccepts
  <2> QED BY <2>1, PlacedWithin DEF Place
<1> QED BY <1>1, HostWithin DEF PlacePartly

LEMMA RemoveWithin ==
    ASSUME FileHost(host), Busy(host), NEW r \in Paths
    PROVE  /\ \A s : \A h \in RemovePartly(host, r, s) : Within(r, h)
           /\ \A h \in RemoveVHDPartly(host, r) : Within(r, h)
  BY RemovedWithin, HostWithin DEF RemovePartly, RemoveVHDPartly

\* New-VHD makes what was planned.
LEMMA NewWithin ==
    ASSUME FileHost(host), Busy(host), NEW v \in Disks, NEW p, Makes(p)
    PROVE  /\ NewAccepts(host, v, p) =>
                  /\ Within(v, NewVHD(host, v, p)) /\ NewVHD(host, v, p).file[v] \in Files
                  /\ NewVHD(host, v, p).file[v].type = p.type
                  /\ p.type # "differencing" => NewVHD(host, v, p).file[v].size = p.size
                  /\ p.type = "differencing" => NewVHD(host, v, p).file[v].parent = p.parent
           /\ \A h \in NewPartly(host, v, p) : Within(v, h)
<1>1. v \in Paths
  BY Kinds
<1>2. ASSUME NewAccepts(host, v, p)
      PROVE  /\ Within(v, NewVHD(host, v, p)) /\ NewVHD(host, v, p).file[v] \in Files
             /\ NewVHD(host, v, p).file[v].type = p.type
             /\ p.type # "differencing" => NewVHD(host, v, p).file[v].size = p.size
             /\ p.type = "differencing" => NewVHD(host, v, p).file[v].parent = p.parent
  <2> DEFINE f == NewVHD(host, v, p).file[v]
  <2>1. f \in Files
    BY <1>2, NewType
  <2>2. /\ NewVHD(host, v, p) = Placed(host, v, f) /\ f.type = p.type
        /\ p.type # "differencing" => f.size = p.size
        /\ p.type = "differencing" => f.parent = p.parent
    <3>1. host = [file |-> host.file, origin |-> host.origin, busy |-> host.busy]
          /\ host.file \in [Paths -> Files \cup {Null}]
      BY DEF FileHost
    <3>2. CASE p.type = "differencing"
      BY <1>1, <3>1, <3>2 DEF NewVHD, Placed
    <3>3. CASE p.type # "differencing"
      BY <1>1, <3>1, <3>3 DEF NewVHD, Placed
    <3> QED BY <3>2, <3>3
  <2> HIDE DEF f
  <2>3. Within(v, Placed(host, v, f))
    BY <1>1, <2>1, PlacedWithin
  <2> QED BY <2>1, <2>2, <2>3 DEF f
<1> QED BY <1>2, HostWithin DEF NewPartly

LEMMA CopyWithin ==
    ASSUME FileHost(host), Busy(host), NEW v \in Disks, NEW p, p.src \in Paths
    PROVE  /\ CopyLands(host, v, p) # Null =>
                  /\ CopyLands(host, v, p) \in Files
                  /\ Within(v, Placed(host, v, CopyLands(host, v, p)))
                  /\ CopyLands(host, v, p) \in {host.file[p.src], Of(p, "sha", Null)}
           /\ \A h \in CopyPartly(host, v, p) : Within(v, h)
<1>1. ASSUME CopyLands(host, v, p) # Null
      PROVE  /\ CopyLands(host, v, p) \in Files
             /\ Within(v, Placed(host, v, CopyLands(host, v, p)))
             /\ CopyLands(host, v, p) \in {host.file[p.src], Of(p, "sha", Null)}
  <2>1. CopyLands(host, v, p) \in Files /\ v \in Paths
    BY <1>1, CopyType, Kinds
  <2>2. CopyLands(host, v, p) = Copied(host, v, p.src, Of(p, "sha", Null))
    BY <1>1 DEF CopyLands
  <2>3. CopyLands(host, v, p) \in {host.file[p.src], Of(p, "sha", Null)}
    BY <1>1, <2>2 DEF Copied
  <2> QED BY <2>1, <2>3, PlacedWithin
<1> QED BY <1>1, HostWithin DEF CopyPartly

\* Resize-VHD changes the size alone.
LEMMA ResizeWithin ==
    ASSUME FileHost(host), Busy(host), NEW v \in Disks, NEW size \in Sizes
    PROVE  /\ ResizeAccepts(host, v, size) =>
                  /\ Within(v, ResizeVHD(host, v, size))
                  /\ ResizeVHD(host, v, size).file[v] \in Files
                  /\ ResizeVHD(host, v, size).file[v].size = size
                  /\ ResizeVHD(host, v, size).file[v].type = host.file[v].type
                  /\ ResizeVHD(host, v, size).file[v].parent = host.file[v].parent
           /\ \A h \in ResizePartly(host, v, size) : Within(v, h)
<1>1. ASSUME ResizeAccepts(host, v, size)
      PROVE  /\ Within(v, ResizeVHD(host, v, size))
             /\ ResizeVHD(host, v, size).file[v] \in Files
             /\ ResizeVHD(host, v, size).file[v].size = size
             /\ ResizeVHD(host, v, size).file[v].type = host.file[v].type
             /\ ResizeVHD(host, v, size).file[v].parent = host.file[v].parent
  <2> DEFINE f == [host.file[v] EXCEPT !.size = size]
  <2>1. v \in Paths /\ host.file[v] \in Files
    BY <1>1, Kinds DEF FileHost, ResizeAccepts, Exists
  <2>2. f \in Files /\ f.size = size /\ f.type = host.file[v].type /\ f.parent = host.file[v].parent
    BY <2>1 DEF Files
  <2>3. ResizeVHD(host, v, size) = Placed(host, v, f)
    BY DEF ResizeVHD
  <2> HIDE DEF f
  <2> QED BY <2>1, <2>2, <2>3, PlacedWithin
<1> QED BY <1>1, HostWithin DEF ResizePartly

-----------------------------------------------------------------------------
(* What the handlers are called with *)

LEMMA ImagePlanned ==
    ASSUME Inv, Facts, NEW i \in Images, op[i] \in {"create", "replace", "update"}
    PROVE  /\ cfg[i] # NoConfig /\ WellFormedImage(i, cfg[i])
           /\ plan[i].mode = cfg[i].mode /\ plan[i].from = cfg[i].from
           /\ plan[i].sum = cfg[i].sum /\ plan[i].mounted = cfg[i].mounted
           /\ plan[i].keep = cfg[i].keep /\ plan[i].force = cfg[i].force
           /\ DOMAIN plan[i] \subseteq {"mode", "from", "sum", "mounted", "keep", "force", "sha"}
           /\ "sha" \in DOMAIN plan[i] =>
                  plan[i].sha \in Files /\ (op[i] # "update" => Hashes(i))
           /\ op[i] = "update" => plan[i] \in ImageStates
<1>1. i \in Resources /\ Asked(i) /\ cfg[i] \in Configs[i] \cup {NoConfig}
  BY Kinds DEF Facts, Fact, Inv
<1>2. cfg[i] # NoConfig /\ WellFormedImage(i, cfg[i])
  BY <1>1, ImageAssumption DEF Asked
<1>3. DOMAIN cfg[i] = {"mode", "from", "sum", "mounted", "keep", "force"}
  BY <1>2 DEF WellFormedImage
<1>4. \A a \in DOMAIN cfg[i] : a \in DOMAIN plan[i] /\ plan[i][a] = cfg[i][a]
  BY <1>1 DEF Asked
<1>5. CASE op[i] = "update"
  <2>1. plan[i] \in ImageStates
    BY <1>1, <1>5 DEF Asked, States
  <2>2. DOMAIN plan[i] \subseteq {"mode", "from", "sum", "mounted", "keep", "force", "sha"}
        /\ plan[i].sha \in Files
    BY <2>1 DEF ImageStates
  <2> QED BY <1>2, <1>3, <1>4, <1>5, <2>1, <2>2
<1>6. CASE op[i] # "update"
  <2>1. /\ DOMAIN plan[i] \subseteq DOMAIN cfg[i] \cup {"sha"}
        /\ "sha" \in DOMAIN plan[i] => plan[i].sha \in Files /\ Hashes(i)
    BY <1>1, <1>6 DEF Asked
  <2> QED BY <1>2, <1>3, <1>4, <1>6, <2>1
<1> QED BY <1>5, <1>6

LEMMA DiskPlanned ==
    ASSUME Inv, Facts, NEW v \in Disks, op[v] \in {"create", "replace", "update"}
    PROVE  /\ cfg[v] # NoConfig /\ WellFormedVhd(v, cfg[v])
           /\ DOMAIN cfg[v] \subseteq {"src", "type", "size", "parent"}
           /\ \A a \in DOMAIN cfg[v] : a \in DOMAIN plan[v] /\ plan[v][a] = cfg[v][a]
           /\ "src" \in DOMAIN cfg[v] /\ plan[v].src = cfg[v].src
           /\ Hashes(v) <=> cfg[v].src # Null
           /\ "sha" \in DOMAIN plan[v] /\ cfg[v].src # Null => plan[v].sha \in Files
           /\ op[v] = "update" => plan[v] \in VhdStates
           /\ op[v] # "update" => /\ DOMAIN plan[v] \subseteq DOMAIN cfg[v] \cup {"sha"}
                                  /\ cfg[v].src = Null => "sha" \notin DOMAIN plan[v]
<1>1. v \in Resources /\ Asked(v) /\ cfg[v] \in Configs[v] \cup {NoConfig} /\ v \notin Images
  BY Kinds DEF Facts, Fact, Inv
<1>2. cfg[v] # NoConfig /\ WellFormedVhd(v, cfg[v])
  BY <1>1, VhdAssumption DEF Asked
<1>3. "src" \in DOMAIN cfg[v] /\ DOMAIN cfg[v] \subseteq {"src", "type", "size", "parent"}
  BY <1>2 DEF WellFormedVhd, SourceModeAllows
<1>4. \A a \in DOMAIN cfg[v] : a \in DOMAIN plan[v] /\ plan[v][a] = cfg[v][a]
  BY <1>1 DEF Asked
<1>5. Hashes(v) <=> cfg[v].src # Null
  BY <1>1, <1>2 DEF Hashes, Sourced
<1> QED BY <1>1, <1>2, <1>3, <1>4, <1>5 DEF Asked, States

\* What is copied comes from elsewhere.
LEMMA SourceElsewhere ==
    ASSUME Inv, NEW r \in Resources, Sourced(r)
    PROVE  From(r) \in Paths \ {r}
<1>1. cfg[r] \in Configs[r] /\ cfg[r] # NoConfig
  BY DEF Inv, Sourced
<1>2. CASE r \in Images
  BY <1>1, <1>2, ImageAssumption DEF WellFormedImage, Sourced, From
<1>3. CASE r \notin Images
  BY <1>1, <1>3, VhdAssumption, Kinds DEF WellFormedVhd, SourceModeAllows, Sourced, From
<1> QED BY <1>2, <1>3

-----------------------------------------------------------------------------
(* What a handler's step does *)

Kept(r) == Within(r, host') /\ UNCHANGED <<workspace, cfg, disturbed>> /\ events' \in Nat

\* The handler goes on, or fails.
Goes(r) ==
    /\ UNCHANGED <<memory, walk>>
    /\ tries' \in [Resources -> 0 .. VerifyAttempts - 1]
    /\ \E x \in {"error", "createVerify", "rollback"} :
           /\ at' = [at EXCEPT ![r] = x]
           /\ x = "createVerify" =>
                  r \in Disks /\ plan[r].src = Null /\ at[r] \in {"create", "createVerify"}
           /\ x = "rollback" => r \in Disks /\ at[r] = "resize"

WithHash(p, f) == [a \in DOMAIN p \cup {"sha"} |-> IF a = "sha" THEN f ELSE p[a]]

\* A disk has been replaced by a copy, and the plan says by which.
Lands(r) ==
    /\ r \in Disks /\ at[r] \in {"create", "update"} /\ plan[r].src # Null
    /\ UNCHANGED <<memory, phase, op, tries>>
    /\ \E f \in Files :
           /\ plan' = [plan EXCEPT ![r] = WithHash(plan[r], f)]
           /\ ~disturbed => f = host.file[From(r)] \/ SourceChanged(r)
    /\ at' = [at EXCEPT ![r] = IF "size" \in DOMAIN plan[r] THEN "resize" ELSE "look"]

Reads(r) ==
    /\ at[r] = "read" /\ UNCHANGED host
    /\ \E s \in States(r) \cup {NoState} :
           /\ Refreshed(r, s)
           /\ IF s = NoState THEN ~Exists(host, r) ELSE Current(host, r, s)
           /\ Traced(r, s)

Writes(r) ==
    /\ at[r] \in {"create", "createVerify", "update", "resize", "look"}
    /\ \E s \in States(r) :
           /\ Return(r, s) /\ Traced(r, s)
           /\ AsPlanned(s, plan[r]) \/ disturbed \/ Surprising(r)
           /\ AsPlanned(s, plan[r]) => InSync(r)' \/ disturbed \/ SourceChanged(r) \/ Drifted(r)

Destroys(r) ==
    /\ at[r] = "delete"
    /\ Deleted(r)
    /\ IF r \in Images /\ Leaves(st[r]) THEN host'.file[r] = host.file[r] ELSE ~Exists(host', r)

Effect(r) == Kept(r) /\ (Goes(r) \/ Lands(r) \/ Reads(r) \/ Writes(r) \/ Destroys(r))

LEMMA RanKept ==
    ASSUME Facts, NEW r, NEW h, Within(r, h), Ran(h)
    PROVE  Kept(r)
  BY DEF Kept, Ran, user, Facts, TypeOK

LEMMA CallFailsKept ==
    ASSUME Inv, Facts, NEW r, NEW c, NEW partly, \A h \in partly : Within(r, h),
           CallFails(c, partly)
    PROVE  Kept(r)
<1>1. UNCHANGED <<workspace, cfg, disturbed>> /\ events' \in Nat
  BY DEF CallFails, Event, user, Facts, TypeOK
<1>2. Within(r, host)
  BY HostWithin DEF Inv, Facts, TypeOK, Busy
<1>3. Within(r, host')
  BY <1>2 DEF CallFails
<1> QED BY <1>1, <1>3 DEF Kept

LEMMA ReadFailsKept ==
    ASSUME Inv, Facts, NEW r, ReadFails
    PROVE  Kept(r)
<1>1. Within(r, host)
  BY HostWithin DEF Inv, Facts, TypeOK, Busy
<1> QED BY <1>1 DEF Kept, ReadFails, Event, user, Facts, TypeOK

LEMMA FailGoes ==
    ASSUME Facts, NEW r \in Resources, Fail(r)
    PROVE  Goes(r)
<1>1. VerifyAttempts \in Nat \ {0} /\ tries \in [Resources -> 0 .. VerifyAttempts - 1]
  BY TerraformAssumption DEF Facts, TypeOK
<1> QED BY <1>1 DEF Fail, Goes

LEMMA GotoGoes ==
    ASSUME Facts, NEW v \in Disks, NEW x, Goto(v, x),
           \/ at[v] = "create" /\ plan[v].src = Null /\ x = "createVerify"
           \/ at[v] = "resize" /\ x = "rollback"
    PROVE  Goes(v)
  BY DEF Goto, Goes, Facts, TypeOK

LEMMA PollGoes ==
    ASSUME Inv, Facts, NEW v \in Disks, at[v] = "createVerify", PollFails(v)
    PROVE  Kept(v) /\ Goes(v)
<1>1. Kept(v) /\ v \in Resources
  BY ReadFailsKept, Kinds DEF PollFails
<1>2. CASE tries[v] + 1 < VerifyAttempts
  <2>1. UNCHANGED <<memory, walk, at>> /\ tries' = [tries EXCEPT ![v] = @ + 1]
    BY <1>2 DEF PollFails
  <2>2. /\ VerifyAttempts \in Nat /\ tries \in [Resources -> 0 .. VerifyAttempts - 1]
        /\ at \in [Resources -> Steps]
    BY TerraformAssumption DEF Facts, TypeOK
  <2>3. tries' \in [Resources -> 0 .. VerifyAttempts - 1]
    BY <1>1, <1>2, <2>1, <2>2
  <2>4. at' = [at EXCEPT ![v] = "createVerify"] /\ plan[v].src = Null
    BY <1>1, <2>1, <2>2 DEF Facts, Fact, Course
  <2> QED BY <1>1, <2>1, <2>3, <2>4 DEF Goes
<1>3. CASE ~(tries[v] + 1 < VerifyAttempts)
  BY <1>1, <1>3, FailGoes DEF PollFails
<1> QED BY <1>2, <1>3

-----------------------------------------------------------------------------
(* The handlers of an image *)

LEMMA ImageReads ==
    ASSUME NEW h, NEW i \in Images, h.file[i] \in Files, NEW p,
           p.mode \in Modes, p.from \in Origins \cup Contents \cup Paths \cup {Null},
           p.sum \in Contents \cup {Null}, p.mounted \in BOOLEAN, p.keep \in BOOLEAN,
           p.force \in BOOLEAN
    PROVE  ImageState(h, i, p) \in ImageStates
  BY DEF ImageState, ImageStates

LEMMA ImageConfigured ==
    ASSUME NEW i \in Images, NEW c, WellFormedImage(i, c)
    PROVE  /\ c.mode \in Modes /\ c.from \in Origins \cup Contents \cup Paths \cup {Null}
           /\ c.sum \in Contents \cup {Null} /\ c.mounted \in BOOLEAN /\ c.keep \in BOOLEAN
           /\ c.force \in BOOLEAN
           /\ c.mode = "local" => c.from \in Origins
  BY DEF WellFormedImage, Modes

\* What lands is what was hashed.
LEMMA LandsAsPlanned ==
    ASSUME Inv, Facts, NEW i \in Images, at[i] \in {"create", "update"}, ~disturbed,
           at[i] = "update" => cfg[i].mode \in {"local", "source"},
           PlaceAccepts(host, i, plan[i]), "sha" \in DOMAIN plan[i]
    PROVE  Landing(host, i, plan[i]) = plan[i].sha
<1>1. op[i] = at[i] /\ i \in Resources
  BY Kinds DEF Inv, Begins
<1>2. /\ plan[i].mode = cfg[i].mode /\ plan[i].from = cfg[i].from /\ plan[i].sha \in Files
      /\ cfg[i] # NoConfig /\ Hashes(i)
  <2>1. op[i] = "update" => Hashes(i)
    BY <1>1, ImagePlanned DEF Hashes, Sourced
  <2> QED BY <1>1, <2>1, ImagePlanned
<1>3. Hashed(i) /\ Of(plan[i], "sha", Null) = plan[i].sha
  BY <1>1 DEF Facts, Fact, Of
<1>4. CASE cfg[i].mode = "source"
  <2>1. Landing(host, i, plan[i]) = Copied(host, i, plan[i].from, plan[i].sha)
    BY <1>2, <1>3, <1>4 DEF Landing
  <2> QED BY <1>2, <2>1, DiskAssumption DEF Copied, PlaceAccepts
<1>5. CASE cfg[i].mode = "local"
  BY <1>1, <1>2, <1>3, <1>5 DEF Landing, Hashed
<1>6. CASE cfg[i].mode = "bytes"
  BY <1>1, <1>2, <1>3, <1>6 DEF Landing, Hashed
<1> QED BY <1>2, <1>4, <1>5, <1>6 DEF Hashes, Sourced

\* And it is what the configuration asks for.
LEMMA LandsInSync ==
    ASSUME Inv, Facts, NEW i \in Images, at[i] \in {"create", "update"}, ~disturbed,
           at[i] = "update" => cfg[i].mode \in {"local", "source"},
           PlaceAccepts(host, i, plan[i]), Kept(i), host'.file[i] = Landing(host, i, plan[i]),
           st'[i] # NoState
    PROVE  InSync(i)' \/ SourceChanged(i)
<1> DEFINE f == Landing(host, i, plan[i])
<1>1. /\ op[i] = at[i] /\ i \in Resources /\ f # Null /\ cfg' = cfg
      /\ host'.origin = host.origin
      /\ host'.file[i] = f
  BY Kinds DEF Inv, Begins, PlaceAccepts, Kept, Within
<1>2. /\ plan[i].mode = cfg[i].mode /\ plan[i].from = cfg[i].from /\ plan[i].sum = cfg[i].sum
      /\ cfg[i] # NoConfig /\ WellFormedImage(i, cfg[i])
  BY <1>1, ImagePlanned
<1>3. SUFFICES ASSUME ~SourceChanged(i) PROVE ImageInSync(i)'
  BY <1>1, <1>2 DEF InSync
<1> HIDE DEF f
<1>4. CASE cfg[i].mode = "source"
  <2>1. cfg[i].from \in Paths \ {i} /\ Sourced(i) /\ From(i) = cfg[i].from
    BY <1>1, <1>2, <1>4, SourceElsewhere DEF Sourced, From
  <2>2. host'.file[cfg[i].from] = host.file[cfg[i].from]
    BY <2>1 DEF Kept, Within
  <2>3. f = host.file[cfg[i].from]
    <3>1. CASE "sha" \in DOMAIN plan[i]
      <4>1. f = plan[i].sha
        BY <1>3, <3>1, LandsAsPlanned DEF f
      <4>2. plan[i].sha = host.file[From(i)]
        BY <1>1, <1>3, <2>1, <3>1 DEF Facts, Fact, Hashed
      <4> QED BY <2>1, <4>1, <4>2
    <3>2. CASE "sha" \notin DOMAIN plan[i]
      <4>1. f = Copied(host, i, cfg[i].from, Null)
        BY <1>2, <1>4, <3>2 DEF f, Landing, Of
      <4> QED BY <1>1, <4>1 DEF Copied
    <3> QED BY <3>1, <3>2
  <2> QED BY <1>1, <1>4, <2>2, <2>3 DEF ImageInSync
<1>5. CASE cfg[i].mode = "local"
  BY <1>1, <1>2, <1>5 DEF ImageInSync, f, Landing
<1>6. CASE cfg[i].mode = "bytes"
  BY <1>1, <1>2, <1>6 DEF ImageInSync, f, Landing
<1>7. CASE cfg[i].mode = "url"
  <2>1. cfg[i].sum # Null => f = Holding(cfg[i].sum)
    BY <1>1, <1>2, <1>7 DEF f, Landing
  <2> QED BY <1>1, <1>7, <2>1 DEF ImageInSync
<1>8. CASE cfg[i].mode = "host"
  BY <1>1, <1>8 DEF ImageInSync
<1>9. cfg[i].mode \in Modes
  BY <1>2 DEF WellFormedImage
<1> QED BY <1>4, <1>5, <1>6, <1>7, <1>8, <1>9 DEF Modes

LEMMA PlaceEffect ==
    ASSUME Inv, Facts, NEW i \in Images, at[i] \in {"create", "update"}, PlaceImage(i),
           at[i] = "update" => Rewrites(i)
    PROVE  Effect(i)
<1>1. i \in Resources /\ i \notin Disks /\ op[i] = at[i] /\ FileHost(host) /\ Busy(host) /\ Places(plan[i])
  <2>1. i \in Resources /\ op[i] = at[i]
    BY Kinds DEF Inv, Begins
  <2> QED BY <2>1, Kinds DEF Inv, Fits, Facts, TypeOK, Busy
<1>2. at[i] = "update" => cfg[i].mode \in {"local", "source"}
  BY <1>1, ImagePlanned DEF Rewrites
<1>3. CASE /\ PlaceAccepts(host, i, plan[i])
           /\ Ran(Place(host, i, plan[i]))
           /\ Return(i, ImageState(host', i, plan[i]))
  <2> DEFINE s == ImageState(host', i, plan[i])
             f == Landing(host, i, plan[i])
  <2>1. host'.file[i] = f /\ f \in Files /\ Kept(i)
    BY <1>1, <1>3, PlaceWithin, RanKept DEF Ran
  <2>2. s \in ImageStates
    BY <1>1, <2>1, ImagePlanned, ImageConfigured, ImageReads
  <2>3. s.sha = f /\ \A a \in DOMAIN plan[i] \ {"sha"} : s[a] = plan[i][a]
    BY <1>1, <2>1, ImagePlanned DEF ImageState
  <2>4. st'[i] = s /\ s # NoState
    BY <1>1, <1>3, <2>2, NoStateAssumption DEF Return, Inv, Shape
  <2> HIDE DEF s, f
  <2>5. Return(i, s)
    BY <1>3 DEF s
  <2>6. disturbed \/ SourceChanged(i) \/ InSync(i)'
    BY <1>2, <1>3, <2>1, <2>4, LandsInSync DEF f
  <2>7. AsPlanned(s, plan[i]) \/ disturbed
    <3> SUFFICES ASSUME ~disturbed, "sha" \in DOMAIN plan[i] PROVE f = plan[i].sha
      BY <2>3 DEF AsPlanned
    <3> QED BY <1>2, <1>3, LandsAsPlanned DEF f
  <2>8. Traced(i, s)
    BY <1>1 DEF Traced
  <2>9. s \in States(i)
    BY <2>2 DEF States
  <2> QED BY <2>1, <2>5, <2>6, <2>7, <2>8, <2>9 DEF Effect, Writes
<1>4. CASE Ran(host) /\ Fail(i)
  BY <1>1, <1>4, HostWithin, RanKept, FailGoes DEF Effect
<1>5. CASE CallFails(PlaceCall(i), PlacePartly(host, i, plan[i])) /\ Fail(i)
  BY <1>1, <1>5, PlaceWithin, CallFailsKept, FailGoes DEF Effect
<1> QED BY <1>3, <1>4, <1>5 DEF PlaceImage


LEMMA ReadImageEffect ==
    ASSUME Inv, Facts, NEW i \in Images, ReadImage(i)
    PROVE  Effect(i)
<1>1. /\ i \in Resources /\ i \in Paths /\ i \notin Disks /\ at[i] = "read"
      /\ FileHost(host) /\ Busy(host)
  BY Kinds DEF Inv, Facts, TypeOK, Busy, ReadImage
<1>2. CASE Ran(host) /\ Refreshed(i, IF Exists(host, i) THEN ImageState(host, i, st[i]) ELSE NoState)
  <2> DEFINE s == IF Exists(host, i) THEN ImageState(host, i, st[i]) ELSE NoState
  <2>1. st[i] \in ImageStates
    BY <1>1 DEF Facts, Fact, Course, TypeOK
  <2>2. ASSUME Exists(host, i)
        PROVE  s \in ImageStates /\ Current(host, i, s) /\ s # NoState
    <3>1. s = ImageState(host, i, st[i]) /\ host.file[i] \in Files
      BY <1>1, <2>2 DEF FileHost, Exists
    <3>2. ImageState(host, i, st[i]) \in ImageStates
      BY <2>1, <3>1, ImageReads DEF ImageStates
    <3>3. ImageState(host, i, ImageState(host, i, st[i])) = ImageState(host, i, st[i])
      BY DEF ImageState
    <3> QED BY <2>2, <3>1, <3>2, <3>3, NoStateAssumption DEF Current
  <2>3. ~Exists(host, i) => s = NoState
    OBVIOUS
  <2> HIDE DEF s
  <2>4. Refreshed(i, s) /\ Traced(i, s) /\ UNCHANGED host
    BY <1>1, <1>2 DEF s, Traced, Ran
  <2>5. Kept(i)
    BY <1>1, <1>2, HostWithin, RanKept
  <2>6. s \in States(i) \cup {NoState} /\ IF s = NoState THEN ~Exists(host, i) ELSE Current(host, i, s)
    BY <2>2, <2>3 DEF States
  <2> QED BY <1>1, <2>4, <2>5, <2>6 DEF Effect, Reads
<1>3. CASE ReadFails /\ Fail(i)
  BY <1>1, <1>3, ReadFailsKept, FailGoes DEF Effect
<1> QED BY <1>2, <1>3 DEF ReadImage

\* The plan becomes the state where the hash is as planned, or the mode has no
\* update path.
LEMMA UpdateImageEffect ==
    ASSUME Inv, Facts, NEW i \in Images, UpdateImage(i)
    PROVE  Effect(i)
<1>1. /\ i \in Resources /\ i \notin Disks /\ at[i] = "update" /\ op[i] = "update"
      /\ FileHost(host) /\ Busy(host)
  BY Kinds DEF Inv, Begins, Facts, TypeOK, Busy, UpdateImage
<1>2. CASE Rewrites(i) /\ PlaceImage(i)
  BY <1>1, <1>2, PlaceEffect
<1>3. CASE ~Rewrites(i) /\ Ran(host) /\ Return(i, plan[i])
  <2>1. Kept(i) /\ UNCHANGED host
    BY <1>1, <1>3, HostWithin, RanKept DEF Ran
  <2>2. plan[i] \in ImageStates /\ plan[i] # NoState
    BY <1>1, ImagePlanned, NoStateAssumption
  <2>3. AsPlanned(plan[i], plan[i]) /\ Traced(i, plan[i])
    BY <1>1 DEF AsPlanned, Traced
  <2>4. disturbed \/ SourceChanged(i) \/ Drifted(i) \/ InSync(i)'
    <3> SUFFICES ASSUME ~disturbed, ~SourceChanged(i), cfg[i].mode # "bytes" PROVE InSync(i)'
      BY <1>1 DEF Drifted
    <3>1. /\ cfg[i] # NoConfig /\ cfg'[i] = cfg[i] /\ st'[i] = plan[i] /\ cfg[i].mode \in Modes
          /\ op'[i] = "update"
      BY <1>1, <1>3, <2>1, ImagePlanned, ImageConfigured DEF Kept, Return, walk, Inv, Shape
    <3>2. st[i] # NoState /\ AsRead(i)
      <4>1. i \in workspace
        BY <1>1 DEF Facts, Fact, Course
      <4> QED BY <1>1, <4>1 DEF Facts, Fact, Updates
    <3>3. Exists(host, i) /\ st[i].sha = host.file[i]
      BY <1>1, <3>2 DEF AsRead, Current, ImageState
    <3>4. CASE cfg[i].mode \in {"local", "source"}
      <4>1. plan[i].sha = st[i].sha /\ "sha" \in DOMAIN plan[i] /\ Hashed(i)
        BY <1>1, <1>3, <2>2, <3>4, ImagePlanned DEF Rewrites, ImageStates, Facts, Fact
      <4>2. CASE cfg[i].mode = "source"
        <5>1. Sourced(i) /\ From(i) = cfg[i].from
          BY <1>1, <3>1, <4>2 DEF Sourced, From
        <5>2. plan[i].sha = host.file[cfg[i].from]
          BY <1>1, <4>1, <5>1 DEF Hashed
        <5> QED BY <2>1, <2>2, <3>1, <3>3, <4>1, <4>2, <5>2 DEF InSync, ImageInSync, Exists
      <4>3. CASE cfg[i].mode = "local"
        <5>1. plan[i].sha = Holding(host.origin[cfg[i].from])
          BY <1>1, <4>1, <4>3 DEF Hashed
        <5> QED BY <2>1, <2>2, <3>1, <3>3, <4>1, <4>3, <5>1 DEF InSync, ImageInSync
      <4> QED BY <3>4, <4>2, <4>3
    <3>5. CASE cfg[i].mode \in {"url", "host"}
      BY <2>1, <2>2, <3>1, <3>3, <3>5 DEF InSync, ImageInSync, Exists
    <3> QED BY <3>1, <3>4, <3>5 DEF Modes
  <2>5. plan[i] \in States(i)
    BY <2>2 DEF States
  <2> QED BY <1>1, <1>3, <2>1, <2>3, <2>4, <2>5 DEF Effect, Writes
<1> QED BY <1>2, <1>3 DEF UpdateImage

LEMMA DeleteImageEffect ==
    ASSUME Inv, Facts, NEW i \in Images, DeleteImage(i)
    PROVE  Effect(i)
<1>1. i \in Resources /\ i \in Paths /\ at[i] = "delete" /\ FileHost(host) /\ Busy(host)
  BY Kinds DEF Inv, Facts, TypeOK, Busy, DeleteImage
<1>2. CASE Ran(host) /\ Deleted(i) /\ (Leaves(st[i]) \/ ~Exists(host, i))
  <2>1. Kept(i) /\ host' = host
    BY <1>1, <1>2, HostWithin, RanKept DEF Ran
  <2> QED BY <1>1, <1>2, <2>1 DEF Effect, Destroys
<1>3. CASE ~Leaves(st[i]) /\ Ran(Removed(host, i)) /\ Deleted(i)
  <2>1. Kept(i) /\ ~Exists(host', i)
    BY <1>1, <1>3, RemovedWithin, RanKept DEF Ran, Exists
  <2> QED BY <1>1, <1>3, <2>1 DEF Effect, Destroys
<1>4. CASE Ran(host) /\ Fail(i)
  BY <1>1, <1>4, HostWithin, RanKept, FailGoes DEF Effect
<1>5. CASE CallFails(RemoveImageCall(i), RemovePartly(host, i, st[i])) /\ Fail(i)
  BY <1>1, <1>5, RemoveWithin, CallFailsKept, FailGoes DEF Effect
<1> QED BY <1>2, <1>3, <1>4, <1>5 DEF DeleteImage

LEMMA ImageEffect ==
    ASSUME Inv, Facts, NEW i \in Images, ImageStep(i)
    PROVE  Effect(i)
<1>1. CASE CreateImage(i)
  BY <1>1, PlaceEffect DEF CreateImage
<1> QED BY <1>1, ReadImageEffect, UpdateImageEffect, DeleteImageEffect DEF ImageStep

-----------------------------------------------------------------------------
(* The handlers of a disk *)

LEMMA DiskReads ==
    ASSUME NEW h, NEW v \in Disks, h.file[v] \in Files, NEW p, p.src \in Paths \cup {Null},
           p.src # Null => Of(p, "sha", Null) \in Files \cup {Null}
    PROVE  LET s == VhdState(h, v, p)
           IN /\ s \in VhdStates /\ s # NoState /\ Traced(v, s)
              /\ VhdState(h, v, s) = s
              /\ s.src = p.src /\ s.type = h.file[v].type /\ s.size = h.file[v].size
              /\ s.parent = h.file[v].parent
              /\ s.src # Null => s.sha = Of(p, "sha", Null)
              /\ s.src = Null => s.sha = Null
<1> DEFINE s == VhdState(h, v, p)
           f == h.file[v]
<1>1. s = [src |-> p.src, sha |-> IF p.src = Null THEN Null ELSE Of(p, "sha", Null),
           type |-> f.type, size |-> f.size, parent |-> f.parent, fill |-> Fill(f)]
  BY DEF VhdState
<1>2. f.type \in DiskTypes /\ f.size \in Sizes /\ f.parent \in Paths \cup {Null}
      /\ Fill(f) \in {Fill(g) : g \in Files}
  BY DEF Files
<1>3. s \in VhdStates
  BY <1>1, <1>2 DEF VhdStates
<1>4. VhdState(h, v, s) = s
  BY <1>1 DEF VhdState, Of
<1> QED BY <1>1, <1>3, <1>4, NoStateAssumption DEF Traced

\* A disk that is as planned is as configured.
LEMMA DiskInSync ==
    ASSUME Inv, Facts, NEW v \in Disks, op[v] \in {"create", "update"}, Kept(v), ~disturbed,
           host'.file[v] \in Files, cfg[v].src # Null => "sha" \in DOMAIN plan[v],
           NEW s, st'[v] = s, VhdState(host', v, s).src = s.src,
           s.src # Null => s.sha = plan[v].sha,
           \A a \in DOMAIN cfg[v] : VhdState(host', v, s)[a] = plan[v][a]
    PROVE  InSync(v)' \/ SourceChanged(v) \/ s = NoState
<1> SUFFICES ASSUME ~SourceChanged(v), s # NoState PROVE InSync(v)'
  OBVIOUS
<1>1. v \in Resources /\ v \notin Images /\ cfg' = cfg
  BY Kinds DEF Kept
<1>2. /\ cfg[v] # NoConfig /\ "src" \in DOMAIN cfg[v] /\ plan[v].src = cfg[v].src
      /\ \A a \in DOMAIN cfg[v] : plan[v][a] = cfg[v][a]
  BY DiskPlanned
<1>3. AsPlanned(VhdState(host', v, s), cfg[v])
  BY <1>2 DEF AsPlanned
<1>4. s.src = cfg[v].src
  BY <1>2
<1>5. cfg[v].src # Null => s.sha = host'.file[cfg[v].src]
  <2> SUFFICES ASSUME cfg[v].src # Null PROVE s.sha = host'.file[cfg[v].src]
    OBVIOUS
  <2>1. Sourced(v) /\ From(v) = cfg[v].src
    BY <1>1, <1>2 DEF Sourced, From
  <2>2. plan[v].sha = host.file[cfg[v].src]
    BY <1>1, <2>1 DEF Facts, Fact, Hashed
  <2>3. host'.file[cfg[v].src] = host.file[cfg[v].src]
    BY <1>1, <2>1, SourceElsewhere DEF Kept, Within
  <2> QED BY <1>4, <2>2, <2>3
<1>6. Exists(host', v)
  BY DiskAssumption DEF Exists
<1> QED BY <1>1, <1>2, <1>3, <1>5, <1>6 DEF InSync, VhdInSync

\* What is returned is read from the disk.
LEMMA DiskReturns ==
    ASSUME Inv, Facts, NEW v \in Disks, Kept(v),
           at[v] \in {"create", "createVerify", "update", "resize", "look"},
           host'.file[v] \in Files, plan[v].src # Null => "sha" \in DOMAIN plan[v],
           Return(v, VhdState(host', v, plan[v])),
           AsPlanned(VhdState(host', v, plan[v]), plan[v]) \/ disturbed \/ Surprising(v)
    PROVE  Effect(v)
<1> DEFINE s == VhdState(host', v, plan[v])
<1>1. v \in Resources /\ v \notin Images /\ op[v] \in {"create", "update"} /\ Shape
  BY Kinds DEF Inv, Allowed
<1>2. /\ plan[v].src = cfg[v].src /\ plan[v].src \in Paths \cup {Null}
      /\ \A a \in DOMAIN cfg[v] : a \in DOMAIN plan[v]
  BY <1>1, DiskPlanned DEF Inv, Fits, VhdFits
<1>3. plan[v].src # Null => Of(plan[v], "sha", Null) = plan[v].sha /\ plan[v].sha \in Files
  BY <1>1, DiskPlanned DEF Of
<1>4. /\ s \in VhdStates /\ s # NoState /\ Traced(v, s) /\ VhdState(host', v, s) = s
      /\ s.src # Null => s.sha = plan[v].sha
  BY <1>2, <1>3, DiskReads
<1>5. st'[v] = s
  BY <1>1 DEF Return, Shape
<1> HIDE DEF s
<1>6. AsPlanned(s, plan[v]) => InSync(v)' \/ disturbed \/ SourceChanged(v)
  <2> SUFFICES ASSUME AsPlanned(s, plan[v]), ~disturbed PROVE InSync(v)' \/ SourceChanged(v)
    OBVIOUS
  <2>1. \A a \in DOMAIN cfg[v] : VhdState(host', v, s)[a] = plan[v][a]
    BY <1>2, <1>4 DEF AsPlanned
  <2>2. cfg[v].src # Null => "sha" \in DOMAIN plan[v]
    BY <1>2
  <2>3. VhdState(host', v, s).src = s.src
    BY <1>4
  <2> QED BY <1>1, <1>4, <1>5, <2>1, <2>2, <2>3, DiskInSync
<1>7. Return(v, s) /\ s \in States(v) /\ (AsPlanned(s, plan[v]) \/ disturbed \/ Surprising(v))
  BY <1>1, <1>4 DEF s, States
<1> QED BY <1>4, <1>6, <1>7 DEF Effect, Writes

\* What a disk without a source is planned with.
LEMMA MadeAsPlanned ==
    ASSUME Inv, Facts, NEW v \in Disks, op[v] = "create", plan[v].src = Null,
           NEW h, h.file[v] \in Files, h.file[v].type = plan[v].type,
           plan[v].type # "differencing" => h.file[v].size = plan[v].size,
           plan[v].type = "differencing" => h.file[v].parent = plan[v].parent
    PROVE  AsPlanned(VhdState(h, v, plan[v]), plan[v])
<1> DEFINE s == VhdState(h, v, plan[v])
<1>1. /\ WellFormedVhd(v, cfg[v]) /\ cfg[v].src = Null
      /\ \A a \in DOMAIN cfg[v] : a \in DOMAIN plan[v] /\ plan[v][a] = cfg[v][a]
      /\ DOMAIN plan[v] \subseteq DOMAIN cfg[v] \cup {"sha"} /\ "sha" \notin DOMAIN plan[v]
      /\ DOMAIN cfg[v] \subseteq {"src", "type", "size", "parent"}
  BY DiskPlanned
<1>2. "type" \in DOMAIN cfg[v]
  BY <1>1 DEF WellFormedVhd, SourceModeAllows
<1>3. /\ "size" \in DOMAIN plan[v] => plan[v].type # "differencing"
      /\ "parent" \in DOMAIN plan[v] => plan[v].type = "differencing"
  BY <1>1, <1>2 DEF WellFormedVhd, SizeAllowed, ParentAllowed
<1>4. s.src = Null /\ s.type = h.file[v].type /\ s.size = h.file[v].size /\ s.parent = h.file[v].parent
  BY DiskReads
<1> QED BY <1>1, <1>3, <1>4 DEF AsPlanned

LEMMA CreateEffect ==
    ASSUME Inv, Facts, NEW v \in Disks, CreateVHD(v)
    PROVE  Effect(v)
<1>1. /\ v \in Resources /\ at[v] = "create" /\ op[v] = "create" /\ plan[v].src = Null
      /\ FileHost(host) /\ Busy(host) /\ Makes(plan[v])
  <2>1. v \in Resources /\ v \notin Images /\ at[v] = "create" /\ op[v] = "create" /\ plan[v].src = Null
    BY Kinds DEF CreateVHD, Inv, Allowed
  <2> QED BY <2>1 DEF Inv, Fits, VhdFits, Facts, TypeOK, Busy
<1>2. CASE /\ NewAccepts(host, v, plan[v])
           /\ Ran(NewVHD(host, v, plan[v]))
           /\ Return(v, VhdState(host', v, plan[v]))
  <2>1. /\ Kept(v) /\ host'.file[v] \in Files /\ host'.file[v].type = plan[v].type
        /\ plan[v].type # "differencing" => host'.file[v].size = plan[v].size
        /\ plan[v].type = "differencing" => host'.file[v].parent = plan[v].parent
    BY <1>1, <1>2, NewWithin, RanKept DEF Ran
  <2> QED BY <1>1, <1>2, <2>1, MadeAsPlanned, DiskReturns
<1>3. CASE Ran(host) /\ Fail(v)
  BY <1>1, <1>3, HostWithin, RanKept, FailGoes DEF Effect
<1>4. CASE /\ CallFails(VhdCall("new", v), NewPartly(host, v, plan[v]))
           /\ Fail(v) \/ Goto(v, "createVerify")
  BY <1>1, <1>4, NewWithin, CallFailsKept, FailGoes, GotoGoes DEF Effect
<1> QED BY <1>2, <1>3, <1>4 DEF CreateVHD

LEMMA VerifyEffect ==
    ASSUME Inv, Facts, NEW v \in Disks, VerifyVHD(v)
    PROVE  Effect(v)
<1>1. /\ v \in Resources /\ v \in Paths /\ at[v] = "createVerify" /\ op[v] = "create"
      /\ plan[v].src = Null /\ FileHost(host) /\ Busy(host)
  BY Kinds DEF VerifyVHD, Inv, Allowed, Facts, Fact, Course, TypeOK, Busy
<1>2. CASE Expected(v) /\ Ran(host) /\ Return(v, VhdState(host, v, plan[v]))
  <2>1. Kept(v) /\ host' = host
    BY <1>1, <1>2, HostWithin, RanKept DEF Ran
  <2>2. /\ host.file[v] \in Files /\ host.file[v].type = plan[v].type
        /\ plan[v].type # "differencing" => host.file[v].size = plan[v].size
    BY <1>1, <1>2 DEF Expected, Exists, FileHost
  <2>3. AsPlanned(VhdState(host, v, plan[v]), plan[v]) \/ Surprising(v)
    BY <1>1, <2>2, MadeAsPlanned DEF Surprising
  <2> QED BY <1>1, <1>2, <2>1, <2>2, <2>3, DiskReturns
<1>3. CASE Ran(host) /\ Fail(v)
  BY <1>1, <1>3, HostWithin, RanKept, FailGoes DEF Effect
<1>4. CASE PollFails(v)
  BY <1>1, <1>4, PollGoes DEF Effect
<1> QED BY <1>2, <1>3, <1>4 DEF VerifyVHD

LEMMA CopyEffect ==
    ASSUME Inv, Facts, NEW v \in Disks, CopyVHD(v)
    PROVE  Effect(v)
<1>1. /\ v \in Resources /\ v \notin Images /\ op[v] \in {"create", "update"}
      /\ at[v] \in {"create", "update"} /\ plan[v].src # Null /\ FileHost(host) /\ Busy(host)
  BY Kinds DEF CopyVHD, CopyDue, Inv, Allowed, Facts, TypeOK, Busy
<1>2. plan[v].src = cfg[v].src /\ plan[v].src \in Paths /\ Sourced(v) /\ From(v) = plan[v].src
  <2>1. plan[v].src = cfg[v].src /\ cfg[v] # NoConfig
    BY <1>1, DiskPlanned
  <2> QED BY <1>1, <2>1, SourceElsewhere DEF Sourced, From
<1>3. CASE /\ CopyLands(host, v, plan[v]) # Null
           /\ Ran(Placed(host, v, CopyLands(host, v, plan[v])))
           /\ at' = [at EXCEPT ![v] = IF "size" \in DOMAIN plan[v] THEN "resize" ELSE "look"]
           /\ plan' = [plan EXCEPT ![v] = WithHash(plan[v], CopyLands(host, v, plan[v]))]
           /\ UNCHANGED <<memory, phase, op, tries>>
  <2> DEFINE f == CopyLands(host, v, plan[v])
  <2>1. f \in Files /\ Kept(v) /\ f \in {host.file[plan[v].src], Of(plan[v], "sha", Null)}
    BY <1>1, <1>2, <1>3, CopyWithin, RanKept
  <2>2. ~disturbed => f = host.file[From(v)] \/ SourceChanged(v)
    <3> SUFFICES ASSUME ~disturbed, f # host.file[plan[v].src], ~SourceChanged(v) PROVE FALSE
      BY <1>2
    <3>1. f = Of(plan[v], "sha", Null)
      BY <2>1
    <3> HIDE DEF f
    <3>2. "sha" \in DOMAIN plan[v] /\ f = plan[v].sha
      BY <2>1, <3>1, DiskAssumption DEF Of
    <3>3. Hashed(v)
      BY <1>1 DEF Facts, Fact
    <3> QED BY <1>1, <1>2, <3>2, <3>3 DEF Hashed
  <2> HIDE DEF f
  <2>3. plan' = [plan EXCEPT ![v] = WithHash(plan[v], f)]
    BY <1>3 DEF f
  <2> QED BY <1>1, <1>3, <2>1, <2>2, <2>3 DEF Effect, Lands
<1>4. CASE Ran(host) /\ Fail(v)
  BY <1>1, <1>4, HostWithin, RanKept, FailGoes DEF Effect
<1>5. CASE CallFails(VhdCall("copy", v), CopyPartly(host, v, plan[v])) /\ Fail(v)
  BY <1>1, <1>2, <1>5, CopyWithin, CallFailsKept, FailGoes DEF Effect
<1> QED BY <1>3, <1>4, <1>5 DEF CopyVHD, WithHash

\* A copy that is created was planned with its source, a size perhaps, and
\* what was copied.
LEMMA CopyPlanned ==
    ASSUME Inv, Facts, NEW v \in Disks, op[v] = "create", plan[v].src # Null
    PROVE  DOMAIN plan[v] \subseteq {"src", "size", "sha"}
<1>1. WellFormedVhd(v, cfg[v]) /\ cfg[v].src # Null /\ DOMAIN plan[v] \subseteq DOMAIN cfg[v] \cup {"sha"}
  BY DiskPlanned
<1> QED BY <1>1 DEF WellFormedVhd, SourceModeAllows

LEMMA ResizeCopyEffect ==
    ASSUME Inv, Facts, NEW v \in Disks, ResizeCopy(v)
    PROVE  Effect(v)
<1>1. /\ v \in Resources /\ v \notin Images /\ at[v] = "resize" /\ plan[v].src # Null
      /\ op[v] \in {"create", "update"} /\ "sha" \in DOMAIN plan[v] /\ "size" \in DOMAIN plan[v]
      /\ FileHost(host) /\ Busy(host)
  BY Kinds DEF ResizeCopy, Inv, Allowed, Facts, Fact, Course, TypeOK, Busy, Copying
<1>2. plan[v].size \in Sizes /\ plan[v].src \in Paths \cup {Null}
  BY <1>1 DEF Inv, Fits, VhdFits, Resizes
<1>3. CASE /\ ResizeAccepts(host, v, plan[v].size)
           /\ Ran(ResizeVHD(host, v, plan[v].size))
           /\ Return(v, VhdState(host', v, plan[v]))
  <2> DEFINE s == VhdState(host', v, plan[v])
  <2>1. /\ Kept(v) /\ host'.file[v] \in Files /\ host'.file[v].size = plan[v].size
    BY <1>1, <1>2, <1>3, ResizeWithin, RanKept DEF Ran
  <2>2. Of(plan[v], "sha", Null) = plan[v].sha /\ plan[v].sha \in Files
    BY <1>1, DiskPlanned DEF Of
  <2>3. s.src = plan[v].src /\ s.sha = plan[v].sha /\ s.size = plan[v].size
    BY <1>1, <1>2, <2>1, <2>2, DiskReads
  <2>4. st'[v] = s
    BY <1>1, <1>3 DEF Return, Inv, Shape
  <2> HIDE DEF s
  <2>5. CASE op[v] = "create"
    <3>1. AsPlanned(s, plan[v])
      BY <1>1, <2>3, <2>5, CopyPlanned DEF AsPlanned
    <3> QED BY <1>1, <1>3, <2>1, <3>1, DiskReturns DEF s
  <2>6. CASE op[v] = "update"
    <3>1. DOMAIN plan[v] = {"src", "sha", "type", "size", "parent", "fill"}
      BY <2>6, DiskPlanned DEF VhdStates
    <3>2. Surprising(v)
      BY <1>1, <2>3, <2>4, <2>6, <3>1 DEF Surprising, Inherited
    <3> QED BY <1>1, <1>3, <2>1, <3>2, DiskReturns
  <2> QED BY <1>1, <2>5, <2>6
<1>4. CASE Ran(host) /\ Goto(v, "rollback")
  BY <1>1, <1>4, HostWithin, RanKept, GotoGoes DEF Effect
<1>5. CASE /\ CallFails(VhdCall("resize", v), ResizePartly(host, v, plan[v].size))
           /\ Goto(v, "rollback")
  BY <1>1, <1>2, <1>5, ResizeWithin, CallFailsKept, GotoGoes DEF Effect
<1> QED BY <1>3, <1>4, <1>5 DEF ResizeCopy

LEMMA RollBackEffect ==
    ASSUME Inv, Facts, NEW v \in Disks, RollBack(v)
    PROVE  Effect(v)
<1>1. v \in Resources /\ v \in Paths /\ Fail(v) /\ FileHost(host) /\ Busy(host)
  BY Kinds DEF RollBack, Inv, Facts, TypeOK, Busy
<1>2. Goes(v)
  BY <1>1, FailGoes
<1>3. CASE Ran(IF Open(host, v) THEN host ELSE Removed(host, v))
  BY <1>1, <1>2, <1>3, HostWithin, RemovedWithin, RanKept DEF Effect
<1>4. CASE CallFails(VhdCall("remove", v), RemoveVHDPartly(host, v))
  BY <1>1, <1>2, <1>4, RemoveWithin, CallFailsKept DEF Effect
<1> QED BY <1>3, <1>4 DEF RollBack

LEMMA LookEffect ==
    ASSUME Inv, Facts, NEW v \in Disks, LookAtCopy(v)
    PROVE  Effect(v)
<1>1. /\ v \in Resources /\ v \in Paths /\ v \notin Images /\ at[v] = "look" /\ op[v] = "create"
      /\ plan[v].src # Null /\ "sha" \in DOMAIN plan[v] /\ "size" \notin DOMAIN plan[v]
      /\ FileHost(host) /\ Busy(host)
  BY Kinds DEF LookAtCopy, Inv, Allowed, Facts, Fact, Course, TypeOK, Busy, Copying
<1>2. CASE Exists(host, v) /\ Ran(host) /\ Return(v, VhdState(host, v, plan[v]))
  <2> DEFINE s == VhdState(host, v, plan[v])
  <2>1. Kept(v) /\ host' = host /\ host.file[v] \in Files
    BY <1>1, <1>2, HostWithin, RanKept DEF Ran, Exists, FileHost
  <2>2. Of(plan[v], "sha", Null) = plan[v].sha /\ plan[v].sha \in Files
        /\ plan[v].src \in Paths \cup {Null}
    BY <1>1, DiskPlanned DEF Of, Inv, Fits, VhdFits
  <2>3. s.src = plan[v].src /\ s.sha = plan[v].sha
    BY <1>1, <2>1, <2>2, DiskReads
  <2>4. AsPlanned(s, plan[v])
    <3> HIDE DEF s
    <3> QED BY <1>1, <2>3, CopyPlanned DEF AsPlanned
  <2> QED BY <1>1, <1>2, <2>1, <2>4, DiskReturns
<1>3. CASE Ran(host) /\ Fail(v)
  BY <1>1, <1>3, HostWithin, RanKept, FailGoes DEF Effect
<1>4. CASE ReadFails /\ Fail(v)
  BY <1>1, <1>4, ReadFailsKept, FailGoes DEF Effect
<1> QED BY <1>2, <1>3, <1>4 DEF LookAtCopy

LEMMA ReadDiskEffect ==
    ASSUME Inv, Facts, NEW v \in Disks, ReadVHD(v)
    PROVE  Effect(v)
<1>1. /\ v \in Resources /\ v \in Paths /\ v \notin Images /\ at[v] = "read"
      /\ FileHost(host) /\ Busy(host)
  BY Kinds DEF ReadVHD, Inv, Facts, TypeOK, Busy
<1>2. CASE Ran(host) /\ Refreshed(v, IF Exists(host, v) THEN VhdState(host, v, st[v]) ELSE NoState)
  <2> DEFINE s == IF Exists(host, v) THEN VhdState(host, v, st[v]) ELSE NoState
  <2>1. st[v] \in VhdStates
    BY <1>1 DEF Facts, Fact, Course, TypeOK
  <2>2. ASSUME Exists(host, v)
        PROVE  s \in VhdStates /\ Current(host, v, s) /\ s # NoState /\ Traced(v, s)
    <3>1. s = VhdState(host, v, st[v]) /\ host.file[v] \in Files
      BY <1>1, <2>2 DEF FileHost, Exists
    <3>2. st[v].src \in Paths \cup {Null} /\ Of(st[v], "sha", Null) \in Files \cup {Null}
      BY <2>1 DEF VhdStates, Of
    <3> HIDE DEF s
    <3> QED BY <1>1, <2>2, <3>1, <3>2, DiskReads DEF Current
  <2>3. ~Exists(host, v) => s = NoState
    OBVIOUS
  <2> HIDE DEF s
  <2>4. Refreshed(v, s) /\ UNCHANGED host /\ Kept(v)
    BY <1>1, <1>2, HostWithin, RanKept DEF s, Ran
  <2>5. s \in States(v) \cup {NoState} /\ IF s = NoState THEN ~Exists(host, v) ELSE Current(host, v, s)
    BY <1>1, <2>2, <2>3 DEF States
  <2>6. Traced(v, s)
    BY <2>2, <2>3 DEF Traced
  <2> QED BY <1>1, <2>4, <2>5, <2>6 DEF Effect, Reads
<1>3. CASE ReadFails /\ Fail(v)
  BY <1>1, <1>3, ReadFailsKept, FailGoes DEF Effect
<1> QED BY <1>2, <1>3 DEF ReadVHD

\* What an update that copies nothing starts from.
LEMMA UpdateStarts ==
    ASSUME Inv, Facts, NEW v \in Disks, at[v] = "update", ~CopyDue(v)
    PROVE  /\ op[v] = "update" /\ plan[v] \in VhdStates /\ st[v] # NoState
           /\ plan[v].src = st[v].src /\ plan[v].type = st[v].type /\ plan[v].parent = st[v].parent
           /\ plan[v].sha = st[v].sha /\ Traced(v, plan[v])
           /\ ~disturbed => /\ Exists(host, v) /\ host.file[v].type = st[v].type
                            /\ host.file[v].size = st[v].size /\ host.file[v].parent = st[v].parent
<1>1. v \in Resources /\ v \notin Images /\ op[v] = "update"
  BY Kinds DEF Inv, Allowed
<1>2. /\ plan[v] \in VhdStates /\ cfg[v] # NoConfig /\ plan[v].src = cfg[v].src
      /\ Hashes(v) <=> cfg[v].src # Null
  BY <1>1, DiskPlanned
<1>3. /\ st[v] # NoState /\ \A a \in {"src", "type", "parent"} : plan[v][a] = st[v][a]
      /\ ~Hashes(v) => plan[v].sha = st[v].sha
  BY <1>1 DEF Facts, Fact, Updates, Forces
<1>4. plan[v].sha = st[v].sha
  BY <1>2, <1>3 DEF CopyDue
<1>5. Traced(v, plan[v])
  <2>1. Traced(v, st[v])
    BY <1>1 DEF Facts, Fact
  <2> QED BY <1>3, <1>4, <2>1 DEF Traced
<1>6. ASSUME ~disturbed
      PROVE  /\ Exists(host, v) /\ host.file[v].type = st[v].type
             /\ host.file[v].size = st[v].size /\ host.file[v].parent = st[v].parent
  <2>1. v \in workspace
    BY <1>1 DEF Facts, Fact, Course
  <2>2. Exists(host, v) /\ st[v] = VhdState(host, v, st[v])
    BY <1>1, <1>3, <1>6, <2>1 DEF Facts, Fact, AsRead, Current
  <2> QED BY <2>2 DEF VhdState
<1> QED BY <1>1, <1>2, <1>3, <1>4, <1>5, <1>6

LEMMA UpdateDiskEffect ==
    ASSUME Inv, Facts, NEW v \in Disks, UpdateVHD(v)
    PROVE  Effect(v)
<1>1. /\ v \in Resources /\ v \in Paths /\ v \notin Images /\ at[v] = "update" /\ ~CopyDue(v)
      /\ FileHost(host) /\ Busy(host)
  BY Kinds DEF UpdateVHD, Inv, Facts, TypeOK, Busy
<1>2. /\ op[v] = "update" /\ plan[v] \in VhdStates /\ plan[v].size \in Sizes
      /\ DOMAIN plan[v] = {"src", "sha", "type", "size", "parent", "fill"}
      /\ plan[v].src \in Paths \cup {Null} /\ plan[v].sha \in Files \cup {Null}
  BY <1>1, UpdateStarts DEF VhdStates
<1>3. CASE plan[v].size = st[v].size /\ Ran(host) /\ Return(v, plan[v])
  <2>1. Kept(v) /\ host' = host
    BY <1>1, <1>3, HostWithin, RanKept DEF Ran
  <2>2. st'[v] = plan[v] /\ plan[v] # NoState
    BY <1>1, <1>2, <1>3, NoStateAssumption DEF Return, Inv, Shape
  <2>3. disturbed \/ InSync(v)' \/ SourceChanged(v)
    <3> SUFFICES ASSUME ~disturbed PROVE InSync(v)' \/ SourceChanged(v)
      OBVIOUS
    <3> DEFINE s == VhdState(host, v, plan[v])
    <3>1. host.file[v] \in Files
      BY <1>1, UpdateStarts DEF FileHost, Exists
    <3>2. /\ s.src = plan[v].src /\ s.type = host.file[v].type /\ s.size = host.file[v].size
          /\ s.parent = host.file[v].parent
      BY <1>2, <3>1, DiskReads DEF Of
    <3> HIDE DEF s
    <3>3. s.type = plan[v].type /\ s.size = plan[v].size /\ s.parent = plan[v].parent
      BY <1>1, <1>3, <3>2, UpdateStarts
    <3>4. \A a \in DOMAIN cfg[v] : s[a] = plan[v][a]
      BY <1>2, <3>2, <3>3, DiskPlanned
    <3>5. VhdState(host', v, plan[v]) = s
      BY <2>1 DEF s
    <3> QED BY <1>2, <2>1, <2>2, <3>1, <3>2, <3>4, <3>5, DiskInSync
  <2>4. AsPlanned(plan[v], plan[v]) /\ Traced(v, plan[v]) /\ plan[v] \in States(v)
    BY <1>1, <1>2, UpdateStarts DEF AsPlanned, States
  <2> QED BY <1>1, <1>3, <2>1, <2>3, <2>4 DEF Effect, Writes
<1>4. CASE /\ ResizeAccepts(host, v, plan[v].size)
           /\ Ran(ResizeVHD(host, v, plan[v].size))
           /\ Return(v, VhdState(host', v, plan[v]))
  <2> DEFINE s == VhdState(host', v, plan[v])
  <2>1. /\ Kept(v) /\ host'.file[v] \in Files /\ host'.file[v].size = plan[v].size
        /\ host'.file[v].type = host.file[v].type /\ host'.file[v].parent = host.file[v].parent
    BY <1>1, <1>2, <1>4, ResizeWithin, RanKept DEF Ran
  <2>2. /\ s.src = plan[v].src /\ s.type = host'.file[v].type /\ s.size = host'.file[v].size
        /\ s.parent = host'.file[v].parent
        /\ s.src # Null => s.sha = plan[v].sha
        /\ s.src = Null => s.sha = Null
    BY <1>2, <2>1, DiskReads DEF Of
  <2>3. st'[v] = s
    BY <1>1, <1>4 DEF Return, Inv, Shape
  <2> HIDE DEF s
  <2>4. s.sha = plan[v].sha
    <3>1. plan[v] # NoState
      BY <1>2, NoStateAssumption
    <3>2. plan[v].src = Null => plan[v].sha = Null
      BY <1>1, <3>1, UpdateStarts DEF Traced
    <3> QED BY <2>2, <3>2
  <2>5. disturbed \/ Surprising(v)
    <3> SUFFICES ASSUME ~disturbed PROVE Surprising(v)
      OBVIOUS
    <3>1. s.type = plan[v].type /\ s.parent = plan[v].parent
      BY <1>1, <2>1, <2>2, UpdateStarts
    <3>2. \A a \in DOMAIN plan[v] \ {"fill"} : s[a] = plan[v][a]
      BY <1>2, <2>1, <2>2, <2>4, <3>1
    <3> QED BY <1>1, <1>2, <2>3, <3>2 DEF Surprising, Inherited
  <2> QED BY <1>1, <1>2, <1>4, <2>1, <2>5, DiskReturns
<1>5. CASE Ran(host) /\ Fail(v)
  BY <1>1, <1>5, HostWithin, RanKept, FailGoes DEF Effect
<1>6. CASE CallFails(VhdCall("resize", v), ResizePartly(host, v, plan[v].size)) /\ Fail(v)
  BY <1>1, <1>2, <1>6, ResizeWithin, CallFailsKept, FailGoes DEF Effect
<1> QED BY <1>3, <1>4, <1>5, <1>6 DEF UpdateVHD

LEMMA DeleteDiskEffect ==
    ASSUME Inv, Facts, NEW v \in Disks, DeleteVHD(v)
    PROVE  Effect(v)
<1>1. /\ v \in Resources /\ v \in Paths /\ v \notin Images /\ at[v] = "delete"
      /\ FileHost(host) /\ Busy(host)
  BY Kinds DEF DeleteVHD, Inv, Facts, TypeOK, Busy
<1>2. CASE Ran(Removed(host, v)) /\ Deleted(v)
  <2>1. Kept(v) /\ ~Exists(host', v)
    BY <1>1, <1>2, RemovedWithin, RanKept DEF Ran, Exists
  <2> QED BY <1>1, <1>2, <2>1 DEF Effect, Destroys
<1>3. CASE Ran(host) /\ Fail(v)
  BY <1>1, <1>3, HostWithin, RanKept, FailGoes DEF Effect
<1>4. CASE CallFails(VhdCall("remove", v), RemoveVHDPartly(host, v)) /\ Fail(v)
  BY <1>1, <1>4, RemoveWithin, CallFailsKept, FailGoes DEF Effect
<1> QED BY <1>2, <1>3, <1>4 DEF DeleteVHD

LEMMA StepEffect ==
    ASSUME Inv, Facts, NEW r \in workspace, Step(r)
    PROVE  Effect(r)
<1>1. r \in Images /\ ImageStep(r) => Effect(r)
  BY ImageEffect
<1>2. r \in Disks /\ VhdStep(r) => Effect(r)
  BY CreateEffect, VerifyEffect, CopyEffect, ResizeCopyEffect, RollBackEffect, LookEffect,
     ReadDiskEffect, UpdateDiskEffect, DeleteDiskEffect DEF VhdStep
<1> QED BY <1>1, <1>2 DEF Step

-----------------------------------------------------------------------------
(* A step keeps the second invariant *)

\* Only what has something to do does it.
LEMMA StepActs ==
    ASSUME Inv, Facts, NEW r \in workspace, Step(r)
    PROVE  /\ r \in Resources
           /\ at[r] \notin Ended \cup {"none"}
           /\ phase = "apply" => op[r] # "none"
           /\ phase = "refresh" => at[r] = "read"
           /\ phase # "idle"
<1>1. r \in Resources /\ Course(r)
  BY DEF Inv, Shape, Facts, Fact
<1>2. at[r] \in {"read", "create", "createVerify", "resize", "rollback", "look", "update", "delete"}
  BY DEF Step, ImageStep, CreateImage, ReadImage, UpdateImage, DeleteImage, VhdStep, CreateVHD,
         VerifyVHD, CopyVHD, CopyDue, ResizeCopy, RollBack, LookAtCopy, ReadVHD, UpdateVHD, DeleteVHD
<1>3. phase = "apply" => op[r] # "none"
  <2>1. CASE r \in Images
    BY <1>1, <1>2, <2>1, Kinds DEF Inv, Begins, Course, Copying
  <2>2. CASE r \in Disks
    BY <1>1, <1>2, <2>2 DEF Inv, Allowed, Course
  <2> QED BY <1>1, <2>1, <2>2, Kinds
<1> QED BY <1>1, <1>2, <1>3 DEF Course, Ended

\* What a handler leaves alone of the other resources.
LEMMA EffectOthers ==
    ASSUME Inv, Facts, NEW r \in workspace, Effect(r)
    PROVE  /\ r \in Resources
           /\ UNCHANGED <<workspace, cfg, phase, disturbed>>
           /\ \A q \in Resources \ {r} :
                  /\ at'[q] = at[q] /\ st'[q] = st[q] /\ op'[q] = op[q] /\ plan'[q] = plan[q]
                  /\ q \in tainted' <=> q \in tainted
           /\ op'[r] = op[r] \/ (op[r] = "replace" /\ op'[r] = "create")
<1>1. r \in Resources /\ Shape /\ Kept(r)
  BY DEF Inv, Shape, Effect
<1>2. CASE Goes(r)
  BY <1>1, <1>2 DEF Goes, Kept, memory, walk, Shape
<1>3. ASSUME NEW s, Refreshed(r, s) \/ Return(r, s)
      PROVE  /\ UNCHANGED <<phase, op, plan>>
             /\ \A q \in Resources \ {r} :
                    at'[q] = at[q] /\ st'[q] = st[q] /\ (q \in tainted' <=> q \in tainted)
  BY <1>1, <1>3 DEF Refreshed, Return, walk, Shape
<1>4. CASE Reads(r) \/ Writes(r)
  BY <1>1, <1>3, <1>4 DEF Reads, Writes, Kept
<1>5. CASE Destroys(r)
  BY <1>1, <1>5 DEF Destroys, Deleted, Kept, Shape
<1>6. CASE Lands(r)
  BY <1>1, <1>6 DEF Lands, Kept, Shape, memory
<1> QED BY <1>2, <1>4, <1>5, <1>6 DEF Effect

LEMMA ChangedStays ==
    ASSUME Inv, Facts, NEW r \in workspace, Effect(r), NEW q \in Resources, SourceChanged(q)
    PROVE  SourceChanged(q)'
<1>1. /\ workspace' = workspace /\ cfg' = cfg /\ workspace \subseteq Resources
      /\ \A x \in Resources : op[x] # "none" => op'[x] # "none"
  BY EffectOthers DEF Inv, Shape
<1> QED BY <1>1 DEF SourceChanged

\* What decides whether a file is in sync.
LEMMA InSyncSame ==
    ASSUME NEW q \in Resources, cfg' = cfg, st'[q] = st[q], op'[q] = op[q],
           host'.file[q] = host.file[q], host'.origin = host.origin,
           Sourced(q) => host'.file[From(q)] = host.file[From(q)]
    PROVE  InSync(q)' = InSync(q)
<1>1. CASE cfg[q] = NoConfig
  BY <1>1 DEF InSync, Exists
<1>2. CASE cfg[q] # NoConfig /\ q \in Images
  <2>1. ImageInSync(q)' = ImageInSync(q)
    BY <1>2 DEF ImageInSync, Sourced, From
  <2> QED BY <1>2, <2>1 DEF InSync
<1>3. CASE cfg[q] # NoConfig /\ q \notin Images
  <2>1. \A p : VhdState(host', q, p) = VhdState(host, q, p)
    BY DEF VhdState
  <2>2. VhdInSync(q)' = VhdInSync(q)
    BY <1>3, <2>1 DEF VhdInSync, Sourced, From, Exists
  <2> QED BY <1>3, <2>2 DEF InSync
<1> QED BY <1>1, <1>2, <1>3

LEMMA CurrentSame ==
    ASSUME NEW h, NEW g, NEW q \in Resources, NEW s, g.file[q] = h.file[q]
    PROVE  Current(g, q, s) <=> Current(h, q, s)
<1>1. ImageState(g, q, s) = ImageState(h, q, s) /\ VhdState(g, q, s) = VhdState(h, q, s)
  BY DEF ImageState, VhdState
<1> QED BY <1>1 DEF Current, Exists

\* The source of q is what it was, or this step shows that it changes.
LEMMA SourceKept ==
    ASSUME Inv, Facts, NEW r \in workspace, Step(r), Effect(r), NEW q \in Resources, Sourced(q),
           phase = "apply"
    PROVE  host'.file[From(q)] = host.file[From(q)] \/ SourceChanged(q)'
<1>1. /\ From(q) \in Paths \ {q} /\ r \in Resources /\ op[r] # "none"
      /\ \A p \in Paths \ {r} : host'.file[p] = host.file[p]
  BY SourceElsewhere, StepActs DEF Effect, Kept, Within
<1>2. CASE From(q) = r
  BY <1>1, <1>2, ChangedStays DEF SourceChanged, Sourced, From
<1> QED BY <1>1, <1>2

\* A planned hash stays that of the source.
LEMMA HashStays ==
    ASSUME Inv, Facts, NEW r \in workspace, Step(r), Effect(r), NEW q \in Resources, phase = "apply",
           plan'[q] = plan[q], op'[q] # "none" => op[q] \in {op'[q], "replace"}
    PROVE  Hashed(q)'
<1>1. Hashed(q) /\ cfg' = cfg /\ disturbed' = disturbed /\ host'.origin = host.origin
  BY EffectOthers DEF Facts, Fact, Effect, Kept, Within
<1>2. Sourced(q)' = Sourced(q) /\ From(q)' = From(q)
  BY <1>1 DEF Sourced, From
<1>3. SourceChanged(q) => SourceChanged(q)'
  BY ChangedStays
<1>4. Sourced(q) => host'.file[From(q)] = host.file[From(q)] \/ SourceChanged(q)'
  BY SourceKept
<1> QED BY <1>1, <1>2, <1>3, <1>4 DEF Hashed

LEMMA OthersAsBefore ==
    ASSUME Inv, Facts, NEW r \in workspace, Step(r), Effect(r), NEW q \in Resources \ {r}
    PROVE  Fact(q)'
<1>1. /\ UNCHANGED <<workspace, cfg, phase, disturbed>>
      /\ at'[q] = at[q] /\ st'[q] = st[q] /\ op'[q] = op[q] /\ plan'[q] = plan[q]
      /\ r \in Resources
  BY EffectOthers
<1>2. /\ Course(q) /\ Asked(q) /\ Updates(q) /\ Traced(q, st[q])
      /\ q \in workspace => AsRead(q) /\ Settled(q)
  BY DEF Facts, Fact
<1>3. host'.file[q] = host.file[q] /\ host'.origin = host.origin
  BY Kinds DEF Effect, Kept, Within
<1>4. Course(q)' /\ Traced(q, st[q])'
  BY <1>1, <1>2 DEF Course, Traced
<1>5. Hashes(q)' = Hashes(q) /\ Sourced(q)' = Sourced(q)
  BY <1>1 DEF Hashes, Sourced
<1>6. Asked(q)' /\ Updates(q)'
  BY <1>1, <1>2, <1>5 DEF Asked, Updates
<1>7. Hashed(q)'
  <2>1. CASE phase = "apply"
    BY <1>1, <2>1, HashStays
  <2>2. CASE phase # "apply"
    BY <1>1, <1>2, <2>2 DEF Hashed, Course
  <2> QED BY <2>1, <2>2
<1>8. q \in workspace => AsRead(q)'
  BY <1>1, <1>2, <1>3, CurrentSame DEF AsRead
<1>9. ASSUME q \in workspace PROVE Settled(q)'
  <2> SUFFICES ASSUME phase = "apply", ~disturbed, at[q] = "ok"
               PROVE  InSync(q)' \/ SourceChanged(q)' \/ Drifted(q)' \/ Unknown(q)'
    BY <1>1 DEF Settled
  <2>1. InSync(q) \/ SourceChanged(q) \/ Drifted(q) \/ Unknown(q)
    BY <1>2, <1>9 DEF Settled
  <2>2. CASE SourceChanged(q)
    BY <2>2, ChangedStays
  <2>3. CASE Drifted(q) \/ Unknown(q)
    BY <1>1, <2>3 DEF Drifted, Unknown
  <2>4. CASE InSync(q)
    <3>1. (Sourced(q) => host'.file[From(q)] = host.file[From(q)]) \/ SourceChanged(q)'
      BY SourceKept
    <3> QED BY <1>1, <1>3, <2>4, <3>1, InSyncSame
  <2> QED BY <2>1, <2>2, <2>3, <2>4
<1> QED BY <1>1, <1>4, <1>6, <1>7, <1>8, <1>9 DEF Fact

LEMMA GoesKeeps ==
    ASSUME Inv, Facts, NEW r \in workspace, Step(r), Effect(r), Goes(r)
    PROVE  Fact(r)'
<1>1. /\ r \in Resources /\ at[r] \notin Ended \cup {"none"} /\ at \in [Resources -> Steps]
      /\ UNCHANGED <<workspace, cfg, disturbed, st, phase, op, plan>>
  BY StepActs DEF Inv, Shape, Effect, Kept, Goes, memory, walk
<1>2. Course(r) /\ Asked(r) /\ Hashed(r) /\ Traced(r, st[r])
  BY <1>1 DEF Facts, Fact
<1>3. PICK x \in {"error", "createVerify", "rollback"} :
          /\ at'[r] = x
          /\ x = "createVerify" =>
                 r \in Disks /\ plan[r].src = Null /\ at[r] \in {"create", "createVerify"}
          /\ x = "rollback" => r \in Disks /\ at[r] = "resize"
  BY <1>1 DEF Goes
<1>4. x = "createVerify" => op[r] = "create"
  BY <1>3 DEF Inv, Allowed
<1>5. Course(r)'
  BY <1>1, <1>2, <1>3, <1>4 DEF Course, Copying, Ended
<1>6. Asked(r)' /\ Traced(r, st[r])'
  BY <1>1, <1>2 DEF Asked, Traced, Hashes, Sourced
<1>7. Updates(r)' /\ AsRead(r)' /\ Settled(r)'
  BY <1>3 DEF Updates, AsRead, Settled
<1>8. Hashed(r)'
  <2>1. CASE phase = "apply"
    BY <1>1, <2>1, HashStays
  <2>2. CASE phase # "apply"
    BY <1>1, <1>2, <2>2 DEF Hashed, Course
  <2> QED BY <2>1, <2>2
<1> QED BY <1>5, <1>6, <1>7, <1>8 DEF Fact

LEMMA WithHashIs ==
    ASSUME NEW p, NEW f
    PROVE  /\ DOMAIN WithHash(p, f) = DOMAIN p \cup {"sha"} /\ WithHash(p, f).sha = f
           /\ \A a \in DOMAIN p \ {"sha"} : WithHash(p, f)[a] = p[a]
           /\ p \in VhdStates /\ f \in Files => WithHash(p, f) \in VhdStates
<1>1. /\ DOMAIN WithHash(p, f) = DOMAIN p \cup {"sha"} /\ WithHash(p, f).sha = f
      /\ \A a \in DOMAIN p \ {"sha"} : WithHash(p, f)[a] = p[a]
  BY DEF WithHash
<1>2. ASSUME p \in VhdStates, f \in Files PROVE WithHash(p, f) \in VhdStates
  <2>1. DOMAIN p = {"src", "sha", "type", "size", "parent", "fill"}
    BY <1>2 DEF VhdStates
  <2>2. DOMAIN p \cup {"sha"} = DOMAIN p
    BY <2>1
  <2>3. WithHash(p, f) = [p EXCEPT !.sha = f]
    BY <2>1, <2>2 DEF WithHash
  <2> QED BY <1>2, <2>3 DEF VhdStates
<1> QED BY <1>1, <1>2

LEMMA LandsKeeps ==
    ASSUME Inv, Facts, NEW r \in workspace, Step(r), Effect(r), Lands(r)
    PROVE  Fact(r)'
<1>1. /\ r \in Resources /\ r \in Disks /\ r \notin Images /\ Shape
      /\ at[r] \in {"create", "update"} /\ plan[r].src # Null
      /\ UNCHANGED <<workspace, cfg, disturbed, st, tainted, phase, op>>
  BY StepActs, Kinds DEF Inv, Effect, Kept, Lands, memory
<1>2. PICK f \in Files : /\ plan'[r] = WithHash(plan[r], f)
                         /\ ~disturbed => f = host.file[From(r)] \/ SourceChanged(r)
  BY <1>1 DEF Lands, Shape
<1>3. at'[r] = IF "size" \in DOMAIN plan[r] THEN "resize" ELSE "look"
  BY <1>1 DEF Lands, Shape
<1>4. op[r] \in {"create", "update"} /\ op[r] = at[r] /\ Course(r) /\ Asked(r) /\ Traced(r, st[r])
  BY <1>1 DEF Inv, Allowed, Facts, Fact
<1>5. /\ cfg[r] # NoConfig /\ plan[r].src = cfg[r].src /\ Hashes(r) /\ Sourced(r)
      /\ DOMAIN cfg[r] \subseteq {"src", "type", "size", "parent"}
      /\ op[r] = "update" => plan[r] \in VhdStates
  BY <1>1, <1>4, DiskPlanned DEF Sourced
<1>6. /\ DOMAIN plan'[r] = DOMAIN plan[r] \cup {"sha"} /\ plan'[r].sha = f
      /\ \A a \in DOMAIN plan[r] \ {"sha"} : plan'[r][a] = plan[r][a]
      /\ op[r] = "update" => plan'[r] \in VhdStates
  <2>1. /\ DOMAIN WithHash(plan[r], f) = DOMAIN plan[r] \cup {"sha"} /\ WithHash(plan[r], f).sha = f
        /\ \A a \in DOMAIN plan[r] \ {"sha"} : WithHash(plan[r], f)[a] = plan[r][a]
        /\ plan[r] \in VhdStates => WithHash(plan[r], f) \in VhdStates
    BY WithHashIs
  <2> QED BY <1>2, <1>5, <2>1
<1>7. op[r] = "update" => "size" \in DOMAIN plan[r]
  BY <1>5 DEF VhdStates
<1>8. Course(r)'
  BY <1>1, <1>3, <1>4, <1>6, <1>7 DEF Course, Copying
<1>9. Asked(r)'
  <2>1. Hashes(r)' = Hashes(r)
    BY <1>1 DEF Hashes, Sourced
  <2>2. \A a \in DOMAIN cfg[r] : a \in DOMAIN plan'[r] /\ plan'[r][a] = cfg[r][a]
    BY <1>4, <1>5, <1>6 DEF Asked
  <2>3. op[r] # "update" => DOMAIN plan'[r] \subseteq DOMAIN cfg[r] \cup {"sha"}
    BY <1>4, <1>6 DEF Asked
  <2> QED BY <1>1, <1>2, <1>4, <1>5, <1>6, <2>1, <2>2, <2>3 DEF Asked, States
<1>10. Hashed(r)'
  <2>1. SourceChanged(r)' = SourceChanged(r)
    BY <1>1 DEF SourceChanged
  <2>2. host'.file[From(r)] = host.file[From(r)]
    BY <1>1, <1>5, SourceElsewhere DEF Effect, Kept, Within
  <2>3. From(r)' = From(r)
    BY <1>1 DEF From
  <2> QED BY <1>1, <1>2, <1>6, <2>1, <2>2, <2>3 DEF Hashed
<1>11. Updates(r)' /\ AsRead(r)' /\ Settled(r)' /\ Traced(r, st[r])'
  BY <1>1, <1>3, <1>4 DEF Updates, AsRead, Settled, Traced, Course
<1> QED BY <1>8, <1>9, <1>10, <1>11 DEF Fact

LEMMA ReadsKeeps ==
    ASSUME Inv, Facts, NEW r \in workspace, Step(r), Effect(r), Reads(r)
    PROVE  Fact(r)'
<1>1. r \in Resources /\ Shape /\ Course(r)
  BY DEF Inv, Shape, Facts, Fact
<1>2. PICK s \in States(r) \cup {NoState} :
          /\ Refreshed(r, s) /\ UNCHANGED host /\ Traced(r, s)
          /\ IF s = NoState THEN ~Exists(host, r) ELSE Current(host, r, s)
  BY DEF Reads
<1>3. /\ at'[r] = "ok" /\ st'[r] = s
      /\ UNCHANGED <<workspace, cfg, phase, op, plan>>
  BY <1>1, <1>2 DEF Refreshed, Shape, walk, Effect, Kept
<1>4. phase = "refresh" /\ op[r] = "none"
  BY <1>1 DEF Reads, Course, Shape
<1>5. Course(r)'
  BY <1>1, <1>3, <1>4 DEF Course, Copying
<1>6. Asked(r)' /\ Settled(r)' /\ Updates(r)' /\ Hashed(r)' /\ Traced(r, st[r])'
  BY <1>2, <1>3, <1>4 DEF Asked, Settled, Updates, Hashed, Traced
<1>7. AsRead(r)'
  BY <1>2, <1>3 DEF AsRead
<1> QED BY <1>5, <1>6, <1>7 DEF Fact

LEMMA WritesKeeps ==
    ASSUME Inv, Facts, NEW r \in workspace, Step(r), Effect(r), Writes(r)
    PROVE  Fact(r)'
<1>1. r \in Resources /\ Shape /\ Course(r) /\ Asked(r)
  BY DEF Inv, Shape, Facts, Fact
<1>2. PICK s \in States(r) :
          /\ Return(r, s) /\ Traced(r, s)
          /\ AsPlanned(s, plan[r]) => InSync(r)' \/ disturbed \/ SourceChanged(r) \/ Drifted(r)
  BY DEF Writes
<1>3. /\ at'[r] = IF AsPlanned(s, plan[r]) THEN "ok" ELSE "inconsistent"
      /\ st'[r] = s
      /\ UNCHANGED <<workspace, cfg, phase, op, plan, disturbed>>
  BY <1>1, <1>2 DEF Return, Shape, walk, Effect, Kept
<1>4. phase = "apply" /\ op[r] # "none" /\ op[r] # "replace"
  BY <1>1, StepActs DEF Writes, Course, Facts, TypeOK
<1>5. Course(r)'
  BY <1>1, <1>3, <1>4 DEF Course, Copying
<1>6. Asked(r)' /\ AsRead(r)' /\ Updates(r)' /\ Traced(r, st[r])'
  BY <1>1, <1>2, <1>3, <1>4 DEF Asked, AsRead, Updates, Traced, Hashes, Sourced
<1>7. Hashed(r)'
  BY <1>1, <1>3, <1>4, HashStays
<1>8. Settled(r)'
  <2>1. SourceChanged(r)' = SourceChanged(r) /\ Drifted(r)' = Drifted(r)
    BY <1>3 DEF SourceChanged, Drifted
  <2> QED BY <1>2, <1>3, <2>1 DEF Settled
<1> QED BY <1>5, <1>6, <1>7, <1>8 DEF Fact

LEMMA DestroysKeeps ==
    ASSUME Inv, Facts, NEW r \in workspace, Step(r), Effect(r), Destroys(r)
    PROVE  Fact(r)'
<1>1. r \in Resources /\ Shape /\ Course(r) /\ Asked(r)
  BY DEF Inv, Shape, Facts, Fact
<1>2. /\ st'[r] = NoState
      /\ op'[r] = IF op[r] = "replace" THEN "create" ELSE op[r]
      /\ at'[r] = IF op[r] = "replace" THEN "create" ELSE "ok"
      /\ UNCHANGED <<workspace, cfg, phase, plan>>
  BY <1>1 DEF Destroys, Deleted, Shape, Effect, Kept
<1>3. phase = "apply" /\ op[r] \in {"delete", "replace"}
  BY <1>1 DEF Destroys, Course
<1>4. Course(r)'
  BY <1>1, <1>2, <1>3 DEF Course, Copying
<1>5. Asked(r)' /\ AsRead(r)' /\ Updates(r)' /\ Traced(r, st[r])'
  BY <1>1, <1>2, <1>3 DEF Asked, AsRead, Updates, Traced, Hashes, Sourced
<1>6. Hashed(r)'
  BY <1>1, <1>2, <1>3, HashStays
<1>7. Settled(r)'
  <2>1. CASE op[r] = "delete"
    <3>1. cfg'[r] = NoConfig
      BY <1>1, <1>2, <2>1 DEF Asked
    <3>2. InSync(r)'
      BY <3>1, Kinds DEF InSync, Destroys
    <3> QED BY <3>2 DEF Settled
  <2>2. CASE op[r] = "replace"
    BY <1>2, <2>2 DEF Settled
  <2> QED BY <1>3, <2>1, <2>2
<1> QED BY <1>4, <1>5, <1>6, <1>7 DEF Fact

LEMMA EffectTypes ==
    ASSUME Inv, Facts, NEW r \in workspace, Inv', Effect(r)
    PROVE  TypeOK'
<1>1. /\ r \in Resources /\ TypeOK /\ Shape /\ Shape' /\ Kept(r)
      /\ UNCHANGED <<workspace, cfg, phase, disturbed>>
  BY EffectOthers DEF Facts, Effect, Inv
<1>2. /\ host'.file \in [Paths -> Files \cup {Null}] /\ host'.origin \in [Origins -> Contents]
      /\ host'.busy \subseteq {p \in Paths : Exists(host', p)} /\ events' \in Nat
  BY <1>1 DEF Kept, Within, FileHost, Busy
<1>3. ASSUME NEW s \in States(r) \cup {NoState}, st' = [st EXCEPT ![r] = s],
             tainted' \subseteq tainted \cup {r}, s = NoState => r \notin tainted'
      PROVE  /\ \A i \in Images : st'[i] \in ImageStates \cup {NoState}
             /\ \A v \in Disks : st'[v] \in VhdStates \cup {NoState}
             /\ tainted' \subseteq {q \in Resources : st'[q] # NoState}
  <2>1. \A q \in Resources : st'[q] = IF q = r THEN s ELSE st[q]
    BY <1>1, <1>3 DEF Shape
  <2> QED BY <1>1, <1>3, <2>1, Kinds DEF TypeOK, States
<1>4. ASSUME tries' = tries \/ tries' = [tries EXCEPT ![r] = 0]
      PROVE  tries' \in [Resources -> 0 .. VerifyAttempts - 1]
  <2>1. 0 \in 0 .. VerifyAttempts - 1
    BY TerraformAssumption
  <2> QED BY <1>1, <1>4, <2>1 DEF TypeOK
<1>5. /\ \A i \in Images : st'[i] \in ImageStates \cup {NoState}
      /\ \A v \in Disks : st'[v] \in VhdStates \cup {NoState}
      /\ tainted' \subseteq {q \in Resources : st'[q] # NoState}
      /\ tries' \in [Resources -> 0 .. VerifyAttempts - 1]
  <2>1. CASE Goes(r) \/ Lands(r)
    BY <1>1, <2>1 DEF Goes, Lands, memory, TypeOK
  <2>2. CASE Reads(r)
    <3>1. PICK s \in States(r) \cup {NoState} : Refreshed(r, s)
      BY <2>2 DEF Reads
    <3>2. /\ st' = [st EXCEPT ![r] = s] /\ tries' = tries
          /\ tainted' \subseteq tainted \cup {r} /\ (s = NoState => r \notin tainted')
      BY <3>1 DEF Refreshed
    <3> QED BY <1>3, <1>4, <3>2
  <2>3. CASE Writes(r)
    <3>1. PICK s \in States(r) : Return(r, s)
      BY <2>3 DEF Writes
    <3>2. s # NoState
      BY NoStateAssumption DEF States
    <3>3. /\ st' = [st EXCEPT ![r] = s] /\ tries' = [tries EXCEPT ![r] = 0]
          /\ tainted' \subseteq tainted \cup {r}
      BY <3>1 DEF Return
    <3> QED BY <1>3, <1>4, <3>2, <3>3
  <2>4. CASE Destroys(r)
    <3>1. /\ st' = [st EXCEPT ![r] = NoState] /\ tries' = [tries EXCEPT ![r] = 0]
          /\ tainted' \subseteq tainted \cup {r} /\ r \notin tainted'
      BY <2>4 DEF Destroys, Deleted
    <3> QED BY <1>3, <1>4, <3>1
  <2> QED BY <2>1, <2>2, <2>3, <2>4 DEF Effect
<1> QED BY <1>1, <1>2, <1>5 DEF TypeOK, Shape, Operations

LEMMA HandlersFacts ==
    ASSUME Inv, Facts, NEW r \in workspace, Step(r)
    PROVE  Facts'
<1>1. Effect(r) /\ Inv'
  BY StepEffect, StepKeeps
<1>2. TypeOK'
  BY <1>1, EffectTypes
<1>3. Fact(r)'
  BY <1>1, GoesKeeps, LandsKeeps, ReadsKeeps, WritesKeeps, DestroysKeeps DEF Effect
<1>4. \A q \in Resources : Fact(q)'
  BY <1>1, <1>3, OthersAsBefore
<1> QED BY <1>2, <1>4 DEF Facts

-----------------------------------------------------------------------------
(* What is planned *)

\* What an operation says of the configuration, the state and the plan.
LEMMA OperationAsks ==
    ASSUME NEW r, NEW schema, NEW o, o = Operation(r, schema), NEW p, p = Planned(r, schema)
    PROVE  /\ o \in Operations
           /\ o \in {"create", "replace", "update"} => cfg[r] # NoConfig
           /\ o \in {"create", "replace"} => p = Proposed(cfg[r], NoState, schema)
           /\ o = "delete" => cfg[r] = NoConfig
           /\ o = "update" =>
                  /\ st[r] # NoState /\ r \notin tainted
                  /\ p = Proposed(cfg[r], st[r], schema)
                  /\ \A a \in schema.forces \cap DOMAIN p : p[a] = st[r][a]
<1>1. CASE st[r] = NoState
  BY <1>1 DEF Operation, Planned, Operations
<1>2. CASE st[r] # NoState
  BY <1>2 DEF Operation, Planned, Operations
<1> QED BY <1>1, <1>2

\* What ModifyPlan sets.
Sets(r) == Schema(r).sets

LEMMA SetsAre ==
    ASSUME Inv, NEW r \in Resources, cfg[r] # NoConfig
    PROVE  /\ DOMAIN Sets(r) \subseteq {"sha"}
           /\ "sha" \in DOMAIN Sets(r) =>
                  /\ Hashes(r) /\ Sets(r).sha \in Files
                  /\ Sourced(r) => Sets(r).sha = host.file[From(r)]
                  /\ r \in Images /\ cfg[r].mode = "bytes" => Sets(r).sha = Holding(cfg[r].from)
                  /\ r \in Images /\ cfg[r].mode = "local" =>
                         Sets(r).sha = Holding(host.origin[cfg[r].from])
           /\ Hashes(r) /\ "sha" \notin DOMAIN Sets(r) => Sourced(r) /\ ~Exists(host, From(r))
           /\ Sourced(r) /\ ~PlanFails(r) /\ st[r] # NoState /\ r \notin tainted =>
                  Exists(host, From(r))
<1>1. cfg[r] \in Configs[r] /\ FileHost(host)
  BY DEF Inv
<1>2. CASE r \in Images
  <2>1. WellFormedImage(r, cfg[r]) /\ r \notin Disks
    BY <1>1, <1>2, ImageAssumption, Kinds
  <2>2. Sets(r) = ImageSets(r) /\ (PlanFails(r) <=> ImagePlanFails(r))
    BY <1>2 DEF Sets, Schema, ImageSchema, PlanFails
  <2>3. Sourced(r) <=> cfg[r].mode = "source"
    BY <1>2 DEF Sourced
  <2>4. CASE cfg[r].mode = "local"
    <3>1. cfg[r].from \in Origins
      BY <2>1, <2>4 DEF WellFormedImage
    <3>2. Holding(host.origin[cfg[r].from]) \in Files
      BY <1>1, <3>1, HoldingType DEF FileHost
    <3>3. Sets(r) = [sha |-> Holding(host.origin[cfg[r].from])]
      BY <2>2, <2>4 DEF ImageSets
    <3> QED BY <1>2, <2>3, <2>4, <3>2, <3>3 DEF Hashes
  <2>5. CASE cfg[r].mode = "bytes"
    <3>1. cfg[r].from \in Contents
      BY <2>1, <2>5 DEF WellFormedImage
    <3>2. Holding(cfg[r].from) \in Files
      BY <3>1, HoldingType
    <3>3. Sets(r) = [sha |-> Holding(cfg[r].from)]
      BY <2>2, <2>5 DEF ImageSets
    <3> QED BY <1>2, <2>3, <2>5, <3>2, <3>3 DEF Hashes
  <2>6. CASE cfg[r].mode = "source"
    <3>1. From(r) = cfg[r].from /\ cfg[r].from \in Paths
      BY <1>2, <2>1, <2>6 DEF From, WellFormedImage
    <3>2. PlanFails(r) <=> SourceGone(r, From(r))
      BY <2>2, <2>6, <3>1 DEF ImagePlanFails
    <3>3. CASE Exists(host, From(r))
      <4>1. Sets(r) = [sha |-> host.file[From(r)]] /\ host.file[From(r)] \in Files
        BY <1>1, <2>2, <2>6, <3>1, <3>3 DEF ImageSets, Exists, FileHost
      <4> QED BY <1>2, <2>3, <2>6, <3>3, <4>1 DEF Hashes
    <3>4. CASE ~Exists(host, From(r))
      <4>1. Sets(r) = NoSets
        BY <2>2, <2>6, <3>1, <3>4 DEF ImageSets
      <4> QED BY <2>3, <2>6, <3>2, <3>4, <4>1 DEF NoSets, SourceGone
    <3> QED BY <3>3, <3>4
  <2>7. CASE cfg[r].mode \in {"url", "host"}
    <3>1. Sets(r) = NoSets /\ ~Hashes(r) /\ ~Sourced(r)
      BY <1>2, <2>2, <2>7, <2>3 DEF ImageSets, Hashes
    <3> QED BY <3>1 DEF NoSets
  <2> QED BY <2>1, <2>4, <2>5, <2>6, <2>7 DEF WellFormedImage, Modes
<1>3. CASE r \in Disks
  <2>1. WellFormedVhd(r, cfg[r]) /\ r \notin Images
    BY <1>1, <1>3, VhdAssumption, Kinds
  <2>2. Sets(r) = VhdSets(r) /\ (PlanFails(r) <=> VhdPlanFails(r))
    BY <2>1 DEF Sets, Schema, VhdSchema, PlanFails
  <2>3. /\ Sourced(r) <=> cfg[r].src # Null
        /\ Hashes(r) <=> Sourced(r)
        /\ From(r) = cfg[r].src
    BY <2>1 DEF Sourced, Hashes, From
  <2>4. CASE cfg[r].src = Null
    <3>1. Sets(r) = NoSets
      BY <2>2, <2>4 DEF VhdSets, Copies
    <3> QED BY <2>3, <2>4, <3>1 DEF NoSets
  <2>5. CASE cfg[r].src # Null /\ Exists(host, cfg[r].src)
    <3>1. cfg[r].src \in Paths
      BY <2>1, <2>5 DEF WellFormedVhd, SourceModeAllows
    <3>2. Sets(r) = [sha |-> host.file[From(r)]] /\ host.file[From(r)] \in Files
      BY <1>1, <2>2, <2>3, <2>5, <3>1 DEF VhdSets, Copies, Exists, FileHost
    <3> QED BY <2>1, <2>3, <2>5, <3>2
  <2>6. CASE cfg[r].src # Null /\ ~Exists(host, cfg[r].src)
    <3>1. Sets(r) = NoSets
      BY <2>2, <2>6 DEF VhdSets, Copies
    <3>2. PlanFails(r) <=> SourceGone(r, From(r))
      BY <2>2, <2>3, <2>6 DEF VhdPlanFails, Copies
    <3> QED BY <2>3, <2>6, <3>1, <3>2 DEF NoSets, SourceGone
  <2> QED BY <2>4, <2>5, <2>6
<1> QED BY <1>2, <1>3, Kinds

\* What an update has of each attribute.
LEMMA ProposedState ==
    ASSUME Inv, Facts, NEW r \in Resources, cfg[r] # NoConfig, st[r] # NoState,
           NEW p, p = Proposed(cfg[r], st[r], Schema(r))
    PROVE  p \in States(r)
<1>1. /\ DOMAIN Sets(r) \subseteq {"sha"}
      /\ "sha" \in DOMAIN Sets(r) => Sets(r).sha \in Files
      /\ cfg[r] \in Configs[r]
  BY SetsAre DEF Inv
<1>2. CASE r \in Images
  <2>1. WellFormedImage(r, cfg[r]) /\ st[r] \in ImageStates
    BY <1>1, <1>2, ImageAssumption DEF Facts, TypeOK
  <2>2. DOMAIN cfg[r] = {"mode", "from", "sum", "mounted", "keep", "force"}
    BY <2>1 DEF WellFormedImage
  <2>3. Schema(r).sticky = {"sha"} /\ Schema(r).sets = Sets(r)
    BY <1>2 DEF Schema, ImageSchema, Sets
  <2>4. p = [mode |-> cfg[r].mode, from |-> cfg[r].from, sum |-> cfg[r].sum,
             mounted |-> cfg[r].mounted, keep |-> cfg[r].keep, force |-> cfg[r].force,
             sha |-> IF "sha" \in DOMAIN Sets(r) THEN Sets(r).sha ELSE st[r].sha]
    BY <1>1, <2>2, <2>3 DEF Proposed
  <2>5. (IF "sha" \in DOMAIN Sets(r) THEN Sets(r).sha ELSE st[r].sha) \in Files
    BY <1>1, <2>1 DEF ImageStates
  <2>6. /\ cfg[r].mode \in Modes /\ cfg[r].from \in Origins \cup Contents \cup Paths \cup {Null}
        /\ cfg[r].sum \in Contents \cup {Null} /\ cfg[r].mounted \in BOOLEAN
        /\ cfg[r].keep \in BOOLEAN /\ cfg[r].force \in BOOLEAN
    BY <1>2, <2>1, ImageConfigured
  <2> QED BY <1>2, <2>4, <2>5, <2>6 DEF States, ImageStates
<1>3. CASE r \in Disks
  <2>1. WellFormedVhd(r, cfg[r]) /\ st[r] \in VhdStates /\ r \notin Images
    BY <1>1, <1>3, VhdAssumption, Kinds DEF Facts, TypeOK
  <2>2. "src" \in DOMAIN cfg[r] /\ DOMAIN cfg[r] \subseteq {"src", "type", "size", "parent"}
    BY <2>1 DEF WellFormedVhd, SourceModeAllows
  <2>3. Schema(r).sticky = {"type", "size", "parent", "sha", "fill"} /\ Schema(r).sets = Sets(r)
    BY <2>1 DEF Schema, VhdSchema, Sets
  <2> DEFINE Is(a) == IF a \in DOMAIN cfg[r] THEN cfg[r][a] ELSE st[r][a]
  <2>4. /\ DOMAIN p = {"src", "sha", "type", "size", "parent", "fill"}
        /\ p = [a \in DOMAIN p |-> p[a]]
        /\ p.src = cfg[r].src /\ p.type = Is("type") /\ p.size = Is("size")
        /\ p.parent = Is("parent") /\ p.fill = st[r].fill
        /\ p.sha = IF "sha" \in DOMAIN Sets(r) THEN Sets(r).sha ELSE st[r].sha
    BY <1>1, <2>2, <2>3 DEF Proposed
  <2>5. /\ cfg[r].src \in Paths \cup {Null}
        /\ "type" \in DOMAIN cfg[r] => cfg[r].type \in DiskTypes
        /\ "size" \in DOMAIN cfg[r] => cfg[r].size \in Sizes
        /\ "parent" \in DOMAIN cfg[r] => cfg[r].parent \in Paths
    BY <2>1 DEF WellFormedVhd, SourceModeAllows, ParentAllowed, SizeAllowed
  <2>6. /\ st[r].type \in DiskTypes /\ st[r].size \in Sizes /\ st[r].parent \in Paths \cup {Null}
        /\ st[r].sha \in Files \cup {Null} /\ st[r].fill \in {Fill(f) : f \in Files}
    BY <2>1 DEF VhdStates
  <2>7. /\ p.src \in Paths \cup {Null} /\ p.type \in DiskTypes /\ p.size \in Sizes
        /\ p.parent \in Paths \cup {Null} /\ p.sha \in Files \cup {Null}
        /\ p.fill \in {Fill(f) : f \in Files}
    BY <1>1, <2>4, <2>5, <2>6
  <2>8. p = [src |-> p.src, sha |-> p.sha, type |-> p.type, size |-> p.size,
             parent |-> p.parent, fill |-> p.fill]
    BY <2>4
  <2> QED BY <2>1, <2>7, <2>8 DEF States, VhdStates
<1> QED BY <1>2, <1>3, Kinds

\* A plan that does not fail has what is configured, and the hash of what is
\* there now.
LEMMA PlannedIs ==
    ASSUME Inv, Facts, NEW r \in Resources, ~PlanFails(r),
           NEW o, o = Operation(r, Schema(r)), o \in {"create", "replace", "update"},
           NEW p, p = Planned(r, Schema(r))
    PROVE  /\ cfg[r] # NoConfig
           /\ \A a \in DOMAIN cfg[r] : a \in DOMAIN p /\ p[a] = cfg[r][a]
           /\ "sha" \in DOMAIN p =>
                  /\ Hashes(r) => p.sha \in Files
                  /\ ~Hashes(r) => o = "update" /\ p.sha = st[r].sha
                  /\ Sourced(r) => p.sha = host.file[From(r)]
                  /\ r \in Images /\ cfg[r].mode = "bytes" => p.sha = Holding(cfg[r].from)
                  /\ r \in Images /\ cfg[r].mode = "local" =>
                         p.sha = Holding(host.origin[cfg[r].from])
           /\ o # "update" => DOMAIN p \subseteq DOMAIN cfg[r] \cup {"sha"}
           /\ o = "update" => /\ p \in States(r) /\ st[r] # NoState
                              /\ \A a \in Forces(r) : p[a] = st[r][a]
<1>1. /\ cfg[r] # NoConfig
      /\ o # "update" => p = Proposed(cfg[r], NoState, Schema(r))
      /\ o = "update" => /\ st[r] # NoState /\ r \notin tainted
                         /\ p = Proposed(cfg[r], st[r], Schema(r))
                         /\ \A a \in Schema(r).forces \cap DOMAIN p : p[a] = st[r][a]
  BY OperationAsks
<1>2. "sha" \notin DOMAIN cfg[r]
  <2>1. r \in Images => WellFormedImage(r, cfg[r])
    BY <1>1, ImageAssumption DEF Inv
  <2>2. r \in Disks => WellFormedVhd(r, cfg[r])
    BY <1>1, VhdAssumption DEF Inv
  <2> QED BY <2>1, <2>2, Kinds DEF WellFormedImage, WellFormedVhd, SourceModeAllows
<1>3. Schema(r).sets = Sets(r) /\ DOMAIN Sets(r) \subseteq {"sha"}
  BY <1>1, SetsAre DEF Sets
<1>4. /\ \A a \in DOMAIN cfg[r] : a \in DOMAIN p /\ p[a] = cfg[r][a]
      /\ o # "update" => DOMAIN p \subseteq DOMAIN cfg[r] \cup {"sha"}
      /\ "sha" \in DOMAIN Sets(r) => p.sha = Sets(r).sha
      /\ "sha" \in DOMAIN p /\ "sha" \notin DOMAIN Sets(r) => o = "update" /\ p.sha = st[r].sha
  BY <1>1, <1>2, <1>3 DEF Proposed
<1>5. /\ "sha" \in DOMAIN Sets(r) =>
             /\ Hashes(r) /\ Sets(r).sha \in Files
             /\ Sourced(r) => Sets(r).sha = host.file[From(r)]
             /\ r \in Images /\ cfg[r].mode = "bytes" => Sets(r).sha = Holding(cfg[r].from)
             /\ r \in Images /\ cfg[r].mode = "local" =>
                    Sets(r).sha = Holding(host.origin[cfg[r].from])
      /\ Hashes(r) /\ "sha" \notin DOMAIN Sets(r) => Sourced(r) /\ ~Exists(host, From(r))
      /\ Sourced(r) /\ st[r] # NoState /\ r \notin tainted => Exists(host, From(r))
  BY <1>1, SetsAre
<1>6. "sha" \in DOMAIN p /\ Hashes(r) => "sha" \in DOMAIN Sets(r)
  BY <1>1, <1>4, <1>5
<1>7. o = "update" => p \in States(r)
  BY <1>1, ProposedState
<1>8. o = "update" => \A a \in Forces(r) : p[a] = st[r][a]
  <2> SUFFICES ASSUME o = "update" PROVE \A a \in Forces(r) : p[a] = st[r][a]
    OBVIOUS
  <2>1. CASE r \in Images
    <3>1. Forces(r) \subseteq DOMAIN p /\ Schema(r).forces = Forces(r)
      BY <1>7, <2>1 DEF States, ImageStates, Forces, Schema, ImageSchema
    <3> QED BY <1>1, <3>1
  <2>2. CASE r \notin Images
    <3>1. Forces(r) \subseteq DOMAIN p /\ Schema(r).forces = Forces(r)
      BY <1>7, <2>2 DEF States, VhdStates, Forces, Schema, VhdSchema
    <3> QED BY <1>1, <3>1
  <2> QED BY <2>1, <2>2
<1>9. /\ r \in Images /\ cfg[r].mode \in {"bytes", "local"} => Hashes(r)
      /\ Sourced(r) => Hashes(r)
  BY DEF Hashes
<1> QED BY <1>1, <1>4, <1>5, <1>6, <1>7, <1>8, <1>9

\* What has been read, and needs nothing, is in sync.
LEMMA NothingToDo ==
    ASSUME Inv, Facts, NEW r \in workspace, ~PlanFails(r), Operation(r, Schema(r)) = "none",
           phase = "refresh", at[r] = "ok", ~disturbed, st[r] # NoState,
           UNCHANGED <<cfg, host, st>>, op'[r] = "none"
    PROVE  InSync(r)'
<1>1. r \in Resources /\ Current(host, r, st[r]) /\ cfg[r] \in Configs[r] \cup {NoConfig}
  BY DEF Inv, Shape, Facts, Fact, AsRead
<1> DEFINE p == Proposed(cfg[r], st[r], Schema(r))
<1>2. cfg[r] # NoConfig /\ r \notin tainted /\ AsPlanned(st[r], p)
  BY DEF Operation
<1>3. /\ Schema(r).sets = Sets(r) /\ DOMAIN Sets(r) \subseteq {"sha"}
      /\ "sha" \in DOMAIN Sets(r) =>
             /\ Sourced(r) => Sets(r).sha = host.file[From(r)]
             /\ r \in Images /\ cfg[r].mode = "bytes" => Sets(r).sha = Holding(cfg[r].from)
             /\ r \in Images /\ cfg[r].mode = "local" =>
                    Sets(r).sha = Holding(host.origin[cfg[r].from])
      /\ Hashes(r) /\ "sha" \notin DOMAIN Sets(r) => Sourced(r) /\ ~Exists(host, From(r))
      /\ Sourced(r) => Exists(host, From(r))
  BY <1>1, <1>2, SetsAre DEF Sets
<1>4. "sha" \in DOMAIN Sets(r) => st[r].sha = Sets(r).sha
  <2>1. "sha" \in DOMAIN Sets(r) => "sha" \in DOMAIN p /\ p.sha = Sets(r).sha
    BY <1>3 DEF Proposed
  <2> HIDE DEF p
  <2> QED BY <1>2, <2>1 DEF AsPlanned
<1>5. Hashes(r) => "sha" \in DOMAIN Sets(r)
  BY <1>3
<1>6. /\ Sourced(r) => st[r].sha = host.file[From(r)]
      /\ r \in Images /\ cfg[r].mode = "bytes" => st[r].sha = Holding(cfg[r].from)
      /\ r \in Images /\ cfg[r].mode = "local" => st[r].sha = Holding(host.origin[cfg[r].from])
  <2>1. Sourced(r) => Hashes(r)
    BY DEF Hashes
  <2>2. r \in Images /\ cfg[r].mode \in {"bytes", "local"} => Hashes(r)
    BY DEF Hashes
  <2> QED BY <1>3, <1>4, <1>5, <2>1, <2>2
<1> HIDE DEF p
<1>7. CASE r \in Images
  <2>1. st[r].sha = host.file[r] /\ host.file[r] # Null
    BY <1>1, <1>7 DEF Current, ImageState, Exists
  <2>2. cfg[r].mode = "source" => host.file[r] = host.file[cfg[r].from]
    BY <1>2, <1>6, <1>7, <2>1 DEF Sourced, From
  <2>3. cfg[r].mode \in Modes
    BY <1>1, <1>2, <1>7, ImageAssumption DEF WellFormedImage
  <2>4. ImageInSync(r)'
    BY <1>6, <1>7, <2>1, <2>2, <2>3 DEF ImageInSync, Modes
  <2> QED BY <1>2, <1>7, <2>4 DEF InSync
<1>8. CASE r \notin Images
  <2>1. Exists(host, r) /\ VhdState(host, r, st[r]) = st[r]
    BY <1>1, <1>8 DEF Current
  <2>2. WellFormedVhd(r, cfg[r])
    BY <1>1, <1>2, <1>8, VhdAssumption, Kinds
  <2>3. \A a \in DOMAIN cfg[r] : st[r][a] = cfg[r][a]
    <3>1. DOMAIN cfg[r] \subseteq {"src", "type", "size", "parent"}
      BY <2>2 DEF WellFormedVhd, SourceModeAllows
    <3>2. \A a \in DOMAIN cfg[r] : a \in DOMAIN p /\ p[a] = cfg[r][a]
      BY <1>3, <3>1 DEF Proposed, p
    <3> QED BY <1>2, <3>2 DEF AsPlanned
  <2>4. cfg[r].src # Null => st[r].sha = host.file[cfg[r].src]
    BY <1>2, <1>6, <1>8 DEF Sourced, From
  <2>5. VhdInSync(r)
    BY <2>1, <2>3, <2>4 DEF VhdInSync, AsPlanned
  <2>6. VhdInSync(r)'
    BY <2>5 DEF VhdInSync
  <2> QED BY <1>2, <1>8, <2>6 DEF InSync
<1> QED BY <1>7, <1>8

LEMMA PlanFacts ==
    ASSUME Inv, Facts, Inv',
           PlanAll([r \in workspace |-> Schema(r)], \A r \in workspace : ~PlanFails(r)), ~Quiet
    PROVE  Facts'
<1> DEFINE all == [r \in workspace |-> Schema(r)]
<1>1. /\ phase = "refresh" /\ phase' = "apply"
      /\ \A r \in workspace : at[r] = "ok" /\ ~PlanFails(r)
      /\ op' = [r \in Resources |-> IF r \in workspace THEN Operation(r, all[r]) ELSE "none"]
      /\ plan' = [r \in Resources |-> IF r \in workspace THEN Planned(r, all[r]) ELSE NoPlan]
      /\ at' = [r \in Resources |-> Handler(op'[r])]
      /\ UNCHANGED <<workspace, cfg, st, tainted, tries, host, late, disturbed, events>>
  BY DEF PlanAll, user, memory, world
<1>2. \A r \in workspace : all[r] = Schema(r)
  OBVIOUS
<1> HIDE DEF all
<1>3. \A r \in workspace : r \in Resources /\ op'[r] = Operation(r, Schema(r))
                           /\ plan'[r] = Planned(r, Schema(r))
  BY <1>1, <1>2 DEF Inv, Shape
<1>4. TypeOK'
  BY <1>1 DEF Facts, TypeOK, Inv, Shape, Operations
<1>5. \A r \in Resources :
          /\ r \notin workspace => op'[r] = "none"
          /\ op'[r] = "none" => at'[r] = "ok"
          /\ op'[r] = "create" => at'[r] = "create"
          /\ op'[r] = "update" => at'[r] = "update"
          /\ op'[r] \in {"delete", "replace"} => at'[r] = "delete"
          /\ op'[r] \in Operations
  BY <1>1 DEF Handler, Inv, Shape
<1>6. ASSUME NEW r \in Resources PROVE Course(r)' /\ Traced(r, st[r])'
  <2>1. Traced(r, st[r])
    BY DEF Facts, Fact
  <2> QED BY <1>1, <1>5, <2>1 DEF Course, Copying, Operations, Traced
<1>7. ASSUME NEW r \in Resources PROVE Asked(r)' /\ Updates(r)' /\ Hashed(r)'
  <2>1. CASE op'[r] \in {"create", "replace", "update"}
    <3>1. r \in workspace /\ op'[r] = Operation(r, Schema(r)) /\ plan'[r] = Planned(r, Schema(r))
          /\ ~PlanFails(r)
      BY <1>1, <1>3, <1>5, <2>1
    <3>2. /\ cfg[r] # NoConfig
          /\ \A a \in DOMAIN cfg[r] : a \in DOMAIN plan'[r] /\ plan'[r][a] = cfg[r][a]
          /\ "sha" \in DOMAIN plan'[r] =>
                 /\ Hashes(r) => plan'[r].sha \in Files
                 /\ ~Hashes(r) => op'[r] = "update" /\ plan'[r].sha = st[r].sha
                 /\ Sourced(r) => plan'[r].sha = host.file[From(r)]
                 /\ r \in Images /\ cfg[r].mode = "bytes" => plan'[r].sha = Holding(cfg[r].from)
                 /\ r \in Images /\ cfg[r].mode = "local" =>
                        plan'[r].sha = Holding(host.origin[cfg[r].from])
          /\ op'[r] # "update" => DOMAIN plan'[r] \subseteq DOMAIN cfg[r] \cup {"sha"}
          /\ op'[r] = "update" => /\ plan'[r] \in States(r) /\ st[r] # NoState
                                  /\ \A a \in Forces(r) : plan'[r][a] = st[r][a]
      BY <2>1, <3>1, PlannedIs
    <3>3. Hashes(r)' = Hashes(r) /\ Sourced(r)' = Sourced(r) /\ From(r)' = From(r)
      BY <1>1 DEF Hashes, Sourced, From
    <3>4. op'[r] = "update" => "sha" \in DOMAIN plan'[r]
      BY <3>2 DEF States, ImageStates, VhdStates
    <3>5. Asked(r)'
      BY <1>1, <2>1, <3>2, <3>3 DEF Asked
    <3>6. at'[r] = "update" => op'[r] = "update"
      BY <1>5 DEF Operations
    <3>7. Updates(r)'
      BY <1>1, <3>2, <3>3, <3>4, <3>6 DEF Updates
    <3>8. Hashed(r)'
      BY <1>1, <3>2, <3>3 DEF Hashed
    <3> QED BY <3>5, <3>7, <3>8
  <2>2. CASE op'[r] \notin {"create", "replace", "update"}
    <3>1. op'[r] = "delete" => cfg[r] = NoConfig
      BY <1>3, <1>5, OperationAsks
    <3>2. at'[r] # "update"
      BY <1>5, <2>2 DEF Operations
    <3> QED BY <1>1, <2>2, <3>1, <3>2 DEF Asked, Updates, Hashed
  <2> QED BY <2>1, <2>2
<1>8. ASSUME NEW r \in workspace PROVE AsRead(r)' /\ Settled(r)'
  <2>1. r \in Resources /\ at[r] = "ok" /\ AsRead(r)
    BY <1>1 DEF Facts, Fact, Inv, Shape
  <2>2. AsRead(r)'
    BY <1>1, <2>1 DEF AsRead
  <2>3. ASSUME ~disturbed, at'[r] = "ok" PROVE InSync(r)' \/ Unknown(r)'
    <3>1. op'[r] = "none"
      BY <1>5, <2>1, <2>3 DEF Operations
    <3>2. st[r] = NoState \/ InSync(r)'
      BY <1>1, <1>3, <2>1, <2>3, <3>1, NothingToDo
    <3> QED BY <1>1, <3>1, <3>2 DEF Unknown
  <2>4. Settled(r)'
    BY <1>1, <2>3 DEF Settled
  <2> QED BY <2>2, <2>4
<1> QED BY <1>1, <1>4, <1>6, <1>7, <1>8 DEF Facts, Fact

-----------------------------------------------------------------------------
(* Terraform, the user and others *)

LEMMA FactsInit == Init => Facts
<1> SUFFICES ASSUME Init PROVE Facts
  OBVIOUS
<1>1. Inv
  BY InvInit
<1> USE DEF Init, InitTerraform
<1>2. 0 \in 0 .. VerifyAttempts - 1
  BY TerraformAssumption
<1>3. host.busy = {}
  BY DEF EmptyHost
<1>4. TypeOK
  BY <1>1, <1>2, <1>3, Kinds DEF TypeOK, Inv, Shape, FileHost, Operations
<1>5. \A r \in Resources : Fact(r)
  BY DEF Fact, Course, Copying, Asked, Updates, Hashed, Traced, AsRead, Settled
<1> QED BY <1>4, <1>5 DEF Facts

\* Nothing is planned or runs between two applies.
LEMMA IdleRests ==
    ASSUME Facts, phase = "idle"
    PROVE  \A r \in Resources : at[r] = "none" /\ op[r] = "none"
  BY DEF Facts, Fact, Course, TypeOK

LEMMA IdleFits ==
    ASSUME NEW r \in Resources, phase' = "idle", at'[r] = "none", op'[r] = "none",
           Traced(r, st[r])'
    PROVE  Fact(r)'
  BY DEF Fact, Course, Copying, Asked, Updates, Hashed, AsRead, Settled

LEMMA QuietFacts ==
    ASSUME Facts, Inv', Quiet
    PROVE  Facts'
<1>1. /\ UNCHANGED <<workspace, cfg, st, tainted, host, late, events>>
      /\ \A r \in Resources : at'[r] = "none" /\ op'[r] = "none"
  BY DEF Quiet, user, memory
<1>2. 0 \in 0 .. VerifyAttempts - 1
  BY TerraformAssumption
<1>3. TypeOK'
  <2>1. /\ phase' = "idle" /\ disturbed' = FALSE
        /\ tries' \in [Resources -> 0 .. VerifyAttempts - 1]
    BY <1>2 DEF Quiet
  <2>2. op' \in [Resources -> {"none", "create", "update", "replace", "delete"}]
        /\ at' \in [Resources -> Steps]
    BY DEF Inv, Shape, Operations
  <2> QED BY <1>1, <2>1, <2>2 DEF Facts, TypeOK
<1>4. \A r \in Resources : Traced(r, st[r])'
  BY <1>1 DEF Facts, Fact, Traced
<1>5. \A r \in Resources : Fact(r)'
  BY <1>1, <1>4, IdleFits DEF Quiet
<1> QED BY <1>3, <1>5 DEF Facts

LEMMA StartFacts ==
    ASSUME Facts, Inv', Start
    PROVE  Facts'
<1>1. /\ phase' = "refresh"
      /\ UNCHANGED <<workspace, cfg, st, tainted, op, plan, tries, host, late, disturbed, events>>
  BY DEF Start, user, memory, world
<1>2. \A r \in Resources : /\ op'[r] = "none"
                           /\ at'[r] = IF r \in workspace /\ st[r] # NoState THEN "read" ELSE "ok"
  BY <1>1, IdleRests DEF Start
<1>3. TypeOK'
  BY <1>1 DEF Facts, TypeOK, Inv, Shape
<1>4. ASSUME NEW r \in Resources PROVE Fact(r)'
  <2>1. Traced(r, st[r])
    BY DEF Facts, Fact
  <2> QED BY <1>1, <1>2, <2>1
          DEF Fact, Course, Copying, Asked, Updates, Hashed, Traced, AsRead, Settled
<1> QED BY <1>3, <1>4 DEF Facts

\* Where nothing changes but that r is given up.
LEMMA SkipFacts ==
    ASSUME Facts, Inv', NEW r \in workspace, r \in Resources, Skip(r)
    PROVE  Facts'
<1>1. /\ UNCHANGED <<workspace, cfg, st, tainted, phase, op, plan, tries, host, late,
                     disturbed, events>>
      /\ phase = "apply" /\ at' = [at EXCEPT ![r] = "error"]
      /\ at[r] \in {"delete", "create", "update"}
  BY DEF Skip, user, memory, walk, world
<1>2. \A q \in Resources : at'[q] = IF q = r THEN "error" ELSE at[q]
  BY <1>1 DEF Facts, TypeOK
<1>3. TypeOK'
  BY <1>1 DEF Facts, TypeOK, Inv, Shape
<1>4. ASSUME NEW q \in Resources PROVE Fact(q)'
  <2>1. Fact(q)
    BY DEF Facts
  <2>2. Course(q)'
    BY <1>1, <1>2, <2>1 DEF Fact, Course, Copying
  <2>3. Hashes(q)' = Hashes(q) /\ Sourced(q)' = Sourced(q) /\ From(q)' = From(q)
        /\ SourceChanged(q)' = SourceChanged(q)
    BY <1>1 DEF Hashes, Sourced, From, SourceChanged
  <2>4. Asked(q)' /\ Updates(q)' /\ Hashed(q)' /\ Traced(q, st[q])'
    BY <1>1, <1>2, <2>1, <2>3 DEF Fact, Asked, Updates, Hashed, Traced
  <2>5. InSync(q)' = InSync(q)
    BY <1>1, InSyncSame
  <2>6. q \in workspace => AsRead(q)'
    BY <1>1, <1>2, <2>1 DEF Fact, AsRead
  <2>7. q \in workspace => Settled(q)'
    BY <1>1, <1>2, <2>1, <2>3, <2>5 DEF Fact, Settled, Drifted, Unknown
  <2> QED BY <1>1, <2>2, <2>4, <2>6, <2>7 DEF Fact
<1> QED BY <1>3, <1>4 DEF Facts

LEMMA WalkFacts ==
    ASSUME Inv, Facts, Walk
    PROVE  Facts'
<1>1. Inv'
  BY WalkKeeps
<1>2. CASE PlanAll([r \in workspace |-> Schema(r)], \A r \in workspace : ~PlanFails(r))
  BY <1>1, <1>2, PlanFacts, QuietFacts
<1>3. ASSUME NEW r \in workspace, Skip(r) PROVE Facts'
  BY <1>1, <1>3, SkipFacts DEF Inv, Shape
<1> QED BY <1>1, <1>2, <1>3, StartFacts, QuietFacts DEF Walk, Finish

\* Only files that are there are in use, whatever others do.
LEMMA ElsewhereBusy ==
    ASSUME FileHost(host), Busy(host), workspace \subseteq Resources, NEW h \in Elsewhere
    PROVE  Busy(h)
<1>1. Templates \subseteq Paths /\ workspace \subseteq Paths
  BY Kinds DEF Paths
<1>2. ASSUME NEW p \in Paths, NEW c \in Contents PROVE Busy(Placed(host, p, Holding(c)))
  BY HoldingType, PlacedWithin DEF Within
<1>3. ASSUME NEW p \in Paths PROVE Busy(Removed(host, p))
  BY RemovedWithin DEF Within
<1>4. ASSUME NEW p \in Paths, Exists(host, p) PROVE Busy([host EXCEPT !.busy = @ \cup {p}])
  BY <1>4 DEF Busy, Exists, FileHost
<1>5. ASSUME NEW p \in Paths PROVE Busy([host EXCEPT !.busy = @ \ {p}])
  BY DEF Busy, Exists, FileHost
<1>6. ASSUME NEW o \in Origins, NEW c \in Contents PROVE Busy([host EXCEPT !.origin[o] = c])
  BY DEF Busy, Exists, FileHost
<1>7. ASSUME NEW v \in Paths, Exists(host, v)
      PROVE  Busy(Placed(host, v, [host.file[v] EXCEPT !.written = TRUE]))
  <2> DEFINE f == [host.file[v] EXCEPT !.written = TRUE]
  <2>1. f \in Files
    BY <1>7 DEF FileHost, Exists, Files
  <2> HIDE DEF f
  <2>2. Busy(Placed(host, v, f))
    BY <2>1, PlacedWithin DEF Within
  <2> QED BY <2>2 DEF f
<1> QED BY <1>1, <1>2, <1>3, <1>4, <1>5, <1>6, <1>7, ElsewhereIs

\* Nor does a call that comes late make any other.
LEMMA LateBusy ==
    ASSUME FileHost(host), Busy(host), LateFits, late # NoCall,
           NEW h \in IF late.of \in Images THEN ImagePartly(host, late)
                                           ELSE VhdPartly(host, late)
    PROVE  Busy(h)
<1>1. CASE late.of \in Images
  <2>1. late.of \in Paths /\ (late.do = "remove" \/ (late.do = "place" /\ Places(late.with)))
    BY <1>1, Kinds DEF LateFits, CallFits
  <2>2. CASE late.do = "remove"
    <3>1. h \in RemovePartly(host, late.of, late.with)
      BY <1>1, <2>2 DEF ImagePartly
    <3> QED BY <2>1, <3>1, RemoveWithin DEF Within
  <2>3. CASE late.do = "place" /\ Places(late.with)
    <3>1. h \in PlacePartly(host, late.of, late.with)
      BY <1>1, <2>3 DEF ImagePartly
    <3> QED BY <1>1, <2>3, <3>1, PlaceWithin DEF Within
  <2> QED BY <2>1, <2>2, <2>3
<1>2. CASE late.of \notin Images
  <2>1. /\ late.of \in Disks /\ late.of \in Paths
        /\ \/ late.do = "remove"
           \/ late.do = "copy" /\ late.with.src \in Paths
           \/ late.do = "resize" /\ late.with.size \in Sizes
           \/ late.do = "new" /\ Makes(late.with)
    BY <1>2, Kinds DEF LateFits, CallFits
  <2>2. CASE late.do = "remove"
    <3>1. h \in RemoveVHDPartly(host, late.of)
      BY <1>2, <2>2 DEF VhdPartly
    <3> QED BY <2>1, <3>1, RemoveWithin DEF Within
  <2>3. CASE late.do = "copy" /\ late.with.src \in Paths
    <3>1. h \in CopyPartly(host, late.of, late.with)
      BY <1>2, <2>3 DEF VhdPartly
    <3> QED BY <2>1, <2>3, <3>1, CopyWithin DEF Within
  <2>4. CASE late.do = "resize" /\ late.with.size \in Sizes
    <3>1. h \in ResizePartly(host, late.of, late.with.size)
      BY <1>2, <2>4 DEF VhdPartly
    <3> QED BY <2>1, <2>4, <3>1, ResizeWithin DEF Within
  <2>5. CASE late.do = "new" /\ Makes(late.with)
    <3>1. h \in NewPartly(host, late.of, late.with)
      BY <1>2, <2>5 DEF VhdPartly
    <3> QED BY <2>1, <2>5, <3>1, NewWithin DEF Within
  <2> QED BY <2>1, <2>2, <2>3, <2>4, <2>5
<1> QED BY <1>1, <1>2

LEMMA OthersFacts ==
    ASSUME Inv, Facts, Others
    PROVE  Facts'
<1>1. /\ UNCHANGED <<workspace, st, tainted, phase, op, plan, at, tries>>
      /\ events' \in Nat
  BY DEF Others, Edit, Interfere, Land, Event, user, memory, walk, Facts, TypeOK
<1>2. Inv' /\ FileHost(host) /\ Busy(host) /\ workspace \subseteq Resources /\ LateFits
  BY OthersKeep DEF Inv, Shape, Facts, TypeOK, Busy
<1>3. ASSUME Edit
      PROVE  phase = "idle" /\ UNCHANGED <<host, disturbed>>
  BY <1>3 DEF Edit
<1>4. ASSUME Interfere(Elsewhere)
      PROVE  cfg' = cfg /\ Busy(host') /\ disturbed' = (phase # "idle")
  BY <1>2, <1>4, ElsewhereBusy DEF Interfere, user
<1>5. ASSUME Land(IF late.of \in Images THEN ImagePartly(host, late) ELSE VhdPartly(host, late))
      PROVE  cfg' = cfg /\ Busy(host') /\ disturbed' = (phase # "idle")
  BY <1>2, <1>5, LateBusy DEF Land, user
<1>6. TypeOK'
  <2>1. Busy(host') /\ disturbed' \in BOOLEAN
    BY <1>2, <1>3, <1>4, <1>5 DEF Others, Facts, TypeOK
  <2>2. /\ \A r \in Resources : cfg'[r] \in Configs[r] \cup {NoConfig}
        /\ FileHost(host')
    BY <1>2 DEF Inv
  <2> QED BY <1>1, <2>1, <2>2 DEF Facts, TypeOK, Busy, FileHost
<1>7. \A r \in Resources : Traced(r, st[r])'
  BY <1>1 DEF Facts, Fact, Traced
<1>8. CASE phase = "idle"
  <2>1. \A r \in Resources : Fact(r)'
    BY <1>1, <1>7, <1>8, IdleRests, IdleFits
  <2> QED BY <1>6, <2>1 DEF Facts
<1>9. CASE phase # "idle"
  <2>1. disturbed' = TRUE /\ cfg' = cfg
    BY <1>3, <1>4, <1>5, <1>9 DEF Others
  <2>2. ASSUME NEW r \in Resources PROVE Fact(r)'
    <3>1. Fact(r)
      BY DEF Facts
    <3>2. Course(r)'
      BY <1>1, <3>1 DEF Fact, Course
    <3>3. Hashes(r)' = Hashes(r)
      BY <2>1 DEF Hashes, Sourced
    <3>4. Asked(r)' /\ Updates(r)' /\ Hashed(r)'
      BY <1>1, <2>1, <3>1, <3>3 DEF Fact, Asked, Updates, Hashed
    <3> QED BY <1>7, <2>1, <3>2, <3>4 DEF Fact, AsRead, Settled
  <2> QED BY <1>6, <2>2 DEF Facts
<1> QED BY <1>8, <1>9

LEMMA ImportsFacts ==
    ASSUME Inv, Facts, Imports
    PROVE  Facts'
<1>1. ASSUME NEW r \in workspace, NEW s \in States(r), Traced(r, s), Import(r, s)
      PROVE  Facts'
  <2>1. /\ phase = "idle" /\ st' = [st EXCEPT ![r] = s] /\ events' \in Nat
        /\ UNCHANGED <<workspace, cfg, tainted, phase, op, plan, at, tries, host, late, disturbed>>
    BY <1>1 DEF Import, Event, user, walk, Facts, TypeOK
  <2>2. r \in Resources /\ s # NoState
    BY NoStateAssumption DEF Inv, Shape, States
  <2>3. \A q \in Resources : st'[q] = IF q = r THEN s ELSE st[q]
    BY <2>1, <2>2 DEF Inv, Shape
  <2>4. TypeOK'
    BY <2>1, <2>2, <2>3, Kinds DEF Facts, TypeOK, States
  <2>5. \A q \in Resources : Traced(q, st[q])'
    BY <1>1, <2>3 DEF Facts, Fact, Traced
  <2>6. \A q \in Resources : Fact(q)'
    BY <2>1, <2>5, IdleRests, IdleFits
  <2> QED BY <2>4, <2>6 DEF Facts
<1> SUFFICES ASSUME NEW r \in workspace,
                    (r \in Images /\ ImportImage(r)) \/ (r \in Disks /\ ImportVHD(r))
             PROVE  Facts'
  BY DEF Imports
<1>2. host.file[r] \in Files
  BY Kinds DEF ImportImage, ImportVHD, Exists, Inv, FileHost
<1>3. CASE r \in Images /\ ImportImage(r)
  <2> DEFINE s == [mode |-> "host", from |-> Null, sum |-> Null, mounted |-> FALSE,
                   keep |-> FALSE, force |-> FALSE, sha |-> host.file[r]]
  <2>1. s \in States(r)
    BY <1>2, <1>3 DEF States, ImageStates, Modes
  <2>2. Traced(r, s) /\ Import(r, s)
    BY <1>3, Kinds DEF Traced, ImportImage
  <2> HIDE DEF s
  <2> QED BY <1>1, <2>1, <2>2
<1>4. CASE r \in Disks /\ ImportVHD(r)
  <2> DEFINE p == [src |-> Null]
             s == VhdState(host, r, p)
  <2>1. p.src = Null
    OBVIOUS
  <2> HIDE DEF p
  <2>2. s \in VhdStates /\ Traced(r, s)
    BY <1>2, <1>4, <2>1, DiskReads
  <2>3. Import(r, s) /\ s \in States(r)
    BY <1>4, <2>2, Kinds DEF ImportVHD, p, States
  <2> HIDE DEF s
  <2> QED BY <1>1, <2>2, <2>3
<1> QED BY <1>3, <1>4

-----------------------------------------------------------------------------
(* The theorems *)

LEMMA StutterFacts ==
    ASSUME Facts, UNCHANGED tvars
    PROVE  Facts'
<1>1. UNCHANGED <<workspace, cfg, st, tainted, phase, op, plan, at, tries, host, disturbed, events>>
  BY DEF tvars, user, memory, walk, world
<1>2. TypeOK'
  BY <1>1 DEF Facts, TypeOK
<1>3. ASSUME NEW q \in Resources PROVE Fact(q)'
  <2>1. Fact(q)
    BY DEF Facts
  <2>2. Hashes(q)' = Hashes(q) /\ Sourced(q)' = Sourced(q) /\ From(q)' = From(q)
        /\ SourceChanged(q)' = SourceChanged(q)
    BY <1>1 DEF Hashes, Sourced, From, SourceChanged
  <2>3. InSync(q)' = InSync(q)
    BY <1>1, InSyncSame
  <2>4. Course(q)' /\ Asked(q)' /\ Updates(q)' /\ Hashed(q)' /\ Traced(q, st[q])'
    BY <1>1, <2>1, <2>2 DEF Fact, Course, Asked, Updates, Hashed, Traced
  <2>5. q \in workspace => AsRead(q)' /\ Settled(q)'
    BY <1>1, <2>1, <2>2, <2>3 DEF Fact, AsRead, Settled, Drifted, Unknown
  <2> QED BY <1>1, <2>4, <2>5 DEF Fact
<1> QED BY <1>2, <1>3 DEF Facts

LEMMA FactsStep == Inv /\ Facts /\ [Next]_tvars => Facts'
  BY HandlersFacts, WalkFacts, OthersFacts, ImportsFacts, StutterFacts DEF Next, ApplyStep

\* The state and the step of a resource change only where its handler ends,
\* where Terraform goes on, and by an import.
LEMMA OnlyHandlers ==
    ASSUME Inv, Facts, [Next]_tvars, NEW r \in Resources
    PROVE  \/ Effect(r)
           \/ /\ st'[r] = st[r] \/ st[r] = NoState
              /\ at'[r] \in {at[r], "none", "read", "ok", "create", "update", "delete", "error"}
<1>1. ASSUME NEW q \in workspace, Step(q)
      PROVE  Effect(r) \/ (st'[r] = st[r] /\ at'[r] = at[r])
  BY <1>1, StepEffect, EffectOthers
<1>2. CASE Walk
  <2> DEFINE valid == \A q \in workspace : ~PlanFails(q)
             all == [q \in workspace |-> Schema(q)]
  <2>1. UNCHANGED st
    BY <1>2 DEF Walk, Start, PlanAll, Skip, Finish, Quiet, memory
  <2>2. CASE Start
    BY <2>1, <2>2 DEF Start
  <2>3. CASE Quiet
    BY <2>1, <2>3 DEF Quiet
  <2>4. CASE PlanAll(all, valid) /\ ~Quiet
    <3>1. at' = [q \in Resources |-> Handler(op'[q])]
      BY <2>4 DEF PlanAll
    <3>2. op'[r] \in Operations
      BY <1>2, WalkKeeps DEF Inv, Shape
    <3>3. at'[r] \in {"ok", "create", "update", "delete"}
      BY <3>1, <3>2 DEF Handler, Operations
    <3> QED BY <2>1, <3>3
  <2>5. ASSUME NEW q \in workspace, Skip(q)
        PROVE  at'[r] \in {at[r], "error"}
    BY <2>5 DEF Skip, Inv, Shape
  <2> QED BY <1>2, <2>1, <2>2, <2>3, <2>4, <2>5 DEF Walk, Finish
<1>3. CASE Imports
  <2>1. PICK q \in workspace : \E s : Import(q, s)
    BY <1>3 DEF Imports, ImportImage, ImportVHD
  <2> QED BY <2>1 DEF Import, Inv, Shape
<1>4. CASE Others \/ UNCHANGED tvars
  BY <1>4 DEF Others, Edit, Interfere, Land, tvars, memory
<1> QED BY <1>1, <1>2, <1>3, <1>4 DEF Next, ApplyStep

\* Facts holds throughout, with what keeps guests' data.
THEOREM FactsHold == Spec => [](Inv /\ Facts)
<1>1. Init => Inv /\ Facts
  BY InvInit, FactsInit
<1>2. (Inv /\ Facts) /\ [Next]_tvars => (Inv /\ Facts)'
  BY InvStep, FactsStep
<1> QED BY <1>1, <1>2, PTL DEF Spec

\* The variables keep their types: Terraform's states have the attributes that
\* modelFromImageFile and modelFromVHD build, of files that can be; only what
\* is in the state is tainted; and no VM holds open a file that is not there.
THEOREM DiskTypesHold == Spec => []TypeOK
<1>1. Inv /\ Facts => TypeOK
  BY DEF Facts
<1> QED BY <1>1, FactsHold, PTL

LEMMA StepForgets ==
    ASSUME Inv, Facts, [Next]_tvars, NEW r \in Resources, st[r] # NoState, st'[r] = NoState
    PROVE  IF r \in Images /\ at[r] = "delete" /\ Leaves(st[r])
             THEN host'.file[r] = host.file[r] ELSE ~Exists(host', r)
<1>1. Effect(r) /\ Shape
  BY OnlyHandlers DEF Inv
<1>2. ~Goes(r) /\ ~Lands(r)
  BY DEF Goes, Lands, memory
<1>3. CASE Reads(r)
  <2>1. PICK s \in States(r) \cup {NoState} :
            /\ Refreshed(r, s) /\ UNCHANGED host
            /\ IF s = NoState THEN ~Exists(host, r) ELSE Current(host, r, s)
    BY <1>3 DEF Reads
  <2>2. s = NoState
    BY <1>1, <2>1 DEF Refreshed, Shape
  <2> QED BY <1>3, <2>1, <2>2 DEF Reads, Exists
<1>4. CASE Writes(r)
  <2>1. PICK s \in States(r) : Return(r, s)
    BY <1>4 DEF Writes
  <2>2. st'[r] = s /\ s # NoState
    BY <1>1, <2>1, NoStateAssumption DEF Return, Shape, States
  <2> QED BY <2>2
<1>5. CASE Destroys(r)
  BY <1>5 DEF Destroys
<1> QED BY <1>1, <1>2, <1>3, <1>4, <1>5 DEF Effect

\* Terraform forgets an image or a disk only when its file is gone, and an
\* image that Delete is to leave with the file as it was: Read and Delete tell
\* "not found" from every failure, and a failed roll-back forgets nothing.
THEOREM ForgetsTheGone == Spec => ForgetsOnlyTheGone
<1>1. Inv /\ Facts /\ [Next]_tvars =>
          [\A r \in Resources : st[r] # NoState /\ st'[r] = NoState =>
               IF r \in Images /\ at[r] = "delete" /\ Leaves(st[r])
                 THEN host'.file[r] = host.file[r] ELSE ~Exists(host', r)]_tvars
  BY StepForgets
<1> QED BY <1>1, FactsHold, PTL DEF Spec, ForgetsOnlyTheGone

LEMMA StepReturns ==
    ASSUME Inv, Facts, [Next]_tvars, NEW r \in Resources,
           at'[r] = "inconsistent", at[r] # "inconsistent"
    PROVE  disturbed \/ Surprising(r)
<1>1. Effect(r) /\ Shape
  BY OnlyHandlers DEF Inv
<1>2. ~Goes(r) /\ ~Lands(r)
  BY <1>1 DEF Goes, Lands, Shape
<1>3. ~Reads(r) /\ ~Destroys(r)
  BY <1>1 DEF Reads, Refreshed, Destroys, Deleted, Shape
<1>4. PICK s \in States(r) : Return(r, s) /\ (AsPlanned(s, plan[r]) \/ disturbed \/ Surprising(r))
  BY <1>1, <1>2, <1>3 DEF Effect, Writes
<1>5. ~AsPlanned(s, plan[r])
  BY <1>1, <1>4 DEF Return, Shape
<1> QED BY <1>4, <1>5

\* While nobody disturbs the host, Create and Update of an image or a disk
\* return what was planned, for any configurations and any plans that
\* ModifyPlan makes of them, except for what Surprising lists.
THEOREM PlansReturned == Spec => ReturnsThePlan
<1>1. Inv /\ Facts /\ [Next]_tvars =>
          [\A r \in Resources :
               at'[r] = "inconsistent" /\ at[r] # "inconsistent" => disturbed \/ Surprising(r)]_tvars
  BY StepReturns
<1> QED BY <1>1, FactsHold, PTL DEF Spec, ReturnsThePlan

LEMMA StepEndsInSync ==
    ASSUME Inv, Facts, phase = "apply", ~disturbed, \A q \in workspace : at[q] = "ok",
           NEW r \in workspace
    PROVE  InSync(r) \/ SourceChanged(r) \/ Drifted(r) \/ Unknown(r)
  BY DEF Inv, Shape, Facts, Fact, Settled

\* An apply that nobody disturbs and in which nothing fails leaves every image
\* and disk as it is configured, and every copy as its source is, whatever the
\* earlier applies, failures and late calls left; a copy whose source the
\* apply itself made or changed is the exception, with the two that
\* OkMeansInSync names.
THEOREM AppliesInSync == Spec => OkMeansInSync
<1>1. Inv /\ Facts /\ [Next]_tvars =>
          [phase = "apply" /\ phase' = "idle" /\ ~disturbed /\ (\A r \in workspace : at[r] = "ok")
             => \A r \in workspace :
                    InSync(r) \/ SourceChanged(r) \/ Drifted(r) \/ Unknown(r)]_tvars
  BY StepEndsInSync
<1> QED BY <1>1, FactsHold, PTL DEF Spec, OkMeansInSync

=============================================================================
