-------------------------- MODULE ImageFileResource -------------------------
(***************************************************************************)
(* hyperv_image_file: internal/resources/image_file, on top of             *)
(* internal/hyperv/image_file.go.                                          *)
(***************************************************************************)
EXTENDS DiskHost

Modes == {"url", "local", "bytes", "source", "host"}

\* sourceModeExclusivityValidator: one mode, and a source elsewhere.
WellFormedImage(i, c) ==
    /\ DOMAIN c = {"mode", "from", "sum", "mounted", "keep", "force"}
    /\ c.mode \in Modes
    /\ c.from \in CASE c.mode \in {"url", "local"} -> Origins
                    [] c.mode = "bytes" -> Contents
                    [] c.mode = "source" -> Paths \ {i}
                    [] c.mode = "host" -> {Null}
    /\ c.sum \in (IF c.mode = "url" THEN Contents \cup {Null} ELSE {Null})
    /\ c.mounted \in BOOLEAN /\ c.keep \in BOOLEAN /\ c.force \in BOOLEAN

ASSUME ImageAssumption == \A i \in Images : \A c \in Configs[i] : WellFormedImage(i, c)

-----------------------------------------------------------------------------
(* Plans *)

\* ModifyPlan: the hash of what will be placed, if the runner or the host can
\* tell.
ImageSets(i) ==
    LET c == cfg[i]
    IN IF c = NoConfig THEN NoSets
       ELSE CASE c.mode = "local" -> [sha |-> Holding(host.origin[c.from])]
              [] c.mode = "bytes" -> [sha |-> Holding(c.from)]
              [] c.mode = "source" /\ Exists(host, c.from) -> [sha |-> host.file[c.from]]
              [] OTHER -> NoSets

ImagePlanFails(i) ==
    cfg[i] # NoConfig /\ cfg[i].mode = "source" /\ SourceGone(i, cfg[i].from)

ImageSchema(i) == [forces |-> {"mode", "from", "sum"}, sticky |-> {"sha"}, sets |-> ImageSets(i)]

-----------------------------------------------------------------------------
(* Placing the file *)

\* What lands at the path when p is carried out, or Null for an error: a file
\* that matches already is left as it is.
Landing(h, i, p) ==
    CASE p.mode = "url" ->
           IF p.sum # Null /\ h.file[i] = Holding(p.sum) THEN h.file[i]
             ELSE IF p.sum \in {Null, h.origin[p.from]} THEN Holding(h.origin[p.from]) ELSE Null
      [] p.mode = "local" -> Holding(h.origin[p.from])
      [] p.mode = "bytes" -> Holding(p.from)
      [] p.mode = "source" -> Copied(h, i, p.from, Of(p, "sha", Null))
      [] p.mode = "host" -> h.file[i]

PlaceAccepts(h, i, p) ==
    LET f == Landing(h, i, p)
    IN f # Null /\ MayReplace(h, i, f, p.mounted /\ p.mode \in {"local", "bytes", "source"})

Place(h, i, p) == Placed(h, i, Landing(h, i, p))

PlacePartly(h, i, p) == IF PlaceAccepts(h, i, p) THEN {h, Place(h, i, p)} ELSE {h}

\* modelFromImageFile
ImageState(h, i, p) ==
    [mode |-> p.mode, from |-> p.from, sum |-> p.sum, mounted |-> p.mounted,
     keep |-> p.keep, force |-> p.force, sha |-> h.file[i]]

PlaceCall(i) == [do |-> "place", of |-> i, with |-> plan[i]]

PlaceImage(i) ==
    \/ /\ PlaceAccepts(host, i, plan[i])
       /\ Ran(Place(host, i, plan[i]))
       /\ Return(i, ImageState(host', i, plan[i]))
    \/ /\ ~PlaceAccepts(host, i, plan[i])
       /\ Ran(host) /\ Fail(i)
    \/ /\ CallFails(PlaceCall(i), PlacePartly(host, i, plan[i]))
       /\ Fail(i)

CreateImage(i) == at[i] = "create" /\ PlaceImage(i)

-----------------------------------------------------------------------------
(* Read, Update, Delete *)

MutReadKeepsHash(i) ==
    /\ at[i] = "read"
    /\ \/ /\ Ran(host)
          /\ Refreshed(i, IF Exists(host, i) THEN st[i] ELSE NoState)
       \/ ReadFails /\ Fail(i)

MutReadMissing(i) ==
    /\ at[i] = "read"
    /\ \/ Ran(host) /\ Refreshed(i, ImageState(host, i, st[i]))
       \/ ReadFails /\ Fail(i)

ReadImage(i) ==
    /\ at[i] = "read"
    /\ \/ /\ Ran(host)
          /\ Refreshed(i, IF Exists(host, i) THEN ImageState(host, i, st[i]) ELSE NoState)
       \/ ReadFails /\ Fail(i)

\* The hash is planned to be what it is, or the mode has no update path: the
\* plan becomes the state.
Rewrites(i) == plan[i].sha # st[i].sha /\ plan[i].mode \in {"local", "source"}

UpdateImage(i) ==
    /\ at[i] = "update"
    /\ \/ Rewrites(i) /\ PlaceImage(i)
       \/ ~Rewrites(i) /\ Ran(host) /\ Return(i, plan[i])

\* What a destroy leaves on the host.
Leaves(s) == s.mode = "host" \/ s.keep

\* remove.ps1: a file that has changed since it was read is not deleted, one in
\* use only with force_destroy.
RemoveAccepts(h, i, s) == h.file[i] = s.sha /\ (~Open(h, i) \/ s.force)

RemovePartly(h, i, s) == IF RemoveAccepts(h, i, s) THEN {h, Removed(h, i)} ELSE {h}

RemoveImageCall(i) == [do |-> "remove", of |-> i, with |-> st[i]]

MutDeleteIgnoresKeep(i) ==
    /\ at[i] = "delete"
    /\ \/ st[i].mode = "host" /\ Ran(host) /\ Deleted(i)
       \/ /\ st[i].mode # "host"
          /\ \/ Exists(host, i) /\ RemoveAccepts(host, i, st[i])
                /\ Ran(Removed(host, i)) /\ Deleted(i)
             \/ ~Exists(host, i) /\ Ran(host) /\ Deleted(i)
             \/ Exists(host, i) /\ ~RemoveAccepts(host, i, st[i]) /\ Ran(host) /\ Fail(i)

DeleteImage(i) ==
    /\ at[i] = "delete"
    /\ \/ Leaves(st[i]) /\ Ran(host) /\ Deleted(i)
       \/ /\ ~Leaves(st[i])
          /\ \/ /\ Exists(host, i) /\ RemoveAccepts(host, i, st[i])
                /\ Ran(Removed(host, i)) /\ Deleted(i)
             \/ ~Exists(host, i) /\ Ran(host) /\ Deleted(i)
             \/ /\ Exists(host, i) /\ ~RemoveAccepts(host, i, st[i])
                /\ Ran(host) /\ Fail(i)
             \/ /\ CallFails(RemoveImageCall(i), RemovePartly(host, i, st[i]))
                /\ Fail(i)

\* ImportState has the path only, which is host_path mode.
ImportImage(i) ==
    /\ Exists(host, i)
    /\ Import(i, [mode |-> "host", from |-> Null, sum |-> Null, mounted |-> FALSE,
                  keep |-> FALSE, force |-> FALSE, sha |-> host.file[i]])

ImageStep(i) == CreateImage(i) \/ ReadImage(i) \/ UpdateImage(i) \/ DeleteImage(i)

ImagePartly(h, c) ==
    CASE c.do = "place" -> PlacePartly(h, c.of, c.with)
      [] c.do = "remove" -> RemovePartly(h, c.of, c.with)

=============================================================================
