------------------------------- MODULE MCDisks ------------------------------
(* Instances of Disks for TLC. *)
EXTENDS Disks, TLC

CONSTANTS iso, img, disk, blank, child, clone, backup, up, tpl, c1, c2

\* The second content is a larger disk, of another type.
MCLayoutOf == (c1 :> [type |-> "dynamic", size |-> 1]) @@ (c2 :> [type |-> "fixed", size |-> 2])
MCInitially == [x \in {up, tpl} |-> c1]

Image(mode, from) ==
    [mode |-> mode, from |-> from, sum |-> Null, mounted |-> FALSE, keep |-> FALSE,
     force |-> FALSE]

\* An image of every mode; one that a disk is copied from, and grown; a disk
\* that is made, and another that is its child or the child of the template;
\* an image and a disk that are copied from these.
MCConfigs ==
    (iso :> {Image("bytes", c1), [Image("url", up) EXCEPT !.sum = c1, !.force = TRUE],
             [Image("source", tpl) EXCEPT !.keep = TRUE],
             [Image("source", tpl) EXCEPT !.mounted = TRUE], Image("host", Null)}) @@
    (img :> {Image("local", up)}) @@
    (disk :> {[src |-> img], [src |-> img, size |-> 2]}) @@
    (blank :> {[src |-> Null, type |-> "dynamic", size |-> 1],
               [src |-> Null, type |-> "dynamic", size |-> 2],
               [src |-> Null, type |-> "fixed", size |-> 2]}) @@
    (child :> {[src |-> Null, type |-> "differencing", parent |-> p] : p \in {blank, tpl}}) @@
    (clone :> {[src |-> child], [src |-> tpl], [src |-> child, size |-> 2]}) @@
    (backup :> {Image("source", blank)})

MCRequires ==
    [r \in Resources |-> CASE r = disk -> {img}
                           [] r \in {child, backup} -> {blank}
                           [] r = clone -> {child}
                           [] OTHER -> {}]
MCWorkspaces == {{iso}, {img, disk}, {blank, child}, {blank, backup}, {child, clone}}
MCMaxEvents ==
    [w \in MCWorkspaces |-> CASE w \in {{iso}, {img, disk}} -> 5
                              [] w = {blank, child} -> 4
                              [] OTHER -> 3]

=============================================================================
