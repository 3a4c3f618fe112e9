---------------------------- MODULE MCVmResource ----------------------------
(* Instances of VmResource for TLC. *)
EXTENDS VmResourceClaims, TLC

CONSTANTS h1, d1, n1, a, b

With(h, d, n) == (h1 :> h) @@ (d1 :> d) @@ (n1 :> n)

Config(at, boot, cpu, notes, desired, wait) ==
    [at |-> at, boot |-> boot, settings |-> [cpu |-> cpu, notes |-> notes],
     desired |-> desired, wait |-> wait]

\* A server, the same with another disk and more processors, one that boots
\* from the network first, in a VLAN, and an installation from a DVD where the
\* disk was.
MCConfigs == {
    Config(With(a, Empty, a), <<h1, n1>>, 1, 1, "Running", TRUE),
    Config(With(b, Empty, a), <<h1, n1>>, 2, 1, "Off", FALSE),
    Config(With(a, Empty, b), <<n1, h1>>, 1, 1, "Running", FALSE),
    Config(With(Empty, a, b), <<>>, 2, 2, "unmanaged", FALSE)}

\* Medium b is the switch of medium a with a VLAN.
MCUntagged == (a :> a) @@ (b :> a)

MCDefaults == [cpu |-> 1, notes |-> 1]

\* The disk's slot is the DVD drive's.
MCSlot == [p \in {h1, d1} |-> 1]

=============================================================================
