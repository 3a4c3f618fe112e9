----------------------------- MODULE MCNetworks -----------------------------
(* Instances of Networks for TLC. *)
EXTENDS Networks, TLC

CONSTANTS sw, gw, m1, m2, px, e1, e2, p1, p2, a, b, Private

External(adapter, force) ==
    [type |-> "External", adapter |-> adapter, notes |-> a, force |-> force,
     nat |-> FALSE, prefix |-> Null]
Gateway(prefix, notes) ==
    [type |-> "NAT", nat |-> TRUE, prefix |-> prefix, force |-> FALSE, notes |-> notes]
Internal ==
    [type |-> "Internal", nat |-> FALSE, prefix |-> Null, force |-> FALSE, notes |-> b]

\* A switch that becomes another kind of switch, and a NAT switch that gets
\* other notes or another prefix.
MCConfigs ==
    (sw :> {External(e1, FALSE), External(e2, TRUE), Gateway(p1, a), Internal}) @@
    (gw :> {Gateway(p1, a), Gateway(p2, b)}) @@
    (m1 :> {[to |-> a], [to |-> b, fw |-> [on |-> FALSE, profile |-> AnyProfile]]}) @@
    (m2 :> {[to |-> a]}) @@
    (px :> {[to |-> a, listening |-> TRUE],
            [to |-> b, listening |-> TRUE, fw |-> [on |-> TRUE, profile |-> Private]],
            [to |-> b, listening |-> TRUE, fw |-> [on |-> FALSE, profile |-> Private]]})

\* The first mapping refers to the switch's NetNat, the second writes its name.
MCRequires == [r \in Resources |-> IF r = m1 THEN {gw} ELSE {}]
MCNatOf == [m \in Mappings |-> gw]
MCWorkspaces == {{sw}, {gw, m1}, {gw, m1, m2}, {px}}
MCMaxEvents == [w \in MCWorkspaces |-> CASE m2 \in w -> 3 [] gw \in w -> 4 [] OTHER -> 5]

=============================================================================
