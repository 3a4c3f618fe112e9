---------------------------- MODULE NetworkHost -----------------------------
(***************************************************************************)
(* The host's networks: virtual switches, NetNats, their static mappings,  *)
(* portproxy rules and firewall rules, with the two locks under which      *)
(* internal/hyperv changes them, one per provider process, and the part    *)
(* that hyperv_nat_static_mapping and hyperv_port_proxy share              *)
(* (internal/resources/internal/firewallrule,                              *)
(* internal/scripts/common/firewall-rule.ps1).                             *)
(*                                                                         *)
(* A resource has one name on the host for good: a new name is a           *)
(* replacement, and replacements are modelled.                             *)
(***************************************************************************)
EXTENDS Terraform

CONSTANTS
    Switches, Mappings, Proxies,   \* the resources of each type
    NatOf,                         \* the switch whose NetNat a mapping is for
    Profiles, AnyProfile,                 \* firewall profiles; the default one
    Outside                        \* what others do to the host

VARIABLE inside    \* the running scripts: of which resource, at which step of it

nvars == <<tvars, inside>>

ASSUME NetworkAssumption ==
    /\ Switches \cap Mappings = {}
    /\ (Switches \cup Mappings) \cap Proxies = {}
    /\ Resources = Switches \cup Mappings \cup Proxies
    /\ \A m \in Mappings : NatOf[m] \in Switches
    /\ AnyProfile \in Profiles

\* switch: a VMSwitch or NoSwitch.  nat: the prefix of a NetNat or Null.
\* used: is a VM that is not off on it?  map: the internal endpoint or Null.
\* proxy: a portproxy rule or Null.  rules: firewall rules by display name.
EmptyHost == [switch |-> [s \in Switches |-> Null], nat |-> [s \in Switches |-> Null],
              used |-> {}, map |-> [m \in Mappings |-> Null],
              proxy |-> [p \in Proxies |-> Null], excluded |-> {},
              rules |-> [r \in Mappings \cup Proxies |-> {}]]

-----------------------------------------------------------------------------
(* netNatMu and portProxyMu *)

Mutex(r) == IF r \in Proxies THEN "portProxyMu" ELSE "netNatMu"

\* A switch that is created with a NAT name or that Terraform knows to have one.
NatInput(r, step) == IF step \in {"create", "createVerify"} THEN plan[r].nat ELSE st[r].nat

MutNoLockInDelete(r, step) ==
    IF r \in Switches
      THEN CASE step \in {"prepare", "prepareVerify"} \/ ~NatInput(r, step) -> "none"
             [] step \in {"create", "update", "remove"} -> "write"
             [] OTHER -> "read"
      ELSE IF step = "read" THEN "read" ELSE IF step = "delete" THEN "none" ELSE "write"

\* How the call at a step of r takes its lock: GetVMSwitch, withNatLock and
\* SetVMSwitch only with a NAT name, which prepareVMSwitch... has not; the
\* other two resources always.
Mode(r, step) ==
    IF r \in Switches
      THEN CASE step \in {"prepare", "prepareVerify"} \/ ~NatInput(r, step) -> "none"
             [] step \in {"create", "update", "remove"} -> "write"
             [] OTHER -> "read"
      ELSE IF step = "read" THEN "read" ELSE "write"

Compatible(m, n) == "none" \in {m, n} \/ (m = "read" /\ n = "read")

\* Lock or RLock, which are not reentrant, and the script starts.
Enter(r) ==
    /\ at[r] \notin Ended \cup {"none"} /\ MayBegin(r)
    /\ <<r, at[r]>> \notin inside
    /\ \A call \in inside : Mutex(call[1]) = Mutex(r) =>
           Compatible(Mode(call[1], call[2]), Mode(r, at[r]))
    /\ inside' = inside \cup {<<r, at[r]>>}
    /\ UNCHANGED tvars

\* The script ends, and the lock is given back.
Leave(r) ==
    /\ <<r, at[r]>> \in inside
    /\ inside' = inside \ {<<r, at[r]>>}

-----------------------------------------------------------------------------
(* The firewall rule of a mapping or a portproxy *)

\* enabled and profile; Resolve applies the defaults of a rule left out.
FirewallRules == [on : BOOLEAN, profile : Profiles]

Resolve(p) == Of(p, "fw", [on |-> TRUE, profile |-> AnyProfile])

\* Get-NetFirewallRule, the first of the name; StateObject.
FirewallStates(h, r) ==
    IF h.rules[r] = {} THEN {[on |-> FALSE, profile |-> AnyProfile]} ELSE h.rules[r]

\* New-HypervFirewallRule does not mind rules of that name.
WithRule(h, r, fw) ==
    IF fw.on THEN [h EXCEPT !.rules[r] = @ \cup {fw}] ELSE h

\* Sync-HypervFirewallRule sets all rules of the name, or makes one.
Synced(h, r, fw) ==
    IF h.rules[r] # {} \/ fw.on THEN [h EXCEPT !.rules[r] = {fw}] ELSE h

\* Remove-HypervFirewallRule removes all rules of the name.
WithoutRules(h, r) == [h EXCEPT !.rules[r] = {}]

=============================================================================
