-------------------------- MODULE MappingResource ---------------------------
(***************************************************************************)
(* hyperv_nat_static_mapping: internal/resources/nat_static_mapping with   *)
(* internal/hyperv/nat_static_mapping.go and                               *)
(* internal/scripts/nat_static_mapping.  Its key (NetNat, protocol,        *)
(* external address and port) and the name of its firewall rule are the    *)
(* resource's own; `to' is the internal address and port.                  *)
(***************************************************************************)
EXTENDS NetworkHost

CONSTANT Endpoints

MappingSchema == [forces |-> {}, sticky |-> {"fw"}, sets |-> NoSets]

WellFormedMapping(c) ==
    /\ DOMAIN c \ {"fw"} = {"to"}
    /\ c.to \in Endpoints
    /\ "fw" \in DOMAIN c => c.fw \in FirewallRules

ASSUME MappingAssumption == \A m \in Mappings : \A c \in Configs[m] : WellFormedMapping(c)

HasMapping(h, m) == h.map[m] # Null

Mapped(h, m, to) == [h EXCEPT !.map[m] = to]

-----------------------------------------------------------------------------
(* The scripts: what they need, what they do, where they may stop *)

NewMapping(h, m, p) == WithRule(Mapped(h, m, p.to), m, Resolve(p))

NewMappingAccepts(h, m) == h.nat[NatOf[m]] # Null /\ ~HasMapping(h, m)

NewMappingPartly(h, m, p) ==
    IF NewMappingAccepts(h, m) THEN {h, Mapped(h, m, p.to), NewMapping(h, m, p)} ELSE {h}

MutSetNeverDisables(h, m, p) == WithRule(Mapped(h, m, p.to), m, Resolve(p))

\* A change is a removal and an addition.
SetMapping(h, m, p) == Synced(Mapped(h, m, p.to), m, Resolve(p))

SetMappingPartly(h, m, p) ==
    IF HasMapping(h, m)
      THEN {h, Mapped(h, m, Null), Mapped(h, m, p.to), SetMapping(h, m, p)}
      ELSE {h}

MutRemoveKeepsRules(h, m) == Mapped(h, m, Null)

RemoveMapping(h, m) == WithoutRules(Mapped(h, m, Null), m)

RemoveMappingPartly(h, m) == {h, Mapped(h, m, Null), RemoveMapping(h, m)}

\* modelFromNatStaticMapping
ReadMapping(h, m) == {[to |-> h.map[m], fw |-> fw] : fw \in FirewallStates(h, m)}

-----------------------------------------------------------------------------
(* The handlers *)

MappingCall(do, m) == [do |-> do, of |-> m, with |-> plan[m]]

CreateMapping(m) ==
    /\ at[m] = "create" /\ Leave(m)
    /\ \/ /\ NewMappingAccepts(host, m)
          /\ Ran(NewMapping(host, m, plan[m]))
          /\ \E s \in ReadMapping(host', m) : Return(m, s)
       \/ /\ ~NewMappingAccepts(host, m)
          /\ Ran(host) /\ Fail(m)
       \/ /\ CallFails(MappingCall("new", m), NewMappingPartly(host, m, plan[m]))
          /\ Fail(m)

MutReadFailsOnMissing(m) ==
    /\ at[m] = "read" /\ Leave(m)
    /\ \/ /\ HasMapping(host, m)
          /\ Ran(host)
          /\ \E s \in ReadMapping(host, m) : Refreshed(m, s)
       \/ ~HasMapping(host, m) /\ Ran(host) /\ Fail(m)
       \/ ReadFails /\ Fail(m)

ReadNatStaticMapping(m) ==
    /\ at[m] = "read" /\ Leave(m)
    /\ \/ /\ Ran(host)
          /\ \E s \in IF HasMapping(host, m) THEN ReadMapping(host, m) ELSE {NoState} :
                 Refreshed(m, s)
       \/ ReadFails /\ Fail(m)

UpdateMapping(m) ==
    /\ at[m] = "update" /\ Leave(m)
    /\ \/ /\ HasMapping(host, m)
          /\ Ran(SetMapping(host, m, plan[m]))
          /\ \E s \in ReadMapping(host', m) : Return(m, s)
       \/ /\ ~HasMapping(host, m)
          /\ Ran(host) /\ Fail(m)
       \/ /\ CallFails(MappingCall("set", m), SetMappingPartly(host, m, plan[m]))
          /\ Fail(m)

\* remove.ps1 does not mind a mapping or a rule that is gone.
DeleteMapping(m) ==
    /\ at[m] = "delete" /\ Leave(m)
    /\ \/ Ran(RemoveMapping(host, m)) /\ Deleted(m)
       \/ /\ CallFails(MappingCall("remove", m), RemoveMappingPartly(host, m))
          /\ Fail(m)

\* ImportState has the key and the rule's name; Read does the rest.
ImportMapping(m) ==
    /\ HasMapping(host, m)
    /\ \E s \in ReadMapping(host, m) : Import(m, s)
    /\ UNCHANGED inside

MappingStep(m) ==
    CreateMapping(m) \/ ReadNatStaticMapping(m) \/ UpdateMapping(m) \/ DeleteMapping(m)

MappingPartly(h, c) ==
    CASE c.do = "new" -> NewMappingPartly(h, c.of, c.with)
      [] c.do = "set" -> SetMappingPartly(h, c.of, c.with)
      [] c.do = "remove" -> RemoveMappingPartly(h, c.of)

=============================================================================
