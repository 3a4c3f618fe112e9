------------------------------ MODULE Networks ------------------------------
(***************************************************************************)
(* The network resources together, over any number of applies.            *)
(***************************************************************************)
EXTENDS SwitchResource, MappingResource, ProxyResource

Schema(r) ==
    CASE r \in Switches -> SwitchSchema
      [] r \in Mappings -> MappingSchema
      [] r \in Proxies -> ProxySchema

Init == InitTerraform(EmptyHost) /\ inside = {}

Step(r) ==
    \/ r \in Switches /\ SwitchStep(r)
    \/ r \in Mappings /\ MappingStep(r)
    \/ r \in Proxies /\ ProxyStep(r)

Walk ==
    /\ \/ Start
       \/ PlanAll([r \in Resources |-> Schema(r)], TRUE)
       \/ \E r \in workspace : Skip(r)
       \/ Finish
    /\ UNCHANGED inside

ApplyStep == Walk \/ \E r \in workspace : Enter(r) \/ Step(r)

-----------------------------------------------------------------------------
(* What others do, and what comes late *)

Foreign(h, s) ==
    [h EXCEPT !.switch[s] = [type |-> "Private", adapter |-> Null, mgmt |-> FALSE, notes |-> Null]]

\* Switches, mappings and rules vanish, somebody makes a switch of the name,
\* a VM starts or stops, a rule loses its listener, a port is reserved, and a
\* firewall rule is made or disabled.
Elsewhere(r) ==
    LET fw == [on |-> FALSE, profile |-> AnyProfile]
        gone == IF r \in Switches THEN IF HasSwitch(host, r) THEN {NoSwitch(host, r)} ELSE {}
                ELSE IF r \in Mappings
                  THEN IF HasMapping(host, r) THEN {Mapped(host, r, Null)} ELSE {}
                  ELSE IF HasProxy(host, r) THEN {Unforwarded(host, r)} ELSE {}
    IN UNION {
        IF "gone" \in Outside THEN gone ELSE {},
        IF "foreign" \in Outside /\ r \in Switches /\ ~HasSwitch(host, r)
          THEN {Foreign(host, r)} ELSE {},
        IF "use" \in Outside /\ r \in Switches /\ HasSwitch(host, r)
          THEN {[host EXCEPT !.used = @ \cup {r}]} ELSE {},
        IF "nat" \in Outside /\ r \in Switches /\ host.nat[r] # Null
          THEN {WithoutNat(host, r)} ELSE {},
        IF "silent" \in Outside /\ r \in Proxies /\ HasProxy(host, r)
          THEN {Forwarding(host, r, host.proxy[r].to, FALSE)} ELSE {},
        IF "reserve" \in Outside /\ r \in Proxies
          THEN {[host EXCEPT !.excluded = @ \cup {r}]} ELSE {},
        IF "rule" \in Outside /\ r \notin Switches /\ host.rules[r] # {fw}
          THEN {[host EXCEPT !.rules[r] = {fw}]} ELSE {}}

Others ==
    /\ \/ Edit
       \/ Interfere(UNION {Elsewhere(r) : r \in workspace})
       \/ Land(IF late.of \in Switches THEN SwitchPartly(host, late)
               ELSE IF late.of \in Mappings THEN MappingPartly(host, late)
               ELSE ProxyPartly(host, late))
    /\ UNCHANGED inside

Imports ==
    \E r \in workspace :
        \/ r \in Switches /\ ImportSwitch(r)
        \/ r \in Mappings /\ ImportMapping(r)
        \/ r \in Proxies /\ ImportProxy(r)

Next == ApplyStep \/ Others \/ Imports

Spec == Init /\ [][Next]_nvars

\* The user applies again and again, and calls end.
FairSpec == Spec /\ WF_nvars(ApplyStep) /\ WF_nvars(late # NoCall /\ Others)

-----------------------------------------------------------------------------
(* Types *)

SwitchType == [type : {"External", "Internal", "Private"}, adapter : Adapters \cup {Null},
               mgmt : BOOLEAN, notes : NotesOf \cup {Null}]

Hosts ==
    [switch : [Switches -> SwitchType \cup {Null}], nat : [Switches -> Prefixes \cup {Null}],
     used : SUBSET Switches, map : [Mappings -> Endpoints \cup {Null}],
     proxy : [Proxies -> ProxyType \cup {Null}], excluded : SUBSET Proxies,
     rules : [Mappings \cup Proxies -> SUBSET FirewallRules]]

\* What Terraform's state of a resource may be, other than NoState.
States(r) ==
    CASE r \in Switches ->
           [type : Types, adapter : Adapters \cup {Null}, desc : Adapters \cup {Null},
            mgmt : BOOLEAN, notes : NotesOf \cup {Null}, nat : BOOLEAN,
            prefix : Prefixes \cup {Null}, force : BOOLEAN]
      [] r \in Mappings -> [to : Endpoints, fw : FirewallRules]
      [] r \in Proxies -> [to : Targets, listening : BOOLEAN, fw : FirewallRules]

ASSUME NothingAssumption ==
    /\ Null \notin SwitchType \cup Prefixes \cup Endpoints \cup ProxyType
    /\ \A r \in Resources : NoState \notin States(r)

Steps == Ended \cup {"none", "read", "create", "createVerify", "update", "delete",
                     "prepare", "prepareVerify", "remove", "removeVerify"}

TypeOK ==
    /\ workspace \in Workspaces
    /\ \A r \in Resources : cfg[r] \in Configs[r] \cup {NoConfig}
    /\ \A r \in Resources : st[r] \in States(r) \cup {NoState}
    /\ tainted \subseteq {r \in Resources : st[r] # NoState}
    /\ phase \in {"idle", "refresh", "apply"}
    /\ op \in [Resources -> {"none", "create", "update", "replace", "delete"}]
    /\ at \in [Resources -> Steps]
    /\ tries \in [Resources -> 0 .. VerifyAttempts - 1]
    /\ host \in Hosts
    /\ disturbed \in BOOLEAN
    /\ events \in Nat
    /\ inside \subseteq Resources \X Steps

-----------------------------------------------------------------------------
(* Properties *)

\* What a running script's cmdlets do, whatever lock it is run under.
Touches(call) ==
    LET r == call[1] step == call[2]
    IN r \notin Switches \/ (step \notin {"prepare", "prepareVerify"} /\ NatInput(r, step))

Changes(call) ==
    /\ Touches(call)
    /\ \/ call[2] \in {"create", "remove"}
       \/ call[1] \notin Switches /\ call[2] \in {"update", "delete"}

\* NetNat and netsh are not safe for concurrent use (netNatMu, portProxyMu):
\* a script that changes NetNats or static mappings runs while no other
\* that changes or reads them does, and likewise for portproxy rules.
ChangesAlone ==
    \A one, other \in inside :
        Changes(one) /\ Touches(other) /\ one # other => Mutex(one[1]) # Mutex(other[1])

Here(r) ==
    CASE r \in Switches -> HasSwitch(host, r)
      [] r \in Mappings -> HasMapping(host, r)
      [] r \in Proxies -> HasProxy(host, r)

\* Terraform forgets a resource only when its object is gone from the host,
\* and a NAT switch that it removes only with its NetNat: whatever fails or is
\* verified by polling (Read, Delete, recover...OnDrop).
ForgetsOnlyTheGone ==
    [][\A r \in Resources : st[r] # NoState /\ st'[r] = NoState =>
           /\ ~Here(r)'
           /\ r \in Switches /\ Here(r) /\ st[r].nat => host'.nat[r] = Null]_nvars

\* What Read would find, were the resource in Terraform's state.
Readings(r) ==
    CASE r \in Switches ->
           {ReadSwitch(host, r, cfg[r].nat, cfg[r].nat, Of(cfg[r], "adapter", Null), cfg[r].force)}
      [] r \in Mappings -> ReadMapping(host, r)
      [] r \in Proxies -> ReadProxy(host, r)

\* The host has what the configuration asks for, and nothing of what is not
\* configured, except that a NetNat may be left by a switch that somebody else
\* removed, or that was imported.
InSync(r) ==
    IF cfg[r] = NoConfig
      THEN ~Here(r) /\ (r \notin Switches => host.rules[r] = {})
      ELSE Here(r) /\ \E s \in Readings(r) : AsPlanned(s, cfg[r])

\* A mapping is not made again in the apply that replaces or removes its
\* NetNat, and may be made just before that.
NatTaken(r) == r \in Mappings /\ op[NatOf[r]] \in {"create", "delete"}

Unknown(r) == st[r] = NoState /\ op[r] = "none"

\* An apply that nobody disturbs and in which nothing fails has made the host
\* what the configuration asks for, except for a mapping whose NetNat it
\* replaced or removed, and for what Terraform did not know of.
OkMeansInSync ==
    [][phase = "apply" /\ phase' = "idle" /\ ~disturbed /\ (\A r \in workspace : at[r] = "ok")
        => \A r \in workspace : InSync(r) \/ NatTaken(r) \/ Unknown(r)]_nvars

\* What a handler may return that was not planned: a switch that was there
\* before (recoverVMSwitchNewOnDrop), the description of another adapter, a
\* firewall rule that was there before, or none although it has a profile.
Surprising(r) ==
    IF r \in Switches
      THEN at[r] = "createVerify" \/ (op[r] = "update" /\ plan[r].adapter # st[r].desc)
      ELSE \/ op[r] = "create" /\ host.rules[r] # {}
           \/ LET fw == Resolve(plan[r]) IN ~fw.on /\ fw.profile # AnyProfile

\* Undisturbed, no handler returns anything else that was not planned, which
\* Terraform reports as a bug of the provider.
ReturnsThePlan ==
    [][\A r \in Resources :
           at'[r] = "inconsistent" /\ at[r] # "inconsistent" => disturbed \/ Surprising(r)]_nvars

Leftover(r) == Here(r) \/ (r \notin Switches /\ host.rules[r] # {})

\* An object on the host that Terraform does not know of and cannot make.
Orphaned(r) ==
    /\ st[r] = NoState
    /\ IF cfg[r] = NoConfig THEN Leftover(r)
         ELSE Here(r) \/ (r \in Switches /\ host.nat[r] \notin {Null, cfg[r].prefix})

\* What no apply gets past: a switch in use, or sharing its adapter without
\* the flag, that has to go; any change of an internal switch; a disabled
\* firewall rule with a profile; a reserved port; a NetNat that is not there.
StuckAlone(r) ==
    LET o == Operation(r, Schema(r))
    IN CASE r \in Switches ->
              \/ o \in {"delete", "replace"} /\ (r \in host.used \/ NotForced(r))
              \/ o = "update" /\ st[r].type = "Internal"
              \/ cfg[r] # NoConfig /\ cfg[r].type = "Internal" /\ "mgmt" \in DOMAIN cfg[r]
         [] r \in Mappings ->
              \/ o # "delete" /\ host.nat[NatOf[r]] = Null
              \/ cfg[r] # NoConfig /\ LET fw == Resolve(cfg[r]) IN ~fw.on /\ fw.profile # AnyProfile
         [] r \in Proxies ->
              \/ r \in host.excluded
              \/ cfg[r] # NoConfig /\ LET fw == Resolve(cfg[r]) IN ~fw.on /\ fw.profile # AnyProfile

Stuck(r) ==
    \/ StuckAlone(r)
    \/ \E q \in Requires[r] \cap workspace : StuckAlone(q) \/ Orphaned(q)

\* Applied again and again, every resource becomes what it is configured to
\* be, after any failures and interference.
Converges ==
    <>[](phase = "idle" => \A r \in workspace : InSync(r) \/ Orphaned(r) \/ Stuck(r))

\* An apply ends: no handler waits for a lock that nobody gives back
\* (withNatLock's remark on the recovery path).
ApplyEnds == phase # "idle" ~> phase = "idle"

=============================================================================
