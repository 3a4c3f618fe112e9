----------------------------- MODULE VmResource -----------------------------
(***************************************************************************)
(* One hyperv_vm resource over any number of terraform applies:            *)
(* internal/resources/vm/resource.go with the calls it makes through       *)
(* internal/hyperv/vm.go and the scripts under internal/scripts/vm.        *)
(*                                                                         *)
(* An apply refreshes Terraform's state from the host, compares it with    *)
(* the configuration, and works through a fixed list of steps, each of     *)
(* them one call to the host or one call per device.  The first error ends *)
(* it, and Terraform keeps the state it had.  A call that failed may still *)
(* have done its work, or do it later, when RunScript gave up waiting.     *)
(*                                                                         *)
(* A place is where a device can be: a controller slot as a disk's or as a *)
(* DVD drive's, or the name of a network adapter.  What is there (a path,  *)
(* a switch with its VLAN) is one of the Media.                            *)
(***************************************************************************)
EXTENDS Naturals, Sequences, FiniteSets

CONSTANTS
    Hdds, Dvds, Nics,   \* the places of each kind of device
    Slot,               \* the controller slot of each disk and DVD place
    Media, Empty,       \* what can be in a place; nothing
    Untagged,           \* each switch with its VLAN, without it
    Settings, Values,   \* cpu.count, memory, secure_boot, notes; their values
    Defaults,           \* the Settings New-VM gives a machine
    Cold,               \* the Settings the host changes only while the VM is off
    Configs, NoConfig,  \* the resource's configurations; it is not configured
    NoVm, NoState, NoCall,
    CreateMayFail,      \* may a call of Create fail?
    LateEffects,        \* may a call take effect after it has failed?
    Outside,            \* what others do to the VM: "delete", "power", "device"
    Meddling,           \* may they do it during an update?
    MaxEvents           \* edits, failures and outside changes, together

Drives == Hdds \cup Dvds
Places == Drives \cup Nics

VARIABLES
    cfg,        \* the configuration
    st,         \* Terraform's state of the resource
    vm,         \* the virtual machine of that name on the host
    twin,       \* does another virtual machine have the name too?
    step,       \* where the apply is
    todo,       \* the device calls it has left to make
    result,     \* how the last apply ended
    late,       \* a call that failed and may yet take effect
    events      \* how many of the MaxEvents have happened

host == <<vm, twin, late>>
apply == <<step, todo, result>>
vars == <<cfg, st, host, apply, events>>

Devices == [Places -> Media \cup {Empty}]

Powers == {"Off", "Running"}

\* A machine on the host; `twice` are the names of several adapters.
Machines == [at : Devices, twice : SUBSET Nics, boot : Seq(Places),
             settings : [Settings -> Values], power : Powers]

\* Terraform's state of one: what was read, the state block, and its mark.
Models == [at : Devices, twice : SUBSET Nics, boot : Seq(Places),
           settings : [Settings -> Values], power : Powers,
           desired : Powers \cup {"unmanaged"}, tainted : BOOLEAN]

\* The config validators and the schema; two devices cannot share a slot.
\* "unmanaged": there is no state block.
WellFormed(c) ==
    /\ c.at \in Devices
    /\ c.boot \in Seq({p \in Places : c.at[p] # Empty})
    /\ c.settings \in [Settings -> Values]
    /\ c.desired \in Powers \cup {"unmanaged"}
    /\ c.wait \in BOOLEAN /\ (c.wait => c.desired = "Running")
    /\ \A p, q \in Drives :
           p # q /\ Slot[p] = Slot[q] => Empty \in {c.at[p], c.at[q]}

ASSUME ConfigsAssumption ==
    /\ \A c \in Configs : WellFormed(c)
    /\ NoConfig \notin Configs

ASSUME PlacesAssumption ==
    /\ Hdds \cap Dvds = {} /\ Drives \cap Nics = {}
    /\ Empty \notin Media
    /\ Cold \subseteq Settings
    /\ Defaults \in [Settings -> Values]
    /\ Untagged \in [Media -> Media]

ASSUME NothingAssumption == NoVm \notin Machines /\ NoState \notin Models

ASSUME HostAssumption ==
    /\ {CreateMayFail, LateEffects, Meddling} \subseteq BOOLEAN
    /\ Outside \subseteq {"delete", "power", "device"}
    /\ MaxEvents \in Nat

Steps == {"idle", "plan", "delete", "new", "devices", "boot", "settings", "final", "wait"}

UpdateSteps == {"devices", "boot", "settings", "final"}

\* Attach and detach calls, by place.
DeviceCalls ==
    [do : {"attach"}, at : Places, with : Media] \cup [do : {"detach"}, at : Places, with : {Empty}]

\* Late calls are not typed.
TypeOK ==
    /\ cfg \in Configs \cup {NoConfig}
    /\ st \in Models \cup {NoState}
    /\ vm \in Machines \cup {NoVm}
    /\ twin \in BOOLEAN
    /\ step \in Steps
    /\ todo \subseteq DeviceCalls
    /\ result \in {"none", "ok", "error", "inconsistent"}
    /\ events \in Nat
    /\ step \in {"new", "wait"} \cup UpdateSteps => cfg # NoConfig
    /\ step = "delete" => st # NoState

Init ==
    /\ cfg = NoConfig
    /\ st = NoState
    /\ vm = NoVm
    /\ twin = FALSE
    /\ step = "idle"
    /\ todo = {}
    /\ result = "none"
    /\ late = NoCall
    /\ events = 0

Event ==
    /\ events < MaxEvents
    /\ events' = events + 1

-----------------------------------------------------------------------------
(* What the host does for a call *)

\* The calls: what to do, where, and with what.
New(c) == [do |-> "new", at |-> Settings, with |-> c.settings]
Remove == [do |-> "remove", at |-> {}, with |-> Empty]
Attach(p, m) == [do |-> "attach", at |-> p, with |-> m]
Detach(p) == [do |-> "detach", at |-> p, with |-> Empty]
SetBootOrder(order) == [do |-> "boot", at |-> {}, with |-> order]
SetVM(some, values) == [do |-> "set", at |-> some, with |-> values]
SetVMState(power) == [do |-> "power", at |-> {}, with |-> power]
GetVM == [do |-> "get", at |-> {}, with |-> Empty]

\* What is left of a boot order without the entries that are not in `some`.
Among(order, some) ==
    LET among[i \in 0..Len(order)] ==
            IF i = 0 THEN <<>>
            ELSE IF order[i] \in some THEN Append(among[i - 1], order[i])
            ELSE among[i - 1]
    IN among[Len(order)]

Without(order, p) == Among(order, Places \ {p})

\* New-VM, its default devices removed, and the Set-* calls of new.ps1 for the
\* settings in `some`.
Created(some, values) ==
    [at |-> [p \in Places |-> Empty], twice |-> {}, boot |-> <<>>,
     settings |-> [s \in Settings |-> IF s \in some THEN values[s] ELSE Defaults[s]],
     power |-> "Off"]

\* Add-VM...; a second adapter of one name is another adapter.
Attached(v, p, m) ==
    [at |-> [v.at EXCEPT ![p] = m],
     twice |-> IF v.at[p] = Empty THEN v.twice ELSE v.twice \cup {p},
     boot |-> Append(v.boot, p), settings |-> v.settings, power |-> v.power]

\* Remove-VM...: all adapters of the name go, and the boot entry too.
Detached(v, p) ==
    [at |-> [v.at EXCEPT ![p] = Empty], twice |-> v.twice \ {p},
     boot |-> Without(v.boot, p), settings |-> v.settings, power |-> v.power]

\* Set-VMFirmware -BootOrder replaces the order.
Booting(v, order) ==
    [at |-> v.at, twice |-> v.twice, boot |-> order,
     settings |-> v.settings, power |-> v.power]

\* set.ps1: the settings in `some` get the configuration's values.
Having(v, some, values) ==
    [at |-> v.at, twice |-> v.twice, boot |-> v.boot,
     settings |-> [s \in Settings |-> IF s \in some THEN values[s] ELSE v.settings[s]],
     power |-> v.power]

\* Start-VM, Stop-VM: no-ops if the VM is there already.
Powered(v, power) ==
    [at |-> v.at, twice |-> v.twice, boot |-> v.boot,
     settings |-> v.settings, power |-> power]

\* The host refuses a second drive at a slot, a boot entry that is not there,
\* and to change firmware, processor and memory while the VM runs.
Accepts(c) ==
    \/ c.do \in {"new", "remove"}
    \/ /\ vm # NoVm
       /\ c.do = "attach" /\ c.at \in Drives =>
              \A q \in Drives : Slot[q] = Slot[c.at] => vm.at[q] = Empty
       /\ c.do = "detach" => vm.at[c.at] # Empty
       /\ c.do = "boot" =>
              vm.power = "Off" /\ \A i \in DOMAIN c.with : vm.at[c.with[i]] # Empty
       /\ c.do = "set" /\ vm.power = "Running" => c.at \cap Cold = {}

\* New-VM does not mind a VM of that name (new.ps1); Stop-VM and Remove-VM
\* take all that have it (remove.ps1).
Happens(c) ==
    /\ Accepts(c)
    /\ \/ c.do = "new" /\ vm' = IF vm = NoVm THEN Created(c.at, c.with) ELSE vm
       \/ c.do = "remove" /\ vm' = NoVm
       \/ c.do = "attach" /\ vm' = Attached(vm, c.at, c.with)
       \/ c.do = "detach" /\ vm' = Detached(vm, c.at)
       \/ c.do = "boot" /\ vm' = Booting(vm, c.with)
       \/ c.do = "set" /\ vm' = Having(vm, c.at, c.with)
       \/ c.do = "power" /\ vm' = Powered(vm, c.with)
       \/ c.do = "get" /\ UNCHANGED vm
    /\ twin' = (c.do # "remove" /\ (twin \/ (c.do = "new" /\ vm # NoVm)))

\* The call, or what it may have done when it is cut short: a machine or a
\* change with some of the settings, a machine stopped and not yet removed, an
\* adapter without its VLAN.
Parts(c) ==
    {c} \cup {[do |-> c.do, at |-> some, with |-> c.with] :
                  some \in IF c.do \in {"new", "set"} THEN SUBSET c.at ELSE {}}
        \cup (IF c.do = "remove" THEN {SetVMState("Off")} ELSE {})
        \cup (IF c.do = "attach" /\ c.at \in Nics
                THEN {Attach(c.at, Untagged[c.with])} ELSE {})

-----------------------------------------------------------------------------
(* How a call ends, and an apply *)

End(r) ==
    /\ step' = "idle"
    /\ todo' = {}
    /\ result' = r

Goto(s) ==
    /\ step' = s
    /\ todo' = {}
    /\ UNCHANGED result

Creating == st = NoState

\* The call answers; two machines of the name have no one answer, but one can
\* be added and all be removed.
Succeeds(c) ==
    /\ twin => c.do \in {"new", "remove"}
    /\ Happens(c)
    /\ UNCHANGED <<late, events>>

\* remove.ps1 reports a missing VM in one of the two ways get.ps1 knows, and
\* Stop-VM may stop one machine of the name and fail on another.
Refused(c) ==
    /\ IF c.do = "remove" THEN vm = NoVm \/ twin
                          ELSE ~Accepts(c) \/ (twin /\ c.do # "new")
    /\ \/ UNCHANGED vm
       \/ c.do = "remove" /\ vm # NoVm /\ vm' = Powered(vm, "Off")
    /\ End("error")
    /\ UNCHANGED <<cfg, st, twin, late, events>>

\* RunScript returns an error although the host would do it: nothing was done,
\* or some of it was, or it is still to be done.
CallFails(c) ==
    /\ Creating => CreateMayFail
    /\ Event
    /\ \/ UNCHANGED host
       \/ \E part \in Parts(c) : Happens(part) /\ UNCHANGED late
       \/ LateEffects /\ late = NoCall /\ late' = c /\ UNCHANGED <<vm, twin>>
    /\ End("error")
    /\ UNCHANGED <<cfg, st>>

-----------------------------------------------------------------------------
(* State and plan *)

Entries(boot) == {boot[i] : i \in DOMAIN boot}

\* reconcileBootOrderState: the host's entries that the order names.
Kept(order, boot) == Among(order, Entries(boot))

\* modelFromVM and the reconciliations: what the host has, of the boot order
\* what is managed, and the power state that is wanted.
ReadModel(v, boot, desired, tainted) ==
    [at |-> v.at, twice |-> v.twice, boot |-> Kept(v.boot, boot),
     settings |-> v.settings, power |-> v.power,
     desired |-> desired, tainted |-> tainted]

\* Terraform compares what it planned with what it gets back, except for
\* state.current, which was planned as unknown.
AsPlanned(s) ==
    /\ s.at = cfg.at /\ s.twice = {}
    /\ s.boot = cfg.boot
    /\ s.settings = cfg.settings

\* The last read of an apply becomes the state.
Store(v, creating) ==
    LET s == ReadModel(v, cfg.boot, cfg.desired, FALSE)
    IN /\ st' = ReadModel(v, cfg.boot, cfg.desired, creating /\ ~AsPlanned(s))
       /\ End(IF AsPlanned(s) THEN "ok" ELSE "inconsistent")

\* With a state block there is always a difference: state.current.
Differs == ~AsPlanned(st) \/ st.desired # cfg.desired \/ cfg.desired # "unmanaged"

\* What the state says is at a place; nothing, before it is created.
Had(p) == IF Creating THEN Empty ELSE st.at[p]

\* diffHardDiskDrives, diffNetworkAdapters, diffDvdDrives.
Diff ==
    {Detach(p) : p \in {q \in Places : Had(q) # Empty /\ cfg.at[q] # Had(q)}}
    \cup {Attach(p, cfg.at[p]) : p \in {q \in Places : cfg.at[q] \notin {Empty, Had(q)}}}

\* Disks, then adapters, then DVD drives; of each kind what goes before what
\* comes, in any order.
Rank(c) ==
    (IF c.at \in Hdds THEN 0 ELSE IF c.at \in Nics THEN 2 ELSE 4)
    + (IF c.do = "detach" THEN 0 ELSE 1)

First == {c \in todo : \A d \in todo : Rank(c) <= Rank(d)}

MutBootSameEntries ==
    cfg.boot # <<>> /\ (~Creating => Entries(cfg.boot) # Entries(st.boot))

BootChanged == cfg.boot # <<>> /\ (~Creating => cfg.boot # st.boot)

\* buildSetInput; New-VM has had them all.
Changed == {s \in Settings : ~Creating /\ cfg.settings[s] # st.settings[s]}

MutStateChangedByDesired ==
    /\ cfg.desired # "unmanaged"
    /\ ~Creating => st.desired # cfg.desired

\* shouldApplyState, stateDesiredChanged.
StateChanged ==
    /\ cfg.desired # "unmanaged"
    /\ ~Creating /\ st.desired # "unmanaged" => st.power # cfg.desired

-----------------------------------------------------------------------------
(* The steps of an apply *)

MutRefreshKeepsMissing ==
    /\ step = "idle"
    /\ ~(cfg = NoConfig /\ st = NoState)
    /\ IF st = NoState \/ vm = NoVm \/ twin
         THEN Goto("plan") /\ UNCHANGED st
         ELSE /\ Goto("plan")
              /\ st' = ReadModel(vm, st.boot, st.desired, st.tainted)
    /\ UNCHANGED <<cfg, host, events>>

\* Read, before anything is planned.
Refresh ==
    /\ step = "idle"
    /\ ~(cfg = NoConfig /\ st = NoState)
    /\ IF Creating \/ vm = NoVm
         THEN Goto("plan") /\ st' = NoState
         ELSE IF twin
           THEN End("error") /\ UNCHANGED st
           ELSE /\ Goto("plan")
                /\ st' = ReadModel(vm, st.boot, st.desired, st.tainted)
    /\ UNCHANGED <<cfg, host, events>>

\* A transient fault does not drop the resource from the state.
RefreshFails == step = "idle" /\ ~Creating /\ CallFails(GetVM)

Plan ==
    /\ step = "plan"
    /\ IF Creating
         THEN IF cfg = NoConfig THEN End("ok") ELSE Goto("new")
         ELSE IF cfg = NoConfig \/ st.tainted
           THEN Goto("delete")
           ELSE IF Differs
             THEN step' = "devices" /\ todo' = Diff /\ UNCHANGED result
             ELSE End("ok")
    /\ UNCHANGED <<cfg, st, host, events>>

MutDeleteThenNew ==
    /\ step = "delete"
    /\ \/ Succeeds(Remove) /\ st' = NoState /\ Goto("new") /\ UNCHANGED cfg
       \/ Refused(Remove)
       \/ CallFails(Remove)

\* Delete; a VM that is gone counts as deleted.
DeleteVM ==
    /\ step = "delete"
    /\ \/ /\ Succeeds(Remove)
          /\ st' = NoState
          /\ IF cfg = NoConfig THEN End("ok") ELSE Goto("new")
          /\ UNCHANGED cfg
       \/ Refused(Remove)
       \/ CallFails(Remove)

\* Create begins with NewVM.
NewVM ==
    /\ step = "new"
    /\ \/ /\ Succeeds(New(cfg))
          /\ step' = "devices"
          /\ todo' = Diff
          /\ UNCHANGED <<cfg, st, result>>
       \/ Refused(New(cfg))
       \/ CallFails(New(cfg))

\* What is not there need not be detached.
Tolerated(c) ==
    /\ ~twin
    /\ c.do = "detach"
    /\ ~Accepts(c)
    /\ UNCHANGED <<host, events>>

MoveDevice ==
    /\ step = "devices"
    /\ \E c \in First :
           \/ /\ Succeeds(c) \/ Tolerated(c)
              /\ todo' = todo \ {c}
              /\ UNCHANGED <<cfg, st, step, result>>
           \/ c.do = "attach" /\ Refused(c)
           \/ CallFails(c)

DevicesMoved ==
    /\ step = "devices"
    /\ todo = {}
    /\ Goto("boot")
    /\ UNCHANGED <<cfg, st, host, events>>

MutOrderThenStart ==
    /\ step = "boot"
    /\ \/ /\ ~BootChanged \/ Succeeds(SetBootOrder(cfg.boot))
          /\ ~BootChanged => UNCHANGED <<host, events>>
          /\ Goto(IF StateChanged THEN "final" ELSE "settings")
          /\ UNCHANGED <<cfg, st>>
       \/ BootChanged /\ (Refused(SetBootOrder(cfg.boot)) \/ CallFails(SetBootOrder(cfg.boot)))

\* Every entry must name a device that is there, so the order comes after them.
OrderBoot ==
    /\ step = "boot"
    /\ \/ /\ ~BootChanged
          /\ Goto("settings")
          /\ UNCHANGED <<cfg, st, host, events>>
       \/ /\ BootChanged
          /\ \/ /\ Succeeds(SetBootOrder(cfg.boot))
                /\ Goto("settings")
                /\ UNCHANGED <<cfg, st>>
             \/ Refused(SetBootOrder(cfg.boot))
             \/ CallFails(SetBootOrder(cfg.boot))

\* set.ps1 reads the VM back: without a power transition the apply is over.
ChangeSettings ==
    /\ step = "settings"
    /\ \/ /\ Changed = {}
          /\ Goto("final")
          /\ UNCHANGED <<cfg, st, host, events>>
       \/ /\ Changed # {}
          /\ \/ /\ Succeeds(SetVM(Changed, cfg.settings))
                /\ IF StateChanged THEN Goto("final") /\ UNCHANGED st
                                   ELSE Store(vm', Creating)
                /\ UNCHANGED cfg
             \/ Refused(SetVM(Changed, cfg.settings))
             \/ CallFails(SetVM(Changed, cfg.settings))

FinalCall == IF StateChanged THEN SetVMState(cfg.desired) ELSE GetVM

\* The power transition comes last, or a read; a created VM may be waited for.
Finish ==
    /\ step = "final"
    /\ \/ /\ Succeeds(FinalCall)
          /\ IF Creating /\ cfg.wait
               THEN /\ st' = ReadModel(vm', cfg.boot, cfg.desired, TRUE)
                    /\ Goto("wait")
               ELSE Store(vm', Creating)
          /\ UNCHANGED cfg
       \/ Refused(FinalCall)
       \/ CallFails(FinalCall)

\* The guest reports an IPv4 address.
GuestAnswers ==
    /\ step = "wait"
    /\ vm # NoVm /\ ~twin
    /\ Store(vm, TRUE)
    /\ UNCHANGED <<cfg, host, events>>

\* The wait ends without one: the last read is recorded, as tainted.
WaitFails ==
    /\ step = "wait"
    /\ Event
    /\ \/ UNCHANGED st
       \/ /\ vm # NoVm /\ ~twin
          /\ st' = ReadModel(vm, cfg.boot, cfg.desired, TRUE)
    /\ End("error")
    /\ UNCHANGED <<cfg, host>>

\* The VM is no longer there to be read.
WaitRefused ==
    /\ step = "wait"
    /\ vm = NoVm \/ twin
    /\ End("error")
    /\ UNCHANGED <<cfg, st, host, events>>

ApplyStep ==
    \/ Refresh \/ RefreshFails \/ Plan
    \/ DeleteVM \/ NewVM
    \/ MoveDevice \/ DevicesMoved \/ OrderBoot \/ ChangeSettings \/ Finish
    \/ GuestAnswers \/ WaitFails \/ WaitRefused

-----------------------------------------------------------------------------
(* What else happens *)

Edit ==
    /\ step = "idle"
    /\ Event
    /\ cfg' \in (Configs \cup {NoConfig}) \ {cfg}
    /\ UNCHANGED <<st, host, apply>>

\* Somebody else works on the VM.
Interfere ==
    /\ step = "idle" \/ (Meddling /\ ~Creating /\ step \in UpdateSteps \cup {"plan"})
    /\ vm # NoVm
    /\ Event
    /\ \/ "delete" \in Outside /\ vm' = NoVm
       \/ "power" \in Outside /\ \E power \in Powers \ {vm.power} : vm' = Powered(vm, power)
       \/ "device" \in Outside /\ \E p \in Places : vm.at[p] # Empty /\ vm' = Detached(vm, p)
    /\ twin' = (twin /\ vm' # NoVm)
    /\ UNCHANGED <<cfg, st, late, apply>>

\* A call that had failed takes effect, or no longer can.
Land ==
    /\ late # NoCall
    /\ \E part \in Parts(late) :
           IF Accepts(part) THEN Happens(part) ELSE UNCHANGED <<vm, twin>>
    /\ late' = NoCall
    /\ UNCHANGED <<cfg, st, apply, events>>

Next == ApplyStep \/ Edit \/ Interfere \/ Land

Spec == Init /\ [][Next]_vars

\* The user applies again until there is nothing to do, and a call ends.
FairSpec == Spec /\ WF_vars(ApplyStep) /\ WF_vars(Land)

-----------------------------------------------------------------------------
(* Properties *)

\* Once it is to be started, the VM has what it is configured with.
StartAsConfigured ==
    step = "final" /\ ~twin /\ vm # NoVm /\ vm.power = "Off" /\ vm' # vm
        => vm.at = cfg.at /\ vm.settings = cfg.settings

\* A VM is started by an apply with all the devices and settings it is
\* configured with, and no others (the power transition is last), even when
\* the call that starts it fails, unless another VM has its name.
StartsConfigured == [][StartAsConfigured]_vars

\* The VM is what the configuration asks for.
InSync ==
    IF cfg = NoConfig
      THEN vm = NoVm
      ELSE /\ vm # NoVm /\ ~twin
           /\ AsPlanned(ReadModel(vm, cfg.boot, cfg.desired, FALSE))
           /\ cfg.desired \in {"unmanaged", vm.power}

\* An apply that nobody disturbs and that succeeds has made the VM what the
\* configuration asks for (Create, Update, Delete).
OkMeansInSync == [][step # "idle" /\ result' = "ok" /\ step' = "idle" => InSync']_vars

\* The places whose devices an update replaces.
Replaced == {p \in Places : st.at[p] \notin {Empty, cfg.at[p]}}

\* The order Update had no reason to set again is read with the entry of a
\* replaced device elsewhere, and all else is as configured.
PlaceLost ==
    /\ ~Creating /\ st.boot = cfg.boot
    /\ st'.at = cfg.at /\ st'.twice = {} /\ st'.settings = cfg.settings
    /\ Entries(cfg.boot) \cap Replaced # {}
    /\ Among(st'.boot, Places \ Replaced) = Among(cfg.boot, Places \ Replaced)

\* An apply that nobody disturbs never returns what Terraform did not plan,
\* but for one case: the host moves the boot entry of a device that Update
\* replaces, and the order, unchanged, is not set again (Update).
NeverInconsistent ==
    [][step # "idle" /\ step' = "idle" /\ result' = "inconsistent" => PlaceLost]_vars

\* A machine on the host that Terraform does not know of, or two of a name.
Orphaned == (Creating /\ vm # NoVm) \/ twin

\* What no apply gets past: a boot order that the state does not have, or
\* settings, of a running VM; a disk where a DVD drive still is; two adapters
\* of a name, which the diff takes for one.
Stuck ==
    /\ cfg # NoConfig /\ vm # NoVm /\ ~Creating
    /\ \/ vm.twice # {}
       \/ vm.power = "Running" /\ BootChanged
       \/ vm.power = "Running" /\ \E s \in Cold : vm.settings[s] # cfg.settings[s]
       \/ \E h \in Hdds, d \in Dvds :
              Slot[h] = Slot[d] /\ cfg.at[h] # Empty /\ vm.at[d] # Empty

\* Applied again and again, the VM becomes what it is configured to be and
\* stays so, after any failures and interference (Read, Update).
Converges == <>[](step = "idle" => InSync \/ Stuck \/ Orphaned)

=============================================================================
