--------------------------- MODULE SwitchResource ---------------------------
(***************************************************************************)
(* hyperv_virtual_switch: internal/resources/vswitch with                  *)
(* internal/hyperv/vswitch.go and internal/scripts/vswitch.                *)
(*                                                                         *)
(* The gateway address of a NAT switch is not modelled by itself: it is on *)
(* the switch's own adapter and comes and goes with the NetNat.            *)
(***************************************************************************)
EXTENDS NetworkHost

CONSTANTS Adapters, NotesOf, Prefixes

Types == {"External", "Internal", "Private", "NAT"}

SwitchSchema ==
    [forces |-> {"type", "nat", "prefix"}, sticky |-> {"adapter", "mgmt", "notes", "desc"},
     sets |-> NoSets]

\* natRequiresNatAttrsValidator and natAttrsRejectedOnNonNatValidator; prefixes
\* are well formed, and hold their gateway.
NatAttributes(c) ==
    /\ c.nat = (c.type = "NAT")
    /\ c.prefix \in (IF c.nat THEN Prefixes ELSE {Null})

\* externalRequiresAdapterNamesValidator, and privateAllowMgmtOSValidator,
\* which the mgmt attribute of an internal switch gets past.
TypeAttributes(c) ==
    /\ c.type = "External" => "adapter" \in DOMAIN c /\ c.adapter \in Adapters
    /\ c.type # "External" => "adapter" \notin DOMAIN c
    /\ "mgmt" \in DOMAIN c => c.type \notin {"Private", "NAT"} /\ c.mgmt \in BOOLEAN

\* forceMigrationRejectedOnNonExternalValidator
ForceAttribute(c) == c.force \in BOOLEAN /\ (c.force => c.type = "External")

WellFormedSwitch(c) ==
    /\ DOMAIN c \ {"adapter", "mgmt", "notes"} = {"type", "nat", "prefix", "force"}
    /\ c.type \in Types /\ NatAttributes(c) /\ TypeAttributes(c) /\ ForceAttribute(c)
    /\ "notes" \in DOMAIN c => c.notes \in NotesOf

ASSUME SwitchAssumption == \A s \in Switches : \A c \in Configs[s] : WellFormedSwitch(c)

-----------------------------------------------------------------------------
(* The scripts *)

HasSwitch(h, s) == h.switch[s] # Null

MutMadeAsPlanned(p) ==
    [type |-> p.type, adapter |-> Of(p, "adapter", Null),
     mgmt |-> Of(p, "mgmt", p.type # "Private"), notes |-> Of(p, "notes", Null)]

\* new.ps1.  An External switch gives the host its adapter back by default.
Made(p) ==
    [type |-> IF p.type = "NAT" THEN "Internal" ELSE p.type,
     adapter |-> Of(p, "adapter", Null),
     mgmt |-> Of(p, "mgmt", p.type # "Private"),
     notes |-> Of(p, "notes", Null)]

\* A NetNat of the name and the prefix is adopted, of another prefix refused.
NewAccepts(h, s, p) ==
    /\ ~HasSwitch(h, s)
    /\ p.nat => h.nat[s] \in {Null, p.prefix}
    /\ "mgmt" \in DOMAIN p => p.type = "External"

NewSwitch(h, s, p) ==
    [h EXCEPT !.switch[s] = Made(p), !.nat[s] = IF p.nat THEN p.prefix ELSE @]

\* The switch comes first; what it is to be rolled back with may fail too.
NewPartly(h, s, p) ==
    IF NewAccepts(h, s, p)
      THEN {h, NewSwitch(h, s, p), [h EXCEPT !.switch[s] = Made(p)]}
      ELSE {h}

\* set.ps1: a NAT's notes only; management of an External switch only.
SetAccepts(h, s, in) ==
    /\ HasSwitch(h, s)
    /\ "mgmt" \in DOMAIN in => h.switch[s].type = "External"

SetSwitch(h, s, in) ==
    [h EXCEPT !.switch[s] = [type |-> @.type, adapter |-> Of(in, "adapter", @.adapter),
                             mgmt |-> Of(in, "mgmt", @.mgmt),
                             notes |-> Of(in, "notes", @.notes)]]

SetPartly(h, s, in) == IF SetAccepts(h, s, in) THEN {h, SetSwitch(h, s, in)} ELSE {h}

\* remove.ps1: nothing is removed while a running VM is on the switch.  The
\* static mappings of a NetNat go with it.
RemoveAccepts(h, s) == HasSwitch(h, s) /\ s \notin h.used

WithoutNat(h, s) ==
    [h EXCEPT !.nat[s] = Null,
              !.map = [m \in Mappings |-> IF NatOf[m] = s THEN Null ELSE @[m]]]

NoSwitch(h, s) == [h EXCEPT !.switch[s] = Null, !.used = @ \ {s}]

RemoveSwitch(h, s, nat) == IF nat THEN NoSwitch(WithoutNat(h, s), s) ELSE NoSwitch(h, s)

RemovePartly(h, s, nat) ==
    IF RemoveAccepts(h, s)
      THEN {h, RemoveSwitch(h, s, nat)} \cup (IF nat THEN {WithoutNat(h, s)} ELSE {})
      ELSE {h}

\* get.ps1 and modelFromVMSwitch.  Asked for a NAT, it calls the switch one;
\* set.ps1 reports the NetNat's name only if there is one.
ReadSwitch(h, s, nat, named, adapter, force) ==
    LET vs == h.switch[s]
    IN [type |-> IF nat THEN "NAT" ELSE vs.type, adapter |-> adapter, desc |-> vs.adapter,
        mgmt |-> vs.mgmt, notes |-> vs.notes, nat |-> named,
        prefix |-> IF nat THEN h.nat[s] ELSE Null, force |-> force]

-----------------------------------------------------------------------------
(* Create *)

NewCall(s) == [do |-> "new", of |-> s, with |-> plan[s]]
SetCall(s, in) == [do |-> "set", of |-> s, with |-> in]
RemoveCall(s) == [do |-> "remove", of |-> s, with |-> st[s].nat]

Created(h, s) ==
    ReadSwitch(h, s, plan[s].nat, plan[s].nat, Of(plan[s], "adapter", Null), plan[s].force)

MutPollsUnderLock(s) ==
    /\ at[s] = "create" /\ Leave(s)
    /\ \/ /\ NewAccepts(host, s, plan[s])
          /\ Ran(NewSwitch(host, s, plan[s]))
          /\ Return(s, Created(host', s))
       \/ /\ ~NewAccepts(host, s, plan[s])
          /\ Ran(host) /\ Fail(s)
    \/ /\ at[s] = "create" /\ <<s, "create">> \in inside /\ UNCHANGED inside
       /\ plan[s].nat
       /\ CallFails(NewCall(s), NewPartly(host, s, plan[s]))
       /\ Goto(s, "createVerify")

\* The lock is given back before the polls take it again.
CreateSwitch(s) ==
    /\ at[s] = "create" /\ Leave(s)
    /\ \/ /\ NewAccepts(host, s, plan[s])
          /\ Ran(NewSwitch(host, s, plan[s]))
          /\ Return(s, Created(host', s))
       \/ /\ ~NewAccepts(host, s, plan[s])
          /\ Ran(host) /\ Fail(s)
       \/ /\ CallFails(NewCall(s), NewPartly(host, s, plan[s]))
          /\ Fail(s) \/ Goto(s, "createVerify")

\* recoverVMSwitchNewOnDrop: a switch of the name is taken for the one made.
VerifyCreate(s) ==
    /\ at[s] = "createVerify" /\ Leave(s)
    /\ \/ HasSwitch(host, s) /\ Ran(host) /\ Return(s, Created(host, s))
       \/ ~HasSwitch(host, s) /\ Ran(host) /\ Fail(s)
       \/ PollFails(s)

-----------------------------------------------------------------------------
(* Read, Update *)

Refresh(s) == ReadSwitch(host, s, st[s].nat, st[s].nat, st[s].adapter, st[s].force)

ReadVMSwitch(s) ==
    /\ at[s] = "read" /\ Leave(s)
    /\ \/ Ran(host) /\ Refreshed(s, IF HasSwitch(host, s) THEN Refresh(s) ELSE NoState)
       \/ ReadFails /\ Fail(s)

\* buildSetInput: the management attribute, known from the state, is left out
\* for private and NAT switches; a NAT takes notes only.
SetInput(s) ==
    LET sent == CASE st[s].type = "NAT" -> {"notes"}
                  [] st[s].type = "Private" -> {"notes"}
                  [] st[s].type = "Internal" -> {"notes", "mgmt"}
                  [] OTHER -> {"notes", "mgmt", "adapter"}
    IN [a \in sent |-> plan[s][a]]

Updated(h, s) ==
    LET nat == st[s].type = "NAT"
    IN ReadSwitch(h, s, nat, nat /\ st[s].nat /\ h.nat[s] # Null, plan[s].adapter, plan[s].force)

UpdateSwitch(s) ==
    /\ at[s] = "update" /\ Leave(s)
    /\ \/ /\ SetAccepts(host, s, SetInput(s))
          /\ Ran(SetSwitch(host, s, SetInput(s)))
          /\ Return(s, Updated(host', s))
       \/ /\ ~SetAccepts(host, s, SetInput(s))
          /\ Ran(host) /\ Fail(s)
       \/ /\ CallFails(SetCall(s, SetInput(s)), SetPartly(host, s, SetInput(s)))
          /\ Fail(s)

-----------------------------------------------------------------------------
(* Delete *)

\* force_management_os_migration, and the other two, as the state has them.
NotForced(s) == st[s].type = "External" /\ st[s].mgmt /\ ~st[s].force

ShareOff == [mgmt |-> FALSE]

\* Delete, and RemoveVMSwitch as far as its GetVMSwitch.
DeleteSwitch(s) ==
    /\ at[s] = "delete" /\ Leave(s)
    /\ \/ NotForced(s) /\ Ran(host) /\ Fail(s)
       \/ /\ ~NotForced(s)
          /\ \/ /\ ~HasSwitch(host, s)
                /\ Ran(host) /\ Deleted(s)
             \/ /\ HasSwitch(host, s)
                /\ Ran(host)
                /\ Goto(s, IF ~st[s].nat /\ host.switch[s].type = "External"
                              /\ host.switch[s].mgmt THEN "prepare" ELSE "remove")
             \/ ReadFails /\ Fail(s)

\* prepareVMSwitchExternalForRemove gives the adapter back to the host first.
PrepareSwitch(s) ==
    /\ at[s] = "prepare" /\ Leave(s)
    /\ \/ /\ SetAccepts(host, s, ShareOff)
          /\ Ran(SetSwitch(host, s, ShareOff))
          /\ Goto(s, "remove")
       \/ /\ ~SetAccepts(host, s, ShareOff)
          /\ Ran(host) /\ Fail(s)
       \/ /\ CallFails(SetCall(s, ShareOff), SetPartly(host, s, ShareOff))
          /\ Fail(s) \/ Goto(s, "prepareVerify")

\* verifyVMSwitchAllowManagementOSDisabled; a switch that is gone is fine.
VerifyPrepare(s) ==
    /\ at[s] = "prepareVerify" /\ Leave(s)
    /\ \/ /\ HasSwitch(host, s) => ~host.switch[s].mgmt
          /\ Ran(host)
          /\ at' = [at EXCEPT ![s] = "remove"]
          /\ tries' = [tries EXCEPT ![s] = 0]
          /\ UNCHANGED <<memory, walk>>
       \/ /\ HasSwitch(host, s) /\ host.switch[s].mgmt
          /\ Ran(host) /\ Fail(s)
       \/ PollFails(s)

\* Delete takes ErrNotFound for success.
RemoveVMSwitch(s) ==
    /\ at[s] = "remove" /\ Leave(s)
    /\ \/ /\ RemoveAccepts(host, s)
          /\ Ran(RemoveSwitch(host, s, st[s].nat))
          /\ Deleted(s)
       \/ /\ ~HasSwitch(host, s)
          /\ Ran(host) /\ Deleted(s)
       \/ /\ HasSwitch(host, s) /\ s \in host.used
          /\ Ran(host) /\ Fail(s)
       \/ /\ CallFails(RemoveCall(s), RemovePartly(host, s, st[s].nat))
          /\ Fail(s) \/ Goto(s, "removeVerify")

MutFoundIsRemoved(s) ==
    /\ at[s] = "removeVerify" /\ Leave(s)
    /\ \/ Ran(host) /\ Deleted(s)
       \/ PollFails(s)

\* recoverVMSwitchRemoveOnDrop
VerifyRemove(s) ==
    /\ at[s] = "removeVerify" /\ Leave(s)
    /\ \/ ~HasSwitch(host, s) /\ Ran(host) /\ Deleted(s)
       \/ HasSwitch(host, s) /\ Ran(host) /\ Fail(s)
       \/ PollFails(s)

\* ImportState knows the name only, so a NAT switch is read as an internal one.
ImportSwitch(s) ==
    /\ HasSwitch(host, s)
    /\ Import(s, ReadSwitch(host, s, FALSE, FALSE, Null, FALSE))
    /\ UNCHANGED inside

SwitchStep(s) ==
    \/ CreateSwitch(s) \/ VerifyCreate(s) \/ ReadVMSwitch(s) \/ UpdateSwitch(s)
    \/ DeleteSwitch(s) \/ PrepareSwitch(s) \/ VerifyPrepare(s)
    \/ RemoveVMSwitch(s) \/ VerifyRemove(s)

SwitchPartly(h, c) ==
    CASE c.do = "new" -> NewPartly(h, c.of, c.with)
      [] c.do = "set" -> SetPartly(h, c.of, c.with)
      [] c.do = "remove" -> RemovePartly(h, c.of, c.with)

=============================================================================
