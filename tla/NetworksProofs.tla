--------------------------- MODULE NetworksProofs ---------------------------
(***************************************************************************)
(* Proofs about Networks, for any resources, workspaces, configurations    *)
(* and failures: the two locks of internal/hyperv keep a script that       *)
(* changes NetNats, mappings or portproxy rules apart from all others;     *)
(* Terraform forgets only what is gone; handlers return what was planned;  *)
(* and an undisturbed apply without failures leaves the host in sync.      *)
(*                                                                         *)
(* The mode in which a call takes its lock depends on the plan and the     *)
(* state of its resource.  So the first argument needs that these stand    *)
(* still while the call runs (Running), although other resources'          *)
(* handlers, edits, imports and what Terraform skips go on.                *)
(*                                                                         *)
(* The others rest on Facts: where each handler is fits what is planned    *)
(* (Course), what is planned fits the configuration (Asked), and while     *)
(* nobody disturbs the host, what was read is still true (AsRead) and what *)
(* is done stays done (Settled).  Effect says what a handler's step may    *)
(* do; HandlersEffect that all of them do so.                              *)
(***************************************************************************)
EXTENDS Networks, TLAPS

\* Each resource has an operation, a step, a plan and a state.
Shape ==
    /\ at \in [Resources -> Steps]
    /\ op \in [Resources -> {"none", "create", "update", "replace", "delete"}]
    /\ st = [r \in Resources |-> st[r]]
    /\ plan = [r \in Resources |-> plan[r]]
    /\ workspace \subseteq Resources

\* A running script is of its resource's current step, which has begun.
Running ==
    \A call \in inside : \E r \in workspace :
        call = <<r, at[r]>> /\ at[r] \notin Ended \cup {"none"} /\ MayBegin(r)

\* Nothing runs between two applies.
Rests == phase = "idle" => \A r \in Resources : at[r] = "none"

Apart ==
    \A r, q \in Resources :
        /\ r # q /\ Mutex(r) = Mutex(q)
        /\ <<r, at[r]>> \in inside /\ <<q, at[q]>> \in inside
        => Compatible(Mode(r, at[r]), Mode(q, at[q]))

Inv == Shape /\ Running /\ Rests /\ Apart

-----------------------------------------------------------------------------
LEMMA InvInit == Init => Inv
  BY TerraformAssumption
     DEF Init, InitTerraform, Inv, Shape, Running, Rests, Apart, Steps, Ended

\* What a handler's step may change of Terraform: its own resource's step and
\* state, and a replacement that has been deleted becomes a creation.
OwnMemory(r) ==
    /\ UNCHANGED <<phase, plan>>
    /\ \E x \in Steps : at' = [at EXCEPT ![r] = x]
    /\ \E s : st' = [st EXCEPT ![r] = s]
    /\ op' = op \/ (op[r] = "replace" /\ op' = [op EXCEPT ![r] = "create"])

OwnStep(r) ==
    /\ <<r, at[r]>> \in inside
    /\ inside' = inside \ {<<r, at[r]>>}
    /\ UNCHANGED workspace
    /\ OwnMemory(r)

\* Every way in which a handler's step ends.
LEMMA EndingsOwn ==
    ASSUME Shape, NEW r \in Resources
    PROVE  /\ \A step \in Steps : Goto(r, step) => OwnMemory(r)
           /\ Fail(r) => OwnMemory(r)
           /\ \A s : Refreshed(r, s) => OwnMemory(r)
           /\ \A s : Return(r, s) => OwnMemory(r)
           /\ Deleted(r) => OwnMemory(r)
           /\ PollFails(r) => OwnMemory(r) /\ UNCHANGED workspace
<1> USE DEF Shape, OwnMemory, Steps, Ended, memory, walk, user
<1>1. st = [st EXCEPT ![r] = st[r]] /\ at = [at EXCEPT ![r] = at[r]] /\ at[r] \in Steps
  OBVIOUS
<1>2. ASSUME NEW step \in Steps, Goto(r, step) PROVE OwnMemory(r)
  BY <1>1, <1>2 DEF Goto
<1>3. Fail(r) => OwnMemory(r)
  BY <1>1 DEF Fail
<1>4. ASSUME NEW s, Refreshed(r, s) PROVE OwnMemory(r)
  BY <1>4 DEF Refreshed
<1>5. ASSUME NEW s, Return(r, s) PROVE OwnMemory(r)
  <2>1. \E x \in {"ok", "inconsistent"} : at' = [at EXCEPT ![r] = x]
    BY <1>5 DEF Return
  <2> QED BY <1>5, <2>1 DEF Return
<1>6. ASSUME Deleted(r) PROVE OwnMemory(r)
  <2>1. CASE op[r] = "replace"
    BY <1>6, <2>1 DEF Deleted
  <2>2. CASE op[r] # "replace"
    <3>1. op' = op
      BY <1>6, <2>2 DEF Deleted
    <3> QED BY <1>6, <2>2, <3>1 DEF Deleted
  <2> QED BY <2>1, <2>2
<1>7. ASSUME PollFails(r) PROVE OwnMemory(r) /\ UNCHANGED workspace
  BY <1>1, <1>3, <1>7 DEF PollFails, ReadFails
<1> QED BY <1>2, <1>3, <1>4, <1>5, <1>6, <1>7

LEMMA HandlersOwn ==
    ASSUME Shape, NEW r \in Resources, Step(r)
    PROVE  OwnStep(r)
<1>1. \A h : Ran(h) => UNCHANGED workspace
  BY DEF Ran, user
<1>2. \A c, partly : CallFails(c, partly) => UNCHANGED workspace
  BY DEF CallFails, user
<1>3. ReadFails => UNCHANGED workspace
  BY DEF ReadFails, user
<1>4. {"createVerify", "prepare", "remove", "prepareVerify", "removeVerify"} \subseteq Steps
  BY DEF Steps
<1> USE <1>1, <1>2, <1>3, <1>4, EndingsOwn DEF OwnStep, Leave
<1>5. CASE r \in Switches /\ SwitchStep(r)
  <2>1. CASE CreateSwitch(r)
    BY <2>1 DEF CreateSwitch
  <2>2. CASE VerifyCreate(r)
    BY <2>2 DEF VerifyCreate
  <2>3. CASE ReadVMSwitch(r)
    BY <2>3 DEF ReadVMSwitch
  <2>4. CASE UpdateSwitch(r)
    BY <2>4 DEF UpdateSwitch
  <2>5. CASE DeleteSwitch(r)
    BY <2>5 DEF DeleteSwitch
  <2>6. CASE PrepareSwitch(r)
    BY <2>6 DEF PrepareSwitch
  <2>7. CASE VerifyPrepare(r)
    <3>1. CASE Ran(host) /\ Fail(r)
      BY <2>7, <3>1 DEF VerifyPrepare
    <3>2. CASE PollFails(r)
      BY <2>7, <3>2 DEF VerifyPrepare
    <3>3. CASE /\ Ran(host)
               /\ at' = [at EXCEPT ![r] = "remove"]
               /\ UNCHANGED <<memory, walk>>
      <4>1. st' = [st EXCEPT ![r] = st[r]] /\ op' = op /\ UNCHANGED <<phase, plan>>
        BY <3>3 DEF memory, walk, Shape
      <4>2. "remove" \in Steps /\ at' = [at EXCEPT ![r] = "remove"]
        BY <3>3
      <4>3. OwnMemory(r)
        BY <4>1, <4>2 DEF OwnMemory
      <4> QED BY <2>7, <3>3, <4>3 DEF VerifyPrepare
    <3> QED BY <2>7, <3>1, <3>2, <3>3 DEF VerifyPrepare
  <2>8. CASE RemoveVMSwitch(r)
    BY <2>8 DEF RemoveVMSwitch
  <2>9. CASE VerifyRemove(r)
    BY <2>9 DEF VerifyRemove
  <2> QED BY <1>5, <2>1, <2>2, <2>3, <2>4, <2>5, <2>6, <2>7, <2>8, <2>9 DEF SwitchStep
<1>6. CASE r \in Mappings /\ MappingStep(r)
  BY <1>6 DEF MappingStep, CreateMapping, ReadNatStaticMapping, UpdateMapping, DeleteMapping
<1>7. CASE r \in Proxies /\ ProxyStep(r)
  BY <1>7 DEF ProxyStep, CreateProxy, ReadPortProxy, UpdateProxy, DeleteProxy
<1> QED BY <1>5, <1>6, <1>7 DEF Step

-----------------------------------------------------------------------------
(* The invariant *)

\* A step of r leaves every other running call as it is.
LEMMA OwnKeepsOthers ==
    ASSUME Inv, NEW r \in workspace, OwnStep(r),
           NEW q \in workspace, q # r, <<q, at[q]>> \in inside
    PROVE  /\ at'[q] = at[q]
           /\ Mode(q, at[q])' = Mode(q, at[q])
           /\ MayBegin(q)'
<1>1. r \in Resources /\ q \in Resources
  BY DEF Inv, Shape
<1>2. PICK x \in Steps : at' = [at EXCEPT ![r] = x]
  BY DEF OwnStep, OwnMemory
<1>3. PICK s : st' = [st EXCEPT ![r] = s]
  BY DEF OwnStep, OwnMemory
<1>4. \A p \in Resources \ {r} : at'[p] = at[p] /\ st'[p] = st[p] /\ op'[p] = op[p]
  <2>1. \A p \in Resources \ {r} : at'[p] = at[p]
    BY <1>2 DEF Inv, Shape
  <2>2. \A p \in Resources \ {r} : st'[p] = st[p]
    BY <1>3 DEF Inv, Shape
  <2>3. \A p \in Resources \ {r} : op'[p] = op[p]
    BY DEF Inv, Shape, OwnStep, OwnMemory
  <2> QED BY <2>1, <2>2, <2>3
<1>5. op'[r] \in {"delete", "replace"} => op[r] = op'[r]
  BY <1>1 DEF Inv, Shape, OwnStep, OwnMemory
<1>6. at[r] \notin Ended \cup {"none"}
  BY DEF Inv, Running, OwnStep
<1>7. MayBegin(q)
  BY DEF Inv, Running
<1>8. plan' = plan /\ workspace' = workspace /\ phase' = phase
  BY DEF OwnStep, OwnMemory
<1>9. Mode(q, at[q])' = Mode(q, at[q])
  BY <1>1, <1>4, <1>8 DEF Mode, NatInput
<1>10. MayBegin(q)'
  <2>1. workspace \subseteq Resources
    BY DEF Inv, Shape
  <2> QED BY <1>1, <1>4, <1>5, <1>6, <1>7, <1>8, <2>1 DEF MayBegin, Ended
<1> QED BY <1>1, <1>4, <1>9, <1>10

LEMMA OwnKeeps ==
    ASSUME Inv, NEW r \in workspace, OwnStep(r)
    PROVE  Inv'
<1>1. r \in Resources /\ workspace \subseteq Resources
  BY DEF Inv, Shape
<1>2. Shape'
  <2>1. PICK x \in Steps : at' = [at EXCEPT ![r] = x]
    BY DEF OwnStep, OwnMemory
  <2>2. PICK s : st' = [st EXCEPT ![r] = s]
    BY DEF OwnStep, OwnMemory
  <2>3. op' \in [Resources -> {"none", "create", "update", "replace", "delete"}]
    BY <1>1 DEF Inv, Shape, OwnStep, OwnMemory
  <2> QED BY <2>1, <2>2, <2>3 DEF Inv, Shape, OwnStep, OwnMemory
<1>3. \A call \in inside' : \E q \in workspace : q # r /\ call = <<q, at[q]>> /\ call \in inside
  BY DEF Inv, Running, OwnStep
<1>4. Running'
  <2> SUFFICES ASSUME NEW call \in inside'
               PROVE  \E q \in workspace' :
                        call = <<q, at'[q]>> /\ at'[q] \notin Ended \cup {"none"} /\ MayBegin(q)'
    BY DEF Running
  <2>1. PICK q \in workspace : q # r /\ call = <<q, at[q]>> /\ call \in inside
    BY <1>3
  <2>2. at'[q] = at[q] /\ MayBegin(q)'
    BY <2>1, OwnKeepsOthers
  <2>3. at[q] \notin Ended \cup {"none"}
    BY <2>1 DEF Inv, Running
  <2> QED BY <2>1, <2>2, <2>3 DEF OwnStep
<1>5. Rests'
  <2>1. phase # "idle"
    BY <1>1 DEF Inv, Rests, Running, OwnStep
  <2> QED BY <2>1 DEF Rests, OwnStep, OwnMemory
<1>6. Apart'
  <2> SUFFICES ASSUME NEW p \in Resources, NEW q \in Resources,
                      p # q, Mutex(p) = Mutex(q),
                      <<p, at'[p]>> \in inside', <<q, at'[q]>> \in inside'
               PROVE  Compatible(Mode(p, at[p])', Mode(q, at[q])')
    BY DEF Apart, Mutex
  <2>1. /\ p \in workspace /\ p # r /\ <<p, at[p]>> \in inside
        /\ q \in workspace /\ q # r /\ <<q, at[q]>> \in inside
    BY <1>3
  <2>2. Mode(p, at[p])' = Mode(p, at[p]) /\ Mode(q, at[q])' = Mode(q, at[q])
    BY <2>1, OwnKeepsOthers
  <2>3. Compatible(Mode(p, at[p]), Mode(q, at[q]))
    BY <2>1 DEF Inv, Apart
  <2> QED BY <2>2, <2>3
<1> QED BY <1>2, <1>4, <1>5, <1>6 DEF Inv

LEMMA EnterKeeps ==
    ASSUME Inv, NEW r \in workspace, Enter(r)
    PROVE  Inv'
<1>1. r \in Resources /\ workspace \subseteq Resources
  BY DEF Inv, Shape
<1>2. UNCHANGED <<workspace, phase, plan, st, op, at>>
  BY DEF Enter, tvars, user, memory, walk
<1>3. inside' = inside \cup {<<r, at[r]>>}
  BY DEF Enter
<1>4. \A p \in Resources : Mode(p, at[p])' = Mode(p, at[p]) /\ MayBegin(p)' = MayBegin(p)
  BY <1>2 DEF Mode, NatInput, MayBegin
<1>5. Shape' /\ Rests'
  BY <1>2 DEF Inv, Shape, Rests
<1>6. Running'
  <2>1. at[r] \notin Ended \cup {"none"} /\ MayBegin(r)
    BY DEF Enter
  <2> QED BY <1>1, <1>2, <1>3, <1>4, <2>1 DEF Inv, Running
<1>7. Apart'
  <2> SUFFICES ASSUME NEW p \in Resources, NEW q \in Resources,
                      p # q, Mutex(p) = Mutex(q),
                      <<p, at[p]>> \in inside', <<q, at[q]>> \in inside'
               PROVE  Compatible(Mode(p, at[p]), Mode(q, at[q]))
    BY <1>2, <1>4 DEF Apart, Mutex
  <2>1. CASE p # r /\ q # r
    BY <1>3, <2>1 DEF Inv, Apart
  <2>2. CASE p = r
    <3>1. <<q, at[q]>> \in inside
      BY <1>3, <2>2
    <3>2. Compatible(Mode(q, at[q]), Mode(r, at[r]))
      BY <2>2, <3>1 DEF Enter
    <3> QED BY <2>2, <3>2 DEF Compatible
  <2>3. CASE q = r
    <3>1. <<p, at[p]>> \in inside
      BY <1>3, <2>3
    <3> QED BY <2>3, <3>1 DEF Enter
  <2> QED BY <2>1, <2>2, <2>3
<1> QED BY <1>5, <1>6, <1>7 DEF Inv

\* Terraform begins, plans and ends only while nothing runs.
LEMMA EmptyKeeps ==
    ASSUME inside' = {}, Shape', Rests'
    PROVE  Inv'
  BY DEF Inv, Running, Apart

LEMMA QuietKeeps ==
    ASSUME Inv, Quiet, UNCHANGED inside, \A r \in workspace : at[r] \in Ended
    PROVE  Inv'
<1>1. inside' = {}
  BY DEF Inv, Running
<1>2. Shape' /\ Rests'
  BY DEF Quiet, Inv, Shape, Rests, user, memory, Steps, Ended
<1> QED BY <1>1, <1>2, EmptyKeeps

LEMMA WalkKeeps ==
    ASSUME Inv, Walk
    PROVE  Inv'
<1>1. CASE Start /\ UNCHANGED inside
  <2>1. inside = {}
    BY <1>1 DEF Start, Inv, Rests, Running, Shape
  <2>2. Shape' /\ Rests'
    BY <1>1 DEF Start, Inv, Shape, Rests, user, memory, Steps, Ended
  <2> QED BY <1>1, <2>1, <2>2, EmptyKeeps
<1>2. CASE PlanAll([r \in Resources |-> Schema(r)], TRUE) /\ UNCHANGED inside
  <2> DEFINE all == [r \in Resources |-> Schema(r)]
  <2>1. CASE Quiet
    BY <1>2, <2>1, QuietKeeps DEF PlanAll
  <2>2. CASE ~Quiet
    <3>1. inside = {}
      BY <1>2 DEF PlanAll, Inv, Running
    <3>2. /\ phase' = "apply"
          /\ op' = [r \in Resources |->
                        IF r \in workspace THEN Operation(r, all[r]) ELSE "none"]
          /\ plan' = [r \in Resources |->
                          IF r \in workspace THEN Planned(r, all[r]) ELSE NoPlan]
          /\ at' = [r \in Resources |-> Handler(op'[r])]
          /\ UNCHANGED <<workspace, st>>
      BY <1>2, <2>2 DEF PlanAll, user, memory
    <3>3. \A r \in Resources : \A schema :
              Operation(r, schema) \in {"none", "create", "update", "replace", "delete"}
      BY DEF Operation
    <3>4. op' \in [Resources -> {"none", "create", "update", "replace", "delete"}]
      <4> HIDE DEF all
      <4> QED BY <3>2, <3>3
    <3>5. at' \in [Resources -> Steps]
      BY <3>2, <3>4 DEF Handler, Steps, Ended
    <3>6. plan' = [r \in Resources |-> plan'[r]]
      <4> HIDE DEF all
      <4> QED BY <3>2
    <3>7. Shape' /\ Rests'
      BY <3>2, <3>4, <3>5, <3>6 DEF Inv, Shape, Rests
    <3> QED BY <1>2, <3>1, <3>7, EmptyKeeps
  <2> QED BY <2>1, <2>2
<1>3. ASSUME NEW r \in workspace, Skip(r), UNCHANGED inside PROVE Inv'
  <2>1. r \in Resources /\ workspace \subseteq Resources
    BY DEF Inv, Shape
  <2>2. \A c \in inside : c # <<r, at[r]>>
    BY <1>3 DEF Skip, Inv, Running, MayBegin
  <2>3. at' = [at EXCEPT ![r] = "error"] /\ UNCHANGED <<workspace, phase, plan, st, op>>
    BY <1>3 DEF Skip, user, memory, walk
  <2>4. at[r] \in {"delete", "create", "update"}
    BY <1>3 DEF Skip
  <2>5. \A q \in Resources \ {r} : at'[q] = at[q]
    BY <2>3 DEF Inv, Shape
  <2>6. \A q \in Resources : Mode(q, at[q])' = Mode(q, at'[q])
    BY <2>3 DEF Mode, NatInput
  <2>7. \A q \in Resources \ {r} : MayBegin(q) => MayBegin(q)'
    BY <2>1, <2>3, <2>4, <2>5 DEF MayBegin
  <2>8. Shape' /\ Rests'
    BY <1>3, <2>3 DEF Skip, Inv, Shape, Rests, Steps, Ended
  <2>9. \A c \in inside : \E q \in workspace \ {r} :
            c = <<q, at[q]>> /\ at[q] \notin Ended \cup {"none"} /\ MayBegin(q)
    BY <2>2 DEF Inv, Running
  <2>10. Running'
    BY <1>3, <2>1, <2>3, <2>5, <2>7, <2>9 DEF Running
  <2>11. Apart'
    <3> SUFFICES ASSUME NEW p \in Resources, NEW q \in Resources,
                        p # q, Mutex(p) = Mutex(q),
                        <<p, at'[p]>> \in inside, <<q, at'[q]>> \in inside
                 PROVE  Compatible(Mode(p, at'[p]), Mode(q, at'[q]))
      BY <1>3, <2>6 DEF Apart, Mutex
    <3>1. p # r /\ q # r
      BY <2>9
    <3> QED BY <2>5, <3>1 DEF Inv, Apart
  <2> QED BY <2>8, <2>10, <2>11 DEF Inv
<1>4. CASE Finish /\ UNCHANGED inside
  BY <1>4, QuietKeeps DEF Finish
<1> QED BY <1>1, <1>2, <1>3, <1>4 DEF Walk

LEMMA OthersKeep ==
    ASSUME Inv, Others \/ UNCHANGED nvars
    PROVE  Inv'
<1>1. UNCHANGED <<workspace, st, op, plan, phase, at, inside>>
  BY DEF Others, Edit, Interfere, Land, nvars, tvars, user, memory, walk
<1>2. Shape' /\ Rests' /\ Running'
  BY <1>1 DEF Inv, Shape, Rests, Running, MayBegin
<1>3. Apart'
  BY <1>1 DEF Inv, Apart, Mutex, Mode, NatInput
<1> QED BY <1>2, <1>3 DEF Inv

LEMMA ImportsKeep ==
    ASSUME Inv, Imports
    PROVE  Inv'
<1>1. PICK r \in workspace : \E s : Import(r, s) /\ UNCHANGED inside
  BY DEF Imports, ImportSwitch, ImportMapping, ImportProxy
<1>2. inside' = {}
  BY <1>1 DEF Import, Inv, Rests, Running, Shape
<1>3. Shape' /\ Rests'
  BY <1>1 DEF Import, Inv, Shape, Rests, user, walk
<1> QED BY <1>2, <1>3, EmptyKeeps

LEMMA InvStep == Inv /\ [Next]_nvars => Inv'
<1> SUFFICES ASSUME Inv, [Next]_nvars PROVE Inv'
  OBVIOUS
<1>1. ASSUME NEW r \in workspace, Step(r) PROVE Inv'
  BY <1>1, HandlersOwn, OwnKeeps DEF Inv, Shape
<1> QED BY <1>1, EnterKeeps, WalkKeeps, OthersKeep, ImportsKeep DEF Next, ApplyStep

-----------------------------------------------------------------------------
\* A call that changes something takes its lock for writing, one that touches
\* it takes the lock.
LEMMA LocksTaken ==
    ASSUME NEW call \in inside, call = <<call[1], call[2]>>
    PROVE  /\ Changes(call) => Mode(call[1], call[2]) = "write"
           /\ Touches(call) => Mode(call[1], call[2]) \in {"read", "write"}
  BY DEF Changes, Touches, Mode

LEMMA ApartChangesAlone == Inv => ChangesAlone
<1> SUFFICES ASSUME Inv, NEW c \in inside, NEW d \in inside,
                    Changes(c), Touches(d), c # d, Mutex(c[1]) = Mutex(d[1])
             PROVE  FALSE
  BY DEF ChangesAlone
<1>1. PICK p \in Resources : c = <<p, at[p]>>
  BY DEF Inv, Shape, Running
<1>2. PICK q \in Resources : d = <<q, at[q]>>
  BY DEF Inv, Shape, Running
<1>3. Mode(p, at[p]) = "write" /\ Mode(q, at[q]) \in {"read", "write"}
  BY <1>1, <1>2, LocksTaken
<1>4. Compatible(Mode(p, at[p]), Mode(q, at[q]))
  BY <1>1, <1>2 DEF Inv, Apart
<1> QED BY <1>3, <1>4 DEF Compatible

\* A script that changes NetNats or static mappings runs while no other does
\* that changes or reads them, and likewise for portproxy rules, for any
\* resources, dependencies and configurations, and whatever fails.
THEOREM LocksExclude == Spec => []ChangesAlone
  BY InvInit, InvStep, ApartChangesAlone, PTL DEF Spec

-----------------------------------------------------------------------------
(* The second invariant *)

\* What belongs to q is the same on both hosts.
SamePart(q, h, g) ==
    /\ q \in Switches => g.switch[q] = h.switch[q] /\ g.nat[q] = h.nat[q]
    /\ q \in Mappings => g.map[q] = h.map[q]
    /\ q \in Proxies => g.proxy[q] = h.proxy[q]
    /\ q \notin Switches => g.rules[q] = h.rules[q]

Only(r, h, g) == g \in Hosts /\ \A q \in Resources \ {r} : SamePart(q, h, g)

SwitchPlan(p) == Made(p) \in SwitchType /\ (p.nat => p.prefix \in Prefixes)

SwitchInput(in) ==
    /\ Of(in, "adapter", Null) \in Adapters \cup {Null}
    /\ Of(in, "mgmt", TRUE) \in BOOLEAN
    /\ Of(in, "notes", Null) \in NotesOf \cup {Null}

MappingPlan(p) == p.to \in Endpoints /\ Resolve(p) \in FirewallRules
ProxyPlan(p) == p.to \in Targets /\ Resolve(p) \in FirewallRules

\* A call that a handler may make.
CallFits(c) ==
    \/ /\ c.of \in Switches
       /\ \/ c.do = "new" /\ SwitchPlan(c.with)
          \/ c.do = "set" /\ SwitchInput(c.with)
          \/ c.do = "remove"
    \/ /\ c.of \in Mappings
       /\ (c.do \in {"new", "set"} /\ MappingPlan(c.with)) \/ c.do = "remove"
    \/ /\ c.of \in Proxies
       /\ (c.do \in {"new", "set"} /\ ProxyPlan(c.with)) \/ c.do = "remove"

Removing == {"delete", "prepare", "prepareVerify", "remove", "removeVerify"}

\* Where a handler is fits what Terraform is doing with its resource.
Course(r) ==
    /\ at[r] = "none" <=> phase = "idle"
    /\ op[r] # "none" => phase = "apply" /\ r \in workspace
    /\ phase = "refresh" => at[r] \in {"read", "ok", "error"}
    /\ at[r] = "read" => phase = "refresh" /\ st[r] # NoState
    /\ at[r] \in {"create", "createVerify"} => op[r] = "create"
    /\ at[r] = "update" => op[r] = "update"
    /\ at[r] \in Removing => op[r] \in {"delete", "replace"}
    /\ op[r] = "replace" => at[r] \in Removing \cup {"error"}

\* What is done is what the configuration asks for, and changes nothing that
\* only a replacement may change.
Asked(r) ==
    /\ op[r] \in {"create", "replace", "update"} => cfg[r] # NoConfig
    /\ op[r] \in {"create", "replace"} => plan[r] = Proposed(cfg[r], NoState, Schema(r))
    /\ op[r] = "delete" => cfg[r] = NoConfig
    /\ at[r] = "update" =>
           /\ st[r] # NoState /\ plan[r] = Proposed(cfg[r], st[r], Schema(r))
           /\ \A a \in Schema(r).forces \cap DOMAIN plan[r] : plan[r][a] = st[r][a]

\* Terraform's state is what Read would find.
Current(r) ==
    CASE r \in Switches -> HasSwitch(host, r) /\ st[r] = Refresh(r)
      [] r \in Mappings -> HasMapping(host, r) /\ st[r] \in ReadMapping(host, r)
      [] r \in Proxies -> HasProxy(host, r) /\ st[r] \in ReadProxy(host, r)

\* Nobody has touched what was read, and what a switch is updated from.
AsRead(r) ==
    /\ ~disturbed /\ st[r] # NoState
    /\ (phase = "refresh" /\ at[r] = "ok") \/ (r \in Switches /\ at[r] = "update")
    => Current(r)

\* A mapping whose NetNat has been, or is being, removed.
Lost(r) == r \in Mappings /\ op[NatOf[r]] \in {"create", "delete", "replace"}

\* What is done stays done.
Settled(r) ==
    phase = "apply" /\ ~disturbed /\ at[r] = "ok" => InSync(r) \/ Lost(r) \/ Unknown(r)

Facts ==
    /\ TypeOK /\ Shape
    /\ late # NoCall => CallFits(late)
    /\ \A r \in Resources : Course(r) /\ Asked(r)
    /\ \A r \in workspace : AsRead(r) /\ Settled(r)

-----------------------------------------------------------------------------
(* What the scripts do to a host *)

\* Which resources there are.
LEMMA Kinds ==
    /\ Switches \subseteq Resources /\ Mappings \subseteq Resources /\ Proxies \subseteq Resources
    /\ Resources = Switches \cup Mappings \cup Proxies
    /\ \A s \in Switches : s \notin Mappings /\ s \notin Proxies
    /\ \A m \in Mappings : m \notin Switches /\ m \notin Proxies
    /\ \A p \in Proxies : p \notin Switches /\ p \notin Mappings
    /\ \A m \in Mappings : NatOf[m] \in Switches
  BY NetworkAssumption

\* The hosts that differ in one resource's part.
WithSwitch(h, s, v, n) == [h EXCEPT !.switch[s] = v, !.nat[s] = n]
WithProxy(h, p, v) == [h EXCEPT !.proxy[p] = v]
WithRules(h, r, rules) == [h EXCEPT !.rules[r] = rules]

LEMMA PutSwitch ==
    ASSUME NEW h \in Hosts, NEW s \in Switches, NEW v \in SwitchType \cup {Null},
           NEW n \in Prefixes \cup {Null}
    PROVE  /\ Only(s, h, WithSwitch(h, s, v, n))
           /\ WithSwitch(h, s, v, n).switch[s] = v /\ WithSwitch(h, s, v, n).nat[s] = n
  BY Kinds DEF Only, SamePart, Hosts, WithSwitch

LEMMA PutSwitchOnly ==
    ASSUME NEW h \in Hosts, NEW s \in Switches, NEW v \in SwitchType \cup {Null}
    PROVE  Only(s, h, [h EXCEPT !.switch[s] = v])
  BY Kinds DEF Only, SamePart, Hosts

LEMMA PutMap ==
    ASSUME NEW h \in Hosts, NEW m \in Mappings, NEW to \in Endpoints \cup {Null}
    PROVE  /\ Only(m, h, Mapped(h, m, to))
           /\ Mapped(h, m, to).map[m] = to /\ Mapped(h, m, to).rules = h.rules
  BY Kinds DEF Only, SamePart, Hosts, Mapped

LEMMA PutProxy ==
    ASSUME NEW h \in Hosts, NEW p \in Proxies, NEW v \in ProxyType \cup {Null}
    PROVE  /\ Only(p, h, WithProxy(h, p, v))
           /\ WithProxy(h, p, v).proxy[p] = v /\ WithProxy(h, p, v).rules = h.rules
  BY Kinds DEF Only, SamePart, Hosts, WithProxy

LEMMA PutRules ==
    ASSUME NEW h \in Hosts, NEW r \in Mappings \cup Proxies, NEW rules \in SUBSET FirewallRules
    PROVE  /\ Only(r, h, WithRules(h, r, rules)) /\ WithRules(h, r, rules).rules[r] = rules
           /\ WithRules(h, r, rules).map = h.map /\ WithRules(h, r, rules).proxy = h.proxy
  BY Kinds DEF Only, SamePart, Hosts, WithRules

\* Changes of the same resource's part add up.
LEMMA OnlyAgain ==
    ASSUME NEW r, NEW h, NEW g, NEW k, Only(r, h, g), Only(r, g, k)
    PROVE  Only(r, h, k)
  BY DEF Only, SamePart

LEMMA OnlySelf == \A r : \A h \in Hosts : Only(r, h, h)
  BY DEF Only, SamePart

-----------------------------------------------------------------------------
(* The switch scripts *)

LEMMA NewSwitchOnly ==
    ASSUME NEW h \in Hosts, NEW s \in Switches, NEW p, SwitchPlan(p)
    PROVE  LET g == NewSwitch(h, s, p)
           IN /\ Only(s, h, g)
              /\ g.switch[s] = Made(p) /\ g.nat[s] = IF p.nat THEN p.prefix ELSE h.nat[s]
<1> DEFINE n == IF p.nat THEN p.prefix ELSE h.nat[s]
<1>1. Made(p) \in SwitchType \cup {Null} /\ n \in Prefixes \cup {Null}
  BY DEF SwitchPlan, Hosts
<1>2. NewSwitch(h, s, p) = WithSwitch(h, s, Made(p), n)
  BY DEF NewSwitch, WithSwitch, Hosts
<1> HIDE DEF n
<1>3. Only(s, h, NewSwitch(h, s, p)) /\ NewSwitch(h, s, p).switch[s] = Made(p)
      /\ NewSwitch(h, s, p).nat[s] = n
  BY <1>1, <1>2, PutSwitch
<1> QED BY <1>3 DEF n

LEMMA NewPartlyOnly ==
    ASSUME NEW h \in Hosts, NEW s \in Switches, NEW p, SwitchPlan(p), NEW g \in NewPartly(h, s, p)
    PROVE  Only(s, h, g)
<1>1. Made(p) \in SwitchType \cup {Null} /\ h.nat[s] \in Prefixes \cup {Null}
  BY DEF SwitchPlan, Hosts
<1>2. Only(s, h, [h EXCEPT !.switch[s] = Made(p)])
  BY <1>1, PutSwitchOnly
<1> QED BY <1>2, OnlySelf, NewSwitchOnly DEF NewPartly

LEMMA SetSwitchOnly ==
    ASSUME NEW h \in Hosts, NEW s \in Switches, HasSwitch(h, s), NEW in, SwitchInput(in)
    PROVE  LET g == SetSwitch(h, s, in)
           IN /\ Only(s, h, g)
              /\ g.switch[s] = [type |-> h.switch[s].type,
                                adapter |-> Of(in, "adapter", h.switch[s].adapter),
                                mgmt |-> Of(in, "mgmt", h.switch[s].mgmt),
                                notes |-> Of(in, "notes", h.switch[s].notes)]
              /\ g.switch[s] \in SwitchType /\ g.nat[s] = h.nat[s]
<1> DEFINE vs == h.switch[s]
           v == [type |-> vs.type, adapter |-> Of(in, "adapter", vs.adapter),
                 mgmt |-> Of(in, "mgmt", vs.mgmt), notes |-> Of(in, "notes", vs.notes)]
<1>1. vs \in SwitchType
  BY DEF Hosts, HasSwitch
<1>2. v \in SwitchType
  BY <1>1 DEF SwitchType, SwitchInput, Of
<1>3. SetSwitch(h, s, in) = WithSwitch(h, s, v, h.nat[s]) /\ h.nat[s] \in Prefixes \cup {Null}
  BY DEF SetSwitch, WithSwitch, Hosts
<1> HIDE DEF v
<1>4. /\ Only(s, h, SetSwitch(h, s, in)) /\ SetSwitch(h, s, in).switch[s] = v
      /\ SetSwitch(h, s, in).nat[s] = h.nat[s]
  BY <1>2, <1>3, PutSwitch
<1> QED BY <1>2, <1>4 DEF v

LEMMA SetPartlyOnly ==
    ASSUME NEW h \in Hosts, NEW s \in Switches, NEW in, SwitchInput(in), NEW g \in SetPartly(h, s, in)
    PROVE  Only(s, h, g)
  BY OnlySelf, SetSwitchOnly DEF SetPartly, SetAccepts

\* A switch's removal may take the mappings of its NetNat along.
Spares(s, h, g) ==
    /\ g \in Hosts
    /\ \A q \in Resources \ {s} : SamePart(q, h, g) \/ (q \in Mappings /\ NatOf[q] = s)

LEMMA WithoutNatSpares ==
    ASSUME NEW h \in Hosts, NEW s \in Switches
    PROVE  /\ Spares(s, h, WithoutNat(h, s))
           /\ WithoutNat(h, s).nat[s] = Null /\ WithoutNat(h, s).switch = h.switch
  BY Kinds DEF Spares, SamePart, WithoutNat, Hosts

LEMMA NoSwitchOnly ==
    ASSUME NEW h \in Hosts, NEW s \in Switches
    PROVE  Only(s, h, NoSwitch(h, s)) /\ NoSwitch(h, s).switch[s] = Null
           /\ NoSwitch(h, s).nat = h.nat
  BY Kinds DEF Only, SamePart, NoSwitch, Hosts

LEMMA RemoveSwitchSpares ==
    ASSUME NEW h \in Hosts, NEW s \in Switches, NEW nat
    PROVE  LET g == RemoveSwitch(h, s, nat)
           IN Spares(s, h, g) /\ g.switch[s] = Null /\ (nat => g.nat[s] = Null)
<1>1. Spares(s, h, NoSwitch(h, s))
  BY NoSwitchOnly DEF Only, Spares
<1>2. WithoutNat(h, s) \in Hosts
  BY WithoutNatSpares DEF Spares
<1>3. Spares(s, h, NoSwitch(WithoutNat(h, s), s))
  <2> DEFINE k == WithoutNat(h, s)
  <2>1. Spares(s, h, k) /\ Only(s, k, NoSwitch(k, s))
    BY <1>2, WithoutNatSpares, NoSwitchOnly
  <2> HIDE DEF k
  <2>2. ASSUME NEW q \in Resources \ {s}
        PROVE  SamePart(q, h, NoSwitch(k, s)) \/ (q \in Mappings /\ NatOf[q] = s)
    <3>1. SamePart(q, h, k) \/ (q \in Mappings /\ NatOf[q] = s)
      BY <2>1 DEF Spares
    <3>2. SamePart(q, k, NoSwitch(k, s))
      BY <2>1 DEF Only
    <3> QED BY <3>1, <3>2 DEF SamePart
  <2> QED BY <2>1, <2>2 DEF Only, Spares, k
<1> QED BY <1>1, <1>2, <1>3, WithoutNatSpares, NoSwitchOnly DEF RemoveSwitch

LEMMA RemovePartlySpares ==
    ASSUME NEW h \in Hosts, NEW s \in Switches, NEW nat, NEW g \in RemovePartly(h, s, nat)
    PROVE  Spares(s, h, g)
<1>1. Spares(s, h, h)
  BY DEF Spares, SamePart
<1>2. g = h \/ g = RemoveSwitch(h, s, nat) \/ g = WithoutNat(h, s)
  BY DEF RemovePartly
<1> QED BY <1>1, <1>2, RemoveSwitchSpares, WithoutNatSpares

-----------------------------------------------------------------------------
(* The scripts of mappings and portproxies *)

LEMMA RuleOnly ==
    ASSUME NEW h \in Hosts, NEW r \in Mappings \cup Proxies, NEW fw \in FirewallRules
    PROVE  /\ Only(r, h, WithRule(h, r, fw))
           /\ WithRule(h, r, fw).map = h.map /\ WithRule(h, r, fw).proxy = h.proxy
           /\ WithRule(h, r, fw).rules[r] = IF fw.on THEN h.rules[r] \cup {fw} ELSE h.rules[r]
<1>1. CASE fw.on
  <2>1. WithRule(h, r, fw) = WithRules(h, r, h.rules[r] \cup {fw})
    BY <1>1 DEF WithRule, WithRules, Hosts
  <2>2. h.rules[r] \cup {fw} \in SUBSET FirewallRules
    BY DEF Hosts
  <2> QED BY <1>1, <2>1, <2>2, PutRules
<1>2. CASE ~fw.on
  BY <1>2, OnlySelf DEF WithRule
<1> QED BY <1>1, <1>2

LEMMA SyncedOnly ==
    ASSUME NEW h \in Hosts, NEW r \in Mappings \cup Proxies, NEW fw \in FirewallRules
    PROVE  /\ Only(r, h, Synced(h, r, fw))
           /\ Synced(h, r, fw).map = h.map /\ Synced(h, r, fw).proxy = h.proxy
           /\ h.rules[r] # {} => Synced(h, r, fw).rules[r] = {fw}
           /\ fw.on => Synced(h, r, fw).rules[r] = {fw}
           /\ h.rules[r] = {} /\ ~fw.on => Synced(h, r, fw).rules[r] = {}
<1>1. CASE h.rules[r] # {} \/ fw.on
  <2>1. Synced(h, r, fw) = WithRules(h, r, {fw}) /\ {fw} \in SUBSET FirewallRules
    BY <1>1 DEF Synced, WithRules
  <2> QED BY <1>1, <2>1, PutRules
<1>2. CASE ~(h.rules[r] # {} \/ fw.on)
  BY <1>2, OnlySelf DEF Synced
<1> QED BY <1>1, <1>2

LEMMA GoneOnly ==
    ASSUME NEW h \in Hosts, NEW r \in Mappings \cup Proxies
    PROVE  /\ Only(r, h, WithoutRules(h, r)) /\ WithoutRules(h, r).rules[r] = {}
           /\ WithoutRules(h, r).map = h.map /\ WithoutRules(h, r).proxy = h.proxy
<1>1. WithoutRules(h, r) = WithRules(h, r, {}) /\ {} \in SUBSET FirewallRules
  BY DEF WithoutRules, WithRules
<1> QED BY <1>1, PutRules

LEMMA NewMappingOnly ==
    ASSUME NEW h \in Hosts, NEW m \in Mappings, NEW p, MappingPlan(p)
    PROVE  LET g == NewMapping(h, m, p)
           IN /\ Only(m, h, g) /\ g.map[m] = p.to
              /\ g.rules[m] = IF Resolve(p).on THEN h.rules[m] \cup {Resolve(p)} ELSE h.rules[m]
<1> DEFINE k == Mapped(h, m, p.to)
<1>1. Only(m, h, k) /\ k \in Hosts /\ k.map[m] = p.to /\ k.rules = h.rules
  BY PutMap DEF MappingPlan, Only
<1> HIDE DEF k
<1>2. NewMapping(h, m, p) = WithRule(k, m, Resolve(p)) /\ Resolve(p) \in FirewallRules
  BY DEF NewMapping, MappingPlan, k
<1>3. Only(m, k, NewMapping(h, m, p))
  BY <1>1, <1>2, RuleOnly
<1>4. Only(m, h, NewMapping(h, m, p))
  BY <1>1, <1>3, OnlyAgain
<1> QED BY <1>1, <1>2, <1>4, RuleOnly

LEMMA SetMappingOnly ==
    ASSUME NEW h \in Hosts, NEW m \in Mappings, NEW p, MappingPlan(p)
    PROVE  LET g == SetMapping(h, m, p)
           IN /\ Only(m, h, g) /\ g.map[m] = p.to
              /\ h.rules[m] # {} \/ Resolve(p).on => g.rules[m] = {Resolve(p)}
              /\ h.rules[m] = {} /\ ~Resolve(p).on => g.rules[m] = {}
<1> DEFINE k == Mapped(h, m, p.to)
<1>1. Only(m, h, k) /\ k \in Hosts /\ k.map[m] = p.to /\ k.rules = h.rules
  BY PutMap DEF MappingPlan, Only
<1> HIDE DEF k
<1>2. /\ SetMapping(h, m, p) = Synced(k, m, Resolve(p)) /\ Resolve(p) \in FirewallRules
      /\ m \in Mappings \cup Proxies
  BY DEF SetMapping, MappingPlan, k
<1>3. Only(m, k, SetMapping(h, m, p))
  BY <1>1, <1>2, SyncedOnly
<1>4. Only(m, h, SetMapping(h, m, p))
  BY <1>1, <1>3, OnlyAgain
<1> QED BY <1>1, <1>2, <1>4, SyncedOnly

LEMMA RemoveMappingOnly ==
    ASSUME NEW h \in Hosts, NEW m \in Mappings
    PROVE  LET g == RemoveMapping(h, m)
           IN Only(m, h, g) /\ g.map[m] = Null /\ g.rules[m] = {}
<1> DEFINE k == Mapped(h, m, Null)
<1>1. Only(m, h, k) /\ k \in Hosts /\ k.map[m] = Null
  BY PutMap DEF Only
<1> HIDE DEF k
<1>2. Only(m, k, WithoutRules(k, m)) /\ WithoutRules(k, m).rules[m] = {}
      /\ WithoutRules(k, m).map = k.map
  BY <1>1, GoneOnly
<1>3. RemoveMapping(h, m) = WithoutRules(k, m)
  BY DEF RemoveMapping, k
<1> QED BY <1>1, <1>2, <1>3, OnlyAgain

LEMMA MappingPartlyOnly ==
    ASSUME NEW h \in Hosts, NEW m \in Mappings, NEW p
    PROVE  /\ \A g \in RemoveMappingPartly(h, m) : Only(m, h, g)
           /\ MappingPlan(p) => \A g \in NewMappingPartly(h, m, p) \cup SetMappingPartly(h, m, p) :
                                    Only(m, h, g)
<1>1. \A to \in Endpoints \cup {Null} : Only(m, h, Mapped(h, m, to))
  BY PutMap
<1>2. Only(m, h, h) /\ Only(m, h, RemoveMapping(h, m))
  BY OnlySelf, RemoveMappingOnly
<1>3. \A g \in RemoveMappingPartly(h, m) : Only(m, h, g)
  BY <1>1, <1>2 DEF RemoveMappingPartly
<1>4. ASSUME MappingPlan(p), NEW g \in NewMappingPartly(h, m, p) \cup SetMappingPartly(h, m, p)
      PROVE  Only(m, h, g)
  <2>1. Only(m, h, NewMapping(h, m, p)) /\ Only(m, h, SetMapping(h, m, p))
    BY <1>4, NewMappingOnly, SetMappingOnly
  <2>2. Only(m, h, Mapped(h, m, p.to)) /\ Only(m, h, Mapped(h, m, Null))
    BY <1>1, <1>4 DEF MappingPlan
  <2> QED BY <1>2, <1>4, <2>1, <2>2 DEF NewMappingPartly, SetMappingPartly
<1> QED BY <1>3, <1>4

LEMMA ForwardingOnly ==
    ASSUME NEW h \in Hosts, NEW p \in Proxies, NEW to \in Targets, NEW listening \in BOOLEAN
    PROVE  LET g == Forwarding(h, p, to, listening)
           IN /\ Only(p, h, g) /\ g.proxy[p] = [to |-> to, listening |-> listening]
              /\ g.rules = h.rules
<1>1. Forwarding(h, p, to, listening) = WithProxy(h, p, [to |-> to, listening |-> listening])
  BY DEF Forwarding, WithProxy
<1>2. [to |-> to, listening |-> listening] \in ProxyType \cup {Null}
  BY DEF ProxyType
<1> QED BY <1>1, <1>2, PutProxy

LEMMA NewProxyOnly ==
    ASSUME NEW h \in Hosts, NEW p \in Proxies, NEW in, ProxyPlan(in)
    PROVE  LET g == NewProxy(h, p, in)
           IN /\ Only(p, h, g) /\ g.proxy[p] = [to |-> in.to, listening |-> TRUE]
              /\ g.rules[p] = IF Resolve(in).on THEN h.rules[p] \cup {Resolve(in)} ELSE h.rules[p]
<1> DEFINE k == Forwarding(h, p, in.to, TRUE)
<1>1. Only(p, h, k) /\ k \in Hosts /\ k.rules = h.rules /\ k.proxy[p] = [to |-> in.to, listening |-> TRUE]
  BY ForwardingOnly DEF ProxyPlan, Only
<1> HIDE DEF k
<1>2. NewProxy(h, p, in) = WithRule(k, p, Resolve(in)) /\ Resolve(in) \in FirewallRules
  BY DEF NewProxy, ProxyPlan, k
<1>3. Only(p, k, NewProxy(h, p, in))
  BY <1>1, <1>2, RuleOnly
<1>4. Only(p, h, NewProxy(h, p, in))
  BY <1>1, <1>3, OnlyAgain
<1> QED BY <1>1, <1>2, <1>4, RuleOnly

LEMMA SetProxyOnly ==
    ASSUME NEW h \in Hosts, NEW p \in Proxies, NEW in, ProxyPlan(in)
    PROVE  LET g == SetProxy(h, p, in)
           IN /\ Only(p, h, g) /\ g.proxy[p] = [to |-> in.to, listening |-> TRUE]
              /\ h.rules[p] # {} \/ Resolve(in).on => g.rules[p] = {Resolve(in)}
              /\ h.rules[p] = {} /\ ~Resolve(in).on => g.rules[p] = {}
<1> DEFINE k == Forwarding(h, p, in.to, TRUE)
<1>1. Only(p, h, k) /\ k \in Hosts /\ k.rules = h.rules /\ k.proxy[p] = [to |-> in.to, listening |-> TRUE]
  BY ForwardingOnly DEF ProxyPlan, Only
<1> HIDE DEF k
<1>2. /\ SetProxy(h, p, in) = Synced(k, p, Resolve(in)) /\ Resolve(in) \in FirewallRules
      /\ p \in Mappings \cup Proxies
  BY DEF SetProxy, ProxyPlan, k
<1>3. Only(p, k, SetProxy(h, p, in))
  BY <1>1, <1>2, SyncedOnly
<1>4. Only(p, h, SetProxy(h, p, in))
  BY <1>1, <1>3, OnlyAgain
<1> QED BY <1>1, <1>2, <1>4, SyncedOnly

LEMMA RemoveProxyOnly ==
    ASSUME NEW h \in Hosts, NEW p \in Proxies
    PROVE  /\ Only(p, h, Unforwarded(h, p))
           /\ LET g == RemoveProxy(h, p)
              IN Only(p, h, g) /\ g.proxy[p] = Null /\ g.rules[p] = {}
<1> DEFINE k == Unforwarded(h, p)
<1>1. Only(p, h, k) /\ k \in Hosts /\ k.proxy[p] = Null
  BY PutProxy DEF Only, Unforwarded, WithProxy
<1> HIDE DEF k
<1>2. Only(p, k, WithoutRules(k, p)) /\ WithoutRules(k, p).rules[p] = {}
      /\ WithoutRules(k, p).proxy = k.proxy
  BY <1>1, GoneOnly
<1>3. RemoveProxy(h, p) = WithoutRules(k, p)
  BY DEF RemoveProxy, k
<1> QED BY <1>1, <1>2, <1>3, OnlyAgain DEF k

LEMMA ProxyPartlyOnly ==
    ASSUME NEW h \in Hosts, NEW p \in Proxies, NEW in
    PROVE  /\ \A g \in RemoveProxyPartly(h, p) : Only(p, h, g)
           /\ ProxyPlan(in) => \A g \in NewProxyPartly(h, p, in) \cup SetProxyPartly(h, p, in) :
                                   Only(p, h, g)
<1>1. Only(p, h, h) /\ Only(p, h, Unforwarded(h, p)) /\ Only(p, h, RemoveProxy(h, p))
  BY OnlySelf, RemoveProxyOnly
<1>2. \A g \in RemoveProxyPartly(h, p) : Only(p, h, g)
  BY <1>1 DEF RemoveProxyPartly
<1>3. ASSUME ProxyPlan(in), NEW g \in NewProxyPartly(h, p, in) \cup SetProxyPartly(h, p, in)
      PROVE  Only(p, h, g)
  <2>1. Only(p, h, NewProxy(h, p, in)) /\ Only(p, h, SetProxy(h, p, in))
    BY <1>3, NewProxyOnly, SetProxyOnly
  <2>2. Only(p, h, Forwarding(h, p, in.to, TRUE)) /\ Only(p, h, Forwarding(h, p, in.to, FALSE))
    BY <1>3, ForwardingOnly DEF ProxyPlan
  <2>3. Only(p, h, WithRule(h, p, Resolve(in))) /\ Only(p, h, WithoutRules(h, p))
    BY <1>3, RuleOnly, GoneOnly DEF ProxyPlan
  <2> QED BY <1>1, <1>3, <2>1, <2>2, <2>3 DEF NewProxyPartly, SetProxyPartly
<1> QED BY <1>2, <1>3

-----------------------------------------------------------------------------
(* Plans *)

\* What a handler is called with agrees with the configuration, and what it
\* adds to it is kept from the state.
Agrees(r, sticky) ==
    /\ cfg[r] \in Configs[r]
    /\ \A a \in DOMAIN cfg[r] : a \in DOMAIN plan[r] /\ plan[r][a] = cfg[r][a]
    /\ at[r] # "update" => DOMAIN plan[r] = DOMAIN cfg[r]
    /\ at[r] = "update" =>
           /\ DOMAIN plan[r] = DOMAIN cfg[r] \cup sticky
           /\ \A a \in sticky \ DOMAIN cfg[r] : plan[r][a] = st[r][a]
           /\ st[r] \in States(r)

LEMMA HandlersAgree ==
    ASSUME Facts, NEW r \in Resources, at[r] \in {"create", "createVerify", "update"}
    PROVE  Agrees(r, Schema(r).sticky)
<1>1. cfg[r] \in Configs[r] /\ st[r] \in States(r) \cup {NoState}
  BY DEF Facts, Course, Asked, TypeOK
<1>2. Schema(r).sets = NoSets
  BY Kinds DEF Schema, SwitchSchema, MappingSchema, ProxySchema
<1>3. CASE at[r] = "update"
  <2>1. st[r] # NoState /\ plan[r] = Proposed(cfg[r], st[r], Schema(r))
    BY <1>3 DEF Facts, Asked
  <2>2. /\ DOMAIN plan[r] = DOMAIN cfg[r] \cup Schema(r).sticky
        /\ \A a \in DOMAIN cfg[r] : plan[r][a] = cfg[r][a]
        /\ \A a \in Schema(r).sticky \ DOMAIN cfg[r] : plan[r][a] = st[r][a]
    BY <1>2, <2>1 DEF Proposed, NoSets
  <2> QED BY <1>1, <1>3, <2>1, <2>2 DEF Agrees
<1>4. CASE at[r] # "update"
  <2>1. plan[r] = Proposed(cfg[r], NoState, Schema(r))
    BY <1>4 DEF Facts, Course, Asked
  <2>2. /\ DOMAIN plan[r] = DOMAIN cfg[r]
        /\ \A a \in DOMAIN cfg[r] : plan[r][a] = cfg[r][a]
    BY <1>2, <2>1 DEF Proposed, NoSets
  <2> QED BY <1>1, <1>4, <2>2 DEF Agrees
<1> QED BY <1>3, <1>4

LEMMA SwitchAgrees ==
    ASSUME Facts, NEW s \in Switches, at[s] \in {"create", "createVerify", "update"}
    PROVE  /\ Agrees(s, {"adapter", "mgmt", "notes", "desc"}) /\ WellFormedSwitch(cfg[s])
           /\ plan[s].type = cfg[s].type /\ plan[s].nat = cfg[s].nat
           /\ plan[s].prefix = cfg[s].prefix /\ plan[s].force = cfg[s].force
<1>1. Schema(s).sticky = {"adapter", "mgmt", "notes", "desc"} /\ s \in Resources
  BY Kinds DEF Schema, SwitchSchema
<1>2. Agrees(s, {"adapter", "mgmt", "notes", "desc"})
  BY <1>1, HandlersAgree
<1>3. WellFormedSwitch(cfg[s])
  BY <1>2, SwitchAssumption DEF Agrees
<1>4. {"type", "nat", "prefix", "force"} \subseteq DOMAIN cfg[s]
  BY <1>3 DEF WellFormedSwitch
<1> QED BY <1>2, <1>3, <1>4 DEF Agrees

LEMMA SwitchMakes ==
    ASSUME Facts, NEW s \in Switches, at[s] \in {"create", "createVerify"}
    PROVE  SwitchPlan(plan[s])
<1>1. /\ DOMAIN plan[s] = DOMAIN cfg[s] /\ WellFormedSwitch(cfg[s])
      /\ \A a \in DOMAIN cfg[s] : plan[s][a] = cfg[s][a]
      /\ plan[s].type = cfg[s].type /\ plan[s].nat = cfg[s].nat
      /\ plan[s].prefix = cfg[s].prefix
  BY SwitchAgrees DEF Agrees
<1>2. Of(plan[s], "adapter", Null) \in Adapters \cup {Null}
  BY <1>1 DEF Of, WellFormedSwitch, TypeAttributes, Types
<1>3. Of(plan[s], "mgmt", plan[s].type # "Private") \in BOOLEAN
  BY <1>1 DEF Of, WellFormedSwitch, TypeAttributes
<1>4. Of(plan[s], "notes", Null) \in NotesOf \cup {Null}
  BY <1>1 DEF Of, WellFormedSwitch
<1>5. (IF plan[s].type = "NAT" THEN "Internal" ELSE plan[s].type) \in {"External", "Internal", "Private"}
  BY <1>1 DEF WellFormedSwitch, Types
<1>6. plan[s].nat => plan[s].prefix \in Prefixes
  BY <1>1 DEF WellFormedSwitch, NatAttributes
<1> QED BY <1>2, <1>3, <1>4, <1>5, <1>6 DEF SwitchPlan, Made, SwitchType

LEMMA SwitchSends ==
    ASSUME Facts, NEW s \in Switches, at[s] = "update"
    PROVE  SwitchInput(SetInput(s))
<1> DEFINE sent == CASE st[s].type = "NAT" -> {"notes"}
                     [] st[s].type = "Private" -> {"notes"}
                     [] st[s].type = "Internal" -> {"notes", "mgmt"}
                     [] OTHER -> {"notes", "mgmt", "adapter"}
<1>1. /\ WellFormedSwitch(cfg[s]) /\ st[s] \in States(s)
      /\ \A a \in DOMAIN cfg[s] : plan[s][a] = cfg[s][a]
      /\ \A a \in {"adapter", "mgmt", "notes"} \ DOMAIN cfg[s] : plan[s][a] = st[s][a]
  BY SwitchAgrees DEF Agrees
<1>2. /\ st[s].adapter \in Adapters \cup {Null} /\ st[s].mgmt \in BOOLEAN
      /\ st[s].notes \in NotesOf \cup {Null}
  BY <1>1, Kinds DEF States
<1>3. plan[s].adapter \in Adapters \cup {Null}
  BY <1>1, <1>2 DEF WellFormedSwitch, TypeAttributes, Types
<1>4. plan[s].mgmt \in BOOLEAN
  BY <1>1, <1>2 DEF WellFormedSwitch, TypeAttributes
<1>5. plan[s].notes \in NotesOf \cup {Null}
  BY <1>1, <1>2 DEF WellFormedSwitch
<1>6. SetInput(s) = [a \in sent |-> plan[s][a]]
  BY DEF SetInput
<1> HIDE DEF sent
<1> QED BY <1>3, <1>4, <1>5, <1>6 DEF SwitchInput, Of

LEMMA MappingAgrees ==
    ASSUME Facts, NEW m \in Mappings, at[m] \in {"create", "createVerify", "update"}
    PROVE  Agrees(m, {"fw"}) /\ WellFormedMapping(cfg[m]) /\ MappingPlan(plan[m])
<1>1. Schema(m).sticky = {"fw"} /\ m \in Resources
  BY Kinds DEF Schema, MappingSchema
<1>2. Agrees(m, {"fw"})
  BY <1>1, HandlersAgree
<1>3. WellFormedMapping(cfg[m])
  BY <1>2, MappingAssumption DEF Agrees
<1>4. plan[m].to \in Endpoints
  BY <1>2, <1>3 DEF Agrees, WellFormedMapping
<1>5. st[m] \in States(m) => st[m].fw \in FirewallRules
  BY Kinds DEF States
<1>6. "fw" \in DOMAIN plan[m] => plan[m].fw \in FirewallRules
  BY <1>2, <1>3, <1>5 DEF Agrees, WellFormedMapping
<1>7. [on |-> TRUE, profile |-> AnyProfile] \in FirewallRules
  BY NetworkAssumption DEF FirewallRules
<1> QED BY <1>2, <1>3, <1>4, <1>6, <1>7 DEF MappingPlan, Resolve, Of

LEMMA ProxyAgrees ==
    ASSUME Facts, NEW p \in Proxies, at[p] \in {"create", "createVerify", "update"}
    PROVE  Agrees(p, {"fw"}) /\ WellFormedProxy(cfg[p]) /\ ProxyPlan(plan[p])
<1>1. Schema(p).sticky = {"fw"} /\ p \in Resources
  BY Kinds DEF Schema, ProxySchema
<1>2. Agrees(p, {"fw"})
  BY <1>1, HandlersAgree
<1>3. WellFormedProxy(cfg[p])
  BY <1>2, ProxyAssumption DEF Agrees
<1>4. plan[p].to \in Targets
  BY <1>2, <1>3 DEF Agrees, WellFormedProxy
<1>5. st[p] \in States(p) => st[p].fw \in FirewallRules
  BY Kinds DEF States
<1>6. "fw" \in DOMAIN plan[p] => plan[p].fw \in FirewallRules
  BY <1>2, <1>3, <1>5 DEF Agrees, WellFormedProxy
<1>7. [on |-> TRUE, profile |-> AnyProfile] \in FirewallRules
  BY NetworkAssumption DEF FirewallRules
<1> QED BY <1>2, <1>3, <1>4, <1>6, <1>7 DEF ProxyPlan, Resolve, Of

-----------------------------------------------------------------------------
(* What the handlers return *)

LEMMA ReadSwitchType ==
    ASSUME NEW h \in Hosts, NEW s \in Switches, HasSwitch(h, s), NEW nat \in BOOLEAN,
           NEW named \in BOOLEAN, NEW adapter \in Adapters \cup {Null}, NEW force \in BOOLEAN
    PROVE  ReadSwitch(h, s, nat, named, adapter, force) \in States(s)
<1>1. h.switch[s] \in SwitchType /\ h.nat[s] \in Prefixes \cup {Null}
  BY DEF Hosts, HasSwitch
<1> QED BY <1>1, Kinds DEF ReadSwitch, States, SwitchType, Types

\* What Read would find is what the configuration asks for if what a handler
\* returned is.
LEMMA ReadSwitchAgain ==
    ASSUME NEW h, NEW s, NEW c, WellFormedSwitch(c), NEW named, NEW adapter, NEW force,
           AsPlanned(ReadSwitch(h, s, c.nat, named, adapter, force), c)
    PROVE  AsPlanned(ReadSwitch(h, s, c.nat, c.nat, Of(c, "adapter", Null), c.force), c)
  BY DEF AsPlanned, ReadSwitch, WellFormedSwitch, Of

LEMMA FirewallStatesType ==
    ASSUME NEW h \in Hosts, NEW r \in Mappings \cup Proxies
    PROVE  FirewallStates(h, r) \subseteq FirewallRules
<1>1. h.rules[r] \subseteq FirewallRules
  BY DEF Hosts
<1>2. [on |-> FALSE, profile |-> AnyProfile] \in FirewallRules
  BY NetworkAssumption DEF FirewallRules
<1> QED BY <1>1, <1>2 DEF FirewallStates

LEMMA ReadMappingIs ==
    ASSUME NEW h \in Hosts, NEW m \in Mappings, h.map[m] \in Endpoints, NEW s \in ReadMapping(h, m)
    PROVE  /\ s \in States(m) /\ s.to = h.map[m] /\ s.fw \in FirewallStates(h, m)
           /\ DOMAIN s = {"to", "fw"}
<1>1. FirewallStates(h, m) \subseteq FirewallRules
  BY FirewallStatesType
<1> QED BY <1>1, Kinds DEF ReadMapping, States

LEMMA ReadProxyIs ==
    ASSUME NEW h \in Hosts, NEW p \in Proxies, h.proxy[p] \in ProxyType, NEW s \in ReadProxy(h, p)
    PROVE  /\ s \in States(p) /\ s.fw \in FirewallStates(h, p)
           /\ s.to = h.proxy[p].to /\ s.listening = h.proxy[p].listening
           /\ DOMAIN s = {"to", "listening", "fw"}
<1>1. FirewallStates(h, p) \subseteq FirewallRules
  BY FirewallStatesType
<1> QED BY <1>1, Kinds DEF ReadProxy, States, ProxyType

\* Once its rule is made or set, only a disabled rule with a profile reads as
\* another.
LEMMA RuleReadsBack ==
    ASSUME NEW h \in Hosts, NEW r \in Mappings \cup Proxies, NEW fw \in FirewallRules,
           h.rules[r] = {fw} \/ (h.rules[r] = {} /\ ~fw.on), NEW s \in FirewallStates(h, r)
    PROVE  s = fw \/ (~fw.on /\ fw.profile # AnyProfile)
<1>1. CASE h.rules[r] = {fw}
  BY <1>1 DEF FirewallStates
<1>2. CASE h.rules[r] = {} /\ ~fw.on
  BY <1>2 DEF FirewallStates, FirewallRules
<1> QED BY <1>1, <1>2

LEMMA SwitchInSync ==
    ASSUME NEW s \in Switches, cfg[s] # NoConfig, cfg' = cfg, WellFormedSwitch(cfg[s]),
           HasSwitch(host', s), NEW named, NEW adapter, NEW force,
           AsPlanned(ReadSwitch(host', s, cfg[s].nat, named, adapter, force), cfg[s])
    PROVE  InSync(s)'
<1>1. AsPlanned(ReadSwitch(host', s, cfg[s].nat, cfg[s].nat, Of(cfg[s], "adapter", Null),
                           cfg[s].force), cfg[s])
  BY ReadSwitchAgain
<1>2. InSync(s)' <=> /\ Here(s)'
                     /\ \E v \in Readings(s)' : AsPlanned(v, cfg[s])
  BY DEF InSync
<1>3. /\ Here(s)' <=> HasSwitch(host', s)
      /\ Readings(s)' = {ReadSwitch(host', s, cfg[s].nat, cfg[s].nat, Of(cfg[s], "adapter", Null),
                                    cfg[s].force)}
  BY Kinds DEF Here, Readings
<1> QED BY <1>1, <1>2, <1>3

LEMMA MappingInSync ==
    ASSUME NEW m \in Mappings, cfg[m] # NoConfig, cfg' = cfg,
           HasMapping(host', m), NEW s \in ReadMapping(host', m), AsPlanned(s, cfg[m])
    PROVE  InSync(m)'
  BY Kinds DEF InSync, Here, Readings

LEMMA ProxyInSync ==
    ASSUME NEW p \in Proxies, cfg[p] # NoConfig, cfg' = cfg,
           HasProxy(host', p), NEW s \in ReadProxy(host', p), AsPlanned(s, cfg[p])
    PROVE  InSync(p)'
  BY Kinds DEF InSync, Here, Readings

-----------------------------------------------------------------------------
(* What a handler's step does *)

\* The host that a step of r leaves: other resources' parts are as they were,
\* but for mappings that go with the NetNat they are for.
Within(r, h) ==
    /\ h \in Hosts
    /\ \A q \in Resources \ {r} :
           SamePart(q, host, h)
           \/ (q \in Mappings /\ NatOf[q] = r /\ op[r] \in {"delete", "replace"})

Kept(r) ==
    /\ Within(r, host')
    /\ UNCHANGED <<workspace, cfg, disturbed>>
    /\ events' \in Nat
    /\ late' # NoCall => CallFits(late')

\* The handler goes on, or fails.
Goes(r) ==
    /\ UNCHANGED <<memory, walk>>
    /\ tries' \in [Resources -> 0 .. VerifyAttempts - 1]
    /\ \E x \in Steps :
           /\ at' = [at EXCEPT ![r] = x]
           /\ \/ x = "error"
              \/ x = at[r] /\ UNCHANGED host
              \/ at[r] = "create" /\ x = "createVerify"
              \/ at[r] \in Removing /\ x \in Removing

Reads(r) ==
    /\ at[r] = "read" /\ UNCHANGED host
    /\ \E s \in States(r) \cup {NoState} :
           Refreshed(r, s) /\ IF s = NoState THEN ~Here(r)' ELSE Current(r)'

Writes(r) ==
    /\ at[r] \in {"create", "createVerify", "update"}
    /\ \E s \in States(r) :
           /\ Return(r, s)
           /\ AsPlanned(s, plan[r]) => InSync(r)'
           /\ AsPlanned(s, plan[r]) \/ disturbed \/ Surprising(r)

Destroys(r) ==
    /\ at[r] \in Removing
    /\ Deleted(r)
    /\ ~Here(r)' /\ (r \notin Switches => host'.rules[r] = {})
    /\ r \in Switches /\ Here(r) /\ st[r].nat => host'.nat[r] = Null

Effect(r) == Kept(r) /\ (Goes(r) \/ Reads(r) \/ Writes(r) \/ Destroys(r))

LEMMA SameWithin ==
    ASSUME Facts, NEW r \in Resources
    PROVE  /\ Within(r, host)
           /\ \A h : Only(r, host, h) => Within(r, h)
           /\ \A h : Spares(r, host, h) /\ at[r] \in Removing => Within(r, h)
<1>1. host \in Hosts /\ (at[r] \in Removing => op[r] \in {"delete", "replace"})
  BY DEF Facts, TypeOK, Course
<1> QED BY <1>1 DEF Within, Only, Spares, SamePart

LEMMA RanKept ==
    ASSUME Facts, NEW r \in Resources, NEW h, Within(r, h), Ran(h)
    PROVE  Kept(r)
  BY DEF Kept, Ran, user, Facts, TypeOK

LEMMA CallFailsKept ==
    ASSUME Facts, NEW r \in Resources, NEW c, CallFits(c),
           NEW partly, \A h \in partly : Within(r, h), CallFails(c, partly)
    PROVE  Kept(r)
<1>1. UNCHANGED <<workspace, cfg, disturbed>> /\ events' \in Nat
  BY DEF CallFails, Event, user, Facts, TypeOK
<1>2. Within(r, host)
  BY SameWithin
<1>3. Within(r, host') /\ (late' # NoCall => CallFits(late'))
  BY <1>2 DEF CallFails, Facts
<1> QED BY <1>1, <1>3 DEF Kept

LEMMA ReadFailsKept ==
    ASSUME Facts, NEW r \in Resources, ReadFails
    PROVE  Kept(r)
<1>1. Within(r, host)
  BY SameWithin
<1> QED BY <1>1 DEF Kept, ReadFails, Event, user, Facts, TypeOK

LEMMA FailGoes ==
    ASSUME Facts, NEW r \in Resources, Fail(r)
    PROVE  Goes(r)
<1>1. VerifyAttempts \in Nat \ {0} /\ tries \in [Resources -> 0 .. VerifyAttempts - 1]
  BY TerraformAssumption DEF Facts, TypeOK
<1> QED BY <1>1 DEF Fail, Goes, Steps, Ended

LEMMA GotoGoes ==
    ASSUME Facts, NEW r \in Resources, NEW x \in Steps, Goto(r, x),
           (at[r] = "create" /\ x = "createVerify") \/ (at[r] \in Removing /\ x \in Removing)
    PROVE  Goes(r)
  BY DEF Goto, Goes, Facts, TypeOK

LEMMA PollGoes ==
    ASSUME Facts, NEW r \in Resources, PollFails(r)
    PROVE  Kept(r) /\ Goes(r)
<1>1. Kept(r)
  BY ReadFailsKept DEF PollFails
<1>2. CASE tries[r] + 1 < VerifyAttempts
  <2>1. UNCHANGED <<memory, walk, at>> /\ tries' = [tries EXCEPT ![r] = @ + 1]
    BY <1>2 DEF PollFails
  <2>2. /\ VerifyAttempts \in Nat /\ tries \in [Resources -> 0 .. VerifyAttempts - 1]
        /\ at \in [Resources -> Steps]
    BY TerraformAssumption DEF Facts, TypeOK
  <2>3. tries' \in [Resources -> 0 .. VerifyAttempts - 1]
    BY <1>2, <2>1, <2>2
  <2>4. at' = [at EXCEPT ![r] = at[r]] /\ at[r] \in Steps
    BY <2>1, <2>2
  <2>5. \E x \in Steps : at' = [at EXCEPT ![r] = x] /\ x = at[r] /\ UNCHANGED host
    BY <2>4 DEF PollFails, ReadFails
  <2> QED BY <1>1, <2>1, <2>3, <2>5 DEF Goes
<1>3. CASE ~(tries[r] + 1 < VerifyAttempts)
  <2>1. Fail(r)
    BY <1>3 DEF PollFails
  <2> QED BY <1>1, <2>1, FailGoes
<1> QED BY <1>1, <1>2, <1>3

-----------------------------------------------------------------------------
(* The handlers of a switch *)

LEMMA SwitchReturns ==
    ASSUME Facts, NEW s \in Switches, at[s] \in {"create", "createVerify", "update"},
           host' \in Hosts, cfg' = cfg, HasSwitch(host', s),
           NEW nat \in BOOLEAN, NEW named \in BOOLEAN, NEW adapter \in Adapters \cup {Null},
           NEW force \in BOOLEAN,
           NEW v, v = ReadSwitch(host', s, nat, named, adapter, force)
    PROVE  v \in States(s) /\ (AsPlanned(v, plan[s]) => InSync(s)')
<1>1. v \in States(s)
  BY ReadSwitchType
<1>2. ASSUME AsPlanned(v, plan[s]) PROVE InSync(s)'
  <2>1. /\ cfg[s] # NoConfig /\ WellFormedSwitch(cfg[s])
        /\ \A a \in DOMAIN cfg[s] : a \in DOMAIN plan[s] /\ plan[s][a] = cfg[s][a]
    BY SwitchAgrees, Kinds, TerraformAssumption DEF Agrees
  <2>2. AsPlanned(v, cfg[s])
    BY <1>2, <2>1 DEF AsPlanned
  <2>3. "type" \in DOMAIN cfg[s] /\ cfg[s].nat = (cfg[s].type = "NAT")
    BY <2>1 DEF WellFormedSwitch, NatAttributes
  <2>4. v.type = cfg[s].type
    BY <2>2, <2>3 DEF AsPlanned
  <2>5. host'.switch[s] \in SwitchType
    BY DEF Hosts, HasSwitch
  <2>6. nat = cfg[s].nat
    BY <2>3, <2>4, <2>5 DEF ReadSwitch, SwitchType
  <2> QED BY <2>1, <2>2, <2>6, SwitchInSync
<1> QED BY <1>1, <1>2

LEMMA CreatedIs ==
    ASSUME Facts, NEW s \in Switches, at[s] \in {"create", "createVerify"},
           host' \in Hosts, cfg' = cfg, HasSwitch(host', s)
    PROVE  /\ Created(host', s) \in States(s)
           /\ AsPlanned(Created(host', s), plan[s]) => InSync(s)'
<1>1. /\ WellFormedSwitch(cfg[s]) /\ plan[s].nat = cfg[s].nat /\ plan[s].force = cfg[s].force
  BY SwitchAgrees
<1>2. plan[s].nat \in BOOLEAN /\ plan[s].force \in BOOLEAN
  BY <1>1 DEF WellFormedSwitch, NatAttributes, ForceAttribute
<1>3. Of(plan[s], "adapter", Null) \in Adapters \cup {Null}
  BY SwitchMakes DEF SwitchPlan, Made, SwitchType
<1> QED BY <1>2, <1>3, SwitchReturns DEF Created

\* A switch that is made is made as planned.
LEMMA CreatedAsPlanned ==
    ASSUME Facts, NEW s \in Switches, at[s] = "create",
           NEW h \in Hosts, h.switch[s] = Made(plan[s]), h.nat[s] = IF plan[s].nat THEN plan[s].prefix ELSE host.nat[s]
    PROVE  AsPlanned(Created(h, s), plan[s])
<1>1. /\ WellFormedSwitch(cfg[s]) /\ DOMAIN plan[s] = DOMAIN cfg[s]
      /\ plan[s].type = cfg[s].type /\ plan[s].nat = cfg[s].nat
      /\ plan[s].prefix = cfg[s].prefix /\ plan[s].force = cfg[s].force
  BY SwitchAgrees DEF Agrees
<1>2. DOMAIN plan[s] \subseteq {"type", "nat", "prefix", "force", "adapter", "mgmt", "notes"}
  BY <1>1 DEF WellFormedSwitch
<1>3. plan[s].nat = (plan[s].type = "NAT") /\ (~plan[s].nat => plan[s].prefix = Null)
  BY <1>1 DEF WellFormedSwitch, NatAttributes
<1> DEFINE v == Created(h, s)
<1>4. /\ v.type = plan[s].type /\ v.nat = plan[s].nat /\ v.prefix = plan[s].prefix
      /\ v.force = plan[s].force
  <2>1. v.nat = plan[s].nat /\ v.force = plan[s].force
    BY DEF Created, ReadSwitch
  <2>2. CASE plan[s].nat
    BY <1>3, <2>1, <2>2 DEF Created, ReadSwitch
  <2>3. CASE ~plan[s].nat
    <3>1. plan[s].type # "NAT" /\ plan[s].prefix = Null
      BY <1>3, <2>3
    <3>2. h.switch[s].type = plan[s].type
      BY <3>1 DEF Made
    <3> QED BY <2>1, <2>3, <3>1, <3>2 DEF Created, ReadSwitch
  <2> QED BY <2>2, <2>3
<1>5. /\ v.adapter = Of(plan[s], "adapter", Null)
      /\ v.mgmt = Of(plan[s], "mgmt", plan[s].type # "Private")
      /\ v.notes = Of(plan[s], "notes", Null)
  BY DEF Created, ReadSwitch, Made
<1> HIDE DEF v
<1>6. \A a \in DOMAIN plan[s] : v[a] = plan[s][a]
  BY <1>2, <1>4, <1>5 DEF Of
<1> QED BY <1>6 DEF AsPlanned, v

LEMMA MadeExists ==
    ASSUME NEW p, SwitchPlan(p), NEW h, NEW s, h.switch[s] = Made(p)
    PROVE  HasSwitch(h, s)
  BY NothingAssumption DEF SwitchPlan, HasSwitch

LEMMA CreateSwitchEffect ==
    ASSUME Facts, NEW s \in Switches, CreateSwitch(s)
    PROVE  Effect(s)
<1>1. s \in Resources /\ at[s] = "create" /\ host \in Hosts /\ SwitchPlan(plan[s])
  BY Kinds, SwitchMakes DEF CreateSwitch, Facts, TypeOK
<1>2. CASE NewAccepts(host, s, plan[s]) /\ Ran(NewSwitch(host, s, plan[s])) /\ Return(s, Created(host', s))
  <2>1. Kept(s) /\ host' = NewSwitch(host, s, plan[s]) /\ cfg' = cfg
    BY <1>1, <1>2, NewSwitchOnly, SameWithin, RanKept DEF Ran, user
  <2>2. host' \in Hosts /\ host'.switch[s] = Made(plan[s])
        /\ host'.nat[s] = IF plan[s].nat THEN plan[s].prefix ELSE host.nat[s]
    BY <1>1, <2>1, NewSwitchOnly DEF Only
  <2>3. HasSwitch(host', s)
    BY <1>1, <2>2, MadeExists
  <2>4. AsPlanned(Created(host', s), plan[s])
    BY <1>1, <2>2, CreatedAsPlanned
  <2>5. Created(host', s) \in States(s) /\ (AsPlanned(Created(host', s), plan[s]) => InSync(s)')
    BY <1>1, <2>1, <2>2, <2>3, CreatedIs
  <2> QED BY <1>1, <1>2, <2>1, <2>4, <2>5 DEF Effect, Writes
<1>3. CASE Ran(host) /\ Fail(s)
  BY <1>1, <1>3, SameWithin, RanKept, FailGoes DEF Effect
<1>4. CASE /\ CallFails(NewCall(s), NewPartly(host, s, plan[s]))
           /\ Fail(s) \/ Goto(s, "createVerify")
  <2>1. CallFits(NewCall(s)) /\ \A h \in NewPartly(host, s, plan[s]) : Within(s, h)
    BY <1>1, NewPartlyOnly, SameWithin DEF CallFits, NewCall
  <2>2. Kept(s)
    BY <1>1, <1>4, <2>1, CallFailsKept
  <2>3. Goes(s)
    BY <1>1, <1>4, FailGoes, GotoGoes DEF Steps
  <2> QED BY <2>2, <2>3 DEF Effect
<1> QED BY <1>2, <1>3, <1>4 DEF CreateSwitch

LEMMA VerifyCreateEffect ==
    ASSUME Facts, NEW s \in Switches, VerifyCreate(s)
    PROVE  Effect(s)
<1>1. s \in Resources /\ at[s] = "createVerify" /\ host \in Hosts
  BY Kinds DEF VerifyCreate, Facts, TypeOK
<1>2. CASE HasSwitch(host, s) /\ Ran(host) /\ Return(s, Created(host, s))
  <2>1. Kept(s) /\ host' = host /\ cfg' = cfg
    BY <1>1, <1>2, SameWithin, RanKept DEF Ran, user
  <2>2. Created(host', s) \in States(s) /\ (AsPlanned(Created(host', s), plan[s]) => InSync(s)')
    BY <1>1, <1>2, <2>1, CreatedIs
  <2>3. Surprising(s)
    BY <1>1 DEF Surprising
  <2> QED BY <1>1, <1>2, <2>1, <2>2, <2>3 DEF Effect, Writes
<1>3. CASE Ran(host) /\ Fail(s)
  BY <1>1, <1>3, SameWithin, RanKept, FailGoes DEF Effect
<1>4. CASE PollFails(s)
  BY <1>1, <1>4, PollGoes DEF Effect
<1> QED BY <1>2, <1>3, <1>4 DEF VerifyCreate

LEMMA ReadVMSwitchEffect ==
    ASSUME Facts, NEW s \in Switches, ReadVMSwitch(s)
    PROVE  Effect(s)
<1>1. s \in Resources /\ at[s] = "read" /\ host \in Hosts /\ st[s] \in States(s)
  BY Kinds DEF ReadVMSwitch, Facts, TypeOK, Course
<1>2. CASE Ran(host) /\ Refreshed(s, IF HasSwitch(host, s) THEN Refresh(s) ELSE NoState)
  <2>1. Kept(s) /\ host' = host
    BY <1>1, <1>2, SameWithin, RanKept DEF Ran
  <2>2. CASE HasSwitch(host, s)
    <3>1. /\ st[s].nat \in BOOLEAN /\ st[s].adapter \in Adapters \cup {Null}
          /\ st[s].force \in BOOLEAN
      BY <1>1, Kinds DEF States
    <3>2. Refresh(s) \in States(s)
      BY <1>1, <2>2, <3>1, ReadSwitchType DEF Refresh
    <3>3. Refreshed(s, Refresh(s)) /\ st'[s] = Refresh(s)
      BY <1>1, <1>2, <2>2 DEF Refreshed, Facts, Shape
    <3>4. st'[s] = Refresh(s)'
      BY <2>1, <3>3 DEF Refresh, ReadSwitch
    <3>5. Current(s)'
      BY <2>1, <2>2, <3>4, Kinds DEF Current
    <3>6. Refresh(s) # NoState
      BY <1>1, <3>2, NothingAssumption
    <3> QED BY <1>1, <2>1, <3>2, <3>3, <3>5, <3>6 DEF Effect, Reads
  <2>3. CASE ~HasSwitch(host, s)
    <3>1. Refreshed(s, NoState) /\ ~Here(s)'
      BY <1>2, <2>1, <2>3, Kinds DEF Here
    <3> QED BY <1>1, <2>1, <3>1 DEF Effect, Reads
  <2> QED BY <2>2, <2>3
<1>3. CASE ReadFails /\ Fail(s)
  BY <1>1, <1>3, ReadFailsKept, FailGoes DEF Effect
<1> QED BY <1>2, <1>3 DEF ReadVMSwitch

\* The plan of an update, where only notes, the adapter and the management
\* attribute may differ from the state.
LEMMA UpdatesOnly ==
    ASSUME Facts, NEW s \in Switches, at[s] = "update"
    PROVE  /\ st[s] \in States(s)
           /\ plan[s].type = st[s].type /\ plan[s].nat = st[s].nat
           /\ plan[s].prefix = st[s].prefix
           /\ plan[s].nat = (plan[s].type = "NAT")
           /\ plan[s].prefix \in IF plan[s].nat THEN Prefixes ELSE {Null}
           /\ plan[s].desc = st[s].desc
           /\ plan[s].type \in {"NAT", "Private"} => plan[s].mgmt = st[s].mgmt
           /\ plan[s].adapter \in Adapters \cup {Null} /\ plan[s].force \in BOOLEAN
           /\ DOMAIN plan[s] = {"type", "nat", "prefix", "force", "adapter", "mgmt", "notes", "desc"}
<1>1. /\ Agrees(s, {"adapter", "mgmt", "notes", "desc"}) /\ WellFormedSwitch(cfg[s])
      /\ plan[s].type = cfg[s].type /\ plan[s].nat = cfg[s].nat
      /\ plan[s].prefix = cfg[s].prefix /\ plan[s].force = cfg[s].force
  BY SwitchAgrees
<1>2. /\ DOMAIN plan[s] = DOMAIN cfg[s] \cup {"adapter", "mgmt", "notes", "desc"}
      /\ \A a \in DOMAIN cfg[s] : plan[s][a] = cfg[s][a]
      /\ \A a \in {"adapter", "mgmt", "notes", "desc"} \ DOMAIN cfg[s] : plan[s][a] = st[s][a]
      /\ st[s] \in States(s)
  BY <1>1 DEF Agrees
<1>3. DOMAIN plan[s] = {"type", "nat", "prefix", "force", "adapter", "mgmt", "notes", "desc"}
  BY <1>1, <1>2 DEF WellFormedSwitch
<1>4. \A a \in {"type", "nat", "prefix"} : plan[s][a] = st[s][a]
  <2>1. Schema(s).forces = {"type", "nat", "prefix"} /\ s \in Resources
    BY Kinds DEF Schema, SwitchSchema
  <2> QED BY <1>3, <2>1 DEF Facts, Asked
<1>5. plan[s].desc = st[s].desc
  BY <1>1, <1>2 DEF WellFormedSwitch
<1>6. plan[s].type \in {"NAT", "Private"} => plan[s].mgmt = st[s].mgmt
  BY <1>1, <1>2 DEF WellFormedSwitch, TypeAttributes
<1>7. st[s].adapter \in Adapters \cup {Null}
  BY <1>2, Kinds DEF States
<1>8. plan[s].adapter \in Adapters \cup {Null}
  BY <1>1, <1>2, <1>7 DEF WellFormedSwitch, TypeAttributes, Types
<1>9. /\ plan[s].nat = (plan[s].type = "NAT") /\ plan[s].force \in BOOLEAN
      /\ plan[s].prefix \in IF plan[s].nat THEN Prefixes ELSE {Null}
  BY <1>1 DEF WellFormedSwitch, NatAttributes, ForceAttribute
<1> QED BY <1>2, <1>3, <1>4, <1>5, <1>6, <1>8, <1>9

\* An update of a switch that is as it was read returns what was planned,
\* unless the adapter is another.
LEMMA UpdatedAsPlanned ==
    ASSUME Facts, NEW s \in Switches, at[s] = "update", ~disturbed, plan[s].adapter = st[s].desc,
           SetAccepts(host, s, SetInput(s)),
           NEW h \in Hosts, NEW vs, vs = host.switch[s],
           h.switch[s] = [type |-> vs.type, adapter |-> Of(SetInput(s), "adapter", vs.adapter),
                          mgmt |-> Of(SetInput(s), "mgmt", vs.mgmt),
                          notes |-> Of(SetInput(s), "notes", vs.notes)],
           h.nat[s] = host.nat[s]
    PROVE  AsPlanned(Updated(h, s), plan[s])
<1>1. s \in Resources /\ st[s] = Refresh(s) /\ HasSwitch(host, s)
  <2>1. s \in workspace /\ s \in Resources
    BY Kinds DEF Facts, Course
  <2>2. Current(s)
    BY <2>1 DEF Facts, AsRead, Asked
  <2> QED BY <2>1, <2>2, Kinds DEF Current
<1>2. /\ st[s].desc = vs.adapter /\ st[s].mgmt = vs.mgmt
      /\ st[s].type = IF st[s].nat THEN "NAT" ELSE vs.type
      /\ st[s].prefix = IF st[s].nat THEN host.nat[s] ELSE Null
  BY <1>1 DEF Refresh, ReadSwitch
<1>3. vs.type \in {"External", "Internal", "Private"}
  BY <1>1 DEF Facts, TypeOK, Hosts, HasSwitch, SwitchType
<1> DEFINE v == Updated(h, s)
           nat == st[s].type = "NAT"
<1>4. /\ v.type = (IF nat THEN "NAT" ELSE vs.type) /\ v.adapter = plan[s].adapter
      /\ v.desc = h.switch[s].adapter /\ v.mgmt = h.switch[s].mgmt /\ v.notes = h.switch[s].notes
      /\ v.nat = (nat /\ st[s].nat /\ host.nat[s] # Null)
      /\ v.prefix = (IF nat THEN host.nat[s] ELSE Null) /\ v.force = plan[s].force
  BY DEF Updated, ReadSwitch
<1>5. /\ h.switch[s].adapter = Of(SetInput(s), "adapter", vs.adapter)
      /\ h.switch[s].mgmt = Of(SetInput(s), "mgmt", vs.mgmt)
      /\ h.switch[s].notes = Of(SetInput(s), "notes", vs.notes)
  OBVIOUS
<1>6. /\ "notes" \in DOMAIN SetInput(s)
      /\ \A a \in DOMAIN SetInput(s) : SetInput(s)[a] = plan[s][a]
      /\ nat => DOMAIN SetInput(s) = {"notes"}
      /\ st[s].type = "Private" => DOMAIN SetInput(s) = {"notes"}
      /\ st[s].type = "External" => DOMAIN SetInput(s) = {"notes", "mgmt", "adapter"}
      /\ st[s].type = "Internal" => DOMAIN SetInput(s) = {"notes", "mgmt"}
  BY DEF SetInput
<1>7. st[s].type # "Internal"
  BY <1>2, <1>3, <1>6 DEF SetAccepts
<1>8. plan[s].nat => host.nat[s] # Null
  BY <1>2, UpdatesOnly, NothingAssumption
<1> HIDE DEF v
<1>9. v.type = plan[s].type /\ v.adapter = plan[s].adapter /\ v.force = plan[s].force
  BY <1>2, <1>4, UpdatesOnly
<1>10. v.nat = plan[s].nat /\ v.prefix = plan[s].prefix
  BY <1>2, <1>4, <1>8, UpdatesOnly
<1>11. v.notes = plan[s].notes
  BY <1>4, <1>5, <1>6 DEF Of
<1>12. v.mgmt = plan[s].mgmt /\ v.desc = plan[s].desc
  <2>1. CASE st[s].type \in {"NAT", "Private"}
    BY <1>2, <1>4, <1>5, <1>6, <2>1, UpdatesOnly DEF Of
  <2>2. CASE st[s].type = "External"
    BY <1>2, <1>4, <1>5, <1>6, <2>2, UpdatesOnly DEF Of
  <2> QED BY <1>2, <1>3, <1>7, <2>1, <2>2
<1>13. DOMAIN plan[s] = {"type", "nat", "prefix", "force", "adapter", "mgmt", "notes", "desc"}
  BY UpdatesOnly
<1>14. \A a \in DOMAIN plan[s] : v[a] = plan[s][a]
  BY <1>9, <1>10, <1>11, <1>12, <1>13
<1> QED BY <1>14 DEF AsPlanned, v

LEMMA UpdateSwitchEffect ==
    ASSUME Facts, NEW s \in Switches, UpdateSwitch(s)
    PROVE  Effect(s)
<1>1. /\ s \in Resources /\ at[s] = "update" /\ op[s] = "update" /\ host \in Hosts
      /\ SwitchInput(SetInput(s))
  BY Kinds, SwitchSends DEF UpdateSwitch, Facts, TypeOK, Course
<1>2. CASE /\ SetAccepts(host, s, SetInput(s)) /\ Ran(SetSwitch(host, s, SetInput(s)))
           /\ Return(s, Updated(host', s))
  <2>1. HasSwitch(host, s)
    BY <1>2 DEF SetAccepts
  <2> DEFINE vs == host.switch[s]
             set == [type |-> vs.type, adapter |-> Of(SetInput(s), "adapter", vs.adapter),
                     mgmt |-> Of(SetInput(s), "mgmt", vs.mgmt),
                     notes |-> Of(SetInput(s), "notes", vs.notes)]
  <2>2. host' = SetSwitch(host, s, SetInput(s)) /\ cfg' = cfg
    BY <1>2 DEF Ran, user
  <2>3. /\ Only(s, host, host') /\ host'.switch[s] = set /\ host'.switch[s] \in SwitchType
        /\ host'.nat[s] = host.nat[s]
    BY <1>1, <2>1, <2>2, SetSwitchOnly
  <2>4. Kept(s) /\ host' \in Hosts
    BY <1>1, <1>2, <2>2, <2>3, SameWithin, RanKept DEF Only
  <2>5. HasSwitch(host', s)
    BY <2>3, NothingAssumption DEF HasSwitch
  <2>6. /\ Updated(host', s) \in States(s)
        /\ AsPlanned(Updated(host', s), plan[s]) => InSync(s)'
    <3>1. plan[s].adapter \in Adapters \cup {Null} /\ plan[s].force \in BOOLEAN
      BY <1>1, UpdatesOnly
    <3> DEFINE nat == st[s].type = "NAT"
               named == nat /\ st[s].nat /\ host'.nat[s] # Null
    <3>2. /\ nat \in BOOLEAN /\ named \in BOOLEAN
          /\ Updated(host', s) = ReadSwitch(host', s, nat, named, plan[s].adapter, plan[s].force)
      BY DEF Updated
    <3> HIDE DEF nat, named
    <3> QED BY <1>1, <2>2, <2>4, <2>5, <3>1, <3>2, SwitchReturns
  <2>7. AsPlanned(Updated(host', s), plan[s]) \/ disturbed \/ Surprising(s)
    <3>1. CASE ~disturbed /\ plan[s].adapter = st[s].desc
      BY <1>1, <1>2, <2>3, <2>4, <3>1, UpdatedAsPlanned
    <3>2. CASE plan[s].adapter # st[s].desc
      BY <1>1, <3>2 DEF Surprising
    <3> QED BY <3>1, <3>2
  <2> QED BY <1>1, <1>2, <2>4, <2>6, <2>7 DEF Effect, Writes
<1>3. CASE Ran(host) /\ Fail(s)
  BY <1>1, <1>3, SameWithin, RanKept, FailGoes DEF Effect
<1>4. CASE CallFails(SetCall(s, SetInput(s)), SetPartly(host, s, SetInput(s))) /\ Fail(s)
  <2>1. /\ CallFits(SetCall(s, SetInput(s)))
        /\ \A h \in SetPartly(host, s, SetInput(s)) : Within(s, h)
    BY <1>1, SetPartlyOnly, SameWithin DEF CallFits, SetCall
  <2>2. Kept(s)
    BY <1>1, <1>4, <2>1, CallFailsKept
  <2> QED BY <1>1, <1>4, <2>2, FailGoes DEF Effect
<1> QED BY <1>2, <1>3, <1>4 DEF UpdateSwitch

LEMMA RemovingSteps == Removing \subseteq Steps /\ "createVerify" \in Steps
  BY DEF Removing, Steps

\* Delete ends while the switch is not there.
LEMMA GoneDestroys ==
    ASSUME Facts, NEW s \in Switches, at[s] \in Removing, ~HasSwitch(host, s),
           Ran(host), Deleted(s)
    PROVE  Effect(s)
<1>1. s \in Resources
  BY Kinds
<1>2. Kept(s) /\ host' = host
  BY <1>1, SameWithin, RanKept DEF Ran
<1>3. ~Here(s) /\ ~Here(s)'
  BY <1>2, Kinds DEF Here
<1> QED BY <1>1, <1>2, <1>3 DEF Effect, Destroys

LEMMA FailsEffect ==
    ASSUME Facts, NEW r \in Resources, Ran(host) \/ ReadFails, Fail(r)
    PROVE  Effect(r)
  BY SameWithin, RanKept, ReadFailsKept, FailGoes DEF Effect

LEMMA DeleteSwitchEffect ==
    ASSUME Facts, NEW s \in Switches, DeleteSwitch(s)
    PROVE  Effect(s)
<1>1. s \in Resources /\ at[s] = "delete" /\ at[s] \in Removing
  BY Kinds DEF DeleteSwitch, Removing
<1>2. CASE (Ran(host) \/ ReadFails) /\ Fail(s)
  BY <1>1, <1>2, FailsEffect
<1>3. CASE ~HasSwitch(host, s) /\ Ran(host) /\ Deleted(s)
  BY <1>1, <1>3, GoneDestroys
<1>4. CASE /\ Ran(host)
           /\ Goto(s, IF ~st[s].nat /\ host.switch[s].type = "External"
                         /\ host.switch[s].mgmt THEN "prepare" ELSE "remove")
  <2>1. \E x \in {"prepare", "remove"} : Goto(s, x)
    BY <1>4
  <2>2. {"prepare", "remove"} \subseteq Removing
    BY DEF Removing
  <2>3. Goes(s)
    BY <1>1, <2>1, <2>2, GotoGoes, RemovingSteps
  <2> QED BY <1>1, <1>4, <2>3, SameWithin, RanKept DEF Effect
<1> QED BY <1>2, <1>3, <1>4 DEF DeleteSwitch

LEMMA PrepareSwitchEffect ==
    ASSUME Facts, NEW s \in Switches, PrepareSwitch(s)
    PROVE  Effect(s)
<1>1. /\ s \in Resources /\ at[s] \in Removing /\ host \in Hosts
      /\ {"remove", "prepareVerify"} \subseteq Removing
  BY Kinds DEF PrepareSwitch, Removing, Facts, TypeOK
<1>2. SwitchInput(ShareOff)
  BY DEF SwitchInput, ShareOff, Of
<1>3. CASE /\ SetAccepts(host, s, ShareOff) /\ Ran(SetSwitch(host, s, ShareOff))
           /\ Goto(s, "remove")
  <2>1. Only(s, host, SetSwitch(host, s, ShareOff))
    BY <1>1, <1>2, <1>3, SetSwitchOnly DEF SetAccepts
  <2>2. Kept(s)
    BY <1>1, <1>3, <2>1, SameWithin, RanKept
  <2>3. Goes(s)
    BY <1>1, <1>3, GotoGoes, RemovingSteps
  <2> QED BY <2>2, <2>3 DEF Effect
<1>4. CASE Ran(host) /\ Fail(s)
  BY <1>1, <1>4, FailsEffect
<1>5. CASE /\ CallFails(SetCall(s, ShareOff), SetPartly(host, s, ShareOff))
           /\ Fail(s) \/ Goto(s, "prepareVerify")
  <2>1. CallFits(SetCall(s, ShareOff)) /\ \A h \in SetPartly(host, s, ShareOff) : Within(s, h)
    BY <1>1, <1>2, SetPartlyOnly, SameWithin DEF CallFits, SetCall
  <2>2. Kept(s)
    BY <1>1, <1>5, <2>1, CallFailsKept
  <2>3. Goes(s)
    BY <1>1, <1>5, FailGoes, GotoGoes, RemovingSteps
  <2> QED BY <2>2, <2>3 DEF Effect
<1> QED BY <1>3, <1>4, <1>5 DEF PrepareSwitch

LEMMA VerifyPrepareEffect ==
    ASSUME Facts, NEW s \in Switches, VerifyPrepare(s)
    PROVE  Effect(s)
<1>1. /\ s \in Resources /\ at[s] \in Removing
      /\ "remove" \in Removing /\ "remove" \in Steps
  BY Kinds DEF VerifyPrepare, Removing, Steps
<1>2. CASE Ran(host) /\ Fail(s)
  BY <1>1, <1>2, FailsEffect
<1>3. CASE PollFails(s)
  BY <1>1, <1>3, PollGoes DEF Effect
<1>4. CASE /\ Ran(host) /\ at' = [at EXCEPT ![s] = "remove"]
           /\ tries' = [tries EXCEPT ![s] = 0] /\ UNCHANGED <<memory, walk>>
  <2>1. tries' \in [Resources -> 0 .. VerifyAttempts - 1]
    BY <1>1, <1>4, TerraformAssumption DEF Facts, TypeOK
  <2>2. Goes(s)
    BY <1>1, <1>4, <2>1 DEF Goes
  <2> QED BY <1>1, <1>4, <2>2, SameWithin, RanKept DEF Effect
<1> QED BY <1>2, <1>3, <1>4 DEF VerifyPrepare

LEMMA RemoveVMSwitchEffect ==
    ASSUME Facts, NEW s \in Switches, RemoveVMSwitch(s)
    PROVE  Effect(s)
<1>1. /\ s \in Resources /\ at[s] \in Removing /\ host \in Hosts
      /\ "removeVerify" \in Removing
  BY Kinds DEF RemoveVMSwitch, Removing, Facts, TypeOK
<1>2. CASE /\ RemoveAccepts(host, s) /\ Ran(RemoveSwitch(host, s, st[s].nat)) /\ Deleted(s)
  <2>1. Kept(s) /\ host' = RemoveSwitch(host, s, st[s].nat)
    BY <1>1, <1>2, RemoveSwitchSpares, SameWithin, RanKept DEF Ran
  <2>2. host'.switch[s] = Null /\ (st[s].nat => host'.nat[s] = Null)
    BY <1>1, <2>1, RemoveSwitchSpares
  <2>3. ~Here(s)'
    BY <2>2, Kinds DEF Here, HasSwitch
  <2> QED BY <1>1, <1>2, <2>1, <2>2, <2>3 DEF Effect, Destroys
<1>3. CASE ~HasSwitch(host, s) /\ Ran(host) /\ Deleted(s)
  BY <1>1, <1>3, GoneDestroys
<1>4. CASE Ran(host) /\ Fail(s)
  BY <1>1, <1>4, FailsEffect
<1>5. CASE /\ CallFails(RemoveCall(s), RemovePartly(host, s, st[s].nat))
           /\ Fail(s) \/ Goto(s, "removeVerify")
  <2>1. /\ CallFits(RemoveCall(s))
        /\ \A h \in RemovePartly(host, s, st[s].nat) : Within(s, h)
    BY <1>1, RemovePartlySpares, SameWithin DEF CallFits, RemoveCall
  <2>2. Kept(s)
    BY <1>1, <1>5, <2>1, CallFailsKept
  <2>3. Goes(s)
    BY <1>1, <1>5, FailGoes, GotoGoes, RemovingSteps
  <2> QED BY <2>2, <2>3 DEF Effect
<1> QED BY <1>2, <1>3, <1>4, <1>5 DEF RemoveVMSwitch

LEMMA VerifyRemoveEffect ==
    ASSUME Facts, NEW s \in Switches, VerifyRemove(s)
    PROVE  Effect(s)
<1>1. s \in Resources /\ at[s] \in Removing
  BY Kinds DEF VerifyRemove, Removing
<1>2. CASE ~HasSwitch(host, s) /\ Ran(host) /\ Deleted(s)
  BY <1>1, <1>2, GoneDestroys
<1>3. CASE Ran(host) /\ Fail(s)
  BY <1>1, <1>3, FailsEffect
<1>4. CASE PollFails(s)
  BY <1>1, <1>4, PollGoes DEF Effect
<1> QED BY <1>2, <1>3, <1>4 DEF VerifyRemove

-----------------------------------------------------------------------------
(* The handlers of a mapping *)

LEMMA MappingReturns ==
    ASSUME Facts, NEW m \in Mappings, at[m] \in {"create", "update"},
           host' \in Hosts, cfg' = cfg, host'.map[m] = plan[m].to,
           NEW s \in ReadMapping(host', m)
    PROVE  /\ s \in States(m)
           /\ AsPlanned(s, plan[m]) => InSync(m)'
           /\ s.fw = Resolve(plan[m]) => AsPlanned(s, plan[m])
<1>1. /\ MappingPlan(plan[m]) /\ Agrees(m, {"fw"}) /\ WellFormedMapping(cfg[m])
      /\ m \in Resources /\ cfg[m] # NoConfig
  BY MappingAgrees, Kinds, TerraformAssumption DEF Agrees
<1>2. host'.map[m] \in Endpoints /\ HasMapping(host', m)
  BY <1>1, NothingAssumption DEF MappingPlan, HasMapping
<1>3. s \in States(m) /\ s.to = plan[m].to
  BY <1>2, ReadMappingIs
<1>4. AsPlanned(s, plan[m]) => AsPlanned(s, cfg[m])
  BY <1>1 DEF AsPlanned, Agrees
<1>5. ASSUME s.fw = Resolve(plan[m]) PROVE AsPlanned(s, plan[m])
  <2>1. DOMAIN plan[m] \subseteq {"to", "fw"}
    BY <1>1 DEF Agrees, WellFormedMapping
  <2>2. "fw" \in DOMAIN plan[m] => s.fw = plan[m].fw
    BY <1>5 DEF Resolve, Of
  <2> QED BY <1>3, <2>1, <2>2 DEF AsPlanned
<1> QED BY <1>1, <1>2, <1>3, <1>4, <1>5, MappingInSync

\* A mapping that is made or set is so as planned, unless it surprises.
LEMMA MappingWrites ==
    ASSUME Facts, NEW m \in Mappings, at[m] \in {"create", "update"},
           NEW h, host' = h, cfg' = cfg, Only(m, host, h), h.map[m] = plan[m].to,
           \/ h.rules[m] = {Resolve(plan[m])}
           \/ h.rules[m] = {} /\ ~Resolve(plan[m]).on
           \/ at[m] = "create" /\ host.rules[m] # {},
           NEW s \in ReadMapping(h, m), Return(m, s)
    PROVE  Writes(m)
<1>1. h \in Hosts /\ m \in Mappings \cup Proxies /\ Resolve(plan[m]) \in FirewallRules
  BY MappingAgrees DEF Only, MappingPlan
<1>2. /\ s \in States(m)
      /\ AsPlanned(s, plan[m]) => InSync(m)'
      /\ s.fw = Resolve(plan[m]) => AsPlanned(s, plan[m])
  BY <1>1, MappingReturns
<1>3. AsPlanned(s, plan[m]) \/ Surprising(m)
  <2>1. CASE at[m] = "create" /\ host.rules[m] # {}
    <3>1. op[m] = "create" /\ m \notin Switches
      BY <2>1, Kinds DEF Facts, Course
    <3> QED BY <2>1, <3>1 DEF Surprising
  <2>2. CASE h.rules[m] = {Resolve(plan[m])} \/ (h.rules[m] = {} /\ ~Resolve(plan[m]).on)
    <3>1. s.fw \in FirewallStates(h, m)
      BY DEF ReadMapping
    <3>2. \/ s.fw = Resolve(plan[m])
          \/ ~Resolve(plan[m]).on /\ Resolve(plan[m]).profile # AnyProfile
      BY <1>1, <2>2, <3>1, RuleReadsBack
    <3> QED BY <1>2, <3>2, Kinds DEF Surprising
  <2> QED BY <2>1, <2>2
<1> QED BY <1>2, <1>3 DEF Writes

LEMMA CreateMappingEffect ==
    ASSUME Facts, NEW m \in Mappings, CreateMapping(m)
    PROVE  Effect(m)
<1>1. m \in Resources /\ at[m] = "create" /\ host \in Hosts /\ MappingPlan(plan[m])
  BY Kinds, MappingAgrees DEF CreateMapping, Facts, TypeOK
<1>2. CASE /\ Ran(NewMapping(host, m, plan[m]))
           /\ \E s \in ReadMapping(host', m) : Return(m, s)
  <2> DEFINE h == NewMapping(host, m, plan[m])
  <2>1. /\ Only(m, host, h) /\ h.map[m] = plan[m].to
        /\ h.rules[m] = IF Resolve(plan[m]).on THEN host.rules[m] \cup {Resolve(plan[m])}
                          ELSE host.rules[m]
    BY <1>1, NewMappingOnly
  <2>2. \/ h.rules[m] = {Resolve(plan[m])}
        \/ h.rules[m] = {} /\ ~Resolve(plan[m]).on
        \/ at[m] = "create" /\ host.rules[m] # {}
    BY <1>1, <2>1
  <2>3. host' = h /\ cfg' = cfg
    BY <1>2 DEF Ran, user
  <2> HIDE DEF h
  <2>4. Writes(m)
    BY <1>1, <1>2, <2>1, <2>2, <2>3, MappingWrites
  <2>5. Kept(m)
    BY <1>1, <1>2, <2>1, SameWithin, RanKept DEF h
  <2> QED BY <2>4, <2>5 DEF Effect
<1>3. CASE Ran(host) /\ Fail(m)
  BY <1>1, <1>3, FailsEffect
<1>4. CASE CallFails(MappingCall("new", m), NewMappingPartly(host, m, plan[m])) /\ Fail(m)
  <2>1. /\ CallFits(MappingCall("new", m))
        /\ \A h \in NewMappingPartly(host, m, plan[m]) : Within(m, h)
    BY <1>1, MappingPartlyOnly, SameWithin DEF CallFits, MappingCall
  <2>2. Kept(m)
    BY <1>1, <1>4, <2>1, CallFailsKept
  <2> QED BY <1>1, <1>4, <2>2, FailGoes DEF Effect
<1> QED BY <1>2, <1>3, <1>4 DEF CreateMapping

LEMMA ReadMappingEffect ==
    ASSUME Facts, NEW m \in Mappings, ReadNatStaticMapping(m)
    PROVE  Effect(m)
<1>1. m \in Resources /\ at[m] = "read" /\ host \in Hosts
  BY Kinds DEF ReadNatStaticMapping, Facts, TypeOK
<1>2. CASE ReadFails /\ Fail(m)
  BY <1>1, <1>2, FailsEffect
<1>3. ASSUME Ran(host), NEW s \in IF HasMapping(host, m) THEN ReadMapping(host, m) ELSE {NoState},
             Refreshed(m, s)
      PROVE  Effect(m)
  <2>1. Kept(m) /\ host' = host
    BY <1>1, <1>3, SameWithin, RanKept DEF Ran
  <2>2. CASE HasMapping(host, m)
    <3>1. host.map[m] \in Endpoints
      BY <1>1, <2>2 DEF Hosts, HasMapping
    <3>2. s \in States(m) /\ s \in ReadMapping(host, m)
      BY <1>1, <1>3, <2>2, <3>1, ReadMappingIs
    <3>3. st'[m] = s
      BY <1>1, <1>3 DEF Refreshed, Facts, Shape
    <3>4. Current(m)'
      BY <2>1, <2>2, <3>2, <3>3, Kinds DEF Current
    <3>5. s # NoState
      BY <1>1, <3>2, NothingAssumption
    <3> QED BY <1>1, <1>3, <2>1, <3>2, <3>4, <3>5 DEF Effect, Reads
  <2>3. CASE ~HasMapping(host, m)
    <3>1. Refreshed(m, NoState) /\ ~Here(m)'
      BY <1>3, <2>1, <2>3, Kinds DEF Here
    <3> QED BY <1>1, <2>1, <3>1 DEF Effect, Reads
  <2> QED BY <2>2, <2>3
<1> QED BY <1>2, <1>3 DEF ReadNatStaticMapping

LEMMA UpdateMappingEffect ==
    ASSUME Facts, NEW m \in Mappings, UpdateMapping(m)
    PROVE  Effect(m)
<1>1. m \in Resources /\ at[m] = "update" /\ host \in Hosts /\ MappingPlan(plan[m])
  BY Kinds, MappingAgrees DEF UpdateMapping, Facts, TypeOK
<1>2. CASE /\ Ran(SetMapping(host, m, plan[m]))
           /\ \E s \in ReadMapping(host', m) : Return(m, s)
  <2> DEFINE h == SetMapping(host, m, plan[m])
  <2>1. /\ Only(m, host, h) /\ h.map[m] = plan[m].to
        /\ \/ h.rules[m] = {Resolve(plan[m])}
           \/ h.rules[m] = {} /\ ~Resolve(plan[m]).on
    BY <1>1, SetMappingOnly
  <2>2. host' = h /\ cfg' = cfg
    BY <1>2 DEF Ran, user
  <2> HIDE DEF h
  <2>3. Writes(m)
    BY <1>1, <1>2, <2>1, <2>2, MappingWrites
  <2>4. Kept(m)
    BY <1>1, <1>2, <2>1, SameWithin, RanKept DEF h
  <2> QED BY <2>3, <2>4 DEF Effect
<1>3. CASE Ran(host) /\ Fail(m)
  BY <1>1, <1>3, FailsEffect
<1>4. CASE CallFails(MappingCall("set", m), SetMappingPartly(host, m, plan[m])) /\ Fail(m)
  <2>1. /\ CallFits(MappingCall("set", m))
        /\ \A h \in SetMappingPartly(host, m, plan[m]) : Within(m, h)
    BY <1>1, MappingPartlyOnly, SameWithin DEF CallFits, MappingCall
  <2>2. Kept(m)
    BY <1>1, <1>4, <2>1, CallFailsKept
  <2> QED BY <1>1, <1>4, <2>2, FailGoes DEF Effect
<1> QED BY <1>2, <1>3, <1>4 DEF UpdateMapping

LEMMA DeleteMappingEffect ==
    ASSUME Facts, NEW m \in Mappings, DeleteMapping(m)
    PROVE  Effect(m)
<1>1. m \in Resources /\ at[m] \in Removing /\ host \in Hosts /\ m \notin Switches
  BY Kinds DEF DeleteMapping, Removing, Facts, TypeOK
<1>2. CASE Ran(RemoveMapping(host, m)) /\ Deleted(m)
  <2>1. Kept(m) /\ host' = RemoveMapping(host, m)
    BY <1>1, <1>2, RemoveMappingOnly, SameWithin, RanKept DEF Ran
  <2>2. host'.map[m] = Null /\ host'.rules[m] = {}
    BY <1>1, <2>1, RemoveMappingOnly
  <2>3. ~Here(m)'
    BY <2>2, Kinds DEF Here, HasMapping
  <2> QED BY <1>1, <1>2, <2>1, <2>2, <2>3 DEF Effect, Destroys
<1>3. CASE CallFails(MappingCall("remove", m), RemoveMappingPartly(host, m)) /\ Fail(m)
  <2>1. /\ CallFits(MappingCall("remove", m))
        /\ \A h \in RemoveMappingPartly(host, m) : Within(m, h)
    BY <1>1, MappingPartlyOnly, SameWithin DEF CallFits, MappingCall
  <2>2. Kept(m)
    BY <1>1, <1>3, <2>1, CallFailsKept
  <2> QED BY <1>1, <1>3, <2>2, FailGoes DEF Effect
<1> QED BY <1>2, <1>3 DEF DeleteMapping

-----------------------------------------------------------------------------
(* The handlers of a portproxy *)

LEMMA ProxyReturns ==
    ASSUME Facts, NEW p \in Proxies, at[p] \in {"create", "update"},
           host' \in Hosts, cfg' = cfg,
           host'.proxy[p] = [to |-> plan[p].to, listening |-> TRUE],
           NEW s \in ReadProxy(host', p)
    PROVE  /\ s \in States(p)
           /\ AsPlanned(s, plan[p]) => InSync(p)'
           /\ s.fw = Resolve(plan[p]) => AsPlanned(s, plan[p])
<1>1. /\ ProxyPlan(plan[p]) /\ Agrees(p, {"fw"}) /\ WellFormedProxy(cfg[p])
      /\ p \in Resources /\ cfg[p] # NoConfig
  BY ProxyAgrees, Kinds, TerraformAssumption DEF Agrees
<1>2. host'.proxy[p] \in ProxyType
  BY <1>1 DEF ProxyPlan, ProxyType
<1>3. HasProxy(host', p)
  BY <1>2, NothingAssumption DEF HasProxy
<1>4. s \in States(p) /\ s.to = plan[p].to /\ s.listening = TRUE
  BY <1>2, ReadProxyIs
<1>5. AsPlanned(s, plan[p]) => AsPlanned(s, cfg[p])
  BY <1>1 DEF AsPlanned, Agrees
<1>6. ASSUME s.fw = Resolve(plan[p]) PROVE AsPlanned(s, plan[p])
  <2>1. DOMAIN plan[p] \subseteq {"to", "listening", "fw"}
    BY <1>1 DEF Agrees, WellFormedProxy
  <2>2. "fw" \in DOMAIN plan[p] => s.fw = plan[p].fw
    BY <1>6 DEF Resolve, Of
  <2>3. plan[p].listening = TRUE
    BY <1>1 DEF Agrees, WellFormedProxy
  <2> QED BY <1>4, <2>1, <2>2, <2>3 DEF AsPlanned
<1> QED BY <1>1, <1>3, <1>4, <1>5, <1>6, ProxyInSync

\* A rule that is made or set is so as planned, unless it surprises.
LEMMA ProxyWrites ==
    ASSUME Facts, NEW p \in Proxies, at[p] \in {"create", "update"},
           NEW h, host' = h, cfg' = cfg, Only(p, host, h),
           h.proxy[p] = [to |-> plan[p].to, listening |-> TRUE],
           \/ h.rules[p] = {Resolve(plan[p])}
           \/ h.rules[p] = {} /\ ~Resolve(plan[p]).on
           \/ at[p] = "create" /\ host.rules[p] # {},
           NEW s \in ReadProxy(h, p), Return(p, s)
    PROVE  Writes(p)
<1>1. h \in Hosts /\ p \in Mappings \cup Proxies /\ Resolve(plan[p]) \in FirewallRules
  BY ProxyAgrees DEF Only, ProxyPlan
<1>2. /\ s \in States(p)
      /\ AsPlanned(s, plan[p]) => InSync(p)'
      /\ s.fw = Resolve(plan[p]) => AsPlanned(s, plan[p])
  BY <1>1, ProxyReturns
<1>3. AsPlanned(s, plan[p]) \/ Surprising(p)
  <2>1. CASE at[p] = "create" /\ host.rules[p] # {}
    <3>1. op[p] = "create" /\ p \notin Switches
      BY <2>1, Kinds DEF Facts, Course
    <3> QED BY <2>1, <3>1 DEF Surprising
  <2>2. CASE h.rules[p] = {Resolve(plan[p])} \/ (h.rules[p] = {} /\ ~Resolve(plan[p]).on)
    <3>1. s.fw \in FirewallStates(h, p)
      BY DEF ReadProxy
    <3>2. \/ s.fw = Resolve(plan[p])
          \/ ~Resolve(plan[p]).on /\ Resolve(plan[p]).profile # AnyProfile
      BY <1>1, <2>2, <3>1, RuleReadsBack
    <3> QED BY <1>2, <3>2, Kinds DEF Surprising
  <2> QED BY <2>1, <2>2
<1> QED BY <1>2, <1>3 DEF Writes

LEMMA CreateProxyEffect ==
    ASSUME Facts, NEW p \in Proxies, CreateProxy(p)
    PROVE  Effect(p)
<1>1. p \in Resources /\ at[p] = "create" /\ host \in Hosts /\ ProxyPlan(plan[p])
  BY Kinds, ProxyAgrees DEF CreateProxy, Facts, TypeOK
<1>2. CASE /\ Ran(NewProxy(host, p, plan[p]))
           /\ \E s \in ReadProxy(host', p) : Return(p, s)
  <2> DEFINE h == NewProxy(host, p, plan[p])
  <2>1. /\ Only(p, host, h) /\ h.proxy[p] = [to |-> plan[p].to, listening |-> TRUE]
        /\ h.rules[p] = IF Resolve(plan[p]).on THEN host.rules[p] \cup {Resolve(plan[p])}
                          ELSE host.rules[p]
    BY <1>1, NewProxyOnly
  <2>2. \/ h.rules[p] = {Resolve(plan[p])}
        \/ h.rules[p] = {} /\ ~Resolve(plan[p]).on
        \/ at[p] = "create" /\ host.rules[p] # {}
    BY <1>1, <2>1
  <2>3. host' = h /\ cfg' = cfg
    BY <1>2 DEF Ran, user
  <2> HIDE DEF h
  <2>4. Writes(p)
    BY <1>1, <1>2, <2>1, <2>2, <2>3, ProxyWrites
  <2>5. Kept(p)
    BY <1>1, <1>2, <2>1, SameWithin, RanKept DEF h
  <2> QED BY <2>4, <2>5 DEF Effect
<1>3. CASE Ran(host) /\ Fail(p)
  BY <1>1, <1>3, FailsEffect
<1>4. CASE CallFails(ProxyCall("new", p), NewProxyPartly(host, p, plan[p])) /\ Fail(p)
  <2>1. /\ CallFits(ProxyCall("new", p))
        /\ \A h \in NewProxyPartly(host, p, plan[p]) : Within(p, h)
    BY <1>1, ProxyPartlyOnly, SameWithin DEF CallFits, ProxyCall
  <2>2. Kept(p)
    BY <1>1, <1>4, <2>1, CallFailsKept
  <2> QED BY <1>1, <1>4, <2>2, FailGoes DEF Effect
<1> QED BY <1>2, <1>3, <1>4 DEF CreateProxy

LEMMA ReadProxyEffect ==
    ASSUME Facts, NEW p \in Proxies, ReadPortProxy(p)
    PROVE  Effect(p)
<1>1. p \in Resources /\ at[p] = "read" /\ host \in Hosts
  BY Kinds DEF ReadPortProxy, Facts, TypeOK
<1>2. CASE ReadFails /\ Fail(p)
  BY <1>1, <1>2, FailsEffect
<1>3. ASSUME Ran(host), NEW s \in IF HasProxy(host, p) THEN ReadProxy(host, p) ELSE {NoState},
             Refreshed(p, s)
      PROVE  Effect(p)
  <2>1. Kept(p) /\ host' = host
    BY <1>1, <1>3, SameWithin, RanKept DEF Ran
  <2>2. CASE HasProxy(host, p)
    <3>1. host.proxy[p] \in ProxyType
      BY <1>1, <2>2 DEF Hosts, HasProxy
    <3>2. s \in States(p) /\ s \in ReadProxy(host, p)
      BY <1>1, <1>3, <2>2, <3>1, ReadProxyIs
    <3>3. st'[p] = s
      BY <1>1, <1>3 DEF Refreshed, Facts, Shape
    <3>4. Current(p)'
      BY <2>1, <2>2, <3>2, <3>3, Kinds DEF Current
    <3>5. s # NoState
      BY <1>1, <3>2, NothingAssumption
    <3> QED BY <1>1, <1>3, <2>1, <3>2, <3>4, <3>5 DEF Effect, Reads
  <2>3. CASE ~HasProxy(host, p)
    <3>1. Refreshed(p, NoState) /\ ~Here(p)'
      BY <1>3, <2>1, <2>3, Kinds DEF Here
    <3> QED BY <1>1, <2>1, <3>1 DEF Effect, Reads
  <2> QED BY <2>2, <2>3
<1> QED BY <1>2, <1>3 DEF ReadPortProxy

LEMMA UpdateProxyEffect ==
    ASSUME Facts, NEW p \in Proxies, UpdateProxy(p)
    PROVE  Effect(p)
<1>1. p \in Resources /\ at[p] = "update" /\ host \in Hosts /\ ProxyPlan(plan[p])
  BY Kinds, ProxyAgrees DEF UpdateProxy, Facts, TypeOK
<1>2. CASE /\ Ran(SetProxy(host, p, plan[p]))
           /\ \E s \in ReadProxy(host', p) : Return(p, s)
  <2> DEFINE h == SetProxy(host, p, plan[p])
  <2>1. /\ Only(p, host, h) /\ h.proxy[p] = [to |-> plan[p].to, listening |-> TRUE]
        /\ \/ h.rules[p] = {Resolve(plan[p])}
           \/ h.rules[p] = {} /\ ~Resolve(plan[p]).on
    BY <1>1, SetProxyOnly
  <2>2. host' = h /\ cfg' = cfg
    BY <1>2 DEF Ran, user
  <2> HIDE DEF h
  <2>3. Writes(p)
    BY <1>1, <1>2, <2>1, <2>2, ProxyWrites
  <2>4. Kept(p)
    BY <1>1, <1>2, <2>1, SameWithin, RanKept DEF h
  <2> QED BY <2>3, <2>4 DEF Effect
<1>3. CASE Ran(host) /\ Fail(p)
  BY <1>1, <1>3, FailsEffect
<1>4. CASE Ran(Forwarding(host, p, plan[p].to, FALSE)) /\ Fail(p)
  <2>1. Only(p, host, Forwarding(host, p, plan[p].to, FALSE))
    BY <1>1, ForwardingOnly DEF ProxyPlan
  <2> QED BY <1>1, <1>4, <2>1, SameWithin, RanKept, FailGoes DEF Effect
<1>5. CASE CallFails(ProxyCall("set", p), SetProxyPartly(host, p, plan[p])) /\ Fail(p)
  <2>1. /\ CallFits(ProxyCall("set", p))
        /\ \A h \in SetProxyPartly(host, p, plan[p]) : Within(p, h)
    BY <1>1, ProxyPartlyOnly, SameWithin DEF CallFits, ProxyCall
  <2>2. Kept(p)
    BY <1>1, <1>5, <2>1, CallFailsKept
  <2> QED BY <1>1, <1>5, <2>2, FailGoes DEF Effect
<1> QED BY <1>2, <1>3, <1>4, <1>5 DEF UpdateProxy

LEMMA DeleteProxyEffect ==
    ASSUME Facts, NEW p \in Proxies, DeleteProxy(p)
    PROVE  Effect(p)
<1>1. p \in Resources /\ at[p] \in Removing /\ host \in Hosts /\ p \notin Switches
  BY Kinds DEF DeleteProxy, Removing, Facts, TypeOK
<1>2. CASE Ran(RemoveProxy(host, p)) /\ Deleted(p)
  <2>1. Kept(p) /\ host' = RemoveProxy(host, p)
    BY <1>1, <1>2, RemoveProxyOnly, SameWithin, RanKept DEF Ran
  <2>2. host'.proxy[p] = Null /\ host'.rules[p] = {}
    BY <1>1, <2>1, RemoveProxyOnly
  <2>3. ~Here(p)'
    BY <2>2, Kinds DEF Here, HasProxy
  <2> QED BY <1>1, <1>2, <2>1, <2>2, <2>3 DEF Effect, Destroys
<1>3. CASE CallFails(ProxyCall("remove", p), RemoveProxyPartly(host, p)) /\ Fail(p)
  <2>1. /\ CallFits(ProxyCall("remove", p))
        /\ \A h \in RemoveProxyPartly(host, p) : Within(p, h)
    BY <1>1, ProxyPartlyOnly, SameWithin DEF CallFits, ProxyCall
  <2>2. Kept(p)
    BY <1>1, <1>3, <2>1, CallFailsKept
  <2> QED BY <1>1, <1>3, <2>2, FailGoes DEF Effect
<1> QED BY <1>2, <1>3 DEF DeleteProxy

LEMMA HandlersEffect ==
    ASSUME Facts, NEW r \in Resources, Step(r)
    PROVE  Effect(r)
<1>1. CASE r \in Switches /\ SwitchStep(r)
  BY <1>1, CreateSwitchEffect, VerifyCreateEffect, ReadVMSwitchEffect, UpdateSwitchEffect,
     DeleteSwitchEffect, PrepareSwitchEffect, VerifyPrepareEffect, RemoveVMSwitchEffect,
     VerifyRemoveEffect
     DEF SwitchStep
<1>2. CASE r \in Mappings /\ MappingStep(r)
  BY <1>2, CreateMappingEffect, ReadMappingEffect, UpdateMappingEffect, DeleteMappingEffect
     DEF MappingStep
<1>3. CASE r \in Proxies /\ ProxyStep(r)
  BY <1>3, CreateProxyEffect, ReadProxyEffect, UpdateProxyEffect, DeleteProxyEffect
     DEF ProxyStep
<1> QED BY <1>1, <1>2, <1>3 DEF Step

-----------------------------------------------------------------------------
(* A step keeps the invariant *)

\* What a handler leaves alone of the other resources.
LEMMA EffectOthers ==
    ASSUME Inv, Facts, NEW r \in workspace, Effect(r)
    PROVE  /\ r \in Resources
           /\ UNCHANGED <<workspace, cfg, phase, plan, disturbed>>
           /\ \A q \in Resources \ {r} :
                  /\ at'[q] = at[q] /\ st'[q] = st[q] /\ op'[q] = op[q]
                  /\ q \in tainted' <=> q \in tainted
           /\ op'[r] = op[r] \/ (op[r] = "replace" /\ op'[r] = "create")
<1>1. r \in Resources /\ Shape /\ Kept(r)
  BY DEF Inv, Shape, Effect
<1>2. CASE Goes(r)
  BY <1>1, <1>2 DEF Goes, Kept, memory, walk, Shape
<1>3. ASSUME NEW s, Refreshed(r, s) \/ Return(r, s)
      PROVE  /\ UNCHANGED <<phase, op, plan>>
             /\ \A q \in Resources \ {r} :
                    at'[q] = at[q] /\ st'[q] = st[q] /\ (q \in tainted' <=> q \in tainted)
  BY <1>1, <1>3 DEF Refreshed, Return, walk, Shape
<1>4. CASE Reads(r) \/ Writes(r)
  BY <1>1, <1>3, <1>4 DEF Reads, Writes, Kept
<1>5. CASE Destroys(r)
  BY <1>1, <1>5 DEF Destroys, Deleted, Kept, Shape
<1> QED BY <1>2, <1>4, <1>5 DEF Effect

\* What belongs to a resource decides whether it is in sync and as Terraform
\* knows it.
LEMMA SamePartSame ==
    ASSUME NEW q \in Resources, SamePart(q, host, host'), cfg' = cfg
    PROVE  /\ InSync(q)' = InSync(q)
           /\ st'[q] = st[q] => Current(q)' = Current(q)
<1>1. CASE q \in Switches
  <2>1. q \notin Mappings /\ q \notin Proxies
    BY <1>1, Kinds
  <2>2. host'.switch[q] = host.switch[q] /\ host'.nat[q] = host.nat[q]
    BY <1>1 DEF SamePart
  <2>3. \A nat, named, adapter, force :
            ReadSwitch(host', q, nat, named, adapter, force) = ReadSwitch(host, q, nat, named, adapter, force)
    BY <2>2 DEF ReadSwitch
  <2>4. HasSwitch(host', q) = HasSwitch(host, q)
    BY <2>2 DEF HasSwitch
  <2>5. Here(q)' = Here(q) /\ Readings(q)' = Readings(q)
    <3>1. Here(q)' = Here(q)
      BY <1>1, <2>1, <2>4 DEF Here
    <3>2. Readings(q)' = Readings(q)
      BY <1>1, <2>1, <2>3 DEF Readings
    <3> QED BY <3>1, <3>2
  <2>6. InSync(q)' = InSync(q)
    BY <1>1, <2>5 DEF InSync
  <2>7. st'[q] = st[q] => Current(q)' = Current(q)
    BY <1>1, <2>1, <2>3, <2>4 DEF Current, Refresh
  <2> QED BY <2>6, <2>7
<1>2. CASE q \in Mappings
  <2>1. q \notin Switches /\ q \notin Proxies
    BY <1>2, Kinds
  <2>2. host'.map[q] = host.map[q] /\ host'.rules[q] = host.rules[q]
    BY <1>2, <2>1 DEF SamePart
  <2>3. ReadMapping(host', q) = ReadMapping(host, q) /\ HasMapping(host', q) = HasMapping(host, q)
    BY <2>2 DEF ReadMapping, HasMapping, FirewallStates
  <2>4. Here(q)' = Here(q) /\ Readings(q)' = Readings(q)
    BY <1>2, <2>1, <2>3 DEF Here, Readings
  <2>5. InSync(q)' = InSync(q)
    BY <2>1, <2>2, <2>4 DEF InSync
  <2>6. st'[q] = st[q] => Current(q)' = Current(q)
    BY <1>2, <2>1, <2>3 DEF Current
  <2> QED BY <2>5, <2>6
<1>3. CASE q \in Proxies
  <2>1. q \notin Switches /\ q \notin Mappings
    BY <1>3, Kinds
  <2>2. host'.proxy[q] = host.proxy[q] /\ host'.rules[q] = host.rules[q]
    BY <1>3, <2>1 DEF SamePart
  <2>3. ReadProxy(host', q) = ReadProxy(host, q) /\ HasProxy(host', q) = HasProxy(host, q)
    BY <2>2 DEF ReadProxy, HasProxy, FirewallStates
  <2>4. Here(q)' = Here(q) /\ Readings(q)' = Readings(q)
    BY <1>3, <2>1, <2>3 DEF Here, Readings
  <2>5. InSync(q)' = InSync(q)
    BY <2>1, <2>2, <2>4 DEF InSync
  <2>6. st'[q] = st[q] => Current(q)' = Current(q)
    BY <1>3, <2>1, <2>3 DEF Current
  <2> QED BY <2>5, <2>6
<1> QED BY <1>1, <1>2, <1>3, Kinds

LEMMA OthersAsBefore ==
    ASSUME Inv, Facts, NEW r \in workspace, Effect(r), NEW q \in Resources \ {r}
    PROVE  /\ Course(q)' /\ Asked(q)'
           /\ q \in workspace => AsRead(q)' /\ Settled(q)'
<1>1. /\ UNCHANGED <<workspace, cfg, phase, plan, disturbed>>
      /\ at'[q] = at[q] /\ st'[q] = st[q] /\ op'[q] = op[q]
  BY EffectOthers
<1>2. Course(q) /\ Asked(q)
  BY DEF Facts
<1>3. Course(q)' /\ Asked(q)'
  BY <1>1, <1>2 DEF Course, Asked
<1>4. SamePart(q, host, host') \/ (q \in Mappings /\ NatOf[q] = r /\ op[r] \in {"delete", "replace"})
  BY DEF Effect, Kept, Within
<1>5. ASSUME q \in workspace PROVE AsRead(q)'
  <2> SUFFICES ASSUME ~disturbed, st[q] # NoState,
                      (phase = "refresh" /\ at[q] = "ok") \/ (q \in Switches /\ at[q] = "update")
               PROVE  Current(q)'
    BY <1>1 DEF AsRead
  <2>1. Current(q)
    BY <1>5 DEF Facts, AsRead
  <2>2. SamePart(q, host, host')
    BY <1>4, Kinds, EffectOthers DEF Facts, Course
  <2> QED BY <1>1, <2>1, <2>2, SamePartSame
<1>6. ASSUME q \in workspace PROVE Settled(q)'
  <2> SUFFICES ASSUME phase = "apply", ~disturbed, at[q] = "ok"
               PROVE  InSync(q)' \/ Lost(q)' \/ Unknown(q)'
    BY <1>1 DEF Settled
  <2>1. InSync(q) \/ Lost(q) \/ Unknown(q)
    BY <1>6 DEF Facts, Settled
  <2>2. CASE Unknown(q)
    BY <1>1, <2>2 DEF Unknown
  <2>3. CASE Lost(q)
    <3>1. op'[NatOf[q]] \in {"create", "delete", "replace"}
      BY <2>3, EffectOthers, Kinds DEF Lost
    <3> QED BY <2>3, <3>1 DEF Lost
  <2>4. CASE InSync(q) /\ SamePart(q, host, host')
    BY <1>1, <2>4, SamePartSame
  <2>5. CASE q \in Mappings /\ NatOf[q] = r /\ op[r] \in {"delete", "replace"}
    <3>1. op'[r] \in {"create", "delete", "replace"}
      BY <2>5, EffectOthers
    <3> QED BY <2>5, <3>1 DEF Lost
  <2> QED BY <1>4, <2>1, <2>2, <2>3, <2>4, <2>5
<1> QED BY <1>3, <1>5, <1>6

LEMMA GoesKeeps ==
    ASSUME Inv, Facts, NEW r \in workspace, Kept(r), Goes(r), at[r] \notin Ended \cup {"none"}
    PROVE  Course(r)' /\ Asked(r)' /\ AsRead(r)' /\ Settled(r)'
<1>1. /\ r \in Resources /\ at \in [Resources -> Steps]
      /\ UNCHANGED <<workspace, cfg, disturbed, st, phase, op, plan>>
  BY DEF Inv, Shape, Kept, Goes, memory, walk
<1>2. Course(r) /\ Asked(r) /\ AsRead(r)
  BY <1>1 DEF Facts
<1>3. PICK x \in Steps :
          /\ at'[r] = x
          /\ \/ x = "error"
             \/ x = at[r] /\ UNCHANGED host
             \/ at[r] = "create" /\ x = "createVerify"
             \/ at[r] \in Removing /\ x \in Removing
  BY <1>1 DEF Goes
<1>4. Course(r)'
  BY <1>1, <1>2, <1>3 DEF Course, Removing, Ended
<1>5. Asked(r)'
  BY <1>1, <1>2, <1>3 DEF Asked, Removing
<1>6. AsRead(r)'
  <2> SUFFICES ASSUME ~disturbed, st[r] # NoState,
                      (phase = "refresh" /\ at'[r] = "ok") \/ (r \in Switches /\ at'[r] = "update")
               PROVE  Current(r)'
    BY <1>1 DEF AsRead
  <2>1. at[r] = "update" /\ r \in Switches /\ UNCHANGED host
    BY <1>3 DEF Removing, Ended
  <2>2. Current(r)
    BY <1>2, <2>1 DEF AsRead
  <2>3. SamePart(r, host, host')
    BY <2>1 DEF SamePart
  <2> QED BY <1>1, <2>2, <2>3, SamePartSame
<1>7. Settled(r)'
  BY <1>3 DEF Settled, Removing, Ended
<1> QED BY <1>4, <1>5, <1>6, <1>7

LEMMA ReadsKeeps ==
    ASSUME Inv, Facts, NEW r \in workspace, Kept(r), Reads(r)
    PROVE  Course(r)' /\ Asked(r)' /\ AsRead(r)' /\ Settled(r)'
<1>1. r \in Resources /\ Shape /\ Course(r)
  BY DEF Inv, Shape, Facts
<1>2. PICK s \in States(r) \cup {NoState} :
          Refreshed(r, s) /\ IF s = NoState THEN ~Here(r)' ELSE Current(r)'
  BY DEF Reads
<1>3. /\ at'[r] = "ok" /\ st'[r] = s
      /\ UNCHANGED <<workspace, cfg, phase, op, plan>>
  BY <1>1, <1>2 DEF Refreshed, Shape, walk, Kept
<1>4. phase = "refresh" /\ op[r] = "none"
  BY <1>1 DEF Reads, Course, Shape
<1>5. Course(r)' /\ Asked(r)' /\ Settled(r)'
  <2>1. at'[r] = "ok" /\ phase' = "refresh" /\ op'[r] = "none"
    BY <1>3, <1>4
  <2>2. Course(r)'
    BY <2>1 DEF Course, Removing
  <2> QED BY <2>1, <2>2 DEF Asked, Settled
<1>6. AsRead(r)'
  BY <1>2, <1>3 DEF AsRead
<1> QED BY <1>5, <1>6

LEMMA WritesKeeps ==
    ASSUME Inv, Facts, NEW r \in workspace, Kept(r), Writes(r)
    PROVE  Course(r)' /\ Asked(r)' /\ AsRead(r)' /\ Settled(r)'
<1>1. r \in Resources /\ Shape /\ Course(r) /\ Asked(r)
  BY DEF Inv, Shape, Facts
<1>2. PICK s \in States(r) : Return(r, s) /\ (AsPlanned(s, plan[r]) => InSync(r)')
  BY DEF Writes
<1>3. /\ at'[r] = IF AsPlanned(s, plan[r]) THEN "ok" ELSE "inconsistent"
      /\ UNCHANGED <<workspace, cfg, phase, op, plan>>
  BY <1>1, <1>2 DEF Return, Shape, walk, Kept
<1>4. phase = "apply" /\ op[r] \in {"create", "update"}
  BY <1>1 DEF Writes, Course, Shape
<1>5. Course(r)'
  BY <1>1, <1>3, <1>4 DEF Course, Removing
<1>6. Asked(r)' /\ AsRead(r)'
  BY <1>1, <1>3, <1>4 DEF Asked, AsRead
<1>7. Settled(r)'
  BY <1>2, <1>3 DEF Settled
<1> QED BY <1>5, <1>6, <1>7

LEMMA DestroysKeeps ==
    ASSUME Inv, Facts, NEW r \in workspace, Kept(r), Destroys(r)
    PROVE  Course(r)' /\ Asked(r)' /\ AsRead(r)' /\ Settled(r)'
<1>1. r \in Resources /\ Shape /\ Course(r) /\ Asked(r)
  BY DEF Inv, Shape, Facts
<1>2. /\ st'[r] = NoState
      /\ op'[r] = IF op[r] = "replace" THEN "create" ELSE op[r]
      /\ at'[r] = IF op[r] = "replace" THEN "create" ELSE "ok"
      /\ UNCHANGED <<workspace, cfg, phase, plan>>
  BY <1>1 DEF Destroys, Deleted, Shape, Kept
<1>3. phase = "apply" /\ op[r] \in {"delete", "replace"}
  BY <1>1 DEF Destroys, Course
<1>4. Course(r)' /\ Asked(r)' /\ AsRead(r)'
  BY <1>1, <1>2, <1>3 DEF Course, Asked, AsRead, Removing
<1>5. CASE op[r] = "delete"
  <2>1. cfg'[r] = NoConfig
    BY <1>1, <1>2, <1>5 DEF Asked
  <2>2. InSync(r)'
    BY <2>1 DEF InSync, Destroys
  <2> QED BY <1>4, <2>2 DEF Settled
<1>6. CASE op[r] = "replace"
  BY <1>2, <1>4, <1>6 DEF Settled
<1> QED BY <1>3, <1>5, <1>6

LEMMA EffectTypes ==
    ASSUME Inv, Facts, NEW r \in workspace, OwnStep(r), Shape', Effect(r)
    PROVE  TypeOK'
<1>1. /\ r \in Resources /\ TypeOK /\ Shape /\ Kept(r)
      /\ UNCHANGED <<workspace, cfg, phase, plan, disturbed>>
  BY EffectOthers DEF Facts, Effect
<1>2. host' \in Hosts /\ events' \in Nat /\ inside' \subseteq Resources \X Steps
  BY <1>1 DEF Kept, Within, TypeOK, OwnStep
<1>3. ASSUME NEW s \in States(r) \cup {NoState}, st' = [st EXCEPT ![r] = s],
             tainted' \subseteq tainted \cup {r}, s = NoState => r \notin tainted'
      PROVE  /\ \A q \in Resources : st'[q] \in States(q) \cup {NoState}
             /\ tainted' \subseteq {q \in Resources : st'[q] # NoState}
  BY <1>1, <1>3 DEF TypeOK, Shape
<1>4. ASSUME tries' = tries \/ tries' = [tries EXCEPT ![r] = 0]
      PROVE  tries' \in [Resources -> 0 .. VerifyAttempts - 1]
  <2>1. 0 \in 0 .. VerifyAttempts - 1
    BY TerraformAssumption
  <2> QED BY <1>1, <1>4, <2>1 DEF TypeOK
<1>5. /\ \A q \in Resources : st'[q] \in States(q) \cup {NoState}
      /\ tainted' \subseteq {q \in Resources : st'[q] # NoState}
      /\ tries' \in [Resources -> 0 .. VerifyAttempts - 1]
  <2>1. CASE Goes(r)
    BY <1>1, <2>1 DEF Goes, memory, TypeOK
  <2>2. CASE Reads(r)
    <3>1. PICK s \in States(r) \cup {NoState} : Refreshed(r, s)
      BY <2>2 DEF Reads
    <3>2. /\ st' = [st EXCEPT ![r] = s] /\ tries' = tries
          /\ tainted' \subseteq tainted /\ (s = NoState => r \notin tainted')
      BY <3>1 DEF Refreshed
    <3> QED BY <1>3, <1>4, <3>2
  <2>3. CASE Writes(r)
    <3>1. PICK s \in States(r) : Return(r, s)
      BY <2>3 DEF Writes
    <3>2. s # NoState
      BY <1>1, NothingAssumption
    <3>3. /\ st' = [st EXCEPT ![r] = s] /\ tries' = [tries EXCEPT ![r] = 0]
          /\ tainted' \subseteq tainted \cup {r}
      BY <3>1 DEF Return
    <3> QED BY <1>3, <1>4, <3>2, <3>3
  <2>4. CASE Destroys(r)
    <3>1. /\ st' = [st EXCEPT ![r] = NoState] /\ tries' = [tries EXCEPT ![r] = 0]
          /\ tainted' \subseteq tainted /\ r \notin tainted'
      BY <2>4 DEF Destroys, Deleted
    <3> QED BY <1>3, <1>4, <3>1
  <2> QED BY <2>1, <2>2, <2>3, <2>4 DEF Effect
<1> QED BY <1>1, <1>2, <1>5 DEF TypeOK, Shape

LEMMA EffectKeeps ==
    ASSUME Inv, Facts, NEW r \in workspace, OwnStep(r), Effect(r)
    PROVE  Facts'
<1>1. Shape' /\ TypeOK'
  BY OwnKeeps, EffectTypes DEF Inv
<1>2. late' # NoCall => CallFits(late')
  BY DEF Effect, Kept
<1>3. at[r] \notin Ended \cup {"none"}
  BY DEF Inv, Running, OwnStep
<1>4. Course(r)' /\ Asked(r)' /\ AsRead(r)' /\ Settled(r)'
  BY <1>3, GoesKeeps, ReadsKeeps, WritesKeeps, DestroysKeeps DEF Effect
<1>5. \A q \in Resources : Course(q)' /\ Asked(q)' /\ (q \in workspace => AsRead(q)' /\ Settled(q)')
  BY <1>4, OthersAsBefore
<1>6. workspace' = workspace /\ workspace \subseteq Resources
  BY DEF OwnStep, Inv, Shape
<1>7. \A q \in Resources : Course(q)' /\ Asked(q)'
  BY <1>5
<1>8. \A q \in workspace' : AsRead(q)' /\ Settled(q)'
  BY <1>5, <1>6
<1>9. (late # NoCall => CallFits(late))'
  BY <1>2 DEF CallFits
<1> QED BY <1>1, <1>7, <1>8, <1>9 DEF Facts

-----------------------------------------------------------------------------
(* Terraform, the user and others *)

LEMMA FactsInit == Init => Facts
<1> SUFFICES ASSUME Init PROVE Facts
  OBVIOUS
<1> USE DEF Init, InitTerraform
<1>1. Shape
  BY InvInit DEF Inv
<1>2. host \in Hosts
  BY DEF EmptyHost, Hosts
<1>3. 0 \in 0 .. VerifyAttempts - 1
  BY TerraformAssumption
<1>4. TypeOK
  BY <1>1, <1>2, <1>3 DEF TypeOK, Shape
<1>5. \A r \in Resources : Course(r) /\ Asked(r) /\ AsRead(r) /\ Settled(r)
  BY DEF Course, Asked, AsRead, Settled, Removing
<1> QED BY <1>1, <1>4, <1>5 DEF Facts, Shape

\* Nothing is planned or runs between two applies.
LEMMA IdleRests ==
    ASSUME Facts, phase = "idle"
    PROVE  \A r \in Resources : at[r] = "none" /\ op[r] = "none"
  BY DEF Facts, Course, TypeOK

LEMMA IdleFits ==
    ASSUME NEW r \in Resources, phase' = "idle", at'[r] = "none", op'[r] = "none"
    PROVE  Course(r)' /\ Asked(r)' /\ AsRead(r)' /\ Settled(r)'
  BY DEF Course, Asked, AsRead, Settled, Removing

LEMMA QuietFacts ==
    ASSUME Facts, Shape', Quiet, UNCHANGED inside
    PROVE  Facts'
<1>1. \A r \in Resources : Course(r)' /\ Asked(r)' /\ AsRead(r)' /\ Settled(r)'
  BY IdleFits DEF Quiet
<1>2. UNCHANGED <<workspace, cfg, st, tainted, host, late, events, inside>>
  BY DEF Quiet, user, memory
<1>3. 0 \in 0 .. VerifyAttempts - 1
  BY TerraformAssumption
<1>4. TypeOK'
  BY <1>2, <1>3 DEF Facts, TypeOK, Quiet, Shape, Steps, Ended
<1>5. workspace' \subseteq Resources /\ (late # NoCall => CallFits(late))'
  BY <1>2 DEF Facts, Shape, CallFits
<1> QED BY <1>1, <1>4, <1>5 DEF Facts

LEMMA StartFacts ==
    ASSUME Facts, Shape', Start, UNCHANGED inside
    PROVE  Facts'
<1>1. /\ phase' = "refresh"
      /\ UNCHANGED <<workspace, cfg, st, tainted, op, plan, tries, host, late, disturbed,
                     events, inside>>
  BY DEF Start, user, memory, world
<1>2. \A r \in Resources : /\ op[r] = "none"
                           /\ at'[r] = IF r \in workspace /\ st[r] # NoState THEN "read" ELSE "ok"
  BY IdleRests DEF Start
<1>3. TypeOK'
  BY <1>1 DEF Facts, TypeOK, Shape, Steps, Ended
<1>4. \A r \in Resources : Course(r)' /\ Asked(r)'
  BY <1>1, <1>2 DEF Course, Asked, Removing
<1>5. \A r \in workspace : AsRead(r)' /\ Settled(r)'
  BY <1>1, <1>2 DEF AsRead, Settled, Facts, Shape
<1>6. (late # NoCall => CallFits(late))'
  BY <1>1 DEF Facts, CallFits
<1> QED BY <1>1, <1>3, <1>4, <1>5, <1>6 DEF Facts

LEMMA SkipFacts ==
    ASSUME Facts, Shape', NEW r \in workspace, Skip(r), UNCHANGED inside
    PROVE  Facts'
<1>1. /\ UNCHANGED <<workspace, cfg, st, tainted, phase, op, plan, tries, host, late,
                     disturbed, events, inside>>
      /\ phase = "apply" /\ at' = [at EXCEPT ![r] = "error"]
      /\ at[r] \in {"delete", "create", "update"}
  BY DEF Skip, user, memory, walk, world
<1>2. \A q \in Resources : at'[q] = IF q = r THEN "error" ELSE at[q]
  BY <1>1 DEF Facts, Shape
<1>3. TypeOK'
  BY <1>1 DEF Facts, TypeOK, Shape
<1>4. \A q \in Resources : Course(q)' /\ Asked(q)'
  <2> TAKE q \in Resources
  <2>1. Course(q) /\ Asked(q)
    BY DEF Facts
  <2> QED BY <1>1, <1>2, <2>1 DEF Course, Asked, Removing
<1>5. \A q \in workspace : AsRead(q)' /\ Settled(q)'
  <2> TAKE q \in workspace
  <2>1. /\ q \in Resources /\ AsRead(q) /\ Settled(q)
        /\ SamePart(q, host, host')
    BY <1>1 DEF Facts, Shape, SamePart
  <2>2. InSync(q)' = InSync(q) /\ Current(q)' = Current(q)
    BY <1>1, <2>1, SamePartSame
  <2>3. Lost(q)' = Lost(q) /\ Unknown(q)' = Unknown(q)
    BY <1>1 DEF Lost, Unknown
  <2>4. AsRead(q)'
    BY <1>1, <1>2, <2>1, <2>2 DEF AsRead
  <2>5. Settled(q)'
    BY <1>1, <1>2, <2>1, <2>2, <2>3 DEF Settled
  <2> QED BY <2>4, <2>5
<1>6. (late # NoCall => CallFits(late))'
  BY <1>1 DEF Facts, CallFits
<1> QED BY <1>1, <1>3, <1>4, <1>5, <1>6 DEF Facts

\* What has been read, and needs nothing, is in sync.
LEMMA NothingToDo ==
    ASSUME Facts, NEW r \in workspace, NEW schema, schema = Schema(r),
           Operation(r, schema) = "none", phase = "refresh", at[r] = "ok", ~disturbed,
           UNCHANGED <<cfg, host>>
    PROVE  st[r] = NoState \/ InSync(r)'
<1> SUFFICES ASSUME st[r] # NoState PROVE InSync(r)'
  OBVIOUS
<1>1. r \in Resources /\ Current(r) /\ cfg[r] \in Configs[r] \cup {NoConfig}
  BY DEF Facts, AsRead, Shape, TypeOK
<1> DEFINE p == Proposed(cfg[r], st[r], schema)
<1>2. cfg[r] # NoConfig /\ AsPlanned(st[r], p)
  BY DEF Operation
<1>3. schema.sets = NoSets
  BY <1>1, Kinds DEF Schema, SwitchSchema, MappingSchema, ProxySchema
<1>4. \A a \in DOMAIN cfg[r] : a \in DOMAIN p /\ p[a] = cfg[r][a]
  BY <1>3 DEF Proposed, NoSets
<1>5. AsPlanned(st[r], cfg[r])
  BY <1>2, <1>4 DEF AsPlanned
<1>6. CASE r \in Switches
  <2>1. HasSwitch(host, r) /\ st[r] = Refresh(r) /\ WellFormedSwitch(cfg[r])
    <3>1. HasSwitch(host, r) /\ st[r] = Refresh(r)
      BY <1>1, <1>6, Kinds DEF Current
    <3>2. WellFormedSwitch(cfg[r])
      BY <1>1, <1>2, <1>6, SwitchAssumption
    <3> QED BY <3>1, <3>2
  <2>2. "nat" \in DOMAIN cfg[r]
    BY <2>1 DEF WellFormedSwitch
  <2>3. st[r].nat = cfg[r].nat
    BY <1>5, <2>2 DEF AsPlanned
  <2>4. st[r] = ReadSwitch(host', r, cfg[r].nat, st[r].nat, st[r].adapter, st[r].force)
    BY <2>1, <2>3 DEF Refresh
  <2> QED BY <1>2, <1>5, <1>6, <2>1, <2>4, SwitchInSync
<1>7. CASE r \in Mappings
  <2>1. HasMapping(host, r) /\ st[r] \in ReadMapping(host, r)
    BY <1>1, <1>7, Kinds DEF Current
  <2> QED BY <1>2, <1>5, <1>7, <2>1, MappingInSync
<1>8. CASE r \in Proxies
  <2>1. HasProxy(host, r) /\ st[r] \in ReadProxy(host, r)
    BY <1>1, <1>8, Kinds DEF Current
  <2> QED BY <1>2, <1>5, <1>8, <2>1, ProxyInSync
<1> QED BY <1>1, <1>6, <1>7, <1>8, Kinds

\* What an operation says of the configuration, the state and the plan.
LEMMA OperationAsks ==
    ASSUME NEW r, NEW schema, NEW o, o = Operation(r, schema), NEW p, p = Planned(r, schema)
    PROVE  /\ o \in {"none", "create", "update", "replace", "delete"}
           /\ o \in {"create", "replace", "update"} => cfg[r] # NoConfig
           /\ o \in {"create", "replace"} => p = Proposed(cfg[r], NoState, schema)
           /\ o = "delete" => cfg[r] = NoConfig
           /\ o = "update" =>
                  /\ st[r] # NoState /\ p = Proposed(cfg[r], st[r], schema)
                  /\ \A a \in schema.forces \cap DOMAIN p : p[a] = st[r][a]
<1>1. CASE st[r] = NoState
  BY <1>1 DEF Operation, Planned
<1>2. CASE st[r] # NoState
  BY <1>2 DEF Operation, Planned
<1> QED BY <1>1, <1>2

LEMMA PlanFacts ==
    ASSUME Facts, Shape', PlanAll([r \in Resources |-> Schema(r)], TRUE), ~Quiet, UNCHANGED inside
    PROVE  Facts'
<1> DEFINE all == [r \in Resources |-> Schema(r)]
<1>1. /\ phase = "refresh" /\ phase' = "apply" /\ \A r \in workspace : at[r] = "ok"
      /\ op' = [r \in Resources |-> IF r \in workspace THEN Operation(r, all[r]) ELSE "none"]
      /\ plan' = [r \in Resources |-> IF r \in workspace THEN Planned(r, all[r]) ELSE NoPlan]
      /\ at' = [r \in Resources |-> Handler(op'[r])]
      /\ UNCHANGED <<user, memory, tries, world>>
  BY DEF PlanAll
<1>2. UNCHANGED <<workspace, cfg, st, tainted, tries, host, late, disturbed, events>>
  BY <1>1 DEF user, memory, world
<1>3. \A r \in Resources : all[r] = Schema(r)
  OBVIOUS
<1> HIDE DEF all
<1>4. \A r \in Resources : at'[r] = Handler(op'[r]) /\ (r \notin workspace => op'[r] = "none")
  BY <1>1
<1>5. \A r \in workspace : r \in Resources /\ op'[r] = Operation(r, Schema(r))
                           /\ plan'[r] = Planned(r, Schema(r))
  BY <1>1, <1>3 DEF Facts, Shape
<1>6. TypeOK'
  BY <1>1, <1>2 DEF Facts, TypeOK, Shape
<1>7. \A r \in Resources :
          /\ op'[r] = "none" => at'[r] = "ok"
          /\ op'[r] = "create" => at'[r] = "create"
          /\ op'[r] = "update" => at'[r] = "update"
          /\ op'[r] \in {"delete", "replace"} => at'[r] = "delete"
          /\ op'[r] \in {"none", "create", "update", "replace", "delete"}
  BY <1>4 DEF Handler, Shape
<1>8. \A r \in Resources : Course(r)'
  BY <1>1, <1>2, <1>4, <1>7 DEF Course, Removing
<1>9. \A r \in Resources : Asked(r)'
  <2> TAKE r \in Resources
  <2>1. CASE r \in workspace
    <3>1. /\ op'[r] \in {"create", "replace", "update"} => cfg[r] # NoConfig
          /\ op'[r] \in {"create", "replace"} => plan'[r] = Proposed(cfg[r], NoState, Schema(r))
          /\ op'[r] = "delete" => cfg[r] = NoConfig
          /\ op'[r] = "update" =>
                 /\ st[r] # NoState /\ plan'[r] = Proposed(cfg[r], st[r], Schema(r))
                 /\ \A a \in Schema(r).forces \cap DOMAIN plan'[r] : plan'[r][a] = st[r][a]
      BY <1>5, <2>1, OperationAsks
    <3>2. at'[r] = "update" => op'[r] = "update"
      BY <1>7
    <3> QED BY <1>2, <3>1, <3>2 DEF Asked
  <2>2. CASE r \notin workspace
    BY <1>4, <1>7, <2>2 DEF Asked
  <2> QED BY <2>1, <2>2
<1>10. \A r \in workspace : AsRead(r)' /\ Settled(r)'
  <2> TAKE r \in workspace
  <2>1. r \in Resources /\ at[r] = "ok" /\ AsRead(r) /\ SamePart(r, host, host')
    BY <1>1, <1>2 DEF Facts, Shape, SamePart
  <2>2. Current(r)' = Current(r)
    BY <1>2, <2>1, SamePartSame
  <2>3. AsRead(r)'
    BY <1>1, <1>2, <2>1, <2>2 DEF AsRead
  <2>4. ASSUME ~disturbed, at'[r] = "ok" PROVE InSync(r)' \/ Unknown(r)'
    <3>1. op'[r] = "none"
      BY <1>7, <2>1, <2>4
    <3>2. st[r] = NoState \/ InSync(r)'
      BY <1>1, <1>2, <1>5, <2>1, <2>4, <3>1, NothingToDo
    <3> QED BY <1>2, <3>1, <3>2 DEF Unknown
  <2>5. Settled(r)'
    BY <1>2, <2>4 DEF Settled
  <2> QED BY <2>3, <2>5
<1>11. (late # NoCall => CallFits(late))'
  BY <1>2 DEF Facts, CallFits
<1> QED BY <1>2, <1>6, <1>8, <1>9, <1>10, <1>11 DEF Facts

LEMMA EnterFacts ==
    ASSUME Facts, Shape', UNCHANGED tvars, inside' \subseteq Resources \X Steps
    PROVE  Facts'
<1>1. UNCHANGED <<workspace, cfg, st, tainted, phase, op, plan, at, tries, host, late,
                  disturbed, events>>
  BY DEF tvars, user, memory, walk, world
<1>2. TypeOK'
  BY <1>1 DEF Facts, TypeOK
<1>3. \A q \in Resources : Course(q)' /\ Asked(q)'
  BY <1>1 DEF Facts, Course, Asked
<1>4. \A q \in workspace : AsRead(q)' /\ Settled(q)'
  <2> TAKE q \in workspace
  <2>1. q \in Resources /\ AsRead(q) /\ Settled(q) /\ SamePart(q, host, host')
    BY <1>1 DEF Facts, Shape, SamePart
  <2>2. InSync(q)' = InSync(q) /\ Current(q)' = Current(q)
    BY <1>1, <2>1, SamePartSame
  <2> QED BY <1>1, <2>1, <2>2 DEF AsRead, Settled, Lost, Unknown
<1>5. (late # NoCall => CallFits(late))'
  BY <1>1 DEF Facts, CallFits
<1> QED BY <1>1, <1>2, <1>3, <1>4, <1>5 DEF Facts

LEMMA WalkFacts ==
    ASSUME Facts, Shape', Walk
    PROVE  Facts'
<1>1. CASE PlanAll([r \in Resources |-> Schema(r)], TRUE) /\ UNCHANGED inside
  BY <1>1, PlanFacts, QuietFacts
<1> QED BY <1>1, StartFacts, SkipFacts, QuietFacts DEF Walk, Finish

\* The hosts that others make are hosts.
LEMMA ElsewhereHosts ==
    ASSUME Facts, NEW r \in Resources, NEW h \in Elsewhere(r)
    PROVE  h \in Hosts
<1>1. host \in Hosts
  BY DEF Facts, TypeOK
<1>2. CASE r \in Switches
  <2>1. /\ r \notin Mappings /\ r \notin Proxies
        /\ \/ h = NoSwitch(host, r) \/ h = Foreign(host, r)
           \/ h = [host EXCEPT !.used = @ \cup {r}] \/ h = WithoutNat(host, r)
    BY <1>2, Kinds DEF Elsewhere
  <2>2. NoSwitch(host, r) \in Hosts /\ WithoutNat(host, r) \in Hosts
    BY <1>1, <1>2, NoSwitchOnly, WithoutNatSpares DEF Only, Spares
  <2>3. [type |-> "Private", adapter |-> Null, mgmt |-> FALSE, notes |-> Null] \in SwitchType
    BY DEF SwitchType
  <2>4. Foreign(host, r) \in Hosts
    BY <1>1, <1>2, <2>3, PutSwitchOnly DEF Foreign, Only
  <2>5. [host EXCEPT !.used = @ \cup {r}] \in Hosts
    BY <1>1, <1>2 DEF Hosts
  <2> QED BY <2>1, <2>2, <2>4, <2>5
<1> DEFINE fw == [on |-> FALSE, profile |-> AnyProfile]
<1>3. ASSUME r \notin Switches PROVE [host EXCEPT !.rules[r] = {fw}] \in Hosts
  <2>1. fw \in FirewallRules /\ r \in Mappings \cup Proxies
    BY <1>3, Kinds, NetworkAssumption DEF FirewallRules
  <2>2. WithRules(host, r, {fw}) \in Hosts
    BY <1>1, <2>1, PutRules DEF Only
  <2> QED BY <2>2 DEF WithRules
<1>4. CASE r \in Mappings
  <2>1. /\ r \notin Switches /\ r \notin Proxies
        /\ h = Mapped(host, r, Null) \/ h = [host EXCEPT !.rules[r] = {fw}]
    BY <1>4, Kinds DEF Elsewhere
  <2>2. Mapped(host, r, Null) \in Hosts
    BY <1>1, <1>4, PutMap DEF Only
  <2> QED BY <1>3, <2>1, <2>2
<1>5. CASE r \in Proxies
  <2>1. /\ r \notin Switches /\ r \notin Mappings
        /\ \/ h = Unforwarded(host, r) \/ h = [host EXCEPT !.rules[r] = {fw}]
           \/ h = [host EXCEPT !.excluded = @ \cup {r}]
           \/ HasProxy(host, r) /\ h = Forwarding(host, r, host.proxy[r].to, FALSE)
    BY <1>5, Kinds DEF Elsewhere
  <2>2. Unforwarded(host, r) \in Hosts
    BY <1>1, <1>5, RemoveProxyOnly DEF Only
  <2>3. [host EXCEPT !.excluded = @ \cup {r}] \in Hosts
    BY <1>1, <1>5 DEF Hosts
  <2>4. ASSUME HasProxy(host, r) PROVE Forwarding(host, r, host.proxy[r].to, FALSE) \in Hosts
    <3>1. host.proxy[r].to \in Targets
      BY <1>1, <1>5, <2>4 DEF Hosts, HasProxy, ProxyType
    <3> QED BY <1>1, <1>5, <3>1, ForwardingOnly DEF Only
  <2> QED BY <1>3, <2>1, <2>2, <2>3, <2>4
<1> QED BY <1>2, <1>4, <1>5, Kinds

\* So are those that a call makes that comes late.
LEMMA LateHosts ==
    ASSUME Facts, late # NoCall,
           NEW h, h \in IF late.of \in Switches THEN SwitchPartly(host, late)
                        ELSE IF late.of \in Mappings THEN MappingPartly(host, late)
                        ELSE ProxyPartly(host, late)
    PROVE  h \in Hosts
<1>1. host \in Hosts /\ CallFits(late)
  BY DEF Facts, TypeOK
<1>2. CASE late.of \in Switches
  <2>1. CASE late.do = "new"
    <3>1. SwitchPlan(late.with) /\ h \in NewPartly(host, late.of, late.with)
      BY <1>1, <1>2, <2>1, Kinds DEF CallFits, SwitchPartly
    <3> QED BY <1>1, <1>2, <3>1, NewPartlyOnly DEF Only
  <2>2. CASE late.do = "set"
    <3>1. SwitchInput(late.with) /\ h \in SetPartly(host, late.of, late.with)
      BY <1>1, <1>2, <2>2, Kinds DEF CallFits, SwitchPartly
    <3> QED BY <1>1, <1>2, <3>1, SetPartlyOnly DEF Only
  <2>3. CASE late.do = "remove"
    <3>1. h \in RemovePartly(host, late.of, late.with)
      BY <1>2, <2>3 DEF SwitchPartly
    <3> QED BY <1>1, <1>2, <3>1, RemovePartlySpares DEF Spares
  <2> QED BY <1>1, <1>2, <2>1, <2>2, <2>3, Kinds DEF CallFits
<1>3. CASE late.of \in Mappings
  <2>1. CASE late.do \in {"new", "set"}
    <3>1. /\ MappingPlan(late.with)
          /\ h \in NewMappingPartly(host, late.of, late.with)
                  \cup SetMappingPartly(host, late.of, late.with)
      BY <1>1, <1>3, <2>1, Kinds DEF CallFits, MappingPartly
    <3> QED BY <1>1, <1>3, <3>1, MappingPartlyOnly DEF Only
  <2>2. CASE late.do = "remove"
    <3>1. h \in RemoveMappingPartly(host, late.of)
      BY <1>3, <2>2, Kinds DEF MappingPartly
    <3> QED BY <1>1, <1>3, <3>1, MappingPartlyOnly DEF Only
  <2> QED BY <1>1, <1>3, <2>1, <2>2, Kinds DEF CallFits
<1>4. CASE late.of \in Proxies
  <2>1. CASE late.do \in {"new", "set"}
    <3>1. /\ ProxyPlan(late.with)
          /\ h \in NewProxyPartly(host, late.of, late.with)
                  \cup SetProxyPartly(host, late.of, late.with)
      BY <1>1, <1>4, <2>1, Kinds DEF CallFits, ProxyPartly
    <3> QED BY <1>1, <1>4, <3>1, ProxyPartlyOnly DEF Only
  <2>2. CASE late.do = "remove"
    <3>1. h \in RemoveProxyPartly(host, late.of)
      BY <1>4, <2>2, Kinds DEF ProxyPartly
    <3> QED BY <1>1, <1>4, <3>1, ProxyPartlyOnly DEF Only
  <2> QED BY <1>1, <1>4, <2>1, <2>2, Kinds DEF CallFits
<1> QED BY <1>1, <1>2, <1>3, <1>4 DEF CallFits
LEMMA OthersFacts ==
    ASSUME Facts, Shape', Others
    PROVE  Facts'
<1>1. /\ UNCHANGED <<workspace, st, tainted, phase, op, plan, at, tries, inside>>
      /\ events' \in Nat
  BY DEF Others, Edit, Interfere, Land, Event, user, memory, walk, Facts, TypeOK
<1>2. ASSUME Edit
      PROVE  /\ phase = "idle" /\ UNCHANGED <<host, late, disturbed>>
             /\ \A r \in Resources : cfg'[r] \in Configs[r] \cup {NoConfig}
  BY <1>2 DEF Edit, Configurations
<1>3. ASSUME Interfere(UNION {Elsewhere(r) : r \in workspace})
      PROVE  UNCHANGED <<cfg, late>> /\ host' \in Hosts /\ disturbed' = (phase # "idle")
  BY <1>3, ElsewhereHosts DEF Interfere, user, Facts, Shape
<1>4. ASSUME Land(IF late.of \in Switches THEN SwitchPartly(host, late)
                  ELSE IF late.of \in Mappings THEN MappingPartly(host, late)
                  ELSE ProxyPartly(host, late))
      PROVE  /\ UNCHANGED cfg /\ host' \in Hosts /\ disturbed' = (phase # "idle")
             /\ late' = NoCall
  BY <1>4, LateHosts DEF Land, user
<1>5. TypeOK'
  <2>1. /\ host' \in Hosts /\ disturbed' \in BOOLEAN
        /\ \A r \in Resources : cfg'[r] \in Configs[r] \cup {NoConfig}
    BY <1>2, <1>3, <1>4 DEF Others, Facts, TypeOK
  <2> QED BY <1>1, <2>1 DEF Facts, TypeOK
<1>6. (late # NoCall => CallFits(late))'
  BY <1>2, <1>3, <1>4 DEF Others, Facts, CallFits
<1>7. CASE phase = "idle"
  <2>1. \A r \in Resources : Course(r)' /\ Asked(r)' /\ AsRead(r)' /\ Settled(r)'
    BY <1>1, <1>7, IdleRests, IdleFits
  <2> QED BY <1>1, <1>5, <1>6, <2>1 DEF Facts, Shape
<1>8. CASE phase # "idle"
  <2>1. disturbed' /\ cfg' = cfg
    BY <1>2, <1>3, <1>4, <1>8 DEF Others
  <2>2. \A r \in Resources : Course(r)' /\ Asked(r)'
    BY <1>1, <2>1 DEF Facts, Course, Asked
  <2>3. \A r \in workspace : AsRead(r)' /\ Settled(r)'
    BY <2>1 DEF AsRead, Settled
  <2> QED BY <1>1, <1>5, <1>6, <2>2, <2>3 DEF Facts
<1> QED BY <1>7, <1>8

LEMMA ImportsFacts ==
    ASSUME Facts, Shape', Imports
    PROVE  Facts'
<1>1. ASSUME NEW r \in workspace, NEW s \in States(r), Import(r, s), UNCHANGED inside
      PROVE  Facts'
  <2>1. /\ phase = "idle" /\ st' = [st EXCEPT ![r] = s] /\ events' \in Nat
        /\ UNCHANGED <<workspace, cfg, tainted, phase, op, plan, at, tries, host, late,
                       disturbed, inside>>
    BY <1>1 DEF Import, Event, user, walk, Facts, TypeOK
  <2>2. r \in Resources /\ s # NoState
    BY NothingAssumption DEF Facts, Shape
  <2>3. \A q \in Resources : st'[q] = IF q = r THEN s ELSE st[q]
    BY <2>1, <2>2 DEF Facts, Shape
  <2>4. TypeOK'
    BY <2>1, <2>2, <2>3 DEF Facts, TypeOK
  <2>5. \A q \in Resources : Course(q)' /\ Asked(q)' /\ AsRead(q)' /\ Settled(q)'
    BY <2>1, IdleRests, IdleFits
  <2>6. (late # NoCall => CallFits(late))'
    BY <2>1 DEF Facts, CallFits
  <2> QED BY <2>1, <2>4, <2>5, <2>6 DEF Facts, Shape
<1> SUFFICES ASSUME NEW r \in workspace,
                    \/ r \in Switches /\ ImportSwitch(r)
                    \/ r \in Mappings /\ ImportMapping(r)
                    \/ r \in Proxies /\ ImportProxy(r)
             PROVE  Facts'
  BY DEF Imports
<1>2. host \in Hosts /\ Null \in Adapters \cup {Null}
  BY DEF Facts, TypeOK
<1>3. CASE r \in Switches /\ ImportSwitch(r)
  <2>1. ReadSwitch(host, r, FALSE, FALSE, Null, FALSE) \in States(r)
    BY <1>2, <1>3, ReadSwitchType DEF ImportSwitch
  <2> QED BY <1>1, <1>3, <2>1 DEF ImportSwitch
<1>4. CASE r \in Mappings /\ ImportMapping(r)
  <2>1. PICK s \in ReadMapping(host, r) : Import(r, s)
    BY <1>4 DEF ImportMapping
  <2>2. s \in States(r)
    BY <1>2, <1>4, <2>1, ReadMappingIs DEF ImportMapping, Hosts, HasMapping
  <2> QED BY <1>1, <1>4, <2>1, <2>2 DEF ImportMapping
<1>5. CASE r \in Proxies /\ ImportProxy(r)
  <2>1. PICK s \in ReadProxy(host, r) : Import(r, s)
    BY <1>5 DEF ImportProxy
  <2>2. s \in States(r)
    BY <1>2, <1>5, <2>1, ReadProxyIs DEF ImportProxy, Hosts, HasProxy
  <2> QED BY <1>1, <1>5, <2>1, <2>2 DEF ImportProxy
<1> QED BY <1>3, <1>4, <1>5

-----------------------------------------------------------------------------
(* The theorems *)

LEMMA FactsStep == Inv /\ Facts /\ [Next]_nvars => Facts'
<1> SUFFICES ASSUME Inv, Facts, [Next]_nvars PROVE Facts'
  OBVIOUS
<1>1. Shape'
  BY InvStep DEF Inv
<1>2. ASSUME NEW r \in workspace, Step(r) PROVE Facts'
  BY <1>2, HandlersOwn, HandlersEffect, EffectKeeps DEF Inv, Shape
<1>3. ASSUME NEW r \in workspace, Enter(r) PROVE Facts'
  <2>1. r \in Resources /\ inside' \subseteq Resources \X Steps
    BY <1>3 DEF Enter, Facts, Shape, TypeOK
  <2> QED BY <1>1, <1>3, <2>1, EnterFacts DEF Enter
<1>4. CASE UNCHANGED nvars
  BY <1>1, <1>4, EnterFacts DEF nvars, Facts, TypeOK
<1> QED BY <1>1, <1>2, <1>3, <1>4, WalkFacts, OthersFacts, ImportsFacts DEF Next, ApplyStep

\* The state and the step of a resource change only where its handler ends,
\* where Terraform goes on, and by an import.
LEMMA OnlyHandlers ==
    ASSUME Inv, Facts, [Next]_nvars, NEW r \in Resources
    PROVE  \/ Effect(r)
           \/ /\ st'[r] = st[r] \/ st[r] = NoState
              /\ at'[r] \in {at[r], "none", "read", "ok", "create", "update", "delete", "error"}
<1>1. ASSUME NEW q \in workspace, Step(q)
      PROVE  Effect(r) \/ (st'[r] = st[r] /\ at'[r] = at[r])
  <2>1. q \in Resources /\ Shape
    BY DEF Inv, Shape
  <2>2. Effect(q)
    BY <1>1, <2>1, HandlersEffect
  <2> QED BY <2>2, EffectOthers
<1>2. CASE Walk
  <2>1. UNCHANGED st
    BY <1>2 DEF Walk, Start, PlanAll, Skip, Finish, Quiet, memory
  <2>2. CASE Start
    BY <2>1, <2>2 DEF Start
  <2>3. CASE Quiet
    BY <2>1, <2>3 DEF Quiet
  <2>4. CASE PlanAll([q \in Resources |-> Schema(q)], TRUE) /\ ~Quiet
    <3>1. at' = [q \in Resources |-> Handler(op'[q])]
      BY <2>4 DEF PlanAll
    <3>2. op'[r] \in {"none", "create", "update", "replace", "delete"}
      BY <1>2, WalkKeeps DEF Inv, Shape
    <3>3. at'[r] \in {"ok", "create", "update", "delete"}
      BY <3>1, <3>2 DEF Handler
    <3> QED BY <2>1, <3>3
  <2>5. ASSUME NEW q \in workspace, Skip(q)
        PROVE  at'[r] \in {at[r], "error"}
    BY <2>5 DEF Skip, Facts, Shape
  <2> QED BY <1>2, <2>1, <2>2, <2>3, <2>4, <2>5 DEF Walk, Finish
<1>3. CASE Imports
  <2>1. PICK q \in workspace : \E s : Import(q, s)
    BY <1>3 DEF Imports, ImportSwitch, ImportMapping, ImportProxy
  <2> QED BY <2>1 DEF Import, Facts, Shape
<1>4. CASE Others \/ UNCHANGED nvars \/ \E q \in workspace : Enter(q)
  BY <1>4 DEF Others, Edit, Interfere, Land, Enter, nvars, tvars, memory
<1> QED BY <1>1, <1>2, <1>3, <1>4 DEF Next, ApplyStep

\* Facts holds throughout, with what keeps the running calls apart.
THEOREM FactsHold == Spec => [](Inv /\ Facts)
<1>1. Init => Inv /\ Facts
  BY InvInit, FactsInit
<1>2. (Inv /\ Facts) /\ [Next]_nvars => (Inv /\ Facts)'
  BY InvStep, FactsStep
<1> QED BY <1>1, <1>2, PTL DEF Spec

\* The variables keep their types: Terraform's states have the attributes
\* that the models build, and only what is in the state is tainted.
THEOREM NetworkTypes == Spec => []TypeOK
<1>1. Inv /\ Facts => TypeOK
  BY DEF Facts
<1> QED BY <1>1, FactsHold, PTL

LEMMA StepForgets ==
    ASSUME Inv, Facts, [Next]_nvars, NEW r \in Resources, st[r] # NoState, st'[r] = NoState
    PROVE  ~Here(r)' /\ (r \in Switches /\ Here(r) /\ st[r].nat => host'.nat[r] = Null)
<1>1. Effect(r) /\ Shape
  BY OnlyHandlers DEF Facts
<1>2. ~Goes(r)
  BY DEF Goes, memory
<1>3. CASE Reads(r)
  <2>1. PICK s \in States(r) \cup {NoState} :
            Refreshed(r, s) /\ IF s = NoState THEN ~Here(r)' ELSE Current(r)'
    BY <1>3 DEF Reads
  <2>2. s = NoState
    BY <1>1, <2>1 DEF Refreshed, Shape
  <2>3. ~Here(r)' /\ UNCHANGED host
    BY <1>3, <2>1, <2>2 DEF Reads
  <2>4. ~Here(r)
    BY <2>3 DEF Here
  <2> QED BY <2>3, <2>4
<1>4. CASE Writes(r)
  <2>1. PICK s \in States(r) : Return(r, s)
    BY <1>4 DEF Writes
  <2>2. st'[r] = s /\ s # NoState
    BY <1>1, <2>1, NothingAssumption DEF Return, Shape
  <2> QED BY <2>2
<1>5. CASE Destroys(r)
  BY <1>5 DEF Destroys
<1> QED BY <1>1, <1>2, <1>3, <1>4, <1>5 DEF Effect

\* Terraform forgets a resource only when its object is gone from the host,
\* a NAT switch that it removes only with its NetNat: Read, Delete and the
\* recovery of a dropped session tell "not found" from every failure.
THEOREM ForgetsTheGone == Spec => ForgetsOnlyTheGone
<1>1. Inv /\ Facts /\ [Next]_nvars =>
          [\A r \in Resources : st[r] # NoState /\ st'[r] = NoState =>
               /\ ~Here(r)'
               /\ r \in Switches /\ Here(r) /\ st[r].nat => host'.nat[r] = Null]_nvars
  BY StepForgets
<1> QED BY <1>1, FactsHold, PTL DEF Spec, ForgetsOnlyTheGone

LEMMA StepReturns ==
    ASSUME Inv, Facts, [Next]_nvars, NEW r \in Resources,
           at'[r] = "inconsistent", at[r] # "inconsistent"
    PROVE  disturbed \/ Surprising(r)
<1>1. Effect(r) /\ Shape
  BY OnlyHandlers DEF Facts
<1>2. ~Goes(r)
  <2> SUFFICES ASSUME Goes(r) PROVE FALSE
    OBVIOUS
  <2>1. PICK x \in Steps : at' = [at EXCEPT ![r] = x] /\ x \in {"error", at[r], "createVerify"} \cup Removing
    BY DEF Goes
  <2> QED BY <1>1, <2>1 DEF Shape, Removing
<1>3. ~Reads(r) /\ ~Destroys(r)
  BY <1>1 DEF Reads, Refreshed, Destroys, Deleted, Shape
<1>4. PICK s \in States(r) : Return(r, s) /\ (AsPlanned(s, plan[r]) \/ disturbed \/ Surprising(r))
  BY <1>1, <1>2, <1>3 DEF Effect, Writes
<1>5. ~AsPlanned(s, plan[r])
  BY <1>1, <1>4 DEF Return, Shape
<1> QED BY <1>4, <1>5

\* While nobody disturbs the host, Create and Update return what was planned,
\* except for the surprises that are listed: no other state that the handlers
\* of these resources build makes Terraform report a bug of the provider.
THEOREM PlansReturned == Spec => ReturnsThePlan
<1>1. Inv /\ Facts /\ [Next]_nvars =>
          [\A r \in Resources :
               at'[r] = "inconsistent" /\ at[r] # "inconsistent" => disturbed \/ Surprising(r)]_nvars
  BY StepReturns
<1> QED BY <1>1, FactsHold, PTL DEF Spec, ReturnsThePlan

LEMMA StepEndsInSync ==
    ASSUME Inv, Facts, [Next]_nvars, phase = "apply", phase' = "idle", ~disturbed,
           \A q \in workspace : at[q] = "ok", NEW r \in workspace
    PROVE  InSync(r) \/ NatTaken(r) \/ Unknown(r)
<1>1. r \in Resources /\ (InSync(r) \/ Lost(r) \/ Unknown(r))
  BY DEF Facts, Shape, Settled
<1>2. ASSUME Lost(r) PROVE NatTaken(r)
  <2>1. NatOf[r] \in Resources /\ op[NatOf[r]] \in {"create", "delete", "replace"}
    BY <1>2, Kinds DEF Lost
  <2>2. NatOf[r] \in workspace /\ op[NatOf[r]] # "replace"
    BY <2>1 DEF Facts, Course, Removing
  <2> QED BY <1>2, <2>1, <2>2 DEF Lost, NatTaken
<1> QED BY <1>1, <1>2

\* An apply that nobody disturbs and in which nothing fails leaves the host as
\* the configuration asks for, for any resources and dependencies, except for
\* the mappings whose NetNat it made or removed and for what Terraform has no
\* state of and did not plan to make.
THEOREM AppliesInSync == Spec => OkMeansInSync
<1>1. Inv /\ Facts /\ [Next]_nvars =>
          [phase = "apply" /\ phase' = "idle" /\ ~disturbed /\ (\A r \in workspace : at[r] = "ok")
             => \A r \in workspace : InSync(r) \/ NatTaken(r) \/ Unknown(r)]_nvars
  BY StepEndsInSync
<1> QED BY <1>1, FactsHold, PTL DEF Spec, OkMeansInSync

=============================================================================
