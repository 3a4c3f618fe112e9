----------------------------- MODULE Terraform ------------------------------
(***************************************************************************)
(* What Terraform does with the provider's resources: one apply after      *)
(* another, each of which reads every resource, plans all of them, and     *)
(* then calls Create, Update and Delete in the order their dependencies    *)
(* allow, those of independent resources at the same time.                 *)
(*                                                                         *)
(* Terraform and the plugin framework are not part of the repository.      *)
(* They are modelled as internal/resources uses them: the handlers'        *)
(* contract, RequiresReplace, UseStateForUnknown, and the comparison of    *)
(* what a handler returns with what was planned.                           *)
(*                                                                         *)
(* A configuration maps the attributes whose planned value it alone        *)
(* decides (set, defaulted or null) to that value; a state maps all        *)
(* attributes.  Handlers are the actions of the modules that extend this   *)
(* one; `host' is what they work on.                                       *)
(***************************************************************************)
EXTENDS Naturals, FiniteSets

CONSTANTS
    Resources,        \* the resources, each of one type
    Requires,         \* those that a resource's configuration refers to
    Workspaces,       \* the sets of resources that are used together
    Configs,          \* the configurations of each resource
    NoConfig, NoState, NoPlan, NoCall, Null,
    LateEffects,      \* may a call take effect after it has failed?
    VerifyAttempts,   \* how often a client polls after a dropped session
    MaxEvents         \* by workspace: edits, failures and outside changes, together

VARIABLES
    workspace,   \* the resources in use
    cfg,         \* their configurations
    st,          \* Terraform's state of each
    tainted,     \* those whose state is marked to be replaced
    phase,       \* what Terraform is doing
    op,          \* what it has planned to do with each resource
    plan,        \* and the attributes it expects of it
    at,          \* where the resource's handler is
    tries,       \* how often its client has polled
    host,        \* the Windows host
    late,        \* a call that failed and may yet take effect
    disturbed,   \* has anybody else changed the host during this apply?
    events       \* how many of the MaxEvents have happened

user == <<workspace, cfg>>
memory == <<st, tainted>>
walk == <<phase, op, plan>>
world == <<host, late, disturbed, events>>
tvars == <<user, memory, walk, at, tries, world>>

ASSUME TerraformAssumption ==
    /\ \A w \in Workspaces : w \subseteq Resources
    /\ \A r \in Resources : Requires[r] \subseteq Resources
    /\ \A r \in Resources : NoConfig \notin Configs[r]
    /\ LateEffects \in BOOLEAN
    /\ VerifyAttempts \in Nat \ {0}
    /\ MaxEvents \in [Workspaces -> Nat]

Ended == {"ok", "error", "inconsistent"}

InitTerraform(h) ==
    /\ workspace \in Workspaces
    /\ cfg = [r \in Resources |-> NoConfig]
    /\ st = [r \in Resources |-> NoState]
    /\ tainted = {}
    /\ phase = "idle"
    /\ op = [r \in Resources |-> "none"]
    /\ plan = [r \in Resources |-> NoPlan]
    /\ at = [r \in Resources |-> "none"]
    /\ tries = [r \in Resources |-> 0]
    /\ host = h
    /\ late = NoCall
    /\ disturbed = FALSE
    /\ events = 0

Event ==
    /\ events < MaxEvents[workspace]
    /\ events' = events + 1

-----------------------------------------------------------------------------
(* Plans *)

NoSets == [a \in {} |-> Null]

\* What is planned: the configuration, what ModifyPlan sets, and what
\* UseStateForUnknown keeps of the attributes left open.  The others are unknown.
Proposed(c, prior, schema) ==
    LET set == DOMAIN schema.sets
        kept == IF prior = NoState THEN {} ELSE schema.sticky
    IN [a \in DOMAIN c \cup set \cup kept |->
            IF a \in set THEN schema.sets[a] ELSE IF a \in DOMAIN c THEN c[a] ELSE prior[a]]

\* An optional attribute of a plan or of a call.
Of(p, a, default) == IF a \in DOMAIN p THEN p[a] ELSE default

AsPlanned(s, p) == \A a \in DOMAIN p : s[a] = p[a]

\* schema: which attributes force a replacement, which are sticky, and what the
\* resource's own ModifyPlan sets.
Operation(r, schema) ==
    LET p == Proposed(cfg[r], st[r], schema)
    IN CASE st[r] = NoState -> IF cfg[r] = NoConfig THEN "none" ELSE "create"
         [] st[r] # NoState /\ cfg[r] = NoConfig -> "delete"
         [] OTHER ->
              IF r \in tainted \/ \E a \in schema.forces \cap DOMAIN p : p[a] # st[r][a]
                THEN "replace"
                ELSE IF AsPlanned(st[r], p) THEN "none" ELSE "update"

Planned(r, schema) ==
    CASE Operation(r, schema) \in {"none", "delete"} -> NoPlan
      [] Operation(r, schema) = "update" -> Proposed(cfg[r], st[r], schema)
      [] OTHER -> Proposed(cfg[r], NoState, schema)

\* The handler that an operation calls first.
Handler(o) ==
    CASE o = "none" -> "ok"
      [] o = "replace" -> "delete"
      [] OTHER -> o

-----------------------------------------------------------------------------
(* The course of an apply *)

Configurations ==
    {c \in [workspace -> UNION {Configs[r] : r \in workspace} \cup {NoConfig}] :
        \A r \in workspace : c[r] \in Configs[r] \cup {NoConfig}}

\* Nothing refers to a resource that is not configured.
Edit ==
    /\ phase = "idle"
    /\ Event
    /\ \E c \in Configurations :
           cfg' = [r \in Resources |-> IF r \in workspace THEN c[r] ELSE NoConfig]
    /\ cfg' # cfg
    /\ \A r \in workspace : cfg'[r] # NoConfig =>
           \A q \in Requires[r] \cap workspace : cfg'[q] # NoConfig
    /\ UNCHANGED <<workspace, memory, walk, at, tries, host, late, disturbed>>

Start ==
    /\ phase = "idle"
    /\ \E r \in workspace : cfg[r] # NoConfig \/ st[r] # NoState
    /\ phase' = "refresh"
    /\ at' = [r \in Resources |->
                 IF r \in workspace /\ st[r] # NoState THEN "read" ELSE "ok"]
    /\ UNCHANGED <<user, memory, op, plan, tries, world>>

Quiet ==
    /\ phase' = "idle"
    /\ op' = [r \in Resources |-> "none"]
    /\ plan' = [r \in Resources |-> NoPlan]
    /\ at' = [r \in Resources |-> "none"]
    /\ tries' = [r \in Resources |-> 0]
    /\ disturbed' = FALSE
    /\ UNCHANGED <<user, memory, host, late, events>>

\* Everything has been read; an error of a read or a plan ends it here.
PlanAll(schemas, valid) ==
    /\ phase = "refresh"
    /\ \A r \in workspace : at[r] \in Ended
    /\ IF valid /\ \A r \in workspace : at[r] = "ok"
         THEN /\ phase' = "apply"
              /\ op' = [r \in Resources |->
                           IF r \in workspace THEN Operation(r, schemas[r]) ELSE "none"]
              /\ plan' = [r \in Resources |->
                             IF r \in workspace THEN Planned(r, schemas[r]) ELSE NoPlan]
              /\ at' = [r \in Resources |-> Handler(op'[r])]
              /\ UNCHANGED <<user, memory, tries, world>>
         ELSE Quiet

\* Destruction goes from the dependents to what they depend on, everything
\* else the other way.
MayBegin(r) ==
    /\ phase = "apply" /\ at[r] = "delete" =>
           \A q \in workspace :
               r \in Requires[q] /\ op[q] \in {"delete", "replace"} => at[q] = "ok"
    /\ at[r] \in {"create", "update"} => \A q \in Requires[r] \cap workspace : at[q] = "ok"

\* What waits for something that failed is given up.
Skip(r) ==
    /\ phase = "apply"
    /\ \E q \in workspace :
           /\ at[q] \in {"error", "inconsistent"}
           /\ \/ at[r] = "delete" /\ r \in Requires[q] /\ op[q] \in {"delete", "replace"}
              \/ at[r] \in {"create", "update"} /\ q \in Requires[r]
    /\ at' = [at EXCEPT ![r] = "error"]
    /\ UNCHANGED <<user, memory, walk, tries, world>>

Finish ==
    /\ phase = "apply"
    /\ \A r \in workspace : at[r] \in Ended
    /\ Quiet

-----------------------------------------------------------------------------
(* How a handler ends *)

Goto(r, step) == at' = [at EXCEPT ![r] = step] /\ UNCHANGED <<memory, walk, tries>>

Fail(r) ==
    /\ at' = [at EXCEPT ![r] = "error"]
    /\ tries' = [tries EXCEPT ![r] = 0]
    /\ UNCHANGED <<memory, walk>>

\* Read found the resource, or found it gone.
Refreshed(r, s) ==
    /\ st' = [st EXCEPT ![r] = s]
    /\ tainted' = IF s = NoState THEN tainted \ {r} ELSE tainted
    /\ at' = [at EXCEPT ![r] = "ok"]
    /\ UNCHANGED <<walk, tries>>

\* Create or Update returned s.  The state is kept even if that is not what
\* was planned; a resource so created is tainted.
Return(r, s) ==
    /\ st' = [st EXCEPT ![r] = s]
    /\ tainted' = IF op[r] = "create" /\ ~AsPlanned(s, plan[r])
                    THEN tainted \cup {r} ELSE tainted \ {r}
    /\ at' = [at EXCEPT ![r] = IF AsPlanned(s, plan[r]) THEN "ok" ELSE "inconsistent"]
    /\ tries' = [tries EXCEPT ![r] = 0]
    /\ UNCHANGED walk

\* Delete succeeded; a replacement goes on with Create.
Deleted(r) ==
    /\ st' = [st EXCEPT ![r] = NoState]
    /\ tainted' = tainted \ {r}
    /\ op' = [op EXCEPT ![r] = IF @ = "replace" THEN "create" ELSE @]
    /\ at' = [at EXCEPT ![r] = IF op[r] = "replace" THEN "create" ELSE "ok"]
    /\ tries' = [tries EXCEPT ![r] = 0]
    /\ UNCHANGED <<phase, plan>>

-----------------------------------------------------------------------------
(* How a call to the host ends *)

\* The script ran to its end and left the host as h.
Ran(h) == host' = h /\ UNCHANGED <<user, late, disturbed, events>>

\* RunScript returns an error, or a cmdlet fails: the host is as one of those
\* in `partly', or the call c is still to take effect.
CallFails(c, partly) ==
    /\ Event
    /\ \/ host' \in partly /\ UNCHANGED late
       \/ LateEffects /\ late = NoCall /\ late' = c /\ UNCHANGED host
    /\ UNCHANGED <<user, disturbed>>

ReadFails == Event /\ UNCHANGED <<user, host, late, disturbed>>

\* A poll after a dropped session fails: again, or the attempts are exhausted.
PollFails(r) ==
    /\ ReadFails
    /\ IF tries[r] + 1 < VerifyAttempts
         THEN tries' = [tries EXCEPT ![r] = @ + 1] /\ UNCHANGED <<memory, walk, at>>
         ELSE Fail(r)

\* A call that had failed takes effect.
Land(partly) ==
    /\ late # NoCall
    /\ host' \in partly
    /\ late' = NoCall
    /\ disturbed' = (phase # "idle")
    /\ UNCHANGED <<user, memory, walk, at, tries, events>>

\* Somebody else changes the host.
Interfere(hosts) ==
    /\ Event
    /\ host' \in hosts
    /\ disturbed' = (phase # "idle")
    /\ UNCHANGED <<user, memory, walk, at, tries, late>>

\* terraform import: what was read becomes the state.
Import(r, s) ==
    /\ phase = "idle"
    /\ st[r] = NoState /\ cfg[r] # NoConfig
    /\ Event
    /\ st' = [st EXCEPT ![r] = s]
    /\ UNCHANGED <<user, tainted, walk, at, tries, host, late, disturbed>>

=============================================================================
