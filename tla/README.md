# A verification project for terraform-provider-hyperv

The provider manages Hyper-V objects on a Windows host from Terraform. This
directory models its logic in TLA+, checks the models with TLC on small instances,
and proves the central properties for all instances with TLAPS. Paths below are
relative to `src/`.

- [The system](#the-system): inventory of components, state, operations, hazards
- [The modules](#the-modules) and how they are composed; what is left
- [The models](#the-models): how each module corresponds to the code
- [Runs](#runs), [Fairness](#fairness), [Proofs](#proofs), [Findings](#findings)
- [What is not modelled](#what-is-not-modelled)

## The system

Terraform starts one provider process per operation (plan, apply) and calls its
resources from many goroutines, up to ten at a time. The layers, top down:

    main, internal/provider       configuration, choice of backend, shutdown
    internal/resources            Create/Read/Update/Delete/ModifyPlan per resource
    internal/hyperv               the typed client: one method per host operation
    internal/scripts/**.ps1       the PowerShell that does it, one process per call
    internal/connection           Runner: SSH, WinRM or local; RunScript, StreamFile
    ---------------------------- the Windows host --------------------------------
    vmms, vmswitch, NetNat, netsh portproxy, the file system

State lives in four places: Terraform's state file (what the last apply returned),
the host (what is really there), the provider's memory (the connection, its slots,
sessions and locks) and, between two calls, scripts still running on the host that
nobody waits for any more. What makes the provider hard is that these come apart: a
call's outcome can be lost while its script goes on, an apply can fail between two
calls, and two applies may act on one object.

| component | state | operations | interacts with | hard | correct when |
|---|---|---|---|---|---|
| SSH backend `connection/ssh.go` | client, alive flag, session slots, one keepalive goroutine per client | Open, Close, RunScript, StreamFile, reconnect, keepalive | all typed calls share it; CloseActive from the signal handler | reconnect raced by calls; a lost reply; timeouts; slots on every return | no connection is lost, slots balance, an outcome says what may be concluded of the script, calls return |
| WinRM backend `connection/winrm.go` | shell slots; the NTLM session, its connection and its ciphers | Open, Close, RunScript; Post under all of them | all typed calls; per call one goroutine that polls for output | a sealed session with an order of messages shared by goroutines; re-handshake; a retry of what may have been done | a post that nothing disturbs succeeds; shells go before slots do; the Runner contract |
| Local backend `connection/local.go` | none | the same interface | as above | timeouts kill the child | the Runner contract |
| Image files `hyperv/image_file.go`, `scripts/image_file` | path locks; the file, its staging and pivot files; DVD drives that use it | New from path, bytes, url; Copy; Remove | resources image_file, vhd; VMs that mounted the image | non-atomic rename, replace while mounted, scripts outliving their locks | a torn file only where a swap reports its failure, staging cleared, locks given back, true answers |
| image_file resource `resources/image_file` | Terraform state | five source modes, CRUD, import, drift | Image files | drift between plan, read and delete | drifted files are not deleted; what is configured is there after a successful apply |
| Virtual disks `hyperv/vhd.go`, `resources/vhd` | Terraform state; the disk file | New (3 kinds), Resize, Remove, copy and resize, import | Image files (copy, lock) | verify-on-drop, rollback of a copy, hashes taken at plan time | no guest's data is overwritten or deleted unasked |
| Virtual machines `hyperv/vm.go`, `resources/vm` | Terraform state; VM record, attachments, boot order, power | CRUD, attach/detach, boot order, power, waiting for an address | disks, switches | a dozen host calls per apply, any may fail | host equals configuration after success, later applies converge |
| Switches, NAT `hyperv/vswitch.go`, `resources/vswitch` | NetNat lock; switch, NAT, host adapter | New, Set, Remove, prepare, import | mappings, VMs | verify-on-drop, two-step removal, NetNat races | Terraform forgets only what is gone; changes of NetNats run alone |
| NAT mappings `hyperv/nat_static_mapping.go` | the mapping, its firewall rule | New, Set (remove, add), Remove, import | switches being replaced | retries, a change that stops half-way | host equals configuration after success |
| Port proxies `hyperv/port_proxy.go` | proxy rule and firewall rule | New, Set, Remove, import | - | two rules, rollback | both as configured, later applies converge |
| Provider `internal/provider`, `main.go` | registry of open backends | Configure, CloseActive | backends | a signal during Open or a call | nothing stays open |
| Pure parts: path and MAC types, typeflatten, schema upgrade | - | - | resources | normal forms | equal means semantically equal |

The hazards, each at its line and with the properties that watch it, are in
`PROJECT.json`.

## The modules

| part | modules |
|---|---|
| contract of a transport | `ScriptRunner` |
| SSH | `SshBackend`, `SshBackendClaims`, `SshBackendProofs`, `MCSshBackend` |
| WinRM | `NtlmTransport`, `WinRmBackend` on top of it, `WinRmBackendClaims`, `WinRmBackendProofs`, `WinRmContractProofs`, `MCWinRm` |
| placing one image | `DestinationFile` (what it promises), `ImageStore`, `ImageStoreProofs`, `ImageContractProofs`, `MCImageStore` |
| Terraform itself | `Terraform`: applies, plans, the ways a handler and a call end |
| images and disks | `DiskHost`, `ImageFileResource`, `VhdResource`, composed in `Disks`, `DisksProofs`, `MCDisks` |
| networks | `NetworkHost`, `SwitchResource`, `MappingResource`, `ProxyResource`, composed in `Networks`, `NetworksProofs`, `MCNetworks` |
| virtual machines | `VmResource`, `VmResourceClaims`, `VmResourceProofs`, `MCVmResource` |

A `...Claims` module states what a comment says of the code and the code does not
do; `MC...` modules hold the instances for TLC. The layers are checked separately:
`SshBackend` and `WinRmBackend` each implement `ScriptRunner`, and the resources
assume of a call only what `ScriptRunner` leaves open (a failed call has done
nothing, something, everything, or does it later). `ImageStore` is the steps inside
one script that `Disks` takes for one step of the host.

Left for later: hyperv_vm's import and forced replacement and a composition of it
with `Disks` and `Networks` through one `Terraform`; the registry of backends with
the forced exit on a second signal; the normal forms of the path and MAC types.

## The models

### SshBackend, ScriptRunner

`SshBackend` is `internal/connection/ssh.go`. A call (`Scripts` for RunScript,
`Streams` for StreamFile) is a goroutine with a program counter `pc[p]`, a local
copy `held[p]` of the client and a `result[p]`; one action is the code between two
points where another goroutine may act. `mu` is `b.mu` (held across the dial, as in
the code), `client`, `alive`, `sem` the fields of the struct, `link[c]` the TCP
connection of each client with the failures the code handles (dropped, or stalled:
no packet arrives and nothing fails), `keepalive[c]` the goroutine of each client,
`remote[p]` the script on the host. `Provider` is Configure's Open and main's
CloseActive. A reconnect is five steps (check, close, open, dial, recapture), so
that all races between two calls' reconnects exist. Scripts finish on their own,
also after their caller has left. `SendExec` sends the exec request; whether and when
it reaches the host is a step of the connection's (`HostStarts`), so a caller may
time out before it does, and the script starts after the return or never. Every call
reconnects at most once, so a client is named after who dialled it, and no counter
is needed.

`ScriptRunner` is the contract of `connection.Runner` and its sentinel errors. A
script is handed over at most once and may start later than that. "ok" means that it
ran to its end, "unsent" that it never runs, "dropped" (`ErrSessionDropped`) that it
was started; a timeout or any other error says nothing. Two parameters tell how much
a backend promises: `MaxStarts`, how often a script that was handed over may be
started, and `TextMayBeLost`, whether what is started may be something else than the
script. SSH implements it with 1 and FALSE, WinRM only with 2 and TRUE.
`SshBackend!KeepsContract` maps the program counter to the caller's view
(`RunnerCall`, `RunnerOutcome`).

### ImageStore, DestinationFile

`ImageStore` is the placing and removing of one file: `lockDestinationPath` and its
callers in `internal/hyperv/image_file.go` and `vhd.go`, and the scripts
`image_file/new.ps1` (with `Invoke-HypervDvdSafeReplace`) and `remove.ps1`. An
operation has a caller (`caller[o]`, holding `lock[spelling]`) and a script
(`script[o]`) which are separate: with `ScriptsOutliveCalls` a caller may leave on a
timeout or a dropped session while its script goes on, as
`internal/connection/ssh.go` says it does. A file is its content; `Torn` is a file
with part of an image. `part[o]` and `pivot[o]` are the two staging files. `slot` is
what the DVD drive of one VM names and `running` whether that VM runs: `new.ps1`
enumerates and swaps the drives of stopped VMs too. Users of the host insert and
eject the image and start and stop the VM at any time. Each cmdlet that changes a
file is a step that may fail, before or half-way, where the cmdlet can; `Move-Item
-Force` is the deletion and the rename it is. What the script's `finally` removes
with `-ErrorAction SilentlyContinue` is removed whatever names it (`Unpivot`), unless
a running VM has it open: that is Windows' doing, not the script's (`Mounted`).

`DestinationFile` is what the doc comments promise of these operations together: one
at a time, not atomic, but with true answers. `ImageStore!KeepsContract` maps to it
where no script outlives its call and the path has one spelling. Where one of the
two is not so, two scripts may work on the file at once, and it does not hold.

### VmResource

`VmResource` is one `hyperv_vm` over any number of applies:
`internal/resources/vm/resource.go` and `wait.go`, the calls of
`internal/hyperv/vm.go` and the scripts under `internal/scripts/vm`.

| state | stands for |
|---|---|
| `cfg` | the configuration; `Edit` changes it between applies |
| `st` | Terraform's state (`Model`): what the last read returned, `st.boot` only the managed entries, `st.desired` the block `state`, `st.tainted` Terraform's mark |
| `vm`, `twin` | the machine of that name on the host, and whether another has the name too |
| `step`, `todo` | where the apply is, and the attachments it has left |
| `result` | how the last apply ended: `inconsistent` is Terraform's error for a provider that returns something else than was planned |
| `late` | a call that failed and whose script is still on the host |

An apply goes through `Refresh` (`Read`), `Plan` (Terraform), then either `NewVM`
(the first call of `Create`) or `DeleteVM`, or directly to the steps `Create` and
`Update` share: `MoveDevice` once for each attach or detach of `Diff`, in the order
disks, adapters, DVD drives, `OrderBoot`, `ChangeSettings` and `Finish`, which is
the power transition or a read; a creation may then wait for the guest's address.
Every call ends in one of three ways: `Succeeds`; `Refused`, because the host says
no (`Accepts` lists its reasons); or `CallFails`, where the host has done nothing,
some (`Parts`: a creation cut before its settings, some of the settings, an adapter
without its VLAN, a machine stopped but not removed) or all of it, or does it later
(`Land`). The first error ends the
apply and keeps the old state, so `st` and `vm` come apart; only the next `Refresh`
brings them together again. A place is a slot as a disk's or a DVD drive's, or an
adapter's name, so an attachment is a function from places to what is in them, and
the three diffs of the code are one.

Assumptions on what is outside `src/`:

- Terraform plans an update whenever there is a `state` block, because
  `state.current` "always shows as (known after apply)" (docs/resources/vm.md,
  `current`); without a block it does when host and configuration differ.
- The host appends an attached device to its boot order and drops a removed one
  (`Attached`, `Without`); refuses a second drive at a slot, a boot order or a
  `Cold` setting on a running VM, and removes all adapters of a name at once.
- With two machines of one name every call but `New-VM` and the removal is an error;
  what it would do to the two is not followed. `remove.ps1` takes all machines of the
  name, or stops one and fails. Removing a machine that is gone may be refused as
  well, since `remove.ps1` recognises only one of the two errors that `get.ps1` does.

### NtlmTransport, WinRmBackend

`NtlmTransport` is `ntlmEncryptionTransporter.Post` in
`internal/connection/winrm.go`, for any set of goroutines (`Posters`) that post at
the same time.

| state | stands for |
|---|---|
| `session`, `injected`, `idle` | `t.session`, `t.injectedConn`, the idle connections of `t.httpTransport`; shared |
| `post`, `attempt`, `keys`, `using`, `fresh` | where a goroutine is, in which `postOnce`, with whose session and connection, and whether its client is still the transporter's |
| `sealed`, `replies` | per session, the order in which messages were sealed and not yet met by the host, and in which replies were sealed by the host and not yet opened |
| `handled`, `disturbed` | how often the host has done what the message asks; whether the network or another goroutine's post was in the way |

The code takes `t.mu` for its fields and for each seal, but not from sealing to
sending, nor from receiving to opening; between these any other poster may step in.
A session and the connection of its handshake have one name: the host accepts a
message only on its own session's connection and in its turn, otherwise it refuses.
A turn that will never come leaves a `Gap`, which nothing later passes. `Retry` is
`invalidateSession` with the second `postOnce`. The network may lose a request, or
a reply after the host has acted, `MaxFaults` times, and the host may close an idle
connection at any time. A name that nobody knows any more is used again, so no
counter grows.

`WinRmBackend` is Open, Close and RunScript on top of it. A call takes the client
when it begins and never looks at it again, so Close is only taken while a call is
still to come; later nobody would notice. A call `p` has two posters, `Main(p)` and
`Output(p)`, since masterzen/winrm polls for a command's output in a goroutine of its
own. After the shell is created, three commands run on
it one after the other (`command`): one stages the script, one runs the staged file,
one removes it. Each goes through launch, feed and end (stdin, where it has any), and
join, which waits for the output goroutine's polls; then the shell is deleted. Each
step is one post; what it does on the host (`HostHandles`) happens at the moment the
host handles it, so also when the reply is lost and again at the retry: `shell`,
`stray`, `input`, `file` and `copies` are the host's. The errors of stdin that
`runShellCmd` does not look at are dropped in `Fed` and `InputEnds`. The text of a
script is one message, and so are the parameters that the second command may be fed.

`KeepsContract` takes every outcome for what the caller is told, and every start for
a start: a script is handed over when the second command begins, the host may start
the staged file twice, and what is in it may not be the script. What remains, and
holds, is that "ok" means a start of the staged file ran to its end, that a call
which was turned away never hands its script over, and that slots bound what is
waited for. The two promises that are missing are in [Findings](#findings) and below
them.

### Terraform

Terraform and the plugin framework are outside `src/`; `Terraform` is what
`internal/resources` relies on, and the resource modules extend it. `phase` is idle,
refresh (every `Read`) or apply; `PlanAll` takes all resources' configurations and
states to operations and plans: `Proposed` combines the configuration, what
`ModifyPlan` sets and what `UseStateForUnknown` keeps (`sticky`), `Operation`
compares it with the state, and with `RequiresReplace` (`forces`) and the taint
mark, to create, update, replace, delete or nothing. Then the handlers of
independent resources run at the same time, in the order `Requires` asks
(`MayBegin`), and what waits for a failed one is given up (`Skip`). `Return`
compares what a handler returns with what was planned: a difference is Terraform's
"inconsistent result" error, and taints a new resource. `Deleted` and `Refreshed`
are the two ways a resource is forgotten.

A call ends in one of four ways: its script ran (`Ran`); it failed with the host as
in one of the script's intermediate states (`CallFails`); it failed and takes effect
later (`late`, `Land`); or it failed and the client polls for what it did
(`PollFails`, `VerifyAttempts` times). `Edit`, `Interfere` and `Import` are the
user's and others' steps. Edits, failures and interference together are bounded by
`MaxEvents`.

### NetworkHost, SwitchResource, MappingResource, ProxyResource, Networks

`NetworkHost` has the host's switches, NetNats, static mappings, portproxy and
firewall rules, and the client's two locks: a handler's step is taken in two,
`Enter` (the lock is taken as `Mode` says, and the script starts) and the step
itself with `Leave`, so that `inside` is the set of scripts under way in the calls
of this process. `Mode` says which calls of `internal/hyperv` take `netNatMu` and
`portProxyMu`, and for reading or writing; `Touches` and `Changes`, independent of
it, say what the scripts' cmdlets do to NetNats and rules.

The three resource modules are the CRUD handlers in `internal/resources` with the
typed client's methods and the scripts they call. An operator `...Accepts` is the
reason a script goes ahead, one named for the script what it does, and `...Partly`
the states it may stop in: `set.ps1` of a mapping removes and adds, `remove.ps1` of
a switch removes the NetNat first, the portproxy's `new.ps1` may fail to roll back.
The polls after a dropped session (`VerifyCreate`, `VerifyPrepare`, `VerifyRemove`)
are steps, with the lock released before and taken anew. The configurations are what
the validators let through (`WellFormed...`), those that pass by their gaps
included. `Networks` composes the three: `Elsewhere` has switches, NetNats and rules
vanish or appear, VMs start on a switch, ports become reserved.

### DiskHost, ImageFileResource, VhdResource, Disks

A file is its content, the layout of the disk that it is (type, size), its parent,
and whether a guest has written to it since. A hash is what it is the hash of.
`busy` are the files that running VMs hold open, directly; `Open` adds their
parents. `ImageFileResource` has the five modes of `hyperv_image_file`: `Landing` is
what a placement would put at the path, or Null for an error, with the skip of a
file that matches. `VhdResource` has the three kinds of new disk with verification
by polling, and the copy as its steps copy, resize, and roll-back by path.
`ModifyPlan` of both hashes the source at plan time (`ImageSets`, `VhdSets`), which
may be before the same apply changes that source. In `Disks`, guests write, VMs
start and stop, files vanish or are replaced, and what is upstream changes.

## Runs

Bounds are the constants' sizes: the numbers of calls of each kind, of places,
resources and configurations, `MaxFaults` for the network of WinRM, and in the
resource modules `MaxEvents`, the number of edits, failures, imports and outside
changes together. No state constraint is used. Deadlock is not checked where an
instance makes finitely many calls or edits and then stops, or where nothing is
configured and so nothing is left to do.

| run | instance | checks |
|---|---|---|
| `ssh_backend` | 2 RunScript, 1 StreamFile, 1 slot | types; one open client; a backend marked alive has a keepalive on its client; slots are held by exactly the calls under way. Two calls are what any of the reconnect races takes; one slot makes them queue |
| `ssh_live` | 2 RunScript, 1 slot | every call returns even if its script never ends; a dead connection is noticed with no call running into it; the backend implements `ScriptRunner`, also where a call times out while its exec request is on the way |
| `winrm` | 1 RunScript, so two goroutines that post at once, 1 slot, 1 fault | types; a post that was alone and undisturbed succeeds, whatever earlier ones left; shells on the host belong to calls with a slot; the backend implements `ScriptRunner` with two starts and no promise of the text; every call returns |
| `image_store` | upload and host download, neither with a swap, forced removal; one content; scripts outlive calls | types; no torn file at the destination; locks are held by calls under way only; every call gets its turn and returns |
| `image_contract` | copy that swaps the media of a VM, running or stopped, download by the runner, removal; two contents; no script outlives its call | one script at a time; staging files are gone when a script is over; a torn file is at the destination only during a swap or after one that reports its failure; the operations implement `DestinationFile` |
| `vm_resource` | 4 configurations, creations and updates that fail, outside changes between applies, 8 events | types; a VM is started only as configured; an apply that succeeds has made host and state what was planned; nothing unplanned is returned but the lost place of a replaced device in the boot order |
| `vm_late` | the same with calls that take effect late and outside changes during an update, 6 events | repeated applies converge, or end in a named way of being stuck |
| `networks` | a switch of all types (5 events), a NAT switch with one mapping (4) and with two (3), a port proxy (5); late effects, 2 polls | types; changes of NetNats and of portproxy rules run alone; Terraform forgets only what is gone; an apply that succeeds has made the host what is configured; nothing unplanned is returned but in the named cases; an apply ends; applies converge or end in a named way of being stuck |
| `disks` | an image through all modes (5 events), a disk copied from an image (5), a disk and a child of it or of a template (4), an image copied from a disk (3), a disk copied from a child (3); late effects, 2 polls | types; no handler destroys what a guest has written unless that was planned; the rest as for `networks` |

Three image operations of different kinds on one path are enough for each pair to
race and for a third to find what they left. In `image_store`, which asks whether a
file is whole and not which one it is, one content is enough; in `image_contract`
two tell the asked image from another one, and their equality is all the code looks
at. The four machine configurations differ in each thing an update can change: the
medium at a slot, a disk and a DVD drive that share it, an adapter's switch and
VLAN, a setting that needs the VM off and one that does not, which devices the boot
order names and in which order, and the power state (on with waiting, on, off,
unmanaged). Eight events let an update fail twice between two edits with
changes from outside; six do when each of them may also take effect late. In
`networks` and `disks` three events are the least in which a configured resource is
changed, disturbed, and a call fails; five add a second edit and a second failure.
The resources of a workspace are those that can affect one another. In `winrm` one
fault makes a retry; a first attempt on a connection that the host has closed, or one
that the other goroutine's post disturbs, makes it fail; the two goroutines of one call race as those of two calls would, and the
proofs lift the number of calls and of faults.

The remaining runs each refute one claim, see [Findings](#findings).

## Fairness

- `SshBackend!CodeFairness` is weak fairness of each goroutine's steps that depend
  on nothing but the Go scheduler: a call that is queued gets a free slot (Go's
  channel wakes its receivers), a request on a working or a dead connection is
  answered, an exec request arrives over a connection that works, the command timeout
  fires, keepalives are sent. Not assumed: that a
  script finishes, that a stalled connection recovers, that the context is
  cancelled. `FairSpec` adds that a stalled connection ends at some time, because
  Go's dialer turns TCP keepalive on; without it (`CodeSpec`) a stalled connection
  keeps a call that has timed out.
- `WinRmBackend!FairSpec`: goroutines are scheduled, each request is answered or its
  connection lost, and a poll is answered after the operation timeout that it
  carries at the latest. The context of a call has a deadline; a command that runs
  longer is polled again and again, so each poll that returns may be the one that
  sees it: strong fairness of `ContextEnds`. Nothing makes a script end. The
  connection that the slow path dials by itself has no deadline of its own
  (`connection/winrm.go:843-897`); that it is answered or lost is assumed of the
  network.
- In `ImageStore!FairSpec` the steps of each caller, the timeout among them, and of
  each script are weakly fair, except for a download, which may never end. A call asks
  for its lock once, and none takes it for ever, so weak fairness grants it.
- In `VmResource`, `Networks` and `Disks`, weak fairness of `ApplyStep` says that
  the user runs `terraform apply` again until there is nothing to do, and that an
  apply goes on by itself; the other one that a call left on the host ends at some
  time. Neither the edits nor the failures are fair, and `MaxEvents` ends them, as
  convergence requires: nothing converges while somebody works against it.
  `ApplyEnds` shows that no handler waits for ever for a lock, the polls after a
  dropped session included.

## Proofs

Every invariant and action property that a passing run checks is a theorem. They
hold for any number of calls and resources, any cap, any sets of contents, devices,
settings and configurations and any number of faults and events. They use the
modules' named assumptions only: kinds of operation and types of resource are
disjoint, configurations are well formed (what the schema and the validators let
through), and what stands for "nobody", "no client", "no state" and "nothing" is
none of the values it is told from.

- `TypeCorrect` (SSH, WinRM, ImageStore, VmResource). The type invariants also fix
  which kinds of call reach which steps (a stream never takes a slot, a removal
  never stages), which the other proofs need.
- `ConnectionSafety`: `OneOpenClient` and `AliveIsWatched`. The inductive invariant
  `ConnInv` adds who may be dialling: only the holder of `mu`, and only while
  `client` is nil, so that two dials never overwrite each other's client.
- `SlotSafety`: `SlotAccounting`. `SlotInv` says a slot is held exactly between
  acquisition and return; the lemma `ReturnKeepsSlots` covers the many returns, and
  the cardinality bound follows from finiteness of the semaphore.
- `ImplementsRunner` (SSH): `Spec => KeepsContract`, step by step. `ResultInv` ties
  a result to what the script on the host has done at each program point, the time
  between its exec request's being sent and its start included; `CrashInv` says that
  after a nil dereference nothing moves but the host.
- `AlonePostsSucceed`: `AloneSucceeds`. `PostInv` is the argument why the retry is
  enough when nobody interferes: a post that is alone in its second attempt starts
  without any shared state (`Alone`), `Placed` says which of session, connection and
  turn a post has at each step, and `Counted` how often it was handled.
- `ShellsStayWithSlots`: `ShellsHaveSlots`. `CallInv` has which of a call's posts
  can be under way at each of its steps (`CallPosts`), that a slot is held from
  acquisition to return, and that a call that returns without a failed post has
  deleted its shell.
- `ImplementsRunner` (WinRM): `Spec => KeepsContract`. `RunInv` ties result and step
  to the host's copies of the script: one exists only once the second command began,
  and where its end was read, the last one ran to its end. That a script is started
  once, and that what is started is its text, is not proved: neither holds.
- `FileSafety`: `WholeImages`, with any number of scripts outliving their calls.
  `FileInv` says that a pivot is whole while a swap may still copy it
  (`PivotIsWhole`), and that a script has no outcome before it concludes
  (`Undecided`), so that the swap which left a torn file goes on naming its failure.
- `StagingSafety`: `StagingCleared`. `StagingInv` says at each program point of a
  script which of its two staging files can exist.
- `LockSafety`: `LockHeldByCaller`. `LockInv` is the converse as well: a caller
  between taking the lock and returning holds the lock of its own spelling.
- `ScriptExclusion`: `OneScript` if no script outlives its call and the path has one
  spelling; from `LockInv` and the fact that a script at work has a caller that
  waits.
- `ImplementsDestinationFile`: `Spec /\ Unsummed => KeepsContract`, under the same two
  conditions. `Told` says of each operation what its step tells of the destination:
  what was verified is the image asked for, and an outcome that has not been returned
  yet is still true. It survives the others' steps because only the lock's holder can
  act (`OthersTold`). `Unsummed`, that a fetch which decompresses has no checksum, is
  needed: see the skip below.
- `StartedAsConfigured`: `StartsConfigured` (VmResource), if no failed call has a
  late effect and nobody works on the VM during an update; with either, it is false.
  `ProgressInv` says at each step how far the VM has got: before the device calls it
  is what the state says, during them each place holds what `Due` derives from the
  calls left (what was there while its detach is left, nothing while only its attach
  is, otherwise what is configured), which needs that a detach for replacement has
  its attach in the list and goes first (`Matched`, `DetachFirst`); afterwards the
  devices, and after the settings step everything, are the configuration's.
- `LocksExclude`: `ChangesAlone`. The mode of a call depends on the step and on plan
  or state, which the handlers change; so the invariant says that a running script
  is its resource's own step (`Running`, `Rests`), that state and plan have the form
  a mode depends on (`Shape`), and that the modes of two scripts under way are
  compatible (`Apart`); the lemma `LocksTaken` ties a mode to what the script
  touches.
- `GuestDataKept`: `KeepsGuestData`. A step of Create or Update is right or wrong by
  what was planned, so the invariant says what a plan holds (`Fits`: among others,
  that an update of a copied disk has a hash to compare), under which operation a
  handler is at a step (`Allowed`: a copy, its resize and its roll-back only while
  the planned hash differs from the state's, or in a creation), and what a late call
  may still do (`LateFits`). Whatever a late call does happens outside a handler's
  step; what the theorem excludes is a handler that does it.

- `NetworkTypes`, `ForgetsTheGone`, `PlansReturned`, `AppliesInSync` (Networks):
  `TypeOK`, `ForgetsOnlyTheGone`, `ReturnsThePlan`, `OkMeansInSync`. The second
  invariant, `Facts`, follows a resource through an apply. `Course` says at which
  steps a handler can be under which operation, `Asked` that what is planned is the
  configuration with what the state keeps, and of an update that nothing differs
  which forces a replacement, `AsRead` that until somebody disturbs the host the
  state is what `Read` would find, and `Settled` that a resource whose handler has
  ended well is in sync and stays so while the others' handlers run. That one is why
  the host is cut into each resource's own part (`Only`): a script changes its own
  part, except for a switch, whose NetNat takes the mappings with it (`Lost`).
  `Effect` is what one step may do (go on, read, write, destroy), `HandlersEffect`
  that each handler's steps do one of these, and only this looks into the scripts;
  preservation and the four theorems follow from `Effect`.
- `DiskTypesHold`, `ForgetsTheGone`, `PlansReturned`, `AppliesInSync` (Disks): the
  same four, along the same argument. What is different is the hash that
  `ModifyPlan` takes before anything is done: `Hashed` says that the planned hash is
  that of the source as it still is, unless this apply changes the source, and
  `Updates` that an update which takes no hash keeps the state's. An update that
  finds them equal does not copy, so it leaves a copy of the source only because the
  state's hash is what was copied (`Current`). Files are shared, not a resource's own:
  `Spares` and `ElsewhereIs` say which files a step leaves as they are.
- `AppliesInSync`, `PlansReturned` (VmResource): `OkMeansInSync`,
  `NeverInconsistent`, under the conditions of `StartedAsConfigured`. `Synced` adds to
  `ProgressInv` that the state read before a plan is the machine's, that no adapter
  exists twice (an attach finds its place empty), and that until the last step the
  power is what was read, which is why `stateDesiredChanged` may decide by the state.
  A plan without changes means that nothing had to be done only because
  `reconcileBootOrderState` does nothing when it is applied to what it returned
  (`KeptAgain`), and where the configuration has no boot order it never differs
  because it returns nothing for it (`KeptNothing`). `NeverInconsistent` excuses
  nothing but the place of a replaced device (`PlaceLost`), so its theorem needs
  `OrderInvariant` as well: boot entries, of the host and of the state, have their
  device (`Bootable`, `StateBootable`), and during an update that does not set the
  order again the entries whose devices it leaves alone keep theirs (`Ordered`). All
  of these are about the recursion over the host's order (`Among`), by induction on
  its length (`AmongAmong`, `AmongSame`, `AmongAppend`, `AmongAll` for the last);
  `UpTo` is induction as a statement about sets of numbers, from the fact that < is
  well founded.

Two of these proofs failed at first because the properties were wrong, in cases that
the instances then lacked. `SourceChanged` named disks only, while an image of mode
`source` is hashed at plan time as well; and `Surprising` named the attributes of a
disk that an update may return other than planned without the parent, which a disk
has from the child it is copied from. TLC refutes the narrower properties in `disks`
since its workspaces have an image that is copied from a disk (`backup`) and a disk
that is copied from a child (`clone`).

Model-checked only: all liveness (`CallsReturn`, `DeadLinkNoticed`, `ApplyEnds`,
`Converges`), which is beyond the prover, as is `ENABLED`; and the refuted claims.

## Findings

Claims of a comment, stated as a property in a `...Claims` module and refuted by a
run; quotations and lines are in `PROJECT.json`.

- `ssh_failed_reconnect` (2 calls, 2 slots): after a failed reconnect the nil check
  refuses every later call.
- `vm_orphan` (3 events): a creation that fails at a device leaves a VM that
  Terraform does not know; the next apply creates a second one of its name.
- `winrm_lost_input` (1 fault): a lost write to stdin stages an empty file, and
  RunScript reports success of a script that never ran.

Further behaviours of the code that the models contain and that a reader of the
comments would not expect. They have no run of their own.

SSH:

- Two calls that saw a dead connection reconnect one after the other; the second
  closes the client the first runs on (`connection/ssh.go:303`), and a call that
  reads the client again while another has set it to nil dereferences it. The
  keepalive of a replaced client, failing late, marks the new one dead (`:293`). A
  call queued for a slot at shutdown dials again (`:400`). Transfers take no slot
  (`:607`). The cleanup after a timeout opens a session without a deadline (`:420`).
  A connection lost between the exec request and its reply is not reported as a
  dropped session (`:461`).

WinRM:

- `connection/winrm.go:647` says "The mutex guards session state, so Post() is safe
  for concurrent callers". Concurrent posts can collide: a second one finds no idle
  connection, dials one without authentication and is refused; a failing one
  invalidates the session of the others; replies may be opened out of order. The
  retry hides most of it, but a post may fail, or a script start twice, with no
  fault of the network.
- A retry after a lost reply repeats what the host has done: a script is started
  twice (`MaxStarts` of the contract is 2 for this reason, `connection/winrm.go:794`),
  its text is staged twice over, a piece of output is lost, a shell stays.
- The second failure of a post invalidates nothing. `StreamFile`'s polling ignores
  errors and then reports exit code 0; it is not modelled.

Images and disks:

- After a timeout two scripts can work on one path, the lock having been given back.
  `Move-Item -Force` deletes before it renames (`image_file/new.ps1:75`), so a
  replacement may leave no file; a failed copy under a mounted image hands the VM a
  torn file and removes the whole one (`:233`). A restore of the drive that fails does
  so silently (`:243`), and the pivot is then removed all the same (`:247`): the drive
  of a stopped VM, which does not keep the file open, is left naming a file that is
  gone, where `:176` promises a real one at every step. Two spellings of a path take two
  locks (`hyperv/client.go:38`). With `compression`, `checksum` is the archive's
  (`image_file/schema.go:126`), and the skip compares it with the file at the
  destination (`hyperv/image_file.go:88`): an unpacked image is always fetched again,
  and an archive that is there, kept by `keep_on_destroy` when `compression` was
  added, is reported as the image.
- Literal bytes that somebody has changed on the host are planned to be written
  again, and `Update` then returns the plan without writing; what was fetched from
  an url is never compared again.
- A disk copied from an image that the same apply changes is copied only by the next
  apply, as its hash is taken at plan time. A source that is gone makes every plan
  fail, also that of the image which would bring it back; likewise after an import.
- Attributes kept from the state by `UseStateForUnknown` but changed by an update (a
  disk's file size, its type after a copy from a source of another type) end in
  Terraform's inconsistency error. Without `size_bytes`, the copy is resized to the
  old size, or refused and deleted.
- A dropped session's verification takes any child disk for the one asked for, of
  any parent. A disk copied from a source overwrites a file that was there; a
  created one refuses.

Virtual machines:

- What no further apply of a `hyperv_vm` gets past (`Stuck` in `VmResource`, all
  lines in `resources/vm/resource.go`): a managed boot order that a replaced device
  lost its place in, once the VM runs; stopping a VM and changing `Cold` settings in
  one apply, since the settings go first (`:725`); a disk that takes the slot of a
  DVD drive, since disks are attached before DVD drives are detached (`:611`,
  `:649`); two adapters of one name after a late attach (`:638`). Replacing a boot
  device makes the provider return another boot order than was planned (`:1518`), so
  that apply ends with Terraform's inconsistency error although all its calls
  succeeded.
- An apply that changes settings and starts the VM succeeds; the documentation says
  it fails.

Networks:

- `allow_management_os` of an Internal switch passes the validators and fails at
  creation, and every update of an Internal switch fails, as the state's value is
  sent.
- A creation whose session dropped takes any switch of the name for its own; if it
  is another, the resource is tainted, and the next apply removes a switch it did
  not make.
- Destroying an External switch gives the adapter back to the host before it finds
  the switch in use (`docs/resources/virtual_switch.md` says it fails before it
  changes the host).
- An imported NAT switch is read as Internal, and its NetNat stays when it is
  destroyed; so does that of a switch that was removed by somebody else, and it then
  refuses another prefix. Replacing a NAT switch takes the static mappings with it,
  which the next apply makes again, with a second firewall rule of the same name.
- `docs/resources/nat_static_mapping.md:35,47`: `enabled = false` "skips firewall
  management entirely"; an update disables an existing rule and a destroy removes
  any of the name. A disabled rule with a profile, where there is no rule, is read
  back with profile Any: Terraform's inconsistency error, for ever.
- `ChangesAlone` is about the calls of one provider process; a script that outlives
  its call, or another process, is not held back by the locks.

## What is not modelled

- In the modelled components: defaults of the connection options, host key checks,
  the framing of scp and of encrypted bodies, basic and kerberos authentication, the
  text of scripts and replies; reading operations without effects (Get, Stat, the
  in-place mode of image_file inside `ImageStore`); the sweepers of the acceptance
  tests. Of WinRM, `StreamFile` (many scripts of the modelled form, one after
  another, on one shell) and what script parameters hold: they are one message to
  stdin, and the loss of it is not told from that of anything else.
- In `VmResource`: import, replacement forced by generation or name, transient power
  states, the parts of the memory block and of secure boot as settings of their own,
  the order in which `set.ps1` changes settings (a failed call may have changed any
  of them), and the default devices of a new VM, which `new.ps1` removes outside its
  cleanup.
- In `Networks` and `Disks`: the gateway address of a NAT switch by itself, a change
  of name or path (a replacement, which other attributes force in the models),
  format and block size of disks, two resources that claim one name on the host, two
  provider processes.
- The local backend starts one child process per call and shares nothing. The
  registry of open backends and the forced exit on a second signal are still to be
  modelled; `CloseActive` is `SshBackend!Shutdown`.
- ISO building, the read-only data sources, the path, MAC and flattening types,
  script assembly and the schema upgrade of `hyperv_vm` are functions without state
  of their own; schemas, documentation, the acceptance harness, examples and the
  build do not run in the shipped program or have no behaviour.
