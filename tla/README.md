# plax in TLA+

plax gives every line of work on a repository its own *instance*: a git branch
and worktree, databases cloned from a common base, containers, native
processes and ports. This directory holds specifications of the parts of plax
where order, failure and concurrency decide whether it is correct, the TLC
configurations that check them on small instances, and TLAPS proofs of what
matters most for instances of any size.

Paths below are relative to the repository root. `PROJECT.json` maps every
definition to the lines it models and lists runs, mutants, findings, hazards
and theorems.

## 1. Inventory

| Part | State it keeps | Operations | Where it is hard |
|---|---|---|---|
| Registry (`pkg/registry`) | `registry.json`: instance records, port allocation table, stamps; a flock on `registry.json.lock` | Open (lock, read), Add/Update/RemoveInstance, AllocPort/ReleasePort, Save (write + rename), Close | whole-file writes by several processes; two tables that must agree |
| up / down / suspend / resume (`pkg/instance`) | stack of cleanups; what has been obtained so far | up to 14 phases each | every step can fail, every cleanup can fail, a kill between any two steps |
| Port pool (`pkg/portpool`) | none of its own | Allocate, Release, probe | probe long before use |
| Worktrees (`pkg/worktree`) | branches, worktrees | Create, Remove, ResolveRef | partial creation |
| Docker driver (`pkg/derive/docker`) | containers, networks | RunService, Start/Stop/RemoveService, networks | concurrent starts, ignored clean-up errors |
| Process supervisor (`pkg/process`) | process groups, by pid and start time | Spawn, Terminate, IsAlive | pid reuse, children that outlive the leader |
| Base database (`pkg/derive/postgres`) | `plax_base`, `plax_base_next`, clones; a provenance row in each | create, seed, reset, refresh with a deferred swap, status, clone | no lock of its own; DDL that fails while anybody is connected |
| Mailbox (`pkg/mailbox`) | one directory per instance | send, recv, recv --all | files seen half written, removal that fails |
| Sessions (`exec`, `attach` in `cmd/plax/main.go`) | none | run a child | hold the registry lock while the child runs |
| Work record (`pkg/record`) | one markdown file per tracked instance | Create, Append, WriteVerdict, Read, ReadText; the parent check of a stacked up | a flock of its own that up does not take; short writes; only one verdict |
| Environment (`pkg/derive/env`), rederive | `.env` per instance | Derive, DeriveMerged, Rederive, CheckEnv | inputs edited at any time; what stays of an older derivation; partial rederive |
| Verification (`pkg/verify`) | health in the record | RunVerify | what a failed check means for up and resume |
| Status, doctor | none | reports | stale or incomparable versions |
| Blueprint, stamp, toolchain | `plax.json` | validate, init, hash, parse | none over time |
| Self upgrade (`pkg/upgrade`) | the binary | download, verify, replace | replace in place |
| Command line (`cmd/plax`) | none | one process per command | which backends a command can do without |

How they interact: each command is a process of its own. All commands that
touch instances go through the registry lock, in `buildDeps` or
`openRegistry`; the `base` commands do not, and meet `up` only inside
Postgres. `send` and `recv` hold the registry lock although the mailbox does
not need it; `exec` and `attach` hold it for as long as their child runs.

What makes each part correct:

* registry — no update is lost; the record table and the port table agree;
* lifecycle — a failed up leaves nothing, a down forgets nothing, a suspended
  instance runs nothing, ports never collide, every command ends;
* base — there is always a complete base or one waiting; a clone is complete;
  the base is locked at rest; a deferred refresh can be resumed;
* mailbox and sessions — messages arrive, once and in order when nothing
  fails; whoever waits for the lock is served;
* process supervisor — what is reported gone is gone; strangers that took a
  number over are left alone;
* work record — what was reported written, or shown, stays; one verdict; a
  parent that is named is there;
* environment — every key gets the value the documented precedence gives it,
  also in a file derived from an older one; the health is about the file that
  is there; one failing instance does not keep rederive from the others.

## 2. Modules

    Registry ── Lifecycle ── LifecycleProps ── LifecycleInv ── LifecycleProofs, MCLifecycle
     (operators)                  │                                 │
                         INSTANCE Instances                   LifecycleFile
                             (abstract)                           │
                                                            LifecycleWorld
    BaseManager ── BaseProps ── BaseInv ── BaseProofs, MCBaseManager
    Mailbox ────── MailboxProps ── MailboxProofs, MCMailbox
    Supervisor ─── SupervisorProps ── SupervisorProofs, MCSupervisor
    WorkRecord ─── WorkRecordProps ── WorkRecordInv ── WorkRecordProofs, MCWorkRecord
                        │
                   INSTANCE Journal (abstract)
    Environment ── EnvironmentProps ── EnvironmentInv ── EnvironmentProofs, MCEnvironment

**Registry** has no variables: the value of the registry file and the
operations on it (`PutInstance`, `RemoveInstance`, `AllocPorts`,
`ReleasePorts`, `FreePorts`), named after the methods.

**Lifecycle** composes everything up, down, suspend and resume touch. The file
is `disk`, the flock `lock`, the in-memory copy `mem[c]`; `pc[c]` is the phase
a command is in, one action per phase (`UpClone` is step 5 of `Up`, `DnSave`
step 8 of `Down`). The world is `made` (branch, worktree, mailbox directory,
network, work record, databases), `ctrs` and `procs`. A process group has a
number of its own, `Pids`, so that a group that was left behind and one that
was started after it on the same port are two. A container listens as long as
it is up. A process group listens if and when it likes: it has not bound its
port yet, or only children are left that do not hold it, or it never does. So
every probe, of an up for new ports and of a resume for those of its record,
picks freely which groups are `silent` and misses them (`BoundPorts`).

`undo[c]` is the stack of cleanups; its entries are pushed where the code
appends them, which is sometimes before (containers, processes) and sometimes
after (databases) the thing is done. Where the code runs goroutines over
several services or processes, one action chooses the subset that succeeded.
Two ghost variables serve the properties: `owed` collects what a removal was
attempted for in vain or what a kill left behind, `kept` the records that had
been in place at the end of some command. A kill ends the command too, so the
record of an up that is killed counts as kept from then on.

**Instances** is the abstract specification: an instance is absent, running or
suspended and owns ports; one instance changes at a time. `LifecycleProps`
instantiates it with the contents of the file (`AbstractState`, `disk.alloc`).

**BaseManager** has one action per SQL statement of
`pkg/derive/postgres/basemanager.go`. `db` is the catalogue (existence,
ALLOW_CONNECTIONS as `open`, how full schema and data are, the version row),
`conns` the sessions. The rules of Postgres are the guards `Reaches` (a new
session needs the flag) and `Droppable` (DROP, RENAME and TEMPLATE refuse a
database in use). A migrate or seed command is a beginning and an end, with
its connection possibly dropped in between.

**Mailbox** has the files of one mailbox directory and the commands around it.
A file is a number, whether its name is a temporary one, and whether it is
complete. `Listing` is the sorted list of names that `listFiles` returns. What
a recv is at is kept as a set, for the order matters when it prints only.
`Start` lets the child of a session start further commands.

**Supervisor** follows one native process through `Spawn` and later calls of
`Terminate`, one system call per action, since the world moves between any two
of them. `member` is the life of the leader and its children (zombies exist,
as they do for signal 0), `stranger` who else holds the number, `recorded`
whose start time `Spawn` returned. A start time matters only by whose it is.
`AliveAs` and `AliveAsGroup` are the two halves of `aliveAs`, used in the wait
(`Poll`) and before the SIGKILL (`Recheck`). `Lifecycle` has the outcome only:
a termination works, or it fails and leaves something.

**WorkRecord** has the record files, their lock files and the commands `log`,
`verdict`, `record`, and of `up` and `down` what concerns records: the parent
check (`Parent`, `Leave`), the registration before `Create`, and the rollback
(`Withdraw`). `appendBytes` is one action per system call: a write that stops
half way, the truncation after it, the close and the truncation after that. A
record is the sequence of its entries; an entry is whole, or the rest of one
that still parses (`cut`), or one with which the record does not (`broken`).
Each file has a number, `gen`, so that an append which goes on writing to a
file that was removed meanwhile is told from one to its successor.

**Journal** is the abstract specification of a record: it appears empty, can
be withdrawn only while the up that made it runs, grows at its end, and holds
one verdict. `WorkRecordProps` maps the files to it: an entry counts once its
command has settled it.

**Environment** has the inputs (`template`, `user`, the blueprint's `holes` and
`scrub`), the `.env` of every instance, and the registry as far as rederive and
verify use it. A file is a sequence of lines, since the derivation works line
by line and compares bytes, and a map where the code reads it as one. `Derived`
is `DeriveMerged` as the set of files it may write: one per order in which the
map of holes may be iterated. `Reference` is the precedence of the manual as a
function of the key. The commands are `up` (steps 4, 4.5 and the registration
with its verification), `rederive` and `verify`; they exclude each other by the
registry lock, so `pc` and `job` are of the one command that runs, while the
user may edit any input at any time. Any reading of a file may fail. Up then
rolls back; rederive goes on as if the user's `.env` (`Rederive`) or that of
the instance (`Derive`) were empty, and reports nothing. The ghost `blind`
remembers for whom it did so, and `fresh` then says "blind", not "rederive".
Verify passes over what it cannot read (`EnvMayPass`).

`DataDrift` in BaseManager is the data dimension of `plax status`.

Each `...Props` module states the properties, each `...Inv` module (for Mailbox
the second half of the properties) the inductive invariant behind them, each
`MC...` module has the instances for TLC. Definitions marked *Mutant* are
variants a plausible bug would produce; nothing uses them, they show that the
property next to them in `PROJECT.json` can fail.

## 3. Runs

| Run | Instance | What it shows |
|---|---|---|
| `pair` | 2 clients, 2 names, 1 service, 1 process, 1 database, 4 ports, 1 failure or kill; 683 924 states up to symmetry | `CopyIsCurrent`, `PortTablesAgree`, `NoLostUpdate`: concurrent commands do not undo each other; `NoPortCollision`: nor do they share ports; `NothingLost`, `RecordsSurvive`, also after kills; `IInv`, the invariant of the proofs; `ImplementsInstances`, the refinement |
| `world` | 1 client, 1 name, 1 service, 2 processes, 1 database, 3 ports, 2 failures; 442 228 states | `SuspendedIsQuiet`, `FailedUpLeavesNothing` with one database, through every sequence of commands, concurrent starts of which some fail, and failing cleanups; `WInv`, the invariant behind them and behind `NothingLost`, `NoPortCollision` and `RecordsSurvive`; `EveryCommandEnds` |
| `clones` | 2 databases, 1 failure | **violated**: `FailedUpLeavesNothing` |
| `base_one` | a maintainer, an `up`, a `status`; 3 commands, 1 failure or stray session, 1 kill; 1.5 M states | `DataSurvives`, `SmoothClone`, `LockedAtRest`, `DeferredIsStaged`, `DriftIsSeen`; `IInv`, their invariant and the types |
| `base_two` | two refreshing clients | **violated**: `DataSurvives` |
| `mailbox_calls` | 2 clients, 3 sends, 1 failure, 1 kill; 105 125 states | `AtLeastOnce`, `OnceInOrder`, their invariant `IInv`; `Served` |
| `mailbox_torn` | 2 sends, 1 failure | **violated**: `WaitingIsReceived` |
| `mailbox_nested` | children run plax commands | **violated**: `Served` |
| `supervisor_group` | a leader, 2 children, 2 calls, with and without /proc; 7 130 states | `GoneWhenReported`, `LedStrangerSpared`, `DeadGroupVanishes` |
| `record_notes` | 2 clients, 2 names, 2 tracked ups, 2 notes or verdicts, 1 failure or kill; 0.54 M states up to symmetry | `ReportedStays`, `ShownStays`, `LineageKept`, their invariant `IInv`; `ImplementsJournal`, the refinement |
| `environment_edits` | 2 instances, 2 keys, 2 templates, 2 user files, every set of holes and of scrubbed keys, 1 edit, 1 failure, failed reading or kill; 1.28 M states | `DeriveIsReference`, `FreshIsRight`, `HealthIsTrue`, `RederiveReachesAll`; `IInv`, the invariant behind them |
| `environment_twice` | 1 instance, a template without the two holes, nothing edited, nothing failing | **violated**: `SecondRunWritesNothing` |

The five violated runs are findings:

1. *A failed second clone leaves the first* (`up.go:300-315`). The cleanup for
   the databases is appended after the loop that clones them; the manual says
   all side effects are rolled back.
2. *Two refreshes can destroy the base* (`basemanager.go:290-302`, `683-716`).
   A refresh between locking `base_next` and renaming it looks like a deferred
   one. The second refresh drops and renames; the first then drops the new
   base.
3. *A torn send blocks recv* (`mailbox.go:68`, `169`). Temporary files carry
   the suffix of messages and sort first; `recv` fails on one forever.
4. *plax inside exec or attach hangs* (`main.go:947-1081`). The session holds
   the lock that its child, a send or any other plax command, waits for.
5. *A second rederive rewrites the file* (`derive.go:62-72`). Holes that the
   template does not mention are appended in the order of a map iteration; two
   of them, and identical runs differ, which plan 13 rules out. The instance
   is then reported as changed, and its health is judged anew.

Observations without a run of their own:

* An error of reading or parsing the user's `.env`, or an instance's, counts as
  an empty file in a rederive and is not reported (`rederive.go:28-32`,
  `64-68`); plan 4, line 782, says that exit status 0 means all instances are
  rederived. With the instances of `environment_edits` TLC refutes
  `ExitZeroIsUpToDate`: a hole is dropped from the blueprint, and a rederive
  that cannot read the user's file leaves the instance's old value in its place.
* Suspend drops the pids of processes that it could not terminate and counts on
  the port probe of the resume to name the survivor (plan 4, lines 405-406).
  The probe sees listeners only (`resume.go:37-47`, `probe.go:12-19`).
  `ProbeNamesSurvivor` states the promise; with one failure TLC refutes it: the
  resume starts a second process beside the survivor, which no record names.
* While `base status` has the base open to read its version, `up` advises to
  reset a base that is in order (`basemanager.go:512-548`, `up.go:172`); the
  comment expects a recoverable 55006 instead.
* Without a leader nothing identifies a process group (`supervisor.go:120-125`),
  so a reused number may be signalled; `StrangerSpared` states the promise of
  the comment. The comment there also announces a SIGKILL that
  `supervisor.go:153-155` withholds: children that ignore SIGTERM are reported
  as survivors, which a test expects.
* `appendBytes` is to leave no partial entry behind (`record.go:350-352`). It
  does when its truncation fails, which is ignored, or when it is killed; what
  is left may make the record unreadable, and then nothing is appended any more.
  The run shows that everything reported or shown stays intact even so.
* If `Create` cannot remove its temporary file the up rolls back but the record
  stays, for the cleanup is appended afterwards (`record.go:159`,
  `up.go:577-584`); the next tracked up of that name is refused.
* A note reported as written goes with its record if the up that made the
  record is still verifying and then cannot save: the rollback does not look
  (`withdrawn` in `ReportedStays`).
* A rederive that is killed, or cannot save, after it replaced a file leaves
  the old health; later rederives find the same bytes and do not look at it
  (plan 15, lines 485-488), `plax verify` does. Hence the premise of
  `HealthIsTrue`.
* A key the user has deleted from his `.env` keeps its value in instances,
  since rederive starts from the file the instance has; plan 13, line 155, says
  it disappears, plan 4 that the born-with value stays. `Reference` has the
  latter, as the code does.
* Versions of the base repeat after a reset, after a seed while a swap is
  deferred, and when a killed refresh is followed by one that creates the base
  anew; status may then call an old instance current. Hence the premise of
  `DriftIsSeen`.

Bounds. One name is enough for what a single instance leaves behind; two names
and two clients are needed for anything about lost updates and shared ports,
and a third adds no new pair, for every property of `pair` relates at most two
instances. Two services-or-processes sharing a pool of four ports makes ports
scarce for two instances, while `world` and `clones` have what failing halves
of concurrent starts need. A new group takes the lowest number that no group of
its process bears which is alive, owed or in the record, so one number more
than failures and kills can leave behind is enough: `Pids` never runs out.
`MaxFaults` counts failing steps, failing cleanups, workloads that exit,
backends that are unreachable, and kills; two let a step fail and its cleanup
fail, or the next command. `MaxCrashes` is how many of them may be kills: one
leaves what any kill leaves. What a second kill adds, or a kill after a
failure, is covered by the proofs, which know no bound. `Tries` is the number
of attempts to drop the old base, seven in the code, two here: the attempts do
not differ. The supervisor needs two children, one that outlives the leader and
one that is forked late, and two calls for a second attempt. A record needs two
writers, one of whom may be an up in its rollback, and two ups for a record
that follows another under one name, or for a parent and a child; with two
notes one can cut into the other; what a second failure adds, a truncation that
fails after a short write, is left to the proof. Two instances show that one
failure does not stop the loop, and one edit falls before, within or after any
command; two keys can be a hole, a scrubbed key, both or neither, in the
template, in the user's file or left over, and collide in value. In `base_one`
three commands cover a deferred refresh, its resumption and a clone.
`CHECK_DEADLOCK FALSE` stands where the bound on started commands ends the
behaviour, and in `mailbox_nested`, whose deadlock is the finding itself.

Some properties are stated under a premise, and the premise is part of what
they say. `FailedUpLeavesNothing` excludes kills (a killed up leaves what it
made; `NothingLost` covers what is left). `SmoothClone`, `LockedAtRest` and
`DriftIsSeen` exclude failures, kills and second maintainers. Without the
premise they are false, by the documented nature of the base commands for the
most part; one case is worth knowing: a refresh that is killed between DROP and
RENAME, followed by another refresh, creates an unseeded base and reports
success, although `base_next` with the data is there (`RefreshBase` checks the
base before `base_next`). `NeverPartial` in `BaseProps` is the property that
fails.

## 4. Fairness

`EveryCommandEnds` assumes `WF_vars(Step(c))`: a command holding the lock goes
on. The code is sequential there, and its own waits are bounded (settle delay,
Terminate's five seconds, docker's stop timeout); calls to git, Docker,
Postgres and the migrate command are assumed to return, for the code sets no
limit to them. Nothing is assumed about who gets the lock. `Served` asks more:
weak fairness of every running command and of a child's exit, strong fairness
of taking the lock, since flock has no queue. That is generous on purpose: the
finding of `mailbox_nested` holds even so. Workload exits, kills, and the
start of a command are never fair. `base` runs check safety only.
`DeadGroupVanishes` assumes that `Spawn` goes on to its goroutine and that
whoever waits for a zombie reaps it once nobody of the group runs: the
goroutine, or init. It does not assume that the spawning plax ever ends.

## 5. Proofs

The theorems hold for every set of names, services, processes, ports,
databases, clients, children and commands, and for any number of failures,
kills, sends, notes, calls and edits. TLC checks the same properties, and the
inductive invariants themselves, on the instances of section 3.

| Module | Theorem | Property |
|---|---|---|
| `LifecycleProofs` | `IInvInvariant` | `IInv` |
| | `CopyIsCurrentInvariant` | `CopyIsCurrent` |
| | `PortTablesAgreeInvariant` | `PortTablesAgree` |
| | `NoLostUpdateProperty` | `NoLostUpdate` |
| | `TypeCorrect` | `TypeOK` |
| `LifecycleFile` | `FileInvariant` | `FileInv` |
| | `ImplementsInstancesHolds` | `ImplementsInstances` |
| `LifecycleWorld` | `WorldHolds` | `WInv` |
| | `NoPortCollisionHolds` | `NoPortCollision` |
| | `SuspendedIsQuietHolds` | `SuspendedIsQuiet` |
| | `RecordsSurviveHolds` | `RecordsSurvive` |
| | `NothingLostHolds` | `NothingLost`, with one database at most |
| | `FailedUpLeavesNothingHolds` | `FailedUpLeavesNothing`, with one database at most |
| `SupervisorProofs` | `SupervisorTypes` | `TypeOK` |
| | `GoneWhenReportedInvariant` | `GoneWhenReported` |
| | `LedStrangerSparedInvariant` | `LedStrangerSpared` |
| `WorkRecordProofs` | `InvariantHolds`, `TypesHold` | `IInv`, `TypeOK` |
| | `ReportedHolds`, `ShownHolds` | `ReportedStays`, `ShownStays` |
| | `LineageHolds` | `LineageKept` |
| | `Implements` | `ImplementsJournal` |
| `MailboxProofs` | `MailboxInvariant`, `TypesHold` | `IInv`, `TypeOK` |
| | `AtLeastOnceHolds` | `AtLeastOnce` |
| | `OnceInOrderHolds` | `OnceInOrder` |
| `BaseProofs` | `BaseInvariant`, `BaseTypes` | `IInv`, `TypeOK` |
| | `DataSurvivesInvariant` | `DataSurvives`, with one maintainer |
| | `SmoothCloneInvariant`, `LockedAtRestInvariant` | `SmoothClone`, `LockedAtRest`, with one maintainer |
| | `DeferredIsStagedInvariant`, `DriftIsSeenInvariant` | `DeferredIsStaged`, `DriftIsSeen`, with one maintainer |
| `EnvironmentProofs` | `EnvironmentInvariant`, `EnvironmentTypes` | `IInv`, `TypeOK` |
| | `DeriveIsReferenceHolds` | `DeriveIsReference` |
| | `FreshIsRightHolds`, `HealthIsTrueHolds` | `FreshIsRight`, `HealthIsTrue` |
| | `RederiveReachesAllHolds` | `RederiveReachesAll` |

Assumptions. Those that keep null values apart from proper ones
(`NullAssumption`, `NoRecordAssumption`, `NoJournalAssumption`) and kinds of
things from each other (`LifecycleAssumption`); that `NoClient` is no client
and bounds are numbers (the assumptions of WorkRecord, Mailbox and Supervisor);
`BaseManagerAssumption`, that no instance has the name of the base or of
base_next, that a missing database is none, and that at least one attempt is
made to drop the base; `BlueprintAssumption`, that a blueprint names finitely
many services and processes, without which the number of ports an instance
needs would mean nothing; and `EnvironmentAssumption`, that there are finitely
many keys, templates are sequences of lines, the user's file is a map of keys
to values, and instances are numbers, in which the order of their names shows.
Names, ports, clients and instances may be infinite, templates of any length.

`NothingLostHolds` and `FailedUpLeavesNothingHolds` assume
`\A d, e \in Dbs : d = e`, one database to an instance. That is no convenience
of the proof: with two the run `clones` refutes the second. That finding is
all the premise excludes. `WInv` holds without it: `Counted` leaves databases
out of the account where there are two, and everything else stays in.

The theorems of `BaseProofs` that say "with one maintainer" assume
`OneMaintains`: one client may run `create`, `seed`, `reset` and `refresh`,
any number of others may run `up` and `status` at the same time. That is no
convenience either. The base commands take no lock, and where two clients may
refresh the run `base_two` refutes `DataSurvives`. `BaseInvariant` and
`BaseTypes` do without it. The runs `base_one` and `base_two` are an instance
of each kind.

### Lifecycle: the copy

`PortTablesAgree` is about the file, which is written by `Save` from a copy; it
is preserved only if the copy is right at that moment. The strengthening
`IInv` (module `LifecycleInv`) therefore says of every client, in three parts:
`Control`, that a client past `open` holds the lock and which cleanups can be
on its stack in which phase; `OwnCopy`, how the entries of its own instance in
its copy relate to the phase — unregistered with no ports, unregistered with
exactly the ports in `got`, or registered with tables that agree;
`OtherCopies`, that the rest of its copy is the file. The stack matters because
the rollback must meet the cleanup of the record before that of the ports, or
a save in between would write tables that disagree.

The proof sorts actions by what they do to the part `IInv` speaks of. Most are
quiet: they move a client to another phase and touch only the world
(`QuietPreserves`, then `PlainStep`, `PushStep`, `PopStep`, `PassStep`). A few
change the client's copy (`CopyStep`) or save it (`SaveStep`, `RewriteStep`).
Each action has one lemma ending in `...Keeps`; `StepKeeps` collects them, and
the theorems combine `InitIInv` and `NextIInv`. `NoLostUpdateProperty` uses
`IInv` in each step: a save writes back what the file said about all others.

### Lifecycle: the file, and the refinement

`IInv` leaves open what the file says of the instance a command works on.
`FileInv` says it phase by phase: nothing until up has saved, the record it
saved after that and through its rollback, the copy itself in down and
suspend, a record with the same ports and containers in resume. With it, each
of the eight saves is one step of `Instances` or none (`ImplementsCreate` and
its like), every other step leaves the file alone, and the refinement follows.
That a new instance takes as many ports as it has owners needs the number of
an injective image (`PortCount`).

### Lifecycle: the world

The argument is an account. While a command works on an instance, each thing
of it is in the record in the file, or owed, or a cleanup on the stack is there
that will remove it (`Covered`: `NamedCovered`, `CtrsCovered`,
`GroupsCovered`); what is at rest is in its record or owed (`AtRest`). The
books balance at each step: a phase of up that makes something has pushed the
cleanup, or pushes it in the same step (`Gained`); a cleanup that is popped has
removed the thing or put it into `owed`; a phase of down adds a kind to those
that are gone (`Progress`). What others have does not change, since only the
holder of the lock makes or removes anything, and only of its own name; what
exits by itself only shrinks the world (`Fades`).

Ports: `PortsClear` says that no other workload is on the ports a command is
about to use, groups left behind aside. The probe does not say so of groups,
for any of them may be silent. It is the table that does: a group that is not
owed is in the record of its instance (`AtRest`), whose ports are allocated
(`TakenPorts`), so an up, which takes free ones, cannot get them, and a resume
takes those of its own record, none of whose groups runs but those owed. Of
containers, which may be owed and still listen, the probe does say it. It holds
until the command has launched, since no other command is at work, and a
container that a resume starts again is bound to the port of the record
(`PortsRight`). A group left behind by a failed termination or a kill is in no
record; while it is silent nothing keeps others off its port. `NoPortCollision`
therefore leaves `LeftGroups` aside, and cannot do otherwise: the
counterexample to `ProbeNamesSurvivor` (section 3) is one.

`RecordsSurvive` needs that the cleanup of the record is pushed only by an up
that has just created it: `RecordInv`. An attempt to prove the first version
failed for a good reason. `kept` did not count records of ups that were killed,
so the property said nothing of them; it does now, and holds.

### Process supervisor

The strengthening is threefold: `BeforeSpawn`, that the
leader can be asked until somebody waits for it; `NumberTaken`, that a
stranger holds the number only after the group is empty, which is why a
changed start time proves the group gone; `LookedAt`, that between the last
look and the signal no stranger has come to lead the group. Steps that only
look share one lemma (`LookKeepsIInv`).

### Work record

`IInv` (module `WorkRecordInv`) says who holds which lock in which phase
(`LocksHeld`), that files and notes still to be made are new (`FreshFile`,
`FreshNote`), and what a writer knows of the record it has open (`OpenStays`):
up takes no record lock, so the file may be gone, but what is in its place then
is empty, and the writer's own file is one that was withdrawn. An entry that is
not settled is the last one, and what was there before is as the writer found
it (`TailLast`); so a truncation, complete or not, touches nothing that was
reported or shown (`GhostsSettle`). A parent is no draft from the moment it was
looked at (`ParentsFirm`), since drafts exist under the registry lock only. The
refinement maps each step of an append to a stutter but the one that settles
the entry.

### Mailbox

`IInv` says that each send number is in one file at most (`Distinct`), that
what a recv removes is what it has in hand (`AtWork`), and, while nothing has
failed, that what was printed comes before what is in hand and that before
what is left in the mailbox (`InOrder`). `OnceInOrder` needs in addition that
`Listing` returns every file, in order: `ListingOrdered`. That a listing
exists is not for induction, which the provers cannot do over data; each file
is put at the place given by the number of those before it, which is an
injection into as many places as there are files, hence onto (`ListingExists`).

### Base database

`IInv` (module `BaseInv`) has two halves. Whoever maintains the base, `Typed`
says of every client which command may be in which phase, and on which of the
two databases (`Role`), and that sessions are on databases that exist. Where
one client m maintains it, `Sound(m)` says what the phases are worth:

* `Progress`: how far a base_next under construction is, from nothing to
  migrated, stamped and seeded. `NextIsReady`: a base_next that is locked is
  whole, and a client that is about to swap has found it so. `BaseStays`: a
  refresh keeps the base until it renames. `NextUsers`: nobody but m connects to
  base_next, so that no clone or look of another can stop the rename.
* `Kept`: the database that is not being built is whole. This is the part
  `DataSurvives` follows from. It has no premise about failures and kills; a
  kill leaves m idle, and the next refresh drops a base_next only while a base
  exists, and builds it anew.
* `OpenForNow`: if the base is open, somebody is in a phase that will lock it,
  a reader in its window (`Restores`) or the maintainer (`WillLock`). Windows
  may overlap: the reader that finds the base open does not lock it again, but
  the one that opened it does.
* `Clonable`: without failures and kills the base is whole whenever it exists,
  and missing only between DROP and RENAME. The next refresh therefore never
  creates the base anew, and a clone is of a whole one.
* `Versions`: a finished base_next has the version after the base's
  (`LaterNext`), which needs that the version read before the old base went is
  still that of the base (`ReadVersion`); no clone is later than the base, and
  one of its version is a clone of that very base (`OlderCopies`).

The proof sorts the steps by what they do to the catalogue: steps that only
look or move on; steps that open or lock the base; steps by which m makes
base_next, each adding to `Progress`; and the two steps of the swap, after
which the whole database has another name.

### Instance environment

Half of the proof is about the derivation alone, without any state. A file
means a map in which the last line of a key counts (`LastIs`), so
`DerivedIs` asks which line of the derived file is the last of a key: one of
the missing holes or other overrides if the key is among them, for the template
then has no line of it; otherwise the copy of its last line in the template.
Both need that a list of a finite set exists and has every element in it
(`OrderIs`, `SomeOrder`), or `SetToSeqs` might be empty and the property say
nothing. The maximum of the line numbers is that of a bounded set; no induction
over the file is needed. From `DerivedIs` follow `RederiveIsReference` and
`UpIsReference`, that the two callers come to the same `Reference`, and
`ReferenceAgain`: a reference computed over its own result is the same map.
That is why a second rederive changes the value of no key, although, as
`environment_twice` shows, it may change the file.

The other half is about the commands. `IInv` (module `EnvironmentInv`) says:

* `Role`: which command is in which phase and what it is about. The first
  version was not inductive: nothing said that rederive visits none but
  registered instances, so that its verdict could have met a record that is not
  there, nor that an up or verify is done after one verdict. `SameNames`: it
  knows who is registered. `ReadsToday`: while nobody edits, what it has read
  is what is there, or it is a rederive that could not read the user's `.env`,
  and all it derives is blind; without that its output would be right for
  inputs that are gone.
* `TmpIsRight`: the file that rederive is about to rename is the target of the
  instance, unless it is blind; with `ReferenceAgain` it still is when it has
  become the `.env` that the target is computed from. `FreshFiles`: so are
  those it is done with, and those of an up, from the moment it has written
  them. The file of a killed up stays fresh as well, though nobody is
  registered under it; `FreshIsRight` alone would not be inductive.
* `Verdicts`: while nothing failed, a healthy verdict of today holds, in the
  registry or, while a command is at work, in its copy. One instance is
  excepted: the one whose `.env` was just replaced and which is about to be
  judged.
* `Reached`: rederive has derived anew, if only blindly, whom it has neither
  left to do nor reported.

### What is only model-checked

`EveryCommandEnds`, `Served` and `DeadGroupVanishes` are liveness properties
under fairness, which the provers do not reach. Every safety property of a
passing run is proved, seven of them under the premises given above. The
violated properties of section 3 are false, and need no proof.

## 6. Abstractions

* A failure is chosen freely, within the bound, in any call that can fail;
  its error value is not kept. Ctrl-C, which cancels the context of up,
  resume and refresh, appears as the failure of the next call, and in the pauses
  between the attempts to drop the old base as a failure that ends the refresh
  (`SwapAgain`).
* A kill falls between two actions. Kills inside a loop over several things
  are represented by a failure of the loop followed by a kill in the rollback.
* Killing plax does not kill the migrate or seed command it started; those
  are taken to die with it.
* Health and verification time in the record, stamps and provenance are data no
  branch of Lifecycle reads, and are left out of it. A failed environment check
  in resume saves the record with a new health, which is the file's content
  here.
* The blueprint does not change during a behaviour, except in Environment.
* Any port that is neither allocated nor listened on by a plax workload may or
  may not be free; other programs on the machine show as that choice. Whether a
  process group listens is chosen anew at each probe; a group that finds its
  port taken and gives up is a workload that exits. Containers bind their ports
  as Docker starts them, and hold them while they are up.
* The number of a new group is one that no group of the process has which is
  alive, owed or recorded; when the kernel gives a number again, the start time
  tells the groups apart, which Supervisor has in detail.
* Numbers of sends stand for the time in the file name, so the clock is taken
  not to go backwards.
* The kernel gives the number of a group to a stranger only when the group is
  empty, and not within the few system calls from a look at the group to the
  signal that follows (`Hasty`): it first goes through all other numbers. It
  may do so at any other time, during the waits in particular.
* Processes that leave the group are out of Terminate's reach and of the
  model's; signals that are refused for want of permission and reads of /proc
  that fail for another reason than a missing process are left out.
* `SeedStamp` merges the statements of one short-lived pool.
* The text of a record is its entries; whether a verdict lacks the answer to a
  contract is a free choice, and so is whether a parent's worktree is clean.
  Appends of the platforms without flock are left out.
* Of an assignment's line it is kept whether reading it as a map loses
  something (an export prefix, a trailing comment); blank lines and comments
  are left out. A hole stands for its variable. In up, a user's file, template
  or new `.env` that cannot be read is a failing step; so is an unreadable
  template in rederive, which then reports the instance. A rederive that cannot
  read the user's `.env`, or the instance's, goes on without it, as in the
  code; what such a run writes is called "blind", `FreshIsRight` says nothing
  about it, `RederiveReachesAll` counts it as reached, and `ExitZeroIsUpToDate`
  states what it costs. What the other checks of verify find is one choice that
  costs a failure.
* `Register` in Environment and WorkRecord stands for all steps of up between
  the `.env`, or the start, and the save of the record, whose order and
  failures are those of Lifecycle.

Not modelled: verification's checks of dependencies, services, processes and
databases, status but for its data dimension, doctor, blueprint, toolchain,
stamp, upgrade: reports, pure functions and one rename, listed with reasons in
`PROJECT.json`.

## 7. Plan

Done: Registry, Lifecycle with the refinement of Instances, BaseManager with
the data drift, Mailbox, Supervisor, WorkRecord with the refinement of Journal,
Environment; the proofs of section 5, which cover every safety property the
passing runs check. In order of what is to come:

1. Lifecycle's up, suspend and resume with the health of the record, so that
   Environment and Lifecycle share it.
2. Replacement of the binary in `pkg/upgrade`.
