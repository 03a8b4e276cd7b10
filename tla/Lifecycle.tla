------------------------------- MODULE Lifecycle -------------------------------
(***************************************************************************)
(* The instance lifecycle: plax up, down, suspend and resume, run by       *)
(* separate processes of one machine against one repository.               *)
(*                                                                         *)
(* A command takes the exclusive lock of the registry file, reads the file *)
(* into its own copy, works through its steps, each of which touches the   *)
(* world (branch, worktree, mailbox, network, databases, containers,       *)
(* process groups), saves the copy, and lets go of the lock.  Up and       *)
(* resume push an undo for what they did and run the undos backwards when  *)
(* a step fails.  Any step may fail, any undo may fail, a workload may     *)
(* exit by itself, and a command may be killed between two steps.          *)
(*                                                                         *)
(* One action is one phase of a command.  Where the code runs a phase over *)
(* several services, processes or databases, the action chooses the subset *)
(* that succeeded, whatever order or goroutine they ran in.                *)
(***************************************************************************)
EXTENDS Registry, Sequences

CONSTANTS
    Clients,    \* plax processes
    Dbs,        \* databases of an instance (keys of the blueprint)
    NoClient,   \* owner of a lock nobody holds
    MaxFaults,  \* bound: failing steps, workload exits and kills in a behaviour
    MaxCrashes  \* bound: of these, kills

VARIABLES
    lock,       \* holder of the flock on registry.json.lock
    disk,       \* contents of registry.json
    pc,         \* pc[c]: phase the process c is in
    job,        \* job[c]: the command line c runs, and the backends it reached
    mem,        \* mem[c]: the copy of the registry c works on
    undo,       \* undo[c]: cleanups pushed so far, run last first
    got,        \* got[c]: ports, containers and process groups c obtained
    made,       \* what exists on disk, in git, docker and postgres, by instance
    ctrs,       \* containers
    procs,      \* live process groups, as <<instance, process, port, number>>
    owed,       \* ghost: leftovers a failed removal or a killed command left
    kept,       \* ghost: instances with a work record when a command ended
    faults,     \* failures left
    crashes     \* kills left

registryVars == <<lock, disk>>
clientVars   == <<pc, job, mem, undo, got>>
worldVars    == <<made, ctrs, procs>>
vars == <<lock, disk, pc, job, mem, undo, got, made, ctrs, procs,
          owed, kept, faults, crashes>>

Kinds == {"branch", "worktree", "mailbox", "network", "record"}

ASSUME LifecycleAssumption ==
    /\ NoClient \notin Clients
    /\ Dbs \cap Kinds = {}
    /\ Dbs \cap Svcs = {} /\ Dbs \cap Procs = {} /\ Svcs \cap Procs = {}
    /\ Pids \subseteq Nat /\ MaxFaults \in Nat /\ MaxCrashes \in Nat

Ops == {"up", "down", "suspend", "resume"}
Job == [op : Ops, name : Names, tracked : BOOLEAN, docker : BOOLEAN, pg : BOOLEAN]
Container == [name : Names, svc : Svcs, port : Ports, up : BOOLEAN]
Group == Names \X Procs \X Ports \X Pids

UndoTags == {"worktree", "mailbox", "network", "ports", "dbs", "ctrs", "procs",
             "registry", "record", "stopctrs", "suspend"}

Phases ==
    {"idle", "open", "rollback", "close",
     "up_check", "up_worktree", "up_mailbox", "up_network", "up_ports", "up_env",
     "up_clone", "up_migrate", "up_ctrs", "up_procs", "up_settle", "up_save",
     "up_record", "up_verify",
     "dn_check", "dn_procs", "dn_ctrs", "dn_dbs", "dn_network", "dn_worktree",
     "dn_mailbox", "dn_save",
     "su_check", "su_procs", "su_ctrs", "su_save",
     "re_check", "re_ctrs", "re_env", "re_procs", "re_settle", "re_save",
     "re_verify"}

FirstPhase == [up |-> "up_check", down |-> "dn_check",
               suspend |-> "su_check", resume |-> "re_check"]

NoPorts == <<>>
Nothing == [ports |-> NoPorts, ctrs |-> {}, pids |-> {}]
NoJob == [op |-> "none", name |-> NoName, tracked |-> FALSE,
          docker |-> FALSE, pg |-> FALSE]

(***************************************************************************)
(* What an instance has in the world                                       *)
(***************************************************************************)

CtrsOf(n)  == {x \in ctrs : x.name = n}
GroupsOf(n) == {g \in procs : g[1] = n}

\* Everything plax up made for n.  The work record is not among them: it
\* outlives the instance by design.
Things(n) ==
    {t \in made : t[1] = n /\ t[2] # "record"}
        \cup {<<n, x.svc>> : x \in CtrsOf(n)} \cup GroupsOf(n)

\* What of n is running at the moment.
Running(n) == {<<n, x.svc>> : x \in {y \in CtrsOf(n) : y.up}} \cup GroupsOf(n)

\* Mutant: ports are handed out without a probe.
UnprobedPorts(silent) == {}

\* Ports some workload of this repository listens on: ProbeFree fails there.
\* Docker binds the port of a container as it starts it.  A process group
\* binds its own if and when it likes: the silent ones have not, or no more,
\* because they were spawned a moment ago, or only a child is left of them.
BoundPorts(silent) ==
    {x.port : x \in {y \in ctrs : y.up}} \cup {g[3] : g \in procs \ silent}

\* The groups with these numbers; the groups and containers a record names.
GroupsAt(n, ports, pids) == {<<n, q[1], ports[q[1]], q[2]>> : q \in pids}
GroupsIn(rec, n) == GroupsAt(n, rec.ports, rec.pids)
CtrsIn(rec, n)   == {x \in ctrs : x.name = n /\ x.svc \in rec.ctrs}

\* The instances that have a work record.
Recorded == {n \in Names : <<n, "record">> \in made}

Holding(c) == pc[c] \notin {"idle", "open"}
Busy(n)    == \E c \in Clients : Holding(c) /\ job[c].name = n
Name(c)    == job[c].name
Rec(c)     == mem[c].inst[Name(c)]

(***************************************************************************)
(* Step helpers                                                            *)
(***************************************************************************)

Goto(c, next) == pc' = [pc EXCEPT ![c] = next]
Push(c, tag)  == undo' = [undo EXCEPT ![c] = Append(@, tag)]

Works == UNCHANGED faults
Fails == faults > 0 /\ faults' = faults - 1

\* A phase that acts on the set all: done is the part that succeeded.
Partly(done, all) == IF done = all THEN Works ELSE Fails

\* Save writes the whole copy with one rename, or leaves the file alone.
Saves(c, reg) == Works /\ disk' = reg
SaveFails     == Fails /\ UNCHANGED disk

(***************************************************************************)
(* A command starts, waits for the registry lock, and ends                 *)
(***************************************************************************)

Start(c) ==
    /\ pc[c] = "idle"
    /\ \E op \in Ops, n \in Names, t \in BOOLEAN :
          /\ t => op = "up"
          /\ job' = [job EXCEPT ![c] = [op |-> op, name |-> n, tracked |-> t,
                                        docker |-> TRUE, pg |-> TRUE]]
    /\ Goto(c, "open")
    /\ UNCHANGED <<registryVars, mem, undo, got, worldVars, owed, faults, kept, crashes>>

\* Mutant: the lock is taken shared.
SharedLock == TRUE

\* The flock is exclusive.
LockFree == lock = NoClient

\* registry.Open blocks on the lock and reads the file.  The command then
\* looks for docker and postgres; either may be out of reach.  A leftover
\* that has gone in the meantime is owed no longer.
Open(c) ==
    /\ pc[c] = "open"
    /\ LockFree
    /\ lock' = c
    /\ mem' = [mem EXCEPT ![c] = disk]
    /\ \/ Works /\ UNCHANGED job
       \/ /\ Fails
          /\ \E d, p \in BOOLEAN :
                /\ ~(d /\ p)
                /\ job' = [job EXCEPT ![c].docker = d, ![c].pg = p]
    /\ Goto(c, FirstPhase[job[c].op])
    /\ owed' = owed \cap UNION {Things(n) : n \in Names}
    /\ UNCHANGED <<disk, undo, got, worldVars, kept, crashes>>

\* The deferred Registry.Close, and the end of the process.
Close(c) ==
    /\ pc[c] = "close"
    /\ lock' = NoClient
    /\ Goto(c, "idle")
    /\ job' = [job EXCEPT ![c] = NoJob]
    /\ mem' = [mem EXCEPT ![c] = EmptyRegistry]
    /\ undo' = [undo EXCEPT ![c] = <<>>]
    /\ got' = [got EXCEPT ![c] = Nothing]
    /\ kept' = kept \cup Recorded
    /\ UNCHANGED <<disk, worldVars, owed, faults, crashes>>

(***************************************************************************)
(* plax up                                                                 *)
(***************************************************************************)

\* Both backends are required; the name must be unregistered and its branch
\* must not exist; the base must exist and be locked.
UpCheck(c) ==
    /\ pc[c] = "up_check"
    /\ \/ /\ job[c].docker /\ job[c].pg
          /\ ~Registered(mem[c], Name(c))
          /\ <<Name(c), "branch">> \notin made
          /\ Works /\ Goto(c, "up_worktree")
       \/ /\ \/ ~(job[c].docker /\ job[c].pg)
             \/ Registered(mem[c], Name(c))
             \/ <<Name(c), "branch">> \in made
          /\ Works /\ Goto(c, "close")
       \/ Fails /\ Goto(c, "close")
    /\ UNCHANGED <<registryVars, job, mem, undo, got, worldVars, owed, kept, crashes>>

\* worktree.Create removes the branch again when the worktree cannot be
\* added, and ignores an error of that removal.  A directory left over from
\* an earlier instance is a failure.
UpWorktree(c) ==
    /\ pc[c] = "up_worktree"
    /\ LET branch == <<Name(c), "branch">>
           there  == <<Name(c), "worktree">> \in made
       IN \/ /\ ~there
             /\ made' = made \cup {branch, <<Name(c), "worktree">>}
             /\ Works /\ Push(c, "worktree") /\ Goto(c, "up_mailbox") /\ UNCHANGED owed
          \/ /\ IF there THEN Works ELSE Fails
             /\ Goto(c, "rollback") /\ UNCHANGED <<made, undo, owed>>
          \/ /\ Fails /\ made' = made \cup {branch} /\ owed' = owed \cup {branch}
             /\ Goto(c, "rollback") /\ UNCHANGED undo
    /\ UNCHANGED <<registryVars, job, mem, got, ctrs, procs, kept, crashes>>

UpMailbox(c) ==
    /\ pc[c] = "up_mailbox"
    /\ \/ /\ made' = made \cup {<<Name(c), "mailbox">>}
          /\ Works /\ Push(c, "mailbox") /\ Goto(c, "up_network")
       \/ Fails /\ Goto(c, "rollback") /\ UNCHANGED <<made, undo>>
    /\ UNCHANGED <<registryVars, job, mem, got, ctrs, procs, owed, kept, crashes>>

\* A network of that name that exists already is taken over.
UpNetwork(c) ==
    /\ pc[c] = "up_network"
    /\ \/ /\ made' = made \cup {<<Name(c), "network">>}
          /\ Works /\ Push(c, "network") /\ Goto(c, "up_ports")
       \/ Fails /\ Goto(c, "rollback") /\ UNCHANGED <<made, undo>>
    /\ UNCHANGED <<registryVars, job, mem, got, ctrs, procs, owed, kept, crashes>>

\* One port per port-bearing entity, neither allocated nor in use.  Which
\* ports are free also depends on other programs of the machine, so any
\* free ones may come out; too few leaves no trace in the copy.
UpPorts(c) ==
    /\ pc[c] = "up_ports"
    /\ \E silent \in SUBSET procs :
       LET free == FreePorts(mem[c]) \ BoundPorts(silent) IN
       \/ \E ports \in [Owners -> free] :
             /\ \A o1, o2 \in Owners : o1 # o2 => ports[o1] # ports[o2]
             /\ mem' = [mem EXCEPT ![c] = AllocPorts(@, Name(c), PortsOf(ports))]
             /\ got' = [got EXCEPT ![c].ports = ports]
             /\ Works /\ Push(c, "ports") /\ Goto(c, "up_env")
       \/ /\ IF Cardinality(free) < Cardinality(Owners) THEN Works ELSE Fails
          /\ Goto(c, "rollback") /\ UNCHANGED <<mem, got, undo>>
    /\ UNCHANGED <<registryVars, job, worldVars, owed, kept, crashes>>

\* The .env file is derived into the worktree and checked at once.
UpEnv(c) ==
    /\ pc[c] = "up_env"
    /\ \/ Works /\ Goto(c, "up_clone")
       \/ Fails /\ Goto(c, "rollback")
    /\ UNCHANGED <<registryVars, job, mem, undo, got, worldVars, owed, kept, crashes>>

\* Every database is cloned from the base, in map order; a database that
\* exists already is an error.  A clone that fails half way is dropped, and
\* an error of that drop is ignored.  The cleanup is pushed after the whole
\* loop.
UpClone(c) ==
    /\ pc[c] = "up_clone"
    /\ LET there == {d \in Dbs : <<Name(c), d>> \in made} IN
       \/ /\ there = {}
          /\ made' = made \cup ({Name(c)} \X Dbs)
          /\ Works /\ Push(c, "dbs") /\ Goto(c, "up_migrate") /\ UNCHANGED owed
       \/ \E d \in Dbs : \E done \in SUBSET (Dbs \ (there \cup {d})) :
             \/ /\ made' = made \cup ({Name(c)} \X done)
                /\ IF d \in there THEN Works ELSE Fails
                /\ Goto(c, "rollback") /\ UNCHANGED <<undo, owed>>
             \/ /\ d \notin there /\ Fails
                /\ made' = made \cup ({Name(c)} \X (done \cup {d}))
                /\ owed' = owed \cup {<<Name(c), d>>}
                /\ Goto(c, "rollback") /\ UNCHANGED undo
    /\ UNCHANGED <<registryVars, job, mem, got, ctrs, procs, kept, crashes>>

\* Mutant: the cleanup of the containers is pushed after they all started.
UpMigrateNoCleanup(c) ==
    /\ pc[c] = "up_migrate"
    /\ \/ Works /\ Goto(c, "up_ctrs")
       \/ Fails /\ Goto(c, "rollback")
    /\ UNCHANGED <<registryVars, job, mem, undo, got, worldVars, owed, kept, crashes>>

\* Runs unless skipped; provenance is read in passing.  The containers'
\* cleanup is pushed before the first of them is started.
UpMigrate(c) ==
    /\ pc[c] = "up_migrate"
    /\ \/ Works /\ Push(c, "ctrs") /\ Goto(c, "up_ctrs")
       \/ Fails /\ Goto(c, "rollback") /\ UNCHANGED undo
    /\ UNCHANGED <<registryVars, job, mem, got, worldVars, owed, kept, crashes>>

NewContainer(c, s, up) ==
    [name |-> Name(c), svc |-> s, port |-> got[c].ports[s], up |-> up]

\* Containers start concurrently; one of the same name is replaced.  One that
\* does not start is removed, and stays if the removal fails as well.  The
\* processes' cleanup comes next.
UpCtrs(c) ==
    /\ pc[c] = "up_ctrs"
    /\ \E ok \in SUBSET Svcs : \E gone \in SUBSET (Svcs \ ok) : \E stuck \in SUBSET gone :
          /\ ctrs' = {x \in ctrs : x.name # Name(c) \/ x.svc \notin ok \cup gone}
                       \cup {NewContainer(c, s, TRUE) : s \in ok}
                       \cup {NewContainer(c, s, FALSE) : s \in stuck}
          /\ got' = [got EXCEPT ![c].ctrs = ok]
          /\ owed' = owed \cup ({Name(c)} \X stuck)
          /\ Partly(ok, Svcs)
          /\ IF ok = Svcs THEN Push(c, "procs") /\ Goto(c, "up_procs")
                          ELSE UNCHANGED undo /\ Goto(c, "rollback")
    /\ UNCHANGED <<registryVars, job, mem, made, procs, kept, crashes>>

\* Numbers no group of p bears that is alive, owed or in the copy.  A number
\* that comes back is told from the old one by the start time, so of the new
\* ones any will do: the lowest is taken.
Unused(c, p) ==
    LET known == procs \cup (owed \cap Group)
                   \cup (IF Registered(mem[c], Name(c)) THEN GroupsIn(Rec(c), Name(c)) ELSE {})
    IN {k \in Pids : \A g \in known : g[1] = Name(c) /\ g[2] = p => g[4] # k}

\* The processes of ok get a group each, with these numbers.
Numbers(c, ok) ==
    {id \in [ok -> Pids] :
        \A p \in ok : id[p] \in Unused(c, p) /\ \A k \in Unused(c, p) : id[p] <= k}

PidsOf(id) == {<<p, id[p]>> : p \in DOMAIN id}

\* Mutant: the first error ends the collection of the results.
UpProcsFirstError(c) ==
    /\ pc[c] = "up_procs"
    /\ \E ok \in SUBSET Procs : \E id \in Numbers(c, ok) :
          /\ procs' = procs \cup GroupsAt(Name(c), got[c].ports, PidsOf(id))
          /\ got' = [got EXCEPT ![c].pids = IF ok = Procs THEN PidsOf(id) ELSE {}]
          /\ Partly(ok, Procs)
          /\ Goto(c, IF ok = Procs THEN "up_settle" ELSE "rollback")
    /\ UNCHANGED <<registryVars, job, mem, undo, made, ctrs, owed, kept, crashes>>

\* Processes start concurrently; those that started are remembered even if
\* another one failed.
UpProcs(c) ==
    /\ pc[c] = "up_procs"
    /\ \E ok \in SUBSET Procs : \E id \in Numbers(c, ok) :
          /\ procs' = procs \cup GroupsAt(Name(c), got[c].ports, PidsOf(id))
          /\ got' = [got EXCEPT ![c].pids = PidsOf(id)]
          /\ Partly(ok, Procs)
          /\ Goto(c, IF ok = Procs THEN "up_settle" ELSE "rollback")
    /\ UNCHANGED <<registryVars, job, mem, undo, made, ctrs, owed, kept, crashes>>

\* Every workload this command started must still be there.
Settled(c, ports) ==
    /\ \A s \in got[c].ctrs : \E x \in CtrsOf(Name(c)) : x.svc = s /\ x.up
    /\ GroupsAt(Name(c), ports, got[c].pids) \subseteq procs

UpSettle(c) ==
    /\ pc[c] = "up_settle"
    /\ \/ Settled(c, got[c].ports) /\ Works /\ Goto(c, "up_save")
       \/ ~Settled(c, got[c].ports) /\ Works /\ Goto(c, "rollback")
       \/ Fails /\ Goto(c, "rollback")
    /\ UNCHANGED <<registryVars, job, mem, undo, got, worldVars, owed, kept, crashes>>

\* Mutant: the record is written without its ports.
PortlessRecord(c) == [state |-> "running", ports |-> NoPorts,
                      ctrs |-> got[c].ctrs, pids |-> got[c].pids]

NewRecord(c) == [state |-> "running", ports |-> got[c].ports,
                 ctrs |-> got[c].ctrs, pids |-> got[c].pids]

\* AddInstance on the copy, then Save.
UpSave(c) ==
    /\ pc[c] = "up_save"
    /\ mem' = [mem EXCEPT ![c] = PutInstance(@, Name(c), NewRecord(c))]
    /\ \/ Saves(c, mem'[c]) /\ Push(c, "registry") /\ Goto(c, "up_record")
       \/ SaveFails /\ Goto(c, "rollback") /\ UNCHANGED undo
    /\ UNCHANGED <<lock, job, got, worldVars, owed, kept, crashes>>

\* A tracked instance gets a work record; one that is there already, left by
\* an earlier instance of the name, is an error.  Removing the temporary
\* file can still fail after the record was linked into place.
UpRecord(c) ==
    /\ pc[c] = "up_record"
    /\ \/ /\ ~job[c].tracked
          /\ Works /\ Goto(c, "up_verify") /\ UNCHANGED <<made, undo>>
       \/ /\ job[c].tracked /\ <<Name(c), "record">> \notin made
          /\ made' = made \cup {<<Name(c), "record">>}
          /\ Works /\ Push(c, "record") /\ Goto(c, "up_verify")
       \/ /\ job[c].tracked
          /\ IF <<Name(c), "record">> \in made THEN Works ELSE Fails
          /\ Goto(c, "rollback") /\ UNCHANGED <<made, undo>>
       \/ /\ job[c].tracked /\ Fails
          /\ made' = made \cup {<<Name(c), "record">>}
          /\ Goto(c, "rollback") /\ UNCHANGED undo
    /\ UNCHANGED <<registryVars, job, mem, got, ctrs, procs, owed, kept, crashes>>

\* Passed or failed, the instance stays up; the outcome is saved, and only a
\* failing save rolls the instance back.  Skipped, the file is not written,
\* which comes to the same: it has this copy already.
UpVerify(c) ==
    /\ pc[c] = "up_verify"
    /\ \/ Saves(c, mem[c]) /\ Goto(c, "close")
       \/ SaveFails /\ Goto(c, "rollback")
    /\ UNCHANGED <<lock, job, mem, undo, got, worldVars, owed, kept, crashes>>

(***************************************************************************)
(* Rollback: the deferred cleanups of up and resume, last first.  A        *)
(* cleanup that fails prints what it could not remove.                     *)
(***************************************************************************)

\* Mutant: the cleanup stays on the stack.
UndoingAgain(c, tag) ==
    /\ pc[c] = "rollback"
    /\ undo[c] # <<>>
    /\ undo[c][Len(undo[c])] = tag
    /\ UNCHANGED <<undo, pc>>

Undoing(c, tag) ==
    /\ pc[c] = "rollback"
    /\ undo[c] # <<>>
    /\ undo[c][Len(undo[c])] = tag
    /\ undo' = [undo EXCEPT ![c] = SubSeq(@, 1, Len(@) - 1)]
    /\ UNCHANGED pc

\* The part left of all stays in the world, and is reported.
Removing(left, all) ==
    /\ left \subseteq all
    /\ IF left = {} THEN Works ELSE Fails
    /\ owed' = owed \cup left

UndoMade(c, tag, kinds) ==
    /\ Undoing(c, tag)
    /\ LET all == made \cap ({Name(c)} \X kinds) IN
       \E left \in SUBSET all :
          Removing(left, all) /\ made' = made \ (all \ left)
    /\ UNCHANGED <<registryVars, job, mem, got, ctrs, procs, kept, crashes>>

UndoWorktree(c) == UndoMade(c, "worktree", {"branch", "worktree"})
UndoMailbox(c)  == UndoMade(c, "mailbox", {"mailbox"})
UndoNetwork(c)  == UndoMade(c, "network", {"network"})
UndoDbs(c)      == UndoMade(c, "dbs", Dbs)
UndoRecord(c)   == UndoMade(c, "record", {"record"})

\* Pool.Release of each port, in the copy only.
UndoPorts(c) ==
    /\ Undoing(c, "ports")
    /\ mem' = [mem EXCEPT ![c] = ReleasePorts(@, PortsOf(got[c].ports))]
    /\ UNCHANGED <<registryVars, job, got, worldVars, owed, faults, kept, crashes>>

UndoCtrs(c) ==
    /\ Undoing(c, "ctrs")
    /\ LET all == {x \in CtrsOf(Name(c)) : x.svc \in got[c].ctrs} IN
       \E left \in SUBSET all :
          /\ IF left = {} THEN Works ELSE Fails
          /\ owed' = owed \cup {<<Name(c), x.svc>> : x \in left}
          /\ ctrs' = ctrs \ (all \ left)
    /\ UNCHANGED <<registryVars, job, mem, got, made, procs, kept, crashes>>

\* Resume stops again the containers it started.
UndoStopCtrs(c) ==
    /\ Undoing(c, "stopctrs")
    /\ LET all == {x \in CtrsOf(Name(c)) : x.svc \in got[c].ctrs /\ x.up} IN
       \E left \in SUBSET all :
          /\ IF left = {} THEN Works ELSE Fails
          /\ owed' = owed \cup {<<Name(c), x.svc>> : x \in left}
          /\ ctrs' = (ctrs \ (all \ left))
                       \cup {[x EXCEPT !.up = FALSE] : x \in all \ left}
    /\ UNCHANGED <<registryVars, job, mem, got, made, procs, kept, crashes>>

\* The groups this command spawned, on the ports up allocated or resume
\* found in the record.
OwnPorts(c) == IF job[c].op = "up" THEN got[c].ports ELSE Rec(c).ports

UndoProcs(c) ==
    /\ Undoing(c, "procs")
    /\ LET all == procs \cap GroupsAt(Name(c), OwnPorts(c), got[c].pids) IN
       \E left \in SUBSET all :
          Removing(left, all) /\ procs' = procs \ (all \ left)
    /\ UNCHANGED <<registryVars, job, mem, got, made, ctrs, kept, crashes>>

UndoRegistry(c) ==
    /\ Undoing(c, "registry")
    /\ mem' = [mem EXCEPT ![c] = RemoveInstance(@, Name(c))]
    /\ Saves(c, mem'[c]) \/ SaveFails
    /\ UNCHANGED <<lock, job, got, worldVars, owed, kept, crashes>>

\* Resume turns the record back to suspended; its process groups stay in it.
UndoResume(c) ==
    /\ Undoing(c, "suspend")
    /\ mem' = [mem EXCEPT ![c] =
                 PutInstance(@, Name(c), [Rec(c) EXCEPT !.state = "suspended"])]
    /\ Saves(c, mem'[c]) \/ SaveFails
    /\ UNCHANGED <<lock, job, got, worldVars, owed, kept, crashes>>

RolledBack(c) ==
    /\ pc[c] = "rollback" /\ undo[c] = <<>>
    /\ Goto(c, "close")
    /\ UNCHANGED <<registryVars, job, mem, undo, got, worldVars, owed, faults, kept, crashes>>

Rollback(c) ==
    \/ UndoWorktree(c) \/ UndoMailbox(c) \/ UndoNetwork(c) \/ UndoPorts(c)
    \/ UndoDbs(c) \/ UndoCtrs(c) \/ UndoStopCtrs(c) \/ UndoProcs(c)
    \/ UndoRegistry(c) \/ UndoResume(c) \/ UndoRecord(c) \/ RolledBack(c)

(***************************************************************************)
(* plax down: every step tolerates what is missing, a failure is a warning *)
(* and never stops the next step, and the entry goes last.                 *)
(***************************************************************************)

DnCheck(c) ==
    /\ pc[c] = "dn_check"
    /\ Goto(c, IF Registered(mem[c], Name(c)) THEN "dn_procs" ELSE "close")
    /\ UNCHANGED <<registryVars, job, mem, undo, got, worldVars, owed, faults, kept, crashes>>

\* The process groups the record names, terminated concurrently.  A group
\* may refuse to die: the leader gone and members left, or no permission.
TerminateRecorded(c, next) ==
    /\ LET all == procs \cap GroupsIn(Rec(c), Name(c)) IN
       \E left \in SUBSET all :
          Removing(left, all) /\ procs' = procs \ (all \ left)
    /\ Goto(c, next)
    /\ UNCHANGED <<registryVars, job, mem, undo, got, made, ctrs, kept, crashes>>

DnProcs(c) == pc[c] = "dn_procs" /\ TerminateRecorded(c, "dn_ctrs")

\* What a phase cannot remove: everything if its backend is out of reach,
\* for which the command printed a warning, else whatever failed.
Leaving(left, all, reachable) ==
    /\ left \subseteq all
    /\ IF reachable THEN (IF left = {} THEN Works ELSE Fails)
                    ELSE left = all /\ Works

\* Stop, then remove by force.
DnCtrs(c) ==
    /\ pc[c] = "dn_ctrs"
    /\ LET all == CtrsIn(Rec(c), Name(c)) IN
       \E left \in SUBSET all :
          /\ Leaving(left, all, job[c].docker)
          /\ ctrs' = ctrs \ (all \ left)
          /\ owed' = owed \cup {<<Name(c), x.svc>> : x \in left}
    /\ Goto(c, "dn_dbs")
    /\ UNCHANGED <<registryVars, job, mem, undo, got, made, procs, kept, crashes>>

DnMade(c, phase, kinds, reachable, next) ==
    /\ pc[c] = phase
    /\ LET all == made \cap ({Name(c)} \X kinds) IN
       \E left \in SUBSET all :
          /\ Leaving(left, all, reachable)
          /\ made' = made \ (all \ left)
          /\ owed' = owed \cup left
    /\ Goto(c, next)
    /\ UNCHANGED <<registryVars, job, mem, undo, got, ctrs, procs, kept, crashes>>

DnDbs(c)      == DnMade(c, "dn_dbs", Dbs, job[c].pg, "dn_network")
DnNetwork(c)  == DnMade(c, "dn_network", {"network"}, job[c].docker, "dn_worktree")
DnWorktree(c) == DnMade(c, "dn_worktree", {"branch", "worktree"}, TRUE, "dn_mailbox")

\* Mutant: down takes the work record away with the mailbox.
DnMailboxAndRecord(c) == DnMade(c, "dn_mailbox", {"mailbox", "record"}, TRUE, "dn_save")

DnMailbox(c)  == DnMade(c, "dn_mailbox", {"mailbox"}, TRUE, "dn_save")

DnSave(c) ==
    /\ pc[c] = "dn_save"
    /\ mem' = [mem EXCEPT ![c] = RemoveInstance(@, Name(c))]
    /\ Saves(c, mem'[c]) \/ SaveFails
    /\ Goto(c, "close")
    /\ UNCHANGED <<lock, job, undo, got, worldVars, owed, kept, crashes>>

(***************************************************************************)
(* plax suspend: nothing to do for an instance already suspended.          *)
(***************************************************************************)

SuCheck(c) ==
    /\ pc[c] = "su_check"
    /\ Goto(c, IF Registered(mem[c], Name(c)) /\ Rec(c).state = "running"
               THEN "su_procs" ELSE "close")
    /\ UNCHANGED <<registryVars, job, mem, undo, got, worldVars, owed, faults, kept, crashes>>

SuProcs(c) == pc[c] = "su_procs" /\ TerminateRecorded(c, "su_ctrs")

SuCtrs(c) ==
    /\ pc[c] = "su_ctrs"
    /\ LET all == {x \in CtrsIn(Rec(c), Name(c)) : x.up} IN
       \E left \in SUBSET all :
          /\ Leaving(left, all, job[c].docker)
          /\ ctrs' = (ctrs \ (all \ left))
                       \cup {[x EXCEPT !.up = FALSE] : x \in all \ left}
          /\ owed' = owed \cup {<<Name(c), x.svc>> : x \in left}
    /\ Goto(c, "su_save")
    /\ UNCHANGED <<registryVars, job, mem, undo, got, made, procs, kept, crashes>>

SuSave(c) ==
    /\ pc[c] = "su_save"
    /\ mem' = [mem EXCEPT ![c] = PutInstance(@, Name(c),
                 [Rec(c) EXCEPT !.state = "suspended", !.pids = {}])]
    /\ Saves(c, mem'[c]) \/ SaveFails
    /\ Goto(c, "close")
    /\ UNCHANGED <<lock, job, undo, got, worldVars, owed, kept, crashes>>

(***************************************************************************)
(* plax resume                                                             *)
(***************************************************************************)

\* The record must be suspended, every port of it must probe free (another
\* program of the machine may have taken one), and docker must be in reach
\* if there are containers.  The containers' cleanup is pushed first.
ReCheck(c) ==
    /\ pc[c] = "re_check"
    /\ \E silent \in SUBSET procs :
       LET ready == /\ Registered(mem[c], Name(c))
                    /\ Rec(c).state = "suspended"
                    /\ PortsOf(Rec(c).ports) \cap BoundPorts(silent) = {}
                    /\ Rec(c).ctrs # {} => job[c].docker
       IN \/ ready /\ Works /\ Goto(c, "re_ctrs")
          \/ ~ready /\ Works /\ Goto(c, "close")
          \/ Fails /\ Goto(c, "close")
    /\ UNCHANGED <<registryVars, job, mem, undo, got, worldVars, owed, kept, crashes>>

\* Only what this command started is remembered for the rollback; a
\* container that no longer exists is an error.
ReCtrs(c) ==
    /\ pc[c] = "re_ctrs"
    /\ IF ~job[c].docker
       THEN /\ Works /\ Goto(c, "re_env")
            /\ UNCHANGED <<ctrs, got, undo>>
       ELSE LET there == CtrsIn(Rec(c), Name(c))
                gone  == Rec(c).ctrs \ {x.svc : x \in there}
            IN \E ok \in SUBSET there :
                  /\ ctrs' = (ctrs \ ok) \cup {[x EXCEPT !.up = TRUE] : x \in ok}
                  /\ got' = [got EXCEPT ![c].ctrs =
                                {x.svc : x \in {y \in ok : ~y.up}}]
                  /\ Push(c, "stopctrs")
                  /\ Partly(ok, there)
                  /\ Goto(c, IF ok = there /\ gone = {} THEN "re_env" ELSE "rollback")
    /\ UNCHANGED <<registryVars, job, mem, made, procs, owed, kept, crashes>>

\* Mutant: the cleanup of the processes is forgotten.
ReEnvNoCleanup(c) ==
    /\ pc[c] = "re_env"
    /\ \/ Works /\ Goto(c, "re_procs")
       \/ Fails /\ Goto(c, "rollback")
    /\ UNCHANGED <<registryVars, job, mem, undo, got, worldVars, owed, kept, crashes>>

\* A missing or failing .env leaves the instance suspended; the health the
\* code saves on that path is not modelled.
ReEnv(c) ==
    /\ pc[c] = "re_env"
    /\ \/ Works /\ Push(c, "procs") /\ Goto(c, "re_procs")
       \/ Fails /\ Goto(c, "rollback") /\ UNCHANGED undo
    /\ UNCHANGED <<registryVars, job, mem, got, worldVars, owed, kept, crashes>>

ReProcs(c) ==
    /\ pc[c] = "re_procs"
    /\ \E ok \in SUBSET Procs : \E id \in Numbers(c, ok) :
          /\ procs' = procs \cup GroupsAt(Name(c), Rec(c).ports, PidsOf(id))
          /\ got' = [got EXCEPT ![c].pids = PidsOf(id)]
          /\ Partly(ok, Procs)
          /\ Goto(c, IF ok = Procs THEN "re_settle" ELSE "rollback")
    /\ UNCHANGED <<registryVars, job, mem, undo, made, ctrs, owed, kept, crashes>>

ReSettle(c) ==
    /\ pc[c] = "re_settle"
    /\ \/ Settled(c, Rec(c).ports) /\ Works /\ Goto(c, "re_save")
       \/ ~Settled(c, Rec(c).ports) /\ Works /\ Goto(c, "rollback")
       \/ Fails /\ Goto(c, "rollback")
    /\ UNCHANGED <<registryVars, job, mem, undo, got, worldVars, owed, kept, crashes>>

ReSave(c) ==
    /\ pc[c] = "re_save"
    /\ mem' = [mem EXCEPT ![c] = PutInstance(@, Name(c),
                 [Rec(c) EXCEPT !.state = "running", !.pids = got[c].pids])]
    /\ \/ Saves(c, mem'[c]) /\ Push(c, "suspend") /\ Goto(c, "re_verify")
       \/ SaveFails /\ Goto(c, "rollback") /\ UNCHANGED undo
    /\ UNCHANGED <<lock, job, got, worldVars, owed, kept, crashes>>

ReVerify(c) ==
    /\ pc[c] = "re_verify"
    /\ \/ Saves(c, mem[c]) /\ Goto(c, "close")
       \/ SaveFails /\ Goto(c, "rollback")
    /\ UNCHANGED <<lock, job, mem, undo, got, worldVars, owed, kept, crashes>>

(***************************************************************************)
(* The environment: a killed command, a workload that exits                *)
(***************************************************************************)

\* What a command killed now leaves that no record in the file accounts for:
\* all of the instance if an up had not registered it, the workloads it
\* started if a resume had not.  Down and suspend account for everything.
LeftBehind(c) ==
    CASE job[c].op = "up" /\ ~Registered(disk, Name(c)) -> Things(Name(c))
      [] job[c].op = "resume" /\ Registered(disk, Name(c)) -> Running(Name(c))
      [] OTHER -> {}

\* SIGKILL: the kernel drops the lock, the copy is lost, nothing is undone.
\* What the world is left with counts only if the command was at work: the
\* work of another one, in which a waiting command dies, is still to end.
Crash(c) ==
    /\ pc[c] # "idle"
    /\ Fails
    /\ crashes > 0 /\ crashes' = crashes - 1
    /\ lock' = IF lock = c THEN NoClient ELSE lock
    /\ owed' = IF Holding(c) THEN owed \cup LeftBehind(c) ELSE owed
    /\ Goto(c, "idle")
    /\ job' = [job EXCEPT ![c] = NoJob]
    /\ mem' = [mem EXCEPT ![c] = EmptyRegistry]
    /\ undo' = [undo EXCEPT ![c] = <<>>]
    /\ got' = [got EXCEPT ![c] = Nothing]
    /\ kept' = IF Holding(c) THEN kept \cup Recorded ELSE kept
    /\ UNCHANGED <<disk, worldVars>>

GroupExits ==
    /\ \E g \in procs : procs' = procs \ {g}
    /\ Fails
    /\ UNCHANGED <<registryVars, clientVars, made, ctrs, owed, kept, crashes>>

ContainerExits ==
    /\ \E x \in ctrs : x.up /\ ctrs' = (ctrs \ {x}) \cup {[x EXCEPT !.up = FALSE]}
    /\ Fails
    /\ UNCHANGED <<registryVars, clientVars, made, procs, owed, kept, crashes>>

(***************************************************************************)
(* Specification                                                           *)
(***************************************************************************)

Init ==
    /\ lock = NoClient
    /\ disk = EmptyRegistry
    /\ pc = [c \in Clients |-> "idle"]
    /\ job = [c \in Clients |-> NoJob]
    /\ mem = [c \in Clients |-> EmptyRegistry]
    /\ undo = [c \in Clients |-> <<>>]
    /\ got = [c \in Clients |-> Nothing]
    /\ made = {} /\ ctrs = {} /\ procs = {} /\ owed = {} /\ kept = {}
    /\ faults = MaxFaults
    /\ crashes = MaxCrashes

Up(c) ==
    \/ UpCheck(c) \/ UpWorktree(c) \/ UpMailbox(c) \/ UpNetwork(c) \/ UpPorts(c)
    \/ UpEnv(c) \/ UpClone(c) \/ UpMigrate(c) \/ UpCtrs(c) \/ UpProcs(c)
    \/ UpSettle(c) \/ UpSave(c) \/ UpRecord(c) \/ UpVerify(c)

Down(c) ==
    \/ DnCheck(c) \/ DnProcs(c) \/ DnCtrs(c) \/ DnDbs(c) \/ DnNetwork(c)
    \/ DnWorktree(c) \/ DnMailbox(c) \/ DnSave(c)

Suspend(c) == SuCheck(c) \/ SuProcs(c) \/ SuCtrs(c) \/ SuSave(c)

Resume(c) ==
    \/ ReCheck(c) \/ ReCtrs(c) \/ ReEnv(c) \/ ReProcs(c) \/ ReSettle(c)
    \/ ReSave(c) \/ ReVerify(c)

\* A step of a command that holds the lock.
Step(c) == Up(c) \/ Down(c) \/ Suspend(c) \/ Resume(c) \/ Rollback(c) \/ Close(c)

Next ==
    \/ \E c \in Clients : Start(c) \/ Open(c) \/ Step(c) \/ Crash(c)
    \/ GroupExits \/ ContainerExits

Spec == Init /\ [][Next]_vars

\* A command that holds the lock keeps moving: every call it makes outside
\* (git, docker, postgres, the migrate command) returns in the end.  The code
\* bounds the probes, docker stop and Terminate; it sets no limit to a
\* migrate command, an image pull or an SQL statement, so of these it is an
\* assumption.  Nothing is assumed of commands that wait for the lock.
Fairness == \A c \in Clients : WF_vars(Step(c))

FairSpec == Spec /\ Fairness

=============================================================================
