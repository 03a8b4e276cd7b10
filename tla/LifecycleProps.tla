---------------------------- MODULE LifecycleProps ----------------------------
(***************************************************************************)
(* What the lifecycle has to guarantee.                                    *)
(***************************************************************************)
EXTENDS Lifecycle

\* Types of the variables; checked for every run and proved in LifecycleProofs.
TypeOK ==
    /\ lock \in Clients \cup {NoClient}
    /\ disk \in RegistryValue
    /\ pc \in [Clients -> Phases]
    /\ job \in [Clients -> Job \cup {NoJob}]
    /\ mem \in [Clients -> RegistryValue]
    /\ undo \in [Clients -> Seq(UndoTags)]
    /\ got \in [Clients -> [ports : [Owners -> Ports] \cup {NoPorts},
                            ctrs : SUBSET Svcs, pids : PidSets]]
    /\ made \subseteq Names \X (Kinds \cup Dbs)
    /\ ctrs \subseteq Container
    /\ procs \subseteq Group
    /\ owed \subseteq (Names \X (Kinds \cup Dbs \cup Svcs)) \cup Group
    /\ kept \subseteq Names
    /\ faults \in 0 .. MaxFaults
    /\ crashes \in 0 .. MaxCrashes

(***************************************************************************)
(* The registry file                                                       *)
(***************************************************************************)

\* A command works on an up-to-date copy: what it will write back about any
\* instance but its own, and about the ports of those instances, is what the
\* file says now.  Save writes the whole file, so a stale copy would undo
\* what another command did (registry.go Open, Save).
CopyIsCurrent ==
    \A c \in Clients : Holding(c) =>
       \A n \in Names \ {Name(c)} :
          /\ mem[c].inst[n] = disk.inst[n]
          /\ \A p \in Ports : mem[c].alloc[p] = n <=> disk.alloc[p] = n

\* The two tables of a registry agree on n: a port is allocated to n exactly
\* if the record of n holds it, and the record holds no port twice.
TablesAgree(r, n) ==
    IF Registered(r, n)
    THEN /\ \A p \in Ports : r.alloc[p] = n <=> p \in PortsOf(r.inst[n].ports)
         /\ \A o1, o2 \in Owners :
               r.inst[n].ports[o1] = r.inst[n].ports[o2] => o1 = o2
    ELSE \A p \in Ports : r.alloc[p] # n

\* They agree on every instance in the file, at all times, so no two
\* instances, running or suspended, share a port and none is leaked
\* (up.go allocatePorts and its undo, RemoveInstance).
PortTablesAgree == \A n \in Names : TablesAgree(disk, n)

\* A step changes the file's entry of one instance only, and it is a step of
\* the command that holds the lock for that instance.
NoLostUpdate ==
    [][\A n \in Names : disk'.inst[n] # disk.inst[n] =>
          lock \in Clients /\ Name(lock) = n]_vars

(***************************************************************************)
(* The registry and the world                                              *)
(***************************************************************************)

\* What the record of n, if there is one, lets a later command find: the
\* things every instance has by name, and the containers and process groups
\* the record lists.
Tracked(n) ==
    IF ~Registered(disk, n) THEN {}
    ELSE ({n} \X (Kinds \cup Dbs \cup disk.inst[n].ctrs)) \cup GroupsIn(disk.inst[n], n)

\* Whenever no command is at work on an instance, everything it has is
\* tracked by its record; what is not, a command tried to remove in vain, or
\* it was left by a killed up or resume.  So a rollback forgets nothing, and
\* a down that is killed can be run again (up.go:134, main.go:812).
NothingLost ==
    \A n \in Names : ~Busy(n) => Things(n) \subseteq Tracked(n) \cup owed

\* An up that fails has removed everything it made, or tried to: "If any step
\* fails, all side effects are rolled back in reverse order"
\* (docs/manual.md:586), as long as no command was killed.
FailedUpLeavesNothing ==
    crashes = MaxCrashes =>
       \A n \in Names : ~Busy(n) /\ ~Registered(disk, n) => Things(n) \subseteq owed

\* Nothing of a suspended instance runs, except what suspend or a rollback
\* failed to stop (suspend.go).
SuspendedIsQuiet ==
    \A n \in Names :
       ~Busy(n) /\ Registered(disk, n) /\ disk.inst[n].state = "suspended"
          => Running(n) \subseteq owed

\* No two live workloads were ever given the same host port, across
\* instances and across the generations of one instance: the allocation
\* table covers registered instances, the probe covers what listens.  Only a
\* process group that a failed termination or a killed command left behind
\* may share its port, with those that came after it: while it does not
\* listen, nothing shows that it is there (up.go allocatePorts, resume.go:37).
Workloads ==
    {<<x.name, x.svc, x.port>> : x \in {y \in ctrs : y.up}} \cup procs

LeftGroups == procs \cap owed

NoPortCollision ==
    \A w1, w2 \in Workloads \ LeftGroups : w1 # w2 => w1[3] # w2[3]

\* A resume goes on only if nothing is left of its instance's processes:
\* "Suspend never fails because a process would not die - the port probe at
\* resume will name the survivor" (docs/plans/04-state.md:405).  No run checks
\* this: it is false where the survivor does not listen.
ProbeNamesSurvivor ==
    [][\A c \in Clients : pc[c] = "re_check" /\ pc'[c] = "re_ctrs" =>
          \A g \in GroupsOf(Name(c)) : g[3] \notin PortsOf(Rec(c).ports)]_vars

\* A work record outlives its instance: once a command has ended with it in
\* place nothing removes it, neither down nor the rollback of a later up of
\* the same name (docs/manual.md:834, up.go step 7.5).
RecordsSurvive == kept \subseteq Recorded

(***************************************************************************)
(* The abstract view                                                       *)
(***************************************************************************)

AbstractState ==
    [n \in Names |-> IF Registered(disk, n) THEN disk.inst[n].state ELSE "absent"]

Abstract == INSTANCE Instances WITH state <- AbstractState, holder <- disk.alloc,
                                    NumPorts <- Cardinality(Owners)

\* The registry file goes through the states the abstract specification
\* allows: instances appear, sleep, wake and disappear one at a time, and a
\* port changes hands only by way of being free.
ImplementsInstances == Abstract!Spec

(***************************************************************************)
(* Liveness                                                                *)
(***************************************************************************)

\* A command that got the lock ends, whatever fails on the way, so the lock
\* is free again: a rollback does not run in circles, no phase is a dead end.
EveryCommandEnds == \A c \in Clients : (lock = c) ~> (lock # c)

=============================================================================
