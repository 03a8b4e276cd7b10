------------------------------- MODULE Registry -------------------------------
(***************************************************************************)
(* The registry, pkg/registry: the table of instances and the table of     *)
(* port allocations, and the operations commands apply to their in-memory  *)
(* copy of it.  A registry is a value here; where copies live, when they   *)
(* are read and written and who may do so is modelled by Lifecycle.        *)
(*                                                                         *)
(* Data kept of an InstanceRecord: its state, its port per port-bearing    *)
(* entity, the dedicated services it recorded a container for and the      *)
(* processes it recorded a process group for, with the group's number.     *)
(***************************************************************************)
EXTENDS Naturals, FiniteSets

CONSTANTS
    Names,      \* instance names
    Svcs,       \* dedicated services of the blueprint
    Procs,      \* native processes of the blueprint
    Pids,       \* numbers of process groups, each with a start time of its own
    Ports,      \* host ports of the pool
    NoName,     \* owner of a port that is not allocated
    NoRec       \* entry of an instance that is not registered

\* The port-bearing entities: each holds one host port of the instance.
Owners == Svcs \cup Procs

\* The number of its group for each process that has one.
PidSets == SUBSET (Procs \X Pids)

InstanceRecord ==
    [state : {"running", "suspended"},
     ports : [Owners -> Ports],
     ctrs  : SUBSET Svcs,
     pids  : PidSets]

\* A blueprint is a file: it declares finitely many services and processes.
ASSUME BlueprintAssumption == IsFiniteSet(Svcs) /\ IsFiniteSet(Procs)

ASSUME NullAssumption == NoName \notin Names /\ NoRec \notin InstanceRecord

RegistryValue ==
    [inst  : [Names -> InstanceRecord \cup {NoRec}],
     alloc : [Ports -> Names \cup {NoName}]]

EmptyRegistry ==
    [inst  |-> [n \in Names |-> NoRec],
     alloc |-> [p \in Ports |-> NoName]]

Registered(r, n) == r.inst[n] # NoRec

\* Mutant: the table starts afresh with the new entry.
PutOnlyInstance(r, n, rec) ==
    [inst |-> [m \in Names |-> IF m = n THEN rec ELSE NoRec], alloc |-> r.alloc]

\* AddInstance and UpdateInstance both write the entry of one instance.
PutInstance(r, n, rec) ==
    [inst |-> [r.inst EXCEPT ![n] = rec], alloc |-> r.alloc]

\* Mutant: the allocations stay.
RemoveEntry(r, n) == [inst |-> [r.inst EXCEPT ![n] = NoRec], alloc |-> r.alloc]

\* The entry goes, and with it every port allocated to the instance.
RemoveInstance(r, n) ==
    [inst  |-> [r.inst EXCEPT ![n] = NoRec],
     alloc |-> [p \in Ports |-> IF r.alloc[p] = n THEN NoName ELSE r.alloc[p]]]

\* Mutant: the pool does not note what it hands out.
AllocUnnoted(r, n, ps) == r

AllocPorts(r, n, ps) ==
    [inst  |-> r.inst,
     alloc |-> [p \in Ports |-> IF p \in ps THEN n ELSE r.alloc[p]]]

ReleasePorts(r, ps) ==
    [inst  |-> r.inst,
     alloc |-> [p \in Ports |-> IF p \in ps THEN NoName ELSE r.alloc[p]]]

\* Mutant: only the probe decides.
ProbedOnlyPorts(r) == Ports

FreePorts(r) == {p \in Ports : r.alloc[p] = NoName}

\* The ports a set of owners was given (a record's ports field).
PortsOf(ports) == {ports[o] : o \in Owners}

=============================================================================
