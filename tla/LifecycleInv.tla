----------------------------- MODULE LifecycleInv -----------------------------
(***************************************************************************)
(* The inductive invariant behind the registry properties of Lifecycle.    *)
(*                                                                         *)
(* CopyIsCurrent and PortTablesAgree are not inductive: the file is right  *)
(* after a Save only if the copy was right before it, and what the copy is *)
(* worth depends on how far the command got.  Between UpPorts and UpSave,  *)
(* for instance, the copy has ports allocated to an instance without an    *)
(* entry.  IInv says what holds in each stretch of phases.                 *)
(***************************************************************************)
EXTENDS LifecycleProps

\* Stretches of phases with the same knowledge about the copy.
CheckPhases == {"up_check", "dn_check", "su_check", "re_check"}
FreshPhases == {"up_worktree", "up_mailbox", "up_network", "up_ports"}
AllocPhases == {"up_env", "up_clone", "up_migrate", "up_ctrs", "up_procs",
                "up_settle", "up_save"}
SavedPhases == {"up_record", "up_verify"}
WorkPhases  == {"dn_procs", "dn_ctrs", "dn_dbs", "dn_network", "dn_worktree",
                "dn_mailbox", "dn_save", "su_procs", "su_ctrs", "su_save",
                "re_ctrs", "re_env", "re_procs", "re_settle", "re_save", "re_verify"}

UpPhases == FreshPhases \cup AllocPhases \cup SavedPhases

\* Complete, injective maps of owners to ports.
PortMap == [Owners -> Ports]
Injective(ports) == \A o1, o2 \in Owners : ports[o1] = ports[o2] => o1 = o2

\* The cleanups a command can have pushed: resume never removes the entry,
\* and up releases ports only once it has them all.
TagsOf(op, ports) ==
    IF op # "up" THEN {"stopctrs", "procs", "suspend"}
    ELSE IF ports \in PortMap THEN UndoTags \ {"suspend"}
    ELSE UndoTags \ {"suspend", "ports"}

\* m and r say the same of n.
SameEntry(m, r, n) ==
    /\ m.inst[n] = r.inst[n]
    /\ \A p \in Ports : m.alloc[p] = n <=> r.alloc[p] = n

CoreType ==
    /\ lock \in Clients \cup {NoClient}
    /\ disk \in RegistryValue
    /\ pc \in [Clients -> Phases]
    /\ job \in [Clients -> Job \cup {NoJob}]
    /\ mem \in [Clients -> RegistryValue]
    /\ undo \in [Clients -> Seq(UndoTags)]
    /\ got \in [Clients -> [ports : PortMap \cup {NoPorts},
                            ctrs : SUBSET Svcs, pids : PidSets]]

\* A registry has allocated exactly the ports of the map to n.
Allocated(r, n, ports) ==
    \A p \in Ports : r.alloc[p] = n <=> p \in PortsOf(ports)

\* Control: the holder of the lock is the command at work.
Control(c) ==
    /\ pc[c] # "idle" => job[c] \in Job
    /\ Holding(c) => lock = c /\ undo[c] \in Seq(TagsOf(job[c].op, got[c].ports))
    /\ pc[c] \in {"idle", "open"} => got[c].ports = NoPorts /\ undo[c] = <<>>
    /\ pc[c] \in CheckPhases => undo[c] = <<>> /\ pc[c] = FirstPhase[job[c].op]
    /\ pc[c] \in UpPhases => job[c].op = "up"
    /\ pc[c] \in WorkPhases => job[c].op # "up"
    /\ pc[c] \in CheckPhases \cup FreshPhases \/ (Holding(c) /\ job[c].op # "up")
          => got[c].ports = NoPorts

\* The copy of the command's own instance.
OwnCopy(c) ==
    /\ pc[c] \in CheckPhases \cup FreshPhases \cup SavedPhases
          => TablesAgree(mem[c], Name(c))
    /\ pc[c] \in FreshPhases => ~Registered(mem[c], Name(c))
    /\ pc[c] \in AllocPhases =>
          /\ got[c].ports \in PortMap /\ Injective(got[c].ports)
          /\ Allocated(mem[c], Name(c), got[c].ports)
    /\ pc[c] \in WorkPhases \/ (pc[c] = "rollback" /\ job[c].op # "up") =>
          Registered(mem[c], Name(c)) /\ TablesAgree(mem[c], Name(c))
    /\ pc[c] \in UpPhases \/ (pc[c] = "rollback" /\ job[c].op = "up") =>
          (got[c].ports \in PortMap =>
             \A o \in Owners : mem[c].alloc[got[c].ports[o]] \in {Name(c), NoName})

\* The copy of all other instances, one command's part of CopyIsCurrent.
OtherCopies(c) ==
    Holding(c) =>
       \A n \in Names \ {Name(c)} :
          /\ mem[c].inst[n] = disk.inst[n]
          /\ \A p \in Ports : mem[c].alloc[p] = n <=> disk.alloc[p] = n

Known(c) == Control(c) /\ OwnCopy(c) /\ OtherCopies(c)

\* The inductive invariant.
IInv ==
    /\ CoreType
    /\ \A c \in Clients : Known(c)
    /\ PortTablesAgree

(***************************************************************************)
(* What the file says of the instance a command works on.                  *)
(***************************************************************************)

DnPhases == {"dn_procs", "dn_ctrs", "dn_dbs", "dn_network", "dn_worktree",
             "dn_mailbox", "dn_save"}
SuPhases == {"su_procs", "su_ctrs", "su_save"}
RePhases == {"re_ctrs", "re_env", "re_procs", "re_settle", "re_save", "re_verify"}

\* An up, or a resume, past its checks and not at its end.
Rising(c)   == pc[c] \in UpPhases \/ (pc[c] = "rollback" /\ job[c].op = "up")
Resuming(c) == pc[c] \in RePhases \/ (pc[c] = "rollback" /\ job[c].op # "up")

Entry(c) == disk.inst[Name(c)]

OwnEntry(c) ==
    /\ pc[c] \in CheckPhases => SameEntry(mem[c], disk, Name(c))
    /\ pc[c] \in FreshPhases \cup AllocPhases => ~Registered(disk, Name(c))
    /\ Rising(c) /\ Registered(disk, Name(c)) => Entry(c) = NewRecord(c)
    /\ pc[c] \in SavedPhases => /\ Registered(disk, Name(c))
                              /\ Rec(c) = NewRecord(c) /\ Entry(c) = NewRecord(c)
    /\ pc[c] \in WorkPhases => Entry(c) = Rec(c)
    /\ Resuming(c) => /\ job[c].op = "resume" /\ Registered(disk, Name(c))
                      /\ Entry(c).ports = Rec(c).ports /\ Entry(c).ctrs = Rec(c).ctrs
    /\ pc[c] \in DnPhases => job[c].op = "down"
    /\ pc[c] \in SuPhases => job[c].op = "suspend" /\ Rec(c).state = "running"
    /\ pc[c] \in RePhases \ {"re_verify"} => Rec(c).state = "suspended"
    /\ pc[c] = "re_verify" => Rec(c).state = "running" /\ Rec(c).pids = got[c].pids

\* With IInv, inductive: what Lifecycle needs to implement Instances.
FileInv == \A c \in Clients : OwnEntry(c)

(***************************************************************************)
(* The world of an instance at rest: what it has is in its record, or owed.*)
(* A database is spoken of only if the blueprint has no other: with two,   *)
(* an up that fails while cloning leaves one behind.                       *)
(***************************************************************************)

Counted == (Kinds \ {"record"}) \cup (IF \A d, e \in Dbs : d = e THEN Dbs ELSE {})

NamedOwed(n, kinds) == \A k \in kinds : <<n, k>> \in made => <<n, k>> \in owed
CtrsOwed(n)   == \A x \in ctrs : x.name = n => <<n, x.svc>> \in owed
UpCtrsOwed(n) == \A x \in ctrs : x.name = n /\ x.up => <<n, x.svc>> \in owed
GroupsOwed(n) == \A g \in procs : g[1] = n => g \in owed

NamedKnown(n) == Registered(disk, n) \/ NamedOwed(n, Counted)

CtrsKnown(n) ==
    \A x \in ctrs : x.name = n =>
       \/ <<n, x.svc>> \in owed
       \/ Registered(disk, n) /\ x.svc \in disk.inst[n].ctrs

GroupsKnown(n) ==
    \A g \in procs : g[1] = n =>
       \/ g \in owed
       \/ /\ Registered(disk, n)
          /\ <<g[2], g[4]>> \in disk.inst[n].pids /\ g[3] = disk.inst[n].ports[g[2]]

Quiet(n) ==
    Registered(disk, n) /\ disk.inst[n].state = "suspended"
       => UpCtrsOwed(n) /\ GroupsOwed(n)

\* A container the record of n names is bound to the port the record gives it.
PortsRight(n) ==
    Registered(disk, n) =>
       \A x \in ctrs : x.name = n /\ x.svc \in disk.inst[n].ctrs
                          => x.port = disk.inst[n].ports[x.svc]

AtRest(n) == NamedKnown(n) /\ CtrsKnown(n) /\ GroupsKnown(n) /\ Quiet(n) /\ PortsRight(n)

(***************************************************************************)
(* The world of an instance a command works on: what is neither in the     *)
(* record nor owed, a cleanup on the stack will remove.                    *)
(***************************************************************************)

Pushed(c, tag) == \E i \in 1 .. Len(undo[c]) : undo[c][i] = tag

\* The cleanup of plax up for a thing known by its kind.
TagOf(k) ==
    IF k \in {"branch", "worktree"} THEN "worktree" ELSE IF k \in Dbs THEN "dbs" ELSE k

NamedCovered(c) ==
    \A k \in Counted : <<Name(c), k>> \in made =>
       <<Name(c), k>> \in owed \/ Pushed(c, TagOf(k))

CtrsCovered(c) ==
    \A x \in ctrs : x.name = Name(c) =>
       /\ \/ <<Name(c), x.svc>> \in owed
          \/ Pushed(c, "ctrs") /\ x.svc \in got[c].ctrs
       /\ x.svc \in got[c].ctrs => x.port = got[c].ports[x.svc]

UpCtrsCovered(c) ==
    \A x \in ctrs : x.name = Name(c) /\ x.up =>
       <<Name(c), x.svc>> \in owed \/ (Pushed(c, "stopctrs") /\ x.svc \in got[c].ctrs)

GroupsCovered(c) ==
    \A g \in procs : g[1] = Name(c) =>
       \/ g \in owed
       \/ Pushed(c, "procs") /\ <<g[2], g[4]>> \in got[c].pids /\ g[3] = OwnPorts(c)[g[2]]

\* What a command got so far, and the cleanup that is pushed by then.
Gained(c) ==
    /\ pc[c] \in CheckPhases \cup FreshPhases
                   \cup {"idle", "open", "up_env", "up_clone", "up_migrate", "up_ctrs", "re_ctrs"}
          => got[c].ctrs = {} /\ got[c].pids = {}
    /\ pc[c] \in {"up_procs", "re_env", "re_procs"} => got[c].pids = {}
    /\ pc[c] = "up_ctrs" => Pushed(c, "ctrs")
    /\ pc[c] \in {"up_procs", "re_procs"} => Pushed(c, "procs")

\* The named things plax down has dealt with.
GoneBy(phase) ==
    CASE phase = "dn_network"  -> Dbs
      [] phase = "dn_worktree" -> Dbs \cup {"network"}
      [] phase = "dn_mailbox"  -> Dbs \cup {"network", "branch", "worktree"}
      [] phase = "dn_save"     -> Dbs \cup Kinds
      [] OTHER -> {}

Progress(c) ==
    /\ pc[c] \in {"su_ctrs", "su_save"} \cup (DnPhases \ {"dn_procs"}) => GroupsOwed(Name(c))
    /\ pc[c] = "su_save" => UpCtrsOwed(Name(c))
    /\ pc[c] \in DnPhases \ {"dn_procs", "dn_ctrs"} => CtrsOwed(Name(c))
    /\ NamedOwed(Name(c), Counted \cap GoneBy(pc[c]))

\* Nobody but n has a workload on these ports, groups left behind aside.
Exclusive(n, ports) ==
    \A o \in Owners :
       /\ \A x \in ctrs : x.up /\ x.port = ports[o] => x.name = n /\ x.svc = o
       /\ \A g \in procs \ owed : g[3] = ports[o] => g[1] = n /\ g[2] = o

PortsClear(c) ==
    /\ pc[c] \in AllocPhases => Exclusive(Name(c), got[c].ports)
    /\ pc[c] \in {"re_ctrs", "re_env", "re_procs"} => Exclusive(Name(c), Rec(c).ports)

Covered(c) ==
    /\ pc[c] \in CheckPhases \cup DnPhases \cup SuPhases \cup {"close"} => AtRest(Name(c))
    /\ Rising(c) => NamedCovered(c) /\ CtrsCovered(c) /\ GroupsCovered(c)
    /\ Resuming(c) => /\ CtrsKnown(Name(c)) /\ PortsRight(Name(c))
                      /\ UpCtrsCovered(c) /\ GroupsCovered(c)

\* No two workloads on one port, groups left behind aside.
NoClash ==
    /\ \A x, y \in ctrs : x.up /\ y.up /\ x.port = y.port => x.name = y.name /\ x.svc = y.svc
    /\ \A x \in ctrs, g \in procs \ owed : x.up => x.port # g[3]
    /\ \A g, h \in procs \ owed : g[3] = h[3] => g = h

WorldInv ==
    /\ \A n \in Names : ~Busy(n) => AtRest(n)
    /\ \A c \in Clients : Gained(c) /\ Progress(c) /\ PortsClear(c) /\ Covered(c)
    /\ NoClash

\* A cleanup that would remove a work record is about one of this command's
\* own making.
RecordInv ==
    /\ kept \subseteq Recorded
    /\ \A c \in Clients : Pushed(c, "record") => Name(c) \notin kept

\* The inductive invariant of the world.
WInv == IInv /\ TypeOK /\ FileInv /\ WorldInv /\ RecordInv

=============================================================================
