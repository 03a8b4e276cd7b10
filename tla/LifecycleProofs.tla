--------------------------- MODULE LifecycleProofs ---------------------------
(***************************************************************************)
(* Proofs about the registry file in Lifecycle, and type correctness.      *)
(*                                                                         *)
(* Seen from the registry, almost all steps of a command are alike: they   *)
(* hold the lock, leave the file and the copy alone and move on within a   *)
(* stretch of phases (QuietMove below).  One lemma deals with all of them; *)
(* the few steps that change the copy or the file have one each.           *)
(***************************************************************************)
EXTENDS LifecycleInv, TLAPS

\* A step of c leaves what belongs to the other commands alone.
Frame(c) ==
    /\ job' = [job EXCEPT ![c] = job'[c]]
    /\ \A d \in Clients \ {c} :
          /\ pc'[d] = pc[d]
          /\ job'[d] = job[d]
          /\ mem'[d] = mem[d]
          /\ undo'[d] = undo[d]
          /\ got'[d] = got[d]

\* A step of c that the registry does not notice.
SameStretch(ph, next) ==
    \/ next = "close"
    \/ next = "rollback" /\ ph \notin CheckPhases
    \/ ph \in FreshPhases /\ next \in FreshPhases
    \/ ph \in AllocPhases /\ next \in AllocPhases
    \/ ph \in SavedPhases /\ next \in SavedPhases
    \/ ph \in WorkPhases /\ next \in WorkPhases

QuietMove(c) ==
    /\ Holding(c) /\ pc[c] # "close"
    /\ UNCHANGED <<lock, disk, job, mem>>
    /\ \E next \in Phases :
          pc' = [pc EXCEPT ![c] = next] /\ SameStretch(pc[c], next)
    /\ \E u \in Seq(TagsOf(job[c].op, got[c].ports)) : undo' = [undo EXCEPT ![c] = u]
    /\ \E cs \in SUBSET Svcs, ps \in PidSets :
          got' = [got EXCEPT ![c] = [ports |-> got[c].ports, ctrs |-> cs, pids |-> ps]]

\* c has started the groups with these numbers, one for a process.
Spawns(c, ports, pids) ==
    /\ \A q, r \in pids : q[1] = r[1] => q = r
    /\ procs' = procs \cup GroupsAt(Name(c), ports, pids)
    /\ got' = [got EXCEPT ![c].pids = pids]

-----------------------------------------------------------------------------

(***************************************************************************)
(* Process groups                                                          *)
(***************************************************************************)

LEMMA NoPids == {} \in PidSets
BY DEF PidSets

LEMMA SpawnPids ==
    ASSUME NEW c, NEW ok \in SUBSET Procs, NEW id \in Numbers(c, ok)
    PROVE  PidsOf(id) \in PidSets /\ \A q, r \in PidsOf(id) : q[1] = r[1] => q = r
<1>1. id \in [ok -> Pids]
  BY DEF Numbers
<1> QED
  BY <1>1 DEF PidsOf, PidSets

\* Both commands that start processes do it alike.
LEMMA UpSpawns ==
    ASSUME NEW c, UpProcs(c)
    PROVE  \E pids \in PidSets, next \in {"up_settle", "rollback"} :
              Spawns(c, got[c].ports, pids) /\ Goto(c, next)
<1>1. PICK ok \in SUBSET Procs : \E id \in Numbers(c, ok) :
          /\ procs' = procs \cup GroupsAt(Name(c), got[c].ports, PidsOf(id))
          /\ got' = [got EXCEPT ![c].pids = PidsOf(id)]
          /\ Goto(c, IF ok = Procs THEN "up_settle" ELSE "rollback")
  BY Zenon DEF UpProcs
<1>2. PICK id \in Numbers(c, ok) :
          /\ procs' = procs \cup GroupsAt(Name(c), got[c].ports, PidsOf(id))
          /\ got' = [got EXCEPT ![c].pids = PidsOf(id)]
          /\ Goto(c, IF ok = Procs THEN "up_settle" ELSE "rollback")
  BY <1>1, Zenon
<1>3. PidsOf(id) \in PidSets /\ Spawns(c, got[c].ports, PidsOf(id))
  BY <1>2, SpawnPids DEF Spawns
<1>4. (IF ok = Procs THEN "up_settle" ELSE "rollback") \in {"up_settle", "rollback"}
  OBVIOUS
<1> QED
  BY <1>2, <1>3, <1>4

LEMMA ReSpawns ==
    ASSUME NEW c, ReProcs(c)
    PROVE  \E pids \in PidSets, next \in {"re_settle", "rollback"} :
              Spawns(c, Rec(c).ports, pids) /\ Goto(c, next)
<1>1. PICK ok \in SUBSET Procs : \E id \in Numbers(c, ok) :
          /\ procs' = procs \cup GroupsAt(Name(c), Rec(c).ports, PidsOf(id))
          /\ got' = [got EXCEPT ![c].pids = PidsOf(id)]
          /\ Goto(c, IF ok = Procs THEN "re_settle" ELSE "rollback")
  BY Zenon DEF ReProcs
<1>2. PICK id \in Numbers(c, ok) :
          /\ procs' = procs \cup GroupsAt(Name(c), Rec(c).ports, PidsOf(id))
          /\ got' = [got EXCEPT ![c].pids = PidsOf(id)]
          /\ Goto(c, IF ok = Procs THEN "re_settle" ELSE "rollback")
  BY <1>1, Zenon
<1>3. PidsOf(id) \in PidSets /\ Spawns(c, Rec(c).ports, PidsOf(id))
  BY <1>2, SpawnPids DEF Spawns
<1>4. (IF ok = Procs THEN "re_settle" ELSE "rollback") \in {"re_settle", "rollback"}
  OBVIOUS
<1> QED
  BY <1>2, <1>3, <1>4

\* Groups of an instance on ports of a complete map are groups.
LEMMA GroupsAtType ==
    ASSUME NEW n \in Names, NEW ports \in PortMap, NEW pids \in PidSets
    PROVE  GroupsAt(n, ports, pids) \subseteq Group
BY DEF GroupsAt, Group, PortMap, PidSets, Owners

-----------------------------------------------------------------------------

(***************************************************************************)
(* Registries                                                              *)
(***************************************************************************)

LEMMA PutInstanceType ==
    ASSUME NEW r \in RegistryValue, NEW n \in Names, NEW rec \in InstanceRecord
    PROVE  /\ PutInstance(r, n, rec) \in RegistryValue
           /\ PutInstance(r, n, rec).inst[n] = rec
           /\ PutInstance(r, n, rec).alloc = r.alloc
           /\ Registered(PutInstance(r, n, rec), n)
           /\ \A m \in Names \ {n} : SameEntry(PutInstance(r, n, rec), r, m)
BY NullAssumption DEF PutInstance, RegistryValue, SameEntry, Registered

LEMMA RemoveInstanceType ==
    ASSUME NEW r \in RegistryValue, NEW n \in Names
    PROVE  /\ RemoveInstance(r, n) \in RegistryValue
           /\ TablesAgree(RemoveInstance(r, n), n)
           /\ ~Registered(RemoveInstance(r, n), n)
           /\ \A p \in Ports : r.alloc[p] \in {n, NoName}
                                  => RemoveInstance(r, n).alloc[p] = NoName
           /\ \A m \in Names \ {n} : SameEntry(RemoveInstance(r, n), r, m)
BY NullAssumption DEF RemoveInstance, RegistryValue, TablesAgree, Registered, SameEntry

LEMMA AllocPortsType ==
    ASSUME NEW r \in RegistryValue, NEW n \in Names, NEW ps \in SUBSET FreePorts(r)
    PROVE  /\ AllocPorts(r, n, ps) \in RegistryValue
           /\ AllocPorts(r, n, ps).inst = r.inst
           /\ \A p \in Ports : AllocPorts(r, n, ps).alloc[p] = n <=> p \in ps \/ r.alloc[p] = n
           /\ \A m \in Names \ {n} : SameEntry(AllocPorts(r, n, ps), r, m)
BY NullAssumption DEF AllocPorts, RegistryValue, FreePorts, SameEntry

LEMMA ReleasePortsType ==
    ASSUME NEW r \in RegistryValue, NEW n \in Names, NEW ps \in SUBSET Ports,
           \A p \in ps : r.alloc[p] \in {n, NoName}
    PROVE  /\ ReleasePorts(r, ps) \in RegistryValue
           /\ \A p \in ps : ReleasePorts(r, ps).alloc[p] = NoName
           /\ \A m \in Names \ {n} : SameEntry(ReleasePorts(r, ps), r, m)
BY NullAssumption DEF ReleasePorts, RegistryValue, SameEntry

LEMMA EmptyRegistryType ==
    EmptyRegistry \in RegistryValue /\ \A n \in Names : TablesAgree(EmptyRegistry, n)
BY NullAssumption DEF EmptyRegistry, RegistryValue, TablesAgree, Registered

\* The tables agree on an instance in every registry that says the same of it.
LEMMA TablesAgreeCopy ==
    ASSUME NEW m, NEW r, NEW n, SameEntry(m, r, n), TablesAgree(r, n)
    PROVE  TablesAgree(m, n)
BY DEF TablesAgree, Registered, SameEntry

\* Saving a copy that is right about one instance, and says of the others
\* what the file says, keeps the file right.
LEMMA SaveKeepsTables ==
    ASSUME NEW m, NEW r, NEW n \in Names, TablesAgree(m, n),
           \A k \in Names \ {n} : SameEntry(m, r, k),
           \A k \in Names : TablesAgree(r, k)
    PROVE  \A k \in Names : TablesAgree(m, k)
BY TablesAgreeCopy

LEMMA NoPortsMap == NoPorts \in PortMap => Owners = {}
BY DEF NoPorts, PortMap

-----------------------------------------------------------------------------

(***************************************************************************)
(* Steps in general                                                        *)
(***************************************************************************)

\* What is known of the other commands survives every step of the holder.
LEMMA OthersKnown ==
    ASSUME IInv, NEW c \in Clients, Holding(c), Frame(c), lock' \in {c, NoClient}
    PROVE  \A d \in Clients \ {c} : Known(d)'
<1>1. SUFFICES ASSUME NEW d \in Clients \ {c} PROVE Known(d)'
  OBVIOUS
<1>2. Known(d) /\ Known(c)
  BY DEF IInv
<1>3. lock = c
  BY <1>2 DEF Known, Control
<1>4. pc[d] \in {"idle", "open"}
  BY <1>2, <1>3 DEF Known, Control, Holding
<1>5. /\ pc'[d] = pc[d] /\ job'[d] = job[d] /\ mem'[d] = mem[d]
      /\ undo'[d] = undo[d] /\ got'[d] = got[d]
  BY DEF Frame
<1>6. Control(d)'
  BY <1>2, <1>4, <1>5 DEF Known, Control, Holding, CheckPhases, UpPhases, FreshPhases,
      AllocPhases, SavedPhases, WorkPhases
<1>7. OwnCopy(d)'
  BY <1>4, <1>5 DEF OwnCopy, CheckPhases, UpPhases, FreshPhases, AllocPhases,
      SavedPhases, WorkPhases
<1>8. OtherCopies(d)'
  BY <1>4, <1>5 DEF OtherCopies, Holding
<1> QED
  BY <1>6, <1>7, <1>8 DEF Known

\* A step of the holder keeps the invariant if it keeps its own part of it.
LEMMA HolderStep ==
    ASSUME IInv, NEW c \in Clients, Holding(c), Frame(c), lock' \in {c, NoClient},
           CoreType', Known(c)', PortTablesAgree'
    PROVE  IInv'
BY OthersKnown DEF IInv

LEMMA QuietPreserves ==
    ASSUME IInv, NEW c \in Clients, QuietMove(c)
    PROVE  IInv'
<1>1. PICK next \in Phases :
         pc' = [pc EXCEPT ![c] = next] /\ SameStretch(pc[c], next)
  BY DEF QuietMove
<1>2. PICK u \in Seq(TagsOf(job[c].op, got[c].ports)) : undo' = [undo EXCEPT ![c] = u]
  BY DEF QuietMove
<1>3. PICK cs \in SUBSET Svcs, ps \in PidSets :
         got' = [got EXCEPT ![c] = [ports |-> got[c].ports, ctrs |-> cs, pids |-> ps]]
  BY DEF QuietMove
<1>4. UNCHANGED <<lock, disk, job, mem>> /\ Holding(c) /\ pc[c] # "close"
  BY DEF QuietMove
<1>5. CoreType /\ Known(c) /\ PortTablesAgree
  BY DEF IInv
<1>6. u \in Seq(UndoTags)
  BY <1>2 DEF TagsOf, UndoTags
<1>7. CoreType'
  BY <1>1, <1>2, <1>3, <1>4, <1>5, <1>6 DEF CoreType
<1>8. pc'[c] = next /\ undo'[c] = u /\ got'[c].ports = got[c].ports
  BY <1>1, <1>2, <1>3, <1>5 DEF CoreType
<1>9. Frame(c)
  BY <1>1, <1>2, <1>3, <1>4, <1>5 DEF CoreType, Frame
<1>10. Control(c)'
  BY <1>1, <1>2, <1>4, <1>5, <1>8
  DEF Known, Control, Holding, SameStretch, CheckPhases, UpPhases, FreshPhases,
      AllocPhases, SavedPhases, WorkPhases
<1>11. OwnCopy(c)'
  <2>1. Name(c)' = Name(c) /\ mem'[c] = mem[c] /\ job'[c] = job[c]
    BY <1>4 DEF Name
  <2>2. OwnCopy(c) /\ Control(c)
    BY <1>5 DEF Known
  <2>3. CASE next = "close"
    BY <2>3, <1>8 DEF OwnCopy, CheckPhases, UpPhases, FreshPhases, AllocPhases,
        SavedPhases, WorkPhases
  <2>4. CASE next = "rollback" /\ pc[c] \in WorkPhases
    BY <2>1, <2>2, <2>4, <1>8
    DEF OwnCopy, Control, CheckPhases, UpPhases, FreshPhases, AllocPhases,
        SavedPhases, WorkPhases, TablesAgree, Registered
  <2>5. CASE next = "rollback" /\ pc[c] \in UpPhases
    BY <2>1, <2>2, <2>5, <1>8
    DEF OwnCopy, Control, CheckPhases, UpPhases, FreshPhases, AllocPhases,
        SavedPhases, WorkPhases
  <2>6. CASE next = "rollback" /\ pc[c] = "rollback"
    BY <2>1, <2>2, <2>6, <1>8
    DEF OwnCopy, Control, CheckPhases, UpPhases, FreshPhases, AllocPhases,
        SavedPhases, WorkPhases, TablesAgree, Registered
  <2>7. CASE pc[c] \in FreshPhases /\ next \in FreshPhases
    BY <2>1, <2>2, <2>7, <1>8
    DEF OwnCopy, Control, CheckPhases, UpPhases, FreshPhases, AllocPhases,
        SavedPhases, WorkPhases, TablesAgree, Registered
  <2>8. CASE pc[c] \in AllocPhases /\ next \in AllocPhases
    BY <2>1, <2>2, <2>8, <1>8
    DEF OwnCopy, CheckPhases, UpPhases, FreshPhases, AllocPhases,
        SavedPhases, WorkPhases, Allocated, PortsOf
  <2>9. CASE pc[c] \in SavedPhases /\ next \in SavedPhases
    BY <2>1, <2>2, <2>9, <1>8
    DEF OwnCopy, CheckPhases, UpPhases, FreshPhases, AllocPhases,
        SavedPhases, WorkPhases, TablesAgree, Registered
  <2>10. CASE pc[c] \in WorkPhases /\ next \in WorkPhases
    BY <2>1, <2>2, <2>10, <1>8
    DEF OwnCopy, CheckPhases, UpPhases, FreshPhases, AllocPhases,
        SavedPhases, WorkPhases, TablesAgree, Registered
  <2>11. next = "rollback" =>
             pc[c] \in WorkPhases \/ pc[c] \in UpPhases \/ pc[c] = "rollback"
    <3>1. pc[c] \in Phases
      BY <1>5 DEF CoreType
    <3> QED
      BY <3>1, <1>1, <1>4 DEF SameStretch, Holding, Phases, CheckPhases, UpPhases,
          FreshPhases, AllocPhases, SavedPhases, WorkPhases
  <2> QED
    BY <2>3, <2>4, <2>5, <2>6, <2>7, <2>8, <2>9, <2>10, <2>11, <1>1 DEF SameStretch
<1>12. OtherCopies(c)'
  BY <1>4, <1>5 DEF Known, OtherCopies, Name
<1>13. PortTablesAgree'
  BY <1>4, <1>5 DEF PortTablesAgree, TablesAgree, Registered
<1>14. lock' = c
  BY <1>4, <1>5 DEF Known, Control
<1> QED
  BY <1>4, <1>7, <1>9, <1>10, <1>11, <1>12, <1>13, <1>14, HolderStep DEF Known

-----------------------------------------------------------------------------

(***************************************************************************)
(* The quiet steps                                                         *)
(***************************************************************************)

\* Neither a cleanup pushed nor anything gained.
LEMMA PlainStep ==
    ASSUME IInv, NEW c \in Clients, Holding(c), pc[c] # "close",
           UNCHANGED <<registryVars, job, mem, undo, got>>,
           NEW next \in Phases, Goto(c, next), SameStretch(pc[c], next)
    PROVE  IInv'
<1>1. CoreType /\ Control(c)
  BY DEF IInv, Known
<1>2. undo' = [undo EXCEPT ![c] = undo[c]]
  BY <1>1 DEF CoreType
<1>3. undo[c] \in Seq(TagsOf(job[c].op, got[c].ports))
  BY <1>1 DEF Control
<1>4. got' = [got EXCEPT ![c] = [ports |-> got[c].ports, ctrs |-> got[c].ctrs,
                                 pids |-> got[c].pids]]
  BY <1>1 DEF CoreType
<1>5. got[c].ctrs \in SUBSET Svcs /\ got[c].pids \in PidSets
  BY <1>1 DEF CoreType
<1>6. QuietMove(c)
  BY <1>2, <1>3, <1>4, <1>5 DEF QuietMove, Goto, registryVars
<1> QED
  BY <1>6, QuietPreserves

\* A cleanup pushed, containers or process groups gained.
LEMMA PushStep ==
    ASSUME IInv, NEW c \in Clients, Holding(c), pc[c] # "close",
           UNCHANGED <<registryVars, job, mem>>,
           NEW next \in Phases, Goto(c, next), SameStretch(pc[c], next),
           NEW tag \in TagsOf(job[c].op, got[c].ports),
           UNCHANGED undo \/ Push(c, tag),
           NEW cs \in SUBSET Svcs, NEW ps \in PidSets,
           \/ UNCHANGED got
           \/ got' = [got EXCEPT ![c].ctrs = cs]
           \/ got' = [got EXCEPT ![c].pids = ps]
    PROVE  IInv'
<1>1. CoreType /\ Control(c)
  BY DEF IInv, Known
<1> DEFINE Tags == TagsOf(job[c].op, got[c].ports)
<1>2. undo[c] \in Seq(Tags) /\ Append(undo[c], tag) \in Seq(Tags)
  BY <1>1 DEF Control
<1>3. \E u \in Seq(Tags) : undo' = [undo EXCEPT ![c] = u]
  <2>1. CASE UNCHANGED undo
    BY <2>1, <1>1, <1>2 DEF CoreType
  <2>2. CASE Push(c, tag)
    BY <2>2, <1>2 DEF Push
  <2> QED
    BY <2>1, <2>2
<1>4. \E c2 \in SUBSET Svcs, p2 \in PidSets :
         got' = [got EXCEPT ![c] = [ports |-> got[c].ports, ctrs |-> c2, pids |-> p2]]
  <2>1. got[c] \in [ports : PortMap \cup {NoPorts}, ctrs : SUBSET Svcs, pids : PidSets]
    BY <1>1 DEF CoreType
  <2>2. CASE UNCHANGED got
    <3>1. got[c] = [ports |-> got[c].ports, ctrs |-> got[c].ctrs, pids |-> got[c].pids]
      BY <2>1
    <3>2. got' = [got EXCEPT ![c] = got[c]]
      BY <2>2, <1>1 DEF CoreType
    <3> QED
      BY <2>1, <3>1, <3>2
  <2>3. CASE got' = [got EXCEPT ![c].ctrs = cs]
    <3>1. [got[c] EXCEPT !.ctrs = cs]
             = [ports |-> got[c].ports, ctrs |-> cs, pids |-> got[c].pids]
      BY <2>1
    <3> QED
      BY <2>1, <2>3, <3>1
  <2>4. CASE got' = [got EXCEPT ![c].pids = ps]
    <3>1. [got[c] EXCEPT !.pids = ps]
             = [ports |-> got[c].ports, ctrs |-> got[c].ctrs, pids |-> ps]
      BY <2>1
    <3> QED
      BY <2>1, <2>4, <3>1
  <2> QED
    BY <2>2, <2>3, <2>4
<1>5. QuietMove(c)
  BY <1>3, <1>4 DEF QuietMove, Goto, registryVars
<1> QED
  BY <1>5, QuietPreserves

\* A cleanup taken off the stack that does not touch the copy.
LEMMA PopStep ==
    ASSUME IInv, NEW c \in Clients, NEW tag, Undoing(c, tag),
           UNCHANGED <<registryVars, job, mem, got>>
    PROVE  IInv'
<1>1. CoreType /\ Control(c) /\ pc[c] = "rollback"
  BY DEF IInv, Known, Undoing
<1> DEFINE Tags == TagsOf(job[c].op, got[c].ports)
<1>2. undo[c] \in Seq(Tags)
  BY <1>1 DEF Control, Holding
<1>3. SubSeq(undo[c], 1, Len(undo[c]) - 1) \in Seq(Tags)
  BY <1>2 DEF Undoing
<1>4. \E u \in Seq(Tags) : undo' = [undo EXCEPT ![c] = u]
  BY <1>3 DEF Undoing
<1>5. got[c] \in [ports : PortMap \cup {NoPorts}, ctrs : SUBSET Svcs, pids : PidSets]
  BY <1>1 DEF CoreType
<1>6. got' = [got EXCEPT ![c] = [ports |-> got[c].ports, ctrs |-> got[c].ctrs,
                                 pids |-> got[c].pids]]
  BY <1>1, <1>5 DEF CoreType
<1>7. pc' = [pc EXCEPT ![c] = "rollback"] /\ "rollback" \in Phases
  BY <1>1 DEF CoreType, Undoing, Phases
<1>8. QuietMove(c)
  BY <1>1, <1>4, <1>5, <1>6, <1>7
  DEF QuietMove, Holding, registryVars, SameStretch, CheckPhases
<1> QED
  BY <1>8, QuietPreserves

LEMMA UpWorktreeKeeps ==
    ASSUME IInv, NEW c \in Clients, UpWorktree(c) PROVE IInv'
<1>1. job[c].op = "up"
  BY DEF IInv, Known, Control, UpWorktree, UpPhases, FreshPhases
<1>2. "worktree" \in TagsOf(job[c].op, got[c].ports)
  BY <1>1 DEF TagsOf, UndoTags
<1> QED
  BY <1>2, PushStep, NoPids DEF UpWorktree, Holding, Phases, SameStretch, FreshPhases, CheckPhases

LEMMA UpQuietKeeps ==
    ASSUME IInv, NEW c \in Clients,
           \/ UpMailbox(c) \/ UpNetwork(c) \/ UpEnv(c) \/ UpClone(c) \/ UpMigrate(c)
           \/ UpCtrs(c) \/ UpProcs(c) \/ UpSettle(c) \/ UpRecord(c)
    PROVE  IInv'
<1>1. pc[c] \in UpPhases => job[c].op = "up"
  BY DEF IInv, Known, Control
<1>2. job[c].op = "up" => {"mailbox", "network", "dbs", "ctrs", "procs", "record"}
                             \subseteq TagsOf(job[c].op, got[c].ports)
  BY DEF TagsOf, UndoTags
<1> USE DEF Holding, Phases, SameStretch, FreshPhases, AllocPhases, SavedPhases,
            CheckPhases, UpPhases
<1>3. CASE UpMailbox(c)
  BY <1>1, <1>2, <1>3, PushStep, NoPids DEF UpMailbox
<1>4. CASE UpNetwork(c)
  BY <1>1, <1>2, <1>4, PushStep, NoPids DEF UpNetwork
<1>5. CASE UpEnv(c)
  BY <1>5, PlainStep DEF UpEnv
<1>6. CASE UpClone(c)
  BY <1>1, <1>2, <1>6, PushStep, NoPids DEF UpClone
<1>7. CASE UpMigrate(c)
  BY <1>1, <1>2, <1>7, PushStep, NoPids DEF UpMigrate
<1>8. CASE UpCtrs(c)
  BY <1>1, <1>2, <1>8, PushStep, NoPids DEF UpCtrs
<1>9. CASE UpProcs(c)
  <2>1. PICK pids \in PidSets, next \in {"up_settle", "rollback"} :
           got' = [got EXCEPT ![c].pids = pids] /\ Goto(c, next)
    BY <1>9, UpSpawns DEF Spawns
  <2> QED
    BY <1>1, <1>2, <1>9, <2>1, PushStep DEF UpProcs
<1>10. CASE UpSettle(c)
  BY <1>10, PlainStep DEF UpSettle
<1>11. CASE UpRecord(c)
  BY <1>1, <1>2, <1>11, PushStep, NoPids DEF UpRecord
<1> QED
  BY <1>3, <1>4, <1>5, <1>6, <1>7, <1>8, <1>9, <1>10, <1>11

LEMMA DownQuietKeeps ==
    ASSUME IInv, NEW c \in Clients,
           \/ DnProcs(c) \/ DnCtrs(c) \/ DnDbs(c) \/ DnNetwork(c)
           \/ DnWorktree(c) \/ DnMailbox(c) \/ SuProcs(c) \/ SuCtrs(c)
    PROVE  IInv'
<1> USE DEF Holding, Phases, SameStretch, WorkPhases, CheckPhases
<1>1. CASE DnProcs(c)
  BY <1>1, PlainStep DEF DnProcs, TerminateRecorded
<1>2. CASE DnCtrs(c)
  BY <1>2, PlainStep DEF DnCtrs
<1>3. CASE DnDbs(c)
  BY <1>3, PlainStep DEF DnDbs, DnMade
<1>4. CASE DnNetwork(c)
  BY <1>4, PlainStep DEF DnNetwork, DnMade
<1>5. CASE DnWorktree(c)
  BY <1>5, PlainStep DEF DnWorktree, DnMade
<1>6. CASE DnMailbox(c)
  BY <1>6, PlainStep DEF DnMailbox, DnMade
<1>7. CASE SuProcs(c)
  BY <1>7, PlainStep DEF SuProcs, TerminateRecorded
<1>8. CASE SuCtrs(c)
  BY <1>8, PlainStep DEF SuCtrs
<1> QED
  BY <1>1, <1>2, <1>3, <1>4, <1>5, <1>6, <1>7, <1>8

LEMMA ResumeQuietKeeps ==
    ASSUME IInv, NEW c \in Clients,
           ReCtrs(c) \/ ReEnv(c) \/ ReProcs(c) \/ ReSettle(c)
    PROVE  IInv'
<1>1. pc[c] \in WorkPhases => job[c].op # "up"
  BY DEF IInv, Known, Control
<1>2. job[c].op # "up" =>
         "stopctrs" \in TagsOf(job[c].op, got[c].ports) /\ "procs" \in TagsOf(job[c].op, got[c].ports)
  BY DEF TagsOf
<1> USE DEF Holding, Phases, SameStretch, WorkPhases, CheckPhases
<1>3. CASE ReCtrs(c)
  <2>1. CASE ~job[c].docker
    BY <1>3, <2>1, PlainStep, SMTT(30) DEF ReCtrs
  <2>2. CASE job[c].docker
    <3> DEFINE there == CtrsIn(Rec(c), Name(c))
    <3>1. PICK ok \in SUBSET there :
             /\ got' = [got EXCEPT ![c].ctrs = {x.svc : x \in {y \in ok : ~y.up}}]
             /\ Push(c, "stopctrs")
             /\ Goto(c, "re_env") \/ Goto(c, "rollback")
      BY <1>3, <2>2 DEF ReCtrs
    <3>2. {x.svc : x \in {y \in ok : ~y.up}} \in SUBSET Svcs
      <4>1. Registered(mem[c], Name(c)) /\ Name(c) \in Names /\ mem[c] \in RegistryValue
        BY <1>3 DEF IInv, CoreType, Known, Control, OwnCopy, Job, Name, ReCtrs
      <4>2. Rec(c).ctrs \subseteq Svcs
        BY <4>1 DEF Rec, Registered, RegistryValue, InstanceRecord
      <4> QED
        BY <4>2 DEF CtrsIn
    <3>3. pc[c] = "re_ctrs" /\ UNCHANGED <<registryVars, job, mem>>
      BY <1>3 DEF ReCtrs
    <3> QED
      BY <3>1, <3>2, <3>3, <1>1, <1>2, PushStep, NoPids
  <2> QED
    BY <2>1, <2>2
<1>4. CASE ReEnv(c)
  BY <1>1, <1>2, <1>4, PushStep, NoPids DEF ReEnv
<1>5. CASE ReProcs(c)
  <2>1. PICK pids \in PidSets, next \in {"re_settle", "rollback"} :
           got' = [got EXCEPT ![c].pids = pids] /\ Goto(c, next)
    BY <1>5, ReSpawns DEF Spawns
  <2> QED
    BY <1>1, <1>2, <1>5, <2>1, PushStep DEF ReProcs
<1>6. CASE ReSettle(c)
  BY <1>6, PlainStep DEF ReSettle
<1> QED
  BY <1>3, <1>4, <1>5, <1>6

LEMMA UndoQuietKeeps ==
    ASSUME IInv, NEW c \in Clients,
           \/ UndoWorktree(c) \/ UndoMailbox(c) \/ UndoNetwork(c) \/ UndoDbs(c)
           \/ UndoRecord(c) \/ UndoCtrs(c) \/ UndoStopCtrs(c) \/ UndoProcs(c)
           \/ RolledBack(c)
    PROVE  IInv'
<1>1. ASSUME NEW tag, NEW kinds, UndoMade(c, tag, kinds) PROVE IInv'
  BY <1>1, PopStep DEF UndoMade
<1>2. CASE UndoCtrs(c)
  BY <1>2, PopStep DEF UndoCtrs
<1>3. CASE UndoStopCtrs(c)
  BY <1>3, PopStep DEF UndoStopCtrs
<1>4. CASE UndoProcs(c)
  BY <1>4, PopStep DEF UndoProcs
<1>5. CASE RolledBack(c)
  BY <1>5, PlainStep DEF RolledBack, Holding, Phases, SameStretch
<1> QED
  BY <1>1, <1>2, <1>3, <1>4, <1>5
  DEF UndoWorktree, UndoMailbox, UndoNetwork, UndoDbs, UndoRecord

-----------------------------------------------------------------------------

(***************************************************************************)
(* The steps that read or write the copy                                   *)
(***************************************************************************)

\* The check of a command passed: it goes on to its work.
LEMMA PassStep ==
    ASSUME IInv, NEW c \in Clients, pc[c] \in CheckPhases,
           UNCHANGED <<registryVars, job, mem, undo, got>>,
           NEW next \in FreshPhases \cup WorkPhases, Goto(c, next),
           next \in FreshPhases => job[c].op = "up" /\ ~Registered(mem[c], Name(c)),
           next \in WorkPhases => job[c].op # "up" /\ Registered(mem[c], Name(c))
    PROVE  IInv'
<1>1. CoreType /\ Known(c) /\ PortTablesAgree
  BY DEF IInv
<1>2. pc' = [pc EXCEPT ![c] = next] /\ next \in Phases
  BY DEF Goto, Phases, FreshPhases, WorkPhases
<1>3. CoreType'
  BY <1>1, <1>2 DEF CoreType, registryVars
<1>4. pc'[c] = next /\ Holding(c)
  BY <1>1, <1>2 DEF CoreType, Holding, CheckPhases
<1>5. Frame(c)
  BY <1>1, <1>2 DEF CoreType, Frame
<1>6. Control(c)'
  BY <1>1, <1>4 DEF Known, Control, Holding, CheckPhases, UpPhases, FreshPhases,
      AllocPhases, SavedPhases, WorkPhases, registryVars
<1>7. OwnCopy(c)'
  <2>1. TablesAgree(mem[c], Name(c)) /\ got[c].ports = NoPorts
    BY <1>1 DEF Known, OwnCopy, Control
  <2>2. TablesAgree(mem[c], Name(c))'
    BY <2>1 DEF TablesAgree, Registered, Name
  <2>3. Registered(mem[c], Name(c))' <=> Registered(mem[c], Name(c))
    BY DEF Registered, Name
  <2> QED
    BY <1>4, <2>1, <2>2, <2>3, NoPortsMap DEF OwnCopy, CheckPhases, UpPhases, FreshPhases,
        AllocPhases, SavedPhases, WorkPhases
<1>8. OtherCopies(c)'
  BY <1>1, <1>4 DEF Known, OtherCopies, Name, registryVars
<1>9. PortTablesAgree' /\ lock' = c
  BY <1>1, <1>4 DEF PortTablesAgree, TablesAgree, Registered, registryVars, Known, Control
<1> QED
  BY <1>3, <1>4, <1>5, <1>6, <1>7, <1>8, <1>9, HolderStep DEF Known

LEMMA ChecksKeep ==
    ASSUME IInv, NEW c \in Clients,
           UpCheck(c) \/ DnCheck(c) \/ SuCheck(c) \/ ReCheck(c)
    PROVE  IInv'
<1>1. pc[c] \in CheckPhases
  BY DEF UpCheck, DnCheck, SuCheck, ReCheck, CheckPhases
<1>2. Holding(c) /\ pc[c] # "close" /\ SameStretch(pc[c], "close") /\ "close" \in Phases
  BY <1>1 DEF CheckPhases, Holding, SameStretch, Phases
<1>3. job[c] \in Job /\ pc[c] = FirstPhase[job[c].op]
  BY <1>1 DEF IInv, Known, Control, CheckPhases
<1>4. pc[c] = "up_check" <=> job[c].op = "up"
  BY <1>3 DEF FirstPhase, Job, Ops
<1>5. CASE UpCheck(c)
  <2>1. CASE Goto(c, "close")
    BY <1>2, <1>5, <2>1, PlainStep DEF UpCheck
  <2>2. CASE Goto(c, "up_worktree") /\ ~Registered(mem[c], Name(c))
    BY <1>1, <1>4, <1>5, <2>2, PassStep DEF UpCheck, FreshPhases, WorkPhases
  <2> QED
    BY <1>5, <2>1, <2>2 DEF UpCheck
<1>6. CASE DnCheck(c)
  <2>1. CASE Goto(c, "close")
    BY <1>2, <1>6, <2>1, PlainStep DEF DnCheck
  <2>2. CASE Goto(c, "dn_procs") /\ Registered(mem[c], Name(c))
    BY <1>1, <1>4, <1>6, <2>2, PassStep DEF DnCheck, FreshPhases, WorkPhases
  <2> QED
    BY <1>6, <2>1, <2>2 DEF DnCheck
<1>7. CASE SuCheck(c)
  <2>1. CASE Goto(c, "close")
    BY <1>2, <1>7, <2>1, PlainStep DEF SuCheck
  <2>2. CASE Goto(c, "su_procs") /\ Registered(mem[c], Name(c))
    BY <1>1, <1>4, <1>7, <2>2, PassStep DEF SuCheck, FreshPhases, WorkPhases
  <2> QED
    BY <1>7, <2>1, <2>2 DEF SuCheck
<1>8. CASE ReCheck(c)
  <2>1. CASE Goto(c, "close")
    BY <1>2, <1>8, <2>1, PlainStep DEF ReCheck
  <2>2. CASE Goto(c, "re_ctrs") /\ Registered(mem[c], Name(c))
    BY <1>1, <1>4, <1>8, <2>2, PassStep DEF ReCheck, FreshPhases, WorkPhases
  <2> QED
    BY <1>8, <2>1, <2>2 DEF ReCheck
<1> QED
  BY <1>5, <1>6, <1>7, <1>8

\* A step of the holder that changes its own part of the copy and perhaps
\* saves it.
LEMMA CopyStep ==
    ASSUME IInv, NEW c \in Clients, Holding(c), pc[c] # "close",
           UNCHANGED <<lock, job>>,
           NEW m \in RegistryValue, mem' = [mem EXCEPT ![c] = m],
           \A n \in Names \ {Name(c)} : SameEntry(m, mem[c], n),
           UNCHANGED disk \/ (disk' = m /\ TablesAgree(m, Name(c))),
           CoreType', Frame(c), Control(c)', OwnCopy(c)'
    PROVE  IInv'
<1>1. CoreType /\ Known(c) /\ PortTablesAgree
  BY DEF IInv
<1>2. mem'[c] = m /\ Name(c)' = Name(c)
  BY <1>1 DEF CoreType, Name
<1>3. \A n \in Names \ {Name(c)} : SameEntry(m, disk, n)
  BY <1>1 DEF Known, OtherCopies, SameEntry
<1>4. OtherCopies(c)'
  <2>1. CASE UNCHANGED disk
    BY <1>2, <1>3, <2>1 DEF OtherCopies, SameEntry
  <2>2. CASE disk' = m
    BY <1>2, <2>2 DEF OtherCopies
  <2> QED
    BY <2>1, <2>2
<1>5. Name(c) \in Names
  BY <1>1 DEF Known, Control, Holding, Job, Name
<1>6. \A n \in Names : TablesAgree(disk, n)'
  <2>1. CASE UNCHANGED disk
    BY <1>1, <2>1 DEF PortTablesAgree, TablesAgree, Registered
  <2>2. CASE disk' = m /\ TablesAgree(m, Name(c))
    <3>1. \A n \in Names : TablesAgree(m, n)
      BY <1>1, <1>3, <1>5, <2>2, SaveKeepsTables DEF PortTablesAgree
    <3> QED
      BY <3>1, <2>2 DEF TablesAgree, Registered
  <2> QED
    BY <2>1, <2>2
<1>7. PortTablesAgree' /\ lock' = c
  BY <1>1, <1>6 DEF PortTablesAgree, Known, Control
<1> QED
  BY <1>4, <1>7, HolderStep DEF Known

LEMMA UpPortsKeeps ==
    ASSUME IInv, NEW c \in Clients, UpPorts(c) PROVE IInv'
<1>1. CoreType /\ Known(c) /\ job[c].op = "up" /\ Holding(c) /\ Name(c) \in Names
  BY DEF IInv, Known, Control, UpPorts, Holding, UpPhases, FreshPhases, Job, Name
<1>2. CASE Goto(c, "rollback") /\ UNCHANGED <<mem, got, undo>>
  BY <1>2, PlainStep DEF UpPorts, Holding, Phases, SameStretch, CheckPhases
<1>3. CASE Goto(c, "up_env")
  <2>0. PICK silent : \E ports \in [Owners -> FreePorts(mem[c]) \ BoundPorts(silent)] :
           /\ \A o1, o2 \in Owners : o1 # o2 => ports[o1] # ports[o2]
           /\ mem' = [mem EXCEPT ![c] = AllocPorts(mem[c], Name(c), PortsOf(ports))]
           /\ got' = [got EXCEPT ![c].ports = ports]
           /\ Push(c, "ports")
    <3>1. pc' = [pc EXCEPT ![c] = "up_env"]
      BY <1>3 DEF Goto
    <3>2. ~Goto(c, "rollback")
      BY <3>1, <1>1 DEF Goto, CoreType
    <3> QED
      BY <3>2, Zenon DEF UpPorts
  <2>1. PICK ports \in [Owners -> FreePorts(mem[c]) \ BoundPorts(silent)] :
           /\ \A o1, o2 \in Owners : o1 # o2 => ports[o1] # ports[o2]
           /\ mem' = [mem EXCEPT ![c] = AllocPorts(mem[c], Name(c), PortsOf(ports))]
           /\ got' = [got EXCEPT ![c].ports = ports]
           /\ Push(c, "ports")
    BY <2>0, Zenon
  <2>2. ports \in PortMap /\ Injective(ports) /\ PortsOf(ports) \subseteq FreePorts(mem[c])
    BY <2>1 DEF PortMap, Injective, PortsOf, FreePorts
  <2> DEFINE m == AllocPorts(mem[c], Name(c), PortsOf(ports))
  <2>3. mem[c] \in RegistryValue
    BY <1>1 DEF CoreType
  <2>4. /\ m \in RegistryValue
        /\ m.inst = mem[c].inst
        /\ \A p \in Ports : m.alloc[p] = Name(c) <=> p \in PortsOf(ports) \/ mem[c].alloc[p] = Name(c)
        /\ \A n \in Names \ {Name(c)} : SameEntry(m, mem[c], n)
    BY <1>1, <2>2, <2>3, AllocPortsType
  <2> HIDE DEF m
  <2>5. \A p \in Ports : mem[c].alloc[p] # Name(c)
    BY <1>1 DEF Known, OwnCopy, UpPorts, FreshPhases, TablesAgree
  <2>6. mem' = [mem EXCEPT ![c] = m]
    BY <2>1 DEF m
  <2>7. pc'[c] = "up_env" /\ mem'[c] = m /\ got'[c].ports = ports
    BY <1>1, <1>3, <2>1, <2>6 DEF CoreType, Goto
  <2>8. undo'[c] = Append(undo[c], "ports")
    BY <1>1, <2>1 DEF CoreType, Push
  <2>9. undo'[c] \in Seq(TagsOf("up", ports)) /\ undo'[c] \in Seq(UndoTags)
    <3>1. undo[c] \in Seq(TagsOf("up", got[c].ports))
      BY <1>1 DEF Known, Control
    <3>2. TagsOf("up", got[c].ports) \subseteq TagsOf("up", ports)
      BY <2>2 DEF TagsOf
    <3>3. undo[c] \in Seq(TagsOf("up", ports)) /\ "ports" \in TagsOf("up", ports)
      BY <3>1, <3>2, <2>2 DEF TagsOf, UndoTags
    <3>4. undo'[c] \in Seq(TagsOf("up", ports))
      BY <3>3, <2>8
    <3> QED
      BY <3>4, <2>2 DEF TagsOf
  <2>10. UNCHANGED <<lock, disk, job>>
    BY DEF UpPorts, registryVars
  <2>11. CoreType'
    <3>1. got' \in [Clients -> [ports : PortMap \cup {NoPorts},
                            ctrs : SUBSET Svcs, pids : PidSets]]
      BY <1>1, <2>1, <2>2, ZenonT(60) DEF CoreType
    <3>2. pc' \in [Clients -> Phases]
      BY <1>1, <1>3 DEF CoreType, Goto, Phases
    <3>3. mem' \in [Clients -> RegistryValue]
      BY <1>1, <2>4, <2>6 DEF CoreType
    <3>4. undo' \in [Clients -> Seq(UndoTags)]
      BY <1>1, <2>1, <2>8, <2>9 DEF CoreType, Push
    <3> QED
      BY <1>1, <2>10, <3>1, <3>2, <3>3, <3>4 DEF CoreType
  <2>12. Frame(c)
    BY <1>1, <1>3, <2>1, <2>6, <2>10 DEF CoreType, Frame, Goto, Push
  <2>13. Control(c)'
    BY <1>1, <2>7, <2>9, <2>10 DEF Known, Control, Holding, CheckPhases, UpPhases,
        FreshPhases, AllocPhases, SavedPhases, WorkPhases
  <2>14. OwnCopy(c)'
    <3>1. \A p \in Ports : m.alloc[p] = Name(c) <=> p \in PortsOf(ports)
      BY <2>4, <2>5
    <3>2. \A o \in Owners : m.alloc[ports[o]] = Name(c)
      BY <3>1, <2>2 DEF PortMap, PortsOf
    <3>3. Name(c)' = Name(c)
      BY <2>10 DEF Name
    <3> QED
      BY <3>1, <3>2, <3>3, <2>2, <2>7 DEF OwnCopy, Allocated, CheckPhases, UpPhases,
          FreshPhases, AllocPhases, SavedPhases, WorkPhases
  <2>15. pc[c] # "close"
    BY DEF UpPorts
  <2> QED
    BY <1>1, <2>4, <2>6, <2>10, <2>11, <2>12, <2>13, <2>14, <2>15, CopyStep
<1> QED
  BY <1>2, <1>3 DEF UpPorts

\* Such a step when nothing is gained and the ports stay as they are.
LEMMA SaveStep ==
    ASSUME IInv, NEW c \in Clients, Holding(c), pc[c] # "close",
           UNCHANGED <<lock, job, got>>,
           NEW m \in RegistryValue, mem' = [mem EXCEPT ![c] = m],
           \A n \in Names \ {Name(c)} : SameEntry(m, mem[c], n),
           UNCHANGED disk \/ (disk' = m /\ TablesAgree(m, Name(c))),
           NEW next \in {"close", "rollback"} \cup SavedPhases \cup WorkPhases,
           pc' = [pc EXCEPT ![c] = next],
           NEW u \in Seq(TagsOf(job[c].op, got[c].ports)),
           undo' = [undo EXCEPT ![c] = u],
           next \in SavedPhases => job[c].op = "up" /\ TablesAgree(m, Name(c)),
           next \in WorkPhases => job[c].op # "up",
           job[c].op # "up" /\ next # "close" =>
              Registered(m, Name(c)) /\ TablesAgree(m, Name(c)),
           job[c].op = "up" /\ got[c].ports \in PortMap =>
              \A o \in Owners : m.alloc[got[c].ports[o]] \in {Name(c), NoName}
    PROVE  IInv'
<1>1. CoreType /\ Known(c)
  BY DEF IInv
<1>2. pc'[c] = next /\ undo'[c] = u /\ mem'[c] = m /\ got'[c] = got[c] /\ Name(c)' = Name(c)
  BY <1>1 DEF CoreType, Name
<1>3. u \in Seq(UndoTags)
  BY DEF TagsOf, UndoTags
<1>4. next \in Phases
  BY DEF Phases, SavedPhases, WorkPhases
<1>5. CoreType'
  <2>1. UNCHANGED disk \/ disk' = m
    OBVIOUS
  <2> QED
    BY <1>1, <1>3, <1>4, <2>1 DEF CoreType
<1>6. Frame(c)
  BY <1>1 DEF CoreType, Frame
<1>7. Control(c)'
  <2>1. job'[c] = job[c] /\ lock' = lock
    OBVIOUS
  <2> QED
    BY <1>1, <1>2, <2>1 DEF Known, Control, Holding, CheckPhases, UpPhases, FreshPhases,
        AllocPhases, SavedPhases, WorkPhases
<1>8. OwnCopy(c)'
  <2>1. job'[c] = job[c]
    OBVIOUS
  <2>2. TablesAgree(m, Name(c)) => TablesAgree(mem[c], Name(c))'
    BY <1>2 DEF TablesAgree, Registered
  <2>3. Registered(m, Name(c)) => Registered(mem[c], Name(c))'
    BY <1>2 DEF Registered
  <2> QED
    BY <1>2, <2>1, <2>2, <2>3 DEF OwnCopy, CheckPhases, UpPhases, FreshPhases,
        AllocPhases, SavedPhases, WorkPhases
<1> HIDE DEF SameEntry
<1> QED
  BY <1>5, <1>6, <1>7, <1>8, CopyStep

LEMMA UpSaveKeeps ==
    ASSUME IInv, NEW c \in Clients, UpSave(c) PROVE IInv'
<1>1. /\ CoreType /\ Known(c) /\ job[c].op = "up" /\ Holding(c) /\ pc[c] # "close"
      /\ Name(c) \in Names /\ mem[c] \in RegistryValue
  BY DEF IInv, Known, Control, UpSave, Holding, UpPhases, AllocPhases, Job, Name, CoreType
<1>2. /\ got[c].ports \in PortMap /\ Injective(got[c].ports)
      /\ Allocated(mem[c], Name(c), got[c].ports)
  BY <1>1 DEF Known, OwnCopy, UpSave, AllocPhases
<1>3. NewRecord(c) \in InstanceRecord /\ NewRecord(c).ports = got[c].ports
  BY <1>1, <1>2 DEF NewRecord, InstanceRecord, CoreType, PortMap
<1> DEFINE m == PutInstance(mem[c], Name(c), NewRecord(c))
<1>4. /\ m \in RegistryValue
      /\ m.inst[Name(c)] = NewRecord(c) /\ m.alloc = mem[c].alloc
      /\ Registered(m, Name(c))
      /\ \A n \in Names \ {Name(c)} : SameEntry(m, mem[c], n)
  BY <1>1, <1>3, PutInstanceType
<1>5. mem' = [mem EXCEPT ![c] = m]
  BY DEF UpSave
<1> HIDE DEF m
<1>6. TablesAgree(m, Name(c))
  BY <1>2, <1>3, <1>4 DEF TablesAgree, Allocated, Injective
<1>7. \A o \in Owners : m.alloc[got[c].ports[o]] = Name(c)
  BY <1>2, <1>4 DEF Allocated, PortsOf, PortMap
<1>8. undo[c] \in Seq(TagsOf(job[c].op, got[c].ports))
  BY <1>1 DEF Known, Control
<1>9. mem'[c] = m
  BY <1>1, <1>5 DEF CoreType
<1>10. UNCHANGED <<lock, job, got>>
  BY DEF UpSave
<1>11. CASE Saves(c, mem'[c]) /\ Push(c, "registry") /\ Goto(c, "up_record")
  <2>1. "registry" \in TagsOf(job[c].op, got[c].ports)
    BY <1>1 DEF TagsOf, UndoTags
  <2>2. Append(undo[c], "registry") \in Seq(TagsOf(job[c].op, got[c].ports))
    BY <1>8, <2>1
  <2>3. "up_record" \in SavedPhases /\ "up_record" \notin WorkPhases
    BY DEF SavedPhases, WorkPhases
  <2>4. /\ disk' = m
        /\ undo' = [undo EXCEPT ![c] = Append(undo[c], "registry")]
        /\ pc' = [pc EXCEPT ![c] = "up_record"]
    BY <1>9, <1>11 DEF Saves, Push, Goto
  <2> QED
    BY <1>1, <1>4, <1>5, <1>6, <1>7, <1>10, <2>2, <2>3, <2>4, SaveStep
<1>12. CASE SaveFails /\ Goto(c, "rollback") /\ UNCHANGED undo
  <2>1. undo' = [undo EXCEPT ![c] = undo[c]]
    BY <1>1, <1>12 DEF CoreType
  <2>2. "rollback" \notin SavedPhases \cup WorkPhases
    BY DEF SavedPhases, WorkPhases
  <2>3. UNCHANGED disk /\ pc' = [pc EXCEPT ![c] = "rollback"]
    BY <1>12 DEF SaveFails, Goto
  <2> QED
    BY <1>1, <1>4, <1>5, <1>6, <1>7, <1>8, <1>10, <2>1, <2>2, <2>3, SaveStep
<1> QED
  BY <1>11, <1>12 DEF UpSave

LEMMA UpVerifyKeeps ==
    ASSUME IInv, NEW c \in Clients, UpVerify(c) PROVE IInv'
<1>1. /\ CoreType /\ Known(c) /\ job[c].op = "up" /\ Holding(c) /\ pc[c] # "close"
      /\ Name(c) \in Names /\ mem[c] \in RegistryValue
  BY DEF IInv, Known, Control, UpVerify, Holding, UpPhases, SavedPhases, Job, Name, CoreType
<1>2. CASE SaveFails /\ Goto(c, "rollback")
  BY <1>1, <1>2, PlainStep
  DEF UpVerify, SaveFails, registryVars, Phases, SameStretch, CheckPhases
<1>3. CASE Saves(c, mem[c]) /\ Goto(c, "close")
  <2>1. TablesAgree(mem[c], Name(c))
    BY <1>1 DEF Known, OwnCopy, UpVerify, SavedPhases
  <2>2. \A n \in Names \ {Name(c)} : SameEntry(mem[c], mem[c], n)
    BY DEF SameEntry
  <2>3. mem' = [mem EXCEPT ![c] = mem[c]] /\ undo' = [undo EXCEPT ![c] = undo[c]]
    BY <1>1 DEF UpVerify, CoreType
  <2>4. undo[c] \in Seq(TagsOf(job[c].op, got[c].ports))
    BY <1>1 DEF Known, Control
  <2>5. got[c].ports \in PortMap =>
           \A o \in Owners : mem[c].alloc[got[c].ports[o]] \in {Name(c), NoName}
    BY <1>1 DEF Known, OwnCopy, UpVerify, UpPhases, SavedPhases
  <2>6. UNCHANGED <<lock, job, got>>
    BY DEF UpVerify
  <2>7. disk' = mem[c] /\ pc' = [pc EXCEPT ![c] = "close"]
    BY <1>3 DEF Saves, Goto
  <2>8. "close" \notin SavedPhases \cup WorkPhases
    BY DEF SavedPhases, WorkPhases
  <2> QED
    BY <1>1, <2>1, <2>2, <2>3, <2>4, <2>5, <2>6, <2>7, <2>8, SaveStep
<1> QED
  BY <1>2, <1>3 DEF UpVerify

\* The facts the steps of down, suspend and resume share.
LEMMA WorkFacts ==
    ASSUME IInv, NEW c \in Clients,
           pc[c] \in WorkPhases \/ (pc[c] = "rollback" /\ job[c].op # "up")
    PROVE  /\ CoreType /\ Holding(c) /\ pc[c] # "close" /\ job[c].op # "up"
           /\ Name(c) \in Names /\ mem[c] \in RegistryValue
           /\ Registered(mem[c], Name(c)) /\ TablesAgree(mem[c], Name(c))
           /\ Rec(c) \in InstanceRecord
           /\ undo[c] \in Seq(TagsOf(job[c].op, got[c].ports))
           /\ undo' = undo => undo' = [undo EXCEPT ![c] = undo[c]]
<1>1. CoreType /\ Known(c) /\ Holding(c) /\ pc[c] # "close"
  BY DEF IInv, Holding, WorkPhases
<1>2. Name(c) \in Names /\ mem[c] \in RegistryValue /\ job[c].op # "up"
  BY <1>1 DEF Known, Control, Holding, Job, Name, CoreType
<1>3. Registered(mem[c], Name(c)) /\ TablesAgree(mem[c], Name(c))
  BY <1>1 DEF Known, OwnCopy
<1>4. Rec(c) \in InstanceRecord
  BY <1>2, <1>3 DEF Rec, Registered, RegistryValue
<1> QED
  BY <1>1, <1>2, <1>3, <1>4 DEF Known, Control, CoreType

\* Rewriting the entry with the same ports keeps the tables in agreement.
LEMMA RewriteKeepsTables ==
    ASSUME NEW r \in RegistryValue, NEW n \in Names, NEW rec \in InstanceRecord,
           Registered(r, n), TablesAgree(r, n), rec.ports = r.inst[n].ports
    PROVE  TablesAgree(PutInstance(r, n, rec), n)
BY PutInstanceType DEF TablesAgree

\* A step of suspend or resume that rewrites the entry of its instance.
LEMMA RewriteStep ==
    ASSUME IInv, NEW c \in Clients,
           pc[c] \in WorkPhases \/ (pc[c] = "rollback" /\ job[c].op # "up"),
           NEW rec \in InstanceRecord, rec.ports = Rec(c).ports,
           mem' = [mem EXCEPT ![c] = PutInstance(mem[c], Name(c), rec)],
           disk' = mem'[c] \/ UNCHANGED disk,
           UNCHANGED <<lock, job, got>>,
           NEW next \in {"close", "rollback"} \cup WorkPhases,
           pc' = [pc EXCEPT ![c] = next],
           NEW u \in Seq(TagsOf(job[c].op, got[c].ports)),
           undo' = [undo EXCEPT ![c] = u]
    PROVE  IInv'
<1> DEFINE m == PutInstance(mem[c], Name(c), rec)
<1>1. CoreType /\ Holding(c) /\ pc[c] # "close" /\ job[c].op # "up"
      /\ Name(c) \in Names /\ mem[c] \in RegistryValue
      /\ Registered(mem[c], Name(c)) /\ TablesAgree(mem[c], Name(c))
  BY WorkFacts
<1>2. /\ m \in RegistryValue
      /\ Registered(m, Name(c))
      /\ \A n \in Names \ {Name(c)} : SameEntry(m, mem[c], n)
  BY <1>1, PutInstanceType
<1>3. TablesAgree(m, Name(c))
  BY <1>1, RewriteKeepsTables DEF Rec
<1>4. mem' = [mem EXCEPT ![c] = m] /\ mem'[c] = m
  BY <1>1 DEF CoreType
<1>5. next \notin SavedPhases
  BY DEF SavedPhases, WorkPhases
<1> HIDE DEF m
<1> QED
  BY <1>1, <1>2, <1>3, <1>4, <1>5, SaveStep

LEMMA SuSaveKeeps ==
    ASSUME IInv, NEW c \in Clients, SuSave(c) PROVE IInv'
<1>1. pc[c] \in WorkPhases
  BY DEF SuSave, WorkPhases
<1> DEFINE rec == [Rec(c) EXCEPT !.state = "suspended", !.pids = {}]
<1>2. rec \in InstanceRecord /\ rec.ports = Rec(c).ports
  BY <1>1, WorkFacts, NoPids DEF InstanceRecord
<1>3. mem' = [mem EXCEPT ![c] = PutInstance(mem[c], Name(c), rec)]
  BY DEF SuSave
<1> HIDE DEF rec
<1>4. disk' = mem'[c] \/ UNCHANGED disk
  BY DEF SuSave, Saves, SaveFails
<1>5. UNCHANGED <<lock, job, got, undo>> /\ pc' = [pc EXCEPT ![c] = "close"]
  BY DEF SuSave, Goto
<1>6. undo[c] \in Seq(TagsOf(job[c].op, got[c].ports)) /\ undo' = [undo EXCEPT ![c] = undo[c]]
  BY <1>1, <1>5, WorkFacts
<1> QED
  BY <1>1, <1>2, <1>3, <1>4, <1>5, <1>6, RewriteStep

LEMMA ReSaveKeeps ==
    ASSUME IInv, NEW c \in Clients, ReSave(c) PROVE IInv'
<1>1. pc[c] \in WorkPhases
  BY DEF ReSave, WorkPhases
<1> DEFINE rec == [Rec(c) EXCEPT !.state = "running", !.pids = got[c].pids]
<1>2. rec \in InstanceRecord /\ rec.ports = Rec(c).ports
  BY <1>1, WorkFacts DEF InstanceRecord, CoreType
<1>3. mem' = [mem EXCEPT ![c] = PutInstance(mem[c], Name(c), rec)]
  BY DEF ReSave
<1> HIDE DEF rec
<1>4. UNCHANGED <<lock, job, got>>
  BY DEF ReSave
<1>5. undo[c] \in Seq(TagsOf(job[c].op, got[c].ports))
  BY <1>1, WorkFacts
<1>6. CASE Saves(c, mem'[c]) /\ Push(c, "suspend") /\ Goto(c, "re_verify")
  <2>1. "suspend" \in TagsOf(job[c].op, got[c].ports)
    BY <1>1, WorkFacts DEF TagsOf
  <2>2. Append(undo[c], "suspend") \in Seq(TagsOf(job[c].op, got[c].ports))
    BY <1>5, <2>1
  <2>3. "re_verify" \in WorkPhases
    BY DEF WorkPhases
  <2>4. /\ disk' = mem'[c]
        /\ undo' = [undo EXCEPT ![c] = Append(undo[c], "suspend")]
        /\ pc' = [pc EXCEPT ![c] = "re_verify"]
    BY <1>6 DEF Saves, Push, Goto
  <2> QED
    BY <1>1, <1>2, <1>3, <1>4, <2>2, <2>3, <2>4, RewriteStep
<1>7. CASE SaveFails /\ Goto(c, "rollback") /\ UNCHANGED undo
  <2>1. UNCHANGED disk /\ pc' = [pc EXCEPT ![c] = "rollback"]
    BY <1>7 DEF SaveFails, Goto
  <2>2. undo' = [undo EXCEPT ![c] = undo[c]]
    BY <1>1, <1>7, WorkFacts
  <2> QED
    BY <1>1, <1>2, <1>3, <1>4, <1>5, <2>1, <2>2, RewriteStep
<1> QED
  BY <1>6, <1>7 DEF ReSave

LEMMA ReVerifyKeeps ==
    ASSUME IInv, NEW c \in Clients, ReVerify(c) PROVE IInv'
<1>1. pc[c] \in WorkPhases
  BY DEF ReVerify, WorkPhases
<1>2. UNCHANGED <<lock, job, mem, undo, got>>
  BY DEF ReVerify
<1>3. CASE SaveFails /\ Goto(c, "rollback")
  <2>1. SameStretch(pc[c], "rollback") /\ "rollback" \in Phases
    BY <1>1 DEF SameStretch, Phases, WorkPhases, CheckPhases
  <2> QED
    BY <1>1, <1>2, <1>3, <2>1, WorkFacts, PlainStep DEF SaveFails, registryVars
<1>4. CASE Saves(c, mem[c]) /\ Goto(c, "close")
  <2>1. \A n \in Names \ {Name(c)} : SameEntry(mem[c], mem[c], n)
    BY DEF SameEntry
  <2>2. mem' = [mem EXCEPT ![c] = mem[c]] /\ undo' = [undo EXCEPT ![c] = undo[c]]
    BY <1>1, <1>2, WorkFacts DEF CoreType
  <2>3. disk' = mem[c] /\ pc' = [pc EXCEPT ![c] = "close"]
    BY <1>4 DEF Saves, Goto
  <2>4. "close" \notin SavedPhases \cup WorkPhases
    BY DEF SavedPhases, WorkPhases
  <2>5. /\ Holding(c) /\ pc[c] # "close" /\ job[c].op # "up"
        /\ mem[c] \in RegistryValue /\ TablesAgree(mem[c], Name(c))
        /\ undo[c] \in Seq(TagsOf(job[c].op, got[c].ports))
    BY <1>1, WorkFacts
  <2> QED
    BY <1>2, <2>1, <2>2, <2>3, <2>4, <2>5, SaveStep
<1> QED
  BY <1>3, <1>4 DEF ReVerify

LEMMA DnSaveKeeps ==
    ASSUME IInv, NEW c \in Clients, DnSave(c) PROVE IInv'
<1>1. pc[c] \in WorkPhases
  BY DEF DnSave, WorkPhases
<1>2. /\ CoreType /\ Holding(c) /\ pc[c] # "close" /\ job[c].op # "up"
      /\ Name(c) \in Names /\ mem[c] \in RegistryValue
      /\ undo[c] \in Seq(TagsOf(job[c].op, got[c].ports))
  BY <1>1, WorkFacts
<1> DEFINE m == RemoveInstance(mem[c], Name(c))
<1>3. /\ m \in RegistryValue /\ TablesAgree(m, Name(c))
      /\ \A n \in Names \ {Name(c)} : SameEntry(m, mem[c], n)
  BY <1>2, RemoveInstanceType
<1>4. mem' = [mem EXCEPT ![c] = m] /\ mem'[c] = m
  BY <1>2 DEF DnSave, CoreType
<1> HIDE DEF m
<1>5. UNCHANGED disk \/ disk' = m
  BY <1>4 DEF DnSave, Saves, SaveFails
<1>6. UNCHANGED <<lock, job, got, undo>> /\ pc' = [pc EXCEPT ![c] = "close"]
  BY DEF DnSave, Goto
<1>7. undo' = [undo EXCEPT ![c] = undo[c]]
  BY <1>1, <1>6, WorkFacts
<1>8. "close" \notin SavedPhases \cup WorkPhases
  BY DEF SavedPhases, WorkPhases
<1> QED
  BY <1>2, <1>3, <1>4, <1>5, <1>6, <1>7, <1>8, SaveStep

\* Taking a cleanup off the stack.
LEMMA PopFacts ==
    ASSUME IInv, NEW c \in Clients, NEW tag, Undoing(c, tag)
    PROVE  /\ CoreType /\ Known(c) /\ pc[c] = "rollback" /\ Holding(c)
           /\ Name(c) \in Names /\ mem[c] \in RegistryValue /\ job[c] \in Job
           /\ tag \in TagsOf(job[c].op, got[c].ports)
           /\ pc' = [pc EXCEPT ![c] = "rollback"]
           /\ \E u \in Seq(TagsOf(job[c].op, got[c].ports)) : undo' = [undo EXCEPT ![c] = u]
<1>1. CoreType /\ Known(c) /\ pc[c] = "rollback" /\ Holding(c)
  BY DEF IInv, Undoing, Holding
<1>2. Name(c) \in Names /\ mem[c] \in RegistryValue /\ job[c] \in Job
  BY <1>1 DEF Known, Control, Job, Name, CoreType
<1> DEFINE Tags == TagsOf(job[c].op, got[c].ports)
<1>3. undo[c] \in Seq(Tags)
  BY <1>1 DEF Known, Control
<1>4. tag \in Tags /\ SubSeq(undo[c], 1, Len(undo[c]) - 1) \in Seq(Tags)
  BY <1>3 DEF Undoing
<1>5. pc' = [pc EXCEPT ![c] = "rollback"]
  BY <1>1 DEF Undoing, CoreType
<1> QED
  BY <1>1, <1>2, <1>4, <1>5 DEF Undoing

\* The ports go back in the copy; only those of up's own map, which are
\* still its own or, after UndoRegistry, already free.
LEMMA UndoPortsKeeps ==
    ASSUME IInv, NEW c \in Clients, UndoPorts(c) PROVE IInv'
<1>1. /\ CoreType /\ Known(c) /\ pc[c] = "rollback" /\ Holding(c)
      /\ Name(c) \in Names /\ mem[c] \in RegistryValue /\ job[c] \in Job
      /\ "ports" \in TagsOf(job[c].op, got[c].ports)
      /\ pc' = [pc EXCEPT ![c] = "rollback"]
  BY PopFacts DEF UndoPorts
<1>2. PICK u \in Seq(TagsOf(job[c].op, got[c].ports)) : undo' = [undo EXCEPT ![c] = u]
  BY PopFacts DEF UndoPorts
<1>3. job[c].op = "up" /\ got[c].ports \in PortMap
  BY <1>1 DEF TagsOf
<1>4. \A p \in PortsOf(got[c].ports) : mem[c].alloc[p] \in {Name(c), NoName}
  BY <1>1, <1>3 DEF Known, OwnCopy, PortsOf
<1> DEFINE m == ReleasePorts(mem[c], PortsOf(got[c].ports))
<1>5. PortsOf(got[c].ports) \in SUBSET Ports
  BY <1>3 DEF PortsOf, PortMap
<1>6. /\ m \in RegistryValue
      /\ \A p \in PortsOf(got[c].ports) : m.alloc[p] = NoName
      /\ \A n \in Names \ {Name(c)} : SameEntry(m, mem[c], n)
  BY <1>1, <1>4, <1>5, ReleasePortsType
<1>7. mem' = [mem EXCEPT ![c] = m]
  BY DEF UndoPorts
<1> HIDE DEF m
<1>8. \A o \in Owners : m.alloc[got[c].ports[o]] \in {Name(c), NoName}
  BY <1>6 DEF PortsOf
<1>9. UNCHANGED <<lock, disk, job, got>>
  BY DEF UndoPorts, registryVars
<1>10. "rollback" \notin SavedPhases \cup WorkPhases /\ pc[c] # "close"
  BY <1>1 DEF SavedPhases, WorkPhases
<1> QED
  BY <1>1, <1>2, <1>3, <1>6, <1>7, <1>8, <1>9, <1>10, SaveStep

LEMMA UndoRegistryKeeps ==
    ASSUME IInv, NEW c \in Clients, UndoRegistry(c) PROVE IInv'
<1>1. /\ CoreType /\ Known(c) /\ pc[c] = "rollback" /\ Holding(c)
      /\ Name(c) \in Names /\ mem[c] \in RegistryValue /\ job[c] \in Job
      /\ "registry" \in TagsOf(job[c].op, got[c].ports)
      /\ pc' = [pc EXCEPT ![c] = "rollback"]
  BY PopFacts DEF UndoRegistry
<1>2. PICK u \in Seq(TagsOf(job[c].op, got[c].ports)) : undo' = [undo EXCEPT ![c] = u]
  BY PopFacts DEF UndoRegistry
<1>3. job[c].op = "up"
  BY <1>1 DEF TagsOf
<1> DEFINE m == RemoveInstance(mem[c], Name(c))
<1>4. /\ m \in RegistryValue /\ TablesAgree(m, Name(c))
      /\ \A p \in Ports : mem[c].alloc[p] \in {Name(c), NoName} => m.alloc[p] = NoName
      /\ \A n \in Names \ {Name(c)} : SameEntry(m, mem[c], n)
  BY <1>1, RemoveInstanceType
<1>5. mem' = [mem EXCEPT ![c] = m] /\ mem'[c] = m
  BY <1>1 DEF UndoRegistry, CoreType
<1> HIDE DEF m
<1>6. got[c].ports \in PortMap =>
         \A o \in Owners : m.alloc[got[c].ports[o]] \in {Name(c), NoName}
  BY <1>1, <1>3, <1>4 DEF Known, OwnCopy, PortMap
<1>7. UNCHANGED disk \/ disk' = m
  BY <1>5 DEF UndoRegistry, Saves, SaveFails
<1>8. UNCHANGED <<lock, job, got>>
  BY DEF UndoRegistry
<1>9. "rollback" \notin SavedPhases \cup WorkPhases /\ pc[c] # "close"
  BY <1>1 DEF SavedPhases, WorkPhases
<1> QED
  BY <1>1, <1>2, <1>3, <1>4, <1>5, <1>6, <1>7, <1>8, <1>9, SaveStep

LEMMA UndoResumeKeeps ==
    ASSUME IInv, NEW c \in Clients, UndoResume(c) PROVE IInv'
<1>1. /\ pc[c] = "rollback" /\ "suspend" \in TagsOf(job[c].op, got[c].ports)
      /\ pc' = [pc EXCEPT ![c] = "rollback"]
  BY PopFacts DEF UndoResume
<1>2. PICK u \in Seq(TagsOf(job[c].op, got[c].ports)) : undo' = [undo EXCEPT ![c] = u]
  BY PopFacts DEF UndoResume
<1>3. job[c].op # "up"
  BY <1>1 DEF TagsOf
<1> DEFINE rec == [Rec(c) EXCEPT !.state = "suspended"]
<1>4. rec \in InstanceRecord /\ rec.ports = Rec(c).ports
  BY <1>1, <1>3, WorkFacts DEF InstanceRecord
<1>5. mem' = [mem EXCEPT ![c] = PutInstance(mem[c], Name(c), rec)]
  BY DEF UndoResume
<1> HIDE DEF rec
<1>6. disk' = mem'[c] \/ UNCHANGED disk
  BY DEF UndoResume, Saves, SaveFails
<1>7. UNCHANGED <<lock, job, got>>
  BY DEF UndoResume
<1> QED
  BY <1>1, <1>2, <1>3, <1>4, <1>5, <1>6, <1>7, RewriteStep

-----------------------------------------------------------------------------

(***************************************************************************)
(* Commands that come and go                                               *)
(***************************************************************************)

LEMMA StartKeeps ==
    ASSUME IInv, NEW c \in Clients, Start(c) PROVE IInv'
<1>1. CoreType /\ PortTablesAgree /\ \A d \in Clients : Known(d)
  BY DEF IInv
<1>2. PICK j \in Job : job' = [job EXCEPT ![c] = j]
  <2>1. \A op \in Ops, n \in Names, t \in BOOLEAN :
           [op |-> op, name |-> n, tracked |-> t, docker |-> TRUE, pg |-> TRUE] \in Job
    BY DEF Job
  <2> QED
    BY <2>1 DEF Start
<1>3. /\ pc[c] = "idle" /\ pc' = [pc EXCEPT ![c] = "open"]
      /\ UNCHANGED <<lock, disk, mem, undo, got>>
  BY DEF Start, Goto, registryVars
<1>4. CoreType'
  BY <1>1, <1>2, <1>3 DEF CoreType, Phases
<1>5. pc'[c] = "open" /\ job'[c] \in Job
  BY <1>1, <1>2, <1>3 DEF CoreType
<1>6. Known(c)'
  BY <1>1, <1>3, <1>5 DEF Known, Control, OwnCopy, OtherCopies, Holding, CheckPhases, UpPhases,
      FreshPhases, AllocPhases, SavedPhases, WorkPhases
<1>7. ASSUME NEW d \in Clients \ {c} PROVE Known(d)'
  <2>1. pc'[d] = pc[d] /\ job'[d] = job[d]
    BY <1>1, <1>2, <1>3 DEF CoreType
  <2>2. Known(d)
    BY <1>1
  <2>3. Control(d)' /\ OtherCopies(d)'
    BY <1>3, <2>1, <2>2, SMTT(30) DEF Known, Control, OtherCopies, Holding, Name
  <2>4. OwnCopy(d)'
    BY <1>3, <2>1, <2>2, SMTT(30) DEF Known, OwnCopy, Name, TablesAgree, Registered, Allocated
  <2> QED
    BY <2>3, <2>4 DEF Known
<1>8. PortTablesAgree'
  BY <1>1, <1>3 DEF PortTablesAgree, TablesAgree, Registered
<1> QED
  BY <1>4, <1>6, <1>7, <1>8 DEF IInv

LEMMA OpenKeeps ==
    ASSUME IInv, NEW c \in Clients, Open(c) PROVE IInv'
<1>1. CoreType /\ PortTablesAgree /\ \A d \in Clients : Known(d)
  BY DEF IInv
<1>2. /\ pc[c] = "open" /\ lock = NoClient /\ lock' = c
      /\ mem' = [mem EXCEPT ![c] = disk]
      /\ pc' = [pc EXCEPT ![c] = FirstPhase[job[c].op]]
      /\ UNCHANGED <<disk, undo, got>>
  BY DEF Open, Goto, LockFree
<1>3. job[c] \in Job
  BY <1>1, <1>2 DEF Known, Control
<1>4. /\ job' \in [Clients -> Job \cup {NoJob}]
      /\ job'[c] \in Job /\ job'[c].op = job[c].op /\ job'[c].name = job[c].name
      /\ \A d \in Clients \ {c} : job'[d] = job[d]
  <2>1. CASE UNCHANGED job
    BY <1>1, <1>3, <2>1 DEF CoreType
  <2>2. CASE \E d, p \in BOOLEAN : job' = [job EXCEPT ![c].docker = d, ![c].pg = p]
    <3>1. PICK d \in BOOLEAN, p \in BOOLEAN :
             job' = [job EXCEPT ![c].docker = d, ![c].pg = p]
      BY <2>2
    <3> QED
      BY <1>1, <1>3, <3>1 DEF CoreType, Job
  <2> QED
    BY <2>1, <2>2 DEF Open
<1>5. pc'[c] = FirstPhase[job[c].op] /\ pc'[c] \in CheckPhases /\ pc'[c] \in Phases
  BY <1>1, <1>2, <1>3 DEF CoreType, FirstPhase, CheckPhases, Job, Ops, Phases
<1>6. CoreType'
  BY <1>1, <1>2, <1>4, <1>5 DEF CoreType
<1>7. Known(c)'
  <2>1. mem'[c] = disk /\ Name(c)' \in Names
    BY <1>1, <1>2, <1>4 DEF CoreType, Job, Name
  <2>2. got[c].ports = NoPorts /\ undo[c] = <<>>
    BY <1>1, <1>2 DEF Known, Control
  <2>3. <<>> \in Seq(TagsOf(job'[c].op, NoPorts))
    OBVIOUS
  <2>4. Control(c)'
    BY <1>2, <1>4, <1>5, <2>2, <2>3 DEF Control, Holding, CheckPhases, UpPhases, FreshPhases,
        AllocPhases, SavedPhases, WorkPhases
  <2>5. TablesAgree(mem[c], Name(c))'
    BY <1>1, <2>1 DEF PortTablesAgree, TablesAgree, Registered
  <2>6. OwnCopy(c)'
    BY <1>5, <2>5 DEF OwnCopy, CheckPhases, UpPhases, FreshPhases,
        AllocPhases, SavedPhases, WorkPhases
  <2>7. OtherCopies(c)'
    BY <1>2, <2>1 DEF OtherCopies
  <2> QED
    BY <2>4, <2>6, <2>7 DEF Known
<1>8. ASSUME NEW d \in Clients \ {c} PROVE Known(d)'
  <2>1. pc'[d] = pc[d] /\ job'[d] = job[d] /\ undo'[d] = undo[d] /\ got'[d] = got[d]
    BY <1>1, <1>2, <1>4 DEF CoreType
  <2>2. ~Holding(d)
    BY <1>1, <1>2, LifecycleAssumption DEF Known, Control
  <2>3. pc[d] \in {"idle", "open"}
    BY <2>2 DEF Holding
  <2> QED
    BY <1>1, <2>1, <2>3 DEF Known, Control, OwnCopy, OtherCopies, Holding, CheckPhases, UpPhases,
        FreshPhases, AllocPhases, SavedPhases, WorkPhases
<1>9. PortTablesAgree'
  BY <1>1, <1>2 DEF PortTablesAgree, TablesAgree, Registered
<1> QED
  BY <1>6, <1>7, <1>8, <1>9 DEF IInv

\* A command ends, by itself or by a kill, whether it held the lock or not.
Leaves(c) ==
    /\ pc[c] # "idle"
    /\ lock' = IF lock = c THEN NoClient ELSE lock
    /\ pc' = [pc EXCEPT ![c] = "idle"]
    /\ job' = [job EXCEPT ![c] = NoJob]
    /\ mem' = [mem EXCEPT ![c] = EmptyRegistry]
    /\ undo' = [undo EXCEPT ![c] = <<>>]
    /\ got' = [got EXCEPT ![c] = Nothing]
    /\ UNCHANGED disk

LEMMA LeavesKeeps ==
    ASSUME IInv, NEW c \in Clients, Leaves(c) PROVE IInv'
<1>1. CoreType /\ PortTablesAgree /\ \A d \in Clients : Known(d)
  BY DEF IInv
<1>2. CoreType'
  BY <1>1, EmptyRegistryType, NoPids DEF Leaves, CoreType, Phases, Nothing
<1>3. Known(c)'
  <2>1. pc'[c] = "idle" /\ got'[c].ports = NoPorts /\ undo'[c] = <<>>
    BY <1>1 DEF CoreType, Leaves, Nothing
  <2> QED
    BY <2>1 DEF Known, Control, OwnCopy, OtherCopies, Holding, CheckPhases, UpPhases,
        FreshPhases, AllocPhases, SavedPhases, WorkPhases
<1>4. ASSUME NEW d \in Clients \ {c} PROVE Known(d)'
  <2>1. /\ pc'[d] = pc[d] /\ job'[d] = job[d] /\ undo'[d] = undo[d]
        /\ got'[d] = got[d] /\ mem'[d] = mem[d] /\ disk' = disk
    BY <1>1 DEF CoreType, Leaves
  <2>2. lock = d => lock' = d
    BY DEF Leaves
  <2>3. Control(d)' /\ OtherCopies(d)'
    BY <1>1, <2>1, <2>2, SMTT(30) DEF Known, Control, OtherCopies, Holding, Name
  <2>4. OwnCopy(d)'
    BY <1>1, <2>1, SMTT(30) DEF Known, OwnCopy, Name, TablesAgree, Registered, Allocated
  <2> QED
    BY <2>3, <2>4 DEF Known
<1>5. PortTablesAgree'
  BY <1>1 DEF Leaves, PortTablesAgree, TablesAgree, Registered
<1> QED
  BY <1>2, <1>3, <1>4, <1>5 DEF IInv

LEMMA LeaversKeep ==
    ASSUME IInv, NEW c \in Clients, Close(c) \/ Crash(c) PROVE IInv'
<1>1. CASE Close(c)
  <2>1. lock = c
    BY <1>1 DEF IInv, Known, Control, Close, Holding
  <2>2. Leaves(c)
    BY <1>1, <2>1 DEF Close, Leaves, Goto
  <2> QED
    BY <2>2, LeavesKeeps
<1>2. CASE Crash(c)
  <2>1. Leaves(c)
    BY <1>2 DEF Crash, Leaves, Goto
  <2> QED
    BY <2>1, LeavesKeeps
<1> QED
  BY <1>1, <1>2

\* Nothing of a command or the file changes.
LEMMA StutterKeeps ==
    ASSUME IInv, UNCHANGED <<registryVars, clientVars>> PROVE IInv'
<1>1. CoreType /\ PortTablesAgree /\ \A d \in Clients : Known(d)
  BY DEF IInv
<1> USE DEF registryVars, clientVars
<1>2. CoreType'
  BY <1>1 DEF CoreType
<1>3. ASSUME NEW d \in Clients PROVE Known(d)'
  <2>1. Control(d)' /\ OtherCopies(d)'
    BY <1>1, SMTT(30) DEF Known, Control, OtherCopies, Holding, Name
  <2>2. OwnCopy(d)'
    BY <1>1, SMTT(30) DEF Known, OwnCopy, Name, TablesAgree, Registered, Allocated
  <2> QED
    BY <2>1, <2>2 DEF Known
<1>4. PortTablesAgree'
  BY <1>1 DEF PortTablesAgree, TablesAgree, Registered
<1> QED
  BY <1>2, <1>3, <1>4 DEF IInv

-----------------------------------------------------------------------------

(***************************************************************************)
(* The invariant is inductive                                              *)
(***************************************************************************)

LEMMA InitIInv == Init => IInv
<1> SUFFICES ASSUME Init PROVE IInv
  OBVIOUS
<1>1. CoreType
  BY EmptyRegistryType, NoPids DEF Init, CoreType, Phases, Nothing
<1>2. ASSUME NEW c \in Clients PROVE Known(c)
  BY DEF Init, Known, Control, OwnCopy, OtherCopies, Holding, Nothing, CheckPhases, UpPhases,
      FreshPhases, AllocPhases, SavedPhases, WorkPhases
<1>3. PortTablesAgree
  BY EmptyRegistryType DEF Init, PortTablesAgree
<1> QED
  BY <1>1, <1>2, <1>3 DEF IInv

LEMMA StepKeeps ==
    ASSUME IInv, NEW c \in Clients, Step(c) PROVE IInv'
<1>1. CASE Up(c)
  BY <1>1, ChecksKeep, UpWorktreeKeeps, UpQuietKeeps, UpPortsKeeps, UpSaveKeeps, UpVerifyKeeps
  DEF Up
<1>2. CASE Down(c)
  BY <1>2, ChecksKeep, DownQuietKeeps, DnSaveKeeps DEF Down
<1>3. CASE Suspend(c)
  BY <1>3, ChecksKeep, DownQuietKeeps, SuSaveKeeps DEF Suspend
<1>4. CASE Resume(c)
  BY <1>4, ChecksKeep, ResumeQuietKeeps, ReSaveKeeps, ReVerifyKeeps DEF Resume
<1>5. CASE Rollback(c)
  BY <1>5, UndoQuietKeeps, UndoPortsKeeps, UndoRegistryKeeps, UndoResumeKeeps DEF Rollback
<1>6. CASE Close(c)
  BY <1>6, LeaversKeep
<1> QED
  BY <1>1, <1>2, <1>3, <1>4, <1>5, <1>6 DEF Step

LEMMA NextIInv == IInv /\ [Next]_vars => IInv'
<1> SUFFICES ASSUME IInv, [Next]_vars PROVE IInv'
  OBVIOUS
<1>1. ASSUME NEW c \in Clients, Start(c) \/ Open(c) \/ Step(c) \/ Crash(c) PROVE IInv'
  BY <1>1, StartKeeps, OpenKeeps, StepKeeps, LeaversKeep
<1>2. CASE GroupExits
  BY <1>2, StutterKeeps DEF GroupExits
<1>3. CASE ContainerExits
  BY <1>3, StutterKeeps DEF ContainerExits
<1>4. CASE UNCHANGED vars
  BY <1>4, StutterKeeps DEF vars, registryVars, clientVars
<1> QED
  BY <1>1, <1>2, <1>3, <1>4 DEF Next

\* In every reachable state, however many commands, instances and ports there
\* are, the copy of each command is worth what its phase needs.
THEOREM IInvInvariant == Spec => []IInv
<1>1. Init => IInv
  BY InitIInv
<1>2. IInv /\ [Next]_vars => IInv'
  BY NextIInv
<1> QED
  BY <1>1, <1>2, PTL DEF Spec

\* Every command works on an up-to-date copy (registry.go Open under the lock
\* of lock.go): the copy's word on other instances is the file's.
THEOREM CopyIsCurrentInvariant == Spec => []CopyIsCurrent
<1>1. IInv => CopyIsCurrent
  BY DEF IInv, Known, OtherCopies, CopyIsCurrent
<1> QED
  BY <1>1, IInvInvariant, PTL

\* No port is leaked in the file and no two instances share one, whatever
\* fails, rolls back or is killed (up.go allocatePorts, registry.go
\* RemoveInstance).
THEOREM PortTablesAgreeInvariant == Spec => []PortTablesAgree
<1>1. IInv => PortTablesAgree
  BY DEF IInv
<1> QED
  BY <1>1, IInvInvariant, PTL

-----------------------------------------------------------------------------

(***************************************************************************)
(* What a step does to the file                                            *)
(***************************************************************************)

\* A step of a running command leaves the file alone, or saves its copy, in
\* which it has changed at most the entry of its own instance.
LEMMA StepSaves ==
    ASSUME IInv, NEW c \in Clients, Step(c)
    PROVE  /\ Holding(c)
           /\ \/ UNCHANGED disk
              \/ \A n \in Names \ {Name(c)} : disk'.inst[n] = mem[c].inst[n]
<1>1. CoreType /\ Known(c)
  BY DEF IInv
<1>2. mem[c] \in RegistryValue
  BY <1>1 DEF CoreType
<1>3. ASSUME NEW rec PROVE
        \A n \in Names \ {Name(c)} :
           PutInstance(mem[c], Name(c), rec).inst[n] = mem[c].inst[n]
  BY <1>2 DEF PutInstance, RegistryValue
<1>4. \A n \in Names \ {Name(c)} : RemoveInstance(mem[c], Name(c)).inst[n] = mem[c].inst[n]
  BY <1>2 DEF RemoveInstance, RegistryValue
<1>5. CASE Up(c)
  <2>1. CASE UpSave(c)
    <3>1. mem'[c] = PutInstance(mem[c], Name(c), NewRecord(c))
      BY <1>1, <2>1 DEF UpSave, CoreType
    <3> QED
      BY <1>3, <2>1, <3>1 DEF UpSave, Saves, SaveFails, Holding
  <2>2. CASE UpVerify(c)
    BY <2>2 DEF UpVerify, Saves, SaveFails, Holding
  <2>3. CASE ~UpSave(c) /\ ~UpVerify(c)
    BY <1>5, <2>3 DEF Up, UpCheck, UpWorktree, UpMailbox, UpNetwork, UpPorts, UpEnv, UpClone,
        UpMigrate, UpCtrs, UpProcs, UpSettle, UpRecord, registryVars, Holding
  <2> QED
    BY <2>1, <2>2, <2>3
<1>6. CASE Down(c)
  <2>1. CASE DnSave(c)
    <3>1. mem'[c] = RemoveInstance(mem[c], Name(c))
      BY <1>1, <2>1 DEF DnSave, CoreType
    <3> QED
      BY <1>4, <2>1, <3>1 DEF DnSave, Saves, SaveFails, Holding
  <2>2. CASE ~DnSave(c)
    BY <1>6, <2>2 DEF Down, DnCheck, DnProcs, TerminateRecorded, DnCtrs, DnDbs, DnNetwork,
        DnWorktree, DnMailbox, DnMade, registryVars, Holding
  <2> QED
    BY <2>1, <2>2
<1>7. CASE Suspend(c)
  <2>1. CASE SuSave(c)
    <3>1. mem'[c] = PutInstance(mem[c], Name(c),
                      [Rec(c) EXCEPT !.state = "suspended", !.pids = {}])
      BY <1>1, <2>1 DEF SuSave, CoreType
    <3> QED
      BY <1>3, <2>1, <3>1 DEF SuSave, Saves, SaveFails, Holding
  <2>2. CASE ~SuSave(c)
    BY <1>7, <2>2 DEF Suspend, SuCheck, SuProcs, TerminateRecorded, SuCtrs, registryVars, Holding
  <2> QED
    BY <2>1, <2>2
<1>8. CASE Resume(c)
  <2>1. CASE ReSave(c)
    <3>1. mem'[c] = PutInstance(mem[c], Name(c),
                      [Rec(c) EXCEPT !.state = "running", !.pids = got[c].pids])
      BY <1>1, <2>1 DEF ReSave, CoreType
    <3> QED
      BY <1>3, <2>1, <3>1 DEF ReSave, Saves, SaveFails, Holding
  <2>2. CASE ReVerify(c)
    BY <2>2 DEF ReVerify, Saves, SaveFails, Holding
  <2>3. CASE ~ReSave(c) /\ ~ReVerify(c)
    BY <1>8, <2>3 DEF Resume, ReCheck, ReCtrs, ReEnv, ReProcs, ReSettle, registryVars, Holding
  <2> QED
    BY <2>1, <2>2, <2>3
<1>9. CASE Rollback(c)
  <2>1. CASE UndoRegistry(c)
    <3>1. mem'[c] = RemoveInstance(mem[c], Name(c))
      BY <1>1, <2>1 DEF UndoRegistry, CoreType
    <3> QED
      BY <1>4, <2>1, <3>1 DEF UndoRegistry, Undoing, Saves, SaveFails, Holding
  <2>2. CASE UndoResume(c)
    <3>1. mem'[c] = PutInstance(mem[c], Name(c), [Rec(c) EXCEPT !.state = "suspended"])
      BY <1>1, <2>2 DEF UndoResume, CoreType
    <3> QED
      BY <1>3, <2>2, <3>1 DEF UndoResume, Undoing, Saves, SaveFails, Holding
  <2>3. CASE ~UndoRegistry(c) /\ ~UndoResume(c)
    BY <1>9, <2>3 DEF Rollback, UndoWorktree, UndoMailbox, UndoNetwork, UndoPorts, UndoDbs,
        UndoCtrs, UndoStopCtrs, UndoProcs, UndoRecord, UndoMade, Undoing, RolledBack,
        registryVars, Holding
  <2> QED
    BY <2>1, <2>2, <2>3
<1>10. CASE Close(c)
  BY <1>10 DEF Close, Holding
<1> QED
  BY <1>5, <1>6, <1>7, <1>8, <1>9, <1>10 DEF Step

LEMMA NextNoLostUpdate ==
    ASSUME IInv, Next, NEW n \in Names, disk'.inst[n] # disk.inst[n]
    PROVE  lock \in Clients /\ Name(lock) = n
<1>1. PICK c \in Clients : Step(c)
  BY DEF Next, Start, Open, Crash, GroupExits, ContainerExits, registryVars
<1>2. Known(c) /\ Holding(c)
  BY <1>1, StepSaves DEF IInv
<1>3. lock = c
  BY <1>2 DEF Known, Control
<1>4. ASSUME n # Name(c) PROVE FALSE
  <2>1. disk'.inst[n] = mem[c].inst[n]
    BY <1>1, <1>4, StepSaves
  <2>2. mem[c].inst[n] = disk.inst[n]
    BY <1>2, <1>4 DEF Known, OtherCopies
  <2> QED
    BY <2>1, <2>2
<1> QED
  BY <1>3, <1>4

\* No command ever writes over what another one recorded: a step changes the
\* entry of one instance, on behalf of the holder of the lock (registry.go
\* Save, which writes the whole file).
THEOREM NoLostUpdateProperty == Spec => NoLostUpdate
<1>1. IInv /\ [Next]_vars =>
         [\A n \in Names : disk'.inst[n] # disk.inst[n] =>
             lock \in Clients /\ Name(lock) = n]_vars
  BY NextNoLostUpdate
<1> QED
  BY <1>1, IInvInvariant, PTL DEF Spec, NoLostUpdate

(***************************************************************************)
(* Type correctness.  The half about commands and the file is part of      *)
(* IInv; the half about the world needs IInv as well: a container gets the *)
(* port up allocated to it, a resumed process the port its record holds.   *)
(***************************************************************************)

WorldType ==
    /\ made \subseteq Names \X (Kinds \cup Dbs)
    /\ ctrs \subseteq Container
    /\ procs \subseteq Group
    /\ owed \subseteq (Names \X (Kinds \cup Dbs \cup Svcs)) \cup Group
    /\ kept \subseteq Names
    /\ faults \in 0 .. MaxFaults
    /\ crashes \in 0 .. MaxCrashes

LEMMA FaultsType ==
    ASSUME WorldType, Works \/ Fails PROVE faults' \in 0 .. MaxFaults
BY LifecycleAssumption DEF WorldType, Works, Fails

LEMMA UpWorldType ==
    ASSUME IInv, WorldType, NEW c \in Clients, Up(c) PROVE WorldType'
<1>1. Name(c) \in Names
  BY DEF IInv, Known, Control, Up, UpCheck, UpWorktree, UpMailbox, UpNetwork, UpPorts, UpEnv,
      UpClone, UpMigrate, UpCtrs, UpProcs, UpSettle, UpSave, UpRecord, UpVerify, Job, Name
<1>2. /\ Works \/ Fails
      /\ UNCHANGED <<kept, crashes>>
  BY DEF Up, UpCheck, UpWorktree, UpMailbox, UpNetwork, UpPorts, UpEnv,
      UpClone, UpMigrate, UpCtrs, UpProcs, UpSettle, UpSave, UpRecord, UpVerify,
      worldVars, Saves, SaveFails, Partly
<1>3. made' \subseteq Names \X (Kinds \cup Dbs)
  <2>1. CASE UpWorktree(c) \/ UpMailbox(c) \/ UpNetwork(c) \/ UpRecord(c)
    BY <1>1, <2>1 DEF UpWorktree, UpMailbox, UpNetwork, UpRecord, WorldType, Kinds
  <2>2. CASE UpClone(c)
    BY <1>1, <2>2 DEF UpClone, WorldType
  <2>3. CASE UNCHANGED made
    BY <2>3 DEF WorldType
  <2> QED
    BY <2>1, <2>2, <2>3 DEF Up, UpCheck, UpPorts, UpEnv, UpMigrate, UpCtrs, UpProcs, UpSettle,
        UpSave, UpVerify, worldVars
<1>4. ctrs' \subseteq Container
  <2>1. CASE UpCtrs(c)
    <3>1. got[c].ports \in PortMap
      BY <2>1 DEF IInv, Known, OwnCopy, UpCtrs, AllocPhases
    <3>2. \A s \in Svcs : NewContainer(c, s, TRUE) \in Container
                         /\ NewContainer(c, s, FALSE) \in Container
      BY <1>1, <3>1 DEF Container, NewContainer, PortMap, Owners
    <3>3. ctrs' \subseteq ctrs \cup {NewContainer(c, s, TRUE) : s \in Svcs}
                              \cup {NewContainer(c, s, FALSE) : s \in Svcs}
      BY <2>1 DEF UpCtrs
    <3> QED
      BY <3>2, <3>3 DEF WorldType
  <2>2. CASE UNCHANGED ctrs
    BY <2>2 DEF WorldType
  <2> QED
    BY <2>1, <2>2 DEF Up, UpCheck, UpWorktree, UpMailbox, UpNetwork, UpPorts, UpEnv,
      UpClone, UpMigrate, UpProcs, UpSettle, UpSave, UpRecord, UpVerify, worldVars
<1>5. procs' \subseteq Group
  <2>1. CASE UpProcs(c)
    <3>1. got[c].ports \in PortMap
      BY <2>1 DEF IInv, Known, OwnCopy, UpProcs, AllocPhases
    <3>2. PICK pids \in PidSets : procs' = procs \cup GroupsAt(Name(c), got[c].ports, pids)
      BY <2>1, UpSpawns DEF Spawns
    <3> QED
      BY <1>1, <3>1, <3>2, GroupsAtType DEF WorldType
  <2>2. CASE UNCHANGED procs
    BY <2>2 DEF WorldType
  <2> QED
    BY <2>1, <2>2 DEF Up, UpCheck, UpWorktree, UpMailbox, UpNetwork, UpPorts, UpEnv,
      UpClone, UpMigrate, UpCtrs, UpSettle, UpSave, UpRecord, UpVerify, worldVars
<1>6. owed' \subseteq (Names \X (Kinds \cup Dbs \cup Svcs)) \cup Group
  <2>1. CASE UpWorktree(c)
    BY <1>1, <2>1 DEF UpWorktree, WorldType, Kinds
  <2>2. CASE UpCtrs(c)
    <3>1. PICK stuck \in SUBSET Svcs : owed' = owed \cup ({Name(c)} \X stuck)
      BY <2>2 DEF UpCtrs
    <3> QED
      BY <1>1, <3>1 DEF WorldType
  <2>3. CASE UpClone(c)
    <3>1. UNCHANGED owed \/ \E d \in Dbs : owed' = owed \cup {<<Name(c), d>>}
      BY <2>3, Zenon DEF UpClone
    <3> QED
      BY <1>1, <3>1 DEF WorldType
  <2>4. CASE UNCHANGED owed
    BY <2>4 DEF WorldType
  <2> QED
    BY <2>1, <2>2, <2>3, <2>4 DEF Up, UpCheck, UpMailbox, UpNetwork, UpPorts, UpEnv,
      UpMigrate, UpProcs, UpSettle, UpSave, UpRecord, UpVerify
<1> QED
  BY <1>2, <1>3, <1>4, <1>5, <1>6, FaultsType, SMTT(30) DEF WorldType

LEMMA DownWorldType ==
    ASSUME IInv, WorldType, NEW c \in Clients, Down(c) \/ Suspend(c) PROVE WorldType'
<1>1. Name(c) \in Names
  BY DEF IInv, Known, Control, Down, Suspend, DnCheck, DnProcs, DnCtrs, DnDbs, DnNetwork,
      DnWorktree, DnMailbox, DnMade, DnSave, SuCheck, SuProcs, SuCtrs, SuSave, Job, Name
<1>2. ASSUME NEW next, TerminateRecorded(c, next) PROVE WorldType'
  <2>1. PICK left : /\ left \subseteq procs /\ Removing(left, procs \cap GroupsIn(Rec(c), Name(c)))
                    /\ procs' \subseteq procs /\ UNCHANGED <<made, ctrs, kept, crashes>>
    BY <1>2 DEF TerminateRecorded, Removing
  <2> QED
    BY <2>1, FaultsType DEF Removing, WorldType
<1>3. ASSUME NEW phase, NEW kinds, NEW reachable, NEW next,
             DnMade(c, phase, kinds, reachable, next)
      PROVE  WorldType'
  <2>1. PICK left : /\ left \subseteq made /\ (Works \/ Fails)
                    /\ made' \subseteq made /\ owed' = owed \cup left
                    /\ UNCHANGED <<ctrs, procs, kept, crashes>>
    BY <1>3 DEF DnMade, Leaving
  <2> QED
    BY <2>1, FaultsType DEF WorldType
<1>4. CASE DnCtrs(c) \/ SuCtrs(c)
  <2>1. PICK left : /\ left \subseteq ctrs /\ (Works \/ Fails)
                    /\ owed' = owed \cup {<<Name(c), x.svc>> : x \in left}
                    /\ UNCHANGED <<made, procs, kept, crashes>>
    BY <1>4 DEF DnCtrs, SuCtrs, Leaving, CtrsIn
  <2>2. \A x \in left : x.svc \in Svcs
    BY <2>1 DEF WorldType, Container
  <2>3. ctrs' \subseteq ctrs \cup {[x EXCEPT !.up = FALSE] : x \in ctrs}
    <3>1. CASE DnCtrs(c)
      BY <3>1 DEF DnCtrs
    <3>2. CASE SuCtrs(c)
      <4>1. CtrsIn(Rec(c), Name(c)) \subseteq ctrs
        BY DEF CtrsIn
      <4>2. PICK gone \in SUBSET CtrsIn(Rec(c), Name(c)) :
               ctrs' = (ctrs \ gone) \cup {[x EXCEPT !.up = FALSE] : x \in gone}
        BY <3>2 DEF SuCtrs
      <4> QED
        BY <4>1, <4>2
    <3> QED
      BY <1>4, <3>1, <3>2
  <2>4. \A x \in ctrs : [x EXCEPT !.up = FALSE] \in Container
    BY DEF WorldType, Container
  <2> QED
    BY <1>1, <2>1, <2>2, <2>3, <2>4, FaultsType DEF WorldType
<1>5. CASE DnCheck(c) \/ DnSave(c) \/ SuCheck(c) \/ SuSave(c)
  <2>1. UNCHANGED <<made, ctrs, procs, owed, kept, crashes>>
    BY <1>5 DEF DnCheck, DnSave, SuCheck, SuSave, worldVars
  <2>2. Works \/ Fails
    BY <1>5 DEF DnCheck, DnSave, SuCheck, SuSave, Saves, SaveFails, Works
  <2> QED
    BY <2>1, <2>2, FaultsType DEF WorldType
<1> QED
  BY <1>2, <1>3, <1>4, <1>5 DEF Down, Suspend, DnProcs, SuProcs, DnDbs, DnNetwork, DnWorktree,
      DnMailbox

LEMMA ResumeWorldType ==
    ASSUME IInv, WorldType, NEW c \in Clients, Resume(c) PROVE WorldType'
<1>1. Name(c) \in Names
  BY DEF IInv, Known, Control, Resume, ReCheck, ReCtrs, ReEnv, ReProcs, ReSettle, ReSave,
      ReVerify, Job, Name
<1>2. (Works \/ Fails) /\ UNCHANGED <<made, owed, kept, crashes>>
  BY DEF Resume, ReCheck, ReCtrs, ReEnv, ReProcs, ReSettle, ReSave,
      ReVerify, worldVars, Saves, SaveFails, Partly
<1>3. ctrs' \subseteq ctrs \cup {[x EXCEPT !.up = TRUE] : x \in ctrs}
  <2>1. CASE UNCHANGED ctrs
    BY <2>1
  <2>2. CASE ReCtrs(c) /\ job[c].docker
    <3>1. CtrsIn(Rec(c), Name(c)) \subseteq ctrs
      BY DEF CtrsIn
    <3>2. PICK ok \in SUBSET CtrsIn(Rec(c), Name(c)) :
             ctrs' = (ctrs \ ok) \cup {[x EXCEPT !.up = TRUE] : x \in ok}
      BY <2>2 DEF ReCtrs
    <3> QED
      BY <3>1, <3>2
  <2> QED
    BY <2>1, <2>2 DEF Resume, ReCheck, ReCtrs, ReEnv, ReProcs, ReSettle, ReSave, ReVerify,
        worldVars
<1>4. \A x \in ctrs : [x EXCEPT !.up = TRUE] \in Container
  BY DEF WorldType, Container
<1>5. procs' \subseteq Group
  <2>1. CASE ReProcs(c)
    <3>1. Rec(c).ports \in PortMap
      BY <2>1, WorkFacts DEF ReProcs, WorkPhases, InstanceRecord, PortMap
    <3>2. PICK pids \in PidSets : procs' = procs \cup GroupsAt(Name(c), Rec(c).ports, pids)
      BY <2>1, ReSpawns DEF Spawns
    <3> QED
      BY <1>1, <3>1, <3>2, GroupsAtType DEF WorldType
  <2>2. CASE UNCHANGED procs
    BY <2>2 DEF WorldType
  <2> QED
    BY <2>1, <2>2 DEF Resume, ReCheck, ReCtrs, ReEnv, ReSettle, ReSave, ReVerify, worldVars
<1> QED
  BY <1>2, <1>3, <1>4, <1>5, FaultsType DEF WorldType

LEMMA RollbackWorldType ==
    ASSUME IInv, WorldType, NEW c \in Clients, Rollback(c) PROVE WorldType'
<1>1. Name(c) \in Names
  BY DEF IInv, Known, Control, Rollback, UndoWorktree, UndoMailbox, UndoNetwork, UndoPorts,
      UndoDbs, UndoCtrs, UndoStopCtrs, UndoProcs, UndoRegistry, UndoResume, UndoRecord,
      UndoMade, Undoing, RolledBack, Job, Name
<1>2. ASSUME NEW tag, NEW kinds, UndoMade(c, tag, kinds) PROVE WorldType'
  <2>1. PICK left : /\ left \subseteq made /\ Removing(left, made \cap ({Name(c)} \X kinds))
                    /\ made' \subseteq made /\ UNCHANGED <<ctrs, procs, kept, crashes>>
    BY <1>2 DEF UndoMade, Removing
  <2> QED
    BY <2>1, FaultsType DEF Removing, WorldType
<1>3. CASE UndoProcs(c)
  <2>1. PICK left : /\ left \subseteq procs /\ (Works \/ Fails) /\ owed' = owed \cup left
                    /\ procs' \subseteq procs /\ UNCHANGED <<made, ctrs, kept, crashes>>
    BY <1>3 DEF UndoProcs, Removing
  <2> QED
    BY <2>1, FaultsType DEF WorldType
<1>4. CASE UndoCtrs(c) \/ UndoStopCtrs(c)
  <2>1. PICK left : /\ left \subseteq ctrs /\ (Works \/ Fails)
                    /\ owed' = owed \cup {<<Name(c), x.svc>> : x \in left}
                    /\ UNCHANGED <<made, procs, kept, crashes>>
    BY <1>4 DEF UndoCtrs, UndoStopCtrs, CtrsOf
  <2>2. \A x \in left : x.svc \in Svcs
    BY <2>1 DEF WorldType, Container
  <2>3. ctrs' \subseteq ctrs \cup {[x EXCEPT !.up = FALSE] : x \in ctrs}
    BY <1>4 DEF UndoCtrs, UndoStopCtrs, CtrsOf
  <2>4. \A x \in ctrs : [x EXCEPT !.up = FALSE] \in Container
    BY DEF WorldType, Container
  <2> QED
    BY <1>1, <2>1, <2>2, <2>3, <2>4, FaultsType DEF WorldType
<1>5. CASE UndoPorts(c) \/ UndoRegistry(c) \/ UndoResume(c) \/ RolledBack(c)
  <2>1. UNCHANGED <<made, ctrs, procs, owed, kept, crashes>>
    BY <1>5 DEF UndoPorts, UndoRegistry, UndoResume, RolledBack, worldVars
  <2>2. Works \/ Fails
    BY <1>5 DEF UndoPorts, UndoRegistry, UndoResume, RolledBack, Saves, SaveFails, Works
  <2> QED
    BY <2>1, <2>2, FaultsType DEF WorldType
<1> QED
  BY <1>2, <1>3, <1>4, <1>5, SMTT(30) DEF Rollback, UndoWorktree, UndoMailbox, UndoNetwork, UndoDbs,
      UndoRecord

LEMMA LeftBehindType ==
    ASSUME WorldType, NEW c, Name(c) \in Names
    PROVE  LeftBehind(c) \subseteq (Names \X (Kinds \cup Dbs \cup Svcs)) \cup Group
<1>1. \A x \in ctrs : x.svc \in Svcs
  BY DEF WorldType, Container
<1>2. Things(Name(c)) \subseteq (Names \X (Kinds \cup Dbs \cup Svcs)) \cup Group
  BY <1>1 DEF WorldType, Things, CtrsOf, GroupsOf
<1>3. Running(Name(c)) \subseteq (Names \X (Kinds \cup Dbs \cup Svcs)) \cup Group
  BY <1>1 DEF WorldType, Running, CtrsOf, GroupsOf
<1> QED
  BY <1>2, <1>3 DEF LeftBehind

LEMMA OtherWorldType ==
    ASSUME IInv, WorldType,
           \/ \E c \in Clients : Start(c) \/ Open(c) \/ Close(c) \/ Crash(c)
           \/ GroupExits \/ ContainerExits
           \/ UNCHANGED vars
    PROVE  WorldType'
<1>1. ASSUME NEW c \in Clients, Start(c) PROVE WorldType'
  BY <1>1 DEF Start, worldVars, WorldType
<1>2. ASSUME NEW c \in Clients, Open(c) PROVE WorldType'
  <2>1. (Works \/ Fails) /\ owed' \subseteq owed /\ UNCHANGED <<made, ctrs, procs, kept, crashes>>
    BY <1>2 DEF Open, worldVars
  <2> QED
    BY <2>1, FaultsType DEF WorldType
<1>3. ASSUME NEW c \in Clients, Close(c) PROVE WorldType'
  BY <1>3 DEF Close, worldVars, WorldType, Recorded
<1>4. ASSUME NEW c \in Clients, Crash(c) PROVE WorldType'
  <2>1. Name(c) \in Names
    BY <1>4 DEF IInv, Known, Control, Crash, Job, Name
  <2>2. owed' \subseteq owed \cup LeftBehind(c) /\ kept' \subseteq kept \cup Recorded
    BY <1>4 DEF Crash
  <2>3. crashes' \in 0 .. MaxCrashes
    BY <1>4, LifecycleAssumption DEF Crash, WorldType
  <2>4. (Works \/ Fails) /\ UNCHANGED <<made, ctrs, procs>>
    BY <1>4 DEF Crash, worldVars
  <2>5. kept' \subseteq Names
    BY <2>2 DEF WorldType, Recorded
  <2>6. owed' \subseteq (Names \X (Kinds \cup Dbs \cup Svcs)) \cup Group
    BY <2>1, <2>2, LeftBehindType DEF WorldType
  <2> QED
    BY <2>3, <2>4, <2>5, <2>6, FaultsType DEF WorldType
<1>5. CASE GroupExits
  BY <1>5, FaultsType DEF GroupExits, WorldType
<1>6. CASE ContainerExits
  <2>1. \A x \in ctrs : [x EXCEPT !.up = FALSE] \in Container
    BY DEF WorldType, Container
  <2> QED
    BY <1>6, <2>1, FaultsType DEF ContainerExits, WorldType
<1>7. CASE UNCHANGED vars
  BY <1>7 DEF vars, WorldType
<1> QED
  BY <1>1, <1>2, <1>3, <1>4, <1>5, <1>6, <1>7

\* Every variable stays in its type: in particular every container and every
\* process group runs on a port of the pool.
THEOREM TypeCorrect == Spec => []TypeOK
<1>1. Init => WorldType
  BY LifecycleAssumption DEF Init, WorldType
<1>2. IInv /\ WorldType /\ [Next]_vars => WorldType'
  BY UpWorldType, DownWorldType, ResumeWorldType, RollbackWorldType, OtherWorldType
  DEF Next, Step
<1>3. IInv /\ WorldType => TypeOK
  BY DEF IInv, CoreType, WorldType, TypeOK, PortMap
<1> QED
  BY <1>1, <1>2, <1>3, IInvInvariant, PTL DEF Spec

=============================================================================
