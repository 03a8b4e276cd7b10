---------------------------- MODULE LifecycleWorld ----------------------------
(***************************************************************************)
(* Proofs about the world: nothing an instance has is forgotten, nothing   *)
(* of a suspended instance runs, no two workloads share a port, and work   *)
(* records survive.                                                        *)
(*                                                                         *)
(* The argument is one of accounting.  While a command works on an         *)
(* instance, each thing of it is in the record in the file, or owed, or    *)
(* some cleanup on the stack is there to remove it (Covered).  What is at  *)
(* rest stays so because only the holder of the lock touches anything, and *)
(* only things of its own instance.                                        *)
(***************************************************************************)
EXTENDS LifecycleFile

\* What is known in every state, besides what this module proves.
Base == IInv /\ TypeOK /\ FileInv

LEMMA BaseInvariant == Spec => []Base
BY IInvInvariant, TypeCorrect, FileInvariant, PTL DEF Base

\* The facts about the command at work that every step below needs.
LEMMA WorkerFacts ==
    ASSUME Base, NEW c \in Clients, Holding(c)
    PROVE  /\ CoreType /\ Known(c) /\ OwnEntry(c)
           /\ Name(c) \in Names /\ job[c] \in Job /\ lock = c
           /\ undo[c] \in Seq(TagsOf(job[c].op, got[c].ports))
           /\ \A d \in Clients \ {c} : pc[d] \in {"idle", "open"} /\ undo[d] = <<>>
<1>1. CoreType /\ Known(c) /\ OwnEntry(c) /\ \A d \in Clients : Control(d)
  BY DEF Base, IInv, FileInv, Known
<1>2. job[c] \in Job /\ lock = c /\ undo[c] \in Seq(TagsOf(job[c].op, got[c].ports))
  BY <1>1 DEF Control, Holding
<1>3. \A d \in Clients \ {c} : pc[d] \in {"idle", "open"} /\ undo[d] = <<>>
  BY <1>1, <1>2 DEF Control, Holding
<1> QED
  BY <1>1, <1>2, <1>3 DEF Name, Job

-----------------------------------------------------------------------------

(***************************************************************************)
(* The stack of cleanups                                                   *)
(***************************************************************************)

LEMMA PushedSame ==
    ASSUME NEW c, undo'[c] = undo[c] PROVE \A t : Pushed(c, t)' <=> Pushed(c, t)
BY DEF Pushed

LEMMA PushedNone ==
    ASSUME NEW c, undo[c] = <<>> PROVE \A t : ~Pushed(c, t)
BY DEF Pushed

LEMMA PushedAppend ==
    ASSUME CoreType, NEW c \in Clients, NEW tag \in UndoTags, Push(c, tag)
    PROVE  \A t : Pushed(c, t)' <=> Pushed(c, t) \/ t = tag
<1>1. undo[c] \in Seq(UndoTags) /\ undo'[c] = Append(undo[c], tag)
  BY DEF CoreType, Push
<1>2. DEFINE u == undo[c]
             v == undo'[c]
<1>3. /\ Len(u) \in Nat /\ Len(v) = Len(u) + 1 /\ v[Len(v)] = tag
      /\ \A i \in 1 .. Len(u) : v[i] = u[i]
  BY <1>1
<1> HIDE DEF u, v
<1>4. ASSUME NEW t
      PROVE  (\E i \in 1 .. Len(v) : v[i] = t) <=> (\E i \in 1 .. Len(u) : u[i] = t) \/ t = tag
  <2>1. ASSUME NEW i \in 1 .. Len(v) PROVE i \in 1 .. Len(u) \/ i = Len(v)
    BY <1>3
  <2>2. ASSUME NEW i \in 1 .. Len(u) PROVE i \in 1 .. Len(v)
    BY <1>3
  <2>3. Len(v) \in 1 .. Len(v)
    BY <1>3
  <2> QED
    BY <1>3, <2>1, <2>2, <2>3
<1> QED
  BY <1>4 DEF Pushed, u, v

LEMMA PushedPop ==
    ASSUME CoreType, NEW c \in Clients, NEW tag, Undoing(c, tag)
    PROVE  /\ \A t : Pushed(c, t)' => Pushed(c, t)
           /\ \A t : Pushed(c, t) /\ t # tag => Pushed(c, t)'
           /\ Pushed(c, tag)
<1>1. /\ undo[c] \in Seq(UndoTags) /\ undo[c] # <<>> /\ undo[c][Len(undo[c])] = tag
      /\ undo'[c] = SubSeq(undo[c], 1, Len(undo[c]) - 1)
  BY DEF CoreType, Undoing
<1>2. DEFINE u == undo[c]
             v == undo'[c]
<1>3. /\ Len(u) \in Nat /\ Len(u) > 0 /\ Len(v) = Len(u) - 1 /\ u[Len(u)] = tag
      /\ \A i \in 1 .. Len(v) : v[i] = u[i]
  BY <1>1
<1> HIDE DEF u, v
<1>4. \A i \in 1 .. Len(v) : i \in 1 .. Len(u)
  BY <1>3
<1>5. \A i \in 1 .. Len(u) : i \in 1 .. Len(v) \/ i = Len(u)
  BY <1>3
<1>6. Len(u) \in 1 .. Len(u)
  BY <1>3
<1>7. /\ \A t : (\E i \in 1 .. Len(v) : v[i] = t) => (\E i \in 1 .. Len(u) : u[i] = t)
      /\ \A t : (\E i \in 1 .. Len(u) : u[i] = t) /\ t # tag => (\E i \in 1 .. Len(v) : v[i] = t)
      /\ \E i \in 1 .. Len(u) : u[i] = tag
  BY <1>3, <1>4, <1>5, <1>6
<1> QED
  BY <1>7 DEF Pushed, u, v

-----------------------------------------------------------------------------

(***************************************************************************)
(* Work records                                                            *)
(***************************************************************************)

\* A step that takes no work record away and pushes no cleanup for one.
SparesRecords(c) ==
    /\ \A n \in Names : <<n, "record">> \in made => <<n, "record">> \in made'
    /\ kept' = kept
    /\ Name(c)' = Name(c)
    /\ Pushed(c, "record")' => Pushed(c, "record")

LEMMA UpSparesRecords ==
    ASSUME Base, NEW c \in Clients, Up(c), ~UpRecord(c) PROVE SparesRecords(c)
<1>1. UNCHANGED <<job, kept>> /\ made \subseteq made'
  BY DEF Up, UpCheck, UpWorktree, UpMailbox, UpNetwork, UpPorts, UpEnv, UpClone, UpMigrate,
      UpCtrs, UpProcs, UpSettle, UpSave, UpVerify, worldVars
<1>2. undo' = undo \/ \E tag \in UndoTags \ {"record"} : Push(c, tag)
  BY DEF Up, UpCheck, UpWorktree, UpMailbox, UpNetwork, UpPorts, UpEnv, UpClone, UpMigrate,
      UpCtrs, UpProcs, UpSettle, UpSave, UpVerify, UndoTags
<1>3. CoreType
  BY DEF Base, IInv
<1>4. Pushed(c, "record")' => Pushed(c, "record")
  BY <1>2, <1>3, PushedSame, PushedAppend
<1> QED
  BY <1>1, <1>4 DEF SparesRecords, Name

LEMMA OtherSparesRecords ==
    ASSUME Base, NEW c \in Clients, Down(c) \/ Suspend(c) \/ Resume(c) PROVE SparesRecords(c)
<1>1. UNCHANGED <<job, kept>>
  BY DEF Down, Suspend, Resume, DnCheck, DnProcs, DnCtrs, DnDbs, DnNetwork, DnWorktree, DnMailbox,
      DnSave, DnMade, TerminateRecorded, SuCheck, SuProcs, SuCtrs, SuSave, ReCheck, ReCtrs, ReEnv,
      ReProcs, ReSettle, ReSave, ReVerify
<1>2. undo' = undo \/ \E tag \in UndoTags \ {"record"} : Push(c, tag)
  <2>1. CASE Resume(c)
    BY <2>1 DEF Resume, ReCheck, ReCtrs, ReEnv, ReProcs, ReSettle, ReSave, ReVerify, UndoTags
  <2> QED
    BY <2>1 DEF Down, Suspend, DnCheck, DnProcs, DnCtrs, DnDbs, DnNetwork, DnWorktree, DnMailbox,
        DnSave, DnMade, TerminateRecorded, SuCheck, SuProcs, SuCtrs, SuSave
<1>3. \A n \in Names : <<n, "record">> \in made => <<n, "record">> \in made'
  <2>1. ASSUME NEW phase, NEW kinds, NEW reach, NEW next, DnMade(c, phase, kinds, reach, next),
               "record" \notin kinds
        PROVE  \A n \in Names : <<n, "record">> \in made => <<n, "record">> \in made'
    BY <2>1 DEF DnMade
  <2>2. "record" \notin Dbs
    BY LifecycleAssumption DEF Kinds
  <2>3. CASE DnDbs(c) \/ DnNetwork(c) \/ DnWorktree(c) \/ DnMailbox(c)
    BY <2>1, <2>2, <2>3 DEF DnDbs, DnNetwork, DnWorktree, DnMailbox
  <2>4. CASE UNCHANGED made
    BY <2>4
  <2> QED
    BY <2>3, <2>4 DEF Down, Suspend, Resume, DnCheck, DnProcs, DnCtrs, DnSave, TerminateRecorded,
        SuCheck, SuProcs, SuCtrs, SuSave, ReCheck, ReCtrs, ReEnv, ReProcs, ReSettle, ReSave,
        ReVerify, worldVars
<1>4. CoreType
  BY DEF Base, IInv
<1>5. Pushed(c, "record")' => Pushed(c, "record")
  BY <1>2, <1>4, PushedSame, PushedAppend
<1> QED
  BY <1>1, <1>3, <1>5 DEF SparesRecords, Name

LEMMA RollbackSparesRecords ==
    ASSUME Base, NEW c \in Clients, Rollback(c), ~UndoRecord(c) PROVE SparesRecords(c)
<1>1. UNCHANGED <<job, kept>>
  BY DEF Rollback, UndoWorktree, UndoMailbox, UndoNetwork, UndoPorts, UndoDbs, UndoCtrs,
      UndoStopCtrs, UndoProcs, UndoRegistry, UndoResume, UndoMade, RolledBack
<1>2. undo' = undo \/ \E tag : Undoing(c, tag)
  BY DEF Rollback, UndoWorktree, UndoMailbox, UndoNetwork, UndoPorts, UndoDbs, UndoCtrs,
      UndoStopCtrs, UndoProcs, UndoRegistry, UndoResume, UndoMade, RolledBack
<1>3. \A n \in Names : <<n, "record">> \in made => <<n, "record">> \in made'
  <2>1. ASSUME NEW tag, NEW kinds, UndoMade(c, tag, kinds), "record" \notin kinds
        PROVE  \A n \in Names : <<n, "record">> \in made => <<n, "record">> \in made'
    BY <2>1 DEF UndoMade
  <2>2. "record" \notin Dbs
    BY LifecycleAssumption DEF Kinds
  <2>3. CASE UndoWorktree(c) \/ UndoMailbox(c) \/ UndoNetwork(c) \/ UndoDbs(c)
    BY <2>1, <2>2, <2>3 DEF UndoWorktree, UndoMailbox, UndoNetwork, UndoDbs
  <2>4. CASE UNCHANGED made
    BY <2>4
  <2> QED
    BY <2>3, <2>4 DEF Rollback, UndoPorts, UndoCtrs, UndoStopCtrs, UndoProcs, UndoRegistry,
        UndoResume, RolledBack, worldVars
<1>4. CoreType
  BY DEF Base, IInv
<1>5. Pushed(c, "record")' => Pushed(c, "record")
  BY <1>2, <1>4, PushedSame, PushedPop
<1> QED
  BY <1>1, <1>3, <1>5 DEF SparesRecords, Name

LEMMA NextRecordInv == Base /\ RecordInv /\ [Next]_vars => RecordInv'
<1> SUFFICES ASSUME Base, RecordInv, [Next]_vars PROVE RecordInv'
  OBVIOUS
<1>1. CoreType
  BY DEF Base, IInv
<1>2. ASSUME NEW c \in Clients, Step(c) PROVE RecordInv'
  <2>1. Holding(c) /\ \A d \in Clients \ {c} : ~Pushed(d, "record")'
    <3>1. Holding(c)
      BY <1>2, StepSaves DEF Base
    <3>2. ASSUME NEW d \in Clients \ {c} PROVE undo'[d] = <<>>
      <4>1. IInv' /\ pc'[d] \in {"idle", "open"}
        BY <1>2, StepKeeps, StepFrames DEF Base
      <4> QED
        BY <4>1 DEF IInv, Known, Control
    <3> QED
      BY <3>1, <3>2 DEF Pushed
  <2>2. Name(c) \in Names
    BY <2>1, WorkerFacts
  <2>3. CASE SparesRecords(c)
    BY <2>1, <2>3 DEF RecordInv, SparesRecords, Recorded
  <2>4. CASE UpRecord(c)
    <3>1. /\ UNCHANGED <<job, kept>> /\ made \subseteq made'
          /\ undo' = undo \/ (Push(c, "record") /\ <<Name(c), "record">> \notin made)
      BY <2>4 DEF UpRecord
    <3>2. Pushed(c, "record")' => Pushed(c, "record") \/ <<Name(c), "record">> \notin made
      BY <1>1, <3>1, PushedSame, PushedAppend DEF UndoTags
    <3> QED
      BY <2>1, <3>1, <3>2 DEF RecordInv, Recorded, Name
  <2>5. CASE UndoRecord(c)
    <3>1. /\ UNCHANGED <<job, kept>> /\ Undoing(c, "record")
          /\ \A n \in Names \ {Name(c)} : <<n, "record">> \in made => <<n, "record">> \in made'
      BY <2>5 DEF UndoRecord, UndoMade
    <3>2. Pushed(c, "record")
      BY <1>1, <3>1, PushedPop
    <3> QED
      BY <2>1, <3>1, <3>2 DEF RecordInv, Recorded, Name
  <2>6. CASE Close(c)
    <3>1. undo'[c] = <<>> /\ kept' = kept \cup Recorded /\ made' = made
      BY <1>1, <2>6 DEF Close, CoreType, worldVars
    <3> QED
      BY <2>1, <3>1 DEF RecordInv, Recorded, Pushed
  <2> QED
    BY <1>2, <2>3, <2>4, <2>5, <2>6, UpSparesRecords, OtherSparesRecords, RollbackSparesRecords
    DEF Step, Rollback, Up
<1>3. ASSUME NEW c \in Clients, Start(c) PROVE RecordInv'
  <2>1. UNCHANGED <<made, kept, undo>> /\ undo[c] = <<>> /\ \A d \in Clients \ {c} : job'[d] = job[d]
    BY <1>1, <1>3 DEF Start, worldVars, Base, IInv, Known, Control, CoreType
  <2> QED
    BY <2>1 DEF RecordInv, Recorded, Pushed, Name
<1>4. ASSUME NEW c \in Clients, Open(c) PROVE RecordInv'
  <2>1. UNCHANGED <<made, kept, undo>> /\ undo[c] = <<>> /\ \A d \in Clients \ {c} : job'[d] = job[d]
    BY <1>1, <1>4 DEF Open, worldVars, Base, IInv, Known, Control, CoreType
  <2> QED
    BY <2>1 DEF RecordInv, Recorded, Pushed, Name
<1>5. ASSUME NEW c \in Clients, Crash(c) PROVE RecordInv'
  <2>1. /\ made' = made /\ undo'[c] = <<>> /\ kept' \subseteq kept \cup Recorded
        /\ \A d \in Clients \ {c} : job'[d] = job[d] /\ undo'[d] = undo[d]
    BY <1>1, <1>5 DEF Crash, worldVars, CoreType
  <2>2. Holding(c) => \A d \in Clients \ {c} : undo[d] = <<>>
    BY WorkerFacts
  <2>3. ~Holding(c) => kept' = kept
    BY <1>5 DEF Crash
  <2>4. kept' \subseteq Recorded'
    BY <2>1 DEF RecordInv, Recorded
  <2>5. ASSUME NEW d \in Clients, Pushed(d, "record")' PROVE Name(d)' \notin kept'
    <3>1. d # c /\ undo'[d] # <<>>
      BY <2>1, <2>5 DEF Pushed
    <3>2. Pushed(d, "record") /\ kept' = kept /\ Name(d)' = Name(d)
      BY <2>1, <2>2, <2>3, <2>5, <3>1 DEF Pushed, Name
    <3> QED
      BY <3>2 DEF RecordInv
  <2> QED
    BY <2>4, <2>5 DEF RecordInv
<1>6. CASE GroupExits \/ ContainerExits \/ UNCHANGED vars
  BY <1>6 DEF GroupExits, ContainerExits, vars, clientVars, RecordInv, Recorded, Pushed, Name
<1> QED
  BY <1>2, <1>3, <1>4, <1>5, <1>6 DEF Next

LEMMA RecordInvariant == Spec => []RecordInv
<1>1. Init => RecordInv
  BY DEF Init, RecordInv, Recorded, Pushed
<1> QED
  BY <1>1, BaseInvariant, NextRecordInv, PTL DEF Spec

\* A work record outlives its instance: once a command has ended with it in
\* place, no later command takes it away (up.go, the step that creates the
\* record only if there is none, and pushes its removal only then).
THEOREM RecordsSurviveHolds == Spec => []RecordsSurvive
<1>1. RecordInv => RecordsSurvive
  BY DEF RecordInv, RecordsSurvive
<1> QED
  BY <1>1, RecordInvariant, PTL

-----------------------------------------------------------------------------

(***************************************************************************)
(* What stays true while the world fades                                   *)
(***************************************************************************)

\* Nothing of n is added, nothing of it that stays is owed no longer.  Work
\* records are left out: they are no part of what an instance at rest has.
FadesNamed(n) ==
    \A k \in Counted : <<n, k>> \in made' =>
       <<n, k>> \in made /\ (<<n, k>> \in owed => <<n, k>> \in owed')

FadesCtrs(n) ==
    \A x \in ctrs' : x.name = n =>
       /\ \E y \in ctrs : y.name = n /\ y.svc = x.svc /\ y.port = x.port /\ (x.up => y.up)
       /\ <<n, x.svc>> \in owed => <<n, x.svc>> \in owed'

FadesGroups(n) ==
    \A g \in procs' : g[1] = n => g \in procs /\ (g \in owed => g \in owed')

Fades(n) == FadesNamed(n) /\ FadesCtrs(n) /\ FadesGroups(n)

LEMMA CountedKinds == Counted \subseteq Kinds \cup Dbs
BY DEF Counted

LEMMA NamedOwedStays ==
    ASSUME NEW n, NEW kinds, kinds \subseteq Counted, FadesNamed(n), NamedOwed(n, kinds)
    PROVE  NamedOwed(n, kinds)'
BY DEF NamedOwed, FadesNamed

LEMMA CtrsOwedStays ==
    ASSUME NEW n, FadesCtrs(n)
    PROVE  /\ CtrsOwed(n) => CtrsOwed(n)'
           /\ UpCtrsOwed(n) => UpCtrsOwed(n)'
BY DEF CtrsOwed, UpCtrsOwed, FadesCtrs

LEMMA GroupsOwedStays ==
    ASSUME NEW n, FadesGroups(n), GroupsOwed(n) PROVE GroupsOwed(n)'
BY DEF GroupsOwed, FadesGroups

LEMMA CtrsKnownStays ==
    ASSUME NEW n, FadesCtrs(n), CtrsKnown(n), Registered(disk, n) => Registered(disk, n)',
           Registered(disk, n) => disk'.inst[n].ctrs = disk.inst[n].ctrs
    PROVE  CtrsKnown(n)'
BY DEF CtrsKnown, FadesCtrs

LEMMA PortsRightStays ==
    ASSUME NEW n, FadesCtrs(n), PortsRight(n), Registered(disk, n)' => Registered(disk, n),
           Registered(disk, n) => /\ disk'.inst[n].ctrs = disk.inst[n].ctrs
                                  /\ disk'.inst[n].ports = disk.inst[n].ports
    PROVE  PortsRight(n)'
BY DEF PortsRight, FadesCtrs

\* An instance at rest stays so if its entry stays and its world fades.
LEMMA RestStays ==
    ASSUME NEW n, Fades(n), disk'.inst[n] = disk.inst[n], AtRest(n)
    PROVE  AtRest(n)'
<1>1. /\ FadesNamed(n) /\ FadesCtrs(n) /\ FadesGroups(n)
      /\ NamedKnown(n) /\ CtrsKnown(n) /\ GroupsKnown(n) /\ Quiet(n) /\ PortsRight(n)
  BY DEF Fades, AtRest
<1>2. Registered(disk, n)' <=> Registered(disk, n)
  BY DEF Registered
<1>3. NamedKnown(n)'
  BY <1>1, <1>2, NamedOwedStays DEF NamedKnown
<1>4. CtrsKnown(n)' /\ PortsRight(n)'
  BY <1>1, <1>2, CtrsKnownStays, PortsRightStays
<1>5. GroupsKnown(n)'
  BY <1>1, <1>2 DEF GroupsKnown, FadesGroups
<1>6. Quiet(n)'
  BY <1>1, <1>2, CtrsOwedStays, GroupsOwedStays DEF Quiet
<1> QED
  BY <1>3, <1>4, <1>5, <1>6 DEF AtRest

\* The instance of a command, by its name or by the command.
LEMMA RestByName ==
    ASSUME NEW c, NEW n, Name(c)' = n
    PROVE  AtRest(Name(c))' <=> AtRest(n)'
BY DEF AtRest, NamedKnown, NamedOwed, CtrsKnown, GroupsKnown, Quiet, UpCtrsOwed, GroupsOwed,
    PortsRight, Registered

LEMMA OwnRestStays ==
    ASSUME NEW c, Name(c)' = Name(c), Fades(Name(c)),
           disk'.inst[Name(c)] = disk.inst[Name(c)], AtRest(Name(c))
    PROVE  AtRest(Name(c))'
<1>1. PICK n : n = Name(c)
  OBVIOUS
<1>2. AtRest(n)'
  BY <1>1, RestStays
<1> QED
  BY <1>1, <1>2, RestByName

-----------------------------------------------------------------------------

(***************************************************************************)
(* Ports                                                                   *)
(***************************************************************************)

\* Every workload that runs now ran before, or is one of n on its own port;
\* what was left behind still counts as that, and of n there is one group to
\* a process beside it.
Launches(n, ports) ==
    /\ \A x \in ctrs' : x.up =>
          \/ \E y \in ctrs : y.up /\ y.name = x.name /\ y.svc = x.svc /\ y.port = x.port
          \/ x.name = n /\ x.svc \in Svcs /\ x.port = ports[x.svc]
    /\ \A g \in procs' :
          \/ g \in procs /\ (g \in owed => g \in owed')
          \/ g[1] = n /\ g[2] \in Procs /\ g[3] = ports[g[2]]
    /\ \A g, h \in procs' \ owed' :
          g[1] = n /\ h[1] = n /\ g[2] = h[2] /\ g[3] = h[3] => g = h

NothingLaunched ==
    /\ \A x \in ctrs' : x.up =>
          \E y \in ctrs : y.up /\ y.name = x.name /\ y.svc = x.svc /\ y.port = x.port
    /\ \A g \in procs' : g \in procs /\ (g \in owed => g \in owed')

LEMMA LaunchClash ==
    ASSUME NEW n, NEW ports, Injective(ports), Launches(n, ports), Exclusive(n, ports),
           NoClash, procs \subseteq Group, \A x \in ctrs : x.svc \in Svcs
    PROVE  NoClash' /\ Exclusive(n, ports)'
<1>1. Svcs \cap Procs = {} /\ Svcs \subseteq Owners /\ Procs \subseteq Owners
  BY LifecycleAssumption DEF Owners
<1>2. \A s, t \in Owners : ports[s] = ports[t] => s = t
  BY DEF Injective
<1>3. Exclusive(n, ports)'
  <2> SUFFICES ASSUME NEW o \in Owners
               PROVE  /\ \A x \in ctrs' : x.up /\ x.port = ports[o] => x.name = n /\ x.svc = o
                      /\ \A g \in procs' \ owed' : g[3] = ports[o] => g[1] = n /\ g[2] = o
    BY DEF Exclusive
  <2>1. ASSUME NEW x \in ctrs', x.up, x.port = ports[o] PROVE x.name = n /\ x.svc = o
    BY <1>1, <1>2, <2>1 DEF Launches, Exclusive
  <2>2. ASSUME NEW g \in procs' \ owed', g[3] = ports[o] PROVE g[1] = n /\ g[2] = o
    BY <1>1, <1>2, <2>2 DEF Launches, Exclusive
  <2> QED
    BY <2>1, <2>2
<1>4. ASSUME NEW x \in ctrs', NEW y \in ctrs', x.up, y.up, x.port = y.port
      PROVE  x.name = y.name /\ x.svc = y.svc
  <2>1. CASE (x.name = n /\ x.svc \in Svcs /\ x.port = ports[x.svc])
             \/ (y.name = n /\ y.svc \in Svcs /\ y.port = ports[y.svc])
    BY <1>1, <1>3, <1>4, <2>1 DEF Exclusive
  <2> QED
    BY <1>4, <2>1 DEF Launches, NoClash
<1>5. ASSUME NEW x \in ctrs', NEW g \in procs' \ owed', x.up, x.port = g[3] PROVE FALSE
  <2>1. x.svc \in Svcs
    BY <1>5 DEF Launches
  <2>2. CASE x.name = n /\ x.svc \in Svcs /\ x.port = ports[x.svc]
    <3>0. x.svc \in Owners /\ g[3] = ports[x.svc]
      BY <1>1, <1>5, <2>2
    <3>1. g[2] = x.svc
      BY <1>3, <3>0 DEF Exclusive
    <3>2. g[2] \in Procs
      BY DEF Launches, Group
    <3> QED
      BY <1>1, <2>1, <3>1, <3>2
  <2>3. CASE g[1] = n /\ g[2] \in Procs /\ g[3] = ports[g[2]]
    BY <1>1, <1>3, <1>5, <2>1, <2>3 DEF Exclusive
  <2>4. CASE g \in procs \ owed /\ \E y \in ctrs : y.up /\ y.name = x.name /\ y.svc = x.svc /\ y.port = x.port
    BY <1>5, <2>4 DEF NoClash
  <2> QED
    BY <1>5, <2>2, <2>3, <2>4 DEF Launches
<1>6. ASSUME NEW g \in procs' \ owed', NEW h \in procs' \ owed', g[3] = h[3] PROVE g = h
  <2>1. ASSUME NEW f \in procs' \ owed', NEW e \in procs' \ owed', f[3] = e[3],
               f[1] = n, f[2] \in Procs, f[3] = ports[f[2]]
        PROVE  f = e
    <3>1. f[2] \in Owners /\ e[3] = ports[f[2]]
      BY <1>1, <2>1
    <3>2. e[1] = n /\ e[2] = f[2]
      BY <1>3, <2>1, <3>1 DEF Exclusive
    <3> QED
      BY <2>1, <3>2 DEF Launches
  <2>2. CASE g \in procs \ owed /\ h \in procs \ owed
    BY <1>6, <2>2 DEF NoClash
  <2>3. CASE g[1] = n /\ g[2] \in Procs /\ g[3] = ports[g[2]]
    BY <1>6, <2>1, <2>3
  <2>4. CASE h[1] = n /\ h[2] \in Procs /\ h[3] = ports[h[2]]
    BY <1>6, <2>1, <2>4
  <2> QED
    BY <2>2, <2>3, <2>4 DEF Launches
<1> QED
  BY <1>3, <1>4, <1>5, <1>6 DEF NoClash

\* The groups a record or a command names, and those that are spawned: with
\* nothing but leftovers of the instance there before, one to a process.
LEMMA NamedGroups ==
    ASSUME NEW n, NEW ports, NEW pids \in PidSets, NEW g \in Group,
           g[1] = n, g[3] = ports[g[2]], <<g[2], g[4]>> \in pids
    PROVE  g \in GroupsAt(n, ports, pids)
<1>1. g = <<g[1], g[2], g[3], g[4]>>
  BY DEF Group
<1>2. PICK q \in pids : q = <<g[2], g[4]>>
  OBVIOUS
<1>3. g = <<n, q[1], ports[q[1]], q[2]>>
  BY <1>1, <1>2
<1> QED
  BY <1>3 DEF GroupsAt

NewGroups(n, ports, pids) ==
    /\ \A g \in procs' :
          \/ g \in procs /\ (g[1] = n => g \in owed)
          \/ g[1] = n /\ g[2] \in Procs /\ g[3] = ports[g[2]] /\ <<g[2], g[4]>> \in pids
    /\ \A g \in procs' : g[1] = n =>
          g \in owed' \/ (<<g[2], g[4]>> \in pids /\ g[3] = ports[g[2]])
    /\ \A g, h \in procs' \ owed' :
          g[1] = n /\ h[1] = n /\ g[2] = h[2] /\ g[3] = h[3] => g = h

LEMMA SpawnedGroups ==
    ASSUME NEW n, NEW ports, NEW pids \in PidSets, \A q, r \in pids : q[1] = r[1] => q = r,
           procs \subseteq Group, procs' = procs \cup GroupsAt(n, ports, pids), UNCHANGED owed,
           \A g \in procs : g[1] = n => g \in owed
    PROVE  NewGroups(n, ports, pids)
<1>1. ASSUME NEW g \in GroupsAt(n, ports, pids)
      PROVE  /\ g[1] = n /\ g[2] \in Procs /\ g[3] = ports[g[2]] /\ <<g[2], g[4]>> \in pids
             /\ g = <<g[1], g[2], g[3], g[4]>>
  <2>1. PICK q \in pids : g = <<n, q[1], ports[q[1]], q[2]>>
    BY DEF GroupsAt
  <2>2. q = <<q[1], q[2]>> /\ q[1] \in Procs
    BY DEF PidSets
  <2> QED
    BY <2>1, <2>2
<1>2. ASSUME NEW g \in procs' \ owed', NEW h \in procs' \ owed',
             g[1] = n, h[1] = n, g[2] = h[2], g[3] = h[3]
      PROVE  g = h
  <2>1. g \in GroupsAt(n, ports, pids) /\ h \in GroupsAt(n, ports, pids)
    BY <1>2
  <2>2. PICK q \in pids, r \in pids : q = <<g[2], g[4]>> /\ r = <<h[2], h[4]>>
    BY <1>1, <2>1
  <2>3. q = r
    BY <1>2, <2>2
  <2>4. g[4] = h[4]
    BY <2>2, <2>3
  <2>5. g = <<g[1], g[2], g[3], g[4]>> /\ h = <<h[1], h[2], h[3], h[4]>>
    BY <1>1, <2>1
  <2>6. h = <<g[1], g[2], g[3], g[4]>>
    BY <1>2, <2>4, <2>5
  <2> QED
    BY <2>5, <2>6
<1> QED
  BY <1>1, <1>2 DEF NewGroups

LEMMA NewLaunches ==
    ASSUME NEW n, NEW ports, NEW pids, NewGroups(n, ports, pids), UNCHANGED <<ctrs, owed>>
    PROVE  Launches(n, ports)
BY DEF NewGroups, Launches

LEMMA NoLaunchClash ==
    ASSUME NothingLaunched, NoClash PROVE NoClash'
BY DEF NothingLaunched, NoClash

LEMMA ExclusiveStays ==
    ASSUME NEW n, NEW ports, NothingLaunched, Exclusive(n, ports) PROVE Exclusive(n, ports)'
BY DEF NothingLaunched, Exclusive

-----------------------------------------------------------------------------

(***************************************************************************)
(* What a command does to the world                                        *)
(***************************************************************************)

\* The steps that leave the world alone.
WorldQuiet(c) ==
    \/ UpCheck(c) \/ UpPorts(c) \/ UpEnv(c) \/ UpMigrate(c) \/ UpSettle(c) \/ UpSave(c)
    \/ UpVerify(c) \/ DnCheck(c) \/ DnSave(c) \/ SuCheck(c) \/ SuSave(c) \/ ReCheck(c)
    \/ ReEnv(c) \/ ReSettle(c) \/ ReSave(c) \/ ReVerify(c) \/ UndoPorts(c)
    \/ UndoRegistry(c) \/ UndoResume(c) \/ RolledBack(c) \/ Close(c)

\* The steps that make named things, and those that remove some.
MakesNamed(c) ==
    UpWorktree(c) \/ UpMailbox(c) \/ UpNetwork(c) \/ UpClone(c) \/ UpRecord(c)
RemovesNamed(c) ==
    \/ DnDbs(c) \/ DnNetwork(c) \/ DnWorktree(c) \/ DnMailbox(c) \/ UndoWorktree(c)
    \/ UndoMailbox(c) \/ UndoNetwork(c) \/ UndoDbs(c) \/ UndoRecord(c)

\* The steps that start workloads, and those that stop or remove some.
LaunchesCtrs(c)  == UpCtrs(c) \/ ReCtrs(c)
StopsCtrs(c)     == DnCtrs(c) \/ SuCtrs(c) \/ UndoCtrs(c) \/ UndoStopCtrs(c)
LaunchesProcs(c) == UpProcs(c) \/ ReProcs(c)
StopsProcs(c)    == DnProcs(c) \/ SuProcs(c) \/ UndoProcs(c)

LEMMA StepKinds ==
    ASSUME NEW c, Step(c)
    PROVE  \/ WorldQuiet(c) \/ MakesNamed(c) \/ RemovesNamed(c) \/ LaunchesCtrs(c)
           \/ StopsCtrs(c) \/ LaunchesProcs(c) \/ StopsProcs(c)
BY DEF Step, Up, Down, Suspend, Resume, Rollback, WorldQuiet, MakesNamed, RemovesNamed,
    LaunchesCtrs, StopsCtrs, LaunchesProcs, StopsProcs

LEMMA QuietWorld ==
    ASSUME NEW c, WorldQuiet(c) PROVE UNCHANGED <<made, ctrs, procs, owed>>
BY DEF WorldQuiet, UpCheck, UpPorts, UpEnv, UpMigrate, UpSettle, UpSave, UpVerify, DnCheck, DnSave,
    SuCheck, SuSave, ReCheck, ReEnv, ReSettle, ReSave, ReVerify, UndoPorts, UndoRegistry,
    UndoResume, RolledBack, Close, worldVars

LEMMA MakesWorld ==
    ASSUME NEW c, MakesNamed(c)
    PROVE  /\ UNCHANGED <<ctrs, procs>> /\ owed \subseteq owed' /\ made \subseteq made'
           /\ \A t \in made' : t[1] # Name(c) => t \in made
<1>1. CASE UpClone(c)
  <2>1. /\ UNCHANGED <<ctrs, procs>> /\ owed \subseteq owed'
        /\ \E ds \in SUBSET Dbs : made' = made \cup ({Name(c)} \X ds)
    <3>1. ASSUME NEW d \in Dbs, NEW done \in SUBSET Dbs PROVE done \cup {d} \in SUBSET Dbs
      OBVIOUS
    <3> QED
      BY <1>1, <3>1 DEF UpClone
  <2> QED
    BY <2>1
<1>2. CASE ~UpClone(c)
  BY <1>2 DEF MakesNamed, UpWorktree, UpMailbox, UpNetwork, UpRecord
<1> QED
  BY <1>1, <1>2

LEMMA RemovesWorld ==
    ASSUME NEW c, RemovesNamed(c)
    PROVE  UNCHANGED <<ctrs, procs>> /\ owed \subseteq owed' /\ made' \subseteq made
<1>1. ASSUME NEW tag, NEW kinds, UndoMade(c, tag, kinds)
      PROVE  UNCHANGED <<ctrs, procs>> /\ owed \subseteq owed' /\ made' \subseteq made
  BY <1>1 DEF UndoMade, Removing
<1>2. ASSUME NEW phase, NEW kinds, NEW reach, NEW next, DnMade(c, phase, kinds, reach, next)
      PROVE  UNCHANGED <<ctrs, procs>> /\ owed \subseteq owed' /\ made' \subseteq made
  BY <1>2 DEF DnMade
<1> QED
  BY <1>1, <1>2 DEF RemovesNamed, DnDbs, DnNetwork, DnWorktree, DnMailbox, UndoWorktree,
      UndoMailbox, UndoNetwork, UndoDbs, UndoRecord

\* A container that was stopped.
LEMMA StoppedCtr ==
    ASSUME TypeOK, NEW y \in ctrs
    PROVE  /\ [y EXCEPT !.up = FALSE].name = y.name /\ [y EXCEPT !.up = FALSE].svc = y.svc
           /\ [y EXCEPT !.up = FALSE].port = y.port /\ ~[y EXCEPT !.up = FALSE].up
BY DEF TypeOK, Container

LEMMA StopsCtrsWorld ==
    ASSUME TypeOK, NEW c, StopsCtrs(c)
    PROVE  /\ UNCHANGED <<made, procs>> /\ owed \subseteq owed'
           /\ \A x \in ctrs' :
                 \/ x \in ctrs
                 \/ /\ ~x.up /\ x.name = Name(c)
                    /\ \E y \in ctrs : y.name = x.name /\ y.svc = x.svc /\ y.port = x.port
<1>1. CASE DnCtrs(c) \/ UndoCtrs(c)
  BY <1>1 DEF DnCtrs, UndoCtrs
<1>2. CASE SuCtrs(c) \/ UndoStopCtrs(c)
  <2>1. /\ UNCHANGED <<made, procs>> /\ owed \subseteq owed'
        /\ \E off \in SUBSET CtrsOf(Name(c)) :
              \A x \in ctrs' : x \in ctrs \/ x \in {[y EXCEPT !.up = FALSE] : y \in off}
    <3>1. CASE SuCtrs(c)
      BY <3>1 DEF SuCtrs, CtrsIn, CtrsOf
    <3>2. CASE UndoStopCtrs(c)
      BY <3>2 DEF UndoStopCtrs, CtrsOf
    <3> QED
      BY <1>2, <3>1, <3>2
  <2>2. \A y \in CtrsOf(Name(c)) : y \in ctrs /\ y.name = Name(c)
    BY DEF CtrsOf
  <2>3. PICK off \in SUBSET CtrsOf(Name(c)) :
           \A x \in ctrs' : x \in ctrs \/ x \in {[y EXCEPT !.up = FALSE] : y \in off}
    BY <2>1
  <2>4. ASSUME NEW x \in ctrs', x \notin ctrs
        PROVE  /\ ~x.up /\ x.name = Name(c)
               /\ \E y \in ctrs : y.name = x.name /\ y.svc = x.svc /\ y.port = x.port
    <3>1. PICK y \in off : x = [y EXCEPT !.up = FALSE]
      BY <2>3, <2>4
    <3>2. y \in ctrs /\ y.name = Name(c)
      BY <2>2
    <3>3. x.name = y.name /\ x.svc = y.svc /\ x.port = y.port /\ ~x.up
      BY <3>1, <3>2, StoppedCtr
    <3> QED
      BY <3>2, <3>3
  <2> QED
    BY <2>1, <2>4
<1> QED
  BY <1>1, <1>2 DEF StopsCtrs

LEMMA StopsProcsWorld ==
    ASSUME NEW c, StopsProcs(c)
    PROVE  UNCHANGED <<made, ctrs>> /\ owed \subseteq owed' /\ procs' \subseteq procs
BY DEF StopsProcs, DnProcs, SuProcs, UndoProcs, TerminateRecorded, Removing

LEMMA LaunchesProcsWorld ==
    ASSUME NEW c, LaunchesProcs(c)
    PROVE  /\ UNCHANGED <<made, ctrs, owed>> /\ procs \subseteq procs'
           /\ \A g \in procs' : g[1] # Name(c) => g \in procs
<1>1. UNCHANGED <<made, ctrs, owed>>
  BY DEF LaunchesProcs, UpProcs, ReProcs
<1>2. \E ports, pids : procs' = procs \cup GroupsAt(Name(c), ports, pids)
  BY UpSpawns, ReSpawns DEF LaunchesProcs, Spawns
<1> QED
  BY <1>1, <1>2 DEF GroupsAt

LEMMA LaunchesCtrsWorld ==
    ASSUME TypeOK, NEW c, LaunchesCtrs(c)
    PROVE  /\ UNCHANGED <<made, procs>> /\ owed \subseteq owed'
           /\ \A x \in ctrs' : x.name # Name(c) => x \in ctrs
<1>1. CASE UpCtrs(c)
  BY <1>1 DEF UpCtrs, NewContainer
<1>2. CASE ReCtrs(c)
  <2>1. \A x \in ctrs : [x EXCEPT !.up = TRUE].name = x.name
    BY DEF TypeOK, Container
  <2>2. UNCHANGED <<made, procs, owed>>
    BY <1>2 DEF ReCtrs
  <2>3. UNCHANGED ctrs \/ \E ok \in SUBSET CtrsIn(Rec(c), Name(c)) :
           ctrs' = (ctrs \ ok) \cup {[x EXCEPT !.up = TRUE] : x \in ok}
    BY <1>2 DEF ReCtrs
  <2>4. \A x \in CtrsIn(Rec(c), Name(c)) : x \in ctrs /\ x.name = Name(c)
    BY DEF CtrsIn
  <2> QED
    BY <2>1, <2>2, <2>3, <2>4
<1> QED
  BY <1>1, <1>2 DEF LaunchesCtrs

\* A command changes only things of its own instance, and while it is at
\* work nothing that is owed is forgotten.
LEMMA StepOthers ==
    ASSUME TypeOK, NEW c \in Clients, Step(c)
    PROVE  /\ owed \subseteq owed'
           /\ \A n \in Names \ {Name(c)} : Fades(n)
<1> SUFFICES ASSUME NEW n \in Names \ {Name(c)} PROVE owed \subseteq owed' /\ Fades(n)
  <2>1. owed \subseteq owed'
    BY StepKinds, QuietWorld, MakesWorld, RemovesWorld, LaunchesCtrsWorld, StopsCtrsWorld,
       LaunchesProcsWorld, StopsProcsWorld
  <2> QED
    BY <2>1
<1>1. ASSUME owed \subseteq owed', \A t \in made' : t[1] # Name(c) => t \in made PROVE FadesNamed(n)
  BY <1>1 DEF FadesNamed
<1>2. ASSUME owed \subseteq owed', \A x \in ctrs' : x.name # Name(c) => x \in ctrs PROVE FadesCtrs(n)
  BY <1>2 DEF FadesCtrs
<1>3. ASSUME owed \subseteq owed', \A g \in procs' : g[1] # Name(c) => g \in procs PROVE FadesGroups(n)
  BY <1>3 DEF FadesGroups
<1>4. CASE WorldQuiet(c)
  BY <1>1, <1>2, <1>3, <1>4, QuietWorld DEF Fades
<1>5. CASE MakesNamed(c)
  BY <1>1, <1>2, <1>3, <1>5, MakesWorld DEF Fades
<1>6. CASE RemovesNamed(c)
  BY <1>1, <1>2, <1>3, <1>6, RemovesWorld DEF Fades
<1>7. CASE LaunchesCtrs(c)
  BY <1>1, <1>2, <1>3, <1>7, LaunchesCtrsWorld DEF Fades
<1>8. CASE StopsCtrs(c)
  <2>1. \A x \in ctrs' : x.name # Name(c) => x \in ctrs
    BY <1>8, StopsCtrsWorld
  <2> QED
    BY <1>1, <1>2, <1>3, <1>8, <2>1, StopsCtrsWorld DEF Fades
<1>9. CASE LaunchesProcs(c)
  BY <1>1, <1>2, <1>3, <1>9, LaunchesProcsWorld DEF Fades
<1>10. CASE StopsProcs(c)
  BY <1>1, <1>2, <1>3, <1>10, StopsProcsWorld DEF Fades
<1> QED
  BY <1>4, <1>5, <1>6, <1>7, <1>8, <1>9, <1>10, StepKinds

\* Only four steps launch anything.
LEMMA StepLaunches ==
    ASSUME TypeOK, NEW c \in Clients, Step(c), ~LaunchesCtrs(c), ~LaunchesProcs(c)
    PROVE  NothingLaunched
BY StepKinds, StepOthers, QuietWorld, MakesWorld, RemovesWorld, StopsCtrsWorld, StopsProcsWorld
DEF NothingLaunched

-----------------------------------------------------------------------------

(***************************************************************************)
(* The claims of a command, stretch by stretch                             *)
(***************************************************************************)

Local(c) == Gained(c) /\ Progress(c) /\ PortsClear(c) /\ Covered(c)

RiseCover(c)   == NamedCovered(c) /\ CtrsCovered(c) /\ GroupsCovered(c)
ResumeCover(c) == /\ CtrsKnown(Name(c)) /\ PortsRight(Name(c))
                  /\ UpCtrsCovered(c) /\ GroupsCovered(c)

LEMMA WorldParts ==
    WorldInv <=> /\ \A n \in Names : ~Busy(n) => AtRest(n)
                 /\ \A c \in Clients : Local(c)
                 /\ NoClash
BY DEF WorldInv, Local

EmptyHanded(c) == got[c].ctrs = {} /\ got[c].pids = {}

LEMMA LocalAway ==
    ASSUME NEW c, pc'[c] \in {"idle", "open"}, EmptyHanded(c)' PROVE Local(c)'
BY DEF Local, Gained, Progress, PortsClear, Covered, Rising, Resuming, CheckPhases, FreshPhases,
    AllocPhases, SavedPhases, UpPhases, DnPhases, SuPhases, RePhases, GoneBy, NamedOwed, EmptyHanded

LEMMA LocalEnd ==
    ASSUME NEW c, pc'[c] = "close", AtRest(Name(c))' PROVE Local(c)'
BY DEF Local, Gained, Progress, PortsClear, Covered, Rising, Resuming, CheckPhases, FreshPhases,
    AllocPhases, SavedPhases, UpPhases, DnPhases, SuPhases, RePhases, GoneBy, NamedOwed

LEMMA LocalCheck ==
    ASSUME NEW c, pc'[c] \in CheckPhases, AtRest(Name(c))', EmptyHanded(c)' PROVE Local(c)'
BY DEF Local, Gained, Progress, PortsClear, Covered, Rising, Resuming, CheckPhases, FreshPhases,
    AllocPhases, SavedPhases, UpPhases, DnPhases, SuPhases, RePhases, GoneBy, NamedOwed, EmptyHanded

LEMMA LocalRise ==
    ASSUME NEW c, RiseCover(c)', job'[c].op = "up", pc'[c] \in UpPhases \cup {"rollback"},
           pc'[c] \in FreshPhases \cup {"up_env", "up_clone", "up_migrate", "up_ctrs"}
              => EmptyHanded(c)',
           pc'[c] = "up_ctrs" => Pushed(c, "ctrs")',
           pc'[c] = "up_procs" => got'[c].pids = {} /\ Pushed(c, "procs")',
           pc'[c] \in AllocPhases => Exclusive(Name(c), got[c].ports)'
    PROVE  Local(c)'
BY DEF Local, Gained, Progress, PortsClear, Covered, Rising, Resuming, CheckPhases, FreshPhases,
    AllocPhases, SavedPhases, UpPhases, DnPhases, SuPhases, RePhases, GoneBy, NamedOwed,
    EmptyHanded, RiseCover

LEMMA LocalResume ==
    ASSUME NEW c, ResumeCover(c)', job'[c].op # "up", pc'[c] \in RePhases \cup {"rollback"},
           pc'[c] = "re_ctrs" => EmptyHanded(c)',
           pc'[c] \in {"re_env", "re_procs"} => got'[c].pids = {},
           pc'[c] = "re_procs" => Pushed(c, "procs")',
           pc'[c] \in {"re_ctrs", "re_env", "re_procs"} => Exclusive(Name(c), Rec(c).ports)'
    PROVE  Local(c)'
BY DEF Local, Gained, Progress, PortsClear, Covered, Rising, Resuming, CheckPhases, FreshPhases,
    AllocPhases, SavedPhases, UpPhases, DnPhases, SuPhases, RePhases, GoneBy, NamedOwed,
    EmptyHanded, ResumeCover

LEMMA LocalDown ==
    ASSUME NEW c, AtRest(Name(c))', pc'[c] \in DnPhases,
           pc'[c] # "dn_procs" => GroupsOwed(Name(c))',
           pc'[c] \notin {"dn_procs", "dn_ctrs"} => CtrsOwed(Name(c))',
           NamedOwed(Name(c), Counted \cap GoneBy(pc[c]))'
    PROVE  Local(c)'
BY DEF Local, Gained, Progress, PortsClear, Covered, Rising, Resuming, CheckPhases, FreshPhases,
    AllocPhases, SavedPhases, UpPhases, DnPhases, SuPhases, RePhases

LEMMA LocalSuspend ==
    ASSUME NEW c, AtRest(Name(c))', pc'[c] \in SuPhases,
           pc'[c] # "su_procs" => GroupsOwed(Name(c))',
           pc'[c] = "su_save" => UpCtrsOwed(Name(c))'
    PROVE  Local(c)'
BY DEF Local, Gained, Progress, PortsClear, Covered, Rising, Resuming, CheckPhases, FreshPhases,
    AllocPhases, SavedPhases, UpPhases, DnPhases, SuPhases, RePhases, GoneBy, NamedOwed

\* The coverage of an up, conjunct by conjunct.
LEMMA NamedCoveredStays ==
    ASSUME NEW c, job'[c] = job[c], owed \subseteq owed', NamedCovered(c),
           \A k \in Counted : <<Name(c), k>> \in made' =>
              \/ <<Name(c), k>> \in owed'
              \/ Pushed(c, TagOf(k))'
              \/ <<Name(c), k>> \in made /\ (Pushed(c, TagOf(k)) => Pushed(c, TagOf(k))')
    PROVE  NamedCovered(c)'
BY DEF NamedCovered, Name

LEMMA CtrsCoveredStays ==
    ASSUME NEW c, job'[c] = job[c], FadesCtrs(Name(c)), got'[c].ctrs = got[c].ctrs,
           got'[c].ports = got[c].ports \/ got[c].ctrs = {}, CtrsCovered(c),
           Pushed(c, "ctrs") => Pushed(c, "ctrs")'
    PROVE  CtrsCovered(c)'
BY DEF CtrsCovered, FadesCtrs, Name

LEMMA UpCtrsCoveredStays ==
    ASSUME NEW c, job'[c] = job[c], FadesCtrs(Name(c)), got'[c].ctrs = got[c].ctrs, UpCtrsCovered(c),
           Pushed(c, "stopctrs") => Pushed(c, "stopctrs")'
    PROVE  UpCtrsCovered(c)'
BY DEF UpCtrsCovered, FadesCtrs, Name

LEMMA GroupsCoveredStays ==
    ASSUME NEW c, job'[c] = job[c], FadesGroups(Name(c)), got'[c].pids = got[c].pids,
           OwnPorts(c)' = OwnPorts(c) \/ got[c].pids = {}, GroupsCovered(c),
           Pushed(c, "procs") => Pushed(c, "procs")'
    PROVE  GroupsCovered(c)'
BY DEF GroupsCovered, FadesGroups, Name

-----------------------------------------------------------------------------

(***************************************************************************)
(* plax up                                                                 *)
(***************************************************************************)

LEMMA StillFades ==
    ASSUME UNCHANGED <<made, ctrs, procs, owed>>
    PROVE  NothingLaunched /\ \A n : Fades(n)
BY DEF Fades, FadesNamed, FadesCtrs, FadesGroups, NothingLaunched

LEMMA TagFacts ==
    /\ TagOf("branch") = "worktree" /\ TagOf("worktree") = "worktree"
    /\ TagOf("mailbox") = "mailbox" /\ TagOf("network") = "network"
    /\ \A d \in Dbs : TagOf(d) = "dbs"
    /\ \A k \in Counted : /\ k \in {"branch", "worktree", "mailbox", "network"} \/ k \in Dbs
                          /\ k \in Dbs => \A d, e \in Dbs : d = e
    /\ \A k \in Counted : TagOf(k) # "record"
BY LifecycleAssumption DEF TagOf, Counted, Kinds

LEMMA UpFacts ==
    ASSUME Base, WorldInv, NEW c \in Clients, pc[c] \in UpPhases
    PROVE  /\ CoreType /\ Holding(c) /\ pc[c] # "close" /\ job[c].op = "up" /\ RiseCover(c)
           /\ Name(c) \in Names
           /\ pc[c] \in FreshPhases \cup {"up_env", "up_clone", "up_migrate", "up_ctrs"}
                 => EmptyHanded(c)
           /\ pc[c] = "up_ctrs" => Pushed(c, "ctrs")
           /\ pc[c] = "up_procs" => got[c].pids = {} /\ Pushed(c, "procs")
           /\ pc[c] \in AllocPhases => /\ Exclusive(Name(c), got[c].ports)
                                       /\ got[c].ports \in PortMap /\ Injective(got[c].ports)
<1>1. Holding(c) /\ pc[c] # "close"
  BY DEF Holding, UpPhases, FreshPhases, AllocPhases, SavedPhases
<1>2. CoreType /\ Known(c) /\ Name(c) \in Names
  BY <1>1, WorkerFacts
<1>3. Gained(c) /\ PortsClear(c) /\ Covered(c)
  BY DEF WorldInv
<1>4. Rising(c)
  BY DEF Rising
<1>5. job[c].op = "up"
  BY <1>2 DEF Known, Control
<1>6. pc[c] \in AllocPhases => got[c].ports \in PortMap /\ Injective(got[c].ports)
  BY <1>2 DEF Known, OwnCopy
<1> QED
  BY <1>1, <1>2, <1>3, <1>4, <1>5, <1>6 DEF Gained, PortsClear, Covered, RiseCover, EmptyHanded

\* The coverage of an up survives a step that leaves the workloads alone.
LEMMA UpCoverStays ==
    ASSUME NEW c, UNCHANGED <<job, ctrs, procs>>, owed \subseteq owed', RiseCover(c),
           got'[c].ctrs = got[c].ctrs, got'[c].pids = got[c].pids,
           got'[c].ports = got[c].ports \/ EmptyHanded(c), job[c].op = "up",
           \A t : Pushed(c, t) => Pushed(c, t)',
           \A k \in Counted : <<Name(c), k>> \in made' =>
              <<Name(c), k>> \in owed' \/ Pushed(c, TagOf(k))' \/ <<Name(c), k>> \in made
    PROVE  RiseCover(c)'
<1>1. FadesCtrs(Name(c)) /\ FadesGroups(Name(c))
  BY DEF FadesCtrs, FadesGroups
<1>2. OwnPorts(c)' = OwnPorts(c) \/ got[c].pids = {}
  BY DEF OwnPorts, EmptyHanded
<1>3. NamedCovered(c)'
  BY NamedCoveredStays DEF RiseCover
<1>4. CtrsCovered(c)'
  BY <1>1, CtrsCoveredStays DEF RiseCover, EmptyHanded
<1>5. GroupsCovered(c)'
  BY <1>1, <1>2, GroupsCoveredStays DEF RiseCover
<1> QED
  BY <1>3, <1>4, <1>5 DEF RiseCover

\* A free name at rest: nothing of it is left but what is owed.
LEMMA RestRises ==
    ASSUME NEW c, AtRest(Name(c)), ~Registered(disk, Name(c)), EmptyHanded(c)
    PROVE  RiseCover(c)
BY DEF AtRest, NamedKnown, NamedOwed, CtrsKnown, GroupsKnown, RiseCover, NamedCovered, CtrsCovered,
    GroupsCovered, EmptyHanded

\* A check that fails, or finds nothing to do.
LEMMA CheckEnds ==
    ASSUME Base, WorldInv, NEW c \in Clients, pc[c] \in CheckPhases,
           UNCHANGED <<disk, job, made, ctrs, procs, owed>>, Goto(c, "close")
    PROVE  Local(c)'
<1>1. pc'[c] = "close" /\ AtRest(Name(c))
  BY DEF Base, IInv, CoreType, Goto, WorldInv, Covered
<1>2. AtRest(Name(c))'
  BY <1>1, OwnRestStays, StillFades DEF Name
<1> QED
  BY <1>1, <1>2, LocalEnd

LEMMA UpCheckLocal ==
    ASSUME Base, WorldInv, NEW c \in Clients, UpCheck(c) PROVE Local(c)'
<1>1. /\ pc[c] = "up_check" /\ UNCHANGED <<disk, job, mem, undo, got>>
      /\ UNCHANGED <<made, ctrs, procs, owed>>
  BY DEF UpCheck, registryVars, worldVars
<1>2. CASE Goto(c, "close")
  BY <1>1, <1>2, CheckEnds DEF CheckPhases
<1>3. CASE Goto(c, "up_worktree") /\ ~Registered(mem[c], Name(c))
  <2>1. pc'[c] = "up_worktree" /\ pc[c] \in CheckPhases
    BY <1>1, <1>3 DEF Base, IInv, CoreType, Goto, CheckPhases
  <2>2. AtRest(Name(c)) /\ EmptyHanded(c)
    BY <2>1 DEF WorldInv, Covered, Gained, EmptyHanded
  <2>3. OwnEntry(c) /\ Control(c)
    BY DEF Base, FileInv, IInv, Known
  <2>4. ~Registered(disk, Name(c)) /\ job[c].op = "up"
    BY <1>1, <1>3, <2>1, <2>3 DEF OwnEntry, SameEntry, Registered, Control, FirstPhase, Job, Ops
  <2>5. RiseCover(c)
    BY <2>2, <2>4, RestRises
  <2>6. RiseCover(c)' /\ EmptyHanded(c)'
    BY <1>1, <2>2, <2>4, <2>5, UpCoverStays, PushedSame DEF EmptyHanded
  <2> QED
    BY <1>1, <2>1, <2>4, <2>6, LocalRise DEF UpPhases, FreshPhases, AllocPhases
<1> QED
  BY <1>2, <1>3 DEF UpCheck

\* The named things: each is made together with its cleanup, or owed.
LEMMA UpMakesLocal ==
    ASSUME Base, WorldInv, NEW c \in Clients, UpWorktree(c) \/ UpMailbox(c) \/ UpNetwork(c)
    PROVE  Local(c)'
<1>1. pc[c] \in FreshPhases /\ pc[c] \in UpPhases
  BY DEF UpWorktree, UpMailbox, UpNetwork, FreshPhases, UpPhases
<1>2. CoreType /\ job[c].op = "up" /\ RiseCover(c) /\ EmptyHanded(c)
  BY <1>1, UpFacts
<1>3. UNCHANGED <<job, got, ctrs, procs>> /\ owed \subseteq owed'
  BY DEF UpWorktree, UpMailbox, UpNetwork
<1>4. pc'[c] \in {"up_mailbox", "up_network", "up_ports", "rollback"}
  BY <1>2 DEF UpWorktree, UpMailbox, UpNetwork, Goto, CoreType
<1>5. undo' = undo \/ \E tag \in UndoTags : Push(c, tag)
  BY DEF UpWorktree, UpMailbox, UpNetwork, UndoTags
<1>6. \A t : Pushed(c, t) => Pushed(c, t)'
  BY <1>2, <1>5, PushedSame, PushedAppend
<1>7. ASSUME NEW tag \in UndoTags, Push(c, tag) PROVE Pushed(c, tag)'
  BY <1>2, <1>7, PushedAppend
<1>8. \A k \in Counted : <<Name(c), k>> \in made' =>
              <<Name(c), k>> \in owed' \/ Pushed(c, TagOf(k))' \/ <<Name(c), k>> \in made
  <2>1. CASE UpWorktree(c)
    BY <1>7, <2>1, TagFacts DEF UpWorktree, UndoTags
  <2>2. CASE UpMailbox(c)
    BY <1>7, <2>2, TagFacts DEF UpMailbox, UndoTags
  <2>3. CASE UpNetwork(c)
    BY <1>7, <2>3, TagFacts DEF UpNetwork, UndoTags
  <2> QED
    BY <2>1, <2>2, <2>3
<1>9. RiseCover(c)' /\ EmptyHanded(c)'
  BY <1>2, <1>3, <1>6, <1>8, UpCoverStays DEF EmptyHanded
<1> QED
  BY <1>2, <1>3, <1>4, <1>9, LocalRise DEF UpPhases, FreshPhases, AllocPhases

\* A step of up within its phases, or over to the rollback, that only pushes.
LEMMA UpPlainLocal ==
    ASSUME Base, WorldInv, NEW c \in Clients, UpEnv(c) \/ UpMigrate(c) \/ UpSettle(c)
    PROVE  Local(c)'
<1>1. pc[c] \in AllocPhases /\ pc[c] \in UpPhases
  BY DEF UpEnv, UpMigrate, UpSettle, AllocPhases, UpPhases
<1>2. /\ CoreType /\ job[c].op = "up" /\ RiseCover(c) /\ Exclusive(Name(c), got[c].ports)
      /\ pc[c] \in {"up_env", "up_migrate"} => EmptyHanded(c)
  BY <1>1, UpFacts
<1>3. UNCHANGED <<job, got, made, ctrs, procs, owed>>
  BY DEF UpEnv, UpMigrate, UpSettle, worldVars
<1>4. \/ pc'[c] = "rollback"
      \/ UpEnv(c) /\ pc'[c] = "up_clone"
      \/ UpSettle(c) /\ pc'[c] = "up_save"
      \/ UpMigrate(c) /\ pc'[c] = "up_ctrs" /\ Push(c, "ctrs")
  BY <1>2 DEF UpEnv, UpMigrate, UpSettle, Goto, CoreType
<1>5. undo' = undo \/ Push(c, "ctrs")
  BY DEF UpEnv, UpMigrate, UpSettle
<1>6. \A t : Pushed(c, t) => Pushed(c, t)'
  BY <1>2, <1>5, PushedSame, PushedAppend DEF UndoTags
<1>7. pc'[c] = "up_ctrs" => Pushed(c, "ctrs")'
  BY <1>2, <1>4, PushedAppend DEF UndoTags
<1>8. RiseCover(c)' /\ (EmptyHanded(c) => EmptyHanded(c)')
  BY <1>2, <1>3, <1>6, UpCoverStays DEF EmptyHanded
<1>9. PICK n, ports : n = Name(c) /\ ports = got[c].ports
  OBVIOUS
<1>10. Exclusive(n, ports)'
  BY <1>2, <1>3, <1>9, ExclusiveStays, StillFades
<1>11. Exclusive(Name(c), got[c].ports)'
  BY <1>3, <1>9, <1>10 DEF Exclusive, Name
<1> QED
  BY <1>2, <1>3, <1>4, <1>7, <1>8, <1>11, LocalRise
  DEF UpPhases, FreshPhases, AllocPhases, UpEnv, UpMigrate, UpSettle

\* A group that is no leftover runs on a port that is allocated to its
\* instance, in the copy of whoever is at work on another one.
LEMMA TakenPorts ==
    ASSUME Base, WorldInv, NEW c \in Clients, Holding(c), NEW g \in procs \ owed, g[1] # Name(c)
    PROVE  g[1] \in Names /\ g[3] \in Ports /\ mem[c].alloc[g[3]] = g[1]
<1>1. g[1] \in Names /\ g[2] \in Owners /\ g[3] \in Ports
  BY DEF Base, TypeOK, Group, Owners
<1>2. PICK m \in Names : m = g[1]
  BY <1>1
<1>3. ~Busy(m)
  <2>1. \A d \in Clients \ {c} : pc[d] \in {"idle", "open"}
    BY WorkerFacts
  <2> QED
    BY <1>2, <2>1 DEF Busy, Holding, Name
<1>4. Registered(disk, m) /\ g[3] = disk.inst[m].ports[g[2]]
  BY <1>2, <1>3 DEF WorldInv, AtRest, GroupsKnown
<1>5. disk.alloc[g[3]] = m
  BY <1>1, <1>4 DEF Base, IInv, PortTablesAgree, TablesAgree, PortsOf
<1>6. mem[c].alloc[g[3]] = m
  BY <1>1, <1>2, <1>5 DEF Base, IInv, Known, OtherCopies
<1> QED
  BY <1>1, <1>2, <1>6

LEMMA UpPortsLocal ==
    ASSUME Base, WorldInv, NEW c \in Clients, UpPorts(c) PROVE Local(c)'
<1>1. pc[c] \in FreshPhases /\ pc[c] \in UpPhases
  BY DEF UpPorts, FreshPhases, UpPhases
<1>2. CoreType /\ job[c].op = "up" /\ RiseCover(c) /\ EmptyHanded(c)
  BY <1>1, UpFacts
<1>3. UNCHANGED <<job, made, ctrs, procs, owed>>
  BY DEF UpPorts, worldVars
<1>4. CASE pc'[c] = "rollback" /\ UNCHANGED <<got, undo>>
  <2>1. RiseCover(c)'
    BY <1>2, <1>3, <1>4, UpCoverStays, PushedSame
  <2> QED
    BY <1>2, <1>3, <1>4, <2>1, LocalRise DEF UpPhases, FreshPhases, AllocPhases
<1>5. ASSUME NEW silent, NEW ports \in [Owners -> FreePorts(mem[c]) \ BoundPorts(silent)],
             got' = [got EXCEPT ![c].ports = ports], Push(c, "ports"), pc'[c] = "up_env"
      PROVE  Local(c)'
  <2>1. got'[c].ports = ports /\ got'[c].ctrs = got[c].ctrs /\ got'[c].pids = got[c].pids
    BY <1>2, <1>5 DEF CoreType
  <2>2. RiseCover(c)' /\ EmptyHanded(c)'
    BY <1>2, <1>3, <1>5, <2>1, UpCoverStays, PushedAppend DEF EmptyHanded, UndoTags
  <2>3. \A o \in Owners : ports[o] \notin BoundPorts(silent) /\ mem[c].alloc[ports[o]] = NoName
    BY <1>5 DEF FreePorts
  <2>4. ASSUME NEW g \in procs \ owed, NEW o \in Owners PROVE g[3] # ports[o]
    <3>1. g[1] # Name(c)
      BY <1>2 DEF RiseCover, GroupsCovered, EmptyHanded
    <3>2. g[1] \in Names /\ mem[c].alloc[g[3]] = g[1]
      BY <1>1, <3>1, TakenPorts DEF Holding, FreshPhases
    <3> QED
      BY <2>3, <3>2, NullAssumption
  <2>5. \A x \in ctrs : x.up => \A o \in Owners : x.port # ports[o]
    BY <2>3 DEF BoundPorts
  <2>6. Exclusive(Name(c), got[c].ports)'
    BY <1>3, <2>1, <2>4, <2>5 DEF Exclusive
  <2> QED
    BY <1>2, <1>3, <1>5, <2>2, <2>6, LocalRise DEF UpPhases, FreshPhases, AllocPhases
<1>6. PICK silent : \/ Goto(c, "rollback") /\ UNCHANGED <<got, undo>>
                    \/ \E ports \in [Owners -> FreePorts(mem[c]) \ BoundPorts(silent)] :
                          /\ got' = [got EXCEPT ![c].ports = ports]
                          /\ Push(c, "ports") /\ Goto(c, "up_env")
  BY Zenon DEF UpPorts
<1>7. CASE Goto(c, "rollback") /\ UNCHANGED <<got, undo>>
  BY <1>2, <1>4, <1>7 DEF Goto, CoreType
<1>8. ASSUME NEW ports \in [Owners -> FreePorts(mem[c]) \ BoundPorts(silent)],
             got' = [got EXCEPT ![c].ports = ports], Push(c, "ports"), Goto(c, "up_env")
      PROVE  Local(c)'
  BY <1>2, <1>5, <1>8 DEF Goto, CoreType
<1> QED
  BY <1>6, <1>7, <1>8

\* The databases: with one of them, it is cloned and its cleanup pushed, or
\* what is left of a failed clone is owed.
LEMMA UpCloneLocal ==
    ASSUME Base, WorldInv, NEW c \in Clients, UpClone(c) PROVE Local(c)'
<1>1. pc[c] = "up_clone" /\ pc[c] \in AllocPhases /\ pc[c] \in UpPhases
  BY DEF UpClone, AllocPhases, UpPhases
<1>2. /\ CoreType /\ job[c].op = "up" /\ RiseCover(c) /\ EmptyHanded(c)
      /\ Exclusive(Name(c), got[c].ports)
  BY <1>1, UpFacts
<1>3. UNCHANGED <<job, got, ctrs, procs>> /\ owed \subseteq owed'
  BY DEF UpClone
<1>4. pc'[c] \in {"up_migrate", "rollback"}
  BY <1>2 DEF UpClone, Goto, CoreType
<1>5. undo' = undo \/ Push(c, "dbs")
  BY DEF UpClone
<1>6. \A t : Pushed(c, t) => Pushed(c, t)'
  BY <1>2, <1>5, PushedSame, PushedAppend DEF UndoTags
<1>7. \A k \in Counted : <<Name(c), k>> \in made' =>
              <<Name(c), k>> \in owed' \/ Pushed(c, TagOf(k))' \/ <<Name(c), k>> \in made
  <2>1. SUFFICES ASSUME NEW k \in Counted, k \in Dbs, <<Name(c), k>> \in made',
                        <<Name(c), k>> \notin made
                 PROVE  <<Name(c), k>> \in owed' \/ Pushed(c, TagOf(k))'
    <3>1. \A t \in made' : t \in made \/ t[2] \in Dbs
      <4>1. ASSUME NEW ds \in SUBSET Dbs, made' = made \cup ({Name(c)} \X ds)
            PROVE  \A t \in made' : t \in made \/ t[2] \in Dbs
        BY <4>1
      <4>2. \E ds \in SUBSET Dbs : made' = made \cup ({Name(c)} \X ds)
        <5>1. ASSUME NEW d \in Dbs, NEW done \in SUBSET Dbs PROVE done \cup {d} \in SUBSET Dbs
          OBVIOUS
        <5> QED
          BY <5>1 DEF UpClone
      <4> QED
        BY <4>1, <4>2
    <3> QED
      BY <3>1
  <2>2. \A d \in Dbs : d = k
    BY <2>1, TagFacts
  <2>3. CASE Push(c, "dbs")
    BY <1>2, <2>1, <2>3, PushedAppend, TagFacts DEF UndoTags
  <2>4. CASE \E d \in Dbs : \E done \in SUBSET (Dbs \ {d}) :
                \/ made' = made \cup ({Name(c)} \X done)
                \/ owed' = owed \cup {<<Name(c), d>>}
    <3>0. PICK d \in Dbs : \E done \in SUBSET (Dbs \ {d}) :
                \/ made' = made \cup ({Name(c)} \X done)
                \/ owed' = owed \cup {<<Name(c), d>>}
      BY <2>4
    <3>1. PICK done \in SUBSET (Dbs \ {d}) :
                \/ made' = made \cup ({Name(c)} \X done)
                \/ owed' = owed \cup {<<Name(c), d>>}
      BY <3>0
    <3>2. d = k /\ done = {}
      BY <2>2
    <3> QED
      BY <2>1, <3>1, <3>2
  <2>5. Push(c, "dbs") \/ \E d \in Dbs : \E done \in SUBSET (Dbs \ {d}) :
                            \/ made' = made \cup ({Name(c)} \X done)
                            \/ owed' = owed \cup {<<Name(c), d>>}
    <3> DEFINE there == {d \in Dbs : <<Name(c), d>> \in made}
    <3>1. Push(c, "dbs") \/ \E d \in Dbs : \E done \in SUBSET (Dbs \ (there \cup {d})) :
                              \/ made' = made \cup ({Name(c)} \X done)
                              \/ owed' = owed \cup {<<Name(c), d>>}
      BY Zenon DEF UpClone
    <3> HIDE DEF there
    <3>2. \A d \in Dbs : \A done \in SUBSET (Dbs \ (there \cup {d})) : done \in SUBSET (Dbs \ {d})
      OBVIOUS
    <3> QED
      BY <3>1, <3>2, SMTT(30)
  <2> QED
    BY <2>3, <2>4, <2>5
<1>8. RiseCover(c)' /\ EmptyHanded(c)'
  BY <1>2, <1>3, <1>6, <1>7, UpCoverStays DEF EmptyHanded
<1>9. Exclusive(Name(c), got[c].ports)'
  BY <1>2, <1>3 DEF Exclusive, Name
<1> QED
  BY <1>2, <1>3, <1>4, <1>8, <1>9, LocalRise DEF UpPhases, FreshPhases, AllocPhases

\* The containers: every one that started is remembered, and its cleanup is
\* on the stack already; one that is stuck is owed.
LEMMA UpCtrsLocal ==
    ASSUME Base, WorldInv, NEW c \in Clients, UpCtrs(c) PROVE Local(c)' /\ NoClash'
<1>1. pc[c] = "up_ctrs" /\ pc[c] \in AllocPhases /\ pc[c] \in UpPhases
  BY DEF UpCtrs, AllocPhases, UpPhases
<1>2. /\ CoreType /\ job[c].op = "up" /\ RiseCover(c) /\ EmptyHanded(c)
      /\ Exclusive(Name(c), got[c].ports) /\ Injective(got[c].ports) /\ Pushed(c, "ctrs")
  BY <1>1, UpFacts
<1>3. PICK n, ports : n = Name(c) /\ ports = got[c].ports
  OBVIOUS
<1>4. UNCHANGED <<job, made, procs>> /\ owed \subseteq owed' /\ Name(c)' = n
  BY <1>3 DEF UpCtrs, Name
<1>5. PICK ok \in SUBSET Svcs : \E gone \in SUBSET (Svcs \ ok) : \E stuck \in SUBSET gone :
          /\ ctrs' = {x \in ctrs : x.name # Name(c) \/ x.svc \notin ok \cup gone}
                       \cup {NewContainer(c, s, TRUE) : s \in ok}
                       \cup {NewContainer(c, s, FALSE) : s \in stuck}
          /\ got' = [got EXCEPT ![c].ctrs = ok]
          /\ owed' = owed \cup ({Name(c)} \X stuck)
          /\ IF ok = Svcs THEN Push(c, "procs") /\ Goto(c, "up_procs")
                          ELSE UNCHANGED undo /\ Goto(c, "rollback")
  BY Zenon DEF UpCtrs
<1>6. \A s : /\ NewContainer(c, s, TRUE).name = n /\ NewContainer(c, s, TRUE).svc = s
             /\ NewContainer(c, s, TRUE).port = ports[s]
             /\ NewContainer(c, s, FALSE).name = n /\ NewContainer(c, s, FALSE).svc = s
             /\ ~NewContainer(c, s, FALSE).up
  BY <1>3 DEF NewContainer
<1>7. \A x \in ctrs' :
         \/ x \in ctrs /\ (x.name # n \/ x.svc \notin ok)
         \/ x.name = n /\ x.svc \in ok /\ x.port = ports[x.svc]
         \/ x.name = n /\ x.svc \notin ok /\ <<n, x.svc>> \in owed' /\ ~x.up
  <2>1. PICK gone \in SUBSET (Svcs \ ok) : \E stuck \in SUBSET gone :
          /\ ctrs' = {x \in ctrs : x.name # Name(c) \/ x.svc \notin ok \cup gone}
                       \cup {NewContainer(c, s, TRUE) : s \in ok}
                       \cup {NewContainer(c, s, FALSE) : s \in stuck}
          /\ owed' = owed \cup ({Name(c)} \X stuck)
    BY <1>5, ZenonT(60)
  <2>2. PICK stuck \in SUBSET gone :
          /\ ctrs' = {x \in ctrs : x.name # n \/ x.svc \notin ok \cup gone}
                       \cup {NewContainer(c, s, TRUE) : s \in ok}
                       \cup {NewContainer(c, s, FALSE) : s \in stuck}
          /\ owed' = owed \cup ({n} \X stuck)
    BY <1>3, <2>1
  <2>3. ASSUME NEW x \in ctrs'
        PROVE  \/ x \in ctrs /\ (x.name # n \/ x.svc \notin ok)
               \/ \E s \in ok : x = NewContainer(c, s, TRUE)
               \/ \E s \in stuck : x = NewContainer(c, s, FALSE)
    BY <2>2
  <2>4. \A s \in stuck : s \notin ok /\ <<n, s>> \in owed'
    BY <2>2
  <2>5. ASSUME NEW s \in ok, NEW x, x = NewContainer(c, s, TRUE)
        PROVE  x.name = n /\ x.svc \in ok /\ x.port = ports[x.svc]
    BY <1>6, <2>5, ZenonT(60)
  <2>6. ASSUME NEW s \in stuck, NEW x, x = NewContainer(c, s, FALSE)
        PROVE  x.name = n /\ x.svc \notin ok /\ <<n, x.svc>> \in owed' /\ ~x.up
    BY <1>6, <2>4, <2>6
  <2> QED
    BY <2>3, <2>5, <2>6
<1>8. got'[c].ctrs = ok /\ got'[c].ports = ports /\ got'[c].pids = got[c].pids
  BY <1>2, <1>3, <1>5 DEF CoreType
<1>9. undo' = undo \/ Push(c, "procs")
  BY <1>5
<1>10. \A t : Pushed(c, t) => Pushed(c, t)'
  BY <1>2, <1>9, PushedSame, PushedAppend DEF UndoTags
<1>11. CtrsCovered(c)'
  <2>1. \A x \in ctrs : x.name = n => <<n, x.svc>> \in owed
    BY <1>2, <1>3 DEF RiseCover, CtrsCovered, EmptyHanded
  <2>2. Pushed(c, "ctrs")'
    BY <1>2, <1>10
  <2>3. \A x \in ctrs' : x.name = n =>
           /\ <<n, x.svc>> \in owed' \/ x.svc \in ok
           /\ x.svc \in ok => x.port = ports[x.svc]
    BY <1>4, <1>7, <2>1
  <2> QED
    BY <1>4, <1>8, <2>2, <2>3 DEF CtrsCovered
<1>12. NamedCovered(c)'
  BY <1>2, <1>4, <1>10, NamedCoveredStays DEF RiseCover
<1>13. GroupsCovered(c)'
  <2>1. FadesGroups(Name(c))
    BY <1>4 DEF FadesGroups
  <2> QED
    BY <1>2, <1>4, <1>8, <1>10, <2>1, GroupsCoveredStays DEF RiseCover, EmptyHanded
<1>14. Launches(n, ports)
  BY <1>4, <1>5, <1>7 DEF Launches, WorldInv, NoClash
<1>15. procs \subseteq Group /\ \A x \in ctrs : x.svc \in Svcs
  BY DEF Base, TypeOK, Container
<1>16. NoClash' /\ Exclusive(n, ports)'
  BY <1>2, <1>3, <1>14, <1>15, LaunchClash DEF WorldInv
<1>17. Exclusive(Name(c), got[c].ports)'
  BY <1>4, <1>8, <1>16 DEF Exclusive
<1>18. \/ pc'[c] = "rollback"
       \/ pc'[c] = "up_procs" /\ Pushed(c, "procs")'
  BY <1>2, <1>5, PushedAppend DEF Goto, CoreType, UndoTags
<1>19. job'[c].op = "up" /\ got'[c].pids = {} /\ RiseCover(c)'
  BY <1>2, <1>4, <1>8, <1>11, <1>12, <1>13 DEF EmptyHanded, RiseCover
<1> QED
  BY <1>16, <1>17, <1>18, <1>19, LocalRise DEF UpPhases, FreshPhases, AllocPhases

\* The processes: their cleanup is on the stack, and those that started are
\* remembered even if another one did not.
LEMMA UpProcsLocal ==
    ASSUME Base, WorldInv, NEW c \in Clients, UpProcs(c) PROVE Local(c)' /\ NoClash'
<1>1. pc[c] = "up_procs" /\ pc[c] \in AllocPhases /\ pc[c] \in UpPhases
  BY DEF UpProcs, AllocPhases, UpPhases
<1>2. /\ CoreType /\ job[c].op = "up" /\ RiseCover(c) /\ got[c].pids = {}
      /\ Exclusive(Name(c), got[c].ports) /\ Injective(got[c].ports) /\ Pushed(c, "procs")
  BY <1>1, UpFacts
<1>3. PICK n, ports : n = Name(c) /\ ports = got[c].ports
  OBVIOUS
<1>4. UNCHANGED <<job, made, ctrs, owed, undo>> /\ Name(c)' = n
  BY <1>3 DEF UpProcs, Name
<1>5. PICK pids \in PidSets, next \in {"up_settle", "rollback"} :
          Spawns(c, got[c].ports, pids) /\ Goto(c, next)
  BY UpSpawns
<1>6. /\ got'[c].pids = pids /\ got'[c].ports = ports /\ got'[c].ctrs = got[c].ctrs
      /\ pc'[c] \in {"up_settle", "rollback"}
  BY <1>2, <1>3, <1>5 DEF CoreType, Goto, Spawns
<1>7. \A t : Pushed(c, t) => Pushed(c, t)'
  BY <1>4, PushedSame
<1>8a. \A g \in procs : g[1] = n => g \in owed
  BY <1>2, <1>3 DEF RiseCover, GroupsCovered
<1>8b. NewGroups(n, ports, pids)
  BY <1>3, <1>4, <1>5, <1>8a, SpawnedGroups DEF Spawns, Base, TypeOK
<1>8. GroupsCovered(c)'
  <2>2. Pushed(c, "procs")' /\ OwnPorts(c)' = ports
    BY <1>2, <1>4, <1>6, <1>7 DEF OwnPorts
  <2> QED
    BY <1>4, <1>6, <1>8b, <2>2 DEF GroupsCovered, NewGroups
<1>9. NamedCovered(c)'
  BY <1>2, <1>4, <1>7, NamedCoveredStays DEF RiseCover
<1>10. CtrsCovered(c)'
  <2>1. FadesCtrs(Name(c))
    BY <1>4 DEF FadesCtrs
  <2> QED
    BY <1>2, <1>3, <1>4, <1>6, <1>7, <2>1, CtrsCoveredStays DEF RiseCover
<1>11. Launches(n, ports)
  BY <1>4, <1>8b, NewLaunches
<1>12. procs \subseteq Group /\ \A x \in ctrs : x.svc \in Svcs
  BY DEF Base, TypeOK, Container
<1>13. NoClash' /\ Exclusive(n, ports)'
  BY <1>2, <1>3, <1>11, <1>12, LaunchClash DEF WorldInv
<1>14. Exclusive(Name(c), got[c].ports)'
  BY <1>4, <1>6, <1>13 DEF Exclusive
<1>15. job'[c].op = "up" /\ RiseCover(c)'
  BY <1>2, <1>4, <1>8, <1>9, <1>10 DEF RiseCover
<1> QED
  BY <1>6, <1>13, <1>14, <1>15, LocalRise DEF UpPhases, FreshPhases, AllocPhases

\* The entry is written: for the world this is one more cleanup.
LEMMA UpSaveLocal ==
    ASSUME Base, WorldInv, NEW c \in Clients, UpSave(c) PROVE Local(c)'
<1>1. pc[c] \in UpPhases
  BY DEF UpSave, AllocPhases, UpPhases
<1>2. CoreType /\ job[c].op = "up" /\ RiseCover(c)
  BY <1>1, UpFacts
<1>3. UNCHANGED <<job, got, made, ctrs, procs, owed>> /\ (undo' = undo \/ Push(c, "registry"))
  BY DEF UpSave, worldVars
<1>4. pc'[c] \in {"up_record", "rollback"}
  BY <1>2 DEF UpSave, Goto, CoreType
<1>5. \A t : Pushed(c, t) => Pushed(c, t)'
  BY <1>2, <1>3, PushedSame, PushedAppend DEF UndoTags
<1>6. RiseCover(c)'
  BY <1>2, <1>3, <1>5, UpCoverStays
<1> QED
  BY <1>2, <1>3, <1>4, <1>6, LocalRise DEF UpPhases, FreshPhases, AllocPhases, SavedPhases

LEMMA UpRecordLocal ==
    ASSUME Base, WorldInv, NEW c \in Clients, UpRecord(c) PROVE Local(c)'
<1>1. pc[c] \in UpPhases
  BY DEF UpRecord, SavedPhases, UpPhases
<1>2. CoreType /\ job[c].op = "up" /\ RiseCover(c)
  BY <1>1, UpFacts
<1>3. /\ UNCHANGED <<job, got, ctrs, procs, owed>> /\ (undo' = undo \/ Push(c, "record"))
      /\ made' \subseteq made \cup {<<Name(c), "record">>}
  BY DEF UpRecord
<1>4. pc'[c] \in {"up_verify", "rollback"}
  BY <1>2 DEF UpRecord, Goto, CoreType
<1>5. \A t : Pushed(c, t) => Pushed(c, t)'
  BY <1>2, <1>3, PushedSame, PushedAppend DEF UndoTags
<1>6. \A k \in Counted : k # "record"
  BY LifecycleAssumption DEF Counted, Kinds
<1>7. RiseCover(c)'
  BY <1>2, <1>3, <1>5, <1>6, UpCoverStays
<1> QED
  BY <1>2, <1>3, <1>4, <1>7, LocalRise DEF UpPhases, FreshPhases, AllocPhases, SavedPhases

\* The end of an up that is registered: what it has is in its record.
LEMMA RisenRest ==
    ASSUME NEW c, RiseCover(c), Registered(disk, Name(c)), Entry(c) = NewRecord(c), job[c].op = "up"
    PROVE  AtRest(Name(c))
<1>1. /\ disk.inst[Name(c)].state = "running" /\ disk.inst[Name(c)].ports = got[c].ports
      /\ disk.inst[Name(c)].ctrs = got[c].ctrs /\ disk.inst[Name(c)].pids = got[c].pids
  BY DEF Entry, NewRecord
<1>2. CtrsKnown(Name(c)) /\ PortsRight(Name(c))
  BY <1>1 DEF RiseCover, CtrsCovered, CtrsKnown, PortsRight
<1>3. GroupsKnown(Name(c))
  BY <1>1 DEF RiseCover, GroupsCovered, GroupsKnown, OwnPorts
<1>4. NamedKnown(Name(c)) /\ Quiet(Name(c))
  BY <1>1 DEF NamedKnown, Quiet
<1> QED
  BY <1>2, <1>3, <1>4 DEF AtRest

LEMMA UpVerifyLocal ==
    ASSUME Base, WorldInv, NEW c \in Clients, UpVerify(c) PROVE Local(c)'
<1>1. pc[c] \in UpPhases /\ pc[c] \in SavedPhases
  BY DEF UpVerify, SavedPhases, UpPhases
<1>2. CoreType /\ job[c].op = "up" /\ RiseCover(c) /\ OwnEntry(c) /\ Name(c) \in Names
  BY <1>1, UpFacts, WorkerFacts
<1>3. UNCHANGED <<job, undo, got, made, ctrs, procs, owed>> /\ (disk' = mem[c] \/ UNCHANGED disk)
  BY DEF UpVerify, worldVars, Saves, SaveFails
<1>4. CASE pc'[c] = "rollback"
  <2>1. RiseCover(c)'
    BY <1>2, <1>3, PushedSame, UpCoverStays
  <2> QED
    BY <1>2, <1>3, <1>4, <2>1, LocalRise DEF UpPhases, FreshPhases, AllocPhases, SavedPhases
<1>5. CASE pc'[c] = "close"
  <2>1. Registered(disk, Name(c)) /\ Entry(c) = NewRecord(c) /\ Rec(c) = NewRecord(c)
    BY <1>1, <1>2 DEF OwnEntry
  <2>2. disk'.inst[Name(c)] = disk.inst[Name(c)]
    BY <1>3, <2>1 DEF Entry, Rec
  <2>3. AtRest(Name(c))
    BY <1>2, <2>1, RisenRest
  <2>4. AtRest(Name(c))'
    BY <1>3, <2>2, <2>3, OwnRestStays, StillFades DEF Name
  <2> QED
    BY <1>5, <2>4, LocalEnd
<1> QED
  BY <1>2, <1>4, <1>5 DEF UpVerify, Goto, CoreType

-----------------------------------------------------------------------------

(***************************************************************************)
(* Rollback                                                                *)
(***************************************************************************)

LEMMA RollFacts ==
    ASSUME Base, WorldInv, NEW c \in Clients, pc[c] = "rollback"
    PROVE  /\ CoreType /\ Holding(c) /\ Name(c) \in Names /\ OwnEntry(c)
           /\ job[c].op = "up" => RiseCover(c)
           /\ job[c].op # "up" => /\ ResumeCover(c) /\ job[c].op = "resume"
                                  /\ Registered(disk, Name(c))
                                  /\ Entry(c).ports = Rec(c).ports /\ Entry(c).ctrs = Rec(c).ctrs
<1>1. Holding(c)
  BY DEF Holding
<1>2. CoreType /\ Name(c) \in Names /\ OwnEntry(c)
  BY <1>1, WorkerFacts
<1>3. job[c].op = "up" => Rising(c)
  BY DEF Rising
<1>4. job[c].op # "up" => Resuming(c)
  BY DEF Resuming
<1> QED
  BY <1>1, <1>2, <1>3, <1>4 DEF WorldInv, Covered, RiseCover, ResumeCover, OwnEntry

LEMMA StopsCtrsFades ==
    ASSUME TypeOK, NEW c, StopsCtrs(c) PROVE FadesCtrs(Name(c))
BY StopsCtrsWorld DEF FadesCtrs

\* What the record of a resume accounts for stays accounted for.
LEMMA OwnKnownStays ==
    ASSUME NEW c, Name(c)' = Name(c), FadesCtrs(Name(c)),
           Registered(disk, Name(c)), disk'.inst[Name(c)] # NoRec,
           disk'.inst[Name(c)].ctrs = disk.inst[Name(c)].ctrs,
           disk'.inst[Name(c)].ports = disk.inst[Name(c)].ports,
           CtrsKnown(Name(c)), PortsRight(Name(c))
    PROVE  CtrsKnown(Name(c))' /\ PortsRight(Name(c))'
<1>1. PICK n : n = Name(c)
  OBVIOUS
<1>2. CtrsKnown(n)' /\ PortsRight(n)'
  BY <1>1, CtrsKnownStays, PortsRightStays DEF Registered
<1> QED
  BY <1>1, <1>2 DEF CtrsKnown, PortsRight, Registered

\* A resume goes on, with its entry the same in what it lists.
LEMMA ResumeCoverStays ==
    ASSUME NEW c, job'[c] = job[c], FadesCtrs(Name(c)), FadesGroups(Name(c)), ResumeCover(c),
           Registered(disk, Name(c)), disk'.inst[Name(c)] # NoRec,
           disk'.inst[Name(c)].ctrs = disk.inst[Name(c)].ctrs,
           disk'.inst[Name(c)].ports = disk.inst[Name(c)].ports,
           got'[c].ctrs = got[c].ctrs, got'[c].pids = got[c].pids, OwnPorts(c)' = OwnPorts(c),
           \A t \in {"stopctrs", "procs"} : Pushed(c, t) => Pushed(c, t)'
    PROVE  ResumeCover(c)'
<1>1. Name(c)' = Name(c)
  BY DEF Name
<1>2. CtrsKnown(Name(c))' /\ PortsRight(Name(c))'
  BY <1>1, OwnKnownStays DEF ResumeCover
<1>3. UpCtrsCovered(c)' /\ GroupsCovered(c)'
  BY UpCtrsCoveredStays, GroupsCoveredStays DEF ResumeCover
<1> QED
  BY <1>2, <1>3 DEF ResumeCover

\* The rollback continues if the coverage does.
LEMMA RollLocal ==
    ASSUME NEW c, pc'[c] = "rollback", UNCHANGED job,
           job[c].op = "up" => RiseCover(c)', job[c].op # "up" => ResumeCover(c)'
    PROVE  Local(c)'
BY LocalRise, LocalResume DEF UpPhases, FreshPhases, AllocPhases, SavedPhases, RePhases

\* The cleanup of named things removes what it stands for, or it is owed.
LEMMA UndoMadeLocal ==
    ASSUME Base, WorldInv, NEW c \in Clients, NEW tag, NEW kinds, UndoMade(c, tag, kinds),
           tag \notin {"ctrs", "procs", "stopctrs", "suspend"},
           \A k \in Counted : TagOf(k) = tag => k \in kinds
    PROVE  Local(c)'
<1>1. Undoing(c, tag) /\ pc[c] = "rollback" /\ pc'[c] = "rollback"
  BY DEF UndoMade, Undoing
<1>2. CoreType /\ job[c].op = "up"
  BY <1>1, PopFacts DEF Base, TagsOf
<1>3. RiseCover(c)
  BY <1>1, <1>2, RollFacts
<1>4. UNCHANGED <<job, got, ctrs, procs>> /\ owed \subseteq owed' /\ made' \subseteq made
  BY DEF UndoMade, Removing
<1>5. \A t : Pushed(c, t) /\ t # tag => Pushed(c, t)'
  BY <1>1, <1>2, PushedPop
<1>6. \A k \in kinds : <<Name(c), k>> \in made' => <<Name(c), k>> \in owed'
  BY DEF UndoMade, Removing
<1>7. NamedCovered(c)'
  BY <1>3, <1>4, <1>5, <1>6, NamedCoveredStays DEF RiseCover
<1>8. FadesCtrs(Name(c)) /\ FadesGroups(Name(c)) /\ OwnPorts(c)' = OwnPorts(c)
  BY <1>2, <1>4 DEF FadesCtrs, FadesGroups, OwnPorts
<1>9. CtrsCovered(c)' /\ GroupsCovered(c)'
  BY <1>3, <1>4, <1>5, <1>8, CtrsCoveredStays, GroupsCoveredStays DEF RiseCover
<1> QED
  BY <1>1, <1>2, <1>4, <1>7, <1>9, RollLocal DEF RiseCover

LEMMA UndoNamedLocal ==
    ASSUME Base, WorldInv, NEW c \in Clients,
           UndoWorktree(c) \/ UndoMailbox(c) \/ UndoNetwork(c) \/ UndoDbs(c) \/ UndoRecord(c)
    PROVE  Local(c)'
<1>1. CASE UndoWorktree(c)
  BY <1>1, UndoMadeLocal, TagFacts DEF UndoWorktree
<1>2. CASE UndoMailbox(c)
  BY <1>2, UndoMadeLocal, TagFacts DEF UndoMailbox
<1>3. CASE UndoNetwork(c)
  BY <1>3, UndoMadeLocal, TagFacts DEF UndoNetwork
<1>4. CASE UndoDbs(c)
  BY <1>4, UndoMadeLocal, TagFacts DEF UndoDbs
<1>5. CASE UndoRecord(c)
  BY <1>5, UndoMadeLocal, TagFacts DEF UndoRecord
<1> QED
  BY <1>1, <1>2, <1>3, <1>4, <1>5

\* The cleanups that only write the copy, and perhaps the file.
LEMMA UndoBookLocal ==
    ASSUME Base, WorldInv, NEW c \in Clients, UndoPorts(c) \/ UndoRegistry(c) PROVE Local(c)'
<1>1. PICK tag \in {"ports", "registry"} : Undoing(c, tag)
  BY DEF UndoPorts, UndoRegistry
<1>2. CoreType /\ job[c].op = "up" /\ pc[c] = "rollback" /\ pc'[c] = "rollback"
  BY <1>1, PopFacts DEF Base, TagsOf, Undoing
<1>3. RiseCover(c)
  BY <1>2, RollFacts
<1>4. UNCHANGED <<job, got, made, ctrs, procs, owed>>
  BY DEF UndoPorts, UndoRegistry, worldVars
<1>5. \A t : Pushed(c, t) /\ t # tag => Pushed(c, t)'
  BY <1>1, <1>2, PushedPop
<1>6. NamedCovered(c)'
  BY <1>1, <1>3, <1>4, <1>5, NamedCoveredStays, TagFacts DEF RiseCover
<1>7. FadesCtrs(Name(c)) /\ FadesGroups(Name(c)) /\ OwnPorts(c)' = OwnPorts(c)
  BY <1>2, <1>4 DEF FadesCtrs, FadesGroups, OwnPorts
<1>8. CtrsCovered(c)' /\ GroupsCovered(c)'
  BY <1>1, <1>3, <1>4, <1>5, <1>7, CtrsCoveredStays, GroupsCoveredStays DEF RiseCover
<1> QED
  BY <1>2, <1>4, <1>6, <1>8, RollLocal DEF RiseCover

LEMMA UndoCtrsLocal ==
    ASSUME Base, WorldInv, NEW c \in Clients, UndoCtrs(c) PROVE Local(c)'
<1>1. Undoing(c, "ctrs") /\ pc[c] = "rollback" /\ pc'[c] = "rollback"
  BY DEF UndoCtrs, Undoing
<1>2. CoreType /\ job[c].op = "up" /\ TypeOK
  BY <1>1, PopFacts DEF Base, TagsOf
<1>3. RiseCover(c)
  BY <1>1, <1>2, RollFacts
<1>4. UNCHANGED <<job, got, made, procs>> /\ owed \subseteq owed'
  BY DEF UndoCtrs
<1>5. \A t : Pushed(c, t) /\ t # "ctrs" => Pushed(c, t)'
  BY <1>1, <1>2, PushedPop
<1>6. NamedCovered(c)'
  BY <1>3, <1>4, <1>5, NamedCoveredStays, TagFacts DEF RiseCover
<1>7. FadesGroups(Name(c)) /\ OwnPorts(c)' = OwnPorts(c)
  BY <1>2, <1>4 DEF FadesGroups, OwnPorts
<1>8. GroupsCovered(c)'
  BY <1>3, <1>4, <1>5, <1>7, GroupsCoveredStays DEF RiseCover
<1>9. \A x \in ctrs' : x \in ctrs /\ (x.name = Name(c) /\ x.svc \in got[c].ctrs => <<Name(c), x.svc>> \in owed')
  BY DEF UndoCtrs, CtrsOf
<1>10. CtrsCovered(c)'
  BY <1>3, <1>4, <1>9 DEF RiseCover, CtrsCovered, Name
<1> QED
  BY <1>1, <1>2, <1>4, <1>6, <1>8, <1>10, RollLocal DEF RiseCover

LEMMA UndoStopCtrsLocal ==
    ASSUME Base, WorldInv, NEW c \in Clients, UndoStopCtrs(c) PROVE Local(c)'
<1>1. Undoing(c, "stopctrs") /\ pc[c] = "rollback" /\ pc'[c] = "rollback"
  BY DEF UndoStopCtrs, Undoing
<1>2. CoreType /\ TypeOK
  BY DEF Base, IInv
<1>3. UNCHANGED <<job, got, mem, disk, made, procs>> /\ owed \subseteq owed'
  BY DEF UndoStopCtrs, registryVars
<1>4. \A t : Pushed(c, t) /\ t # "stopctrs" => Pushed(c, t)'
  BY <1>1, <1>2, PushedPop
<1>5. /\ FadesCtrs(Name(c)) /\ FadesGroups(Name(c)) /\ OwnPorts(c)' = OwnPorts(c)
      /\ Name(c)' = Name(c)
  BY <1>2, <1>3, StopsCtrsFades DEF StopsCtrs, FadesGroups, OwnPorts, Rec, Name
<1>6. CASE job[c].op = "up"
  <2>1. RiseCover(c)
    BY <1>1, <1>6, RollFacts
  <2>2. NamedCovered(c)'
    BY <1>3, <1>4, <2>1, NamedCoveredStays, TagFacts DEF RiseCover
  <2>3. CtrsCovered(c)' /\ GroupsCovered(c)'
    BY <1>3, <1>4, <1>5, <2>1, CtrsCoveredStays, GroupsCoveredStays DEF RiseCover
  <2> QED
    BY <1>1, <1>3, <1>6, <2>2, <2>3, RollLocal DEF RiseCover
<1>7. CASE job[c].op # "up"
  <2>1. ResumeCover(c) /\ Registered(disk, Name(c))
    BY <1>1, <1>7, RollFacts
  <2>2. CtrsKnown(Name(c))' /\ PortsRight(Name(c))'
    BY <1>3, <1>5, <2>1, OwnKnownStays DEF ResumeCover, Registered
  <2>3. GroupsCovered(c)'
    BY <1>3, <1>4, <1>5, <2>1, GroupsCoveredStays DEF ResumeCover
  <2>4. \A x \in ctrs' : x.up => x \in ctrs /\ (x.name = Name(c) /\ x.svc \in got[c].ctrs => <<Name(c), x.svc>> \in owed')
    <3>1. PICK left \in SUBSET {x \in CtrsOf(Name(c)) : x.svc \in got[c].ctrs /\ x.up} :
             /\ owed' = owed \cup {<<Name(c), x.svc>> : x \in left}
             /\ ctrs' = (ctrs \ ({x \in CtrsOf(Name(c)) : x.svc \in got[c].ctrs /\ x.up} \ left))
                       \cup {[x EXCEPT !.up = FALSE] :
                               x \in {x \in CtrsOf(Name(c)) : x.svc \in got[c].ctrs /\ x.up} \ left}
      BY Zenon DEF UndoStopCtrs
    <3>2. \A y \in CtrsOf(Name(c)) : ~[y EXCEPT !.up = FALSE].up
      BY <1>2, StoppedCtr DEF CtrsOf
    <3>3. \A x \in ctrs' : x.up => x \in ctrs /\ x \notin {x_1 \in CtrsOf(Name(c)) : x_1.svc \in got[c].ctrs /\ x_1.up} \ left
      BY <3>1, <3>2
    <3> QED
      BY <3>1, <3>3 DEF CtrsOf
  <2>5. UpCtrsCovered(c)'
    BY <1>3, <1>5, <2>1, <2>4 DEF ResumeCover, UpCtrsCovered
  <2> QED
    BY <1>1, <1>3, <1>7, <2>2, <2>3, <2>5, RollLocal DEF ResumeCover
<1> QED
  BY <1>6, <1>7

LEMMA UndoProcsLocal ==
    ASSUME Base, WorldInv, NEW c \in Clients, UndoProcs(c) PROVE Local(c)'
<1>1. Undoing(c, "procs") /\ pc[c] = "rollback" /\ pc'[c] = "rollback"
  BY DEF UndoProcs, Undoing
<1>2. CoreType /\ TypeOK
  BY DEF Base, IInv
<1>3. UNCHANGED <<job, got, mem, disk, made, ctrs>> /\ owed \subseteq owed'
  BY DEF UndoProcs, Removing, registryVars
<1>4. \A t : Pushed(c, t) /\ t # "procs" => Pushed(c, t)'
  BY <1>1, <1>2, PushedPop
<1>5. FadesCtrs(Name(c)) /\ OwnPorts(c)' = OwnPorts(c) /\ Name(c)' = Name(c)
  BY <1>2, <1>3 DEF FadesCtrs, OwnPorts, Rec, Name
<1>6. GroupsCovered(c)
  BY <1>1, RollFacts DEF RiseCover, ResumeCover
<1>7. GroupsCovered(c)'
  <2>1. \A g \in procs' : g \in procs /\ (g \in GroupsAt(Name(c), OwnPorts(c), got[c].pids) => g \in owed')
    BY DEF UndoProcs, Removing
  <2>2. procs \subseteq Group /\ got[c].pids \in PidSets
    BY <1>2 DEF TypeOK
  <2>3. \A g \in procs' : g[1] = Name(c) => g \in owed'
    BY <1>3, <1>6, <2>1, <2>2, NamedGroups DEF GroupsCovered
  <2> QED
    BY <1>5, <2>3 DEF GroupsCovered
<1>8. CASE job[c].op = "up"
  <2>1. RiseCover(c)
    BY <1>1, <1>8, RollFacts
  <2>2. NamedCovered(c)'
    BY <1>3, <1>4, <2>1, NamedCoveredStays, TagFacts DEF RiseCover
  <2>3. CtrsCovered(c)'
    BY <1>3, <1>4, <1>5, <2>1, CtrsCoveredStays DEF RiseCover
  <2> QED
    BY <1>1, <1>3, <1>7, <1>8, <2>2, <2>3, RollLocal DEF RiseCover
<1>9. CASE job[c].op # "up"
  <2>1. ResumeCover(c) /\ Registered(disk, Name(c))
    BY <1>1, <1>9, RollFacts
  <2>2. CtrsKnown(Name(c))' /\ PortsRight(Name(c))'
    BY <1>3, <1>5, <2>1, OwnKnownStays DEF ResumeCover, Registered
  <2>3. UpCtrsCovered(c)'
    BY <1>3, <1>4, <1>5, <2>1, UpCtrsCoveredStays DEF ResumeCover
  <2> QED
    BY <1>1, <1>3, <1>7, <1>9, <2>2, <2>3, RollLocal DEF ResumeCover
<1> QED
  BY <1>8, <1>9

\* The record turns back to suspended; what it lists stays.
LEMMA UndoResumeLocal ==
    ASSUME Base, WorldInv, NEW c \in Clients, UndoResume(c) PROVE Local(c)'
<1>1. Undoing(c, "suspend") /\ pc[c] = "rollback" /\ pc'[c] = "rollback"
  BY DEF UndoResume, Undoing
<1>2. CoreType /\ job[c].op # "up"
  BY <1>1, PopFacts DEF Base, TagsOf
<1>3. UNCHANGED <<job, got, made, ctrs, procs, owed>>
  BY DEF UndoResume, worldVars
<1>4. \A t : Pushed(c, t) /\ t # "suspend" => Pushed(c, t)'
  BY <1>1, <1>2, PushedPop
<1>5. /\ ResumeCover(c) /\ Registered(disk, Name(c)) /\ Name(c) \in Names
      /\ Entry(c).ports = Rec(c).ports /\ Entry(c).ctrs = Rec(c).ctrs
  BY <1>1, <1>2, RollFacts
<1>6. mem[c] \in RegistryValue /\ Rec(c) \in InstanceRecord
  BY <1>1, <1>2, WorkFacts DEF Base
<1> DEFINE rec == [Rec(c) EXCEPT !.state = "suspended"]
<1>7. rec \in InstanceRecord /\ rec.ports = Rec(c).ports /\ rec.ctrs = Rec(c).ctrs
  BY <1>6 DEF InstanceRecord
<1>8. /\ mem' = [mem EXCEPT ![c] = PutInstance(mem[c], Name(c), rec)]
      /\ disk' = mem'[c] \/ UNCHANGED disk
  BY DEF UndoResume, Saves, SaveFails
<1> HIDE DEF rec
<1>9. mem'[c].inst[Name(c)] = rec
  BY <1>2, <1>5, <1>6, <1>7, <1>8, PutInstanceType DEF CoreType
<1>10. Name(c)' = Name(c) /\ Rec(c)' = rec
  BY <1>3, <1>9 DEF Name, Rec
<1>11. OwnPorts(c)' = OwnPorts(c)
  BY <1>2, <1>3, <1>7, <1>10 DEF OwnPorts
<1>12. /\ disk'.inst[Name(c)] # NoRec
       /\ disk'.inst[Name(c)].ctrs = disk.inst[Name(c)].ctrs
       /\ disk'.inst[Name(c)].ports = disk.inst[Name(c)].ports
  BY <1>5, <1>7, <1>8, <1>9, NullAssumption DEF Entry, Registered
<1>13. FadesCtrs(Name(c)) /\ FadesGroups(Name(c))
  BY <1>3 DEF FadesCtrs, FadesGroups
<1>14. ResumeCover(c)'
  BY <1>3, <1>4, <1>5, <1>11, <1>12, <1>13, ResumeCoverStays
<1> QED
  BY <1>1, <1>2, <1>3, <1>14, RollLocal

\* An empty stack: all there still is of the instance is owed or in its record.
LEMMA RolledBackRest ==
    ASSUME Base, WorldInv, NEW c \in Clients, pc[c] = "rollback", undo[c] = <<>>
    PROVE  AtRest(Name(c))
<1>1. \A t : ~Pushed(c, t)
  BY PushedNone
<1>2. CASE job[c].op = "up" /\ Registered(disk, Name(c))
  <2>1. RiseCover(c) /\ Entry(c) = NewRecord(c)
    BY <1>2, RollFacts DEF OwnEntry, Rising
  <2> QED
    BY <1>2, <2>1, RisenRest
<1>3. CASE job[c].op = "up" /\ ~Registered(disk, Name(c))
  <2>1. RiseCover(c)
    BY <1>3, RollFacts
  <2> QED
    BY <1>1, <1>3, <2>1 DEF RiseCover, NamedCovered, CtrsCovered, GroupsCovered, AtRest, NamedKnown,
        NamedOwed, CtrsKnown, GroupsKnown, Quiet, PortsRight
<1>4. CASE job[c].op # "up"
  <2>1. ResumeCover(c) /\ Registered(disk, Name(c))
    BY <1>4, RollFacts
  <2> QED
    BY <1>1, <2>1 DEF ResumeCover, UpCtrsCovered, GroupsCovered, AtRest, NamedKnown, GroupsKnown,
        Quiet, UpCtrsOwed, GroupsOwed
<1> QED
  BY <1>2, <1>3, <1>4

LEMMA RolledBackLocal ==
    ASSUME Base, WorldInv, NEW c \in Clients, RolledBack(c) PROVE Local(c)'
<1>1. AtRest(Name(c))
  BY RolledBackRest DEF RolledBack
<1>2. UNCHANGED <<disk, job, made, ctrs, procs, owed>> /\ pc'[c] = "close"
  BY DEF RolledBack, registryVars, worldVars, Goto, Base, IInv, CoreType
<1>3. AtRest(Name(c))'
  BY <1>1, <1>2, OwnRestStays, StillFades DEF Name
<1> QED
  BY <1>2, <1>3, LocalEnd

LEMMA RollbackLocal ==
    ASSUME Base, WorldInv, NEW c \in Clients, Rollback(c) PROVE Local(c)'
BY UndoNamedLocal, UndoBookLocal, UndoCtrsLocal, UndoStopCtrsLocal, UndoProcsLocal,
   UndoResumeLocal, RolledBackLocal DEF Rollback

-----------------------------------------------------------------------------

(***************************************************************************)
(* plax down and plax suspend                                              *)
(***************************************************************************)

LEMMA DownFacts ==
    ASSUME Base, WorldInv, NEW c \in Clients, pc[c] \in DnPhases \cup SuPhases
    PROVE  /\ CoreType /\ TypeOK /\ Name(c) \in Names /\ mem[c] \in RegistryValue
           /\ AtRest(Name(c)) /\ Registered(disk, Name(c)) /\ disk.inst[Name(c)] = Rec(c)
           /\ Rec(c) \in InstanceRecord
           /\ pc[c] # "dn_procs" /\ pc[c] # "su_procs" => GroupsOwed(Name(c))
           /\ pc[c] = "su_save" => UpCtrsOwed(Name(c))
           /\ pc[c] \in DnPhases \ {"dn_procs", "dn_ctrs"} => CtrsOwed(Name(c))
           /\ NamedOwed(Name(c), Counted \cap GoneBy(pc[c]))
<1>1. pc[c] \in WorkPhases
  BY DEF DnPhases, SuPhases, WorkPhases
<1>2. /\ Rec(c) \in InstanceRecord /\ CoreType /\ TypeOK /\ Name(c) \in Names
      /\ mem[c] \in RegistryValue
  BY <1>1, WorkFacts DEF Base
<1>3. disk.inst[Name(c)] = Rec(c)
  BY <1>1 DEF Base, FileInv, OwnEntry, Entry
<1>4. Registered(disk, Name(c))
  BY <1>2, <1>3, NullAssumption DEF Registered
<1>5. AtRest(Name(c)) /\ Progress(c)
  BY DEF WorldInv, Covered
<1> QED
  BY <1>2, <1>3, <1>4, <1>5 DEF Progress, SuPhases

LEMMA OwnOwedStays ==
    ASSUME NEW c, Name(c)' = Name(c), Fades(Name(c))
    PROVE  /\ GroupsOwed(Name(c)) => GroupsOwed(Name(c))'
           /\ CtrsOwed(Name(c)) => CtrsOwed(Name(c))'
           /\ UpCtrsOwed(Name(c)) => UpCtrsOwed(Name(c))'
<1>1. PICK n : n = Name(c)
  OBVIOUS
<1>2. /\ GroupsOwed(n) => GroupsOwed(n)'
      /\ CtrsOwed(n) => CtrsOwed(n)'
      /\ UpCtrsOwed(n) => UpCtrsOwed(n)'
  BY <1>1, CtrsOwedStays, GroupsOwedStays DEF Fades
<1> QED
  BY <1>1, <1>2 DEF GroupsOwed, CtrsOwed, UpCtrsOwed

LEMMA NothingGone ==
    ASSUME NEW c, GoneBy(pc'[c]) = {} PROVE NamedOwed(Name(c), Counted \cap GoneBy(pc[c]))'
BY DEF NamedOwed

LEMMA DnCheckLocal ==
    ASSUME Base, WorldInv, NEW c \in Clients, DnCheck(c) \/ SuCheck(c) PROVE Local(c)'
<1>1. /\ pc[c] \in CheckPhases /\ UNCHANGED <<disk, job, made, ctrs, procs, owed>> /\ CoreType
      /\ \E next \in {"dn_procs", "su_procs", "close"} : Goto(c, next)
  BY DEF DnCheck, SuCheck, CheckPhases, registryVars, worldVars, Base, IInv
<1>2. CASE Goto(c, "close")
  BY <1>1, <1>2, CheckEnds
<1>3. CASE pc'[c] \in {"dn_procs", "su_procs"}
  <2>1. AtRest(Name(c))
    BY <1>1 DEF WorldInv, Covered
  <2>2. AtRest(Name(c))'
    BY <1>1, <2>1, OwnRestStays, StillFades DEF Name
  <2>3. GoneBy(pc'[c]) = {}
    BY <1>3 DEF GoneBy
  <2> QED
    BY <1>3, <2>2, <2>3, NothingGone, LocalDown, LocalSuspend DEF DnPhases, SuPhases
<1> QED
  BY <1>1, <1>2, <1>3 DEF Goto, CoreType

\* Down and suspend stop the groups of the record: no other one is there, or
\* it is owed.
LEMMA TerminateLocal ==
    ASSUME Base, WorldInv, NEW c \in Clients, DnProcs(c) \/ SuProcs(c) PROVE Local(c)'
<1>1. /\ pc[c] \in DnPhases \cup SuPhases
      /\ \E next \in {"dn_ctrs", "su_ctrs"} : TerminateRecorded(c, next)
  BY DEF DnProcs, SuProcs, DnPhases, SuPhases
<1>2. /\ CoreType /\ TypeOK /\ AtRest(Name(c)) /\ disk.inst[Name(c)] = Rec(c)
  BY <1>1, DownFacts
<1>3. /\ UNCHANGED <<disk, job, made, ctrs>> /\ owed \subseteq owed' /\ procs' \subseteq procs
      /\ \A g \in procs' : g \in GroupsIn(Rec(c), Name(c)) => g \in owed'
      /\ pc'[c] \in {"dn_ctrs", "su_ctrs"}
  BY <1>1, <1>2 DEF TerminateRecorded, Removing, registryVars, Goto, CoreType
<1>4. Fades(Name(c)) /\ Name(c)' = Name(c)
  BY <1>3 DEF Fades, FadesNamed, FadesCtrs, FadesGroups, Name
<1>5. AtRest(Name(c))'
  BY <1>2, <1>3, <1>4, OwnRestStays
<1>6. GroupsOwed(Name(c))'
  <2>1. procs \subseteq Group
    BY <1>2 DEF TypeOK
  <2>2. ASSUME NEW g \in procs', g[1] = Name(c) PROVE g \in owed'
    <3>1. \/ g \in owed
          \/ /\ <<g[2], g[4]>> \in Rec(c).pids /\ g[3] = Rec(c).ports[g[2]]
             /\ Registered(disk, Name(c))
      BY <1>2, <1>3, <2>2 DEF AtRest, GroupsKnown
    <3>2. CASE g \in owed
      BY <1>3, <3>2
    <3>3. CASE /\ <<g[2], g[4]>> \in Rec(c).pids /\ g[3] = Rec(c).ports[g[2]]
               /\ Registered(disk, Name(c))
      <4>1. Name(c) \in Names
        BY <1>3, <2>1, <2>2 DEF Group
      <4>2. Rec(c) \in InstanceRecord
        BY <1>2, <3>3, <4>1 DEF TypeOK, RegistryValue, Registered
      <4>3. Rec(c).pids \in PidSets
        BY <4>2 DEF InstanceRecord
      <4> QED
        BY <1>3, <2>1, <2>2, <3>3, <4>3, NamedGroups DEF GroupsIn
    <3> QED
      BY <3>1, <3>2, <3>3
  <2> QED
    BY <1>4, <2>2 DEF GroupsOwed
<1>7. GoneBy(pc'[c]) = {}
  BY <1>3 DEF GoneBy
<1> QED
  BY <1>3, <1>5, <1>6, <1>7, NothingGone, LocalDown, LocalSuspend DEF DnPhases, SuPhases

LEMMA DnCtrsLocal ==
    ASSUME Base, WorldInv, NEW c \in Clients, DnCtrs(c) PROVE Local(c)'
<1>1. pc[c] = "dn_ctrs" /\ pc[c] \in DnPhases
  BY DEF DnCtrs, DnPhases
<1>2. /\ CoreType /\ TypeOK /\ AtRest(Name(c)) /\ disk.inst[Name(c)] = Rec(c)
      /\ GroupsOwed(Name(c))
  BY <1>1, DownFacts
<1>3. /\ UNCHANGED <<disk, job, made, procs>> /\ owed \subseteq owed' /\ ctrs' \subseteq ctrs
      /\ \A x \in ctrs' : x \in CtrsIn(Rec(c), Name(c)) => <<Name(c), x.svc>> \in owed'
      /\ pc'[c] = "dn_dbs"
  BY <1>2 DEF DnCtrs, registryVars, Goto, CoreType
<1>4. Fades(Name(c)) /\ Name(c)' = Name(c)
  BY <1>3 DEF Fades, FadesNamed, FadesCtrs, FadesGroups, Name
<1>5. AtRest(Name(c))' /\ GroupsOwed(Name(c))'
  BY <1>2, <1>3, <1>4, OwnRestStays, OwnOwedStays
<1>6. CtrsOwed(Name(c))'
  <2>1. ASSUME NEW x \in ctrs', x.name = Name(c) PROVE <<Name(c), x.svc>> \in owed'
    BY <1>2, <1>3, <2>1 DEF AtRest, CtrsKnown, CtrsIn
  <2> QED
    BY <1>4, <2>1 DEF CtrsOwed
<1>7. GoneBy(pc'[c]) = {}
  BY <1>3 DEF GoneBy
<1> QED
  BY <1>3, <1>5, <1>6, <1>7, NothingGone, LocalDown DEF DnPhases

LEMMA SuCtrsLocal ==
    ASSUME Base, WorldInv, NEW c \in Clients, SuCtrs(c) PROVE Local(c)'
<1>1. pc[c] = "su_ctrs" /\ pc[c] \in SuPhases
  BY DEF SuCtrs, SuPhases
<1>2. /\ CoreType /\ TypeOK /\ AtRest(Name(c)) /\ disk.inst[Name(c)] = Rec(c)
      /\ GroupsOwed(Name(c))
  BY <1>1, DownFacts
<1>3. /\ UNCHANGED <<disk, job, made, procs>> /\ owed \subseteq owed' /\ pc'[c] = "su_save"
  BY <1>2 DEF SuCtrs, registryVars, Goto, CoreType
<1>4. Fades(Name(c)) /\ Name(c)' = Name(c)
  BY <1>2, <1>3, StopsCtrsFades DEF StopsCtrs, Fades, FadesNamed, FadesGroups, Name
<1>5. AtRest(Name(c))' /\ GroupsOwed(Name(c))'
  BY <1>2, <1>3, <1>4, OwnRestStays, OwnOwedStays
<1>6. UpCtrsOwed(Name(c))'
  <2> DEFINE all == {x \in CtrsIn(Rec(c), Name(c)) : x.up}
  <2>1. PICK left \in SUBSET all :
           /\ owed' = owed \cup {<<Name(c), x.svc>> : x \in left}
           /\ ctrs' = (ctrs \ (all \ left)) \cup {[x EXCEPT !.up = FALSE] : x \in all \ left}
    BY Zenon DEF SuCtrs
  <2>2. \A y \in all : ~[y EXCEPT !.up = FALSE].up
    BY <1>2, StoppedCtr DEF CtrsIn
  <2> HIDE DEF all
  <2>3. \A x \in ctrs' : x.up => x \in ctrs /\ (x \in all => <<Name(c), x.svc>> \in owed')
    BY <2>1, <2>2
  <2>4. ASSUME NEW x \in ctrs', x.name = Name(c), x.up PROVE <<Name(c), x.svc>> \in owed'
    BY <1>2, <1>3, <2>3, <2>4 DEF AtRest, CtrsKnown, CtrsIn, all
  <2> QED
    BY <1>4, <2>4 DEF UpCtrsOwed
<1> QED
  BY <1>3, <1>5, <1>6, LocalSuspend DEF SuPhases

\* One more kind of named things is gone, or owed.
LEMMA DnMadeLocal ==
    ASSUME Base, WorldInv, NEW c \in Clients, NEW phase, NEW kinds, NEW reach, NEW next,
           DnMade(c, phase, kinds, reach, next),
           phase \in DnPhases \ {"dn_procs", "dn_ctrs"}, next \in DnPhases \ {"dn_procs", "dn_ctrs"},
           Counted \cap GoneBy(next) \subseteq GoneBy(phase) \cup kinds
    PROVE  Local(c)'
<1>1. pc[c] = phase
  BY DEF DnMade
<1>2. /\ CoreType /\ AtRest(Name(c)) /\ GroupsOwed(Name(c)) /\ CtrsOwed(Name(c))
      /\ NamedOwed(Name(c), Counted \cap GoneBy(phase))
  BY <1>1, DownFacts DEF DnPhases
<1>3. /\ UNCHANGED <<disk, job, ctrs, procs>> /\ owed \subseteq owed' /\ made' \subseteq made
      /\ \A k \in kinds : <<Name(c), k>> \in made' => <<Name(c), k>> \in owed'
      /\ pc'[c] = next
  BY <1>2 DEF DnMade, registryVars, Goto, CoreType
<1>4. Fades(Name(c)) /\ Name(c)' = Name(c)
  BY <1>3 DEF Fades, FadesNamed, FadesCtrs, FadesGroups, Name
<1>5. AtRest(Name(c))' /\ GroupsOwed(Name(c))' /\ CtrsOwed(Name(c))'
  BY <1>2, <1>3, <1>4, OwnRestStays, OwnOwedStays
<1>6. NamedOwed(Name(c), Counted \cap GoneBy(pc[c]))'
  BY <1>2, <1>3, <1>4 DEF NamedOwed
<1> QED
  BY <1>3, <1>5, <1>6, LocalDown

LEMMA DnNamedLocal ==
    ASSUME Base, WorldInv, NEW c \in Clients,
           DnDbs(c) \/ DnNetwork(c) \/ DnWorktree(c) \/ DnMailbox(c)
    PROVE  Local(c)'
<1>1. CASE DnDbs(c)
  BY <1>1, DnMadeLocal DEF DnDbs, DnPhases, GoneBy
<1>2. CASE DnNetwork(c)
  BY <1>2, DnMadeLocal DEF DnNetwork, DnPhases, GoneBy
<1>3. CASE DnWorktree(c)
  BY <1>3, DnMadeLocal DEF DnWorktree, DnPhases, GoneBy
<1>4. CASE DnMailbox(c)
  <2>1. Counted \cap GoneBy("dn_save") \subseteq GoneBy("dn_mailbox") \cup {"mailbox"}
    BY TagFacts DEF GoneBy
  <2> QED
    BY <1>4, <2>1, DnMadeLocal DEF DnMailbox, DnPhases
<1> QED
  BY <1>1, <1>2, <1>3, <1>4

\* The entry goes last: by then all that is left is owed.
LEMMA DnSaveLocal ==
    ASSUME Base, WorldInv, NEW c \in Clients, DnSave(c) PROVE Local(c)'
<1>1. pc[c] = "dn_save" /\ pc[c] \in DnPhases
  BY DEF DnSave, DnPhases
<1>2. /\ CoreType /\ AtRest(Name(c)) /\ GroupsOwed(Name(c)) /\ CtrsOwed(Name(c))
      /\ NamedOwed(Name(c), Counted \cap GoneBy("dn_save"))
      /\ Name(c) \in Names /\ mem[c] \in RegistryValue
  BY <1>1, DownFacts DEF DnPhases
<1>3. /\ UNCHANGED <<job, made, ctrs, procs, owed>> /\ pc'[c] = "close"
      /\ disk' = RemoveInstance(mem[c], Name(c)) \/ UNCHANGED disk
  BY <1>2 DEF DnSave, worldVars, Goto, CoreType, Saves, SaveFails
<1>4. PICK n \in Names : n = Name(c)
  BY <1>2
<1>5. Name(c)' = n
  BY <1>3, <1>4 DEF Name
<1>6. CASE UNCHANGED disk
  BY <1>2, <1>3, <1>4, <1>5, <1>6, OwnRestStays, StillFades, LocalEnd
<1>7. CASE disk' = RemoveInstance(mem[c], Name(c))
  <2>1. ~Registered(disk', n)
    BY <1>2, <1>4, <1>7, RemoveInstanceType
  <2>2. disk'.inst[n] = NoRec
    BY <2>1 DEF Registered
  <2>3. Counted \subseteq GoneBy("dn_save")
    BY TagFacts DEF GoneBy, Kinds
  <2>4. NamedOwed(n, Counted)' /\ GroupsOwed(n)' /\ CtrsOwed(n)'
    BY <1>2, <1>3, <1>4, <2>3 DEF NamedOwed, GroupsOwed, CtrsOwed
  <2>5. AtRest(n)'
    BY <2>2, <2>4 DEF AtRest, NamedKnown, CtrsKnown, GroupsKnown, Quiet, PortsRight, GroupsOwed,
        CtrsOwed, Registered
  <2>6. AtRest(Name(c))'
    BY <1>5, <2>5, RestByName
  <2> QED
    BY <1>3, <2>6, LocalEnd
<1> QED
  BY <1>3, <1>6, <1>7

\* Suspended: nothing runs but what is owed.
LEMMA SuSaveLocal ==
    ASSUME Base, WorldInv, NEW c \in Clients, SuSave(c) PROVE Local(c)'
<1>1. pc[c] = "su_save" /\ pc[c] \in SuPhases
  BY DEF SuSave, SuPhases
<1>2. /\ CoreType /\ AtRest(Name(c)) /\ GroupsOwed(Name(c)) /\ UpCtrsOwed(Name(c))
      /\ Name(c) \in Names /\ mem[c] \in RegistryValue /\ Rec(c) \in InstanceRecord
      /\ Registered(disk, Name(c)) /\ disk.inst[Name(c)] = Rec(c)
  BY <1>1, DownFacts DEF SuPhases
<1> DEFINE rec == [Rec(c) EXCEPT !.state = "suspended", !.pids = {}]
<1>3. rec \in InstanceRecord /\ rec.ports = Rec(c).ports /\ rec.ctrs = Rec(c).ctrs
  BY <1>2, NoPids DEF InstanceRecord
<1>4. /\ UNCHANGED <<job, made, ctrs, procs, owed>> /\ pc'[c] = "close"
      /\ disk' = PutInstance(mem[c], Name(c), rec) \/ UNCHANGED disk
  BY <1>2 DEF SuSave, worldVars, Goto, CoreType, Saves, SaveFails
<1> HIDE DEF rec
<1>5. PICK n \in Names : n = Name(c)
  BY <1>2
<1>6. Name(c)' = n
  BY <1>4, <1>5 DEF Name
<1>7. CASE UNCHANGED disk
  BY <1>2, <1>4, <1>5, <1>6, <1>7, OwnRestStays, StillFades, LocalEnd
<1>8. CASE disk' = PutInstance(mem[c], Name(c), rec)
  <2>1. disk'.inst[n] = rec /\ rec # NoRec
    BY <1>2, <1>3, <1>5, <1>8, PutInstanceType, NullAssumption
  <2>2. GroupsOwed(n)' /\ UpCtrsOwed(n)'
    BY <1>2, <1>4, <1>5 DEF GroupsOwed, UpCtrsOwed
  <2>3. CtrsKnown(n)' /\ PortsRight(n)'
    <3>1. /\ Registered(disk, n)' /\ Registered(disk, n)
          /\ disk'.inst[n].ctrs = disk.inst[n].ctrs /\ disk'.inst[n].ports = disk.inst[n].ports
      BY <1>2, <1>3, <1>5, <2>1 DEF Registered
    <3>2. FadesCtrs(n) /\ CtrsKnown(n) /\ PortsRight(n)
      BY <1>2, <1>4, <1>5 DEF FadesCtrs, AtRest
    <3> QED
      BY <3>1, <3>2, CtrsKnownStays, PortsRightStays
  <2>4. AtRest(n)'
    BY <2>1, <2>2, <2>3 DEF AtRest, NamedKnown, GroupsKnown, Quiet, GroupsOwed, Registered
  <2>5. AtRest(Name(c))'
    BY <1>6, <2>4, RestByName
  <2> QED
    BY <1>4, <2>5, LocalEnd
<1> QED
  BY <1>4, <1>7, <1>8

LEMMA DownLocal ==
    ASSUME Base, WorldInv, NEW c \in Clients, Down(c) \/ Suspend(c) PROVE Local(c)'
BY DnCheckLocal, TerminateLocal, DnCtrsLocal, SuCtrsLocal, DnNamedLocal, DnSaveLocal, SuSaveLocal
DEF Down, Suspend

-----------------------------------------------------------------------------

(***************************************************************************)
(* plax resume                                                             *)
(***************************************************************************)

LEMMA ResumeFacts ==
    ASSUME Base, WorldInv, NEW c \in Clients, pc[c] \in RePhases
    PROVE  /\ CoreType /\ TypeOK /\ Name(c) \in Names /\ mem[c] \in RegistryValue
           /\ job[c].op # "up" /\ ResumeCover(c)
           /\ Registered(disk, Name(c)) /\ disk.inst[Name(c)] = Rec(c)
           /\ Rec(c) \in InstanceRecord /\ Injective(Rec(c).ports)
           /\ pc[c] = "re_ctrs" => EmptyHanded(c)
           /\ pc[c] \in {"re_env", "re_procs"} => got[c].pids = {}
           /\ pc[c] = "re_procs" => Pushed(c, "procs")
           /\ pc[c] \in {"re_ctrs", "re_env", "re_procs"} => Exclusive(Name(c), Rec(c).ports)
           /\ pc[c] = "re_verify" => Rec(c).state = "running" /\ Rec(c).pids = got[c].pids
<1>1. pc[c] \in WorkPhases
  BY DEF RePhases, WorkPhases
<1>2. /\ Rec(c) \in InstanceRecord /\ CoreType /\ TypeOK /\ Name(c) \in Names /\ job[c].op # "up"
      /\ mem[c] \in RegistryValue /\ TablesAgree(mem[c], Name(c)) /\ Registered(mem[c], Name(c))
  BY <1>1, WorkFacts DEF Base
<1>3. OwnEntry(c)
  BY DEF Base, FileInv
<1>4. disk.inst[Name(c)] = Rec(c)
  BY <1>1, <1>3 DEF OwnEntry, Entry
<1>5. Registered(disk, Name(c))
  BY <1>2, <1>4, NullAssumption DEF Registered
<1>6. Injective(Rec(c).ports)
  BY <1>2 DEF TablesAgree, Rec, Injective
<1>7. ResumeCover(c) /\ Gained(c) /\ PortsClear(c)
  BY DEF WorldInv, Covered, Resuming, ResumeCover
<1>8. pc[c] = "re_verify" => Rec(c).state = "running" /\ Rec(c).pids = got[c].pids
  BY <1>3 DEF OwnEntry
<1> QED
  BY <1>2, <1>4, <1>5, <1>6, <1>7, <1>8 DEF Gained, PortsClear, EmptyHanded

\* A suspended instance at rest, its ports free: nothing of it is running,
\* but what is owed, and nobody listens on its ports.
LEMMA ReCheckLocal ==
    ASSUME Base, WorldInv, NEW c \in Clients, ReCheck(c) PROVE Local(c)'
<1>1. /\ pc[c] = "re_check" /\ pc[c] \in CheckPhases /\ CoreType
      /\ UNCHANGED <<disk, job, mem, undo, got, made, ctrs, procs, owed>>
  BY DEF ReCheck, CheckPhases, registryVars, worldVars, Base, IInv
<1>2. CASE Goto(c, "close")
  BY <1>1, <1>2, CheckEnds
<1>3. CASE /\ Goto(c, "re_ctrs") /\ Registered(mem[c], Name(c)) /\ Rec(c).state = "suspended"
           /\ \A x \in ctrs : x.up => x.port \notin PortsOf(Rec(c).ports)
  <2>1. pc'[c] = "re_ctrs"
    BY <1>1, <1>3 DEF Goto, CoreType
  <2>2. AtRest(Name(c)) /\ EmptyHanded(c)
    BY <1>1 DEF WorldInv, Covered, Gained, EmptyHanded
  <2>3. OwnEntry(c) /\ Control(c)
    BY DEF Base, FileInv, IInv, Known
  <2>4. /\ disk.inst[Name(c)] = Rec(c) /\ Registered(disk, Name(c)) /\ job[c].op # "up"
    BY <1>1, <1>3, <2>3 DEF OwnEntry, SameEntry, Registered, Rec, Control, FirstPhase, Job, Ops
  <2>5. ResumeCover(c)
    BY <1>3, <2>2, <2>4 DEF AtRest, Quiet, ResumeCover, UpCtrsCovered, GroupsCovered, UpCtrsOwed,
        GroupsOwed
  <2>6. FadesCtrs(Name(c)) /\ FadesGroups(Name(c)) /\ OwnPorts(c)' = OwnPorts(c)
    BY <1>1 DEF FadesCtrs, FadesGroups, OwnPorts, Rec, Name
  <2>7. disk'.inst[Name(c)] = disk.inst[Name(c)] /\ disk'.inst[Name(c)] # NoRec
    BY <1>1, <2>4 DEF Registered
  <2>8. ResumeCover(c)'
    BY <1>1, <2>4, <2>5, <2>6, <2>7, PushedSame, ResumeCoverStays
  <2>9. EmptyHanded(c)'
    BY <1>1, <2>2 DEF EmptyHanded
  <2>10. Exclusive(Name(c), Rec(c).ports)
    <3>1. \A x \in ctrs, o \in Owners : x.up => x.port # Rec(c).ports[o]
      BY <1>3 DEF PortsOf
    <3>2. ASSUME NEW g \in procs \ owed, NEW o \in Owners PROVE g[3] # Rec(c).ports[o]
      <4>1. g[1] # Name(c)
        BY <2>2, <2>5 DEF ResumeCover, GroupsCovered, EmptyHanded
      <4>2. g[3] \in Ports /\ mem[c].alloc[g[3]] = g[1]
        BY <1>1, <4>1, TakenPorts DEF Holding
      <4>3. TablesAgree(mem[c], Name(c))
        BY <1>1 DEF Base, IInv, Known, OwnCopy
      <4> QED
        BY <1>3, <4>1, <4>2, <4>3 DEF TablesAgree, PortsOf, Rec
    <3> QED
      BY <3>1, <3>2 DEF Exclusive
  <2>11. Exclusive(Name(c), Rec(c).ports)'
    BY <1>1, <2>10 DEF Exclusive, Name, Rec
  <2> QED
    BY <1>1, <2>1, <2>4, <2>8, <2>9, <2>11, LocalResume DEF RePhases
<1>4. PICK silent : \/ Goto(c, "close")
                    \/ /\ Goto(c, "re_ctrs") /\ Registered(mem[c], Name(c))
                       /\ Rec(c).state = "suspended"
                       /\ PortsOf(Rec(c).ports) \cap BoundPorts(silent) = {}
  BY Zenon DEF ReCheck
<1> QED
  BY <1>2, <1>3, <1>4 DEF BoundPorts

LEMMA StartedCtr ==
    ASSUME TypeOK, NEW y \in ctrs
    PROVE  /\ [y EXCEPT !.up = TRUE].name = y.name /\ [y EXCEPT !.up = TRUE].svc = y.svc
           /\ [y EXCEPT !.up = TRUE].port = y.port /\ y.svc \in Svcs
BY DEF TypeOK, Container

\* The containers: those that start run on the ports of the record, and the
\* cleanup that stops them again is pushed in the same step.
LEMMA ReCtrsLocal ==
    ASSUME Base, WorldInv, NEW c \in Clients, ReCtrs(c) PROVE Local(c)' /\ NoClash'
<1>1. pc[c] = "re_ctrs" /\ pc[c] \in RePhases
  BY DEF ReCtrs, RePhases
<1>2. /\ CoreType /\ TypeOK /\ job[c].op # "up" /\ ResumeCover(c) /\ EmptyHanded(c)
      /\ Registered(disk, Name(c)) /\ disk.inst[Name(c)] = Rec(c)
      /\ Exclusive(Name(c), Rec(c).ports) /\ Injective(Rec(c).ports)
  BY <1>1, ResumeFacts
<1>3. UNCHANGED <<disk, job, mem, made, procs, owed>>
  BY DEF ReCtrs, registryVars
<1>4. Name(c)' = Name(c) /\ Rec(c)' = Rec(c)
  BY <1>3 DEF Name, Rec
<1>5. CASE ~job[c].docker
  <2>1. UNCHANGED <<ctrs, got, undo>> /\ pc'[c] = "re_env"
    BY <1>2, <1>5 DEF ReCtrs, Goto, CoreType
  <2>2. FadesCtrs(Name(c)) /\ FadesGroups(Name(c)) /\ NothingLaunched /\ OwnPorts(c)' = OwnPorts(c)
    BY <1>3, <1>4, <2>1, StillFades DEF Fades, OwnPorts
  <2>3. ResumeCover(c)'
    BY <1>2, <1>3, <2>1, <2>2, PushedSame, ResumeCoverStays, NullAssumption DEF Registered
  <2>4. Exclusive(Name(c), Rec(c).ports)'
    BY <1>2, <1>3, <1>4, <2>1 DEF Exclusive
  <2>5. NoClash'
    BY <2>2, NoLaunchClash DEF WorldInv
  <2> QED
    BY <1>2, <1>3, <2>1, <2>3, <2>4, <2>5, LocalResume DEF RePhases, EmptyHanded
<1>6. CASE job[c].docker
  <2>1. PICK n, ports : n = Name(c) /\ ports = Rec(c).ports
    OBVIOUS
  <2>2. PICK ok \in SUBSET CtrsIn(Rec(c), Name(c)) :
           /\ ctrs' = (ctrs \ ok) \cup {[x EXCEPT !.up = TRUE] : x \in ok}
           /\ got' = [got EXCEPT ![c].ctrs = {x.svc : x \in {y \in ok : ~y.up}}]
           /\ Push(c, "stopctrs")
           /\ Goto(c, IF ok = CtrsIn(Rec(c), Name(c))
                            /\ Rec(c).ctrs \ {x.svc : x \in CtrsIn(Rec(c), Name(c))} = {}
                      THEN "re_env" ELSE "rollback")
    BY <1>6, Zenon DEF ReCtrs
  <2>3. \A y \in ok : y \in ctrs /\ y.name = n /\ y.svc \in disk.inst[n].ctrs
    BY <1>2, <2>1 DEF CtrsIn
  <2>4. \A y \in ok : /\ [y EXCEPT !.up = TRUE].name = n /\ [y EXCEPT !.up = TRUE].svc = y.svc
                      /\ [y EXCEPT !.up = TRUE].port = y.port /\ y.svc \in Svcs
    BY <1>2, <2>3, StartedCtr
  <2>5. /\ got'[c].ctrs = {x.svc : x \in {y \in ok : ~y.up}} /\ got'[c].pids = got[c].pids
        /\ got'[c].ports = got[c].ports /\ pc'[c] \in {"re_env", "rollback"}
    BY <1>2, <2>2 DEF CoreType, Goto
  <2>6. \A t : Pushed(c, t)' <=> Pushed(c, t) \/ t = "stopctrs"
    BY <1>2, <2>2, PushedAppend DEF UndoTags
  <2>7. \A x \in ctrs' :
           \/ x \in ctrs
           \/ /\ x.name = n /\ x.svc \in Svcs
              /\ \E y \in ok : x.svc = y.svc /\ x.port = y.port
    <3>1. ASSUME NEW x \in ctrs', x \notin ctrs PROVE \E y \in ok : x = [y EXCEPT !.up = TRUE]
      BY <2>2, <3>1
    <3>2. ASSUME NEW x \in ctrs', x \notin ctrs
          PROVE  x.name = n /\ x.svc \in Svcs /\ \E y \in ok : x.svc = y.svc /\ x.port = y.port
      <4>1. PICK y \in ok : x = [y EXCEPT !.up = TRUE]
        BY <3>1, <3>2
      <4>2. x.name = n /\ x.svc = y.svc /\ x.port = y.port /\ x.svc \in Svcs
        BY <2>4, <4>1
      <4> QED
        BY <4>2
    <3> QED
      BY <3>2
  <2>8. CtrsKnown(Name(c))' /\ PortsRight(Name(c))'
    <3>1. CtrsKnown(n) /\ PortsRight(n)
      BY <1>2, <2>1 DEF ResumeCover
    <3>2. \A x \in ctrs' : x.name = n =>
             \E y \in ctrs : y.name = n /\ y.svc = x.svc /\ y.port = x.port
      BY <2>3, <2>7
    <3>3. CtrsKnown(n)' /\ PortsRight(n)'
      BY <1>3, <3>1, <3>2 DEF CtrsKnown, PortsRight, Registered
    <3> QED
      BY <1>4, <2>1, <3>3 DEF CtrsKnown, PortsRight, Registered
  <2>9. UpCtrsCovered(c)'
    <3>1. \A x \in ctrs : x.name = n /\ x.up => <<n, x.svc>> \in owed
      BY <1>2, <2>1 DEF ResumeCover, UpCtrsCovered, EmptyHanded
    <3>2. \A y \in ok : ~y.up => y.svc \in got'[c].ctrs
      BY <2>5
    <3>3. \A y \in ok : <<n, y.svc>> \in owed \/ y.svc \in got'[c].ctrs
      BY <2>3, <3>1, <3>2
    <3>4. \A x \in ctrs' : x.name = n /\ x.up => <<n, x.svc>> \in owed' \/ x.svc \in got'[c].ctrs
      BY <1>3, <2>7, <3>1, <3>3
    <3>5. Pushed(c, "stopctrs")'
      BY <2>6
    <3> QED
      BY <1>4, <2>1, <3>4, <3>5 DEF UpCtrsCovered
  <2>10. GroupsCovered(c)'
    <3>1. FadesGroups(Name(c))
      BY <1>3 DEF FadesGroups
    <3> QED
      BY <1>2, <1>3, <2>5, <2>6, <3>1, GroupsCoveredStays DEF ResumeCover, EmptyHanded
  <2>11. Launches(n, ports)
    <3>1. \A y \in ok : y.port = ports[y.svc]
      BY <1>2, <2>1, <2>3 DEF ResumeCover, PortsRight
    <3>2. \A x \in ctrs' : x \in ctrs \/ (x.name = n /\ x.svc \in Svcs /\ x.port = ports[x.svc])
      BY <2>7, <3>1
    <3> QED
      BY <1>3, <3>2 DEF Launches, WorldInv, NoClash
  <2>12. procs \subseteq Group /\ \A x \in ctrs : x.svc \in Svcs
    BY <1>2 DEF TypeOK, Container
  <2>13. NoClash' /\ Exclusive(n, ports)'
    BY <1>2, <2>1, <2>11, <2>12, LaunchClash DEF WorldInv
  <2>14. Exclusive(Name(c), Rec(c).ports)'
    BY <1>4, <2>1, <2>13 DEF Exclusive
  <2>15. ResumeCover(c)'
    BY <2>8, <2>9, <2>10 DEF ResumeCover
  <2>16. job'[c].op # "up" /\ got'[c].pids = {}
    BY <1>2, <1>3, <2>5 DEF EmptyHanded
  <2> QED
    BY <2>5, <2>13, <2>14, <2>15, <2>16, LocalResume DEF RePhases
<1> QED
  BY <1>5, <1>6

LEMMA RePlainLocal ==
    ASSUME Base, WorldInv, NEW c \in Clients, ReEnv(c) \/ ReSettle(c) PROVE Local(c)'
<1>1. pc[c] \in {"re_env", "re_settle"} /\ pc[c] \in RePhases
  BY DEF ReEnv, ReSettle, RePhases
<1>2. /\ CoreType /\ job[c].op # "up" /\ ResumeCover(c) /\ Registered(disk, Name(c))
      /\ pc[c] = "re_env" => Exclusive(Name(c), Rec(c).ports) /\ got[c].pids = {}
  BY <1>1, ResumeFacts
<1>3. UNCHANGED <<disk, job, mem, got, made, ctrs, procs, owed>>
  BY DEF ReEnv, ReSettle, registryVars, worldVars
<1>4. Name(c)' = Name(c) /\ Rec(c)' = Rec(c) /\ OwnPorts(c)' = OwnPorts(c)
  BY <1>3 DEF Name, Rec, OwnPorts
<1>5. FadesCtrs(Name(c)) /\ FadesGroups(Name(c))
  BY <1>3, StillFades DEF Fades
<1>6. \/ /\ undo' = undo
         /\ pc'[c] \in {"rollback", "re_save"}
      \/ Push(c, "procs") /\ pc'[c] = "re_procs" /\ pc[c] = "re_env"
  BY <1>2 DEF ReEnv, ReSettle, Goto, CoreType
<1>7. \A t : Pushed(c, t) => Pushed(c, t)'
  BY <1>2, <1>6, PushedSame, PushedAppend DEF UndoTags
<1>8. ResumeCover(c)'
  BY <1>2, <1>3, <1>4, <1>5, <1>7, ResumeCoverStays, NullAssumption DEF Registered
<1>9. pc'[c] = "re_procs" => Pushed(c, "procs")'
  BY <1>2, <1>6, PushedAppend DEF UndoTags
<1>10. pc'[c] = "re_procs" => Exclusive(Name(c), Rec(c).ports)' /\ got'[c].pids = {}
  BY <1>2, <1>3, <1>4, <1>6 DEF Exclusive
<1> QED
  BY <1>2, <1>3, <1>6, <1>8, <1>9, <1>10, LocalResume DEF RePhases

\* The processes: their cleanup is on the stack, and those that started are
\* remembered even if another one did not.
LEMMA ReProcsLocal ==
    ASSUME Base, WorldInv, NEW c \in Clients, ReProcs(c) PROVE Local(c)' /\ NoClash'
<1>1. pc[c] = "re_procs" /\ pc[c] \in RePhases
  BY DEF ReProcs, RePhases
<1>2. /\ CoreType /\ TypeOK /\ job[c].op # "up" /\ ResumeCover(c) /\ got[c].pids = {}
      /\ Registered(disk, Name(c)) /\ Pushed(c, "procs")
      /\ Exclusive(Name(c), Rec(c).ports) /\ Injective(Rec(c).ports)
  BY <1>1, ResumeFacts
<1>3. PICK n, ports : n = Name(c) /\ ports = Rec(c).ports
  OBVIOUS
<1>4. UNCHANGED <<disk, job, mem, made, ctrs, owed, undo>>
  BY SMTT(30) DEF ReProcs, registryVars
<1>5. Name(c)' = n /\ Rec(c)' = Rec(c) /\ OwnPorts(c)' = ports
  BY <1>2, <1>3, <1>4 DEF Name, Rec, OwnPorts
<1>6. PICK pids \in PidSets, next \in {"re_settle", "rollback"} :
          Spawns(c, Rec(c).ports, pids) /\ Goto(c, next)
  BY ReSpawns
<1>7. /\ got'[c].pids = pids /\ got'[c].ctrs = got[c].ctrs /\ pc'[c] \in {"re_settle", "rollback"}
  BY <1>2, <1>6 DEF CoreType, Goto, Spawns
<1>8. \A t : Pushed(c, t) => Pushed(c, t)'
  BY <1>4, PushedSame
<1>9a. \A g \in procs : g[1] = n => g \in owed
  BY <1>2, <1>3 DEF ResumeCover, GroupsCovered
<1>9b. NewGroups(n, ports, pids)
  BY <1>2, <1>3, <1>4, <1>6, <1>9a, SpawnedGroups DEF Spawns, TypeOK
<1>9. GroupsCovered(c)'
  <2>2. Pushed(c, "procs")'
    BY <1>2, <1>8
  <2> QED
    BY <1>5, <1>7, <1>9b, <2>2 DEF GroupsCovered, NewGroups
<1>10. FadesCtrs(Name(c))
  BY <1>4 DEF FadesCtrs
<1>11. CtrsKnown(Name(c))' /\ PortsRight(Name(c))'
  BY <1>2, <1>3, <1>4, <1>5, <1>10, OwnKnownStays, NullAssumption DEF ResumeCover, Registered
<1>12. UpCtrsCovered(c)'
  BY <1>2, <1>4, <1>7, <1>8, <1>10, UpCtrsCoveredStays DEF ResumeCover
<1>13. Launches(n, ports)
  BY <1>4, <1>9b, NewLaunches
<1>14. procs \subseteq Group /\ \A x \in ctrs : x.svc \in Svcs
  BY <1>2 DEF TypeOK, Container
<1>15. NoClash'
  BY <1>2, <1>3, <1>13, <1>14, LaunchClash DEF WorldInv
<1>16. job'[c].op # "up" /\ ResumeCover(c)'
  BY <1>2, <1>4, <1>9, <1>11, <1>12 DEF ResumeCover
<1> QED
  BY <1>7, <1>15, <1>16, LocalResume DEF RePhases

\* The record says running again: for the world this is one more cleanup.
LEMMA ReSaveLocal ==
    ASSUME Base, WorldInv, NEW c \in Clients, ReSave(c) PROVE Local(c)'
<1>1. pc[c] \in RePhases
  BY DEF ReSave, RePhases
<1>2. /\ CoreType /\ job[c].op # "up" /\ ResumeCover(c) /\ Name(c) \in Names
      /\ mem[c] \in RegistryValue /\ Rec(c) \in InstanceRecord
      /\ Registered(disk, Name(c)) /\ disk.inst[Name(c)] = Rec(c)
  BY <1>1, ResumeFacts
<1>3. UNCHANGED <<job, got, made, ctrs, procs, owed>>
  BY DEF ReSave, worldVars
<1>4. /\ undo' = undo \/ Push(c, "suspend")
      /\ pc'[c] \in {"re_verify", "rollback"}
  BY <1>2 DEF ReSave, Goto, CoreType
<1>5. \A t : Pushed(c, t) => Pushed(c, t)'
  BY <1>2, <1>4, PushedSame, PushedAppend DEF UndoTags
<1> DEFINE rec == [Rec(c) EXCEPT !.state = "running", !.pids = got[c].pids]
<1>6. rec \in InstanceRecord /\ rec.ports = Rec(c).ports /\ rec.ctrs = Rec(c).ctrs
  BY <1>2 DEF InstanceRecord, CoreType
<1>7. /\ mem' = [mem EXCEPT ![c] = PutInstance(mem[c], Name(c), rec)]
      /\ disk' = mem'[c] \/ UNCHANGED disk
  BY DEF ReSave, Saves, SaveFails
<1> HIDE DEF rec
<1>8. mem'[c].inst[Name(c)] = rec
  BY <1>2, <1>6, <1>7, PutInstanceType DEF CoreType
<1>9. Name(c)' = Name(c) /\ Rec(c)' = rec
  BY <1>3, <1>8 DEF Name, Rec
<1>10. OwnPorts(c)' = OwnPorts(c)
  BY <1>2, <1>3, <1>6, <1>9 DEF OwnPorts
<1>11. /\ disk'.inst[Name(c)] # NoRec
       /\ disk'.inst[Name(c)].ctrs = disk.inst[Name(c)].ctrs
       /\ disk'.inst[Name(c)].ports = disk.inst[Name(c)].ports
  BY <1>2, <1>6, <1>7, <1>8, NullAssumption DEF Registered
<1>12. FadesCtrs(Name(c)) /\ FadesGroups(Name(c))
  BY <1>3, StillFades DEF Fades
<1>13. ResumeCover(c)'
  BY <1>2, <1>3, <1>5, <1>10, <1>11, <1>12, ResumeCoverStays
<1> QED
  BY <1>2, <1>3, <1>4, <1>13, LocalResume DEF RePhases

\* At its end a resume has everything it covered in the record, or owed.
LEMMA ReVerifyLocal ==
    ASSUME Base, WorldInv, NEW c \in Clients, ReVerify(c) PROVE Local(c)'
<1>1. pc[c] \in RePhases /\ pc[c] = "re_verify"
  BY DEF ReVerify, RePhases
<1>2. /\ CoreType /\ job[c].op # "up" /\ ResumeCover(c) /\ Name(c) \in Names
      /\ Registered(disk, Name(c)) /\ disk.inst[Name(c)] = Rec(c)
      /\ Rec(c).state = "running" /\ Rec(c).pids = got[c].pids
  BY <1>1, ResumeFacts
<1>3. /\ UNCHANGED <<job, mem, undo, got, made, ctrs, procs, owed>>
      /\ disk' = mem[c] \/ UNCHANGED disk
  BY DEF ReVerify, worldVars, Saves, SaveFails
<1>4. disk'.inst[Name(c)] = disk.inst[Name(c)]
  BY <1>2, <1>3 DEF Rec
<1>5. CASE pc'[c] = "rollback"
  <2>1. OwnPorts(c)' = OwnPorts(c)
    BY <1>3 DEF OwnPorts, Rec, Name
  <2>2. FadesCtrs(Name(c)) /\ FadesGroups(Name(c))
    BY <1>3, StillFades DEF Fades
  <2>3. ResumeCover(c)'
    BY <1>2, <1>3, <1>4, <2>1, <2>2, PushedSame, ResumeCoverStays, NullAssumption DEF Registered
  <2> QED
    BY <1>2, <1>3, <1>5, <2>3, LocalResume DEF RePhases
<1>6. CASE pc'[c] = "close"
  <2>1. OwnPorts(c) = Rec(c).ports
    BY <1>2 DEF OwnPorts
  <2>2. GroupsKnown(Name(c))
    BY <1>2, <2>1 DEF ResumeCover, GroupsCovered, GroupsKnown
  <2>3. AtRest(Name(c))
    BY <1>2, <2>2 DEF ResumeCover, AtRest, NamedKnown, Quiet
  <2>4. AtRest(Name(c))'
    BY <1>3, <1>4, <2>3, OwnRestStays, StillFades DEF Name
  <2> QED
    BY <1>6, <2>4, LocalEnd
<1> QED
  BY <1>2, <1>5, <1>6 DEF ReVerify, Goto, CoreType

LEMMA ResumeLocal ==
    ASSUME Base, WorldInv, NEW c \in Clients, Resume(c) PROVE Local(c)'
BY ReCheckLocal, ReCtrsLocal, RePlainLocal, ReProcsLocal, ReSaveLocal, ReVerifyLocal DEF Resume

LEMMA UpLocal ==
    ASSUME Base, WorldInv, NEW c \in Clients, Up(c) PROVE Local(c)'
BY UpCheckLocal, UpMakesLocal, UpPlainLocal, UpPortsLocal, UpCloneLocal, UpCtrsLocal, UpProcsLocal,
   UpSaveLocal, UpRecordLocal, UpVerifyLocal DEF Up

-----------------------------------------------------------------------------

(***************************************************************************)
(* A step of a command                                                     *)
(***************************************************************************)

\* A step keeps the command line, the others' gains, and but for the last
\* one the command at work.
LEMMA StepKeepsJob ==
    ASSUME NEW c \in Clients, Step(c), ~Close(c), CoreType
    PROVE  UNCHANGED job /\ (pc'[c] # pc[c] => pc'[c] \notin {"idle", "open"})
<1>1. UNCHANGED job
  BY DEF Step, Up, UpCheck, UpWorktree, UpMailbox, UpNetwork, UpPorts, UpEnv, UpClone, UpMigrate,
      UpCtrs, UpProcs, UpSettle, UpSave, UpRecord, UpVerify, Down, Suspend, Resume, DnCheck, DnProcs,
      DnCtrs, DnDbs, DnNetwork, DnWorktree, DnMailbox, DnSave, DnMade, TerminateRecorded, SuCheck,
      SuProcs, SuCtrs, SuSave, ReCheck, ReCtrs, ReEnv, ReProcs, ReSettle, ReSave, ReVerify,
      Rollback, UndoWorktree, UndoMailbox, UndoNetwork, UndoPorts, UndoDbs, UndoCtrs, UndoStopCtrs,
      UndoProcs, UndoRegistry, UndoResume, UndoRecord, UndoMade, RolledBack
<1>2. CASE Up(c)
  BY <1>2, ZenonT(60) DEF CoreType, Goto, Up, UpCheck, UpWorktree, UpMailbox, UpNetwork, UpPorts, UpEnv, UpClone,
      UpMigrate, UpCtrs, UpProcs, UpSettle, UpSave, UpRecord, UpVerify
<1>3. CASE Down(c) \/ Suspend(c)
  BY <1>3 DEF CoreType, Goto, Down, Suspend, DnCheck, DnProcs, DnCtrs, DnDbs, DnNetwork, DnWorktree,
      DnMailbox, DnSave, DnMade, TerminateRecorded, SuCheck, SuProcs, SuCtrs, SuSave
<1>4. CASE Resume(c)
  <2>1. CASE ReCtrs(c)
    BY <2>1 DEF CoreType, Goto, ReCtrs
  <2> QED
    BY <1>4, <2>1 DEF CoreType, Goto, Resume, ReCheck, ReEnv, ReProcs, ReSettle, ReSave, ReVerify
<1>5. CASE Rollback(c)
  BY <1>5 DEF CoreType, Goto, Rollback, UndoWorktree, UndoMailbox, UndoNetwork, UndoPorts, UndoDbs,
      UndoCtrs, UndoStopCtrs, UndoProcs, UndoRegistry, UndoResume, UndoRecord, UndoMade, Undoing,
      RolledBack
<1> QED
  BY <1>1, <1>2, <1>3, <1>4, <1>5, SMTT(30) DEF Step

LEMMA StepKeepsGains ==
    ASSUME NEW c \in Clients, Step(c), CoreType, NEW d \in Clients \ {c}
    PROVE  got'[d] = got[d]
<1>1. CASE Up(c)
  BY <1>1 DEF CoreType, Up, UpCheck, UpWorktree, UpMailbox, UpNetwork, UpPorts, UpEnv, UpClone,
      UpMigrate, UpCtrs, UpProcs, UpSettle, UpSave, UpRecord, UpVerify
<1>2. CASE Down(c) \/ Suspend(c)
  BY <1>2 DEF Down, Suspend, DnCheck, DnProcs, DnCtrs, DnDbs, DnNetwork, DnWorktree, DnMailbox,
      DnSave, DnMade, TerminateRecorded, SuCheck, SuProcs, SuCtrs, SuSave
<1>3. CASE Resume(c)
  <2>1. CASE ReCtrs(c)
    BY <2>1 DEF CoreType, ReCtrs
  <2> QED
    BY <1>3, <2>1 DEF CoreType, Resume, ReCheck, ReEnv, ReProcs, ReSettle, ReSave, ReVerify
<1>4. CASE Rollback(c)
  BY <1>4 DEF Rollback, UndoWorktree, UndoMailbox, UndoNetwork, UndoPorts, UndoDbs, UndoCtrs,
      UndoStopCtrs, UndoProcs, UndoRegistry, UndoResume, UndoRecord, UndoMade, RolledBack
<1>5. CASE Close(c)
  BY <1>5 DEF CoreType, Close
<1> QED
  BY <1>1, <1>2, <1>3, <1>4, <1>5 DEF Step

\* The claims of all commands after a step of one.
LEMMA StepLocal ==
    ASSUME Base, WorldInv, NEW c \in Clients, Step(c), NEW d \in Clients PROVE Local(d)'
<1>1. CASE d = c /\ ~Close(c)
  BY <1>1, UpLocal, DownLocal, ResumeLocal, RollbackLocal DEF Step
<1>2. CASE d = c /\ Close(c)
  <2>1. pc'[c] = "idle" /\ got'[c] = Nothing
    BY <1>2 DEF Close, Goto, Base, IInv, CoreType
  <2>2. EmptyHanded(c)'
    BY <2>1 DEF EmptyHanded, Nothing
  <2> QED
    BY <1>2, <2>1, <2>2, LocalAway
<1>3. CASE d # c
  <2>1. IInv /\ CoreType
    BY DEF Base, IInv
  <2>2. pc[d] \in {"idle", "open"} /\ pc'[d] = pc[d]
    BY <1>3, <2>1, StepFrames
  <2>3. got'[d] = got[d]
    BY <1>3, <2>1, StepKeepsGains
  <2>4. EmptyHanded(d)
    BY <2>2 DEF WorldInv, Gained, EmptyHanded
  <2> QED
    BY <2>2, <2>3, <2>4, LocalAway DEF EmptyHanded
<1> QED
  BY <1>1, <1>2, <1>3

LEMMA StepNoClash ==
    ASSUME Base, WorldInv, NEW c \in Clients, Step(c) PROVE NoClash'
<1>1. CASE LaunchesCtrs(c) \/ LaunchesProcs(c)
  BY <1>1, UpCtrsLocal, UpProcsLocal, ReCtrsLocal, ReProcsLocal DEF LaunchesCtrs, LaunchesProcs
<1>2. CASE ~LaunchesCtrs(c) /\ ~LaunchesProcs(c)
  BY <1>2, StepLaunches, NoLaunchClash DEF Base, WorldInv
<1> QED
  BY <1>1, <1>2

\* The instance of a command at work is claimed by it, all others are as they
\* were: when the command ends it leaves its own at rest.
LEMMA StepRest ==
    ASSUME Base, WorldInv, NEW c \in Clients, Step(c), NEW n \in Names, ~Busy(n)'
    PROVE  AtRest(n)'
<1>1. IInv /\ CoreType /\ TypeOK
  BY DEF Base, IInv
<1>2. Holding(c) /\ \A d \in Clients \ {c} : ~Holding(d)
  <2>1. Holding(c)
    BY <1>1, StepSaves
  <2> QED
    BY <2>1, WorkerFacts DEF Holding
<1>3. CASE n # Name(c)
  <2>1. ~Busy(n)
    BY <1>2, <1>3 DEF Busy, Name
  <2>2. AtRest(n) /\ Fades(n)
    BY <1>1, <1>3, <2>1, StepOthers DEF WorldInv
  <2>3. disk'.inst[n] = disk.inst[n]
    BY <1>1, <1>2, <1>3, StepSaves DEF IInv, Known, OtherCopies
  <2> QED
    BY <2>2, <2>3, RestStays
<1>4. CASE n = Name(c) /\ Close(c)
  <2>1. pc[c] = "close" /\ UNCHANGED <<disk, made, ctrs, procs, owed>>
    BY <1>4 DEF Close, worldVars
  <2>2. AtRest(n)
    BY <1>4, <2>1 DEF WorldInv, Covered
  <2> QED
    BY <2>1, <2>2, StillFades, RestStays
<1>5. CASE n = Name(c) /\ ~Close(c)
  <2>1. UNCHANGED job /\ pc'[c] \notin {"idle", "open"}
    BY <1>1, <1>2, <1>5, StepKeepsJob DEF Holding
  <2> QED
    BY <1>5, <2>1 DEF Busy, Holding, Name
<1> QED
  BY <1>3, <1>4, <1>5

LEMMA StepWorldInv ==
    ASSUME Base, WorldInv, NEW c \in Clients, Step(c) PROVE WorldInv'
<1>1. \A d \in Clients : Local(d)'
  BY StepLocal
<1>2. NoClash' /\ \A n \in Names : ~Busy(n)' => AtRest(n)'
  BY StepNoClash, StepRest
<1> QED
  BY <1>1, <1>2 DEF WorldInv, Local

-----------------------------------------------------------------------------

(***************************************************************************)
(* What happens beside a command at work                                   *)
(***************************************************************************)

\* While the world fades and nothing starts, a command's claims stay.
LEMMA LocalFades ==
    ASSUME NEW d, Local(d), pc'[d] = pc[d], job'[d] = job[d], mem'[d] = mem[d],
           undo'[d] = undo[d], got'[d] = got[d], UNCHANGED <<disk, owed>>,
           Fades(Name(d)), NothingLaunched
    PROVE  Local(d)'
<1>1. PICK n, q, r : n = Name(d) /\ q = got[d].ports /\ r = Rec(d).ports
  OBVIOUS
<1>2. /\ Name(d)' = n /\ got'[d].ports = q /\ Rec(d)' = Rec(d) /\ Rec(d).ports' = r
      /\ OwnPorts(d)' = OwnPorts(d)
  BY <1>1 DEF Name, Rec, OwnPorts
<1>3. \A t : Pushed(d, t)' <=> Pushed(d, t)
  BY PushedSame
<1>4. FadesNamed(n) /\ FadesCtrs(n) /\ FadesGroups(n)
  BY <1>1 DEF Fades
<1>5. Gained(d)'
  BY <1>3 DEF Local, Gained
<1>6. Progress(d)'
  <2>1. /\ GroupsOwed(n) => GroupsOwed(n)'
        /\ CtrsOwed(n) => CtrsOwed(n)'
        /\ UpCtrsOwed(n) => UpCtrsOwed(n)'
    BY <1>4, GroupsOwedStays, CtrsOwedStays
  <2>2. PICK ph : ph = pc[d]
    OBVIOUS
  <2>3. NamedOwed(n, Counted \cap GoneBy(ph))'
    <3>1. NamedOwed(n, Counted \cap GoneBy(ph))
      BY <1>1, <2>2 DEF Local, Progress
    <3> QED
      BY <1>4, <3>1, NamedOwedStays
  <2>4. /\ GroupsOwed(Name(d)) => GroupsOwed(Name(d))'
        /\ CtrsOwed(Name(d)) => CtrsOwed(Name(d))'
        /\ UpCtrsOwed(Name(d)) => UpCtrsOwed(Name(d))'
    BY <1>1, <1>2, <2>1 DEF GroupsOwed, CtrsOwed, UpCtrsOwed
  <2>5. NamedOwed(Name(d), Counted \cap GoneBy(pc[d]))'
    BY <1>2, <2>2, <2>3 DEF NamedOwed
  <2> QED
    BY <2>4, <2>5 DEF Local, Progress
<1>7. PortsClear(d)'
  <2>1. /\ Exclusive(n, q) => Exclusive(n, q)'
        /\ Exclusive(n, r) => Exclusive(n, r)'
    BY ExclusiveStays
  <2>2. /\ Exclusive(Name(d), got[d].ports) => Exclusive(Name(d), got[d].ports)'
        /\ Exclusive(Name(d), Rec(d).ports) => Exclusive(Name(d), Rec(d).ports)'
    BY <1>1, <1>2, <2>1 DEF Exclusive
  <2> QED
    BY <2>2 DEF Local, PortsClear
<1>8. Covered(d)'
  <2>1. AtRest(Name(d)) => AtRest(Name(d))'
    BY <1>1, <1>2, OwnRestStays
  <2>2. NamedCovered(d) => NamedCovered(d)'
    <3>1. \A k \in Counted : <<n, k>> \in made' => <<n, k>> \in made
      BY <1>4 DEF FadesNamed
    <3> QED
      BY <1>1, <1>3, <3>1, NamedCoveredStays
  <2>3. CtrsCovered(d) => CtrsCovered(d)'
    BY <1>1, <1>3, <1>4, CtrsCoveredStays
  <2>4. UpCtrsCovered(d) => UpCtrsCovered(d)'
    BY <1>1, <1>3, <1>4, UpCtrsCoveredStays
  <2>5. GroupsCovered(d) => GroupsCovered(d)'
    BY <1>1, <1>2, <1>3, <1>4, GroupsCoveredStays
  <2>6. CtrsKnown(Name(d)) /\ PortsRight(Name(d)) => CtrsKnown(Name(d))' /\ PortsRight(Name(d))'
    <3>1. CtrsKnown(n) /\ PortsRight(n) => CtrsKnown(n)' /\ PortsRight(n)'
      BY <1>4, CtrsKnownStays, PortsRightStays DEF Registered
    <3> QED
      BY <1>1, <1>2, <3>1 DEF CtrsKnown, PortsRight, Registered
  <2>7. (Rising(d)' <=> Rising(d)) /\ (Resuming(d)' <=> Resuming(d))
    BY DEF Rising, Resuming
  <2> QED
    BY <2>1, <2>2, <2>3, <2>4, <2>5, <2>6, <2>7 DEF Local, Covered
<1> QED
  BY <1>5, <1>6, <1>7, <1>8 DEF Local

\* The same for all instances and commands.
LEMMA WorldFades ==
    ASSUME WorldInv, UNCHANGED <<disk, owed>>, NothingLaunched, \A n : Fades(n),
           \A n \in Names : Busy(n)' <=> Busy(n),
           \A d \in Clients :
              \/ /\ pc'[d] = pc[d] /\ job'[d] = job[d] /\ mem'[d] = mem[d]
                 /\ undo'[d] = undo[d] /\ got'[d] = got[d]
              \/ pc'[d] \in {"idle", "open"} /\ EmptyHanded(d)'
    PROVE  WorldInv'
<1>1. ASSUME NEW d \in Clients PROVE Local(d)'
  BY LocalFades, LocalAway, WorldParts
<1>2. ASSUME NEW n \in Names, ~Busy(n)' PROVE AtRest(n)'
  BY <1>2, RestStays DEF WorldInv
<1>3. NoClash'
  BY NoLaunchClash DEF WorldInv
<1> QED
  BY <1>1, <1>2, <1>3 DEF WorldInv, Local

LEMMA StartWorldInv ==
    ASSUME Base, WorldInv, NEW c \in Clients, Start(c) PROVE WorldInv'
<1>1. /\ CoreType /\ pc[c] = "idle" /\ pc'[c] = "open" /\ UNCHANGED <<disk, owed, mem, undo, got>>
      /\ \A d \in Clients \ {c} : pc'[d] = pc[d] /\ job'[d] = job[d]
  BY DEF Start, Goto, Base, IInv, CoreType, registryVars
<1>2. NothingLaunched /\ \A n : Fades(n)
  BY StillFades DEF Start, worldVars
<1>3. EmptyHanded(c)'
  BY <1>1 DEF WorldInv, Gained, EmptyHanded
<1>4. \A n \in Names : Busy(n)' <=> Busy(n)
  BY <1>1 DEF Busy, Holding
<1> QED
  BY <1>1, <1>2, <1>3, <1>4, WorldFades

LEMMA ExitsWorldInv ==
    ASSUME Base, WorldInv, GroupExits \/ ContainerExits \/ UNCHANGED vars PROVE WorldInv'
<1>1. UNCHANGED <<disk, owed, pc, job, mem, undo, got>>
  BY DEF GroupExits, ContainerExits, vars, registryVars, clientVars
<1>2. NothingLaunched /\ \A n : Fades(n)
  <2>1. CASE GroupExits
    BY <2>1 DEF GroupExits, NothingLaunched, Fades, FadesNamed, FadesCtrs, FadesGroups
  <2>2. CASE ContainerExits
    <3>1. UNCHANGED <<made, procs, owed>>
      BY <2>2 DEF ContainerExits
    <3>2. PICK y \in ctrs : ctrs' = (ctrs \ {y}) \cup {[y EXCEPT !.up = FALSE]}
      BY <2>2 DEF ContainerExits
    <3>3. \A x \in ctrs' :
             \/ x \in ctrs
             \/ ~x.up /\ x.name = y.name /\ x.svc = y.svc /\ x.port = y.port
      <4>1. ASSUME NEW x \in ctrs', x \notin ctrs PROVE x = [y EXCEPT !.up = FALSE]
        BY <3>2, <4>1
      <4> QED
        BY <4>1, StoppedCtr DEF Base
    <3>4. NothingLaunched
      BY <3>1, <3>3 DEF NothingLaunched
    <3>5. ASSUME NEW n PROVE FadesCtrs(n)
      BY <3>1, <3>3 DEF FadesCtrs
    <3> QED
      BY <3>1, <3>4, <3>5 DEF Fades, FadesNamed, FadesGroups
  <2>3. CASE UNCHANGED vars
    BY <2>3, StillFades DEF vars
  <2> QED
    BY <2>1, <2>2, <2>3
<1>3. \A n \in Names : Busy(n)' <=> Busy(n)
  BY <1>1 DEF Busy, Holding
<1> QED
  BY <1>1, <1>2, <1>3, WorldFades

\* A command that gets the lock finds every instance at rest; of the
\* leftovers only those are struck off the list that are gone.
LEMMA OpenWorldInv ==
    ASSUME Base, WorldInv, NEW c \in Clients, Open(c) PROVE WorldInv'
<1>1. /\ CoreType /\ pc[c] = "open" /\ lock = NoClient /\ job[c] \in Job
      /\ pc' = [pc EXCEPT ![c] = FirstPhase[job[c].op]]
      /\ UNCHANGED <<disk, undo, got, made, ctrs, procs>>
      /\ owed' = owed \cap UNION {Things(n) : n \in Names}
  BY DEF Open, LockFree, Goto, Base, IInv, Known, Control, worldVars
<1>2. pc'[c] \in CheckPhases /\ \A d \in Clients \ {c} : pc'[d] = pc[d]
  BY <1>1 DEF CoreType, FirstPhase, CheckPhases, Job, Ops
<1>3. \A d \in Clients : pc[d] \in {"idle", "open"}
  BY <1>1, LifecycleAssumption DEF Base, IInv, Known, Control, Holding
<1>4. \A d \in Clients : EmptyHanded(d)'
  BY <1>1, <1>3 DEF WorldInv, Gained, EmptyHanded
<1>5. ASSUME NEW n \in Names PROVE AtRest(n)'
  <2>1. \A t \in Things(n) : t \in owed => t \in owed'
    BY <1>1
  <2>2. ASSUME NEW k \in Counted, <<n, k>> \in made PROVE <<n, k>> \in Things(n)
    BY <2>2, LifecycleAssumption DEF Things, Counted, Kinds
  <2>3. ASSUME NEW x \in ctrs, x.name = n PROVE <<n, x.svc>> \in Things(n)
    BY <2>3 DEF Things, CtrsOf
  <2>4. ASSUME NEW g \in procs, g[1] = n PROVE g \in Things(n)
    BY <2>4 DEF Things, GroupsOf
  <2>5. Fades(n)
    BY <1>1, <2>1, <2>2, <2>3, <2>4 DEF Fades, FadesNamed, FadesCtrs, FadesGroups
  <2>6. AtRest(n)
    BY <1>3 DEF WorldInv, Busy, Holding
  <2> QED
    BY <1>1, <2>5, <2>6, RestStays
<1>6. Name(c)' \in Names
  <2>1. CoreType' /\ job'[c] \in Job
    <3>1. IInv'
      BY NextIInv DEF Base, Next
    <3> QED
      BY <1>2, <3>1 DEF IInv, Known, Control, CheckPhases
  <2> QED
    BY <2>1 DEF Name, Job
<1>7. Local(c)'
  <2>1. PICK n \in Names : n = Name(c)'
    BY <1>6
  <2>2. AtRest(Name(c))'
    BY <1>5, <2>1, RestByName
  <2> QED
    BY <1>2, <1>4, <2>2, LocalCheck
<1>8. \A d \in Clients \ {c} : Local(d)'
  BY <1>2, <1>3, <1>4, LocalAway
<1>9. NoClash'
  <2>1. ASSUME NEW g \in procs, g \in owed PROVE g \in owed'
    <3>1. g[1] \in Names
      BY DEF Base, TypeOK, Group
    <3> QED
      BY <1>1, <2>1, <3>1 DEF Things, GroupsOf
  <2>2. NothingLaunched
    BY <1>1, <2>1 DEF NothingLaunched
  <2> QED
    BY <2>2, NoLaunchClash DEF WorldInv
<1> QED
  BY <1>5, <1>7, <1>8, <1>9 DEF WorldInv, Local

\* Where a command is when it holds the lock.
LEMMA AtWork ==
    ASSUME CoreType, NEW c \in Clients, Holding(c)
    PROVE  \/ pc[c] \in CheckPhases \cup DnPhases \cup SuPhases \cup {"close"}
           \/ Rising(c) \/ Resuming(c)
BY DEF CoreType, Phases, Holding, Rising, Resuming, CheckPhases, DnPhases, SuPhases, UpPhases,
    FreshPhases, AllocPhases, SavedPhases, RePhases

\* What a killed command leaves is in the record, or counted as owed.
LEMMA KilledRest ==
    ASSUME Base, WorldInv, NEW c \in Clients, Holding(c), NEW n, n = Name(c),
           UNCHANGED <<disk, made, ctrs, procs>>, owed' = owed \cup LeftBehind(c)
    PROVE  AtRest(n)'
<1>1. n = Name(c)
  OBVIOUS
<1>2. CoreType /\ OwnEntry(c)
  BY WorkerFacts
<1>3. Fades(n)
  BY DEF Fades, FadesNamed, FadesCtrs, FadesGroups
<1>4. CASE AtRest(Name(c))
  BY <1>1, <1>3, <1>4, RestStays
<1>5. CASE Rising(c) /\ ~Registered(disk, Name(c))
  <2>1. job[c].op = "up"
    BY <1>5 DEF Base, IInv, Known, Control, Rising
  <2>2. owed' = owed \cup Things(n)
    BY <1>1, <1>5, <2>1 DEF LeftBehind
  <2>3. \A k \in Counted : <<n, k>> \in made => <<n, k>> \in owed'
    BY <2>2, LifecycleAssumption DEF Things, Counted, Kinds
  <2>4. \A x \in ctrs : x.name = n => <<n, x.svc>> \in owed'
    BY <2>2 DEF Things, CtrsOf
  <2>5. \A g \in procs : g[1] = n => g \in owed'
    BY <2>2 DEF Things, GroupsOf
  <2>6. ~Registered(disk, n)'
    BY <1>1, <1>5 DEF Registered
  <2>7. AtRest(n)'
    BY <2>3, <2>4, <2>5, <2>6 DEF AtRest, NamedKnown, NamedOwed, CtrsKnown, GroupsKnown, Quiet,
        PortsRight
  <2> QED
    BY <1>1, <2>7
<1>6. CASE Rising(c) /\ Registered(disk, Name(c))
  <2>1. job[c].op = "up"
    BY <1>6 DEF Base, IInv, Known, Control, Rising
  <2>2. RiseCover(c) /\ Entry(c) = NewRecord(c)
    BY <1>2, <1>6 DEF WorldInv, Covered, RiseCover, OwnEntry
  <2> QED
    BY <1>4, <1>6, <2>1, <2>2, RisenRest
<1>7. CASE Resuming(c)
  <2>1. job[c].op = "resume" /\ Registered(disk, Name(c)) /\ ResumeCover(c)
    BY <1>2, <1>7 DEF OwnEntry, WorldInv, Covered, ResumeCover
  <2>2. owed' = owed \cup Running(n)
    BY <1>1, <2>1 DEF LeftBehind
  <2>3. \A x \in ctrs : x.name = n /\ x.up => <<n, x.svc>> \in owed'
    BY <2>2 DEF Running, CtrsOf
  <2>4. \A g \in procs : g[1] = n => g \in owed'
    BY <2>2 DEF Running, GroupsOf
  <2>5. CtrsKnown(n)' /\ PortsRight(n)'
    BY <1>1, <1>3, <2>1, CtrsKnownStays, PortsRightStays DEF ResumeCover, Registered, Fades
  <2>6. NamedKnown(n)'
    BY <1>1, <2>1 DEF NamedKnown, Registered
  <2>7. GroupsKnown(n)' /\ Quiet(n)'
    BY <2>3, <2>4 DEF GroupsKnown, Quiet, UpCtrsOwed, GroupsOwed
  <2> QED
    BY <1>1, <2>5, <2>6, <2>7 DEF AtRest
<1> QED
  BY <1>2, <1>4, <1>5, <1>6, <1>7, AtWork DEF WorldInv, Covered

LEMMA CrashWorldInv ==
    ASSUME Base, WorldInv, NEW c \in Clients, Crash(c) PROVE WorldInv'
<1>1. /\ CoreType /\ UNCHANGED <<disk, made, ctrs, procs>>
      /\ pc'[c] = "idle" /\ got'[c] = Nothing
      /\ \A d \in Clients \ {c} : /\ pc'[d] = pc[d] /\ job'[d] = job[d] /\ mem'[d] = mem[d]
                                  /\ undo'[d] = undo[d] /\ got'[d] = got[d]
  BY DEF Crash, Goto, Base, IInv, CoreType, worldVars
<1>2. EmptyHanded(c)'
  BY <1>1 DEF EmptyHanded, Nothing
<1>3. CASE ~Holding(c)
  <2>1. UNCHANGED owed
    BY <1>3 DEF Crash
  <2>2. NothingLaunched /\ \A n : Fades(n)
    BY <1>1, <2>1, StillFades
  <2>3. \A n \in Names : Busy(n)' <=> Busy(n)
    BY <1>1, <1>3 DEF Busy, Holding
  <2> QED
    BY <1>1, <1>2, <2>1, <2>2, <2>3, WorldFades
<1>4. CASE Holding(c)
  <2>1. owed' = owed \cup LeftBehind(c)
    BY <1>4 DEF Crash
  <2>2. \A d \in Clients \ {c} : pc[d] \in {"idle", "open"}
    BY <1>4, WorkerFacts
  <2>3. \A d \in Clients \ {c} : EmptyHanded(d)'
    BY <1>1, <2>2 DEF WorldInv, Gained, EmptyHanded
  <2>4. \A d \in Clients : Local(d)'
    BY <1>1, <1>2, <2>2, <2>3, LocalAway
  <2>5. ASSUME NEW n \in Names PROVE AtRest(n)'
    <3>1. CASE n = Name(c)
      BY <1>1, <1>4, <2>1, <3>1, KilledRest
    <3>2. CASE n # Name(c)
      <4>1. ~Busy(n)
        BY <2>2, <3>2 DEF Busy, Holding, Name
      <4>2. AtRest(n) /\ Fades(n)
        BY <1>1, <2>1, <4>1 DEF WorldInv, Fades, FadesNamed, FadesCtrs, FadesGroups
      <4> QED
        BY <1>1, <4>2, RestStays
    <3> QED
      BY <3>1, <3>2
  <2>6. NoClash'
    BY <1>1, <2>1 DEF WorldInv, NoClash
  <2> QED
    BY <2>4, <2>5, <2>6 DEF WorldInv, Local
<1> QED
  BY <1>3, <1>4

LEMMA NextWorldInv == Base /\ WorldInv /\ [Next]_vars => WorldInv'
BY StartWorldInv, OpenWorldInv, StepWorldInv, CrashWorldInv, ExitsWorldInv DEF Next

LEMMA InitWorldInv == Init => WorldInv
<1> SUFFICES ASSUME Init PROVE WorldInv
  OBVIOUS
<1>1. made = {} /\ ctrs = {} /\ procs = {} /\ \A n \in Names : ~Registered(disk, n)
  BY DEF Init, EmptyRegistry, Registered
<1>2. \A c \in Clients : pc[c] = "idle" /\ EmptyHanded(c)
  BY DEF Init, EmptyHanded, Nothing
<1>3. ASSUME NEW n \in Names PROVE AtRest(n)
  BY <1>1 DEF AtRest, NamedKnown, NamedOwed, CtrsKnown, GroupsKnown, Quiet, PortsRight
<1>4. ASSUME NEW c \in Clients PROVE Gained(c) /\ Progress(c) /\ PortsClear(c) /\ Covered(c)
  BY <1>2 DEF EmptyHanded, Gained, Progress, PortsClear, Covered, Rising, Resuming, CheckPhases,
      FreshPhases, AllocPhases, SavedPhases, UpPhases, DnPhases, SuPhases, RePhases, GoneBy, NamedOwed
<1>5. NoClash
  BY <1>1 DEF NoClash
<1> QED
  BY <1>3, <1>4, <1>5 DEF WorldInv

LEMMA WorldInvariant == Spec => []WorldInv
<1>1. Base /\ WorldInv /\ [Next]_vars => WorldInv'
  BY NextWorldInv
<1> QED
  BY <1>1, InitWorldInv, BaseInvariant, PTL DEF Spec

-----------------------------------------------------------------------------

(***************************************************************************)
(* What the invariant is for                                               *)
(***************************************************************************)

\* The inductive invariant of the lifecycle holds in every reachable state:
\* the registry copies are current, the file fits the command at work, and
\* each thing of an instance is recorded, owed, or has a cleanup.
THEOREM WorldHolds == Spec => []WInv
BY BaseInvariant, WorldInvariant, RecordInvariant, PTL DEF WInv, Base

\* No two live workloads share a host port, groups left behind aside, and
\* whatever of the others listens when a port is probed: up takes ports that
\* are neither allocated nor in use, resume probes those of the record, both
\* hold the lock, and of a group that is not left behind the registry has the
\* port allocated (up.go allocatePorts, resume.go).
THEOREM NoPortCollisionHolds == Spec => []NoPortCollision
<1>1. TypeOK /\ WorldInv => NoPortCollision
  <2> SUFFICES ASSUME TypeOK, NoClash, NEW w \in Workloads \ LeftGroups,
                      NEW v \in Workloads \ LeftGroups, w[3] = v[3]
               PROVE  w = v
    BY DEF NoPortCollision, WorldInv
  <2>1. ASSUME NEW u \in Workloads \ LeftGroups
        PROVE  u \in procs \ owed \/ \E x \in ctrs : x.up /\ u = <<x.name, x.svc, x.port>>
    BY <2>1 DEF Workloads, LeftGroups
  <2>2. CASE w \in procs \ owed /\ v \in procs \ owed
    BY <2>2 DEF NoClash
  <2>3. ASSUME NEW x \in ctrs, x.up, NEW y \in ctrs, y.up,
               w = <<x.name, x.svc, x.port>>, v = <<y.name, y.svc, y.port>>
        PROVE  w = v
    BY <2>3 DEF NoClash
  <2>4. ASSUME NEW x \in ctrs, x.up, NEW g \in procs \ owed PROVE x.port # g[3]
    BY <2>4 DEF NoClash
  <2> QED
    BY <2>1, <2>2, <2>3, <2>4
<1> QED
  BY <1>1, BaseInvariant, WorldInvariant, PTL DEF Base

\* Nothing of a suspended instance runs that a suspend, a rollback or a kill
\* did not leave on record as owed (suspend.go, resume.go).
THEOREM SuspendedIsQuietHolds == Spec => []SuspendedIsQuiet
<1>1. WorldInv => SuspendedIsQuiet
  <2> SUFFICES ASSUME NEW n \in Names, Quiet(n), Registered(disk, n),
                      disk.inst[n].state = "suspended"
               PROVE  Running(n) \subseteq owed
    BY DEF WorldInv, AtRest, SuspendedIsQuiet
  <2> QED
    BY DEF Quiet, UpCtrsOwed, GroupsOwed, Running, CtrsOf, GroupsOf
<1> QED
  BY <1>1, WorldInvariant, PTL

\* What an instance at rest has is in its record or owed.
LEMMA RestTracked ==
    ASSUME \A d, e \in Dbs : d = e, TypeOK, NEW n \in Names, AtRest(n)
    PROVE  Things(n) \subseteq Tracked(n) \cup owed
<1>1. ASSUME NEW t \in made, t[1] = n, t[2] # "record" PROVE t \in Tracked(n) \cup owed
  <2>1. t = <<n, t[2]>> /\ t[2] \in Counted /\ t[2] \in Kinds \cup Dbs
    BY <1>1 DEF TypeOK, Counted
  <2> QED
    BY <2>1 DEF AtRest, NamedKnown, NamedOwed, Tracked
<1>2. ASSUME NEW x \in ctrs, x.name = n PROVE <<n, x.svc>> \in Tracked(n) \cup owed
  BY <1>2 DEF AtRest, CtrsKnown, Tracked
<1>3. ASSUME NEW g \in procs, g[1] = n PROVE g \in Tracked(n) \cup owed
  <2>1. g \in Group
    BY <1>3 DEF TypeOK
  <2>2. CASE /\ Registered(disk, n)
             /\ <<g[2], g[4]>> \in disk.inst[n].pids /\ g[3] = disk.inst[n].ports[g[2]]
    <3>1. disk.inst[n].pids \in PidSets
      BY <2>2 DEF TypeOK, RegistryValue, Registered, InstanceRecord
    <3> QED
      BY <1>3, <2>1, <2>2, <3>1, NamedGroups DEF Tracked, GroupsIn
  <2> QED
    BY <1>3, <2>2 DEF AtRest, GroupsKnown
<1> QED
  BY <1>1, <1>2, <1>3 DEF Things, CtrsOf, GroupsOf

\* With at most one database to an instance, whatever an instance at rest has
\* is in its record, or a command tried to remove it or was killed before it
\* could.  With two this is false, as a failing clone shows: the cleanup of the
\* databases is pushed after all of them are cloned (up.go, step 5).
THEOREM NothingLostHolds ==
    ASSUME \A d, e \in Dbs : d = e PROVE Spec => []NothingLost
<1>1. TypeOK /\ WorldInv => NothingLost
  BY RestTracked DEF WorldInv, NothingLost
<1> QED
  BY <1>1, BaseInvariant, WorldInvariant, PTL DEF Base

\* An up that fails without a kill leaves nothing but what its rollback tried
\* to remove and could not, again with at most one database
\* (docs/manual.md:586, up.go rollback).
THEOREM FailedUpLeavesNothingHolds ==
    ASSUME \A d, e \in Dbs : d = e PROVE Spec => []FailedUpLeavesNothing
<1>1. TypeOK /\ WorldInv => FailedUpLeavesNothing
  <2> SUFFICES ASSUME TypeOK, WorldInv, NEW n \in Names, ~Busy(n), ~Registered(disk, n)
               PROVE  Things(n) \subseteq owed
    BY DEF FailedUpLeavesNothing
  <2>1. Things(n) \subseteq Tracked(n) \cup owed
    BY RestTracked DEF WorldInv
  <2> QED
    BY <2>1 DEF Tracked
<1> QED
  BY <1>1, BaseInvariant, WorldInvariant, PTL DEF Base

=============================================================================
