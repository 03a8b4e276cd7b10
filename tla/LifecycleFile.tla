---------------------------- MODULE LifecycleFile ----------------------------
(***************************************************************************)
(* What the registry file says of the instance a command works on, and     *)
(* with it that Lifecycle implements Instances.                            *)
(*                                                                         *)
(* IInv leaves open what the file says of the instance at work: its copy   *)
(* runs ahead of the file.  FileInv says it, phase by phase; a save is     *)
(* then one step of Instances, or none.                                    *)
(***************************************************************************)
EXTENDS LifecycleProofs, FiniteSetTheorems, FunctionTheorems

\* The stretches of phases the proofs split by.
Stretches == {FreshPhases, AllocPhases, SavedPhases, DnPhases, SuPhases,
              RePhases \ {"re_verify"}}

-----------------------------------------------------------------------------

(***************************************************************************)
(* FileInv                                                                 *)
(***************************************************************************)

\* A command that is not at work claims nothing of the file.
LEMMA AwayEntry ==
    ASSUME NEW c, pc'[c] \in {"idle", "open", "close"} PROVE OwnEntry(c)'
BY DEF OwnEntry, Rising, Resuming, CheckPhases, UpPhases, FreshPhases, AllocPhases, SavedPhases,
    WorkPhases, DnPhases, SuPhases, RePhases

\* A step that leaves file and copy alone and stays in its stretch, or goes
\* over to the rollback or the end.
LEMMA QuietEntry ==
    ASSUME IInv, NEW c \in Clients, OwnEntry(c), UNCHANGED <<disk, job, mem>>,
           NEW next, pc' = [pc EXCEPT ![c] = next],
           \/ next = "close"
           \/ /\ next = "rollback" /\ Holding(c) /\ pc[c] # "close"
              /\ pc[c] \notin CheckPhases \cup DnPhases \cup SuPhases
           \/ \E ps \in Stretches : pc[c] \in ps /\ next \in ps,
           got'[c] = got[c] \/ pc[c] \in AllocPhases \cup (RePhases \ {"re_verify"})
    PROVE  OwnEntry(c)'
<1>1. pc'[c] = next /\ pc[c] \in Phases
  BY DEF IInv, CoreType
<1>2. Control(c)
  BY DEF IInv, Known
<1>3. /\ Name(c)' = Name(c) /\ job'[c] = job[c] /\ Rec(c)' = Rec(c) /\ Entry(c)' = Entry(c)
      /\ Registered(disk, Name(c))' = Registered(disk, Name(c))
      /\ got'[c] = got[c] => NewRecord(c)' = NewRecord(c)
  BY DEF Name, Rec, Entry, Registered, NewRecord
<1> USE DEF CheckPhases, UpPhases, FreshPhases, AllocPhases, SavedPhases, WorkPhases,
            DnPhases, SuPhases, RePhases
<1>4. CASE next = "close"
  BY <1>1, <1>4, AwayEntry
<1>5. CASE next = "rollback" /\ pc[c] \in AllocPhases
  BY <1>1, <1>2, <1>3, <1>5 DEF OwnEntry, Control, Rising, Resuming
<1>6. CASE next = "rollback" /\ pc[c] \in RePhases \ {"re_verify"}
  BY <1>1, <1>2, <1>3, <1>6 DEF OwnEntry, Control, Rising, Resuming
<1>7. CASE next = "rollback" /\ pc[c] \in FreshPhases \cup SavedPhases \cup {"re_verify", "rollback"}
  <2>1. got'[c] = got[c]
    BY <1>7
  <2> QED
    BY <1>1, <1>2, <1>3, <1>7, <2>1 DEF OwnEntry, Control, Rising, Resuming
<1>8. CASE pc[c] \in FreshPhases /\ next \in FreshPhases
  <2>1. got'[c] = got[c]
    BY <1>8
  <2> QED
    BY <1>1, <1>2, <1>3, <1>8, <2>1 DEF OwnEntry, Control, Rising, Resuming
<1>9. CASE pc[c] \in AllocPhases /\ next \in AllocPhases
  BY <1>1, <1>2, <1>3, <1>9 DEF OwnEntry, Control, Rising, Resuming
<1>10. CASE pc[c] \in SavedPhases /\ next \in SavedPhases
  <2>1. got'[c] = got[c]
    BY <1>10
  <2> QED
    BY <1>1, <1>2, <1>3, <1>10, <2>1 DEF OwnEntry, Control, Rising, Resuming
<1>11. CASE pc[c] \in DnPhases /\ next \in DnPhases
  BY <1>1, <1>2, <1>3, <1>11 DEF OwnEntry, Control, Rising, Resuming
<1>12. CASE pc[c] \in SuPhases /\ next \in SuPhases
  BY <1>1, <1>2, <1>3, <1>12 DEF OwnEntry, Control, Rising, Resuming
<1>13. CASE pc[c] \in RePhases \ {"re_verify"} /\ next \in RePhases \ {"re_verify"}
  BY <1>1, <1>2, <1>3, <1>13 DEF OwnEntry, Control, Rising, Resuming
<1> QED
  BY <1>1, <1>4, <1>5, <1>6, <1>7, <1>8, <1>9, <1>10, <1>11, <1>12, <1>13
  DEF Stretches, Holding, Phases

\* The check of a command passed.
LEMMA PassEntry ==
    ASSUME IInv, NEW c \in Clients, OwnEntry(c), pc[c] \in CheckPhases,
           UNCHANGED <<disk, job, mem, got>>,
           NEW next, pc' = [pc EXCEPT ![c] = next],
           \/ /\ pc[c] = "up_check" /\ next = "up_worktree" /\ ~Registered(mem[c], Name(c))
           \/ /\ pc[c] = "dn_check" /\ next = "dn_procs" /\ Registered(mem[c], Name(c))
           \/ /\ pc[c] = "su_check" /\ next = "su_procs" /\ Registered(mem[c], Name(c))
              /\ Rec(c).state = "running"
           \/ /\ pc[c] = "re_check" /\ next = "re_ctrs" /\ Registered(mem[c], Name(c))
              /\ Rec(c).state = "suspended"
    PROVE  OwnEntry(c)'
<1>1. pc'[c] = next
  BY DEF IInv, CoreType
<1>2. Control(c)
  BY DEF IInv, Known
<1>3. /\ Name(c)' = Name(c) /\ job'[c] = job[c] /\ Rec(c)' = Rec(c) /\ Entry(c)' = Entry(c)
      /\ Registered(disk, Name(c))' = Registered(disk, Name(c))
  BY DEF Name, Rec, Entry, Registered
<1>4. Entry(c) = Rec(c) /\ (Registered(disk, Name(c)) <=> Registered(mem[c], Name(c)))
  BY DEF OwnEntry, SameEntry, Entry, Rec, Registered
<1>5. job[c] \in Job /\ pc[c] = FirstPhase[job[c].op]
  BY <1>2 DEF Control, CheckPhases
<1>6. /\ pc[c] = "up_check" => job[c].op = "up"
      /\ pc[c] = "dn_check" => job[c].op = "down"
      /\ pc[c] = "su_check" => job[c].op = "suspend"
      /\ pc[c] = "re_check" => job[c].op = "resume"
  BY <1>5 DEF FirstPhase, Job, Ops
<1> QED
  BY <1>1, <1>3, <1>4, <1>6
  DEF OwnEntry, Rising, Resuming, CheckPhases, UpPhases, FreshPhases, AllocPhases, SavedPhases,
      WorkPhases, DnPhases, SuPhases, RePhases

LEMMA ChecksEntry ==
    ASSUME IInv, NEW c \in Clients, OwnEntry(c),
           UpCheck(c) \/ DnCheck(c) \/ SuCheck(c) \/ ReCheck(c)
    PROVE  OwnEntry(c)'
<1>1. pc[c] \in CheckPhases /\ UNCHANGED <<disk, job, mem, got>>
  BY DEF UpCheck, DnCheck, SuCheck, ReCheck, CheckPhases, registryVars
<1>2. ASSUME Goto(c, "close") PROVE OwnEntry(c)'
  BY <1>1, <1>2, QuietEntry DEF Goto
<1>3. CASE UpCheck(c)
  BY <1>1, <1>2, <1>3, PassEntry DEF UpCheck, Goto
<1>4. CASE DnCheck(c)
  BY <1>1, <1>2, <1>4, PassEntry DEF DnCheck, Goto
<1>5. CASE SuCheck(c)
  BY <1>1, <1>2, <1>5, PassEntry DEF SuCheck, Goto
<1>6. CASE ReCheck(c)
  BY <1>1, <1>2, <1>6, PassEntry DEF ReCheck, Goto
<1> QED
  BY <1>3, <1>4, <1>5, <1>6

LEMMA UpEntry ==
    ASSUME IInv, NEW c \in Clients, OwnEntry(c),
           \/ UpWorktree(c) \/ UpMailbox(c) \/ UpNetwork(c) \/ UpEnv(c) \/ UpClone(c)
           \/ UpMigrate(c) \/ UpCtrs(c) \/ UpProcs(c) \/ UpSettle(c) \/ UpRecord(c)
    PROVE  OwnEntry(c)'
<1> DEFINE Quiet2(next) ==
       /\ UNCHANGED <<disk, job, mem>> /\ pc' = [pc EXCEPT ![c] = next]
       /\ got'[c] = got[c] \/ pc[c] \in AllocPhases
       /\ \/ next = "rollback" /\ pc[c] \in UpPhases
          \/ \E ps \in Stretches : pc[c] \in ps /\ next \in ps
<1>1. ASSUME NEW next, Quiet2(next) PROVE OwnEntry(c)'
  BY <1>1, QuietEntry DEF Holding, UpPhases, FreshPhases, AllocPhases, SavedPhases, CheckPhases,
      DnPhases, SuPhases
<1>2. /\ FreshPhases \in Stretches /\ AllocPhases \in Stretches /\ SavedPhases \in Stretches
  BY DEF Stretches
<1>3. CASE UpWorktree(c) \/ UpMailbox(c) \/ UpNetwork(c)
  BY <1>1, <1>2, <1>3 DEF UpWorktree, UpMailbox, UpNetwork, Goto, registryVars, UpPhases, FreshPhases
<1>4. CASE UpEnv(c) \/ UpClone(c) \/ UpMigrate(c) \/ UpSettle(c)
  BY <1>1, <1>2, <1>4 DEF UpEnv, UpClone, UpMigrate, UpSettle, Goto, registryVars, UpPhases, AllocPhases
<1>5. CASE UpCtrs(c) \/ UpProcs(c)
  BY <1>1, <1>2, <1>5 DEF UpCtrs, UpProcs, Goto, registryVars, UpPhases, AllocPhases
<1>6. CASE UpRecord(c)
  BY <1>1, <1>2, <1>6 DEF UpRecord, Goto, registryVars, UpPhases, SavedPhases
<1> QED
  BY <1>3, <1>4, <1>5, <1>6

LEMMA DownEntry ==
    ASSUME IInv, NEW c \in Clients, OwnEntry(c),
           \/ DnProcs(c) \/ DnCtrs(c) \/ DnDbs(c) \/ DnNetwork(c)
           \/ DnWorktree(c) \/ DnMailbox(c) \/ SuProcs(c) \/ SuCtrs(c)
    PROVE  OwnEntry(c)'
<1>1. UNCHANGED <<disk, job, mem, got>>
  BY DEF DnProcs, DnCtrs, DnDbs, DnNetwork, DnWorktree, DnMailbox, SuProcs, SuCtrs, DnMade,
      TerminateRecorded, registryVars
<1>2. PICK next : /\ pc' = [pc EXCEPT ![c] = next]
                  /\ \/ pc[c] \in DnPhases /\ next \in DnPhases
                     \/ pc[c] \in SuPhases /\ next \in SuPhases
  BY DEF DnProcs, DnCtrs, DnDbs, DnNetwork, DnWorktree, DnMailbox, SuProcs, SuCtrs, DnMade,
      TerminateRecorded, Goto, DnPhases, SuPhases
<1> QED
  BY <1>1, <1>2, QuietEntry DEF Stretches

LEMMA ResumeEntry ==
    ASSUME IInv, NEW c \in Clients, OwnEntry(c),
           ReCtrs(c) \/ ReEnv(c) \/ ReProcs(c) \/ ReSettle(c)
    PROVE  OwnEntry(c)'
<1>1. UNCHANGED <<disk, job, mem>> /\ pc[c] \in RePhases \ {"re_verify"}
  BY DEF ReCtrs, ReEnv, ReProcs, ReSettle, registryVars, RePhases
<1>2. \E next : /\ pc' = [pc EXCEPT ![c] = next]
                /\ next = "rollback" \/ next \in RePhases \ {"re_verify"}
  <2>1. CASE ReCtrs(c)
    BY <2>1 DEF ReCtrs, Goto, RePhases
  <2>2. CASE ReEnv(c) \/ ReProcs(c) \/ ReSettle(c)
    BY <2>2 DEF ReEnv, ReProcs, ReSettle, Goto, RePhases
  <2> QED
    BY <2>1, <2>2
<1>3. PICK next : /\ pc' = [pc EXCEPT ![c] = next]
                  /\ next = "rollback" \/ next \in RePhases \ {"re_verify"}
  BY <1>2
<1>4. pc[c] \notin CheckPhases \cup DnPhases \cup SuPhases /\ Holding(c) /\ pc[c] # "close"
  BY <1>1 DEF RePhases, CheckPhases, DnPhases, SuPhases, Holding
<1> QED
  BY <1>1, <1>3, <1>4, QuietEntry DEF Stretches

\* A cleanup that leaves file and entry alone.
LEMMA UndoEntry ==
    ASSUME IInv, NEW c \in Clients, OwnEntry(c), pc[c] = "rollback",
           pc' = [pc EXCEPT ![c] = "rollback"], UNCHANGED <<disk, job, got>>,
           Rec(c)' = Rec(c)
    PROVE  OwnEntry(c)'
<1>1. pc'[c] = "rollback"
  BY DEF IInv, CoreType
<1>2. /\ Name(c)' = Name(c) /\ job'[c] = job[c] /\ Entry(c)' = Entry(c)
      /\ Registered(disk, Name(c))' = Registered(disk, Name(c))
      /\ NewRecord(c)' = NewRecord(c)
  BY DEF Name, Entry, Registered, NewRecord
<1> QED
  BY <1>1, <1>2
  DEF OwnEntry, Rising, Resuming, CheckPhases, UpPhases, FreshPhases, AllocPhases, SavedPhases,
      WorkPhases, DnPhases, SuPhases, RePhases

LEMMA UndosEntry ==
    ASSUME IInv, NEW c \in Clients, OwnEntry(c),
           \/ UndoWorktree(c) \/ UndoMailbox(c) \/ UndoNetwork(c) \/ UndoDbs(c)
           \/ UndoRecord(c) \/ UndoCtrs(c) \/ UndoStopCtrs(c) \/ UndoProcs(c)
           \/ UndoPorts(c) \/ RolledBack(c)
    PROVE  OwnEntry(c)'
<1>1. CASE RolledBack(c)
  BY <1>1, QuietEntry DEF RolledBack, Goto, registryVars
<1>2. CASE UndoPorts(c)
  <2>1. Rec(c)' = Rec(c)
    BY <1>2 DEF UndoPorts, Rec, Name, ReleasePorts, IInv, CoreType
  <2> QED
    BY <1>2, <2>1, UndoEntry, PopFacts DEF UndoPorts, Undoing, registryVars
<1>3. CASE ~RolledBack(c) /\ ~UndoPorts(c)
  <2>1. PICK tag : Undoing(c, tag)
    BY <1>3 DEF UndoWorktree, UndoMailbox, UndoNetwork, UndoDbs, UndoRecord, UndoMade, UndoCtrs,
        UndoStopCtrs, UndoProcs
  <2>2. UNCHANGED <<disk, job, mem, got>>
    BY <1>3 DEF UndoWorktree, UndoMailbox, UndoNetwork, UndoDbs, UndoRecord, UndoMade, UndoCtrs,
        UndoStopCtrs, UndoProcs, registryVars
  <2>3. Rec(c)' = Rec(c)
    BY <2>2 DEF Rec, Name
  <2> QED
    BY <2>1, <2>2, <2>3, UndoEntry, PopFacts
<1> QED
  BY <1>1, <1>2, <1>3

-----------------------------------------------------------------------------

(***************************************************************************)
(* The saves                                                               *)
(***************************************************************************)

\* What holds when a command is about to save.
LEMMA SaverFacts ==
    ASSUME IInv, NEW c \in Clients, Holding(c), pc[c] # "close"
    PROVE  /\ CoreType /\ Name(c) \in Names /\ mem[c] \in RegistryValue /\ disk \in RegistryValue
           /\ \A n \in Names \ {Name(c)} : SameEntry(mem[c], disk, n)
           /\ \A n \in Names : TablesAgree(disk, n)
<1>1. CoreType /\ Control(c) /\ OtherCopies(c) /\ PortTablesAgree
  BY DEF IInv, Known
<1>2. Name(c) \in Names
  BY <1>1 DEF Control, Holding, Name, Job
<1> QED
  BY <1>1, <1>2 DEF CoreType, OtherCopies, SameEntry, PortTablesAgree

\* The entry is written in the copy, perhaps in the file, and in the end the
\* copy has it and the phase is next.
LEMMA PutFacts ==
    ASSUME IInv, NEW c \in Clients, Holding(c), pc[c] # "close",
           NEW rec \in InstanceRecord,
           mem' = [mem EXCEPT ![c] = PutInstance(mem[c], Name(c), rec)],
           UNCHANGED <<job, got>>, NEW next, pc' = [pc EXCEPT ![c] = next],
           disk' = mem'[c] \/ UNCHANGED disk
    PROVE  /\ Name(c)' = Name(c) /\ job'[c] = job[c] /\ Rec(c)' = rec
           /\ NewRecord(c)' = NewRecord(c) /\ got'[c] = got[c] /\ pc'[c] = next
           /\ UNCHANGED disk => /\ Entry(c)' = Entry(c)
                                /\ Registered(disk, Name(c))' <=> Registered(disk, Name(c))
           /\ disk' = mem'[c] => Entry(c)' = rec /\ Registered(disk, Name(c))'
<1>1. CoreType /\ Name(c) \in Names /\ mem[c] \in RegistryValue
  BY SaverFacts
<1>2. /\ PutInstance(mem[c], Name(c), rec).inst[Name(c)] = rec
      /\ Registered(PutInstance(mem[c], Name(c), rec), Name(c))
  BY <1>1, PutInstanceType
<1>3. mem'[c] = PutInstance(mem[c], Name(c), rec) /\ pc'[c] = next
  BY <1>1 DEF CoreType
<1>4. Name(c)' = Name(c) /\ job'[c] = job[c] /\ NewRecord(c)' = NewRecord(c) /\ got'[c] = got[c]
  BY DEF Name, NewRecord
<1> QED
  BY <1>2, <1>3, <1>4 DEF Rec, Entry, Registered

LEMMA UpSaveEntry ==
    ASSUME IInv, NEW c \in Clients, OwnEntry(c), UpSave(c) PROVE OwnEntry(c)'
<1>1. /\ Holding(c) /\ pc[c] # "close" /\ job[c].op = "up" /\ ~Registered(disk, Name(c))
      /\ CoreType /\ NewRecord(c) \in InstanceRecord
  <2>1. CoreType /\ Control(c) /\ OwnCopy(c)
    BY DEF IInv, Known
  <2>2. got[c].ports \in PortMap /\ job[c].op = "up"
    BY <2>1 DEF OwnCopy, Control, UpSave, AllocPhases, UpPhases
  <2> QED
    BY <2>1, <2>2 DEF UpSave, Holding, OwnEntry, AllocPhases, NewRecord, InstanceRecord, CoreType,
        PortMap
<1>2. /\ mem' = [mem EXCEPT ![c] = PutInstance(mem[c], Name(c), NewRecord(c))]
      /\ UNCHANGED <<job, got>>
  BY DEF UpSave
<1>3. CASE Saves(c, mem'[c]) /\ Goto(c, "up_record")
  <2>1. disk' = mem'[c] /\ pc' = [pc EXCEPT ![c] = "up_record"]
    BY <1>3 DEF Saves, Goto
  <2>2. /\ job'[c] = job[c] /\ Rec(c)' = NewRecord(c) /\ NewRecord(c)' = NewRecord(c)
        /\ pc'[c] = "up_record" /\ Entry(c)' = NewRecord(c)
    BY <1>1, <1>2, <2>1, PutFacts
  <2>3. Registered(disk, Name(c))'
    BY <1>1, <2>2, NullAssumption DEF Entry, Registered
  <2> QED
    BY <1>1, <2>2, <2>3
    DEF OwnEntry, Rising, Resuming, CheckPhases, UpPhases, FreshPhases, AllocPhases,
        SavedPhases, WorkPhases, DnPhases, SuPhases, RePhases
<1>4. CASE SaveFails /\ Goto(c, "rollback")
  <2>1. UNCHANGED disk /\ pc' = [pc EXCEPT ![c] = "rollback"]
    BY <1>4 DEF SaveFails, Goto
  <2>2. /\ job'[c] = job[c] /\ pc'[c] = "rollback" /\ ~Registered(disk, Name(c))'
    BY <1>1, <1>2, <2>1, PutFacts
  <2> QED
    BY <1>1, <2>2
    DEF OwnEntry, Rising, Resuming, CheckPhases, UpPhases, FreshPhases, AllocPhases,
        SavedPhases, WorkPhases, DnPhases, SuPhases, RePhases
<1> QED
  BY <1>3, <1>4 DEF UpSave

LEMMA SuSaveEntry ==
    ASSUME IInv, NEW c \in Clients, SuSave(c) PROVE OwnEntry(c)'
<1>1. pc'[c] = "close"
  BY DEF SuSave, Goto, IInv, CoreType
<1> QED
  BY <1>1, AwayEntry

LEMMA DnSaveEntry ==
    ASSUME IInv, NEW c \in Clients, DnSave(c) PROVE OwnEntry(c)'
<1>1. pc'[c] = "close"
  BY DEF DnSave, Goto, IInv, CoreType
<1> QED
  BY <1>1, AwayEntry

LEMMA ReSaveEntry ==
    ASSUME IInv, NEW c \in Clients, OwnEntry(c), ReSave(c) PROVE OwnEntry(c)'
<1> DEFINE rec == [Rec(c) EXCEPT !.state = "running", !.pids = got[c].pids]
<1>1. /\ Holding(c) /\ pc[c] # "close" /\ Resuming(c) /\ pc[c] \in WorkPhases
      /\ CoreType /\ Rec(c) \in InstanceRecord /\ job[c].op # "up"
  BY WorkFacts DEF ReSave, WorkPhases, Resuming, RePhases
<1>2. /\ rec \in InstanceRecord /\ rec.ports = Rec(c).ports /\ rec.ctrs = Rec(c).ctrs
      /\ rec.state = "running" /\ rec.pids = got[c].pids
  BY <1>1 DEF InstanceRecord, CoreType
<1>3. mem' = [mem EXCEPT ![c] = PutInstance(mem[c], Name(c), rec)] /\ UNCHANGED <<job, got>>
  BY DEF ReSave
<1> HIDE DEF rec
<1>4. /\ job[c].op = "resume" /\ Registered(disk, Name(c))
      /\ Entry(c).ports = Rec(c).ports /\ Entry(c).ctrs = Rec(c).ctrs
  BY <1>1 DEF OwnEntry
<1>5. CASE Saves(c, mem'[c]) /\ Goto(c, "re_verify")
  <2>1. disk' = mem'[c] /\ pc' = [pc EXCEPT ![c] = "re_verify"]
    BY <1>5 DEF Saves, Goto
  <2>2. /\ job'[c] = job[c] /\ Rec(c)' = rec /\ got'[c] = got[c] /\ pc'[c] = "re_verify"
        /\ Entry(c)' = rec /\ Registered(disk, Name(c))'
    BY <1>1, <1>2, <1>3, <2>1, PutFacts
  <2> QED
    BY <1>1, <1>2, <1>4, <2>2
    DEF OwnEntry, Rising, Resuming, CheckPhases, UpPhases, FreshPhases, AllocPhases,
        SavedPhases, WorkPhases, DnPhases, SuPhases, RePhases
<1>6. CASE SaveFails /\ Goto(c, "rollback")
  <2>1. UNCHANGED disk /\ pc' = [pc EXCEPT ![c] = "rollback"]
    BY <1>6 DEF SaveFails, Goto
  <2>2. /\ job'[c] = job[c] /\ Rec(c)' = rec /\ pc'[c] = "rollback"
        /\ Entry(c)' = Entry(c) /\ Registered(disk, Name(c))'
    BY <1>1, <1>2, <1>3, <1>4, <2>1, PutFacts
  <2> QED
    BY <1>1, <1>2, <1>4, <2>2
    DEF OwnEntry, Rising, Resuming, CheckPhases, UpPhases, FreshPhases, AllocPhases,
        SavedPhases, WorkPhases, DnPhases, SuPhases, RePhases
<1> QED
  BY <1>5, <1>6 DEF ReSave

LEMMA VerifyEntry ==
    ASSUME IInv, NEW c \in Clients, OwnEntry(c), UpVerify(c) \/ ReVerify(c) PROVE OwnEntry(c)'
<1>1. CASE Goto(c, "close")
  <2>1. pc'[c] = "close"
    BY <1>1 DEF Goto, IInv, CoreType
  <2> QED
    BY <2>1, AwayEntry
<1>2. CASE SaveFails /\ Goto(c, "rollback")
  BY <1>2, QuietEntry DEF UpVerify, ReVerify, SaveFails, Goto, Holding, CheckPhases, DnPhases, SuPhases
<1> QED
  BY <1>1, <1>2 DEF UpVerify, ReVerify

LEMMA UndoResumeEntry ==
    ASSUME IInv, NEW c \in Clients, OwnEntry(c), UndoResume(c) PROVE OwnEntry(c)'
<1> DEFINE rec == [Rec(c) EXCEPT !.state = "suspended"]
<1>1. /\ CoreType /\ pc[c] = "rollback" /\ Holding(c) /\ pc' = [pc EXCEPT ![c] = "rollback"]
      /\ "suspend" \in TagsOf(job[c].op, got[c].ports)
  BY PopFacts DEF UndoResume
<1>2. job[c].op # "up" /\ Resuming(c)
  BY <1>1 DEF TagsOf, Resuming
<1>3. Rec(c) \in InstanceRecord
  BY <1>1, <1>2, WorkFacts
<1>4. rec \in InstanceRecord /\ rec.ports = Rec(c).ports /\ rec.ctrs = Rec(c).ctrs
  BY <1>3 DEF InstanceRecord
<1>5. mem' = [mem EXCEPT ![c] = PutInstance(mem[c], Name(c), rec)] /\ UNCHANGED <<job, got>>
  BY DEF UndoResume
<1> HIDE DEF rec
<1>6. /\ job[c].op = "resume" /\ Registered(disk, Name(c))
      /\ Entry(c).ports = Rec(c).ports /\ Entry(c).ctrs = Rec(c).ctrs
  BY <1>2 DEF OwnEntry
<1>7. disk' = mem'[c] \/ UNCHANGED disk
  BY DEF UndoResume, Saves, SaveFails
<1>8. /\ pc'[c] = "rollback" /\ job'[c] = job[c] /\ Rec(c)' = rec
      /\ disk' = mem'[c] => Entry(c)' = rec /\ Registered(disk, Name(c))'
      /\ UNCHANGED disk => /\ Entry(c)' = Entry(c)
                           /\ Registered(disk, Name(c))' <=> Registered(disk, Name(c))
  BY <1>1, <1>4, <1>5, <1>7, PutFacts, ZenonT(60)
<1>9. /\ Registered(disk, Name(c))'
      /\ Entry(c)'.ports = Rec(c)'.ports /\ Entry(c)'.ctrs = Rec(c)'.ctrs
  BY <1>4, <1>6, <1>7, <1>8
<1> QED
  BY <1>2, <1>6, <1>8, <1>9
  DEF OwnEntry, Rising, Resuming, CheckPhases, UpPhases, FreshPhases, AllocPhases,
      SavedPhases, WorkPhases, DnPhases, SuPhases, RePhases

LEMMA UndoRegistryEntry ==
    ASSUME IInv, NEW c \in Clients, OwnEntry(c), UndoRegistry(c) PROVE OwnEntry(c)'
<1>1. /\ CoreType /\ pc[c] = "rollback" /\ pc' = [pc EXCEPT ![c] = "rollback"]
      /\ "registry" \in TagsOf(job[c].op, got[c].ports)
      /\ Name(c) \in Names /\ mem[c] \in RegistryValue
  BY PopFacts DEF UndoRegistry
<1>2. job[c].op = "up" /\ Rising(c) /\ pc'[c] = "rollback"
  BY <1>1 DEF TagsOf, Rising, CoreType
<1>3. mem'[c] = RemoveInstance(mem[c], Name(c)) /\ ~Registered(mem'[c], Name(c))
  BY <1>1, RemoveInstanceType DEF UndoRegistry, CoreType
<1>4. Name(c)' = Name(c) /\ job'[c] = job[c] /\ NewRecord(c)' = NewRecord(c)
  BY DEF Name, NewRecord, UndoRegistry
<1>5. CASE UNCHANGED disk
  <2>1. Entry(c)' = Entry(c) /\ Registered(disk, Name(c))' = Registered(disk, Name(c))
    BY <1>4, <1>5 DEF Entry, Registered
  <2> QED
    BY <1>2, <1>4, <2>1
    DEF OwnEntry, Rising, Resuming, CheckPhases, UpPhases, FreshPhases, AllocPhases,
        SavedPhases, WorkPhases, DnPhases, SuPhases, RePhases
<1>6. CASE disk' = mem'[c]
  <2>1. ~Registered(disk, Name(c))'
    BY <1>3, <1>4, <1>6 DEF Registered
  <2> QED
    BY <1>2, <1>4, <2>1
    DEF OwnEntry, Rising, Resuming, CheckPhases, UpPhases, FreshPhases, AllocPhases,
        SavedPhases, WorkPhases, DnPhases, SuPhases, RePhases
<1> QED
  BY <1>5, <1>6 DEF UndoRegistry, Saves, SaveFails

\* The ports are chosen: nothing of it is in the file.
LEMMA UpPortsEntry ==
    ASSUME IInv, NEW c \in Clients, OwnEntry(c), UpPorts(c) PROVE OwnEntry(c)'
<1>1. /\ CoreType /\ Control(c) /\ pc[c] = "up_ports" /\ UNCHANGED <<disk, job>>
  BY DEF IInv, Known, UpPorts, registryVars
<1>2. ~Registered(disk, Name(c))' /\ job[c].op = "up" /\ job'[c] = job[c]
  BY <1>1 DEF OwnEntry, FreshPhases, UpPhases, Control, Registered, Name
<1>3. pc'[c] \in {"up_env", "rollback"}
  BY <1>1 DEF UpPorts, Goto, CoreType
<1> QED
  BY <1>2, <1>3
  DEF OwnEntry, Rising, Resuming, CheckPhases, UpPhases, FreshPhases, AllocPhases,
      SavedPhases, WorkPhases, DnPhases, SuPhases, RePhases

-----------------------------------------------------------------------------

(***************************************************************************)
(* FileInv is inductive                                                    *)
(***************************************************************************)

\* The others do not hold the lock, and a step of c leaves them so.
LEMMA StepFrames ==
    ASSUME IInv, NEW c \in Clients, Step(c), NEW d \in Clients \ {c}
    PROVE  pc[d] \in {"idle", "open"} /\ pc'[d] = pc[d]
<1>1. Holding(c) /\ CoreType /\ Control(c) /\ Control(d)
  BY StepSaves DEF IInv, Known
<1>2. pc[d] \in {"idle", "open"}
  BY <1>1 DEF Control, Holding
<1>3. \E next : pc' = [pc EXCEPT ![c] = next]
  <2>1. CASE Up(c)
    BY <2>1 DEF Up, UpCheck, UpWorktree, UpMailbox, UpNetwork, UpPorts, UpEnv, UpClone, UpMigrate,
        UpCtrs, UpProcs, UpSettle, UpSave, UpRecord, UpVerify, Goto
  <2>2. CASE Down(c) \/ Suspend(c)
    BY <2>2 DEF Down, Suspend, DnCheck, DnProcs, DnCtrs, DnDbs, DnNetwork, DnWorktree, DnMailbox,
        DnSave, SuCheck, SuProcs, SuCtrs, SuSave, DnMade, TerminateRecorded, Goto
  <2>3. CASE Resume(c)
    <3>1. CASE ReCtrs(c)
      BY <3>1 DEF ReCtrs, Goto
    <3> QED
      BY <2>3, <3>1 DEF Resume, ReCheck, ReEnv, ReProcs, ReSettle, ReSave, ReVerify, Goto
  <2>4. CASE Rollback(c)
    <3>1. CASE RolledBack(c)
      BY <3>1 DEF RolledBack, Goto
    <3>2. CASE UNCHANGED pc
      <4>1. pc' = [pc EXCEPT ![c] = pc[c]]
        BY <1>1, <3>2 DEF CoreType
      <4> QED
        BY <4>1
    <3> QED
      BY <2>4, <3>1, <3>2 DEF Rollback, UndoWorktree, UndoMailbox, UndoNetwork, UndoPorts, UndoDbs,
          UndoCtrs, UndoStopCtrs, UndoProcs, UndoRegistry, UndoResume, UndoRecord, UndoMade, Undoing
  <2>5. CASE Close(c)
    BY <2>5 DEF Close, Goto
  <2> QED
    BY <2>1, <2>2, <2>3, <2>4, <2>5 DEF Step
<1> QED
  BY <1>1, <1>2, <1>3 DEF CoreType

LEMMA StepEntry ==
    ASSUME IInv, NEW c \in Clients, OwnEntry(c), Step(c) PROVE OwnEntry(c)'
<1>1. CASE Up(c)
  BY <1>1, ChecksEntry, UpEntry, UpPortsEntry, UpSaveEntry, VerifyEntry DEF Up
<1>2. CASE Down(c) \/ Suspend(c)
  BY <1>2, ChecksEntry, DownEntry, DnSaveEntry, SuSaveEntry DEF Down, Suspend
<1>3. CASE Resume(c)
  BY <1>3, ChecksEntry, ResumeEntry, ReSaveEntry, VerifyEntry DEF Resume
<1>4. CASE Rollback(c)
  BY <1>4, UndosEntry, UndoRegistryEntry, UndoResumeEntry DEF Rollback
<1>5. CASE Close(c)
  <2>1. pc'[c] = "idle"
    BY <1>5 DEF Close, Goto, IInv, CoreType
  <2> QED
    BY <2>1, AwayEntry
<1> QED
  BY <1>1, <1>2, <1>3, <1>4, <1>5 DEF Step

LEMMA OpenEntry ==
    ASSUME IInv, NEW c \in Clients, Open(c) PROVE OwnEntry(c)'
<1>1. /\ CoreType /\ job[c] \in Job /\ pc[c] = "open"
      /\ pc' = [pc EXCEPT ![c] = FirstPhase[job[c].op]] /\ mem' = [mem EXCEPT ![c] = disk]
      /\ UNCHANGED disk
  BY DEF Open, Goto, IInv, Known, Control
<1>2. pc'[c] \in CheckPhases
  BY <1>1 DEF CoreType, FirstPhase, CheckPhases, Job, Ops
<1>3. mem'[c] = disk'
  BY <1>1 DEF CoreType
<1>4. SameEntry(mem[c], disk, Name(c))'
  BY <1>3 DEF SameEntry
<1> QED
  BY <1>2, <1>4
  DEF OwnEntry, Rising, Resuming, CheckPhases, UpPhases, FreshPhases, AllocPhases,
      SavedPhases, WorkPhases, DnPhases, SuPhases, RePhases

\* What comes and goes beside a command at work does not touch its claim.
LEMMA EntryStays ==
    ASSUME NEW d, OwnEntry(d), pc'[d] = pc[d], job'[d] = job[d], mem'[d] = mem[d], got'[d] = got[d],
           UNCHANGED disk
    PROVE  OwnEntry(d)'
<1>1. /\ Name(d)' = Name(d) /\ Rec(d)' = Rec(d) /\ Entry(d)' = Entry(d)
      /\ Registered(disk, Name(d))' = Registered(disk, Name(d))
      /\ NewRecord(d)' = NewRecord(d)
      /\ SameEntry(mem[d], disk, Name(d))' = SameEntry(mem[d], disk, Name(d))
  BY DEF Name, Rec, Entry, Registered, NewRecord, SameEntry
<1> QED
  BY <1>1 DEF OwnEntry, Rising, Resuming

LEMMA NextFileInv == IInv /\ FileInv /\ [Next]_vars => FileInv'
<1> SUFFICES ASSUME IInv, FileInv, [Next]_vars, NEW d \in Clients PROVE OwnEntry(d)'
  BY DEF FileInv
<1>1. CoreType /\ OwnEntry(d)
  BY DEF IInv, FileInv
<1>2. ASSUME NEW c \in Clients, Step(c) PROVE OwnEntry(d)'
  <2>1. CASE c = d
    BY <1>1, <1>2, <2>1, StepEntry
  <2>2. CASE c # d
    BY <1>2, <2>2, StepFrames, AwayEntry
  <2> QED
    BY <2>1, <2>2
<1>3. ASSUME NEW c \in Clients, Start(c) PROVE OwnEntry(d)'
  <2>1. CASE c = d
    <3>1. pc'[d] = "open"
      BY <1>1, <1>3, <2>1 DEF Start, Goto, CoreType
    <3> QED
      BY <3>1, AwayEntry
  <2>2. CASE c # d
    BY <1>1, <1>3, <2>2, EntryStays DEF Start, Goto, CoreType, registryVars
  <2> QED
    BY <2>1, <2>2
<1>4. ASSUME NEW c \in Clients, Open(c) PROVE OwnEntry(d)'
  <2>1. CASE c = d
    BY <1>4, <2>1, OpenEntry
  <2>2. CASE c # d
    BY <1>1, <1>4, <2>2, EntryStays DEF Open, Goto, CoreType
  <2> QED
    BY <2>1, <2>2
<1>5. ASSUME NEW c \in Clients, Crash(c) PROVE OwnEntry(d)'
  <2>1. CASE c = d
    <3>1. pc'[d] = "idle"
      BY <1>1, <1>5, <2>1 DEF Crash, Goto, CoreType
    <3> QED
      BY <3>1, AwayEntry
  <2>2. CASE c # d
    BY <1>1, <1>5, <2>2, EntryStays DEF Crash, Goto, CoreType
  <2> QED
    BY <2>1, <2>2
<1>6. CASE GroupExits \/ ContainerExits \/ UNCHANGED vars
  BY <1>1, <1>6, EntryStays DEF GroupExits, ContainerExits, vars, registryVars, clientVars
<1> QED
  BY <1>2, <1>3, <1>4, <1>5, <1>6 DEF Next

LEMMA InitFileInv == Init => FileInv
BY DEF Init, FileInv, OwnEntry, Rising, Resuming, CheckPhases, UpPhases, FreshPhases, AllocPhases,
    SavedPhases, WorkPhases, DnPhases, SuPhases, RePhases

\* In every reachable state, what the file says of the instance a command
\* works on is what the command's phase makes of it.
THEOREM FileInvariant == Spec => []FileInv
<1>1. IInv /\ FileInv /\ [Next]_vars => FileInv'
  BY NextFileInv
<1> QED
  BY <1>1, InitFileInv, IInvInvariant, PTL DEF Spec

-----------------------------------------------------------------------------

(***************************************************************************)
(* Lifecycle implements Instances                                          *)
(***************************************************************************)

\* What Instances sees of a registry.
View(r) == [n \in Names |-> IF Registered(r, n) THEN r.inst[n].state ELSE "absent"]

LEMMA AbstractView == AbstractState = View(disk)
BY DEF AbstractState, View

LEMMA ViewChange ==
    ASSUME NEW r \in RegistryValue, NEW q \in RegistryValue, NEW n \in Names,
           \A m \in Names \ {n} : q.inst[m] = r.inst[m]
    PROVE  View(q) = [View(r) EXCEPT ![n] = IF Registered(q, n) THEN q.inst[n].state ELSE "absent"]
BY DEF View, Registered

\* Two registries that agree on whose each port is have the same table.
LEMMA SameHolders ==
    ASSUME NEW r \in RegistryValue, NEW q \in RegistryValue,
           \A m \in Names : \A p \in Ports : q.alloc[p] = m <=> r.alloc[p] = m
    PROVE  q.alloc = r.alloc
<1>1. r.alloc \in [Ports -> Names \cup {NoName}] /\ q.alloc \in [Ports -> Names \cup {NoName}]
  BY DEF RegistryValue
<1>2. \A p \in Ports : q.alloc[p] = r.alloc[p]
  BY <1>1, NullAssumption
<1> QED
  BY <1>1, <1>2

\* An injective map gives as many ports as there are owners.
LEMMA PortCount ==
    ASSUME NEW ports \in PortMap, Injective(ports)
    PROVE  Cardinality(PortsOf(ports)) = Cardinality(Owners)
<1>1. IsFiniteSet(Owners)
  BY BlueprintAssumption, FS_Union DEF Owners
<1>2. ports \in Bijection(Owners, PortsOf(ports))
  BY DEF Bijection, Injection, IsInjective, Surjection, PortMap, Injective, PortsOf
<1> QED
  BY <1>1, <1>2, FS_Bijection DEF ExistsBijection

LEMMA ImplementsStutter ==
    ASSUME UNCHANGED disk \/ UNCHANGED <<View(disk), disk.alloc>>
    PROVE  [Abstract!Next]_(Abstract!vars)
BY AbstractView DEF View, Registered, Abstract!vars, AbstractState

\* The file after a save of a copy that is like it but for n.
LEMMA SaveViews ==
    ASSUME NEW n \in Names, disk \in RegistryValue, disk' \in RegistryValue,
           \A m \in Names \ {n} : SameEntry(disk', disk, m)
    PROVE  AbstractState' = [AbstractState EXCEPT ![n] =
                                IF Registered(disk', n) THEN disk'.inst[n].state ELSE "absent"]
<1>1. View(disk') = [View(disk) EXCEPT ![n] =
                        IF Registered(disk', n) THEN disk'.inst[n].state ELSE "absent"]
  BY ViewChange DEF SameEntry
<1> QED
  BY <1>1 DEF AbstractState, View, Registered

\* An entry rewritten, its ports kept: the instance sleeps, wakes or neither.
LEMMA ImplementsRewrite ==
    ASSUME NEW n \in Names, disk \in RegistryValue, disk' \in RegistryValue,
           \A m \in Names \ {n} : SameEntry(disk', disk, m),
           \A m \in Names : TablesAgree(disk, m), TablesAgree(disk', n),
           Registered(disk, n), Registered(disk', n),
           disk'.inst[n].ports = disk.inst[n].ports
    PROVE  [Abstract!Next]_(Abstract!vars)
<1>1. AbstractState' = [AbstractState EXCEPT ![n] = disk'.inst[n].state]
  BY SaveViews
<1>2. AbstractState[n] = disk.inst[n].state /\ AbstractState \in [Names -> {AbstractState[m] : m \in Names}]
  BY DEF AbstractState
<1>3. disk.inst[n].state \in {"running", "suspended"} /\ disk'.inst[n].state \in {"running", "suspended"}
  BY DEF RegistryValue, Registered, InstanceRecord
<1>4. UNCHANGED disk.alloc
  <2>1. \A p \in Ports : disk'.alloc[p] = n <=> disk.alloc[p] = n
    BY DEF TablesAgree
  <2>2. \A m \in Names : \A p \in Ports : disk'.alloc[p] = m <=> disk.alloc[p] = m
    BY <2>1 DEF SameEntry
  <2> QED
    BY <2>2, SameHolders
<1>5. CASE disk'.inst[n].state = disk.inst[n].state
  <2>1. UNCHANGED AbstractState
    BY <1>1, <1>2, <1>5
  <2> QED
    BY <1>4, <2>1 DEF Abstract!vars
<1>6. CASE disk.inst[n].state = "running" /\ disk'.inst[n].state = "suspended"
  <2>1. Abstract!Sleep(n)
    BY <1>1, <1>2, <1>4, <1>6 DEF Abstract!Sleep
  <2> QED
    BY <2>1 DEF Abstract!Next
<1>7. CASE disk.inst[n].state = "suspended" /\ disk'.inst[n].state = "running"
  <2>1. Abstract!Wake(n)
    BY <1>1, <1>2, <1>4, <1>7 DEF Abstract!Wake
  <2> QED
    BY <2>1 DEF Abstract!Next
<1> QED
  BY <1>3, <1>5, <1>6, <1>7

\* The entry and the ports gone: the instance is destroyed, if it was there.
LEMMA ImplementsRemove ==
    ASSUME NEW n \in Names, disk \in RegistryValue, NEW m \in RegistryValue,
           \A k \in Names \ {n} : SameEntry(m, disk, k),
           TablesAgree(disk, n), disk' = RemoveInstance(m, n)
    PROVE  [Abstract!Next]_(Abstract!vars)
<1>1. /\ disk' \in RegistryValue /\ ~Registered(disk', n)
      /\ \A k \in Names \ {n} : SameEntry(disk', disk, k)
  BY RemoveInstanceType DEF SameEntry
<1>2. AbstractState' = [AbstractState EXCEPT ![n] = "absent"]
  BY <1>1, SaveViews
<1>3. disk'.alloc = [p \in Ports |-> IF disk.alloc[p] = n THEN NoName ELSE disk.alloc[p]]
  <2>1. /\ disk.alloc \in [Ports -> Names \cup {NoName}] /\ m.alloc \in [Ports -> Names \cup {NoName}]
        /\ disk'.alloc = [p \in Ports |-> IF m.alloc[p] = n THEN NoName ELSE m.alloc[p]]
    BY DEF RegistryValue, RemoveInstance
  <2>2. ASSUME NEW p \in Ports
        PROVE  (IF m.alloc[p] = n THEN NoName ELSE m.alloc[p])
                  = IF disk.alloc[p] = n THEN NoName ELSE disk.alloc[p]
    BY <2>1, NullAssumption DEF SameEntry
  <2> QED
    BY <2>1, <2>2
<1>4. CASE Registered(disk, n)
  <2>1. AbstractState[n] # "absent"
    BY <1>4 DEF AbstractState, RegistryValue, Registered, InstanceRecord
  <2>2. Abstract!Destroy(n)
    BY <1>2, <1>3, <2>1 DEF Abstract!Destroy
  <2> QED
    BY <2>2 DEF Abstract!Next
<1>5. CASE ~Registered(disk, n)
  <2>1. AbstractState[n] = "absent"
    BY <1>5 DEF AbstractState
  <2>2. UNCHANGED AbstractState
    BY <1>2, <2>1 DEF AbstractState
  <2>3. \A p \in Ports : disk.alloc[p] # n
    BY <1>5 DEF TablesAgree
  <2>4. disk.alloc = [p \in Ports |-> disk.alloc[p]]
    BY DEF RegistryValue
  <2>5. UNCHANGED disk.alloc
    BY <1>3, <2>3, <2>4
  <2> QED
    BY <2>2, <2>5 DEF Abstract!vars
<1> QED
  BY <1>4, <1>5

\* The abstract specification counts with the same operator.
LEMMA SameCardinality == \A S : Abstract!Cardinality(S) = Cardinality(S)
BY Zenon DEF Abstract!Cardinality, Cardinality

\* A new entry, with ports that were free in the file: the instance is created.
LEMMA ImplementsCreate ==
    ASSUME NEW n \in Names, disk \in RegistryValue, disk' \in RegistryValue,
           \A k \in Names \ {n} : SameEntry(disk', disk, k),
           TablesAgree(disk, n), ~Registered(disk, n), Registered(disk', n),
           disk'.inst[n].state = "running",
           NEW ports \in PortMap, Injective(ports), Allocated(disk', n, ports)
    PROVE  [Abstract!Next]_(Abstract!vars)
<1>1. AbstractState' = [AbstractState EXCEPT ![n] = "running"]
  BY SaveViews
<1>2. AbstractState[n] = "absent"
  BY DEF AbstractState
<1>3. /\ disk.alloc \in [Ports -> Names \cup {NoName}] /\ disk'.alloc \in [Ports -> Names \cup {NoName}]
      /\ \A p \in Ports : disk.alloc[p] # n
      /\ PortsOf(ports) \subseteq Ports
  BY DEF RegistryValue, TablesAgree, PortsOf, PortMap
<1>4. \A p \in Ports : disk'.alloc[p] = n <=> p \in PortsOf(ports)
  BY DEF Allocated
<1>5. \A p \in PortsOf(ports) : disk.alloc[p] = NoName
  BY <1>3, <1>4 DEF SameEntry
<1>6. disk'.alloc = [p \in Ports |-> IF p \in PortsOf(ports) THEN n ELSE disk.alloc[p]]
  <2>1. \A p \in Ports : p \notin PortsOf(ports) => disk'.alloc[p] = disk.alloc[p]
    BY <1>3, <1>4, NullAssumption DEF SameEntry
  <2> QED
    BY <1>3, <1>4, <2>1
<1>7. PortsOf(ports) \in SUBSET {p \in Ports : disk.alloc[p] = NoName}
  BY <1>3, <1>5
<1>8. Abstract!Create(n)
  <2>1. Cardinality(PortsOf(ports)) = Cardinality(Owners)
    BY PortCount
  <2>2. Abstract!Cardinality(PortsOf(ports)) = Cardinality(Owners)
    BY <2>1, SameCardinality, Zenon
  <2> QED
    BY <1>1, <1>2, <1>6, <1>7, <2>2, Zenon DEF Abstract!Create
<1> QED
  BY <1>8 DEF Abstract!Next

\* Only the eight saves write the file.
LEMMA OtherStepsKeepFile ==
    ASSUME NEW c \in Clients, Step(c),
           ~UpSave(c), ~UpVerify(c), ~DnSave(c), ~UndoRegistry(c), ~SuSave(c),
           ~ReSave(c), ~UndoResume(c), ~ReVerify(c)
    PROVE  UNCHANGED disk
<1>1. CASE Up(c)
  BY <1>1 DEF Up, UpCheck, UpWorktree, UpMailbox, UpNetwork, UpPorts, UpEnv, UpClone, UpMigrate,
      UpCtrs, UpProcs, UpSettle, UpRecord, registryVars
<1>2. CASE Down(c) \/ Suspend(c)
  BY <1>2 DEF Down, Suspend, DnCheck, DnProcs, DnCtrs, DnDbs, DnNetwork, DnWorktree, DnMailbox,
      SuCheck, SuProcs, SuCtrs, DnMade, TerminateRecorded, registryVars
<1>3. CASE Resume(c)
  BY <1>3 DEF Resume, ReCheck, ReCtrs, ReEnv, ReProcs, ReSettle, registryVars
<1>4. CASE Rollback(c)
  BY <1>4 DEF Rollback, UndoWorktree, UndoMailbox, UndoNetwork, UndoPorts, UndoDbs,
      UndoCtrs, UndoStopCtrs, UndoProcs, UndoRecord, UndoMade, RolledBack, registryVars
<1>5. CASE Close(c)
  BY <1>5 DEF Close
<1> QED
  BY <1>1, <1>2, <1>3, <1>4, <1>5 DEF Step

LEMMA ImplementsStep ==
    ASSUME IInv, FileInv, NEW c \in Clients, Step(c)
    PROVE  [Abstract!Next]_(Abstract!vars)
<1>1. /\ Holding(c) /\ CoreType /\ CoreType' /\ Known(c) /\ OwnEntry(c)
      /\ \A n \in Names : TablesAgree(disk, n) /\ TablesAgree(disk', n)
  <2>1. IInv'
    BY StepKeeps
  <2>2. \A n \in Names : TablesAgree(disk', n)
    BY <2>1 DEF IInv, PortTablesAgree, TablesAgree, Registered
  <2> QED
    BY <2>1, <2>2, StepSaves DEF IInv, FileInv, PortTablesAgree
<1>2. disk \in RegistryValue /\ disk' \in RegistryValue
  BY <1>1 DEF CoreType
<1>3. ASSUME pc[c] # "close"
      PROVE  /\ Name(c) \in Names /\ mem[c] \in RegistryValue
             /\ \A n \in Names \ {Name(c)} : SameEntry(mem[c], disk, n)
  BY <1>1, <1>3, SaverFacts
<1>4. ASSUME NEW rec \in InstanceRecord, pc[c] # "close",
             disk' = PutInstance(mem[c], Name(c), rec)
      PROVE  /\ \A n \in Names \ {Name(c)} : SameEntry(disk', disk, n)
             /\ Registered(disk', Name(c)) /\ disk'.inst[Name(c)] = rec
             /\ disk'.alloc = mem[c].alloc
  BY <1>3, <1>4, PutInstanceType DEF SameEntry
<1>5. CASE UpSave(c)
  <2>1. /\ got[c].ports \in PortMap /\ Injective(got[c].ports)
        /\ Allocated(mem[c], Name(c), got[c].ports) /\ ~Registered(disk, Name(c))
    BY <1>1, <1>5 DEF Known, OwnCopy, OwnEntry, UpSave, AllocPhases
  <2>2. NewRecord(c) \in InstanceRecord /\ NewRecord(c).state = "running"
    BY <1>1, <2>1 DEF NewRecord, InstanceRecord, CoreType, PortMap
  <2>3. CASE disk' = mem'[c]
    <3>1. disk' = PutInstance(mem[c], Name(c), NewRecord(c)) /\ pc[c] # "close"
      BY <1>1, <1>5, <2>3 DEF UpSave, CoreType
    <3>2. Allocated(disk', Name(c), got[c].ports)
      BY <1>4, <2>1, <2>2, <3>1 DEF Allocated
    <3> QED
      BY <1>1, <1>2, <1>3, <1>4, <2>1, <2>2, <3>1, <3>2, ImplementsCreate
  <2> QED
    BY <1>5, <2>3, ImplementsStutter DEF UpSave, Saves, SaveFails
<1>6. CASE UpVerify(c)
  <2>1. CASE disk' = mem[c]
    <3>1. /\ pc[c] \in SavedPhases /\ pc[c] # "close"
      BY <1>6 DEF UpVerify, SavedPhases
    <3>2. TablesAgree(mem[c], Name(c)) /\ mem[c].inst[Name(c)] = disk.inst[Name(c)]
      BY <1>1, <3>1 DEF OwnEntry, Rec, Entry, Known, OwnCopy
    <3>3. \A p \in Ports : disk'.alloc[p] = Name(c) <=> disk.alloc[p] = Name(c)
      BY <1>1, <1>3, <2>1, <3>1, <3>2 DEF TablesAgree, Registered
    <3>4. \A n \in Names : SameEntry(disk', disk, n)
      BY <1>3, <2>1, <3>1, <3>2, <3>3 DEF SameEntry
    <3>5. UNCHANGED disk.alloc
      BY <1>2, <3>4, SameHolders DEF SameEntry
    <3>6. View(disk') = View(disk)
      BY <3>4 DEF View, Registered, SameEntry
    <3> QED
      BY <3>5, <3>6, ImplementsStutter
  <2> QED
    BY <1>6, <2>1, ImplementsStutter DEF UpVerify, Saves, SaveFails
<1>7. CASE DnSave(c) \/ UndoRegistry(c)
  <2>1. CASE disk' = mem'[c]
    <3>1. disk' = RemoveInstance(mem[c], Name(c)) /\ pc[c] # "close"
      BY <1>1, <1>7, <2>1 DEF DnSave, UndoRegistry, Undoing, CoreType
    <3> QED
      BY <1>1, <1>2, <1>3, <3>1, ImplementsRemove
  <2> QED
    BY <1>7, <2>1, ImplementsStutter DEF DnSave, UndoRegistry, Saves, SaveFails
<1>8. ASSUME NEW rec \in InstanceRecord, rec.ports = Rec(c).ports, Resuming(c) \/ SuSave(c),
             pc[c] # "close", disk' = PutInstance(mem[c], Name(c), rec)
      PROVE  [Abstract!Next]_(Abstract!vars)
  <2>1. /\ Registered(disk, Name(c)) /\ disk.inst[Name(c)].ports = Rec(c).ports
    <3>1. CASE Resuming(c)
      BY <1>1, <3>1 DEF OwnEntry, Entry
    <3>2. CASE SuSave(c)
      <4>1. pc[c] \in WorkPhases
        BY <3>2 DEF SuSave, WorkPhases
      <4>2. Registered(mem[c], Name(c)) /\ Entry(c) = Rec(c)
        BY <1>1, <4>1, WorkFacts DEF OwnEntry
      <4> QED
        BY <4>2 DEF Registered, Entry, Rec
    <3> QED
      BY <1>8, <3>1, <3>2
  <2> QED
    BY <1>1, <1>2, <1>3, <1>4, <1>8, <2>1, ImplementsRewrite
<1>9. CASE SuSave(c)
  <2> DEFINE rec == [Rec(c) EXCEPT !.state = "suspended", !.pids = {}]
  <2>1. rec \in InstanceRecord /\ rec.ports = Rec(c).ports /\ pc[c] # "close"
    BY <1>9, WorkFacts, NoPids DEF SuSave, WorkPhases, InstanceRecord
  <2>2. mem'[c] = PutInstance(mem[c], Name(c), rec)
    BY <1>1, <1>9 DEF SuSave, CoreType
  <2> HIDE DEF rec
  <2> QED
    BY <1>8, <1>9, <2>1, <2>2, ImplementsStutter DEF SuSave, Saves, SaveFails
<1>10. CASE ReSave(c)
  <2> DEFINE rec == [Rec(c) EXCEPT !.state = "running", !.pids = got[c].pids]
  <2>1. rec \in InstanceRecord /\ rec.ports = Rec(c).ports /\ pc[c] # "close" /\ Resuming(c)
    BY <1>1, <1>10, WorkFacts, ZenonT(60) DEF ReSave, WorkPhases, InstanceRecord, CoreType, Resuming, RePhases
  <2>2. mem'[c] = PutInstance(mem[c], Name(c), rec)
    BY <1>1, <1>10 DEF ReSave, CoreType
  <2> HIDE DEF rec
  <2> QED
    BY <1>8, <1>10, <2>1, <2>2, ImplementsStutter DEF ReSave, Saves, SaveFails
<1>11. CASE UndoResume(c)
  <2> DEFINE rec == [Rec(c) EXCEPT !.state = "suspended"]
  <2>1. pc[c] = "rollback" /\ job[c].op # "up"
    <3>1. pc[c] = "rollback" /\ "suspend" \in TagsOf(job[c].op, got[c].ports)
      BY <1>11, PopFacts DEF UndoResume
    <3> QED
      BY <3>1 DEF TagsOf
  <2>2. rec \in InstanceRecord /\ rec.ports = Rec(c).ports /\ Resuming(c)
    BY <2>1, WorkFacts DEF InstanceRecord, Resuming
  <2>3. mem'[c] = PutInstance(mem[c], Name(c), rec)
    BY <1>1, <1>11 DEF UndoResume, CoreType
  <2> HIDE DEF rec
  <2> QED
    BY <1>8, <1>11, <2>1, <2>2, <2>3, ImplementsStutter DEF UndoResume, Saves, SaveFails
<1>12. CASE ReVerify(c)
  <2>1. CASE disk' = mem[c]
    <3>1. /\ pc[c] \in WorkPhases /\ pc[c] # "close"
          /\ Registered(mem[c], Name(c)) /\ Entry(c) = Rec(c)
      BY <1>1, <1>12, WorkFacts DEF ReVerify, WorkPhases, OwnEntry
    <3>2. /\ Registered(disk, Name(c)) /\ Registered(disk', Name(c))
          /\ disk'.inst[Name(c)].ports = disk.inst[Name(c)].ports
      BY <2>1, <3>1 DEF Registered, Entry, Rec
    <3> QED
      BY <1>1, <1>2, <1>3, <2>1, <3>1, <3>2, ImplementsRewrite
  <2> QED
    BY <1>12, <2>1, ImplementsStutter DEF ReVerify, Saves, SaveFails
<1>13. CASE /\ ~UpSave(c) /\ ~UpVerify(c) /\ ~DnSave(c) /\ ~UndoRegistry(c) /\ ~SuSave(c)
            /\ ~ReSave(c) /\ ~UndoResume(c) /\ ~ReVerify(c)
  <2>1. UNCHANGED disk
    BY <1>13, OtherStepsKeepFile
  <2> QED
    BY <2>1, ImplementsStutter
<1> QED
  BY <1>5, <1>6, <1>7, <1>9, <1>10, <1>11, <1>12, <1>13

\* A step that belongs to no command at work leaves the file alone.
LEMMA IdleStepsKeepFile ==
    [Next]_vars /\ ~(\E c \in Clients : Step(c)) => UNCHANGED disk
BY DEF Next, Start, Open, Crash, GroupExits, ContainerExits, registryVars, vars

LEMMA NextImplements == IInv /\ FileInv /\ [Next]_vars => [Abstract!Next]_(Abstract!vars)
BY ImplementsStep, IdleStepsKeepFile, ImplementsStutter

LEMMA InitImplements == Init => Abstract!Init
BY DEF Init, Abstract!Init, AbstractState, EmptyRegistry, Registered

\* The registry file goes through the states Instances allows.
THEOREM ImplementsInstancesHolds == Spec => ImplementsInstances
<1>1. Spec => []IInv /\ []FileInv
  BY IInvInvariant, FileInvariant, PTL
<1> QED
  BY <1>1, InitImplements, NextImplements, PTL DEF Spec, ImplementsInstances, Abstract!Spec

=============================================================================
