------------------------------ MODULE BaseProofs ------------------------------
(***************************************************************************)
(* What BaseProps states, proved for any number of commands, instances,    *)
(* faults and kills, if one client at a time maintains the base.           *)
(***************************************************************************)
EXTENDS BaseInv, TLAPS

JobT      == job \in [Clients -> JobType]
DbType    == db \in [DbNames -> Database \cup {NoDb}]
PcType    == pc \in [Clients -> Phases]
ConnsType == conns \subseteq (Clients \cup {Stray}) \X {"pool", "cmd"} \X DbNames
Counts    == /\ begun \subseteq Commands
             /\ serial \in Nat /\ starts \in 0 .. MaxStarts
             /\ faults \in 0 .. MaxFaults /\ crashes \in 0 .. MaxCrashes

LEMMA TypesParts == Types <=> JobT /\ DbType /\ PcType /\ ConnsType /\ Counts
<1>1. JobT => \A c \in Clients :
          /\ job[c].op \in Commands \cup {"none"}
          /\ job[c].tgt \in {"base", "next"} /\ job[c].of \in {"base", "next"}
          /\ job[c].ret \in {"none", "info", "ready", "old"}
          /\ job[c].seen \in {"absent", "open", "locked"}
          /\ job[c].ver \in Nat /\ job[c].tries \in 0 .. Tries
  BY DEF JobT, JobType
<1> QED
  BY <1>1 DEF Types, TypeOK, JobT, DbType, PcType, ConnsType, Counts

LEMMA TypesNext ==
    ASSUME JobT', DbType', PcType', ConnsType', Counts' PROVE Types'
<1>1. \A c \in Clients :
          /\ job'[c].op \in Commands \cup {"none"}
          /\ job'[c].tgt \in {"base", "next"} /\ job'[c].of \in {"base", "next"}
          /\ job'[c].ret \in {"none", "info", "ready", "old"}
          /\ job'[c].seen \in {"absent", "open", "locked"}
          /\ job'[c].ver \in Nat /\ job'[c].tries \in 0 .. Tries
  BY DEF JobT, JobType
<1> QED
  BY <1>1 DEF Types, TypeOK, JobT, DbType, PcType, ConnsType, Counts

-----------------------------------------------------------------------------

(***************************************************************************)
(* Types                                                                   *)
(***************************************************************************)

\* Where a client goes back to after a read.
LEMMA BackIs ==
    ASSUME NEW m, NEW c \in Clients, Role(m, c), pc[c] \in ProvPhases, NEW read, NEW ver
    PROVE  \/ job[c].ret = "info"  /\ Back(c, read, ver) = "info_done"
           \/ job[c].ret = "ready" /\ Back(c, read, ver) \in {"swap_term", "err"}
           \/ job[c].ret = "old"   /\ Back(c, read, ver) \in {"stamp", "cleanup"}
BY DEF Back, Role

LEMMA PcKept ==
    ASSUME PcType, NEW m, NEW c \in Clients, Role(m, c), Step(c) \/ Crash(c)
    PROVE  PcType'
<1>1. \A p : Goto(c, p) /\ p \in Phases => PcType'
  BY DEF Goto, PcType
<1>2. CASE Start(c)
  BY <1>1, <1>2 DEF Start, FirstPhase, Phases, Commands
<1>3. CASE End(c) \/ Crash(c)
  BY <1>1, <1>3 DEF End, Crash, Phases
<1>4. CASE ReadProvenance(c)
  <2>1. ASSUME pc[c] \in ProvPhases, NEW read, NEW ver PROVE Back(c, read, ver) \in Phases
    BY <2>1, BackIs DEF Phases, Ends
  <2> QED
    BY <1>1, <1>4, <2>1, ZenonT(60) DEF ReadProvenance, ProvCheck, ProvUnlock, ProvConnect, ProvClose,
      ProvRelock, Exec, AfterRead, Phases, ProvPhases
<1>5. CASE Up(c)
  BY <1>1, <1>5, ZenonT(60) DEF Up, Info, InfoDone, CloneCheck, Clone, CloneStamp, CloneDrop, Exec, Query,
    Phases, Ends
<1>6. CASE Build(c)
  BY <1>1, <1>6, ZenonT(60) DEF Build, Create, CreateDb, Migrate, Migrated, Begins, Finishes, ReadOld,
    Reads, Stamp, AssertSeeded, Lock, Close, Cleanup, Drop, Exec, Query, Phases, Ends, PcType
<1>7. CASE Seed(c)
  BY <1>1, <1>7, ZenonT(60) DEF Seed, SeedCheck, SeedUnlock, SeedBegin, SeedEnd, SeedStamp, Relock, Begins,
    Finishes, AfterSeed, FailedSeed, Exec, Query, Phases, Ends, PcType
<1>8. CASE Reset(c)
  BY <1>1, <1>8 DEF Reset, ResetCheck, ResetTerm, ResetDrop, Cleared, Phases, Ends
<1>9. CASE Swap(c)
  BY <1>1, <1>9 DEF Swap, Refresh, RefreshNext, Ready, Reads, SwapTerm, SwapDrop, SwapAgain,
    SwapRename, Exec, Query, Phases, Ends
<1> QED
  BY <1>2, <1>3, <1>4, <1>5, <1>6, <1>7, <1>8, <1>9 DEF Step

LEMMA NamesFacts ==
    ASSUME JobT, NEW c \in Clients
    PROVE  /\ job[c].tgt \in {"base", "next"} /\ job[c].of \in {"base", "next"}
           /\ job[c].tgt \in DbNames /\ job[c].of \in DbNames
           /\ job[c].inst \in Insts => job[c].inst \in DbNames
           /\ "base" \in DbNames /\ "next" \in DbNames
           /\ job[c].ver \in Nat /\ job[c].id \in Nat
BY DEF JobT, JobType, DbNames

LEMMA ConnsKept ==
    ASSUME ConnsType, JobT, NEW c \in Clients, Step(c) \/ Crash(c)
    PROVE  ConnsType'
<1>1. CASE conns' \subseteq conns
  BY <1>1 DEF ConnsType
<1>2. CASE \E k \in {"pool", "cmd"}, d \in DbNames : conns' = conns \cup {<<c, k, d>>}
  BY <1>2 DEF ConnsType
<1>3. CASE Start(c) \/ End(c) \/ Crash(c)
  BY <1>1, <1>3 DEF Start, End, Crash
<1>4. CASE ReadProvenance(c)
  BY <1>1, <1>2, <1>4, NamesFacts DEF ReadProvenance, ProvCheck, ProvUnlock, ProvConnect, ProvClose,
      ProvRelock, Exec, Disconnects
<1>5. CASE Up(c)
  BY <1>1, <1>5 DEF Up, Info, InfoDone, CloneCheck, Clone, CloneStamp, CloneDrop, Exec, Query
<1>6. CASE Build(c)
  BY <1>1, <1>2, <1>6, NamesFacts DEF Build, Create, CreateDb, Migrate, Migrated, Begins, Finishes,
    ReadOld, Stamp, AssertSeeded, Lock, Close, Cleanup, Drop, Exec, Query, Disconnects, Terminate
<1>7. CASE Seed(c)
  BY <1>1, <1>2, <1>7, NamesFacts DEF Seed, SeedCheck, SeedUnlock, SeedBegin, SeedEnd, SeedStamp,
    Relock, Begins, Finishes, Exec, Query, Disconnects
<1>8. CASE Reset(c)
  BY <1>1, <1>8 DEF Reset, ResetCheck, ResetTerm, ResetDrop, Terminate
<1>9. CASE Swap(c)
  BY <1>1, <1>9 DEF Swap, Refresh, RefreshNext, Ready, SwapTerm, SwapDrop, SwapAgain,
    SwapRename, Exec, Query, Terminate
<1> QED
  BY <1>3, <1>4, <1>5, <1>6, <1>7, <1>8, <1>9 DEF Step

LEMMA CountsKept ==
    ASSUME Counts, NEW c \in Clients, Step(c) \/ Crash(c)
    PROVE  Counts' /\ begun \subseteq begun' /\ faults' <= faults /\ crashes' <= crashes
<1>1. Works \/ Fails => faults' \in 0 .. MaxFaults /\ faults' <= faults
  BY BaseManagerAssumption DEF Works, Fails, Counts
<1>2. Works \/ Fails => (UNCHANGED bounds \/ (UNCHANGED <<begun, starts, crashes>> /\ serial' = serial + 1)
       => Counts' /\ begun \subseteq begun' /\ faults' <= faults /\ crashes' <= crashes)
  BY <1>1, BaseManagerAssumption DEF bounds, Counts
<1>3. CASE Start(c)
  BY <1>3, BaseManagerAssumption DEF Start, Counts
<1>4. CASE End(c) \/ Crash(c)
  BY <1>4, BaseManagerAssumption DEF End, Crash, Counts, bounds
<1>5. CASE ReadProvenance(c)
  BY <1>2, <1>5 DEF ReadProvenance, ProvCheck, ProvUnlock, ProvConnect, ProvClose,
      ProvRelock, Exec, Refused
<1>6. CASE Up(c)
  BY <1>2, <1>6 DEF Up, Info, InfoDone, CloneCheck, Clone, CloneStamp, CloneDrop, Exec, Query, Refused
<1>7. CASE Build(c)
  BY <1>2, <1>7 DEF Build, Create, CreateDb, Migrate, Migrated, Begins, Finishes,
    ReadOld, Stamp, AssertSeeded, Lock, Close, Cleanup, Drop, Exec, Query, Refused, bounds, Works
<1>8. CASE Seed(c)
  BY <1>2, <1>8 DEF Seed, SeedCheck, SeedUnlock, SeedBegin, SeedEnd, SeedStamp,
    Relock, Begins, Finishes, Exec, Query, Refused
<1>9. CASE Reset(c)
  BY <1>2, <1>9 DEF Reset, ResetCheck, ResetTerm, ResetDrop, Refused
<1>10. CASE Swap(c)
  BY <1>2, <1>10 DEF Swap, Refresh, RefreshNext, Ready, SwapTerm, SwapDrop, SwapAgain,
    SwapRename, Exec, Query, Refused
<1> QED
  BY <1>3, <1>4, <1>5, <1>6, <1>7, <1>8, <1>9, <1>10 DEF Step

LEMMA JobKept ==
    ASSUME JobT, DbType, Connected, NEW m, NEW c \in Clients, Role(m, c), Step(c) \/ Crash(c)
    PROVE  JobT' /\ \A e \in Clients \ {c} : job'[e] = job[e]
<1>1. ASSUME NEW j \in JobType, job' = [job EXCEPT ![c] = j]
      PROVE  JobT' /\ \A e \in Clients \ {c} : job'[e] = job[e]
  BY <1>1 DEF JobT
<1>2. CASE job' = job
  BY <1>2 DEF JobT
<1>3. job[c] \in JobType
  BY DEF JobT
<1>4. ASSUME NEW d \in {"base", "next"}, NEW ret \in {"info", "ready", "old"}, Reads(c, d, ret)
      PROVE  JobT' /\ \A e \in Clients \ {c} : job'[e] = job[e]
  <2>1. [job[c] EXCEPT !.of = d, !.ret = ret, !.read = FALSE, !.ver = 0] \in JobType
    BY <1>3, Zenon DEF JobType
  <2>2. job' = [job EXCEPT ![c] = [job[c] EXCEPT !.of = d, !.ret = ret, !.read = FALSE, !.ver = 0]]
    BY <1>3, <1>4, Zenon DEF Reads
  <2> QED
    BY <1>1, <2>1, <2>2
<1>5. NoJob \in JobType
  BY BaseManagerAssumption DEF NoJob, JobType
<1>6. CASE Start(c)
  <2>1. PICK op \in Commands : \E i \in Insts :
           job' = [job EXCEPT ![c] = [NoJob EXCEPT !.op = op, !.inst = i]]
    BY <1>6, Zenon DEF Start
  <2>2. PICK i \in Insts : job' = [job EXCEPT ![c] = [NoJob EXCEPT !.op = op, !.inst = i]]
    BY <2>1
  <2>3. [NoJob EXCEPT !.op = op, !.inst = i] \in JobType
    BY <1>5, Zenon DEF JobType
  <2> QED
    BY <1>1, <2>2, <2>3
<1>7. CASE End(c) \/ Crash(c)
  BY <1>1, <1>5, <1>7 DEF End, Crash
<1>8. CASE ReadProvenance(c)
  <2>1. CASE job' = [job EXCEPT ![c].locked = Locked(job[c].of)]
    <3>1. [job[c] EXCEPT !.locked = Locked(job[c].of)] \in JobType
      BY <1>3, Zenon DEF JobType, Locked
    <3>2. job' = [job EXCEPT ![c] = [job[c] EXCEPT !.locked = Locked(job[c].of)]]
      BY <2>1, Zenon
    <3> QED
      BY <1>1, <3>1, <3>2, Zenon
  <2>2. CASE ProvClose(c) /\ Own(c, "pool", job[c].of)
             /\ job' = [job EXCEPT ![c] = [@ EXCEPT !.read = TRUE, !.ver = db[job[c].of].ver]]
    <3>1. PICK ver : ver = db[job[c].of].ver
      OBVIOUS
    <3>2. ver \in Nat
      BY <2>2, <3>1, NamesFacts DEF Own, Connected, Exists, DbType, Database
    <3>3. [job[c] EXCEPT !.read = TRUE, !.ver = ver] \in JobType
      BY <1>3, <3>2, Zenon DEF JobType
    <3>4. job' = [job EXCEPT ![c] = [job[c] EXCEPT !.read = TRUE, !.ver = ver]]
      BY <1>3, <2>2, <3>1, Zenon
    <3> QED
      BY <1>1, <3>3, <3>4
  <2> QED
    BY <1>2, <1>8, <2>1, <2>2 DEF ReadProvenance, ProvCheck, ProvUnlock, ProvConnect, ProvClose,
      ProvRelock, Exec
<1>9. CASE Up(c)
  <2>1. CASE Info(c) /\ job' # job
    <3>1. PICK seen \in {"absent", "open", "locked"} :
             job' = [job EXCEPT ![c] = [job[c] EXCEPT !.seen = seen, !.of = "base", !.ret = "info"]]
      BY <1>3, <2>1, Zenon DEF Info
    <3>2. [job[c] EXCEPT !.seen = seen, !.of = "base", !.ret = "info"] \in JobType
      BY <1>3, Zenon DEF JobType
    <3> QED
      BY <1>1, <3>1, <3>2
  <2> QED
    BY <1>2, <1>9, <2>1 DEF Up, InfoDone, CloneCheck, Clone, CloneStamp, CloneDrop, Exec, Query
<1>10. ASSUME NEW id \in Nat, job' = [job EXCEPT ![c].id = id]
       PROVE  JobT' /\ \A e \in Clients \ {c} : job'[e] = job[e]
  BY <1>10 DEF JobT, JobType
<1>11. ASSUME NEW phase, NEW kind, NEW next, NEW failed, Begins(c, phase, kind, next, failed)
       PROVE  JobT' /\ \A e \in Clients \ {c} : job'[e] = job[e]
  <2>1. Reaches(c, "cmd", job[c].tgt) => db[job[c].tgt].id \in Nat
    BY NamesFacts DEF Reaches, Exists, DbType, Database
  <2> QED
    BY <1>2, <1>10, <1>11, <2>1 DEF Begins
<1>12. ASSUME NEW d \in {"base", "next"}, job' = [job EXCEPT ![c].tgt = d]
       PROVE  JobT' /\ \A e \in Clients \ {c} : job'[e] = job[e]
  BY <1>12 DEF JobT, JobType
<1>13. CASE Build(c)
  BY <1>2, <1>4, <1>11, <1>12, <1>13 DEF Build, Create, CreateDb, Migrate, Migrated, Finishes,
    ReadOld, Stamp, AssertSeeded, Lock, Close, Cleanup, Drop, Exec
<1>14. CASE Seed(c)
  <2>1. CASE job' = [job EXCEPT ![c].read = TRUE]
    <3>1. [job[c] EXCEPT !.read = TRUE] \in JobType
      BY <1>3, Zenon DEF JobType
    <3>2. job' = [job EXCEPT ![c] = [job[c] EXCEPT !.read = TRUE]]
      BY <2>1, Zenon
    <3> QED
      BY <1>1, <3>1, <3>2, Zenon
  <2> QED
    BY <1>2, <1>11, <1>14, <2>1 DEF Seed, SeedCheck, SeedUnlock, SeedBegin, SeedEnd, SeedStamp,
      Relock, Finishes, Exec
<1>15. CASE Reset(c)
  BY <1>2, <1>12, <1>15 DEF Reset, ResetCheck, ResetTerm, ResetDrop, Cleared
<1>16. CASE Swap(c)
  <2>1. CASE SwapDrop(c)
    <3>1. job[c].tries + 1 \in 0 .. Tries
      BY <2>1, <1>3, BaseManagerAssumption DEF SwapDrop, Role, JobType
    <3> QED
      BY <1>2, <2>1, <3>1 DEF SwapDrop, JobT, JobType
  <2> QED
    BY <1>2, <1>4, <1>12, <1>16, <2>1 DEF Swap, Refresh, RefreshNext, Ready, SwapTerm,
      SwapAgain, SwapRename, Exec
<1> QED
  BY <1>6, <1>7, <1>8, <1>9, <1>13, <1>14, <1>15, <1>16 DEF Step

-----------------------------------------------------------------------------

(***************************************************************************)
(* What a statement does to the databases                                  *)
(***************************************************************************)

Others(d) == \A e \in DbNames \ {d} : db'[e] = db[e]

\* The record of d is the same but for the fields named.
Content(d) == db'[d].schema = db[d].schema /\ db'[d].rows = db[d].rows

LEMMA Put ==
    ASSUME DbType, NEW d \in DbNames, NEW r \in Database \cup {NoDb}, db' = [db EXCEPT ![d] = r]
    PROVE  DbType' /\ Others(d) /\ db'[d] = r
BY DEF DbType, Others

LEMMA ExistsFacts ==
    ASSUME DbType, NEW d \in DbNames
    PROVE  Exists(d) <=> db[d] \in Database
BY BaseManagerAssumption DEF DbType, Exists

LEMMA OpenPut ==
    ASSUME DbType, NEW d \in DbNames, Exists(d), NEW open \in BOOLEAN, db' = WithOpen(d, open)
    PROVE  /\ DbType' /\ Others(d) /\ Exists(d)' /\ Content(d)
           /\ db'[d].id = db[d].id /\ db'[d].ver = db[d].ver /\ db'[d].open = open
<1>1. db[d] \in Database
  BY ExistsFacts
<1>2. [db[d] EXCEPT !.open = open] \in Database
  BY <1>1, Zenon DEF Database
<1>3. db' = [db EXCEPT ![d] = [db[d] EXCEPT !.open = open]]
  BY Zenon DEF WithOpen
<1>4. DbType' /\ Others(d) /\ db'[d] = [db[d] EXCEPT !.open = open]
  BY <1>2, <1>3, Put
<1>5. PICK x : x = db[d]
  OBVIOUS
<1>6. /\ [x EXCEPT !.open = open].schema = x.schema /\ [x EXCEPT !.open = open].rows = x.rows
      /\ [x EXCEPT !.open = open].id = x.id /\ [x EXCEPT !.open = open].ver = x.ver
      /\ [x EXCEPT !.open = open].open = open
  BY <1>1, <1>5, Zenon DEF Database
<1>7. Exists(d)'
  BY <1>2, <1>4, BaseManagerAssumption DEF Exists
<1> QED
  BY <1>4, <1>5, <1>6, <1>7 DEF Content

LEMMA FillPut ==
    ASSUME DbType, NEW d \in DbNames, Exists(d), NEW how \in Filled,
           NEW kind \in {"schema", "rows"}, db' = [db EXCEPT ![d][kind] = how]
    PROVE  /\ DbType' /\ Others(d) /\ Exists(d)'
           /\ db'[d].id = db[d].id /\ db'[d].ver = db[d].ver /\ db'[d].open = db[d].open
           /\ kind = "schema" => db'[d].schema = how /\ db'[d].rows = db[d].rows
           /\ kind = "rows" => db'[d].rows = how /\ db'[d].schema = db[d].schema
<1>1. db[d] \in Database
  BY ExistsFacts
<1>2. PICK x : x = db[d]
  OBVIOUS
<1>3. CASE kind = "schema"
  <2>1. [x EXCEPT !.schema = how] \in Database
    BY <1>1, <1>2, Zenon DEF Database
  <2>2. db' = [db EXCEPT ![d] = [x EXCEPT !.schema = how]]
    BY <1>2, <1>3, Zenon
  <2>3. /\ [x EXCEPT !.schema = how].schema = how /\ [x EXCEPT !.schema = how].rows = x.rows
        /\ [x EXCEPT !.schema = how].id = x.id /\ [x EXCEPT !.schema = how].ver = x.ver
        /\ [x EXCEPT !.schema = how].open = x.open
    BY <1>1, <1>2, Zenon DEF Database
  <2>4. DbType' /\ Others(d) /\ db'[d] = [x EXCEPT !.schema = how]
    BY <2>1, <2>2, Put
  <2> QED
    BY <1>2, <1>3, <2>1, <2>3, <2>4, BaseManagerAssumption DEF Exists
<1>4. CASE kind = "rows"
  <2>1. [x EXCEPT !.rows = how] \in Database
    BY <1>1, <1>2, Zenon DEF Database
  <2>2. db' = [db EXCEPT ![d] = [x EXCEPT !.rows = how]]
    BY <1>2, <1>4, Zenon
  <2>3. /\ [x EXCEPT !.rows = how].rows = how /\ [x EXCEPT !.rows = how].schema = x.schema
        /\ [x EXCEPT !.rows = how].id = x.id /\ [x EXCEPT !.rows = how].ver = x.ver
        /\ [x EXCEPT !.rows = how].open = x.open
    BY <1>1, <1>2, Zenon DEF Database
  <2>4. DbType' /\ Others(d) /\ db'[d] = [x EXCEPT !.rows = how]
    BY <2>1, <2>2, Put
  <2> QED
    BY <1>2, <1>4, <2>1, <2>3, <2>4, BaseManagerAssumption DEF Exists
<1> QED
  BY <1>3, <1>4

LEMMA StampPut ==
    ASSUME DbType, NEW d \in DbNames, Exists(d), NEW ver \in Nat, db' = [db EXCEPT ![d].ver = ver]
    PROVE  /\ DbType' /\ Others(d) /\ Exists(d)' /\ Content(d)
           /\ db'[d].id = db[d].id /\ db'[d].ver = ver /\ db'[d].open = db[d].open
<1>1. db[d] \in Database
  BY ExistsFacts
<1>2. PICK x : x = db[d]
  OBVIOUS
<1>3. [x EXCEPT !.ver = ver] \in Database
  BY <1>1, <1>2, Zenon DEF Database
<1>4. db' = [db EXCEPT ![d] = [x EXCEPT !.ver = ver]]
  BY <1>2, Zenon
<1>5. DbType' /\ Others(d) /\ db'[d] = [x EXCEPT !.ver = ver]
  BY <1>3, <1>4, Put
<1>6. /\ [x EXCEPT !.ver = ver].schema = x.schema /\ [x EXCEPT !.ver = ver].rows = x.rows
      /\ [x EXCEPT !.ver = ver].id = x.id /\ [x EXCEPT !.ver = ver].ver = ver
      /\ [x EXCEPT !.ver = ver].open = x.open
  BY <1>1, <1>2, Zenon DEF Database
<1>7. Exists(d)'
  BY <1>3, <1>5, BaseManagerAssumption DEF Exists
<1> QED
  BY <1>2, <1>5, <1>6, <1>7 DEF Content

LEMMA DropPut ==
    ASSUME DbType, NEW d \in DbNames, db' = Without(d)
    PROVE  DbType' /\ Others(d) /\ ~Exists(d)'
BY Put DEF Without, Exists

LEMMA NewPut ==
    ASSUME DbType, NEW d \in DbNames, NEW id \in Nat, db' = [db EXCEPT ![d] = NewDb(id)]
    PROVE  /\ DbType' /\ Others(d) /\ Exists(d)' /\ db'[d].ver = 0 /\ db'[d].open
<1>1. NewDb(id) \in Database /\ NewDb(id).ver = 0 /\ NewDb(id).open
  BY DEF NewDb, Database, Filled
<1>2. DbType' /\ Others(d) /\ db'[d] = NewDb(id)
  BY <1>1, Put
<1> QED
  BY <1>1, <1>2, BaseManagerAssumption DEF Exists

LEMMA RenamePut ==
    ASSUME DbType, Exists("next"), db' = Renamed
    PROVE  /\ DbType' /\ \A i \in Insts : db'[i] = db[i]
           /\ Exists("base")' /\ db'["base"] = db["next"] /\ ~Exists("next")'
<1>1. "base" \in DbNames /\ "next" \in DbNames /\ \A i \in Insts : i \in DbNames \ {"base", "next"}
  BY BaseManagerAssumption DEF DbNames
<1> QED
  BY <1>1 DEF DbType, Renamed, Exists

LEMMA ClonePut ==
    ASSUME DbType, Exists("base"), NEW i \in Insts,
           db' = [db EXCEPT ![i] = [db["base"] EXCEPT !.open = TRUE]]
    PROVE  /\ DbType' /\ Others(i) /\ Exists(i)'
           /\ db'[i].id = db["base"].id /\ db'[i].ver = db["base"].ver
           /\ db'[i].schema = db["base"].schema /\ db'[i].rows = db["base"].rows
<1>1. PICK x \in Database : x = db["base"]
  BY ExistsFacts DEF DbNames
<1>2. [x EXCEPT !.open = TRUE] \in Database
  BY <1>1, Zenon DEF Database
<1>3. /\ [x EXCEPT !.open = TRUE].schema = x.schema /\ [x EXCEPT !.open = TRUE].rows = x.rows
      /\ [x EXCEPT !.open = TRUE].id = x.id /\ [x EXCEPT !.open = TRUE].ver = x.ver
  BY <1>1, Zenon DEF Database
<1>4. i \in DbNames
  BY DEF DbNames
<1>5. DbType' /\ Others(i) /\ db'[i] = [x EXCEPT !.open = TRUE]
  BY <1>1, <1>2, <1>4, Put
<1> QED
  BY <1>1, <1>2, <1>3, <1>5, BaseManagerAssumption DEF Exists

LEMMA DbKept ==
    ASSUME DbType, JobT, Counts, NEW m, NEW c \in Clients, Role(m, c), Step(c) \/ Crash(c)
    PROVE  DbType'
<1>1. CASE db' = db
  BY <1>1 DEF DbType
<1>2. ASSUME NEW d \in DbNames, NEW open \in BOOLEAN, Exists(d), db' = WithOpen(d, open)
      PROVE  DbType'
  BY <1>2, OpenPut
<1>3. \A d \in DbNames : db' = Without(d) => DbType'
  BY DropPut
<1>4. ASSUME NEW phase, NEW kind \in {"schema", "rows"}, NEW next, NEW failed,
             Begins(c, phase, kind, next, failed) \/ Finishes(c, phase, kind, next, failed)
      PROVE  DbType'
  <2>1. ASSUME NEW how \in Filled, Exists(job[c].tgt), db' = [db EXCEPT ![job[c].tgt][kind] = how]
        PROVE  DbType'
    BY <2>1, NamesFacts, FillPut
  <2> QED
    BY <1>1, <1>4, <2>1, SMTT(30) DEF Begins, Finishes, Reaches, Filled
<1>5. CASE Start(c) \/ End(c) \/ Crash(c) \/ Reset(c)
  BY <1>1, <1>3, <1>5, NamesFacts DEF Start, End, Crash, Reset, ResetCheck, ResetTerm, ResetDrop
<1>6. CASE ReadProvenance(c)
  BY <1>1, <1>2, <1>6, NamesFacts DEF ReadProvenance, ProvCheck, ProvUnlock, ProvConnect,
    ProvClose, ProvRelock, Exec
<1>7. CASE Up(c)
  <2>1. pc[c] \in ClonePhases => job[c].inst \in Insts /\ job[c].inst \in DbNames
    BY NamesFacts DEF Role
  <2>2. CASE Clone(c)
    BY <1>1, <2>1, <2>2, ClonePut DEF Clone, Exec, Droppable, ClonePhases
  <2> QED
    BY <1>1, <1>3, <1>7, <2>1, <2>2 DEF Up, Info, InfoDone, CloneCheck, CloneStamp, CloneDrop,
      Exec, Query, ClonePhases
<1>8. CASE Build(c)
  <2>1. CASE CreateDb(c)
    <3>1. serial + 1 \in Nat
      BY DEF Counts
    <3> QED
      BY <1>1, <2>1, <3>1, NamesFacts, NewPut DEF CreateDb
  <2>2. CASE Stamp(c)
    <3>1. job[c].ver + 1 \in Nat /\ 1 \in Nat
      BY NamesFacts
    <3> QED
      BY <1>1, <2>2, <3>1, NamesFacts, StampPut DEF Stamp, Reaches
  <2> QED
    BY <1>1, <1>2, <1>3, <1>4, <1>8, <2>1, <2>2, NamesFacts DEF Build, Create, Migrate, Migrated,
      ReadOld, AssertSeeded, Lock, Close, Cleanup, Drop, Exec, Query
<1>9. CASE Seed(c)
  <2>1. CASE SeedStamp(c)
    <3>1. CASE Exists("base") /\ db' = [db EXCEPT !["base"].ver = @ + 1]
      <4>1. db["base"].ver + 1 \in Nat
        BY <3>1, NamesFacts, ExistsFacts DEF Database
      <4>2. db' = [db EXCEPT !["base"].ver = db["base"].ver + 1]
        BY <3>1
      <4> QED
        BY <3>1, <4>1, <4>2, NamesFacts, StampPut
    <3> QED
      BY <1>1, <2>1, <3>1 DEF SeedStamp, Reaches
  <2> QED
    BY <1>1, <1>2, <1>4, <1>9, <2>1, NamesFacts DEF Seed, SeedCheck, SeedUnlock, SeedBegin,
      SeedEnd, Relock, Exec, Query
<1>10. CASE Swap(c)
  BY <1>1, <1>3, <1>10, NamesFacts, RenamePut DEF Swap, Refresh, RefreshNext, Ready, SwapTerm,
    SwapDrop, SwapAgain, SwapRename, Exec, Query, Droppable
<1> QED
  BY <1>5, <1>6, <1>7, <1>8, <1>9, <1>10 DEF Step

\* The others' phases.
LEMMA PcOthers ==
    ASSUME PcType, NEW c \in Clients, Step(c) \/ Crash(c)
    PROVE  \A e \in Clients \ {c} : pc'[e] = pc[e]
<1>1. \A p : Goto(c, p) => \A e \in Clients \ {c} : pc'[e] = pc[e]
  BY DEF Goto, PcType
<1>2. CASE Start(c) \/ End(c) \/ Crash(c)
  BY <1>1, <1>2 DEF Start, End, Crash
<1>3. CASE ReadProvenance(c)
  BY <1>1, <1>3 DEF ReadProvenance, ProvCheck, ProvUnlock, ProvConnect, ProvClose,
    ProvRelock, Exec, AfterRead
<1>4. CASE Up(c)
  BY <1>1, <1>4 DEF Up, Info, InfoDone, CloneCheck, Clone, CloneStamp, CloneDrop, Exec, Query
<1>5. CASE Build(c)
  BY <1>1, <1>5 DEF Build, Create, CreateDb, Migrate, Migrated, Begins, Finishes, ReadOld,
    Reads, Stamp, AssertSeeded, Lock, Close, Cleanup, Drop, Exec, Query
<1>6. CASE Seed(c)
  BY <1>1, <1>6 DEF Seed, SeedCheck, SeedUnlock, SeedBegin, SeedEnd, SeedStamp, Relock, Begins,
    Finishes, Exec, Query
<1>7. CASE Reset(c)
  BY <1>1, <1>7 DEF Reset, ResetCheck, ResetTerm, ResetDrop, Cleared
<1>8. CASE Swap(c)
  BY <1>1, <1>8 DEF Swap, Refresh, RefreshNext, Ready, Reads, SwapTerm, SwapDrop, SwapAgain,
    SwapRename, Exec, Query
<1> QED
  BY <1>2, <1>3, <1>4, <1>5, <1>6, <1>7, <1>8 DEF Step

-----------------------------------------------------------------------------

(***************************************************************************)
(* Which command is in which phase                                         *)
(***************************************************************************)

RolePhases == ProvPhases \cup ClonePhases \cup SwapPhases \cup BuildPhases

\* A job whose fields but the ones named stay.
KeepsJob(c) ==
    /\ job'[c].op = job[c].op /\ job'[c].inst = job[c].inst
    /\ job'[c].tries = job[c].tries

LEMMA ReadsFacts ==
    ASSUME JobT, PcType, NEW c \in Clients, NEW d, NEW ret, Reads(c, d, ret)
    PROVE  /\ KeepsJob(c) /\ job'[c].tgt = job[c].tgt /\ job'[c].of = d /\ job'[c].ret = ret
           /\ ~job'[c].read /\ pc'[c] = "prov"
<1>1. job[c] \in JobType /\ pc'[c] = "prov"
  BY DEF JobT, PcType, Reads, Goto
<1>2. job'[c] = [job[c] EXCEPT !.of = d, !.ret = ret, !.read = FALSE, !.ver = 0]
  BY Zenon DEF Reads, JobT
<1>3. PICK j : j = job[c]
  OBVIOUS
<1>4. ASSUME NEW k, k = [j EXCEPT !.of = d, !.ret = ret, !.read = FALSE, !.ver = 0]
      PROVE  /\ k.op = j.op /\ k.inst = j.inst /\ k.tries = j.tries /\ k.tgt = j.tgt
             /\ k.of = d /\ k.ret = ret /\ ~k.read
  BY <1>1, <1>3, <1>4, Zenon DEF JobType
<1> QED
  BY <1>1, <1>2, <1>3, <1>4, Zenon DEF KeepsJob

LEMMA StartFacts ==
    ASSUME JobT, PcType, NEW c \in Clients, Start(c)
    PROVE  \E op \in Commands :
              /\ <<c, op>> \in Runs /\ begun' = begun \cup {op}
              /\ pc'[c] = FirstPhase[op] /\ job'[c].op = op /\ job'[c].inst \in Insts
              /\ job'[c].tgt = "base" /\ job'[c].tries = 0
<1>1. PICK op \in Commands, i \in Insts :
         /\ <<c, op>> \in Runs
         /\ job' = [job EXCEPT ![c] = [NoJob EXCEPT !.op = op, !.inst = i]]
         /\ Goto(c, FirstPhase[op])
         /\ begun' = begun \cup {op}
  BY Zenon DEF Start
<1>2. NoJob.tgt = "base" /\ NoJob.tries = 0 /\ NoJob \in JobType
  BY BaseManagerAssumption DEF NoJob, JobType
<1>3. ASSUME NEW k, k = [NoJob EXCEPT !.op = op, !.inst = i]
      PROVE  k.op = op /\ k.inst = i /\ k.tgt = NoJob.tgt /\ k.tries = NoJob.tries
  BY <1>2, <1>3, Zenon DEF JobType
<1>4. job'[c] = [NoJob EXCEPT !.op = op, !.inst = i]
  BY <1>1, Zenon DEF JobT
<1>5. pc'[c] = FirstPhase[op]
  BY <1>1 DEF Goto, PcType
<1> QED
  BY <1>1, <1>2, <1>3, <1>4, <1>5

LEMMA InfoFacts ==
    ASSUME JobT, PcType, NEW c \in Clients, Info(c)
    PROVE  /\ KeepsJob(c) /\ job'[c].tgt = job[c].tgt
           /\ \/ pc'[c] = "err" /\ job'[c] = job[c]
              \/ pc'[c] \in {"prov", "info_done"} /\ job'[c].of = "base" /\ job'[c].ret = "info"
<1>1. job[c] \in JobType
  BY DEF JobT
<1>2. CASE pc'[c] = "err" /\ job'[c] = job[c]
  BY <1>2 DEF KeepsJob
<1>3. CASE ~(pc'[c] = "err" /\ job'[c] = job[c])
  <2>1. pc'[c] \in {"prov", "info_done"}
    BY <1>3 DEF Info, Goto, PcType
  <2>2. PICK seen :
           job' = [job EXCEPT ![c] = [job[c] EXCEPT !.seen = seen, !.of = "base", !.ret = "info"]]
    <3>1. ~Goto(c, "err")
      BY <2>1 DEF Goto, PcType
    <3> QED
      BY <3>1, Zenon DEF Info
  <2>3. job'[c] = [job[c] EXCEPT !.seen = seen, !.of = "base", !.ret = "info"]
    BY <2>2, Zenon DEF JobT
  <2>4. PICK j : j = job[c]
    OBVIOUS
  <2>5. ASSUME NEW k, k = [j EXCEPT !.seen = seen, !.of = "base", !.ret = "info"]
        PROVE  /\ k.op = j.op /\ k.inst = j.inst /\ k.tries = j.tries /\ k.tgt = j.tgt
               /\ k.of = "base" /\ k.ret = "info"
    BY <1>1, <2>4, <2>5, Zenon DEF JobType
  <2> QED
    BY <2>1, <2>3, <2>4, <2>5, Zenon DEF KeepsJob
<1> QED
  BY <1>2, <1>3

\* The reading of a provenance row changes locked, read and ver.
LEMMA ProvFacts ==
    ASSUME JobT, PcType, NEW c \in Clients, ReadProvenance(c)
    PROVE  /\ pc[c] \in ProvPhases
           /\ KeepsJob(c) /\ job'[c].tgt = job[c].tgt /\ job'[c].of = job[c].of
           /\ job'[c].ret = job[c].ret /\ job'[c].id = job[c].id
           /\ ProvCheck(c) \/ job'[c].locked = job[c].locked
           /\ ProvCheck(c) \/ ProvClose(c) \/ job' = job
           /\ ProvCheck(c) =>
                 /\ job'[c].ver = job[c].ver /\ job'[c].read = job[c].read
                 /\ \/ job' = job /\ pc'[c] = Back(c, FALSE, 0)
                    \/ /\ job'[c].locked = Locked(job[c].of)
                       /\ pc'[c] = IF Locked(job[c].of) THEN "prov_unlock" ELSE "prov_connect"
<1>1. job[c] \in JobType /\ pc[c] \in ProvPhases
  BY DEF JobT, ReadProvenance, ProvCheck, ProvUnlock, ProvConnect, ProvClose, ProvRelock, Exec,
    ProvPhases
<1>2. PICK j : j = job[c]
  OBVIOUS
<1>3. CASE job' = job /\ ~ProvCheck(c)
  BY <1>1, <1>3 DEF KeepsJob
<1>4. CASE ProvCheck(c)
  <2>1. CASE job' = [job EXCEPT ![c].locked = Locked(job[c].of)]
    <3>1. job'[c] = [job[c] EXCEPT !.locked = Locked(job[c].of)]
      BY <2>1, Zenon DEF JobT
    <3>2. ASSUME NEW k, k = [j EXCEPT !.locked = Locked(job[c].of)]
          PROVE  /\ k.op = j.op /\ k.inst = j.inst /\ k.tries = j.tries /\ k.tgt = j.tgt
                 /\ k.of = j.of /\ k.ret = j.ret /\ k.id = j.id /\ k.locked = Locked(job[c].of)
                 /\ k.ver = j.ver /\ k.read = j.read
      BY <1>1, <1>2, <3>2, Zenon DEF JobType
    <3>3. job' # job \/ pc'[c] # Back(c, FALSE, 0) =>
             pc'[c] = IF Locked(job[c].of) THEN "prov_unlock" ELSE "prov_connect"
      BY <1>4 DEF ProvCheck, Goto, PcType
    <3>4. /\ KeepsJob(c) /\ job'[c].tgt = job[c].tgt /\ job'[c].of = job[c].of
          /\ job'[c].ret = job[c].ret /\ job'[c].id = job[c].id
          /\ job'[c].ver = job[c].ver /\ job'[c].read = job[c].read
          /\ job'[c].locked = Locked(job[c].of)
      BY <1>2, <3>1, <3>2, Zenon DEF KeepsJob
    <3> QED
      BY <1>1, <1>4, <3>3, <3>4, Zenon
  <2>2. CASE job' = job /\ Goto(c, Back(c, FALSE, 0))
    BY <1>1, <1>4, <2>2 DEF KeepsJob, Goto, PcType
  <2> QED
    BY <1>4, <2>1, <2>2 DEF ProvCheck
<1>5. CASE ProvClose(c) /\ job' # job
  <2>1. PICK ver : job'[c] = [job[c] EXCEPT !.read = TRUE, !.ver = ver]
    BY <1>5, Zenon DEF ProvClose, JobT
  <2>2. ASSUME NEW k, k = [j EXCEPT !.read = TRUE, !.ver = ver]
        PROVE  /\ k.op = j.op /\ k.inst = j.inst /\ k.tries = j.tries /\ k.tgt = j.tgt
               /\ k.of = j.of /\ k.ret = j.ret /\ k.id = j.id /\ k.locked = j.locked
    BY <1>1, <1>2, <2>2, Zenon DEF JobType
  <2>3. ~ProvCheck(c)
    BY <1>5 DEF ProvClose, ProvCheck
  <2> QED
    BY <1>1, <1>2, <1>5, <2>1, <2>2, <2>3, Zenon DEF KeepsJob
<1> QED
  BY <1>3, <1>4, <1>5 DEF ReadProvenance, ProvUnlock, ProvConnect, ProvClose, ProvRelock, Exec

LEMMA BeginsFacts ==
    ASSUME JobT, PcType, NEW c \in Clients, NEW phase, NEW kind, NEW next, NEW failed,
           Begins(c, phase, kind, next, failed)
    PROVE  /\ KeepsJob(c) /\ job'[c].tgt = job[c].tgt /\ pc[c] = phase
           /\ job'[c].ver = job[c].ver
           /\ \/ pc'[c] = next /\ job'[c].id = db[job[c].tgt].id
              \/ pc'[c] = failed /\ job'[c] = job[c]
BY DEF Begins, JobT, PcType, JobType, KeepsJob, Goto

LEMMA RoleOfProv ==
    ASSUME JobT, PcType, NEW m, NEW c \in Clients, Role(m, c), ReadProvenance(c),
           begun \subseteq begun'
    PROVE  Role(m, c)'
<1>1. /\ pc[c] \in ProvPhases
      /\ KeepsJob(c) /\ job'[c].tgt = job[c].tgt /\ job'[c].of = job[c].of
      /\ job'[c].ret = job[c].ret
  BY ProvFacts
<1>2. pc'[c] = "prov_unlock" => job'[c].locked
  <2>1. \A p : Goto(c, p) => pc'[c] = p
    BY DEF Goto, PcType
  <2>2. \A read, ver : Back(c, read, ver) # "prov_unlock"
    BY <1>1, BackIs
  <2>3. CASE ProvCheck(c)
    <3>1. \/ pc'[c] = Back(c, FALSE, 0)
          \/ /\ job'[c].locked = Locked(job[c].of)
             /\ pc'[c] = IF Locked(job[c].of) THEN "prov_unlock" ELSE "prov_connect"
      BY <2>3, ProvFacts
    <3> QED
      BY <2>2, <3>1
  <2>4. CASE ~ProvCheck(c)
    BY <2>1, <2>2, <2>4 DEF ReadProvenance, ProvUnlock, ProvConnect, ProvClose, ProvRelock,
      Exec, AfterRead
  <2> QED
    BY <2>3, <2>4
<1>3. \/ pc'[c] \in ProvPhases
      \/ job[c].ret = "info"  /\ pc'[c] = "info_done"
      \/ job[c].ret = "ready" /\ pc'[c] \in {"swap_term", "err"}
      \/ job[c].ret = "old"   /\ pc'[c] \in {"stamp", "cleanup"}
  <2>1. \A p : Goto(c, p) => pc'[c] = p
    BY DEF Goto, PcType
  <2>2. \A read, ver : Goto(c, Back(c, read, ver)) =>
           \/ job[c].ret = "info"  /\ pc'[c] = "info_done"
           \/ job[c].ret = "ready" /\ pc'[c] \in {"swap_term", "err"}
           \/ job[c].ret = "old"   /\ pc'[c] \in {"stamp", "cleanup"}
    BY <1>1, <2>1, BackIs
  <2>3. \A read, ver : AfterRead(c, read, ver) =>
           pc'[c] = "prov_relock" \/ Goto(c, Back(c, read, ver))
    BY <2>1 DEF AfterRead
  <2> QED
    BY <2>1, <2>2, <2>3 DEF ReadProvenance, ProvCheck, ProvUnlock, ProvConnect, ProvClose,
      ProvRelock, Exec, ProvPhases
<1> QED
  BY <1>1, <1>2, <1>3 DEF Role, KeepsJob, ProvPhases, ClonePhases, SwapPhases, BuildPhases

LEMMA RoleOfUp ==
    ASSUME JobT, PcType, NEW m, NEW c \in Clients, Role(m, c), Up(c), begun \subseteq begun'
    PROVE  Role(m, c)'
<1>1. CASE Info(c)
  <2>1. pc[c] = "info"
    BY <1>1 DEF Info
  <2> QED
    BY <1>1, <2>1, InfoFacts DEF Role, KeepsJob, ProvPhases, ClonePhases, SwapPhases, BuildPhases
<1>2. CASE ~Info(c)
  <2>1. job' = job
    BY <1>2 DEF Up, InfoDone, CloneCheck, Clone, CloneStamp, CloneDrop, Exec, Query
  <2>2. CASE InfoDone(c)
    <3>1. pc[c] = "info_done" /\ \/ pc'[c] \in {"ok", "refused", "err"}
                                 \/ pc'[c] = "clone_check" /\ job[c].op # "status"
      BY <2>2 DEF InfoDone, Query, Goto, PcType
    <3> QED
      BY <2>1, <3>1 DEF Role, ProvPhases, ClonePhases, SwapPhases, BuildPhases
  <2>3. CASE ~InfoDone(c)
    <3>1. pc[c] \in ClonePhases /\ pc'[c] \in ClonePhases \cup {"ok", "refused", "err"}
      BY <1>2, <2>3 DEF Up, CloneCheck, Clone, CloneStamp, CloneDrop, Exec, Query, Goto, PcType,
        ClonePhases
    <3> QED
      BY <2>1, <3>1 DEF Role, ProvPhases, ClonePhases, SwapPhases, BuildPhases
  <2> QED
    BY <2>2, <2>3
<1> QED
  BY <1>1, <1>2

LEMMA RoleOfBuild ==
    ASSUME JobT, PcType, NEW m, NEW c \in Clients, Role(m, c), Build(c), begun \subseteq begun'
    PROVE  Role(m, c)'
<1>1. \A p : Goto(c, p) => pc'[c] = p
  BY DEF Goto, PcType
<1>2. CASE Create(c)
  <2>1. KeepsJob(c) /\ job'[c].tgt = "base"
    BY <1>2 DEF Create, JobT, JobType, KeepsJob
  <2>2. pc[c] = "create" /\ pc'[c] \in {"createdb", "ok", "err"}
    BY <1>1, <1>2 DEF Create, Query
  <2> QED
    BY <2>1, <2>2 DEF Role, KeepsJob, ProvPhases, ClonePhases, SwapPhases, BuildPhases
<1>3. CASE Migrate(c)
  <2>1. pc[c] = "migrate" /\ pc'[c] \in {"migrating", "cleanup"}
        /\ KeepsJob(c) /\ job'[c].tgt = job[c].tgt
    BY <1>3, BeginsFacts DEF Migrate, KeepsJob
  <2> QED
    BY <2>1 DEF Role, KeepsJob, ProvPhases, ClonePhases, SwapPhases, BuildPhases
<1>4. CASE ReadOld(c)
  <2>1. pc[c] = "old" /\ Reads(c, "base", "old")
    BY <1>4 DEF ReadOld
  <2> QED
    BY <2>1, ReadsFacts DEF Role, KeepsJob, ProvPhases, ClonePhases, SwapPhases, BuildPhases
<1>5. CASE ~(Create(c) \/ Migrate(c) \/ ReadOld(c))
  <2>1. job' = job
    BY <1>5 DEF Build, CreateDb, Migrated, Finishes, Stamp, AssertSeeded, Lock, Close, Cleanup,
      Drop, Exec
  <2>2. \/ pc[c] = "createdb" /\ pc'[c] \in {"migrate", "err"}
        \/ pc[c] = "migrating" /\ pc'[c] \in {"migrating", "cleanup"}
        \/ pc[c] = "migrating" /\ pc'[c] = IF Staging(c) THEN "old" ELSE "stamp"
        \/ pc[c] = "stamp" /\ pc'[c] = IF Staging(c) THEN "seed" ELSE "lock"
        \/ pc[c] = "stamp" /\ pc'[c] = "cleanup"
        \/ pc[c] = "assert" /\ pc'[c] \in {"lock", "cleanup"}
        \/ pc[c] = "lock" /\ pc'[c] = IF Staging(c) THEN "close" ELSE "ok"
        \/ pc[c] = "lock" /\ pc'[c] = "cleanup"
        \/ pc[c] = "close" /\ pc'[c] = "swap_term"
        \/ pc[c] = "cleanup" /\ pc'[c] \in {"drop", "err"}
        \/ pc[c] = "drop" /\ pc'[c] = "err"
    BY <1>1, <1>5 DEF Build, CreateDb, Migrated, Finishes, Stamp, AssertSeeded, Lock, Close,
      Cleanup, Drop, Exec
  <2> QED
    BY <2>1, <2>2 DEF Role, Staging, ProvPhases, ClonePhases, SwapPhases, BuildPhases
<1> QED
  BY <1>2, <1>3, <1>4, <1>5

LEMMA RoleOfSeed ==
    ASSUME JobT, PcType, NEW m, NEW c \in Clients, Role(m, c), Seed(c), begun \subseteq begun'
    PROVE  Role(m, c)'
<1>1. \A p : Goto(c, p) => pc'[c] = p
  BY DEF Goto, PcType
<1>2. KeepsJob(c) /\ job'[c].tgt = job[c].tgt
  <2>1. CASE job' = job
    BY <2>1 DEF KeepsJob
  <2>2. CASE job' = [job EXCEPT ![c].read = TRUE]
    BY <2>2 DEF KeepsJob, JobT, JobType
  <2>3. CASE SeedBegin(c)
    BY <2>3, BeginsFacts DEF SeedBegin
  <2> QED
    BY <2>1, <2>2, <2>3 DEF Seed, SeedCheck, SeedUnlock, SeedEnd, SeedStamp, Relock, Finishes, Exec
<1>3. \/ pc[c] = "seed_check" /\ pc'[c] \in {"seed_unlock", "err"}
      \/ pc[c] = "seed_unlock" /\ pc'[c] \in {"seed", "err"}
      \/ pc[c] = "seed" /\ pc'[c] \in {"seeding", FailedSeed(c)}
      \/ pc[c] = "seeding" /\ pc'[c] \in {"seeding", AfterSeed(c), FailedSeed(c)}
      \/ pc[c] = "seed_stamp" /\ pc'[c] = "relock"
      \/ pc[c] = "relock" /\ pc'[c] \in {"ok", "err"}
  <2>1. CASE SeedBegin(c)
    BY <2>1, BeginsFacts DEF SeedBegin
  <2>2. CASE ~SeedBegin(c)
    BY <1>1, <2>2 DEF Seed, SeedCheck, SeedUnlock, SeedEnd, SeedStamp, Relock, Finishes, Exec, Query
  <2> QED
    BY <2>1, <2>2
<1> QED
  BY <1>2, <1>3 DEF Role, KeepsJob, AfterSeed, FailedSeed, ProvPhases, ClonePhases, SwapPhases,
    BuildPhases

LEMMA RoleOfReset ==
    ASSUME JobT, PcType, NEW m, NEW c \in Clients, Role(m, c), Reset(c), begun \subseteq begun'
    PROVE  Role(m, c)'
<1>1. \A p : Goto(c, p) => pc'[c] = p
  BY DEF Goto, PcType
<1>2. KeepsJob(c)
  BY DEF Reset, ResetCheck, ResetTerm, ResetDrop, Cleared, KeepsJob, JobT, JobType
<1>3. /\ pc[c] \in {"reset_check", "reset_term", "reset_drop"}
      /\ pc'[c] \in {"reset_check", "reset_term", "reset_drop", "create", "err"}
  BY <1>1 DEF Reset, ResetCheck, ResetTerm, ResetDrop, Cleared
<1> QED
  BY <1>2, <1>3 DEF Role, KeepsJob, ProvPhases, ClonePhases, SwapPhases, BuildPhases

LEMMA RoleOfSwap ==
    ASSUME JobT, PcType, NEW m, NEW c \in Clients, Role(m, c), Swap(c), begun \subseteq begun'
    PROVE  Role(m, c)'
<1>1. \A p : Goto(c, p) => pc'[c] = p
  BY DEF Goto, PcType
<1>2. CASE Ready(c) /\ Reads(c, "next", "ready")
  <2>1. pc[c] = "ready"
    BY <1>2 DEF Ready
  <2> QED
    BY <1>2, <2>1, ReadsFacts DEF Role, KeepsJob, ProvPhases, ClonePhases, SwapPhases, BuildPhases
<1>3. CASE SwapDrop(c)
  <2>1. /\ pc[c] = "swap_drop" /\ job'[c].op = job[c].op /\ job'[c].inst = job[c].inst
        /\ job[c].tries < Tries
    BY <1>3 DEF SwapDrop, JobT, JobType, Role
  <2>2. \/ pc'[c] = "swap_rename" /\ job' = job
        \/ pc'[c] = "deferred"
        \/ pc'[c] = "swap_again" /\ job[c].tries + 1 # Tries /\ job'[c].tries = job[c].tries + 1
    BY <1>1, <1>3 DEF SwapDrop, JobT, JobType
  <2>3. job[c].tries \in Nat /\ Tries \in Nat
    BY BaseManagerAssumption DEF JobT, JobType
  <2>4. pc'[c] # "deferred" => job'[c].tries < Tries
    BY <2>1, <2>2, <2>3
  <2>5. pc'[c] \in {"swap_rename", "deferred", "swap_again"}
    BY <2>2
  <2> QED
    BY <2>1, <2>4, <2>5 DEF Role, ProvPhases, ClonePhases, SwapPhases, BuildPhases
<1>4. CASE RefreshNext(c)
  <2>1. KeepsJob(c) /\ job'[c].tgt = "next"
    BY <1>4 DEF RefreshNext, KeepsJob, JobT, JobType
  <2>2. pc[c] = "refresh_next" /\ pc'[c] \in {"ready", "createdb", "err"}
    BY <1>1, <1>4 DEF RefreshNext, Query
  <2> QED
    BY <2>1, <2>2 DEF Role, KeepsJob, ProvPhases, ClonePhases, SwapPhases, BuildPhases
<1>5. CASE /\ ~(SwapDrop(c) \/ RefreshNext(c))
           /\ ~(Ready(c) /\ Reads(c, "next", "ready"))
  <2>1. job' = job
    BY <1>5 DEF Swap, Refresh, Ready, SwapTerm, SwapAgain, SwapRename, Exec, Query
  <2>2. \/ pc[c] = "refresh" /\ pc'[c] \in {"refresh_next", "create", "err"}
        \/ pc[c] = "ready" /\ pc'[c] = "err"
        \/ pc[c] = "swap_term" /\ pc'[c] \in {"swap_drop", "err"}
        \/ pc[c] = "swap_again" /\ pc'[c] \in {"swap_drop", "err"}
        \/ pc[c] = "swap_rename" /\ pc'[c] \in {"ok", "err"}
    BY <1>1, <1>5 DEF Swap, Refresh, Ready, SwapTerm, SwapAgain, SwapRename, Exec, Query
  <2> QED
    BY <2>1, <2>2 DEF Role, ProvPhases, ClonePhases, SwapPhases, BuildPhases
<1> QED
  BY <1>2, <1>3, <1>4, <1>5

LEMMA RoleKept ==
    ASSUME NEW m, NEW c \in Clients, Role(m, c), Types, Step(c) \/ Crash(c),
           \A op \in Changing : <<c, op>> \in Runs => c = m
    PROVE  Role(m, c)'
<1>1. JobT /\ PcType /\ Counts /\ begun \subseteq begun'
  BY TypesParts, CountsKept
<1>2. CASE Start(c)
  <2>1. PICK op \in Commands :
            /\ <<c, op>> \in Runs /\ begun' = begun \cup {op}
            /\ pc'[c] = FirstPhase[op] /\ job'[c].op = op /\ job'[c].inst \in Insts
            /\ job'[c].tgt = "base" /\ job'[c].tries = 0
    BY <1>1, <1>2, StartFacts
  <2>2. op \in Changing => c = m
    BY <2>1
  <2>3. 0 < Tries
    BY BaseManagerAssumption
  <2> QED
    BY <2>1, <2>2, <2>3 DEF Role, FirstPhase, Commands, ProvPhases, ClonePhases, SwapPhases,
      BuildPhases
<1>3. CASE End(c) \/ Crash(c)
  <2>1. pc'[c] = "idle" /\ job'[c] = NoJob /\ 0 < Tries
    BY <1>1, <1>3, BaseManagerAssumption DEF End, Crash, Goto, PcType, JobT
  <2> QED
    BY <2>1 DEF Role, NoJob, Changing, ProvPhases, ClonePhases, SwapPhases, BuildPhases
<1> QED
  BY <1>1, <1>2, <1>3, RoleOfProv, RoleOfUp, RoleOfBuild, RoleOfSeed, RoleOfReset, RoleOfSwap
  DEF Step

\* Another one's step.
LEMMA RoleStays ==
    ASSUME NEW m, Types, Connected, NEW c \in Clients, Role(m, c), Step(c) \/ Crash(c), NEW n,
           NEW e \in Clients \ {c}, Role(n, e)
    PROVE  Role(n, e)'
<1>1. JobT /\ PcType /\ Counts /\ begun \subseteq begun'
  BY TypesParts, CountsKept
<1>2. pc'[e] = pc[e] /\ job'[e] = job[e]
  BY <1>1, TypesParts, PcOthers, JobKept
<1> QED
  BY <1>1, <1>2 DEF Role

LEMMA RolesKept ==
    ASSUME NEW m, Sole(m), Types, Connected, \A e \in Clients : Role(m, e),
           NEW c \in Clients, Step(c) \/ Crash(c)
    PROVE  \A e \in Clients : Role(m, e)'
<1>1. Role(m, c)'
  BY RoleKept DEF Sole
<1>2. \A e \in Clients \ {c} : Role(m, e)'
  BY RoleStays
<1> QED
  BY <1>1, <1>2

-----------------------------------------------------------------------------

(***************************************************************************)
(* Sessions, and the steps that only look                                  *)
(***************************************************************************)

LEMMA ConnectedKept ==
    ASSUME Types, Connected, NEW m, NEW c \in Clients, Role(m, c), Step(c) \/ Crash(c)
    PROVE  Connected'
<1>1. JobT /\ DbType /\ PcType /\ Counts
  BY TypesParts
<1>2. "base" \in DbNames /\ "next" \in DbNames /\ \A i \in Insts : i \in DbNames \ {"base", "next"}
  BY BaseManagerAssumption DEF DbNames
<1>3. /\ job[c].tgt \in {"base", "next"} /\ job[c].of \in {"base", "next"}
      /\ job[c].tgt \in DbNames /\ job[c].of \in DbNames
  BY <1>1, NamesFacts
<1> DEFINE Alive == \A d \in {"base", "next"} : Exists(d) => Exists(d)'
<1>4. ASSUME conns' \subseteq conns, Alive PROVE Connected'
  BY <1>4 DEF Connected
<1>5. ASSUME NEW d \in {"base", "next"}, NEW k, Exists(d), conns' = conns \cup {<<c, k, d>>}, Alive
      PROVE  Connected'
  BY <1>5 DEF Connected
<1>6. ASSUME NEW d \in {"base", "next"}, UsersOf(d) = {}, db' = Without(d), conns' = conns
      PROVE  Connected'
  <2>1. \A e \in DbNames \ {d} : db'[e] = db[e]
    BY <1>1, <1>2, <1>6, DropPut DEF Others
  <2> QED
    BY <1>2, <1>6, <2>1 DEF Connected, UsersOf, Exists
<1>7. db' = db => Alive
  BY DEF Exists
<1>8. ASSUME NEW d \in {"base", "next"}, NEW open \in BOOLEAN, Exists(d), db' = WithOpen(d, open)
      PROVE  Alive
  BY <1>1, <1>2, <1>8, OpenPut, SMTT(30) DEF Others, Exists
<1>9. ASSUME NEW phase, NEW kind \in {"schema", "rows"}, NEW next, NEW failed,
             Begins(c, phase, kind, next, failed) \/ Finishes(c, phase, kind, next, failed)
      PROVE  Connected'
  <2>1. ASSUME NEW how \in Filled, Exists(job[c].tgt), db' = [db EXCEPT ![job[c].tgt][kind] = how]
        PROVE  Alive
    <3>1. PICK d \in {"base", "next"} : d = job[c].tgt
      BY <1>3
    <3>2. Exists(d)' /\ Others(d)
      BY <1>1, <1>2, <2>1, <3>1, FillPut
    <3> QED
      BY <1>2, <3>2 DEF Others, Exists
  <2>2. "part" \in Filled /\ "full" \in Filled
    BY DEF Filled
  <2>3. conns \ {<<c, "cmd", job[c].tgt>>} \subseteq conns
    OBVIOUS
  <2> HIDE DEF Alive
  <2> QED
    BY <1>3, <1>4, <1>5, <1>7, <1>9, <2>1, <2>2, <2>3 DEF Begins, Finishes, Reaches, Disconnects
<1> HIDE DEF Alive
<1>10. CASE Start(c) \/ End(c) \/ Crash(c)
  BY <1>4, <1>7, <1>10 DEF Start, End, Crash
<1>11. CASE ReadProvenance(c)
  BY <1>3, <1>4, <1>5, <1>7, <1>8, <1>11 DEF ReadProvenance, ProvCheck, ProvUnlock, ProvConnect,
    ProvClose, ProvRelock, Exec, Disconnects, Reaches
<1>12. CASE Up(c)
  <2>1. pc[c] \in ClonePhases => job[c].inst \in Insts
    BY DEF Role
  <2>2. CASE db' = db
    BY <1>4, <1>7, <1>12, <2>2 DEF Up, Info, InfoDone, CloneCheck, Clone, CloneStamp, CloneDrop,
      Exec, Query
  <2>3. CASE Clone(c) /\ db' # db
    BY <1>1, <1>2, <1>4, <2>1, <2>3, ClonePut DEF Clone, Exec, Droppable, ClonePhases, Others,
      Alive, Exists
  <2>4. CASE CloneDrop(c) /\ db' # db
    BY <1>1, <1>2, <1>4, <2>1, <2>4, DropPut, ZenonT(60) DEF CloneDrop, Exec, ClonePhases, Others,
      Alive, Exists
  <2> QED
    BY <1>12, <2>2, <2>3, <2>4 DEF Up, Info, InfoDone, CloneCheck, CloneStamp, Exec, Query
<1>13. CASE Build(c)
  <2>1. CASE CreateDb(c)
    <3>1. serial + 1 \in Nat
      BY <1>1 DEF Counts
    <3>2. ASSUME db' = [db EXCEPT ![job[c].tgt] = NewDb(serial + 1)] PROVE Alive
      <4>1. PICK d \in {"base", "next"} : d = job[c].tgt
        BY <1>3
      <4>2. Exists(d)' /\ Others(d)
        BY <1>1, <1>2, <3>1, <3>2, <4>1, NewPut
      <4> QED
        BY <1>2, <4>2 DEF Others, Alive, Exists
    <3> QED
      BY <1>4, <1>7, <2>1, <3>2 DEF CreateDb
  <2>2. CASE Stamp(c)
    <3>1. job[c].ver + 1 \in Nat /\ 1 \in Nat
      BY <1>1, NamesFacts
    <3>2. ASSUME NEW ver \in Nat, Exists(job[c].tgt), db' = [db EXCEPT ![job[c].tgt].ver = ver]
          PROVE Alive
      <4>1. PICK d \in {"base", "next"} : d = job[c].tgt
        BY <1>3
      <4>2. d \in DbNames /\ Exists(d) /\ db' = [db EXCEPT ![d].ver = ver]
        BY <1>2, <3>2, <4>1
      <4>3. Exists(d)' /\ Others(d)
        BY <1>1, <4>2, StampPut
      <4> QED
        BY <1>2, <4>3 DEF Others, Alive, Exists
    <3> QED
      BY <1>3, <1>4, <1>5, <1>7, <2>2, <3>1, <3>2 DEF Stamp, Reaches
  <2>3. CASE Create(c) \/ ReadOld(c) \/ AssertSeeded(c) \/ Lock(c) \/ Close(c) \/ Cleanup(c)
    BY <1>3, <1>4, <1>7, <1>8, <2>3 DEF Create, ReadOld, AssertSeeded, Lock, Close, Cleanup, Exec,
      Query, Disconnects, Terminate
  <2>4. CASE Drop(c)
    BY <1>3, <1>4, <1>6, <1>7, <2>4 DEF Drop, Exec
  <2>5. CASE Migrate(c) \/ Migrated(c)
    BY <1>9, <2>5 DEF Migrate, Migrated
  <2> QED
    BY <1>13, <2>1, <2>2, <2>3, <2>4, <2>5 DEF Build
<1>14. CASE Seed(c)
  <2>1. CASE SeedStamp(c)
    <3>1. CASE Exists("base") /\ db' = [db EXCEPT !["base"].ver = @ + 1]
      <4>1. PICK ver \in Nat : db' = [db EXCEPT !["base"].ver = ver]
        <5>1. db["base"].ver + 1 \in Nat
          BY <1>1, <1>2, <3>1, ExistsFacts DEF Database
        <5>2. db' = [db EXCEPT !["base"].ver = db["base"].ver + 1]
          BY <3>1
        <5> QED
          BY <5>1, <5>2
      <4>2. Exists("base")' /\ Others("base")
        BY <1>1, <1>2, <3>1, <4>1, StampPut
      <4>3. Alive
        BY <1>2, <4>2 DEF Others, Alive, Exists
      <4> QED
        BY <1>4, <2>1, <4>3 DEF SeedStamp
    <3> QED
      BY <1>4, <1>7, <2>1, <3>1 DEF SeedStamp, Reaches
  <2>2. CASE SeedBegin(c) \/ SeedEnd(c)
    BY <1>9, <2>2 DEF SeedBegin, SeedEnd
  <2> QED
    BY <1>4, <1>7, <1>8, <1>14, <2>1, <2>2 DEF Seed, SeedCheck, SeedUnlock, Relock, Exec, Query
<1>15. CASE Reset(c)
  BY <1>3, <1>4, <1>6, <1>7, <1>15 DEF Reset, ResetCheck, ResetTerm, ResetDrop, Terminate
<1>16. CASE Swap(c)
  <2>1. CASE SwapRename(c) /\ db' # db
    BY <1>1, <2>1, RenamePut DEF SwapRename, Exec, Droppable, Connected, UsersOf, Exists
  <2> QED
    BY <1>4, <1>6, <1>7, <1>16, <2>1 DEF Swap, Refresh, RefreshNext, Ready, SwapTerm,
      SwapDrop, SwapAgain, SwapRename, Exec, Query, Terminate, Droppable
<1> QED
  BY <1>10, <1>11, <1>12, <1>13, <1>14, <1>15, <1>16 DEF Step

\* Phases in which a command has not touched base_next yet, or no longer does.
RestPhases == {"idle", "ok", "refused", "err", "info", "info_done", "create", "seed_check",
               "seed_unlock", "seed_stamp", "relock", "reset_check", "reset_term", "reset_drop",
               "refresh"} \cup ClonePhases
Rests(c)   == \/ pc[c] \in RestPhases
              \/ pc[c] \in ProvPhases /\ job[c].ret = "info"
              \/ pc[c] \in {"seed", "seeding"} /\ job[c].op = "seed"

\* The base keeps what it holds, base_next everything and its sessions; an
\* instance that is new is a copy of the base.
Copied(i) == /\ Exists("base") /\ db'[i].schema = db["base"].schema
             /\ db'[i].rows = db["base"].rows /\ db'[i].ver = db["base"].ver
             /\ db'[i].id = db["base"].id
Held      == /\ Exists("base")' <=> Exists("base")
             /\ Exists("base") => /\ Content("base") /\ db'["base"].id = db["base"].id
                                  /\ db'["base"].ver = db["base"].ver
             /\ db'["next"] = db["next"] /\ UsersOf("next")' \subseteq UsersOf("next")
Kin       == \A i \in Insts : Exists(i)' => (Exists(i) /\ db'[i] = db[i]) \/ Copied(i)

Looks(c) == \/ Start(c) \/ End(c) \/ Crash(c) \/ Up(c)
            \/ ReadProvenance(c) /\ job[c].ret = "info"

LEMMA DbNamesFacts ==
    "base" \in DbNames /\ "next" \in DbNames /\ \A i \in Insts : i \in DbNames \ {"base", "next"}
BY BaseManagerAssumption DEF DbNames

LEMMA HeldIf ==
    ASSUME db' = db, UsersOf("next")' \subseteq UsersOf("next")
    PROVE  Held /\ Kin
BY DEF Held, Kin, Exists, Content

LEMMA FewerUsers ==
    ASSUME conns' \subseteq conns PROVE \A d : UsersOf(d)' \subseteq UsersOf(d)
BY DEF UsersOf

LEMMA ReadHolds ==
    ASSUME Types, NEW c \in Clients, ReadProvenance(c), job[c].of = "base"
    PROVE  Held /\ Kin
<1>1. JobT /\ DbType /\ PcType
  BY TypesParts
<1>2. UsersOf("next")' \subseteq UsersOf("next")
  <2>1. conns' \subseteq conns \/ conns' = conns \cup {<<c, "pool", "base">>}
    BY DEF ReadProvenance, ProvCheck, ProvUnlock, ProvConnect, ProvClose, ProvRelock,
      Exec, Disconnects
  <2>2. conns' = conns \cup {<<c, "pool", "base">>} => UsersOf("next")' \subseteq UsersOf("next")
    BY DEF UsersOf
  <2> QED
    BY <2>1, <2>2, FewerUsers
<1>3. CASE db' = db
  BY <1>2, <1>3, HeldIf
<1>4. ASSUME NEW open \in BOOLEAN, Exists("base"), db' = WithOpen("base", open)
      PROVE  Held /\ Kin
  <2>1. Others("base") /\ Exists("base")' /\ Content("base")
        /\ db'["base"].id = db["base"].id /\ db'["base"].ver = db["base"].ver
    BY <1>1, <1>4, DbNamesFacts, OpenPut
  <2> QED
    BY <1>2, <1>4, <2>1, DbNamesFacts DEF Held, Kin, Others, Exists
<1> QED
  BY <1>3, <1>4 DEF ReadProvenance, ProvCheck, ProvUnlock, ProvConnect, ProvClose,
    ProvRelock, Exec

LEMMA LooksHolds ==
    ASSUME Types, NEW m, NEW c \in Clients, Role(m, c), Looks(c)
    PROVE  Held /\ Kin
<1>1. JobT /\ DbType /\ PcType
  BY TypesParts
<1>2. CASE Start(c) \/ End(c) \/ Crash(c)
  BY <1>2, HeldIf, FewerUsers DEF Start, End, Crash
<1>3. CASE ReadProvenance(c) /\ job[c].ret = "info"
  BY <1>1, <1>3, ProvFacts, ReadHolds DEF Role
<1>4. CASE Up(c)
  <2>1. conns' = conns
    BY <1>4 DEF Up, Info, InfoDone, CloneCheck, Clone, CloneStamp, CloneDrop, Exec, Query
  <2>2. UsersOf("next")' \subseteq UsersOf("next")
    BY <2>1, FewerUsers
  <2>3. pc[c] \in ClonePhases => job[c].inst \in Insts
    BY DEF Role
  <2>4. CASE db' = db
    BY <2>2, <2>4, HeldIf
  <2>5. CASE Clone(c) /\ db' # db
    <3>1. PICK i \in Insts : i = job[c].inst
      BY <2>3, <2>5 DEF Clone, Exec, ClonePhases
    <3>2. Exists("base") /\ db' = [db EXCEPT ![i] = [db["base"] EXCEPT !.open = TRUE]]
      BY <2>5, <3>1 DEF Clone, Exec, Droppable
    <3>3. Others(i) /\ Copied(i)
      BY <1>1, <3>2, ClonePut DEF Copied
    <3> QED
      BY <2>2, <3>3, DbNamesFacts DEF Held, Kin, Others, Exists, Content
  <2>6. CASE CloneDrop(c) /\ db' # db
    <3>1. PICK i \in Insts : i = job[c].inst
      BY <2>3, <2>6 DEF CloneDrop, Exec, ClonePhases
    <3>2. Others(i) /\ ~Exists(i)'
      BY <1>1, <2>6, <3>1, DbNamesFacts, DropPut DEF CloneDrop, Exec
    <3> QED
      BY <2>2, <3>2, DbNamesFacts DEF Held, Kin, Others, Exists, Content
  <2> QED
    BY <1>4, <2>4, <2>5, <2>6 DEF Up, Info, InfoDone, CloneCheck, CloneStamp, Exec, Query
<1> QED
  BY <1>2, <1>3, <1>4 DEF Looks

LEMMA LooksRests ==
    ASSUME Types, NEW m, NEW c \in Clients, Role(m, c), Looks(c)
    PROVE  Rests(c)'
<1>1. JobT /\ PcType
  BY TypesParts
<1>2. \A p : Goto(c, p) => pc'[c] = p
  BY <1>1 DEF Goto, PcType
<1>3. CASE Start(c)
  <2>1. pc'[c] \in {"create", "seed_check", "reset_check", "refresh", "info"}
    <3>1. PICK op \in Commands : pc'[c] = FirstPhase[op]
      BY <1>1, <1>3, StartFacts
    <3> QED
      BY <3>1 DEF FirstPhase, Commands
  <2> QED
    BY <2>1 DEF Rests, RestPhases
<1>4. CASE End(c) \/ Crash(c)
  BY <1>2, <1>4 DEF End, Crash, Rests, RestPhases
<1>5. CASE ReadProvenance(c) /\ job[c].ret = "info"
  <2>1. job'[c].ret = "info" /\ \A read, ver : Back(c, read, ver) = "info_done"
    <3>1. job'[c].ret = job[c].ret /\ pc[c] \in ProvPhases
      BY <1>1, <1>5, ProvFacts
    <3> QED
      BY <1>5, <3>1, BackIs
  <2>2. \A read, ver : AfterRead(c, read, ver) => pc'[c] \in {"prov_relock", "info_done"}
    BY <1>2, <2>1 DEF AfterRead
  <2>3. pc'[c] \in ProvPhases \cup {"info_done"}
    BY <1>2, <1>5, <2>1, <2>2 DEF ReadProvenance, ProvCheck, ProvUnlock, ProvConnect, ProvClose,
      ProvRelock, Exec, ProvPhases
  <2> QED
    BY <2>1, <2>3 DEF Rests, RestPhases
<1>6. CASE Up(c)
  <2>1. CASE Info(c)
    BY <1>1, <2>1, InfoFacts DEF Rests, RestPhases, ProvPhases
  <2>2. CASE ~Info(c)
    <3>1. pc'[c] \in {"ok", "refused", "err"} \cup ClonePhases
      BY <1>2, <1>6, <2>2 DEF Up, InfoDone, CloneCheck, Clone, CloneStamp, CloneDrop, Exec, Query,
        ClonePhases
    <3> QED
      BY <3>1 DEF Rests, RestPhases
  <2> QED
    BY <2>1, <2>2
<1> QED
  BY <1>3, <1>4, <1>5, <1>6 DEF Looks

\* Who does not maintain the base only looks.
LEMMA OthersLook ==
    ASSUME NEW m, NEW c \in Clients, Role(m, c), c # m, Step(c) \/ Crash(c)
    PROVE  Looks(c)
<1>1. job[c].op \notin Changing
  BY DEF Role
<1>2. CASE ReadProvenance(c)
  <2>1. pc[c] \in ProvPhases
    BY <1>2 DEF ReadProvenance, ProvCheck, ProvUnlock, ProvConnect, ProvClose, ProvRelock, Exec,
      ProvPhases
  <2> QED
    BY <1>1, <1>2, <2>1 DEF Looks, Role, Changing
<1>3. ASSUME Build(c) PROVE FALSE
  <2>1. pc[c] \in BuildPhases \cup {"create", "old", "assert", "close"}
    BY <1>3 DEF Build, Create, CreateDb, Migrate, Migrated, Begins, Finishes, ReadOld, Stamp,
      AssertSeeded, Lock, Close, Cleanup, Drop, Exec, Query, BuildPhases
  <2> QED
    BY <1>1, <2>1 DEF Role, Changing
<1>4. ASSUME Seed(c) PROVE FALSE
  <2>1. pc[c] \in {"seed", "seeding", "seed_check", "seed_unlock", "seed_stamp", "relock"}
    BY <1>4 DEF Seed, SeedCheck, SeedUnlock, SeedBegin, SeedEnd, SeedStamp, Relock, Begins,
      Finishes, Exec, Query
  <2> QED
    BY <1>1, <2>1 DEF Role, Changing
<1>5. ASSUME Reset(c) PROVE FALSE
  <2>1. pc[c] \in {"reset_check", "reset_term", "reset_drop"}
    BY <1>5 DEF Reset, ResetCheck, ResetTerm, ResetDrop
  <2> QED
    BY <1>1, <2>1 DEF Role, Changing
<1>6. ASSUME Swap(c) PROVE FALSE
  <2>1. pc[c] \in {"refresh", "refresh_next", "ready", "deferred"} \cup SwapPhases
    BY <1>6 DEF Swap, Refresh, RefreshNext, Ready, SwapTerm, SwapDrop, SwapAgain, SwapRename,
      Exec, Query, SwapPhases
  <2> QED
    BY <1>1, <2>1 DEF Role, Changing
<1> QED
  BY <1>2, <1>3, <1>4, <1>5, <1>6 DEF Step, Looks

-----------------------------------------------------------------------------

(***************************************************************************)
(* The maintainer and base_next                                            *)
(***************************************************************************)

Upkeep(m) == Progress(m) /\ NextIsReady(m) /\ BaseStays(m) /\ NextUsers(m)

LEMMA NoUsersIf ==
    ASSUME NEW m, NextUsers(m), ~Own(m, "cmd", "next"), ~Own(m, "pool", "next")
    PROVE  UsersOf("next") = {}
BY DEF NextUsers, Own, UsersOf

\* Another one's step.
LEMMA StandKeeps ==
    ASSUME Types, NEW m \in Clients, Upkeep(m), Held, pc'[m] = pc[m], job'[m] = job[m]
    PROVE  Upkeep(m)'
<1>0. job[m].tgt \in {"base", "next"}
  BY DEF Types, TypeOK
<1>1. Progress(m)'
  BY <1>0 DEF Upkeep, Progress, Held, Fills, ReadsOld, Exists
<1>2. NextIsReady(m)'
  BY DEF Upkeep, NextIsReady, Held, Locked, Whole, Exists, Staged, ReadsReady
<1>3. BaseStays(m)'
  BY DEF Upkeep, BaseStays, Held, Building, ReadsOld, ReadsReady
<1>4. NextUsers(m)'
  <2>1. ReadsReady(m)' <=> ReadsReady(m)
    BY DEF ReadsReady
  <2>2. \A k : Own(m, k, "next")' => Own(m, k, "next")
    BY DEF Held, Own, UsersOf
  <2> QED
    BY <2>1, <2>2 DEF Upkeep, NextUsers, Held, Fills
<1> QED
  BY <1>1, <1>2, <1>3, <1>4 DEF Upkeep

\* A step to a phase that has nothing to do with base_next.
LEMMA RestKeeps ==
    ASSUME NEW m, Role(m, m)', Rests(m)', Locked("next")' => Whole("next")',
           UsersOf("next")' = {}
    PROVE  Upkeep(m)'
<1>1. /\ ~Building(m)' /\ ~Staged(m)' /\ ~ReadsReady(m)' /\ ~ReadsOld(m)'
      /\ pc'[m] \notin {"refresh_next", "ready", "swap_rename", "createdb"}
      /\ pc'[m] \in {"migrate", "migrating", "old", "stamp", "seed", "seeding", "assert", "lock"} =>
            job'[m].tgt # "next"
  BY DEF Rests, RestPhases, Role, Building, Staged, ReadsReady, ReadsOld, ProvPhases, ClonePhases,
    SwapPhases, BuildPhases
<1>2. Progress(m)'
  BY <1>1 DEF Progress, Fills
<1>3. NextIsReady(m)'
  BY <1>1 DEF NextIsReady
<1>4. BaseStays(m)'
  BY <1>1 DEF BaseStays, SwapPhases, Staged
<1>5. NextUsers(m)'
  BY DEF NextUsers, Own, UsersOf
<1> QED
  BY <1>2, <1>3, <1>4, <1>5 DEF Upkeep

LEMMA LooksKeepsUpkeep ==
    ASSUME NEW m, Sole(m), Types, Upkeep(m), NEW c \in Clients, Role(m, c), Role(m, m)', Looks(c),
           (pc'[m] = pc[m] /\ job'[m] = job[m]) \/ c = m
    PROVE  Upkeep(m)'
<1>1. Held
  BY LooksHolds
<1>2. CASE c = m
  <2>1. UsersOf("next")' = {}
    <3>1. CASE End(c) \/ Crash(c)
      BY <1>2, <3>1 DEF End, Crash, UsersOf, Upkeep, NextUsers
    <3>2. CASE ~(End(c) \/ Crash(c))
      <4>1. \/ pc[c] \in {"idle", "info", "info_done"} \cup ClonePhases
            \/ pc[c] \in ProvPhases /\ job[c].ret = "info"
        BY <3>2 DEF Looks, Start, Up, Info, InfoDone, CloneCheck, Clone, CloneStamp, CloneDrop,
          Exec, Query, ClonePhases, ReadProvenance, ProvCheck, ProvUnlock, ProvConnect,
          ProvClose, ProvRelock, ProvPhases
      <4>2. ~(pc[m] \in {"seed", "seeding", "assert", "lock", "close", "cleanup", "migrating"})
            /\ ~ReadsReady(m)
        BY <1>2, <4>1 DEF ReadsReady, ClonePhases, ProvPhases
      <4>3. UsersOf("next") = {}
        BY <4>2, NoUsersIf DEF Upkeep, NextUsers, Fills
      <4> QED
        BY <1>1, <4>3 DEF Held
    <3> QED
      BY <3>1, <3>2
  <2>2. Locked("next")' => Whole("next")'
    BY <1>1 DEF Upkeep, NextIsReady, Held, Locked, Whole, Exists
  <2> QED
    BY <1>2, <2>1, <2>2, LooksRests, RestKeeps
<1>3. CASE pc'[m] = pc[m] /\ job'[m] = job[m]
  BY <1>1, <1>3, StandKeeps DEF Sole
<1> QED
  BY <1>2, <1>3

\* Facts about the maintainer that every one of its steps starts from.
LEMMA GoesTo ==
    ASSUME PcType, NEW c \in Clients, NEW p, Goto(c, p) PROVE pc'[c] = p
BY DEF Goto, PcType

LEMMA UserComes ==
    ASSUME NEW m, NEW k, conns' = conns \cup {<<m, k, "next">>}, NextUsers(m), k \in {"pool", "cmd"}
    PROVE  /\ UsersOf("next")' \subseteq {<<m, "pool", "next">>, <<m, "cmd", "next">>}
           /\ \A l : l # k => (Own(m, l, "next")' <=> Own(m, l, "next"))
BY DEF NextUsers, UsersOf, Own

LEMMA UserGoes ==
    ASSUME NEW m, NEW k, Disconnects(m, k, "next"), NextUsers(m)
    PROVE  /\ UsersOf("next")' \subseteq {<<m, "pool", "next">>, <<m, "cmd", "next">>}
           /\ \A l : Own(m, l, "next")' <=> (Own(m, l, "next") /\ l # k)
BY DEF NextUsers, UsersOf, Own, Disconnects

\* A refresh reads the version of the base.
LEMMA ReadsOldKeepsUpkeep ==
    ASSUME Types, NEW m \in Clients, Role(m, m), Upkeep(m), ReadProvenance(m), job[m].ret = "old"
    PROVE  Upkeep(m)'
<1>1. JobT /\ PcType
  BY TypesParts
<1>2. pc[m] \in ProvPhases /\ job[m].of = "base" /\ job[m].tgt = "next"
  BY <1>1, ProvFacts DEF Role
<1>3. /\ job'[m].ret = "old" /\ job'[m].of = "base" /\ job'[m].tgt = "next"
  BY <1>1, <1>2, ProvFacts
<1>4. pc'[m] \in ProvPhases \cup {"stamp", "cleanup"}
  <2>1. \A read, ver : Back(m, read, ver) \in {"stamp", "cleanup"}
    BY <1>2, BackIs
  <2>2. \A p : Goto(m, p) => pc'[m] = p
    BY <1>1, GoesTo
  <2> QED
    BY <2>1, <2>2, ZenonT(60) DEF ReadProvenance, ProvCheck, ProvUnlock, ProvConnect, ProvClose, ProvRelock,
      Exec, AfterRead, ProvPhases
<1>5. Held
  BY <1>2, ReadHolds
<1>6. UsersOf("next") = {}
  <2>1. ~Own(m, "cmd", "next") /\ ~Own(m, "pool", "next")
    BY <1>2 DEF Upkeep, NextUsers, ReadsReady, Fills, ProvPhases
  <2> QED
    BY <2>1, NoUsersIf DEF Upkeep
<1>7. ReadsOld(m) /\ Building(m) /\ ~Staged(m)' /\ ~ReadsReady(m)'
  BY <1>2, <1>3, <1>4 DEF ReadsOld, Building, Staged, ReadsReady, SwapPhases, ProvPhases
<1>8. Progress(m)'
  BY <1>3, <1>4, <1>5, <1>7 DEF Upkeep, Progress, Held, Fills, Exists, ProvPhases
<1>9. NextIsReady(m)'
  BY <1>5, <1>7 DEF Upkeep, NextIsReady, Held, Locked, Whole, Exists
<1>10. BaseStays(m)'
  BY <1>2, <1>4, <1>5, <1>7 DEF Upkeep, BaseStays, Held, ProvPhases
<1>11. NextUsers(m)'
  BY <1>5, <1>6 DEF NextUsers, Held, Own, UsersOf
<1> QED
  BY <1>8, <1>9, <1>10, <1>11 DEF Upkeep

\* A refresh looks whether base_next is a deferred swap.
LEMMA ReadsReadyKeepsUpkeep ==
    ASSUME Types, Connected, NEW m \in Clients, Role(m, m), Role(m, m)', Upkeep(m),
           ReadProvenance(m), job[m].ret = "ready"
    PROVE  Upkeep(m)'
<1>1. JobT /\ PcType /\ DbType
  BY TypesParts
<1>2. pc[m] \in ProvPhases /\ job[m].of = "next"
  BY <1>1, ProvFacts DEF Role
<1>3. job'[m].ret = "ready" /\ job'[m].of = "next"
  BY <1>1, <1>2, ProvFacts
<1>4. ReadsReady(m)
  BY <1>2 DEF ReadsReady
<1>5. Whole("next") /\ Exists("base") /\ (pc[m] = "prov" => Locked("next"))
  BY <1>4 DEF Upkeep, NextIsReady, BaseStays
<1>6. \A read, ver : Back(m, read, ver) \in {"swap_term", "err"}
  BY <1>2, BackIs
<1>7. \A ver : Back(m, FALSE, ver) = "err"
  BY DEF Back
<1>8. pc[m] # "prov" => job[m].locked
  BY <1>4 DEF Upkeep, NextIsReady
<1>9. Whole("next")' /\ Exists("base")'
  <2>1. CASE db' = db
    BY <1>5, <2>1 DEF Whole, Exists
  <2>2. ASSUME NEW open \in BOOLEAN, db' = WithOpen("next", open)
        PROVE  Whole("next")' /\ Exists("base")'
    <3>1. Exists("next")
      BY <1>5 DEF Whole
    <3>2. Others("next") /\ Exists("next")' /\ Content("next") /\ db'["next"].ver = db["next"].ver
      BY <1>1, <2>2, <3>1, OpenPut, DbNamesFacts
    <3> QED
      BY <1>5, <3>2, DbNamesFacts DEF Whole, Others, Content, Exists
  <2> QED
    BY <1>2, <2>1, <2>2 DEF ReadProvenance, ProvCheck, ProvUnlock, ProvConnect, ProvClose,
      ProvRelock, Exec
<1>10. \/ pc'[m] = "err"
       \/ pc'[m] \in {"prov_unlock", "prov_connect", "prov_close", "prov_relock"} /\ job'[m].locked
       \/ pc'[m] = "swap_term" /\ Locked("next")'
  <2>1. \A p : Goto(m, p) => pc'[m] = p
    BY <1>1, GoesTo
  <2>2. CASE ProvCheck(m)
    <3>1. Locked("next")
      BY <1>5, <2>2 DEF ProvCheck
    <3>2. \/ pc'[m] = Back(m, FALSE, 0)
          \/ job'[m].locked = Locked(job[m].of) /\ pc'[m] = "prov_unlock"
      BY <1>1, <1>2, <2>2, <3>1, ProvFacts
    <3> QED
      BY <1>2, <1>7, <3>1, <3>2
  <2>3. CASE ProvUnlock(m)
    <3>1. job' = job /\ pc'[m] \in {"prov_connect", "err"}
      BY <1>7, <2>1, <2>3 DEF ProvUnlock, Exec
    <3> QED
      BY <1>8, <2>3, <3>1 DEF ProvUnlock, Exec
  <2>4. CASE ProvConnect(m) \/ ProvClose(m)
    <3>1. ~ProvCheck(m) /\ job[m].locked
      BY <1>8, <2>4 DEF ProvConnect, ProvClose, ProvCheck
    <3>2. job'[m].locked
      BY <1>1, <3>1, ProvFacts
    <3>3. pc'[m] \in {"prov_close", "prov_relock"}
      BY <2>1, <2>4, <3>1 DEF ProvConnect, ProvClose, AfterRead
    <3> QED
      BY <3>2, <3>3
  <2>5. CASE ProvRelock(m)
    <3>1. \/ pc'[m] = "err"
          \/ Exists("next") /\ db' = WithOpen("next", FALSE) /\ pc'[m] \in {"swap_term", "err"}
      BY <1>2, <1>6, <1>7, <2>1, <2>5 DEF ProvRelock, Exec
    <3>2. Exists("next") /\ db' = WithOpen("next", FALSE) => Locked("next")'
      BY <1>1, DbNamesFacts, OpenPut DEF Locked
    <3> QED
      BY <3>1, <3>2
  <2> QED
    BY <2>2, <2>3, <2>4, <2>5 DEF ReadProvenance
<1>11. ~Own(m, "cmd", "next") /\ (Own(m, "pool", "next") => pc[m] = "prov_close")
  BY <1>2 DEF Upkeep, NextUsers, Fills, ProvPhases
<1>12. /\ UsersOf("next")' \subseteq {<<m, "pool", "next">>, <<m, "cmd", "next">>}
       /\ ~Own(m, "cmd", "next")' /\ (Own(m, "pool", "next")' => pc'[m] = "prov_close")
  <2>1. CASE conns' = conns /\ pc[m] # "prov_close"
    BY <1>11, <2>1 DEF Upkeep, NextUsers, UsersOf, Own
  <2>2. CASE conns' = conns \cup {<<m, "pool", "next">>} /\ pc'[m] = "prov_close"
    BY <1>11, <2>2, UserComes DEF Upkeep
  <2>3. CASE Disconnects(m, "pool", "next")
    BY <1>11, <2>3, UserGoes DEF Upkeep
  <2> QED
    BY <1>1, <1>2, <2>1, <2>2, <2>3, GoesTo DEF ReadProvenance, ProvCheck, ProvUnlock,
      ProvConnect, ProvClose, ProvRelock, Exec
<1>13. NextUsers(m)'
  BY <1>3, <1>12 DEF NextUsers, ReadsReady, ProvPhases
<1>14. CASE pc'[m] = "err"
  <2>1. UsersOf("next")' = {}
    BY <1>12, <1>14 DEF Own, UsersOf
  <2> QED
    BY <1>9, <1>14, <2>1, RestKeeps DEF Rests, RestPhases
<1>15. CASE pc'[m] # "err"
  <2>1. /\ ~Building(m)' /\ ~ReadsOld(m)' /\ pc'[m] \notin {"createdb", "prov", "swap_rename"}
        /\ \A phases : Fills(m, phases)' => pc'[m] \in phases
        /\ Staged(m)' => Locked("next")'
        /\ ReadsReady(m)' => job'[m].locked
    BY <1>3, <1>10, <1>15 DEF Building, ReadsOld, BuildPhases, Staged, SwapPhases, ReadsReady, Fills,
      ProvPhases
  <2>2. Progress(m)'
    BY <1>10, <1>15, <2>1 DEF Progress
  <2>3. NextIsReady(m)'
    BY <1>9, <2>1 DEF NextIsReady
  <2>4. BaseStays(m)'
    BY <1>9, <2>1 DEF BaseStays
  <2> QED
    BY <1>13, <2>2, <2>3, <2>4 DEF Upkeep
<1> QED
  BY <1>14, <1>15

-----------------------------------------------------------------------------

(***************************************************************************)
(* What the steps of a build do                                            *)
(***************************************************************************)

\* The record of d is the same but for schema, or rows, which are listed.
Stable(d) == Others(d) /\ Exists(d) /\ Exists(d)' /\ db'[d].id = db[d].id

LEMMA CreateDbDoes ==
    ASSUME Types, NEW c \in Clients, CreateDb(c), NEW d \in {"base", "next"}, job[c].tgt = d
    PROVE  /\ pc[c] = "createdb" /\ job' = job /\ conns' = conns
           /\ \/ pc'[c] = "err" /\ db' = db
              \/ /\ pc'[c] = "migrate" /\ ~Exists(d) /\ Others(d)
                 /\ Exists(d)' /\ db'[d].ver = 0 /\ db'[d].open
<1>1. JobT /\ PcType /\ DbType /\ serial + 1 \in Nat /\ d \in DbNames
  BY TypesParts, DbNamesFacts DEF Counts
<1>2. pc[c] = "createdb" /\ job' = job /\ conns' = conns
  BY DEF CreateDb
<1>3. CASE ~Exists(d) /\ db' = [db EXCEPT ![d] = NewDb(serial + 1)] /\ Goto(c, "migrate")
  BY <1>1, <1>2, <1>3, NewPut, GoesTo
<1>4. CASE Goto(c, "err") /\ db' = db
  BY <1>1, <1>2, <1>4, GoesTo
<1> QED
  BY <1>3, <1>4, Zenon DEF CreateDb

LEMMA BeginsDoes ==
    ASSUME Types, NEW c \in Clients, NEW phase, NEW kind \in {"schema", "rows"}, NEW next,
           NEW failed, Begins(c, phase, kind, next, failed),
           NEW d \in {"base", "next"}, job[c].tgt = d
    PROVE  \/ pc'[c] = failed /\ db' = db /\ conns' = conns
           \/ /\ pc'[c] = next /\ Stable(d) /\ conns' = conns \cup {<<c, "cmd", d>>}
              /\ job'[c].id = db[d].id /\ db'[d].ver = db[d].ver /\ db'[d].open = db[d].open
              /\ kind = "schema" => db'[d].rows = db[d].rows
              /\ kind = "rows" => db'[d].schema = db[d].schema
<1>1. JobT /\ PcType /\ DbType /\ d \in DbNames
  BY TypesParts, DbNamesFacts
<1>3. CASE /\ Reaches(c, "cmd", d) /\ conns' = conns \cup {<<c, "cmd", d>>}
           /\ db' = [db EXCEPT ![d][kind] = "part"]
           /\ job' = [job EXCEPT ![c].id = db[d].id]
           /\ Goto(c, next)
  <2>1. Exists(d) /\ (db[d].open \/ Own(c, "cmd", d))
    BY <1>3 DEF Reaches
  <2>2. job'[c].id = db[d].id /\ pc'[c] = next
    BY <1>1, <1>3, GoesTo DEF JobT, JobType
  <2>3. /\ Others(d) /\ Exists(d)'
        /\ db'[d].id = db[d].id /\ db'[d].ver = db[d].ver /\ db'[d].open = db[d].open
        /\ kind = "schema" => db'[d].rows = db[d].rows
        /\ kind = "rows" => db'[d].schema = db[d].schema
    <3>1. "part" \in Filled
      BY DEF Filled
    <3> QED
      BY <1>1, <1>3, <2>1, <3>1, FillPut
  <2> QED
    BY <1>3, <2>1, <2>2, <2>3 DEF Stable
<1>4. CASE Goto(c, failed) /\ UNCHANGED <<db, conns, job>>
  BY <1>1, <1>4, GoesTo
<1> QED
  BY <1>3, <1>4, Zenon DEF Begins

LEMMA FinishesDoes ==
    ASSUME Types, NEW c \in Clients, NEW phase, NEW kind \in {"schema", "rows"}, NEW next,
           NEW failed, Finishes(c, phase, kind, next, failed),
           NEW d \in {"base", "next"}, job[c].tgt = d
    PROVE  \/ pc'[c] = failed /\ db' = db
           \/ pc'[c] = phase /\ db' = db
           \/ /\ pc'[c] = next /\ Stable(d)
              /\ db'[d].ver = db[d].ver /\ db'[d].open = db[d].open
              /\ kind = "rows" => db'[d].schema = db[d].schema
              /\ db[d].id = job[c].id /\ kind = "schema" => db'[d].schema = "full"
              /\ db[d].id = job[c].id /\ kind = "rows" => db'[d].rows = "full"
<1>1. JobT /\ PcType /\ DbType /\ d \in DbNames
  BY TypesParts, DbNamesFacts
<1>2. pc[c] = phase /\ job' = job /\ Disconnects(c, "cmd", d)
  BY DEF Finishes
<1>3. PICK how : how = IF db[d].id = job[c].id THEN "full" ELSE "part"
  OBVIOUS
<1>4. CASE Reaches(c, "cmd", d) /\ db' = [db EXCEPT ![d][kind] = how] /\ Goto(c, next)
  <2>1. Exists(d) /\ pc'[c] = next /\ how \in Filled
    BY <1>1, <1>3, <1>4, GoesTo DEF Reaches, Filled
  <2>2. /\ Others(d) /\ Exists(d)'
        /\ db'[d].id = db[d].id /\ db'[d].ver = db[d].ver /\ db'[d].open = db[d].open
        /\ kind = "schema" => db'[d].schema = how /\ db'[d].rows = db[d].rows
        /\ kind = "rows" => db'[d].rows = how /\ db'[d].schema = db[d].schema
    BY <1>1, <1>4, <2>1, FillPut
  <2> QED
    BY <1>2, <1>3, <2>1, <2>2 DEF Stable
<1>5. CASE db' = db /\ (Goto(c, failed) \/ UNCHANGED pc)
  BY <1>1, <1>2, <1>5, GoesTo
<1> QED
  BY <1>3, <1>4, <1>5, Zenon DEF Finishes

LEMMA MigrateDoes ==
    ASSUME Types, NEW c \in Clients, Migrate(c), NEW d \in {"base", "next"}, job[c].tgt = d
    PROVE  /\ pc[c] = "migrate" /\ KeepsJob(c) /\ job'[c].tgt = d
           /\ \/ pc'[c] = "cleanup" /\ db' = db /\ conns' = conns
              \/ /\ pc'[c] = "migrating" /\ Stable(d) /\ conns' = conns \cup {<<c, "cmd", d>>}
                 /\ job'[c].id = db[d].id /\ db'[d].ver = db[d].ver /\ db'[d].open = db[d].open
<1>1. Begins(c, "migrate", "schema", "migrating", "cleanup")
  BY DEF Migrate
<1>2. "schema" \in {"schema", "rows"} /\ JobT /\ PcType
  BY TypesParts
<1>3. pc[c] = "migrate" /\ KeepsJob(c) /\ job'[c].tgt = d
  BY <1>1, <1>2, BeginsFacts
<1>4. \/ pc'[c] = "cleanup" /\ db' = db /\ conns' = conns
      \/ /\ pc'[c] = "migrating" /\ Stable(d) /\ conns' = conns \cup {<<c, "cmd", d>>}
         /\ job'[c].id = db[d].id /\ db'[d].ver = db[d].ver /\ db'[d].open = db[d].open
  BY <1>1, <1>2, BeginsDoes
<1> QED
  BY <1>3, <1>4

LEMMA MigratedDoes ==
    ASSUME Types, NEW c \in Clients, Migrated(c), NEW d \in {"base", "next"}, job[c].tgt = d
    PROVE  /\ pc[c] = "migrating" /\ job' = job /\ Disconnects(c, "cmd", d)
           /\ \/ pc'[c] \in {"migrating", "cleanup"} /\ db' = db
              \/ /\ pc'[c] = IF d = "next" THEN "old" ELSE "stamp"
                 /\ Stable(d) /\ db'[d].ver = db[d].ver /\ db'[d].open = db[d].open
                 /\ db[d].id = job[c].id => db'[d].schema = "full"
<1>1. PICK next, failed : next = (IF d = "next" THEN "old" ELSE "stamp") /\ failed = "cleanup"
  OBVIOUS
<1>2. Finishes(c, "migrating", "schema", next, failed)
  BY <1>1 DEF Migrated, Staging
<1>3. \/ pc'[c] = failed /\ db' = db
      \/ pc'[c] = "migrating" /\ db' = db
      \/ /\ pc'[c] = next /\ Stable(d)
         /\ db'[d].ver = db[d].ver /\ db'[d].open = db[d].open
         /\ db[d].id = job[c].id => db'[d].schema = "full"
  <2>1. \A kind : kind = "schema" => kind \in {"schema", "rows"}
    OBVIOUS
  <2> QED
    BY <1>2, <2>1, FinishesDoes, SMTT(30)
<1>4. pc[c] = "migrating" /\ job' = job /\ Disconnects(c, "cmd", d)
  BY DEF Migrated, Finishes
<1> QED
  BY <1>1, <1>3, <1>4

LEMMA SeedBeginDoes ==
    ASSUME Types, NEW c \in Clients, SeedBegin(c), NEW d \in {"base", "next"}, job[c].tgt = d
    PROVE  /\ pc[c] = "seed" /\ KeepsJob(c) /\ job'[c].tgt = d
           /\ \/ pc'[c] = FailedSeed(c) /\ db' = db /\ conns' = conns
              \/ /\ pc'[c] = "seeding" /\ Stable(d) /\ conns' = conns \cup {<<c, "cmd", d>>}
                 /\ job'[c].id = db[d].id /\ db'[d].ver = db[d].ver /\ db'[d].open = db[d].open
                 /\ db'[d].schema = db[d].schema
<1>0. PICK failed : failed = FailedSeed(c)
  OBVIOUS
<1>1. Begins(c, "seed", "rows", "seeding", failed)
  BY <1>0 DEF SeedBegin
<1>2. "rows" \in {"schema", "rows"} /\ JobT /\ PcType
  BY TypesParts
<1>3. pc[c] = "seed" /\ KeepsJob(c) /\ job'[c].tgt = d
  BY <1>1, <1>2, BeginsFacts
<1>4. \/ pc'[c] = failed /\ db' = db /\ conns' = conns
      \/ /\ pc'[c] = "seeding" /\ Stable(d) /\ conns' = conns \cup {<<c, "cmd", d>>}
         /\ job'[c].id = db[d].id /\ db'[d].ver = db[d].ver /\ db'[d].open = db[d].open
         /\ db'[d].schema = db[d].schema
  BY <1>1, <1>2, BeginsDoes
<1> QED
  BY <1>0, <1>3, <1>4

LEMMA SeedEndDoes ==
    ASSUME Types, NEW c \in Clients, SeedEnd(c), NEW d \in {"base", "next"}, job[c].tgt = d
    PROVE  /\ pc[c] = "seeding" /\ job' = job /\ Disconnects(c, "cmd", d)
           /\ \/ pc'[c] \in {"seeding", FailedSeed(c)} /\ db' = db
              \/ /\ pc'[c] = AfterSeed(c)
                 /\ Stable(d) /\ db'[d].ver = db[d].ver /\ db'[d].open = db[d].open
                 /\ db'[d].schema = db[d].schema
                 /\ db[d].id = job[c].id => db'[d].rows = "full"
<1>0. PICK next, failed : next = AfterSeed(c) /\ failed = FailedSeed(c)
  OBVIOUS
<1>1. Finishes(c, "seeding", "rows", next, failed)
  BY <1>0 DEF SeedEnd
<1>2. "rows" \in {"schema", "rows"}
  OBVIOUS
<1>3. \/ pc'[c] = failed /\ db' = db
      \/ pc'[c] = "seeding" /\ db' = db
      \/ /\ pc'[c] = next
         /\ Stable(d) /\ db'[d].ver = db[d].ver /\ db'[d].open = db[d].open
         /\ db'[d].schema = db[d].schema
         /\ db[d].id = job[c].id => db'[d].rows = "full"
  BY <1>1, <1>2, FinishesDoes
<1>4. pc[c] = "seeding" /\ job' = job /\ Disconnects(c, "cmd", d)
  BY DEF SeedEnd, Finishes
<1> QED
  BY <1>0, <1>3, <1>4

LEMMA StampDoes ==
    ASSUME Types, NEW c \in Clients, Stamp(c), NEW d \in {"base", "next"}, job[c].tgt = d
    PROVE  /\ pc[c] = "stamp" /\ job' = job
           /\ \/ pc'[c] = "cleanup" /\ db' = db /\ conns' = conns
              \/ /\ Stable(d) /\ Content(d) /\ db'[d].open = db[d].open
                 /\ IF d = "next" THEN /\ pc'[c] = "seed" /\ db'[d].ver = job[c].ver + 1
                                       /\ conns' = conns \cup {<<c, "pool", d>>}
                                  ELSE pc'[c] = "lock" /\ conns' = conns
<1>1. JobT /\ PcType /\ DbType /\ d \in DbNames
  BY TypesParts, DbNamesFacts
<1>2. pc[c] = "stamp" /\ job' = job /\ (Staging(c) <=> d = "next")
  BY DEF Stamp, Staging
<1>3. PICK ver : ver = IF d = "next" THEN job[c].ver + 1 ELSE 1
  OBVIOUS
<1>4. ver \in Nat
  BY <1>1, <1>3, NamesFacts
<1>5. CASE /\ Reaches(c, "pool", d) /\ db' = [db EXCEPT ![d].ver = ver]
           /\ conns' = (IF Staging(c) THEN conns \cup {<<c, "pool", d>>} ELSE conns)
           /\ Goto(c, IF Staging(c) THEN "seed" ELSE "lock")
  <2>1. Exists(d)
    BY <1>5 DEF Reaches
  <2>2. /\ Others(d) /\ Exists(d)' /\ Content(d) /\ db'[d].id = db[d].id
        /\ db'[d].ver = ver /\ db'[d].open = db[d].open
    BY <1>1, <1>4, <1>5, <2>1, StampPut
  <2>3. pc'[c] = IF d = "next" THEN "seed" ELSE "lock"
    BY <1>1, <1>2, <1>5, GoesTo
  <2> QED
    BY <1>2, <1>3, <1>5, <2>1, <2>2, <2>3 DEF Stable
<1>6. CASE Goto(c, "cleanup") /\ UNCHANGED <<db, conns>>
  BY <1>1, <1>2, <1>6, GoesTo
<1>7. \/ /\ Reaches(c, "pool", d)
         /\ db' = [db EXCEPT ![d].ver = IF Staging(c) THEN job[c].ver + 1 ELSE 1]
         /\ conns' = IF Staging(c) THEN conns \cup {<<c, "pool", d>>} ELSE conns
         /\ Goto(c, IF Staging(c) THEN "seed" ELSE "lock")
      \/ Goto(c, "cleanup") /\ UNCHANGED <<db, conns>>
  BY Zenon DEF Stamp
<1>8. ver = IF Staging(c) THEN job[c].ver + 1 ELSE 1
  BY <1>2, <1>3
<1> QED
  BY <1>5, <1>6, <1>7, <1>8

LEMMA LockDoes ==
    ASSUME Types, NEW c \in Clients, Lock(c), NEW d \in {"base", "next"}, job[c].tgt = d
    PROVE  /\ pc[c] = "lock" /\ job' = job /\ conns' = conns
           /\ \/ pc'[c] = "cleanup" /\ db' = db
              \/ /\ Stable(d) /\ Content(d) /\ db'[d].ver = db[d].ver /\ db'[d].open = FALSE
                 /\ pc'[c] = IF d = "next" THEN "close" ELSE "ok"
<1>1. JobT /\ PcType /\ DbType /\ d \in DbNames
  BY TypesParts, DbNamesFacts
<1>2. pc[c] = "lock" /\ job' = job /\ conns' = conns /\ (Staging(c) <=> d = "next")
  BY DEF Lock, Exec, Staging
<1>3. CASE Exists(d) /\ db' = WithOpen(d, FALSE) /\ Goto(c, IF Staging(c) THEN "close" ELSE "ok")
  <2>1. pc'[c] = IF d = "next" THEN "close" ELSE "ok"
    BY <1>1, <1>2, <1>3, GoesTo
  <2>2. /\ Others(d) /\ Exists(d)' /\ Content(d)
        /\ db'[d].id = db[d].id /\ db'[d].ver = db[d].ver /\ db'[d].open = FALSE
    BY <1>1, <1>3, OpenPut
  <2> QED
    BY <1>2, <1>3, <2>1, <2>2 DEF Stable
<1>4. CASE Goto(c, "cleanup") /\ db' = db
  BY <1>1, <1>2, <1>4, GoesTo
<1> QED
  BY <1>3, <1>4 DEF Lock, Exec

-----------------------------------------------------------------------------

(***************************************************************************)
(* The maintainer's steps keep what Upkeep says                            *)
(***************************************************************************)

\* The command of m has nothing to do with base_next.
Away(m) == Rests(m) \/ (pc[m] \in BuildPhases /\ job[m].tgt = "base")

LEMMA AwayAlone ==
    ASSUME NEW m, Role(m, m), Upkeep(m), Away(m)
    PROVE  UsersOf("next") = {}
<1>1. ~Fills(m, {"migrating", "seeding"})
  BY DEF Away, Rests, RestPhases, Fills, Role, ProvPhases, ClonePhases, BuildPhases
<1>2. ~Fills(m, {"seed", "seeding", "assert", "lock", "close", "cleanup"})
  BY DEF Away, Rests, RestPhases, Fills, Role, ProvPhases, ClonePhases, BuildPhases
<1>3. ~(pc[m] = "prov_close" /\ ReadsReady(m))
  BY DEF Away, Rests, RestPhases, ReadsReady, ProvPhases, ClonePhases, BuildPhases
<1> QED
  BY <1>1, <1>2, <1>3, NoUsersIf DEF Upkeep, NextUsers

LEMMA AwayKeeps ==
    ASSUME NEW m, Role(m, m)', Away(m)', Locked("next")' => Whole("next")',
           UsersOf("next")' = {}, pc'[m] = "createdb" => ~Exists("base")'
    PROVE  Upkeep(m)'
<1>1. CASE Rests(m)'
  BY <1>1, RestKeeps
<1>2. CASE pc'[m] \in BuildPhases /\ job'[m].tgt = "base"
  <2>1. ~Staged(m)' /\ ~ReadsReady(m)' /\ ~ReadsOld(m)' /\ pc'[m] # "swap_rename"
        /\ pc'[m] \notin {"refresh_next", "ready"} \cup SwapPhases \cup {"close", "deferred"}
        /\ \A phases : ~Fills(m, phases)'
    BY <1>2 DEF Staged, ReadsReady, ReadsOld, ProvPhases, SwapPhases, BuildPhases, Fills
  <2>2. Progress(m)'
    BY <1>2, <2>1 DEF Progress
  <2>3. NextIsReady(m)'
    BY <2>1 DEF NextIsReady
  <2>4. BaseStays(m)'
    BY <1>2, <2>1 DEF BaseStays, SwapPhases
  <2>5. NextUsers(m)'
    BY DEF NextUsers, Own, UsersOf
  <2> QED
    BY <2>2, <2>3, <2>4, <2>5 DEF Upkeep
<1> QED
  BY <1>1, <1>2 DEF Away

\* A step of such a command that leaves base_next alone.
LEMMA AwayStep ==
    ASSUME NEW m, Role(m, m), Upkeep(m), Away(m), Role(m, m)', Away(m)',
           db'["next"] = db["next"], UsersOf("next")' \subseteq UsersOf("next"),
           pc'[m] = "createdb" => ~Exists("base")'
    PROVE  Upkeep(m)'
<1>1. UsersOf("next")' = {}
  BY AwayAlone
<1>2. Locked("next")' => Whole("next")'
  BY DEF Upkeep, NextIsReady, Locked, Whole, Exists
<1> QED
  BY <1>1, <1>2, AwayKeeps

LEMMA NotNext ==
    ASSUME NEW c, NEW k, conns' = conns \cup {<<c, k, "base">>} \/ Disconnects(c, k, "base")
                         \/ conns' = conns \/ Terminate("base")
    PROVE  UsersOf("next")' \subseteq UsersOf("next")
BY DEF UsersOf, Disconnects, Terminate

LEMMA BuildsBaseKeepsUpkeep ==
    ASSUME Types, NEW m \in Clients, Role(m, m), Role(m, m)', Upkeep(m), Build(m),
           job[m].tgt = "base" \/ Create(m)
    PROVE  Upkeep(m)'
<1>1. JobT /\ PcType /\ DbType /\ "next" \in DbNames \ {"base"}
  BY TypesParts, DbNamesFacts
<1>2. \A p : Goto(m, p) => pc'[m] = p
  BY <1>1, GoesTo
<1>3. CASE Create(m)
  <2>0. pc[m] = "create" /\ db' = db /\ conns' = conns /\ job' = [job EXCEPT ![m].tgt = "base"]
    BY <1>3 DEF Create, Query
  <2>1. Away(m) /\ job'[m].tgt = "base"
    BY <1>1, <2>0 DEF Away, Rests, RestPhases, JobT, JobType
  <2>2. \/ pc'[m] \in {"ok", "err"}
        \/ pc'[m] = "createdb" /\ ~Exists("base")
    BY <1>2, <1>3 DEF Create, Query
  <2>3. Away(m)' /\ (pc'[m] = "createdb" => ~Exists("base")')
    BY <2>0, <2>1, <2>2 DEF Away, Rests, RestPhases, BuildPhases, Exists
  <2> QED
    BY <2>0, <2>1, <2>3, NotNext, AwayStep
<1>4. CASE ~Create(m)
  <2>0. job[m].tgt = "base"
    BY <1>4
  <2>1. CASE CreateDb(m)
    <3>1. pc[m] = "createdb" /\ pc'[m] \in {"migrate", "err"} /\ job' = job /\ conns' = conns
          /\ db'["next"] = db["next"]
      BY <1>1, <2>0, <2>1, CreateDbDoes DEF Others
    <3>2. Away(m) /\ Away(m)'
      BY <2>0, <3>1 DEF Away, Rests, RestPhases, BuildPhases
    <3> QED
      BY <3>1, <3>2, NotNext, AwayStep
  <2>2. CASE Migrate(m)
    <3>1. pc[m] = "migrate" /\ pc'[m] \in {"migrating", "cleanup"} /\ job'[m].tgt = "base"
          /\ db'["next"] = db["next"]
          /\ (conns' = conns \/ conns' = conns \cup {<<m, "cmd", "base">>})
      BY <1>1, <2>0, <2>2, MigrateDoes DEF Others, Stable
    <3>2. Away(m) /\ Away(m)'
      BY <2>0, <3>1 DEF Away, BuildPhases
    <3> QED
      BY <3>1, <3>2, NotNext, AwayStep
  <2>3. CASE Migrated(m)
    <3>1. pc[m] = "migrating" /\ pc'[m] \in {"stamp", "migrating", "cleanup"} /\ job' = job
          /\ db'["next"] = db["next"] /\ Disconnects(m, "cmd", "base")
      BY <1>1, <2>0, <2>3, MigratedDoes DEF Others, Stable
    <3>2. Away(m) /\ Away(m)'
      BY <2>0, <3>1 DEF Away, BuildPhases
    <3> QED
      BY <3>1, <3>2, NotNext, AwayStep
  <2>4. CASE Stamp(m)
    <3>1. pc[m] = "stamp" /\ pc'[m] \in {"lock", "cleanup"} /\ job' = job
          /\ db'["next"] = db["next"] /\ conns' = conns
      BY <1>1, <2>0, <2>4, StampDoes DEF Others, Stable
    <3>2. Away(m) /\ Away(m)'
      BY <2>0, <3>1 DEF Away, BuildPhases
    <3> QED
      BY <3>1, <3>2, NotNext, AwayStep
  <2>5. CASE Lock(m)
    <3>1. pc[m] = "lock" /\ pc'[m] \in {"ok", "cleanup"} /\ job' = job
          /\ db'["next"] = db["next"] /\ conns' = conns
      BY <1>1, <2>0, <2>5, LockDoes DEF Others, Stable
    <3>2. Away(m) /\ Away(m)'
      BY <2>0, <3>1 DEF Away, Rests, RestPhases, BuildPhases
    <3> QED
      BY <3>1, <3>2, NotNext, AwayStep
  <2>6. CASE Cleanup(m)
    <3>1. pc[m] = "cleanup" /\ pc'[m] \in {"drop", "err"} /\ job' = job /\ db' = db
          /\ (Terminate("base") \/ Disconnects(m, "pool", "base"))
      BY <1>2, <2>0, <2>6 DEF Cleanup
    <3>2. Away(m) /\ Away(m)'
      BY <2>0, <3>1 DEF Away, Rests, RestPhases, BuildPhases
    <3> QED
      BY <3>1, <3>2, NotNext, AwayStep
  <2>7. CASE Drop(m)
    <3>1. pc[m] = "drop" /\ pc'[m] = "err" /\ job' = job /\ conns' = conns
          /\ db'["next"] = db["next"]
      BY <1>1, <1>2, <2>0, <2>7, DropPut, DbNamesFacts DEF Drop, Exec, Others
    <3>2. Away(m) /\ Away(m)'
      BY <2>0, <3>1 DEF Away, Rests, RestPhases, BuildPhases
    <3> QED
      BY <3>1, <3>2, NotNext, AwayStep
  <2>8. ~(ReadOld(m) \/ AssertSeeded(m) \/ Close(m))
    BY <2>0 DEF ReadOld, AssertSeeded, Close, Exec, Role
  <2> QED
    BY <1>4, <2>1, <2>2, <2>3, <2>4, <2>5, <2>6, <2>7, <2>8 DEF Build
<1> QED
  BY <1>3, <1>4

\* A step to another phase of building base_next.
LEMMA FillStep ==
    ASSUME NEW m, job'[m].tgt = "next",
           pc'[m] \in {"migrate", "migrating", "old", "stamp", "seed", "seeding", "assert",
                       "lock", "cleanup", "drop"},
           Exists("base")', Locked("next")' => Whole("next")', Progress(m)', NextUsers(m)'
    PROVE  Upkeep(m)'
<1>1. ~Staged(m)' /\ ~ReadsReady(m)' /\ pc'[m] # "swap_rename"
  BY DEF Staged, ReadsReady, ProvPhases, SwapPhases
<1>2. NextIsReady(m)'
  BY <1>1 DEF NextIsReady
<1>3. BaseStays(m)'
  BY <1>1 DEF BaseStays
<1> QED
  BY <1>2, <1>3 DEF Upkeep

\* It is given up.
LEMMA GivesUp ==
    ASSUME NEW m, job'[m].tgt = "next", pc'[m] \in {"cleanup", "drop"}, Exists("base"),
           db' = db, Locked("next") => Whole("next"), ~Own(m, "cmd", "next")',
           UsersOf("next")' \subseteq {<<m, "pool", "next">>, <<m, "cmd", "next">>},
           pc'[m] = "cleanup" \/ ~Own(m, "pool", "next")'
    PROVE  Upkeep(m)'
<1>1. Progress(m)'
  BY DEF Progress, Fills, ReadsOld, ProvPhases
<1>2. NextUsers(m)'
  BY DEF NextUsers, Fills
<1>3. Exists("base")' /\ (Locked("next")' => Whole("next")')
  BY DEF Exists, Locked, Whole
<1> QED
  BY <1>1, <1>2, <1>3, FillStep

\* How far the build is, said for one phase.
LEMMA ProgressIs ==
    ASSUME NEW m, job[m].tgt = "next", Progress(m)
    PROVE  /\ pc[m] \in {"migrate", "migrating", "old", "stamp", "seed", "seeding", "assert", "lock"}
                 => Exists("next") /\ db["next"].open
           /\ pc[m] \in {"migrating", "seeding"} => db["next"].id = job[m].id
           /\ pc[m] \in {"old", "stamp", "seed", "seeding", "assert", "lock"} =>
                 db["next"].schema = "full"
           /\ pc[m] \in {"seed", "seeding", "assert", "lock"} => db["next"].ver # 0
           /\ pc[m] \in {"assert", "lock"} => db["next"].rows = "full"
BY DEF Progress, Fills

LEMMA ProgressIf ==
    ASSUME NEW m, job'[m].tgt = "next",
           pc'[m] \in {"migrate", "migrating", "old", "stamp", "seed", "seeding", "assert", "lock"},
           Exists("next")' /\ db'["next"].open,
           pc'[m] \in {"migrating", "seeding"} => db'["next"].id = job'[m].id,
           pc'[m] \in {"old", "stamp", "seed", "seeding", "assert", "lock"} =>
              db'["next"].schema = "full",
           pc'[m] \in {"seed", "seeding", "assert", "lock"} => db'["next"].ver # 0,
           pc'[m] \in {"assert", "lock"} => db'["next"].rows = "full"
    PROVE  Progress(m)' /\ (Locked("next")' => Whole("next")')
<1>1. Locked("next")' => Whole("next")'
  BY DEF Locked
<1>2. ~ReadsOld(m)' /\ pc'[m] # "createdb"
  BY DEF ReadsOld, ProvPhases
<1> QED
  BY <1>1, <1>2 DEF Progress, Fills

LEMMA StillThere ==
    ASSUME Exists("base"), Others("next") \/ db' = db PROVE Exists("base")'
BY DbNamesFacts DEF Others, Exists

LEMMA MakesNextKeepsUpkeep ==
    ASSUME Types, NEW m \in Clients, Role(m, m), Role(m, m)', Upkeep(m), job[m].tgt = "next",
           CreateDb(m) \/ Migrate(m) \/ Migrated(m) \/ Drop(m)
    PROVE  Upkeep(m)'
<1>1. JobT /\ PcType /\ DbType /\ "next" \in DbNames /\ Progress(m) /\ NextUsers(m)
  BY TypesParts, DbNamesFacts DEF Upkeep
<1>2. \A p : Goto(m, p) => pc'[m] = p
  BY <1>1, GoesTo
<1>3. pc[m] \in {"createdb", "migrate", "migrating", "drop"}
  BY DEF CreateDb, Migrate, Migrated, Begins, Finishes, Drop, Exec
<1>4. Exists("base") /\ (Locked("next") => Whole("next"))
  BY <1>3 DEF Upkeep, BaseStays, NextIsReady, Building, BuildPhases
<1>5. pc[m] # "migrating" => UsersOf("next") = {}
  BY <1>1, <1>3, NoUsersIf DEF NextUsers, Fills, ReadsReady, ProvPhases
<1>6. CASE CreateDb(m)
  <2>1. pc[m] = "createdb" /\ job' = job /\ conns' = conns
        /\ \/ pc'[m] = "err" /\ db' = db
           \/ pc'[m] = "migrate" /\ Others("next") /\ Exists("next")' /\ db'["next"].open
    BY <1>6, CreateDbDoes
  <2>2. UsersOf("next")' = {}
    BY <1>5, <2>1, FewerUsers
  <2>3. CASE pc'[m] = "err" /\ db' = db
    BY <1>4, <2>2, <2>3, RestKeeps DEF Rests, RestPhases, Locked, Whole, Exists
  <2>4. CASE pc'[m] = "migrate" /\ Others("next") /\ Exists("next")' /\ db'["next"].open
    <3>1. NextUsers(m)'
      BY <2>2 DEF NextUsers, UsersOf, Own
    <3>2. Progress(m)' /\ (Locked("next")' => Whole("next")') /\ Exists("base")'
      BY <1>4, <2>1, <2>4, ProgressIf, StillThere
    <3> QED
      BY <2>1, <2>4, <3>1, <3>2, FillStep
  <2> QED
    BY <2>1, <2>3, <2>4
<1>7. CASE Migrate(m)
  <2>1. pc[m] = "migrate" /\ job'[m].tgt = "next"
        /\ \/ pc'[m] = "cleanup" /\ db' = db /\ conns' = conns
           \/ /\ pc'[m] = "migrating" /\ Stable("next") /\ conns' = conns \cup {<<m, "cmd", "next">>}
              /\ job'[m].id = db["next"].id /\ db'["next"].open = db["next"].open
    BY <1>7, MigrateDoes
  <2>2. CASE pc'[m] = "cleanup" /\ db' = db /\ conns' = conns
    <3>1. UsersOf("next")' = {}
      BY <1>5, <2>1, <2>2, FewerUsers
    <3>2. ~Own(m, "cmd", "next")'
      BY <3>1 DEF UsersOf, Own
    <3> QED
      BY <1>4, <2>1, <2>2, <3>1, <3>2, GivesUp
  <2>3. CASE pc'[m] = "migrating" /\ Stable("next") /\ conns' = conns \cup {<<m, "cmd", "next">>}
             /\ job'[m].id = db["next"].id /\ db'["next"].open = db["next"].open
    <3>1. UsersOf("next")' \subseteq {<<m, "pool", "next">>, <<m, "cmd", "next">>}
          /\ ~Own(m, "pool", "next")'
      BY <1>1, <1>5, <2>1, <2>3, UserComes DEF UsersOf, Own
    <3>2. NextUsers(m)'
      BY <2>1, <2>3, <3>1 DEF NextUsers, Fills
    <3>3. Exists("next") /\ db["next"].open
      BY <1>1, <2>1, ProgressIs
    <3>4. Exists("next")' /\ db'["next"].open /\ db'["next"].id = job'[m].id
      BY <2>3, <3>3 DEF Stable
    <3>5. Progress(m)' /\ (Locked("next")' => Whole("next")')
      BY <2>1, <2>3, <3>4, ProgressIf
    <3>6. Exists("base")'
      BY <1>4, <2>3, StillThere DEF Stable
    <3> QED
      BY <2>1, <2>3, <3>2, <3>5, <3>6, FillStep
  <2> QED
    BY <2>1, <2>2, <2>3
<1>8. CASE Migrated(m)
  <2>1. pc[m] = "migrating" /\ job' = job /\ Disconnects(m, "cmd", "next")
        /\ \/ pc'[m] \in {"migrating", "cleanup"} /\ db' = db
           \/ /\ pc'[m] = "old" /\ Stable("next") /\ db'["next"].open = db["next"].open
              /\ db["next"].id = job[m].id => db'["next"].schema = "full"
    BY <1>8, MigratedDoes
  <2>2. UsersOf("next")' \subseteq {<<m, "pool", "next">>, <<m, "cmd", "next">>}
        /\ ~Own(m, "cmd", "next")' /\ ~Own(m, "pool", "next")'
    <3>1. ~Own(m, "pool", "next")
      BY <1>1, <2>1 DEF NextUsers, Fills, ReadsReady
    <3> QED
      BY <1>1, <2>1, <3>1, UserGoes
  <2>3. NextUsers(m)'
    BY <2>2 DEF NextUsers
  <2>4. Exists("next") /\ db["next"].open /\ db["next"].id = job[m].id
    BY <1>1, <2>1, ProgressIs
  <2>5. CASE pc'[m] = "cleanup" /\ db' = db
    BY <1>4, <2>1, <2>2, <2>5, GivesUp
  <2>6. CASE pc'[m] = "migrating" /\ db' = db
    <3>1. Exists("next")' /\ db'["next"].open /\ db'["next"].id = job'[m].id
      BY <2>1, <2>4, <2>6 DEF Exists
    <3>2. Progress(m)' /\ (Locked("next")' => Whole("next")')
      BY <2>1, <2>6, <3>1, ProgressIf
    <3>3. Exists("base")'
      BY <1>4, <2>6, StillThere
    <3> QED
      BY <2>1, <2>3, <2>6, <3>2, <3>3, FillStep
  <2>7. CASE pc'[m] = "old" /\ Stable("next") /\ db'["next"].open = db["next"].open
             /\ db'["next"].schema = "full"
    <3>1. Exists("next")' /\ db'["next"].open
      BY <2>4, <2>7 DEF Stable
    <3>2. Progress(m)' /\ (Locked("next")' => Whole("next")')
      BY <2>1, <2>7, <3>1, ProgressIf
    <3>3. Exists("base")'
      BY <1>4, <2>7, StillThere DEF Stable
    <3> QED
      BY <2>1, <2>3, <2>7, <3>2, <3>3, FillStep
  <2> QED
    BY <2>1, <2>4, <2>5, <2>6, <2>7
<1>9. CASE Drop(m)
  <2>1. pc[m] = "drop" /\ pc'[m] = "err" /\ job' = job /\ conns' = conns
        /\ (db' = db \/ ~Exists("next")')
    BY <1>1, <1>2, <1>9, DropPut DEF Drop, Exec
  <2>2. UsersOf("next")' = {}
    BY <1>5, <2>1, FewerUsers
  <2>3. Locked("next")' => Whole("next")'
    BY <1>4, <2>1 DEF Locked, Whole, Exists
  <2> QED
    BY <2>1, <2>2, <2>3, RestKeeps DEF Rests, RestPhases
<1> QED
  BY <1>6, <1>7, <1>8, <1>9

LEMMA FillsNextKeepsUpkeep ==
    ASSUME Types, NEW m \in Clients, Role(m, m), Role(m, m)', Upkeep(m), job[m].tgt = "next",
           Stamp(m) \/ SeedBegin(m) \/ SeedEnd(m) \/ AssertSeeded(m), job[m].op # "seed"
    PROVE  Upkeep(m)'
<1>1. JobT /\ PcType /\ DbType /\ "next" \in DbNames /\ Progress(m) /\ NextUsers(m)
  BY TypesParts, DbNamesFacts DEF Upkeep
<1>2. \A p : Goto(m, p) => pc'[m] = p
  BY <1>1, GoesTo
<1>3. pc[m] \in {"stamp", "seed", "seeding", "assert"}
  BY DEF Stamp, SeedBegin, SeedEnd, Begins, Finishes, AssertSeeded, Exec
<1>4. Exists("base") /\ (Locked("next") => Whole("next"))
  BY <1>3 DEF Upkeep, BaseStays, NextIsReady, Building, BuildPhases
<1>5. /\ Exists("next") /\ db["next"].open /\ db["next"].schema = "full"
      /\ pc[m] = "seeding" => db["next"].id = job[m].id
      /\ pc[m] # "stamp" => db["next"].ver # 0
      /\ pc[m] = "assert" => db["next"].rows = "full"
  BY <1>1, <1>3, ProgressIs
<1>6. /\ pc[m] # "seeding" => ~Own(m, "cmd", "next")
      /\ pc[m] = "stamp" => ~Own(m, "pool", "next")
      /\ UsersOf("next") \subseteq {<<m, "pool", "next">>, <<m, "cmd", "next">>}
  BY <1>1, <1>3 DEF NextUsers, Fills, ReadsReady
<1>7. FailedSeed(m) = "cleanup" /\ AfterSeed(m) = "assert"
  BY DEF FailedSeed, AfterSeed
<1>8. CASE Stamp(m)
  <2>1. /\ pc[m] = "stamp" /\ job' = job
        /\ \/ pc'[m] = "cleanup" /\ db' = db /\ conns' = conns
           \/ /\ Stable("next") /\ Content("next") /\ db'["next"].open = db["next"].open
              /\ pc'[m] = "seed" /\ db'["next"].ver = job[m].ver + 1
              /\ conns' = conns \cup {<<m, "pool", "next">>}
    BY <1>8, StampDoes
  <2>2. CASE pc'[m] = "cleanup" /\ db' = db /\ conns' = conns
    <3>1. UsersOf("next")' \subseteq {<<m, "pool", "next">>, <<m, "cmd", "next">>}
          /\ ~Own(m, "cmd", "next")'
      BY <1>6, <2>1, <2>2 DEF UsersOf, Own
    <3> QED
      BY <1>4, <2>1, <2>2, <3>1, GivesUp
  <2>3. CASE /\ Stable("next") /\ Content("next") /\ db'["next"].open = db["next"].open
             /\ pc'[m] = "seed" /\ db'["next"].ver = job[m].ver + 1
             /\ conns' = conns \cup {<<m, "pool", "next">>}
    <3>1. UsersOf("next")' \subseteq {<<m, "pool", "next">>, <<m, "cmd", "next">>}
          /\ ~Own(m, "cmd", "next")'
      BY <1>1, <1>6, <2>1, <2>3, UserComes
    <3>2. NextUsers(m)'
      BY <2>1, <2>3, <3>1 DEF NextUsers, Fills
    <3>3. db'["next"].ver # 0
      BY <1>1, <2>3, NamesFacts
    <3>4. Exists("next")' /\ db'["next"].open /\ db'["next"].schema = "full"
      BY <1>5, <2>3 DEF Stable, Content
    <3>5. Progress(m)' /\ (Locked("next")' => Whole("next")')
      BY <2>1, <2>3, <3>3, <3>4, ProgressIf
    <3>6. Exists("base")'
      BY <1>4, <2>3, StillThere DEF Stable
    <3> QED
      BY <2>1, <2>3, <3>2, <3>5, <3>6, FillStep
  <2> QED
    BY <2>1, <2>2, <2>3
<1>9. CASE SeedBegin(m)
  <2>1. /\ pc[m] = "seed" /\ job'[m].tgt = "next"
        /\ \/ pc'[m] = "cleanup" /\ db' = db /\ conns' = conns
           \/ /\ pc'[m] = "seeding" /\ Stable("next") /\ conns' = conns \cup {<<m, "cmd", "next">>}
              /\ job'[m].id = db["next"].id /\ db'["next"].ver = db["next"].ver
              /\ db'["next"].open = db["next"].open /\ db'["next"].schema = db["next"].schema
    BY <1>7, <1>9, SeedBeginDoes
  <2>2. CASE pc'[m] = "cleanup" /\ db' = db /\ conns' = conns
    <3>1. UsersOf("next")' \subseteq {<<m, "pool", "next">>, <<m, "cmd", "next">>}
          /\ ~Own(m, "cmd", "next")'
      BY <1>6, <2>1, <2>2 DEF UsersOf, Own
    <3> QED
      BY <1>4, <2>1, <2>2, <3>1, GivesUp
  <2>3. CASE /\ pc'[m] = "seeding" /\ Stable("next") /\ conns' = conns \cup {<<m, "cmd", "next">>}
             /\ job'[m].id = db["next"].id /\ db'["next"].ver = db["next"].ver
             /\ db'["next"].open = db["next"].open /\ db'["next"].schema = db["next"].schema
    <3>1. UsersOf("next")' \subseteq {<<m, "pool", "next">>, <<m, "cmd", "next">>}
      BY <1>1, <2>3, UserComes
    <3>2. NextUsers(m)'
      BY <2>1, <2>3, <3>1 DEF NextUsers, Fills
    <3>3. /\ Exists("next")' /\ db'["next"].open /\ db'["next"].schema = "full"
          /\ db'["next"].ver # 0 /\ db'["next"].id = job'[m].id
      BY <1>5, <2>1, <2>3 DEF Stable
    <3>4. Progress(m)' /\ (Locked("next")' => Whole("next")')
      BY <2>1, <2>3, <3>3, ProgressIf
    <3>5. Exists("base")'
      BY <1>4, <2>3, StillThere DEF Stable
    <3> QED
      BY <2>1, <2>3, <3>2, <3>4, <3>5, FillStep
  <2> QED
    BY <2>1, <2>2, <2>3
<1>10. CASE SeedEnd(m)
  <2>1. /\ pc[m] = "seeding" /\ job' = job /\ Disconnects(m, "cmd", "next")
        /\ \/ pc'[m] \in {"seeding", "cleanup"} /\ db' = db
           \/ /\ pc'[m] = "assert" /\ Stable("next") /\ db'["next"].ver = db["next"].ver
              /\ db'["next"].open = db["next"].open /\ db'["next"].schema = db["next"].schema
              /\ db[ "next"].id = job[m].id => db'["next"].rows = "full"
    BY <1>7, <1>10, SeedEndDoes
  <2>2. UsersOf("next")' \subseteq {<<m, "pool", "next">>, <<m, "cmd", "next">>}
        /\ ~Own(m, "cmd", "next")'
    BY <1>1, <2>1, UserGoes
  <2>3. pc'[m] # "cleanup" => NextUsers(m)'
    BY <2>1, <2>2 DEF NextUsers, Fills
  <2>4. CASE pc'[m] = "cleanup" /\ db' = db
    BY <1>4, <2>1, <2>2, <2>4, GivesUp
  <2>5. CASE pc'[m] = "seeding" /\ db' = db
    <3>1. /\ Exists("next")' /\ db'["next"].open /\ db'["next"].schema = "full"
          /\ db'["next"].ver # 0 /\ db'["next"].id = job'[m].id
      BY <1>5, <2>1, <2>5 DEF Exists
    <3>2. Progress(m)' /\ (Locked("next")' => Whole("next")')
      BY <2>1, <2>5, <3>1, ProgressIf
    <3>3. Exists("base")'
      BY <1>4, <2>5, StillThere
    <3> QED
      BY <2>1, <2>3, <2>5, <3>2, <3>3, FillStep
  <2>6. CASE /\ pc'[m] = "assert" /\ Stable("next") /\ db'["next"].ver = db["next"].ver
             /\ db'["next"].open = db["next"].open /\ db'["next"].schema = db["next"].schema
             /\ db'["next"].rows = "full"
    <3>1. /\ Exists("next")' /\ db'["next"].open /\ db'["next"].schema = "full"
          /\ db'["next"].ver # 0
      BY <1>5, <2>1, <2>6 DEF Stable
    <3>2. Progress(m)' /\ (Locked("next")' => Whole("next")')
      BY <2>1, <2>6, <3>1, ProgressIf
    <3>3. Exists("base")'
      BY <1>4, <2>6, StillThere DEF Stable
    <3> QED
      BY <2>1, <2>3, <2>6, <3>2, <3>3, FillStep
  <2> QED
    BY <1>5, <2>1, <2>4, <2>5, <2>6
<1>11. CASE AssertSeeded(m)
  <2>1. /\ pc[m] = "assert" /\ pc'[m] \in {"lock", "cleanup"}
        /\ job' = job /\ db' = db /\ conns' = conns
    BY <1>2, <1>11 DEF AssertSeeded, Exec
  <2>2. UsersOf("next")' \subseteq {<<m, "pool", "next">>, <<m, "cmd", "next">>}
        /\ ~Own(m, "cmd", "next")'
    BY <1>6, <2>1 DEF UsersOf, Own
  <2>3. CASE pc'[m] = "cleanup"
    BY <1>4, <2>1, <2>2, <2>3, GivesUp
  <2>4. CASE pc'[m] = "lock"
    <3>1. NextUsers(m)'
      BY <2>1, <2>2, <2>4 DEF NextUsers, Fills
    <3>2. /\ Exists("next")' /\ db'["next"].open /\ db'["next"].schema = "full"
          /\ db'["next"].ver # 0 /\ db'["next"].rows = "full"
      BY <1>5, <2>1 DEF Exists
    <3>3. Progress(m)' /\ (Locked("next")' => Whole("next")')
      BY <2>1, <2>4, <3>2, ProgressIf
    <3>4. Exists("base")'
      BY <1>4, <2>1, StillThere
    <3> QED
      BY <2>1, <2>4, <3>1, <3>3, <3>4, FillStep
  <2> QED
    BY <2>1, <2>3, <2>4
<1> QED
  BY <1>8, <1>9, <1>10, <1>11

\* A step of the swap before the rename.
LEMMA StagedStep ==
    ASSUME NEW m, pc'[m] \in {"close", "deferred", "swap_term", "swap_drop", "swap_again"},
           Exists("base")', Locked("next")', Whole("next")', NextUsers(m)'
    PROVE  Upkeep(m)'
<1>1. ~ReadsReady(m)' /\ ~ReadsOld(m)' /\ pc'[m] \notin {"swap_rename", "createdb"}
      /\ pc'[m] \notin {"migrate", "migrating", "old", "stamp", "seed", "seeding", "assert", "lock"}
  BY DEF ReadsReady, ReadsOld, ProvPhases
<1>2. Progress(m)'
  BY <1>1 DEF Progress, Fills
<1>3. NextIsReady(m)'
  BY <1>1 DEF NextIsReady
<1>4. BaseStays(m)'
  BY <1>1 DEF BaseStays
<1> QED
  BY <1>2, <1>3, <1>4 DEF Upkeep

LEMMA EndsNextKeepsUpkeep ==
    ASSUME Types, NEW m \in Clients, Role(m, m), Role(m, m)', Upkeep(m), job[m].tgt = "next",
           Lock(m) \/ Close(m) \/ Cleanup(m) \/ ReadOld(m)
    PROVE  Upkeep(m)'
<1>1. JobT /\ PcType /\ DbType /\ "next" \in DbNames /\ Progress(m) /\ NextUsers(m)
  BY TypesParts, DbNamesFacts DEF Upkeep
<1>2. \A p : Goto(m, p) => pc'[m] = p
  BY <1>1, GoesTo
<1>3. pc[m] \in {"lock", "close", "cleanup", "old"}
  BY DEF Lock, Close, Cleanup, ReadOld, Exec
<1>4. Exists("base") /\ (Locked("next") => Whole("next")) /\ (pc[m] = "close" => Locked("next"))
  BY <1>3 DEF Upkeep, BaseStays, NextIsReady, Building, Staged, BuildPhases
<1>5. /\ ~Own(m, "cmd", "next")
      /\ pc[m] = "old" => ~Own(m, "pool", "next")
      /\ UsersOf("next") \subseteq {<<m, "pool", "next">>, <<m, "cmd", "next">>}
  BY <1>1, <1>3 DEF NextUsers, Fills, ReadsReady
<1>6. CASE Lock(m)
  <2>1. /\ pc[m] = "lock" /\ job' = job /\ conns' = conns
        /\ \/ pc'[m] = "cleanup" /\ db' = db
           \/ /\ Stable("next") /\ Content("next") /\ db'["next"].ver = db["next"].ver
              /\ db'["next"].open = FALSE /\ pc'[m] = "close"
    BY <1>6, LockDoes
  <2>2. UsersOf("next")' \subseteq {<<m, "pool", "next">>, <<m, "cmd", "next">>}
        /\ ~Own(m, "cmd", "next")'
    BY <1>5, <2>1 DEF UsersOf, Own
  <2>3. CASE pc'[m] = "cleanup" /\ db' = db
    BY <1>4, <2>1, <2>2, <2>3, GivesUp
  <2>4. CASE /\ Stable("next") /\ Content("next") /\ db'["next"].ver = db["next"].ver
             /\ db'["next"].open = FALSE /\ pc'[m] = "close"
    <3>1. NextUsers(m)'
      BY <2>1, <2>2, <2>4 DEF NextUsers, Fills
    <3>2. db["next"].schema = "full" /\ db["next"].ver # 0 /\ db["next"].rows = "full"
      BY <1>1, <2>1, ProgressIs
    <3>3. Locked("next")' /\ Whole("next")'
      BY <2>4, <3>2 DEF Locked, Whole, Stable, Content
    <3>4. Exists("base")'
      BY <1>4, <2>4, StillThere DEF Stable
    <3> QED
      BY <2>4, <3>1, <3>3, <3>4, StagedStep
  <2> QED
    BY <2>1, <2>3, <2>4
<1>7. CASE Close(m)
  <2>1. pc[m] = "close" /\ pc'[m] = "swap_term" /\ db' = db /\ Disconnects(m, "pool", "next")
    BY <1>2, <1>7 DEF Close
  <2>2. NextUsers(m)'
    BY <1>1, <1>5, <2>1, UserGoes DEF NextUsers
  <2>3. Locked("next")' /\ Whole("next")' /\ Exists("base")'
    BY <1>4, <2>1 DEF Locked, Whole, Exists
  <2> QED
    BY <2>1, <2>2, <2>3, StagedStep
<1>8. CASE Cleanup(m)
  <2>1. /\ pc[m] = "cleanup" /\ job' = job /\ db' = db
        /\ \/ pc'[m] = "drop" /\ Terminate("next")
           \/ pc'[m] = "err" /\ Disconnects(m, "pool", "next")
    BY <1>2, <1>8 DEF Cleanup
  <2>2. UsersOf("next")' = {}
    <3>1. CASE Terminate("next")
      BY <3>1 DEF Terminate, UsersOf
    <3>2. CASE Disconnects(m, "pool", "next")
      BY <1>1, <1>5, <3>2, UserGoes DEF UsersOf, Own
    <3> QED
      BY <2>1, <3>1, <3>2
  <2>3. CASE pc'[m] = "drop"
    <3>1. ~Own(m, "cmd", "next")' /\ ~Own(m, "pool", "next")'
      BY <2>2 DEF Own, UsersOf
    <3> QED
      BY <1>4, <2>1, <2>2, <2>3, <3>1, GivesUp
  <2>4. CASE pc'[m] = "err"
    BY <1>4, <2>1, <2>2, <2>4, RestKeeps DEF Rests, RestPhases, Locked, Whole, Exists
  <2> QED
    BY <2>1, <2>3, <2>4
<1>9. CASE ReadOld(m)
  <2>1. pc[m] = "old" /\ Reads(m, "base", "old") /\ db' = db /\ conns' = conns
    BY <1>9 DEF ReadOld
  <2>2. pc'[m] = "prov" /\ job'[m].tgt = "next" /\ job'[m].ret = "old"
    BY <1>1, <2>1, ReadsFacts
  <2>3. UsersOf("next")' = {}
    BY <1>1, <1>5, <2>1, NoUsersIf DEF UsersOf
  <2>4. Exists("next") /\ db["next"].open /\ db["next"].schema = "full"
    BY <1>1, <2>1, ProgressIs
  <2>5. Progress(m)'
    BY <2>1, <2>2, <2>4 DEF Progress, Fills, Exists
  <2>6. NextIsReady(m)'
    BY <1>4, <2>1, <2>2 DEF NextIsReady, Locked, Whole, Exists, Staged, ReadsReady, SwapPhases
  <2>7. BaseStays(m)'
    BY <1>4, <2>1, <2>2 DEF BaseStays, Exists
  <2>8. NextUsers(m)'
    BY <2>3 DEF NextUsers, UsersOf, Own
  <2> QED
    BY <2>5, <2>6, <2>7, <2>8 DEF Upkeep
<1> QED
  BY <1>6, <1>7, <1>8, <1>9

LEMMA SeedKeepsUpkeep ==
    ASSUME Types, NEW m \in Clients, Role(m, m), Role(m, m)', Upkeep(m), Seed(m),
           job[m].op = "seed"
    PROVE  Upkeep(m)'
<1>1. JobT /\ PcType /\ DbType /\ "next" \in DbNames \ {"base"} /\ "base" \in DbNames
  BY TypesParts, DbNamesFacts
<1>2. \A p : Goto(m, p) => pc'[m] = p
  BY <1>1, GoesTo
<1>3. FailedSeed(m) = "relock" /\ AfterSeed(m) = "seed_stamp"
  BY DEF FailedSeed, AfterSeed
<1>4. pc[m] \in {"seed", "seeding"} => job[m].tgt = "base"
  BY DEF Role
<1>5. ASSUME NEW open, Exists("base"), db' = WithOpen("base", open) PROVE db'["next"] = db["next"]
  BY <1>1, <1>5 DEF WithOpen, DbType
<1>6. /\ pc[m] \in {"seed_check", "seed_unlock", "seed", "seeding", "seed_stamp", "relock"}
      /\ pc'[m] \in {"seed_unlock", "err", "seed", "seeding", "seed_stamp", "relock", "ok"}
      /\ db'["next"] = db["next"] /\ job'[m].op = "seed"
      /\ \/ conns' = conns \/ conns' = conns \cup {<<m, "cmd", "base">>}
         \/ Disconnects(m, "cmd", "base")
  <2>1. CASE SeedBegin(m)
    <3>1. pc[m] = "seed" /\ job[m].tgt = "base"
      BY <1>4, <2>1 DEF SeedBegin, Begins
    <3>2. /\ KeepsJob(m)
          /\ \/ pc'[m] = "relock" /\ db' = db /\ conns' = conns
             \/ pc'[m] = "seeding" /\ Stable("base") /\ conns' = conns \cup {<<m, "cmd", "base">>}
      BY <1>3, <2>1, <3>1, SeedBeginDoes
    <3> QED
      BY <1>1, <3>1, <3>2 DEF Others, Stable, KeepsJob
  <2>2. CASE SeedEnd(m)
    BY <1>1, <1>3, <1>4, <2>2, SeedEndDoes DEF Others, Stable, SeedEnd, Finishes
  <2>3. CASE SeedCheck(m)
    BY <1>2, <2>3 DEF SeedCheck, Query
  <2>4. CASE SeedUnlock(m) \/ Relock(m)
    BY <1>1, <1>2, <1>5, <2>4 DEF SeedUnlock, Relock, Exec
  <2>5. CASE SeedStamp(m)
    <3>1. job'[m].op = "seed"
      BY <1>1, <2>5 DEF SeedStamp, JobT, JobType
    <3> QED
      BY <1>1, <1>2, <2>5, <3>1 DEF SeedStamp, DbType
  <2> QED
    BY <2>1, <2>2, <2>3, <2>4, <2>5 DEF Seed
<1>7. Away(m) /\ Away(m)' /\ pc'[m] # "createdb"
  BY <1>6 DEF Away, Rests, RestPhases
<1>8. UsersOf("next")' \subseteq UsersOf("next")
  BY <1>6, NotNext
<1> QED
  BY <1>6, <1>7, <1>8, AwayStep

LEMMA ResetKeepsUpkeep ==
    ASSUME Types, NEW m \in Clients, Role(m, m), Role(m, m)', Upkeep(m), Reset(m)
    PROVE  Upkeep(m)'
<1>1. JobT /\ PcType /\ DbType /\ "next" \in DbNames \ {"base"} /\ "base" \in DbNames
  BY TypesParts, DbNamesFacts
<1>2. \A p : Goto(m, p) => pc'[m] = p
  BY <1>1, GoesTo
<1>3. job[m].tgt \in {"base", "next"}
  BY <1>1, NamesFacts
<1>4. /\ pc[m] \in {"reset_check", "reset_term", "reset_drop"}
      /\ pc'[m] \in {"reset_check", "reset_term", "reset_drop", "create", "err"}
  BY <1>2 DEF Reset, ResetCheck, ResetTerm, ResetDrop, Cleared
<1>5. Rests(m) /\ Rests(m)'
  BY <1>4 DEF Rests, RestPhases
<1>6. UsersOf("next")' = {}
  <2>1. UsersOf("next") = {}
    BY <1>5, AwayAlone DEF Away
  <2>2. conns' \subseteq conns
    BY DEF Reset, ResetCheck, ResetTerm, ResetDrop, Terminate
  <2> QED
    BY <2>1, <2>2, FewerUsers
<1>7. db'["next"] = db["next"] \/ ~Exists("next")'
  <2>1. \A d \in {"base", "next"} : db' = Without(d) => db'["next"] = db["next"] \/ ~Exists("next")'
    BY <1>1 DEF Without, DbType, Exists
  <2> QED
    BY <1>3, <2>1 DEF Reset, ResetCheck, ResetTerm, ResetDrop
<1>8. Locked("next")' => Whole("next")'
  BY <1>7 DEF Upkeep, NextIsReady, Locked, Whole, Exists
<1> QED
  BY <1>5, <1>6, <1>8, RestKeeps

LEMMA SwapKeepsUpkeep ==
    ASSUME Types, NEW m \in Clients, Role(m, m), Role(m, m)', Upkeep(m), Swap(m)
    PROVE  Upkeep(m)'
<1>1. JobT /\ PcType /\ DbType /\ "next" \in DbNames \ {"base"} /\ "base" \in DbNames
  BY TypesParts, DbNamesFacts
<1>2. \A p : Goto(m, p) => pc'[m] = p
  BY <1>1, GoesTo
<1>3. pc[m] \in {"refresh", "refresh_next", "ready"} \cup SwapPhases
  BY DEF Swap, Refresh, RefreshNext, Ready, SwapTerm, SwapDrop, SwapAgain, SwapRename, Exec,
    Query, SwapPhases
<1>4. UsersOf("next") = {}
  BY <1>3, NoUsersIf DEF Upkeep, NextUsers, Fills, ReadsReady, ProvPhases, SwapPhases
<1>5. UsersOf("next")' = {}
  <2>1. conns' \subseteq conns
    BY DEF Swap, Refresh, RefreshNext, Ready, SwapTerm, SwapDrop, SwapAgain, SwapRename, Exec,
      Query, Terminate
  <2> QED
    BY <1>4, <2>1, FewerUsers
<1>6. NextUsers(m)'
  BY <1>5 DEF NextUsers, UsersOf, Own
<1>7. /\ Locked("next") => Whole("next")
      /\ pc[m] \in SwapPhases => Locked("next")
      /\ pc[m] \in {"refresh_next", "ready", "swap_term", "swap_drop", "swap_again"} =>
            Exists("base")
      /\ pc[m] = "swap_rename" => ~Exists("base")
  BY DEF Upkeep, NextIsReady, BaseStays, Staged
<1>8. ASSUME db' = db
      PROVE  /\ Locked("next")' <=> Locked("next")
             /\ Whole("next")' <=> Whole("next")
             /\ Exists("next")' <=> Exists("next")
             /\ Exists("base")' <=> Exists("base")
  BY <1>8 DEF Locked, Whole, Exists
<1>9. CASE pc'[m] \in {"err", "create", "ok"}
  <2>1. Locked("next")' => Whole("next")'
    <3>1. CASE db' = db
      BY <1>7, <1>8, <3>1
    <3>2. CASE SwapRename(m) /\ db' # db
      <4>1. db' = Renamed /\ Exists("next")
        BY <3>2 DEF SwapRename, Exec, Droppable
      <4> QED
        BY <1>1, <4>1, RenamePut DEF Locked
    <3>3. ~SwapDrop(m)
      BY <1>2, <1>9 DEF SwapDrop
    <3> QED
      BY <3>1, <3>2, <3>3 DEF Swap, Refresh, RefreshNext, Ready, SwapTerm, SwapAgain, Query
  <2> QED
    BY <1>5, <1>9, <2>1, RestKeeps DEF Rests, RestPhases
<1>10. CASE Refresh(m) /\ pc'[m] = "refresh_next"
  <2>1. Exists("base") /\ db' = db
    BY <1>2, <1>10 DEF Refresh, Query
  <2>2. Exists("base")' /\ (Locked("next")' => Whole("next")')
    BY <1>7, <1>8, <2>1
  <2>3. Progress(m)'
    BY <1>10 DEF Progress, Fills, ReadsOld, ProvPhases
  <2>4. NextIsReady(m)'
    BY <1>10, <2>2 DEF NextIsReady, Staged, ReadsReady, ProvPhases, SwapPhases
  <2>5. BaseStays(m)'
    BY <1>10, <2>2 DEF BaseStays
  <2> QED
    BY <1>6, <2>3, <2>4, <2>5 DEF Upkeep
<1>11. CASE RefreshNext(m) /\ pc'[m] \in {"ready", "createdb"}
  <2>1. /\ pc[m] = "refresh_next" /\ db' = db /\ job' = [job EXCEPT ![m].tgt = "next"]
        /\ pc'[m] = "createdb" => ~Exists("next")
    BY <1>2, <1>11 DEF RefreshNext, Query
  <2>2. job'[m].tgt = "next"
    BY <1>1, <2>1 DEF JobT, JobType
  <2>3. /\ Exists("base")' /\ (Locked("next")' => Whole("next")')
        /\ pc'[m] = "createdb" => ~Exists("next")'
    BY <1>7, <1>8, <2>1
  <2>4. Progress(m)'
    BY <1>11, <2>2, <2>3 DEF Progress, Fills, ReadsOld, ProvPhases
  <2>5. NextIsReady(m)'
    BY <1>11, <2>3 DEF NextIsReady, Staged, ReadsReady, ProvPhases, SwapPhases
  <2>6. BaseStays(m)'
    BY <1>11, <2>3 DEF BaseStays
  <2> QED
    BY <1>6, <2>4, <2>5, <2>6 DEF Upkeep
<1>12. CASE Ready(m) /\ pc'[m] = "prov"
  <2>1. pc[m] = "ready" /\ db' = db /\ Locked("next") /\ Reads(m, "next", "ready")
    BY <1>2, <1>12 DEF Ready
  <2>2. job'[m].ret = "ready"
    BY <1>1, <2>1, ReadsFacts
  <2>3. Exists("base")' /\ Locked("next")' /\ Whole("next")'
    BY <1>7, <1>8, <2>1
  <2>4. Progress(m)'
    BY <1>12, <2>2 DEF Progress, Fills, ReadsOld
  <2>5. NextIsReady(m)'
    BY <1>12, <2>3 DEF NextIsReady
  <2>6. BaseStays(m)'
    BY <1>12, <2>3 DEF BaseStays
  <2> QED
    BY <1>6, <2>4, <2>5, <2>6 DEF Upkeep
<1>13. CASE pc[m] \in SwapPhases /\ db' = db
            /\ pc'[m] \in {"deferred", "swap_term", "swap_drop", "swap_again"}
  <2>1. pc[m] # "swap_rename"
    BY <1>2, <1>13 DEF Swap, Refresh, RefreshNext, Ready, SwapTerm, SwapDrop, SwapAgain,
      SwapRename, Exec, Query
  <2>2. Exists("base")' /\ Locked("next")' /\ Whole("next")'
    BY <1>7, <1>8, <1>13, <2>1 DEF SwapPhases
  <2> QED
    BY <1>6, <1>13, <2>2, StagedStep
<1>14. CASE SwapDrop(m) /\ pc'[m] = "swap_rename"
  <2>1. pc[m] = "swap_drop" /\ db' = Without("base")
    BY <1>2, <1>14 DEF SwapDrop
  <2>2. ~Exists("base")' /\ db'["next"] = db["next"]
    BY <1>1, <2>1, DropPut DEF Others
  <2>3. Locked("next")' /\ Whole("next")'
    BY <1>7, <2>1, <2>2 DEF Locked, Whole, Exists, SwapPhases
  <2>4. Progress(m)'
    BY <1>14 DEF Progress, Fills, ReadsOld, ProvPhases
  <2>5. NextIsReady(m)'
    BY <1>14, <2>3 DEF NextIsReady, ReadsReady, ProvPhases
  <2>6. BaseStays(m)'
    BY <1>14, <2>2 DEF BaseStays, Building, BuildPhases, ReadsOld, ReadsReady, ProvPhases
  <2> QED
    BY <1>6, <2>4, <2>5, <2>6 DEF Upkeep
<1>15. \/ pc'[m] \in {"err", "create", "ok"}
       \/ Refresh(m) /\ pc'[m] = "refresh_next"
       \/ RefreshNext(m) /\ pc'[m] \in {"ready", "createdb"}
       \/ Ready(m) /\ pc'[m] = "prov"
       \/ /\ pc[m] \in SwapPhases /\ db' = db
          /\ pc'[m] \in {"deferred", "swap_term", "swap_drop", "swap_again"}
       \/ SwapDrop(m) /\ pc'[m] = "swap_rename"
  <2>1. \A d, ret : Reads(m, d, ret) => pc'[m] = "prov"
    BY <1>2 DEF Reads
  <2> QED
    BY <1>2, <2>1 DEF Swap, Refresh, RefreshNext, Ready, SwapTerm, SwapDrop, SwapAgain,
      SwapRename, Exec, Query, SwapPhases
<1> QED
  BY <1>9, <1>10, <1>11, <1>12, <1>13, <1>14, <1>15

\* Every step keeps Control.
LEMMA ControlKept ==
    ASSUME NEW m, Sole(m), Control(m), NEW c \in Clients, Step(c) \/ Crash(c)
    PROVE  Control(m)'
<1>1. JobT /\ PcType /\ DbType /\ ConnsType /\ Counts /\ m \in Clients
  BY TypesParts DEF Control, Sole
<1>2. Types /\ Connected /\ (\A e \in Clients : Role(m, e)) /\ Upkeep(m)
  BY DEF Control, Upkeep
<1>3. Types'
  <2>1. JobT' /\ DbType' /\ PcType' /\ ConnsType' /\ Counts'
    BY <1>1, <1>2, JobKept, DbKept, PcKept, ConnsKept, CountsKept
  <2> QED
    BY <2>1, TypesNext
<1>4. Connected'
  BY <1>2, ConnectedKept
<1>5. \A e \in Clients : Role(m, e)'
  BY <1>2, RolesKept
<1>6. Upkeep(m)'
  <2>1. CASE c # m
    <3>1. Looks(c)
      BY <1>2, <2>1, OthersLook
    <3>2. pc'[m] = pc[m] /\ job'[m] = job[m]
      BY <1>1, <1>2, <2>1, PcOthers, JobKept
    <3> QED
      BY <1>1, <1>2, <1>5, <3>1, <3>2, LooksKeepsUpkeep
  <2>2. CASE c = m /\ Looks(c)
    BY <1>1, <1>2, <1>5, <2>2, LooksKeepsUpkeep
  <2>3. CASE c = m /\ ReadProvenance(m) /\ job[m].ret # "info"
    <3>1. job[m].ret \in {"old", "ready"}
      BY <1>1, <1>2, <2>3, ProvFacts DEF Role
    <3> QED
      BY <1>1, <1>2, <1>5, <2>3, <3>1, ReadsOldKeepsUpkeep, ReadsReadyKeepsUpkeep
  <2>4. CASE c = m /\ Build(m)
    <3>1. job[m].tgt \in {"base", "next"}
      BY <1>1, NamesFacts
    <3>2. AssertSeeded(m) => job[m].op # "seed"
      BY <1>1, <1>2 DEF AssertSeeded, Exec, Role
    <3>3. Stamp(m) => job[m].op # "seed"
      BY <1>1, <1>2 DEF Stamp, Role, BuildPhases
    <3> QED
      BY <1>1, <1>2, <1>5, <2>4, <3>1, <3>2, <3>3, BuildsBaseKeepsUpkeep, MakesNextKeepsUpkeep,
        FillsNextKeepsUpkeep, EndsNextKeepsUpkeep DEF Build
  <2>5. CASE c = m /\ Seed(m)
    <3>1. CASE job[m].op = "seed"
      BY <1>1, <1>2, <1>5, <2>5, <3>1, SeedKeepsUpkeep
    <3>2. CASE job[m].op # "seed"
      <4>1. (SeedBegin(m) \/ SeedEnd(m)) /\ job[m].tgt = "next"
        BY <1>1, <1>2, <2>5, <3>2 DEF Seed, SeedBegin, SeedEnd, Begins, Finishes, SeedCheck,
          SeedUnlock, SeedStamp, Relock, Exec, Query, Role
      <4> QED
        BY <1>1, <1>2, <1>5, <3>2, <4>1, FillsNextKeepsUpkeep, SMTT(30)
    <3> QED
      BY <3>1, <3>2
  <2>6. CASE c = m /\ (Reset(m) \/ Swap(m))
    BY <1>1, <1>2, <1>5, <2>6, ResetKeepsUpkeep, SwapKeepsUpkeep
  <2> QED
    BY <2>1, <2>2, <2>3, <2>4, <2>5, <2>6 DEF Step, Looks
<1> QED
  BY <1>3, <1>4, <1>5, <1>6 DEF Control, Upkeep

-----------------------------------------------------------------------------

(***************************************************************************)
(* What the steps do to what the databases hold                            *)
(***************************************************************************)

\* What d holds, and whether it is there, stays.
Same(d) == /\ Exists(d)' <=> Exists(d)
           /\ Exists(d) => Content(d) /\ db'[d].id = db[d].id /\ db'[d].ver = db[d].ver
Calm == Same("base") /\ Same("next") /\ Kin

\* m works on the database d that it builds.
Makes(m, d) ==
    /\ Building(m) /\ job[m].tgt = d /\ job'[m].tgt = d /\ Others(d)
    /\ pc'[m] \notin {"create"} \cup ProvPhases
    /\ d = "next" => pc'[m] # "stamp"
    /\ \/ ~Exists(d)'
       \/ db'[d].ver = 0
       \/ Exists(d) /\ db'[d].ver = db[d].ver
       \/ pc[m] = "stamp" /\ (d = "next" => db'[d].ver = job[m].ver + 1)

LEMMA CalmIf ==
    ASSUME db' = db PROVE Calm
BY DEF Calm, Same, Kin, Exists, Content

LEMMA CalmIfHeld ==
    ASSUME Held, Kin PROVE Calm
BY DEF Calm, Same, Held, Exists, Content

LEMMA CalmIfOpen ==
    ASSUME DbType, NEW d \in {"base", "next"}, Exists(d), NEW open \in BOOLEAN, db' = WithOpen(d, open)
    PROVE  Calm
<1>1. d \in DbNames /\ "base" \in DbNames /\ "next" \in DbNames
      /\ \A i \in Insts : i \in DbNames \ {"base", "next"}
  BY DbNamesFacts
<1>2. /\ Others(d) /\ Exists(d)' /\ Content(d)
      /\ db'[d].id = db[d].id /\ db'[d].ver = db[d].ver
  BY <1>1, OpenPut
<1> QED
  BY <1>1, <1>2 DEF Calm, Same, Kin, Others, Exists, Content

LEMMA ReadsAreCalm ==
    ASSUME Types, NEW c \in Clients, ReadProvenance(c)
    PROVE  Calm
<1>1. JobT /\ DbType /\ job[c].of \in {"base", "next"}
  BY TypesParts, NamesFacts
<1>2. PICK d \in {"base", "next"} : d = job[c].of
  BY <1>1
<1>3. \/ db' = db
      \/ \E open \in BOOLEAN : Exists(d) /\ db' = WithOpen(d, open)
  BY <1>2 DEF ReadProvenance, ProvCheck, ProvUnlock, ProvConnect, ProvClose, ProvRelock, Exec
<1> QED
  BY <1>1, <1>3, CalmIf, CalmIfOpen

LEMMA LooksAreCalm ==
    ASSUME Types, NEW m, NEW c \in Clients, Role(m, c), Looks(c)
    PROVE  Calm
BY LooksHolds, CalmIfHeld

LEMMA BuildData ==
    ASSUME Types, NEW m \in Clients, Role(m, m), Build(m)
    PROVE  Calm \/ \E d \in {"base", "next"} : Makes(m, d)
<1>1. JobT /\ PcType /\ DbType /\ job[m].tgt \in {"base", "next"}
  BY TypesParts, NamesFacts
<1>2. \A p : Goto(m, p) => pc'[m] = p
  BY <1>1, GoesTo
<1>3. PICK d \in {"base", "next"} : job[m].tgt = d
  BY <1>1
<1>4. d \in DbNames
  BY DbNamesFacts
<1>5. pc[m] \in BuildPhases \cup {"old", "assert"} => Building(m)
  BY DEF Building
<1>6. CASE db' = db
  BY <1>6, CalmIf
<1>7. CASE CreateDb(m) /\ db' # db
  <2>1. pc[m] = "createdb" /\ job' = job /\ pc'[m] = "migrate" /\ Others(d) /\ db'[d].ver = 0
    BY <1>3, <1>7, CreateDbDoes
  <2> QED
    BY <1>3, <1>5, <2>1 DEF Makes, BuildPhases, ProvPhases
<1>8. CASE Migrate(m) /\ db' # db
  <2>1. /\ pc[m] = "migrate" /\ job'[m].tgt = d /\ pc'[m] = "migrating" /\ Stable(d)
        /\ db'[d].ver = db[d].ver
    BY <1>3, <1>8, MigrateDoes
  <2> QED
    BY <1>3, <1>5, <2>1 DEF Makes, BuildPhases, ProvPhases, Stable
<1>9. CASE Migrated(m) /\ db' # db
  <2>1. /\ pc[m] = "migrating" /\ job' = job /\ pc'[m] = (IF d = "next" THEN "old" ELSE "stamp")
        /\ Stable(d) /\ db'[d].ver = db[d].ver
    BY <1>3, <1>9, MigratedDoes
  <2> QED
    BY <1>3, <1>5, <2>1 DEF Makes, BuildPhases, ProvPhases, Stable
<1>10. CASE Stamp(m) /\ db' # db
  <2>1. /\ pc[m] = "stamp" /\ job' = job /\ Stable(d) /\ pc'[m] \in {"seed", "lock"}
        /\ d = "next" => db'[d].ver = job[m].ver + 1
    BY <1>3, <1>10, StampDoes
  <2> QED
    BY <1>3, <1>5, <2>1 DEF Makes, BuildPhases, ProvPhases, Stable
<1>11. CASE Lock(m) /\ db' # db
  <2>1. Exists(d) /\ db' = WithOpen(d, FALSE)
    BY <1>3, <1>11 DEF Lock, Exec
  <2> QED
    BY <1>1, <2>1, CalmIfOpen
<1>12. CASE Drop(m) /\ db' # db
  <2>1. pc[m] = "drop" /\ job' = job /\ pc'[m] = "err" /\ db' = Without(d)
    BY <1>2, <1>3, <1>12 DEF Drop, Exec
  <2>2. Others(d) /\ ~Exists(d)'
    BY <1>1, <1>4, <2>1, DropPut
  <2> QED
    BY <1>3, <1>5, <2>1, <2>2 DEF Makes, BuildPhases, ProvPhases
<1> QED
  BY <1>6, <1>7, <1>8, <1>9, <1>10, <1>11, <1>12 DEF Build, Create, ReadOld, AssertSeeded, Close,
    Cleanup, Exec, Query

LEMMA SeedData ==
    ASSUME Types, NEW m \in Clients, Role(m, m), Seed(m), job[m].op # "seed"
    PROVE  Calm \/ \E d \in {"base", "next"} : Makes(m, d)
<1>1. JobT /\ PcType
  BY TypesParts
<1>2. (SeedBegin(m) \/ SeedEnd(m)) /\ job[m].tgt = "next"
  BY DEF Seed, SeedBegin, SeedEnd, Begins, Finishes, SeedCheck, SeedUnlock, SeedStamp, Relock,
    Exec, Query, Role
<1>3. FailedSeed(m) = "cleanup" /\ AfterSeed(m) = "assert"
  BY DEF FailedSeed, AfterSeed
<1>4. CASE db' = db
  BY <1>4, CalmIf
<1>5. CASE SeedBegin(m) /\ db' # db
  <2>1. /\ pc[m] = "seed" /\ job'[m].tgt = "next" /\ pc'[m] = "seeding" /\ Stable("next")
        /\ db'["next"].ver = db["next"].ver
    BY <1>2, <1>5, SeedBeginDoes
  <2>2. Makes(m, "next")
    BY <1>2, <2>1 DEF Makes, Building, ProvPhases, Stable
  <2> QED
    BY <2>2
<1>6. CASE SeedEnd(m) /\ db' # db
  <2>1. /\ pc[m] = "seeding" /\ job' = job /\ pc'[m] = "assert" /\ Stable("next")
        /\ db'["next"].ver = db["next"].ver
    BY <1>2, <1>3, <1>6, SeedEndDoes
  <2>2. Makes(m, "next")
    BY <1>2, <2>1 DEF Makes, Building, ProvPhases, Stable
  <2> QED
    BY <2>2
<1> QED
  BY <1>2, <1>4, <1>5, <1>6

\* What m does while only refreshes change the base.
LEMMA DataSteps ==
    ASSUME NEW m \in Clients, Types, Role(m, m), Step(m) \/ Crash(m), ~Reset(m), job[m].op # "seed"
    PROVE  \/ Calm
           \/ \E d \in {"base", "next"} : Makes(m, d)
           \/ SwapDrop(m) /\ db' = Without("base") /\ pc'[m] = "swap_rename"
           \/ SwapRename(m) /\ db' = Renamed /\ Droppable("next") /\ pc'[m] = "ok"
<1>1. CASE Start(m) \/ End(m) \/ Crash(m) \/ Up(m)
  BY <1>1, LooksAreCalm DEF Looks
<1>2. CASE Swap(m)
  <2>1. \A p : Goto(m, p) => pc'[m] = p
    BY TypesParts, GoesTo
  <2>2. CASE db' = db
    BY <2>2, CalmIf
  <2> QED
    BY <1>2, <2>1, <2>2 DEF Swap, Refresh, RefreshNext, Ready, SwapTerm, SwapDrop, SwapAgain,
      SwapRename, Exec, Query
<1> QED
  BY <1>1, <1>2, ReadsAreCalm, BuildData, SeedData DEF Step

-----------------------------------------------------------------------------

(***************************************************************************)
(* The data survives                                                       *)
(***************************************************************************)

LEMMA OnlyRefreshes ==
    ASSUME NEW m, NEW c \in Clients, Role(m, c), RefreshOnly
    PROVE  job[c].op \in {"refresh", "status", "up", "none"} /\ ~Reset(c)
<1>1. job[c].op \in {"refresh", "status", "up", "none"}
  BY DEF Role, RefreshOnly
<1>2. Reset(c) => pc[c] \in {"reset_check", "reset_term", "reset_drop"}
  BY DEF Reset, ResetCheck, ResetTerm, ResetDrop
<1> QED
  BY <1>1, <1>2 DEF Role

LEMMA WholeStays ==
    ASSUME NEW d \in {"base", "next"}, Same(d) PROVE Whole(d)' <=> Whole(d)
BY DEF Same, Whole, Content

\* Where a build begins.
LEMMA BuildingComes ==
    ASSUME Types, NEW m \in Clients, Role(m, m), Step(m) \/ Crash(m), ~Reset(m),
           job[m].op # "seed", Building(m)'
    PROVE  \/ Building(m) /\ job'[m].tgt = job[m].tgt
           \/ job'[m].tgt = "base" /\ db' = db /\ ~Exists("base")
           \/ job'[m].tgt = "next" /\ db' = db /\ ~Exists("next")
<1>1. JobT /\ PcType /\ job[m].tgt \in {"base", "next"}
  BY TypesParts, NamesFacts
<1>2. \A p : Goto(m, p) => pc'[m] = p
  BY <1>1, GoesTo
<1>3. ASSUME Looks(m) PROVE FALSE
  <2>1. Rests(m)'
    BY <1>3, LooksRests
  <2> QED
    BY <2>1 DEF Rests, RestPhases, ClonePhases, Building, BuildPhases, ReadsOld, ProvPhases
<1>4. CASE ReadProvenance(m)
  <2>1. pc[m] \in ProvPhases /\ job'[m].tgt = job[m].tgt /\ job'[m].ret = job[m].ret
    BY <1>1, <1>4, ProvFacts
  <2>2. CASE job[m].ret = "old"
    BY <2>1, <2>2 DEF Building, ReadsOld
  <2>3. CASE job[m].ret = "ready"
    <3>1. \A read, ver : Back(m, read, ver) \in {"swap_term", "err"}
      BY <2>1, <2>3, BackIs
    <3>2. pc'[m] \in ProvPhases \cup {"swap_term", "err"}
      BY <1>2, <1>4, <3>1 DEF ReadProvenance, ProvCheck, ProvUnlock, ProvConnect, ProvClose,
        ProvRelock, Exec, AfterRead, ProvPhases
    <3> QED
      BY <2>1, <2>3, <3>2 DEF Building, BuildPhases, ReadsOld, ProvPhases
  <2> QED
    BY <1>3, <1>4, <2>1, <2>2, <2>3 DEF Looks, Role
<1>5. CASE Build(m)
  <2>1. CASE Create(m)
    <3>1. job' = [job EXCEPT ![m].tgt = "base"] /\ db' = db
      BY <2>1 DEF Create, Query
    <3>2. (pc'[m] = "createdb" /\ ~Exists("base")) \/ pc'[m] \in {"ok", "err"}
      BY <1>2, <2>1 DEF Create, Query
    <3>3. job'[m].tgt = "base"
      BY <1>1, <3>1 DEF JobT, JobType
    <3> QED
      BY <3>1, <3>2, <3>3 DEF Building, BuildPhases, ReadsOld, ProvPhases
  <2>2. CASE Close(m)
    <3>1. pc'[m] = "swap_term"
      BY <1>2, <2>2 DEF Close
    <3> QED
      BY <3>1 DEF Building, BuildPhases, ReadsOld, ProvPhases
  <2>3. CASE Migrate(m)
    <3>1. pc[m] = "migrate" /\ job'[m].tgt = job[m].tgt
      BY <1>1, <2>3, MigrateDoes
    <3> QED
      BY <3>1 DEF Building, BuildPhases
  <2>4. CASE ReadOld(m)
    <3>1. pc[m] = "old" /\ job'[m].tgt = job[m].tgt
      BY <1>1, <2>4, ReadsFacts DEF ReadOld
    <3> QED
      BY <3>1 DEF Building, BuildPhases
  <2>5. CASE ~(Create(m) \/ Close(m) \/ Migrate(m) \/ ReadOld(m))
    <3>1. job' = job /\ pc[m] \in BuildPhases \cup {"assert"}
      BY <1>5, <2>5 DEF Build, CreateDb, Migrated, Finishes, Stamp, AssertSeeded, Lock, Cleanup,
        Drop, Exec, BuildPhases
    <3> QED
      BY <3>1 DEF Building
  <2> QED
    BY <2>1, <2>2, <2>3, <2>4, <2>5
<1>6. CASE Seed(m)
  <2>1. (SeedBegin(m) \/ SeedEnd(m)) /\ job[m].tgt = "next"
    BY <1>6 DEF Seed, SeedBegin, SeedEnd, Begins, Finishes, SeedCheck, SeedUnlock, SeedStamp,
      Relock, Exec, Query, Role
  <2>2. pc[m] \in {"seed", "seeding"} /\ job'[m].tgt = "next"
    BY <2>1, SeedBeginDoes, SeedEndDoes
  <2> QED
    BY <2>1, <2>2 DEF Building
<1>7. CASE Swap(m)
  <2>1. CASE RefreshNext(m)
    <3>1. job' = [job EXCEPT ![m].tgt = "next"] /\ db' = db
      BY <2>1 DEF RefreshNext, Query
    <3>2. (pc'[m] = "createdb" /\ ~Exists("next")) \/ pc'[m] \in {"ready", "err"}
      BY <1>2, <2>1 DEF RefreshNext, Query
    <3>3. job'[m].tgt = "next"
      BY <1>1, <3>1 DEF JobT, JobType
    <3> QED
      BY <3>1, <3>2, <3>3 DEF Building, BuildPhases, ReadsOld, ProvPhases
  <2>2. CASE Ready(m)
    <3>1. \/ pc'[m] = "prov" /\ job'[m].ret = "ready"
          \/ pc'[m] = "err"
      BY <1>1, <1>2, <2>2, ReadsFacts DEF Ready
    <3> QED
      BY <3>1 DEF Building, BuildPhases, ReadsOld, ProvPhases
  <2>3. CASE ~RefreshNext(m) /\ ~Ready(m)
    <3>1. pc'[m] \in {"refresh_next", "create", "err", "swap_drop", "swap_rename", "deferred",
                      "swap_again", "ok"}
      BY <1>2, <1>7, <2>3 DEF Swap, Refresh, SwapTerm, SwapDrop, SwapAgain, SwapRename, Exec, Query
    <3> QED
      BY <3>1 DEF Building, BuildPhases, ReadsOld, ProvPhases
  <2> QED
    BY <2>1, <2>2, <2>3
<1> QED
  BY <1>3, <1>4, <1>5, <1>6, <1>7 DEF Step, Looks

LEMMA KeptKept ==
    ASSUME NEW m, Sole(m), Control(m), Control(m)', Kept(m), NEW c \in Clients, Step(c) \/ Crash(c)
    PROVE  Kept(m)'
<1>1. /\ Types /\ m \in Clients /\ Role(m, m) /\ Role(m, c) /\ JobT /\ PcType /\ DbType /\ Connected
      /\ begun \subseteq begun'
  BY TypesParts, CountsKept DEF Control, Sole
<1>2. "base" \in DbNames /\ "next" \in DbNames
  BY DbNamesFacts
<1> SUFFICES ASSUME RefreshOnly'
             PROVE  /\ Whole("base")' \/ Whole("next")'
                    /\ Building(m)' => IF job'[m].tgt = "next" THEN Whole("base")'
                                       ELSE Whole("next")'
  BY DEF Kept
<1>3. RefreshOnly
  BY <1>1 DEF RefreshOnly
<1>4. /\ Whole("base") \/ Whole("next")
      /\ Building(m) => IF job[m].tgt = "next" THEN Whole("base") ELSE Whole("next")
  BY <1>3 DEF Kept
<1>5. CASE c # m
  <2>1. Calm /\ pc'[m] = pc[m] /\ job'[m] = job[m]
    BY <1>1, <1>5, OthersLook, LooksAreCalm, PcOthers, JobKept
  <2>2. (Whole("base")' <=> Whole("base")) /\ (Whole("next")' <=> Whole("next"))
    BY <2>1, WholeStays DEF Calm
  <2>3. Building(m)' <=> Building(m)
    BY <2>1 DEF Building, ReadsOld
  <2> QED
    BY <1>4, <2>1, <2>2, <2>3
<1>6. CASE c = m
  <2>1. ~Reset(m) /\ job[m].op # "seed" /\ (Step(m) \/ Crash(m))
    BY <1>1, <1>3, <1>6, OnlyRefreshes
  <2>2. CASE Calm
    <3>1. (Whole("base")' <=> Whole("base")) /\ (Whole("next")' <=> Whole("next"))
      BY <2>2, WholeStays DEF Calm
    <3>2. Building(m)' =>
             \/ Building(m) /\ job'[m].tgt = job[m].tgt
             \/ job'[m].tgt = "base" /\ ~Exists("base")
             \/ job'[m].tgt = "next" /\ ~Exists("next")
      BY <1>1, <2>1, BuildingComes
    <3>3. ~Exists("base") => Whole("next")
      BY <1>4 DEF Whole
    <3>4. ~Exists("next") => Whole("base")
      BY <1>4 DEF Whole
    <3> QED
      BY <1>4, <3>1, <3>2, <3>3, <3>4
  <2>3. ASSUME NEW d \in {"base", "next"}, Makes(m, d)
        PROVE  /\ Whole("base")' \/ Whole("next")'
               /\ Building(m)' => IF job'[m].tgt = "next" THEN Whole("base")' ELSE Whole("next")'
    <3>1. Building(m) /\ job[m].tgt = d /\ job'[m].tgt = d /\ Others(d)
      BY <2>3 DEF Makes
    <3>2. PICK e \in {"base", "next"} : e # d
      OBVIOUS
    <3>3. Whole(e) /\ db'[e] = db[e]
      BY <1>2, <1>4, <3>1, <3>2 DEF Others
    <3>4. Whole(e)'
      BY <3>3 DEF Whole, Exists
    <3> QED
      BY <3>1, <3>2, <3>4
  <2>4. CASE pc'[m] = "swap_rename"
    <3>1. Whole("next")'
      BY <2>4 DEF Control, NextIsReady, Staged, SwapPhases
    <3>2. ~Building(m)'
      BY <2>4 DEF Building, BuildPhases, ReadsOld, ProvPhases
    <3> QED
      BY <3>1, <3>2
  <2>5. CASE SwapRename(m) /\ db' = Renamed /\ Droppable("next") /\ pc'[m] = "ok"
    <3>1. Whole("next")
      BY <2>5 DEF Control, NextIsReady, Staged, SwapPhases, SwapRename, Exec
    <3>2. Whole("base")'
      BY <1>1, <2>5, <3>1, RenamePut DEF Droppable, Whole
    <3>3. ~Building(m)'
      BY <2>5 DEF Building, BuildPhases, ReadsOld, ProvPhases
    <3> QED
      BY <3>2, <3>3
  <2> QED
    BY <1>1, <2>1, <2>2, <2>3, <2>4, <2>5, DataSteps
<1> QED
  BY <1>5, <1>6

-----------------------------------------------------------------------------

(***************************************************************************)
(* Whoever opened the base will lock it                                    *)
(***************************************************************************)

OpenNow     == Exists("base") /\ db["base"].open
Relocks(c)  == Restores(c) \/ WillLock(c)
OpenStep(c) == OpenNow' => Relocks(c)' \/ (OpenNow /\ ~Relocks(c))

LEMMA SmoothStep ==
    ASSUME Counts, NEW c \in Clients, Step(c) \/ Crash(c), Smooth'
    PROVE  Smooth /\ ~Fails /\ ~Crash(c)
<1>1. faults' <= faults /\ crashes' <= crashes
  BY CountsKept
<1>2. faults \in 0 .. MaxFaults /\ crashes \in 0 .. MaxCrashes
  BY DEF Counts
<1>3. Smooth
  BY <1>1, <1>2, BaseManagerAssumption DEF Smooth
<1>4. ~Fails
  BY <1>2, <1>3, BaseManagerAssumption DEF Smooth, Fails
<1>5. ~Crash(c)
  BY <1>2, <1>3, BaseManagerAssumption DEF Smooth, Crash
<1> QED
  BY <1>3, <1>4, <1>5

LEMMA OpenIf ==
    ASSUME OpenForNow, Smooth' => Smooth, NEW c \in Clients, Smooth' => OpenStep(c),
           \A e \in Clients \ {c} : pc'[e] = pc[e] /\ job'[e] = job[e]
    PROVE  OpenForNow'
<1> SUFFICES ASSUME Smooth', OpenNow' PROVE \E e \in Clients : Relocks(e)'
  BY DEF OpenForNow, OpenNow, Relocks
<1>1. CASE Relocks(c)'
  BY <1>1
<1>2. CASE OpenNow /\ ~Relocks(c)
  <2>1. PICK e \in Clients : Relocks(e)
    BY <1>2 DEF OpenForNow, OpenNow, Relocks
  <2>2. e # c
    BY <1>2, <2>1
  <2>3. pc'[e] = pc[e] /\ job'[e] = job[e]
    BY <2>2
  <2>4. Relocks(e)'
    BY <2>1, <2>3 DEF Relocks, Restores, WillLock
  <2> QED
    BY <2>4
<1> QED
  BY <1>1, <1>2 DEF OpenStep

\* A step of a command that has not opened the base, and does not.
LEMMA OpenAside ==
    ASSUME NEW c, ~Relocks(c), OpenNow' => OpenNow PROVE OpenStep(c)
BY DEF OpenStep

LEMMA ProvOpens ==
    ASSUME Types, NEW m, NEW c \in Clients, Role(m, c), ReadProvenance(c), ~Fails
    PROVE  OpenStep(c)
<1>1. JobT /\ PcType /\ DbType /\ job[c].of \in {"base", "next"} /\ "base" \in DbNames
  BY TypesParts, NamesFacts
<1>2. \A p : Goto(c, p) => pc'[c] = p
  BY <1>1, GoesTo
<1>3. /\ pc[c] \in ProvPhases /\ job'[c].of = job[c].of
      /\ ProvCheck(c) \/ job'[c].locked = job[c].locked
  BY <1>1, ProvFacts
<1>4. ~WillLock(c)
  BY <1>3 DEF WillLock, ProvPhases
<1>5. CASE job[c].of = "next"
  <2>1. db'["base"] = db["base"]
    BY <1>1, <1>5 DEF ReadProvenance, ProvCheck, ProvUnlock, ProvConnect, ProvClose, ProvRelock,
      Exec, WithOpen, DbType
  <2> QED
    BY <1>4, <1>5, <2>1, OpenAside DEF Relocks, Restores, OpenNow, Exists
<1>6. CASE job[c].of = "base"
  <2>1. CASE ProvCheck(c)
    <3>1. ~Relocks(c) /\ db' = db
      BY <1>4, <2>1 DEF ProvCheck, Relocks, Restores
    <3> QED
      BY <3>1, OpenAside DEF OpenNow, Exists
  <2>2. CASE ProvUnlock(c)
    <3>1. pc[c] = "prov_unlock" /\ job' = job
      BY <2>2 DEF ProvUnlock, Exec
    <3>2. \/ pc'[c] = "prov_connect"
          \/ db' = db /\ ~Exists("base")
      BY <1>2, <1>6, <2>2 DEF ProvUnlock, Exec, Refused
    <3>3. pc'[c] = "prov_connect" => Relocks(c)'
      BY <1>6, <3>1 DEF Role, Relocks, Restores
    <3> QED
      BY <3>2, <3>3 DEF OpenStep, OpenNow, Exists
  <2>3. CASE ProvConnect(c) \/ ProvClose(c)
    <3>1. db' = db /\ pc[c] \in {"prov_connect", "prov_close"} /\ ~ProvCheck(c)
      BY <2>3 DEF ProvConnect, ProvClose, ProvCheck
    <3>2. CASE job[c].locked
      <4>1. pc'[c] \in {"prov_close", "prov_relock"}
        BY <1>2, <2>3, <3>2 DEF ProvConnect, ProvClose, AfterRead
      <4> QED
        BY <1>3, <1>6, <3>1, <3>2, <4>1 DEF OpenStep, Relocks, Restores
    <3>3. CASE ~job[c].locked
      BY <1>4, <3>1, <3>3, OpenAside DEF Relocks, Restores, OpenNow, Exists
    <3> QED
      BY <3>2, <3>3
  <2>4. CASE ProvRelock(c)
    <3>1. \/ Exists("base") /\ db' = WithOpen("base", FALSE)
          \/ ~Exists("base") /\ db' = db
      BY <1>6, <2>4 DEF ProvRelock, Exec, Refused
    <3>2. Exists("base") /\ db' = WithOpen("base", FALSE) => ~OpenNow'
      BY <1>1, OpenPut DEF OpenNow
    <3> QED
      BY <3>1, <3>2 DEF OpenStep, OpenNow, Exists
  <2> QED
    BY <2>1, <2>2, <2>3, <2>4 DEF ReadProvenance
<1> QED
  BY <1>1, <1>5, <1>6

LEMMA BuildOpens ==
    ASSUME Types, NEW c \in Clients, Build(c), ~Fails
    PROVE  OpenStep(c)
<1>1. JobT /\ PcType /\ DbType /\ job[c].tgt \in {"base", "next"} /\ "base" \in DbNames \ {"next"}
  BY TypesParts, NamesFacts, DbNamesFacts
<1>2. \A p : Goto(c, p) => pc'[c] = p
  BY <1>1, GoesTo
<1>3. CASE Create(c) \/ ReadOld(c) \/ AssertSeeded(c) \/ Close(c) \/ Cleanup(c)
  <2>1. db' = db /\ pc[c] \in {"create", "old", "assert", "close", "cleanup"}
    BY <1>3 DEF Create, Query, ReadOld, AssertSeeded, Close, Cleanup, Exec
  <2>2. ~Relocks(c)
    BY <2>1 DEF Relocks, Restores, WillLock
  <2> QED
    BY <2>1, <2>2, OpenAside DEF OpenNow, Exists
<1>4. CASE job[c].tgt = "next" /\ ~(Create(c) \/ ReadOld(c) \/ AssertSeeded(c) \/ Close(c) \/ Cleanup(c))
  <2>1. pc[c] \in {"createdb", "migrate", "migrating", "stamp", "lock", "drop"}
    BY <1>4 DEF Build, CreateDb, Migrate, Migrated, Begins, Finishes, Stamp, Lock, Drop, Exec
  <2>2. ~Relocks(c)
    BY <1>4, <2>1 DEF Relocks, Restores, WillLock
  <2>3. CASE db' = db
    BY <2>2, <2>3, OpenAside DEF OpenNow, Exists
  <2>4. CASE Others("next")
    BY <1>1, <2>2, <2>4, OpenAside DEF OpenNow, Exists, Others
  <2>5. Drop(c) => Others("next") \/ db' = db
    BY <1>1, <1>4, DropPut, DbNamesFacts DEF Drop, Exec
  <2> QED
    BY <1>1, <1>4, <2>3, <2>4, <2>5, CreateDbDoes, MigrateDoes, MigratedDoes, StampDoes, LockDoes
    DEF Build, Stable
<1>5. CASE job[c].tgt = "base"
  <2>1. CASE CreateDb(c)
    <3>1. /\ pc[c] = "createdb" /\ job' = job
          /\ db' = db \/ pc'[c] = "migrate"
      BY <1>5, <2>1, CreateDbDoes
    <3>2. ~Relocks(c)
      BY <3>1 DEF Relocks, Restores, WillLock
    <3>3. pc'[c] = "migrate" => Relocks(c)'
      BY <1>5, <3>1 DEF Relocks, WillLock
    <3> QED
      BY <3>1, <3>2, <3>3 DEF OpenStep, OpenNow, Exists
  <2>2. CASE Migrate(c)
    <3>1. job'[c].tgt = "base"
      BY <1>5, <2>2, MigrateDoes
    <3>2. \/ pc'[c] = "migrating"
          \/ ~OpenNow /\ db' = db
      BY <1>2, <1>5, <2>2 DEF Migrate, Begins, Refused, Reaches, OpenNow
    <3>3. pc'[c] = "migrating" => Relocks(c)'
      BY <3>1 DEF Relocks, WillLock
    <3> QED
      BY <3>2, <3>3 DEF OpenStep, OpenNow, Exists
  <2>3. CASE Migrated(c)
    <3>1. pc[c] = "migrating" /\ job' = job
      BY <2>3 DEF Migrated, Finishes
    <3>2. \/ pc'[c] \in {"migrating", "stamp"}
          \/ ~OpenNow /\ db' = db
      BY <1>2, <1>5, <2>3, <3>1 DEF Migrated, Finishes, Refused, Reaches, OpenNow, Staging
    <3>3. pc'[c] \in {"migrating", "stamp"} => Relocks(c)'
      BY <1>5, <3>1 DEF Relocks, WillLock
    <3> QED
      BY <3>2, <3>3 DEF OpenStep, OpenNow, Exists
  <2>4. CASE Stamp(c)
    <3>1. job' = job
      BY <2>4 DEF Stamp
    <3>2. \/ pc'[c] = "lock"
          \/ ~OpenNow /\ db' = db
      BY <1>2, <1>5, <2>4 DEF Stamp, Refused, Reaches, OpenNow, Staging
    <3>3. pc'[c] = "lock" => Relocks(c)'
      BY <1>5, <3>1 DEF Relocks, WillLock
    <3> QED
      BY <3>2, <3>3 DEF OpenStep, OpenNow, Exists
  <2>5. CASE Lock(c)
    <3>1. \/ Exists("base") /\ db' = WithOpen("base", FALSE)
          \/ ~Exists("base") /\ db' = db
      BY <1>5, <2>5 DEF Lock, Exec, Refused
    <3>2. Exists("base") /\ db' = WithOpen("base", FALSE) => ~OpenNow'
      BY <1>1, OpenPut DEF OpenNow
    <3> QED
      BY <3>1, <3>2 DEF OpenStep, OpenNow, Exists
  <2>6. CASE Drop(c)
    <3>1. pc[c] = "drop" /\ (db' = db \/ db' = Without("base"))
      BY <1>5, <2>6 DEF Drop, Exec
    <3>2. ~Relocks(c)
      BY <3>1 DEF Relocks, Restores, WillLock
    <3>3. db' = Without("base") => ~Exists("base")'
      BY <1>1, DropPut
    <3> QED
      BY <3>1, <3>2, <3>3, OpenAside DEF OpenNow, Exists
  <2> QED
    BY <1>3, <2>1, <2>2, <2>3, <2>4, <2>5, <2>6 DEF Build
<1> QED
  BY <1>1, <1>3, <1>4, <1>5

LEMMA SeedOpens ==
    ASSUME Types, NEW m, NEW c \in Clients, Role(m, c), Seed(c), ~Fails
    PROVE  OpenStep(c)
<1>1. JobT /\ PcType /\ DbType /\ "base" \in DbNames \ {"next"}
  BY TypesParts, DbNamesFacts
<1>2. \A p : Goto(c, p) => pc'[c] = p
  BY <1>1, GoesTo
<1>3. CASE SeedCheck(c)
  <2>1. pc[c] = "seed_check" /\ db' = db
    BY <1>3 DEF SeedCheck, Query
  <2>2. ~Relocks(c)
    BY <2>1 DEF Relocks, Restores, WillLock
  <2> QED
    BY <2>1, <2>2, OpenAside DEF OpenNow, Exists
<1>4. CASE SeedUnlock(c)
  <2>1. pc[c] = "seed_unlock" /\ job' = job
    BY <1>4 DEF SeedUnlock, Exec
  <2>2. \/ pc'[c] = "seed"
        \/ ~Exists("base") /\ db' = db
    BY <1>2, <1>4 DEF SeedUnlock, Exec, Refused
  <2>3. pc'[c] = "seed" => Relocks(c)'
    BY <2>1 DEF Role, Relocks, WillLock
  <2> QED
    BY <2>2, <2>3 DEF OpenStep, OpenNow, Exists
<1>5. CASE Relock(c)
  <2>1. \/ Exists("base") /\ db' = WithOpen("base", FALSE)
        \/ ~Exists("base") /\ db' = db
    BY <1>5 DEF Relock, Exec, Refused
  <2>2. Exists("base") /\ db' = WithOpen("base", FALSE) => ~OpenNow'
    BY <1>1, OpenPut DEF OpenNow
  <2> QED
    BY <2>1, <2>2 DEF OpenStep, OpenNow, Exists
<1>6. CASE SeedStamp(c)
  <2>1. pc'[c] = "relock"
    BY <1>2, <1>6 DEF SeedStamp
  <2> QED
    BY <2>1 DEF OpenStep, Relocks, WillLock
<1>7. CASE (SeedBegin(c) \/ SeedEnd(c)) /\ job[c].op = "seed"
  <2>1. FailedSeed(c) = "relock" /\ AfterSeed(c) = "seed_stamp"
    BY <1>7 DEF FailedSeed, AfterSeed
  <2>2. pc[c] \in {"seed", "seeding"}
    BY <1>7 DEF SeedBegin, SeedEnd, Begins, Finishes
  <2>3. job[c].tgt = "base"
    BY <1>7, <2>2 DEF Role
  <2>4. pc'[c] \in {"seeding", "relock", "seed_stamp"} /\ job'[c].op = "seed"
    BY <1>7, <2>1, <2>3, SeedBeginDoes, SeedEndDoes DEF KeepsJob
  <2> QED
    BY <2>4 DEF OpenStep, Relocks, WillLock
<1>8. CASE (SeedBegin(c) \/ SeedEnd(c)) /\ job[c].op # "seed"
  <2>1. pc[c] \in {"seed", "seeding"}
    BY <1>8 DEF SeedBegin, SeedEnd, Begins, Finishes
  <2>2. job[c].tgt = "next" /\ ~Relocks(c)
    BY <1>8, <2>1 DEF Role, Relocks, Restores, WillLock
  <2>3. db' = db \/ Others("next")
    BY <1>8, <2>2, SeedBeginDoes, SeedEndDoes, SMTT(30) DEF Stable
  <2> QED
    BY <1>1, <2>2, <2>3, OpenAside DEF OpenNow, Exists, Others
<1> QED
  BY <1>3, <1>4, <1>5, <1>6, <1>7, <1>8 DEF Seed

LEMMA OthersOpen ==
    ASSUME Types, NEW m, NEW c \in Clients, Role(m, c), Locked("next") \/ pc[c] # "swap_rename",
           Start(c) \/ End(c) \/ Up(c) \/ Reset(c) \/ Swap(c)
    PROVE  OpenStep(c)
<1>1. JobT /\ PcType /\ DbType /\ "base" \in DbNames \ {"next"} /\ job[c].tgt \in {"base", "next"}
      /\ \A i \in Insts : "base" \in DbNames \ {i}
  BY TypesParts, DbNamesFacts, NamesFacts
<1>2. ~Relocks(c)
  <2>1. pc[c] \in {"idle", "info", "info_done", "reset_check", "reset_term", "reset_drop", "refresh",
                   "refresh_next", "ready"} \cup Ends \cup ClonePhases \cup SwapPhases
    BY DEF Start, End, Up, Info, InfoDone, CloneCheck, Clone, CloneStamp, CloneDrop, Exec, Query,
      Reset, ResetCheck, ResetTerm, ResetDrop, Swap, Refresh, RefreshNext, Ready, SwapTerm, SwapDrop,
      SwapAgain, SwapRename, ClonePhases, SwapPhases
  <2> QED
    BY <2>1, SMTT(30) DEF Relocks, Restores, WillLock, Ends, ClonePhases, SwapPhases
<1>3. CASE db' = db
  BY <1>2, <1>3, OpenAside DEF OpenNow, Exists
<1>4. CASE Up(c) /\ db' # db
  <2>1. PICK i \in Insts : i = job[c].inst
    BY <1>4 DEF Role, ClonePhases, Up, Info, InfoDone, CloneCheck, Clone, CloneStamp, CloneDrop,
      Exec, Query
  <2>2. \E r : db' = [db EXCEPT ![i] = r]
    BY <1>4, <2>1 DEF Up, Info, InfoDone, CloneCheck, Clone, CloneStamp, CloneDrop, Exec, Query,
      Without
  <2>3. db'["base"] = db["base"]
    BY <1>1, <2>2 DEF DbType
  <2> QED
    BY <1>2, <2>3, OpenAside DEF OpenNow, Exists
<1>5. CASE SwapRename(c) /\ db' # db
  <2>1. db' = Renamed /\ Exists("next") /\ pc[c] = "swap_rename"
    BY <1>5 DEF SwapRename, Exec, Droppable
  <2>2. ~OpenNow'
    BY <1>1, <2>1, RenamePut DEF OpenNow, Locked
  <2> QED
    BY <2>2 DEF OpenStep
<1>6. ASSUME NEW d \in {"base", "next"}, db' = Without(d) PROVE OpenStep(c)
  <2>1. Others(d) /\ ~Exists(d)'
    BY <1>1, <1>6, DropPut, DbNamesFacts
  <2> QED
    BY <1>1, <1>2, <2>1, OpenAside DEF OpenNow, Exists, Others
<1> QED
  BY <1>1, <1>3, <1>4, <1>5, <1>6 DEF Start, End, Reset, ResetCheck, ResetTerm, ResetDrop, Swap, Refresh,
    RefreshNext, Ready, SwapTerm, SwapDrop, SwapAgain, Exec, Query

LEMMA OpenKept ==
    ASSUME NEW m, Sole(m), Control(m), OpenForNow, NEW c \in Clients, Step(c) \/ Crash(c)
    PROVE  OpenForNow'
<1>1. Types /\ Role(m, c) /\ JobT /\ PcType /\ DbType /\ Counts /\ Connected
  BY TypesParts DEF Control
<1>2. \A e \in Clients \ {c} : pc'[e] = pc[e] /\ job'[e] = job[e]
  BY <1>1, PcOthers, JobKept
<1>3. Smooth' => Smooth /\ ~Fails /\ ~Crash(c)
  BY <1>1, SmoothStep
<1>4. Locked("next") \/ pc[c] # "swap_rename"
  <2>1. ASSUME pc[c] = "swap_rename" PROVE c = m
    BY <1>1, <2>1 DEF Role, SwapPhases, Changing
  <2> QED
    BY <2>1 DEF Control, NextIsReady, Staged, SwapPhases
<1>5. ASSUME Smooth' PROVE OpenStep(c)
  BY <1>1, <1>3, <1>4, <1>5, ProvOpens, BuildOpens, SeedOpens, OthersOpen DEF Step
<1> QED
  BY <1>2, <1>3, <1>5, OpenIf

-----------------------------------------------------------------------------

(***************************************************************************)
(* If nothing fails                                                        *)
(***************************************************************************)

LEMMA CopiesWhole ==
    ASSUME Kin, Exists("base") => Whole("base"), \A i \in Insts : Exists(i) => Whole(i)
    PROVE  \A i \in Insts : Exists(i)' => Whole(i)'
<1> SUFFICES ASSUME NEW i \in Insts, Exists(i)' PROVE Whole(i)'
  OBVIOUS
<1>1. CASE Exists(i) /\ db'[i] = db[i]
  BY <1>1 DEF Whole
<1>2. CASE Copied(i)
  BY <1>2 DEF Whole, Copied
<1> QED
  BY <1>1, <1>2 DEF Kin

\* Phases before which the base must be there.
LEMMA SmoothMoves ==
    ASSUME Types, NEW m \in Clients, Role(m, m), Upkeep(m), Step(m), ~Fails, ~Reset(m),
           job[m].op # "seed", RefreshOnly', begun \subseteq begun',
           Exists("base") \/ pc[m] = "swap_rename"
    PROVE  /\ pc'[m] # "create"
           /\ pc[m] = "swap_rename" => db' = Renamed /\ Droppable("next") /\ pc'[m] = "ok"
<1>1. PcType /\ JobT
  BY TypesParts
<1>2. \A p : Goto(m, p) => pc'[m] = p
  BY <1>1, GoesTo
<1>3. pc'[m] # "create"
  <2>1. CASE Start(m)
    <3>1. PICK op \in Commands : begun' = begun \cup {op} /\ pc'[m] = FirstPhase[op]
      BY <1>1, <2>1, StartFacts
    <3>2. op \in {"refresh", "status", "up"}
      BY <3>1 DEF RefreshOnly
    <3> QED
      BY <3>1, <3>2 DEF FirstPhase
  <2>2. CASE End(m) \/ Up(m) \/ ReadProvenance(m)
    <3>1. Looks(m) => Rests(m)'
      BY LooksRests
    <3>2. ReadProvenance(m) => pc[m] \in ProvPhases
      BY <1>1, ProvFacts
    <3>3. ASSUME ReadProvenance(m), NEW read, NEW ver
          PROVE Back(m, read, ver) \in {"info_done", "swap_term", "err", "stamp", "cleanup"}
      BY <3>2, <3>3, BackIs
    <3>4. CASE ReadProvenance(m)
      BY <1>2, <3>3, <3>4, ZenonT(60) DEF ReadProvenance, ProvCheck, ProvUnlock, ProvConnect, ProvClose,
        ProvRelock, Exec, AfterRead
    <3>5. CASE End(m)
      BY <1>2, <3>5 DEF End
    <3>6. CASE Up(m)
      BY <1>2, <3>6 DEF Up, Info, InfoDone, CloneCheck, Clone, CloneStamp, CloneDrop, Exec, Query
    <3> QED
      BY <2>2, <3>4, <3>5, <3>6
  <2>3. CASE Build(m)
    <3>1. Migrate(m) => pc'[m] \in {"migrating", "cleanup"}
      BY <1>2 DEF Migrate, Begins
    <3> QED
      BY <1>2, <2>3, <3>1 DEF Build, Create, CreateDb, Migrated, Finishes, ReadOld, Reads, Stamp,
        AssertSeeded, Lock, Close, Cleanup, Drop, Exec, Query
  <2>4. CASE Seed(m)
    <3>1. FailedSeed(m) = "cleanup" /\ AfterSeed(m) = "assert"
      BY DEF FailedSeed, AfterSeed
    <3> QED
      BY <1>2, <2>4, <3>1 DEF Seed, SeedCheck, SeedUnlock, SeedBegin, SeedEnd, SeedStamp, Relock,
        Begins, Finishes, Exec, Query
  <2>5. CASE Swap(m)
    BY <1>2, <2>5 DEF Swap, Refresh, RefreshNext, Ready, Reads, SwapTerm, SwapDrop, SwapAgain,
      SwapRename, Exec, Query
  <2> QED
    BY <2>1, <2>2, <2>3, <2>4, <2>5 DEF Step
<1>4. ASSUME pc[m] = "swap_rename"
      PROVE  db' = Renamed /\ Droppable("next") /\ pc'[m] = "ok"
  <2>1. SwapRename(m)
    BY <1>4 DEF Step, Start, End, Ends, ReadProvenance, ProvCheck, ProvUnlock, ProvConnect, ProvClose,
      ProvRelock, Up, Info, InfoDone, CloneCheck, Clone, CloneStamp, CloneDrop, Build, Create,
      CreateDb, Migrate, Migrated, ReadOld, Stamp, AssertSeeded, Lock, Close, Cleanup, Drop, Seed,
      SeedCheck, SeedUnlock, SeedBegin, SeedEnd, SeedStamp, Relock, Begins, Finishes, Swap, Refresh,
      RefreshNext, Ready, SwapTerm, SwapDrop, SwapAgain, Exec, Query
  <2>2. Droppable("next") /\ ~Exists("base")
    <3>1. UsersOf("next") = {}
      BY <1>4, NoUsersIf DEF Upkeep, NextUsers, Fills, ReadsReady, ProvPhases
    <3> QED
      BY <1>4, <3>1 DEF Upkeep, NextIsReady, BaseStays, Staged, SwapPhases, Locked, Droppable
  <2> QED
    BY <1>2, <2>1, <2>2 DEF SwapRename, Exec, Refused
<1> QED
  BY <1>3, <1>4

LEMMA ClonableKept ==
    ASSUME NEW m, Sole(m), Control(m), Control(m)', Clonable(m), NEW c \in Clients,
           Step(c) \/ Crash(c)
    PROVE  Clonable(m)'
<1>1. /\ Types /\ m \in Clients /\ Role(m, m) /\ Role(m, c) /\ JobT /\ PcType /\ DbType
      /\ Counts /\ Connected /\ begun \subseteq begun' /\ Upkeep(m)
  BY TypesParts, CountsKept DEF Control, Sole, Upkeep
<1>2. "base" \in DbNames \ {"next"} /\ "next" \in DbNames
      /\ \A i \in Insts : i \in DbNames \ {"base", "next"}
  BY DbNamesFacts
<1> SUFFICES ASSUME Smooth', RefreshOnly'
             PROVE  /\ IF Exists("base")' THEN Whole("base")' ELSE pc'[m] = "swap_rename"
                    /\ Building(m)' => job'[m].tgt = "next"
                    /\ pc'[m] # "create"
                    /\ \A i \in Insts : Exists(i)' => Whole(i)'
  BY DEF Clonable
<1>3. Smooth /\ RefreshOnly /\ ~Fails /\ Step(c)
  BY <1>1, SmoothStep DEF RefreshOnly
<1>4. /\ IF Exists("base") THEN Whole("base") ELSE pc[m] = "swap_rename"
      /\ Building(m) => job[m].tgt = "next"
      /\ pc[m] # "create"
      /\ \A i \in Insts : Exists(i) => Whole(i)
  BY <1>3 DEF Clonable
<1>5. CASE c # m
  <2>1. Calm /\ pc'[m] = pc[m] /\ job'[m] = job[m]
    BY <1>1, <1>5, OthersLook, LooksAreCalm, PcOthers, JobKept
  <2>2. (Whole("base")' <=> Whole("base")) /\ (Exists("base")' <=> Exists("base"))
    BY <2>1, WholeStays DEF Calm, Same
  <2>3. Building(m)' <=> Building(m)
    BY <2>1 DEF Building, ReadsOld
  <2>4. \A i \in Insts : Exists(i)' => Whole(i)'
    BY <1>4, <2>1, CopiesWhole DEF Calm
  <2> QED
    BY <1>4, <2>1, <2>2, <2>3, <2>4
<1>6. CASE c = m
  <2>1. ~Reset(m) /\ job[m].op # "seed" /\ Step(m)
    BY <1>1, <1>3, <1>6, OnlyRefreshes
  <2>2. /\ pc'[m] # "create"
        /\ pc[m] = "swap_rename" => db' = Renamed /\ Droppable("next") /\ pc'[m] = "ok"
    BY <1>1, <1>3, <1>4, <2>1, SmoothMoves
  <2>3. CASE pc[m] = "swap_rename"
    <3>1. Exists("next") /\ Whole("next")
      BY <2>3 DEF Control, NextIsReady, Staged, SwapPhases, Locked
    <3>2. Whole("base")' /\ \A i \in Insts : db'[i] = db[i]
      BY <1>1, <2>2, <2>3, <3>1, RenamePut DEF Whole
    <3>3. ~Building(m)'
      BY <2>2, <2>3 DEF Building, BuildPhases, ReadsOld, ProvPhases
    <3>4. \A i \in Insts : Exists(i)' => Whole(i)'
      BY <1>4, <3>2 DEF Exists, Whole
    <3> QED
      BY <2>2, <3>2, <3>3, <3>4 DEF Whole
  <2>4. CASE Calm /\ pc[m] # "swap_rename"
    <3>1. Exists("base")' /\ Whole("base")'
      BY <1>4, <2>4, WholeStays DEF Calm, Same
    <3>2. Building(m)' => job'[m].tgt = "next"
      <4>1. Building(m)' =>
               \/ Building(m) /\ job'[m].tgt = job[m].tgt
               \/ job'[m].tgt = "base" /\ ~Exists("base")
               \/ job'[m].tgt = "next"
        BY <1>1, <2>1, BuildingComes
      <4> QED
        BY <1>4, <2>4, <4>1
    <3>3. \A i \in Insts : Exists(i)' => Whole(i)'
      BY <1>4, <2>4, CopiesWhole DEF Calm
    <3> QED
      BY <2>2, <3>1, <3>2, <3>3
  <2>5. ASSUME NEW d \in {"base", "next"}, Makes(m, d), pc[m] # "swap_rename"
        PROVE  /\ Exists("base")' /\ Whole("base")'
               /\ Building(m)' => job'[m].tgt = "next"
               /\ \A i \in Insts : Exists(i)' => Whole(i)'
    <3>1. d = "next" /\ job'[m].tgt = "next" /\ Others("next")
      BY <1>4, <2>5 DEF Makes
    <3>2. db'["base"] = db["base"] /\ \A i \in Insts : db'[i] = db[i]
      BY <1>2, <3>1 DEF Others
    <3>3. \A i \in Insts : Exists(i)' => Whole(i)'
      BY <1>4, <3>2 DEF Exists, Whole
    <3> QED
      BY <1>4, <2>5, <3>1, <3>2, <3>3 DEF Exists, Whole
  <2>6. CASE SwapDrop(m) /\ db' = Without("base") /\ pc'[m] = "swap_rename"
    <3>1. ~Exists("base")' /\ \A i \in Insts : db'[i] = db[i]
      BY <1>1, <1>2, <2>6, DropPut DEF Others
    <3>2. ~Building(m)'
      BY <2>6 DEF Building, BuildPhases, ReadsOld, ProvPhases
    <3>3. \A i \in Insts : Exists(i)' => Whole(i)'
      BY <1>4, <3>1 DEF Exists, Whole
    <3> QED
      BY <2>6, <3>1, <3>2, <3>3
  <2>7. SwapRename(m) => pc[m] = "swap_rename"
    BY DEF SwapRename, Exec
  <2>8. \/ Calm
        \/ \E d \in {"base", "next"} : Makes(m, d)
        \/ SwapDrop(m) /\ db' = Without("base") /\ pc'[m] = "swap_rename"
        \/ SwapRename(m)
    BY <1>1, <2>1, DataSteps
  <2> QED
    BY <2>2, <2>3, <2>4, <2>5, <2>6, <2>7, <2>8
<1> QED
  BY <1>5, <1>6

\* What a refresh has read is the version of the base it replaces.
LEMMA VersionRead ==
    ASSUME Types, NEW m \in Clients, Role(m, m), Upkeep(m), Step(m), ~Reset(m), job[m].op # "seed",
           Building(m) => job[m].tgt = "next",
           ReadVersion(m),
           pc'[m] = "stamp" \/ (ReadsOld(m)' /\ job'[m].read)
    PROVE  Calm /\ Exists("base") /\ job'[m].ver = db["base"].ver
<1>1. JobT /\ PcType
  BY TypesParts
<1>2. \A p : Goto(m, p) => pc'[m] = p
  BY <1>1, GoesTo
<1>3. ASSUME Looks(m) PROVE FALSE
  <2>1. Rests(m)'
    BY <1>3, LooksRests
  <2> QED
    BY <2>1 DEF Rests, RestPhases, ClonePhases, ReadsOld, ProvPhases
<1>4. ASSUME Build(m) PROVE FALSE
  <2>1. CASE ReadOld(m)
    <3>1. pc'[m] = "prov" /\ ~job'[m].read
      BY <1>1, <2>1, ReadsFacts DEF ReadOld
    <3> QED
      BY <3>1
  <2>2. CASE Migrated(m)
    <3>1. Staging(m)
      BY <2>2 DEF Migrated, Finishes, Building, BuildPhases, Staging
    <3>2. pc'[m] \in {"migrating", "old", "cleanup"}
      BY <1>2, <2>2, <3>1 DEF Migrated, Finishes
    <3> QED
      BY <3>2 DEF ReadsOld, ProvPhases
  <2>3. CASE Migrate(m)
    <3>1. pc'[m] \in {"migrating", "cleanup"}
      BY <1>2, <2>3 DEF Migrate, Begins
    <3> QED
      BY <3>1 DEF ReadsOld, ProvPhases
  <2>4. CASE ~(ReadOld(m) \/ Migrated(m) \/ Migrate(m))
    <3>1. pc'[m] \in {"createdb", "ok", "err", "migrate", "seed", "lock", "cleanup", "close",
                      "swap_term", "drop"}
      BY <1>2, <1>4, <2>4 DEF Build, Create, CreateDb, Stamp, AssertSeeded, Lock, Close, Cleanup,
        Drop, Exec, Query
    <3> QED
      BY <3>1 DEF ReadsOld, ProvPhases
  <2> QED
    BY <2>1, <2>2, <2>3, <2>4
<1>5. ASSUME Seed(m) PROVE FALSE
  <2>1. FailedSeed(m) = "cleanup" /\ AfterSeed(m) = "assert"
    BY DEF FailedSeed, AfterSeed
  <2>2. pc'[m] \in {"seed_unlock", "err", "seed", "seeding", "cleanup", "assert", "relock", "ok"}
    BY <1>2, <1>5, <2>1 DEF Seed, SeedCheck, SeedUnlock, SeedBegin, SeedEnd, SeedStamp, Relock,
      Begins, Finishes, Exec, Query
  <2> QED
    BY <2>2 DEF ReadsOld, ProvPhases
<1>6. ASSUME Swap(m) PROVE FALSE
  <2>1. CASE Ready(m)
    <3>1. \/ pc'[m] = "prov" /\ job'[m].ret = "ready"
          \/ pc'[m] = "err"
      BY <1>1, <1>2, <2>1, ReadsFacts DEF Ready
    <3> QED
      BY <3>1 DEF ReadsOld, ProvPhases
  <2>2. CASE ~Ready(m)
    <3>1. pc'[m] \in {"refresh_next", "create", "err", "swap_drop", "swap_rename", "deferred",
                      "swap_again", "ok", "ready", "createdb"}
      BY <1>2, <1>6, <2>2 DEF Swap, Refresh, RefreshNext, SwapTerm, SwapDrop, SwapAgain,
        SwapRename, Exec, Query
    <3> QED
      BY <3>1 DEF ReadsOld, ProvPhases
  <2> QED
    BY <2>1, <2>2
<1>7. ReadProvenance(m) /\ job[m].ret # "info"
  BY <1>3, <1>4, <1>5, <1>6 DEF Step, Looks
<1>8. pc[m] \in ProvPhases /\ job'[m].ret = job[m].ret /\ Calm
  BY <1>1, <1>7, ProvFacts, ReadsAreCalm
<1>9. job[m].ret = "old" /\ job[m].of = "base"
  <2>1. ASSUME job[m].ret = "ready" PROVE FALSE
    <3>1. \A read, ver : Back(m, read, ver) \in {"swap_term", "err"}
      BY <1>8, <2>1, BackIs
    <3>2. pc'[m] \in ProvPhases \cup {"swap_term", "err"}
      BY <1>2, <1>7, <3>1, ZenonT(60) DEF ReadProvenance, ProvCheck, ProvUnlock, ProvConnect, ProvClose,
        ProvRelock, Exec, AfterRead, ProvPhases
    <3>3. pc'[m] # "stamp"
      BY <3>2 DEF ProvPhases
    <3> QED
      BY <1>8, <2>1, <3>3 DEF ReadsOld
  <2> QED
    BY <1>7, <1>8, <2>1 DEF Role
<1>10. ReadsOld(m) /\ Building(m)
  BY <1>8, <1>9 DEF ReadsOld, Building
<1>11. Exists("base")
  BY <1>10 DEF Upkeep, BaseStays
<1>12. \A ver : Back(m, FALSE, ver) = "cleanup"
  BY <1>9 DEF Back
<1>13. CASE job'[m].ver = job[m].ver /\ job'[m].read = job[m].read
  <2>1. pc'[m] = "stamp" => job[m].read
    <3>1. CASE ProvClose(m)
      <4>1. \/ job' = [job EXCEPT ![m] = [job[m] EXCEPT !.read = TRUE, !.ver = db["base"].ver]]
            \/ pc'[m] \in {"prov_relock", "cleanup"}
        BY <1>2, <1>9, <1>12, <3>1 DEF ProvClose, AfterRead
      <4>2. ASSUME NEW ver, job' = [job EXCEPT ![m] = [job[m] EXCEPT !.read = TRUE, !.ver = ver]]
            PROVE  job'[m].read
        <5>1. job[m] \in JobType /\ job'[m] = [job[m] EXCEPT !.read = TRUE, !.ver = ver]
          BY <1>1, <4>2, Zenon DEF JobT
        <5> QED
          BY <5>1, Zenon DEF JobType
      <4> QED
        BY <1>13, <4>1, <4>2
    <3>2. CASE ProvRelock(m)
      <4>1. \A read, ver : read \/ Back(m, read, ver) = "cleanup"
        BY <1>9 DEF Back
      <4> QED
        BY <1>2, <3>2, <4>1 DEF ProvRelock, Exec
    <3>3. CASE ProvCheck(m) \/ ProvUnlock(m) \/ ProvConnect(m)
      <4>1. pc'[m] \in ProvPhases \cup {"cleanup"}
        BY <1>2, <1>12, <3>3 DEF ProvCheck, ProvUnlock, ProvConnect, Exec, AfterRead, ProvPhases
      <4> QED
        BY <4>1 DEF ProvPhases
    <3> QED
      BY <1>7, <3>1, <3>2, <3>3 DEF ReadProvenance
  <2> QED
    BY <1>8, <1>10, <1>11, <1>13, <2>1 DEF ReadsOld, ReadVersion
<1>14. CASE ~(job'[m].ver = job[m].ver /\ job'[m].read = job[m].read)
  <2>1. PICK ver : ver = db["base"].ver
    OBVIOUS
  <2>2. job' = [job EXCEPT ![m] = [job[m] EXCEPT !.read = TRUE, !.ver = ver]]
    <3>1. ProvClose(m) /\ job' # job
      BY <1>1, <1>7, <1>14, ProvFacts
    <3> QED
      BY <1>1, <1>9, <2>1, <3>1, Zenon DEF ProvClose, JobT
  <2>3. job[m] \in JobType /\ job'[m] = [job[m] EXCEPT !.read = TRUE, !.ver = ver]
    BY <1>1, <2>2, Zenon DEF JobT
  <2>4. job'[m].ver = ver
    BY <2>3, Zenon DEF JobType
  <2> QED
    BY <1>8, <1>11, <2>1, <2>4
<1> QED
  BY <1>13, <1>14

LEMMA VersionsAreNumbers ==
    ASSUME DbType, NEW d \in DbNames, Exists(d) PROVE db[d].ver \in Nat
BY ExistsFacts DEF Database

LEMMA CalmVersions ==
    ASSUME DbType, Calm, LaterNext, OlderCopies PROVE LaterNext' /\ OlderCopies'
<1>1. /\ Exists("base")' <=> Exists("base")
      /\ Exists("base") => db'["base"].ver = db["base"].ver /\ db'["base"].id = db["base"].id
      /\ Exists("next")' <=> Exists("next")
      /\ Exists("next") => db'["next"].ver = db["next"].ver
  BY DEF Calm, Same
<1>2. Exists("base") => db["base"].ver \in Nat
  BY DbNamesFacts, VersionsAreNumbers
<1>3. \A i \in Insts : Exists(i)' => \/ Exists(i) /\ db'[i] = db[i]
                                     \/ /\ Exists("base") /\ db'[i].ver = db["base"].ver
                                        /\ db'[i].id = db["base"].id
  BY DEF Calm, Kin, Copied
<1>4. LaterNext'
  <2> SUFFICES ASSUME Exists("next")', db'["next"].ver # 0
               PROVE  /\ Exists("base")' => db'["next"].ver = db'["base"].ver + 1
                      /\ \A i \in Insts : Exists(i)' => db'[i].ver < db'["next"].ver
    BY DEF LaterNext
  <2>1. /\ Exists("base") => db["next"].ver = db["base"].ver + 1
        /\ \A i \in Insts : Exists(i) => db[i].ver < db["next"].ver
    BY <1>1 DEF LaterNext
  <2>2. ASSUME NEW i \in Insts, Exists(i)' PROVE db'[i].ver < db["next"].ver
    <3>1. CASE Exists(i) /\ db'[i] = db[i]
      BY <2>1, <3>1
    <3>2. CASE Exists("base") /\ db'[i].ver = db["base"].ver
      BY <1>2, <2>1, <3>2
    <3> QED
      BY <1>3, <2>2, <3>1, <3>2
  <2> QED
    BY <1>1, <2>1, <2>2
<1>5. OlderCopies'
  <2> SUFFICES ASSUME Exists("base")', NEW i \in Insts, Exists(i)'
               PROVE  /\ db'[i].ver <= db'["base"].ver
                      /\ db'[i].ver = db'["base"].ver => db'[i].id = db'["base"].id
    BY DEF OlderCopies
  <2>1. CASE Exists(i) /\ db'[i] = db[i]
    BY <1>1, <2>1 DEF OlderCopies
  <2>2. CASE db'[i].ver = db["base"].ver /\ db'[i].id = db["base"].id
    BY <1>1, <1>2, <2>2
  <2> QED
    BY <1>3, <2>1, <2>2
<1> QED
  BY <1>4, <1>5

\* A base_next that is being built gets the version after the base's.
LEMMA MadeVersions ==
    ASSUME DbType, NEW m, Makes(m, "next"), LaterNext, OlderCopies, ReadVersion(m), Exists("base")
    PROVE  LaterNext' /\ OlderCopies' /\ ReadVersion(m)'
<1>1. Others("next") /\ "base" \in DbNames \ {"next"} /\ \A i \in Insts : i \in DbNames \ {"next"}
  BY DbNamesFacts DEF Makes
<1>2. db'["base"] = db["base"] /\ \A i \in Insts : db'[i] = db[i]
  BY <1>1 DEF Others
<1>3. /\ Exists("base")' /\ db["base"].ver \in Nat
      /\ \A i \in Insts : (Exists(i)' <=> Exists(i)) /\ (Exists(i) => db[i].ver \in Nat)
  BY <1>1, <1>2, VersionsAreNumbers DEF Exists
<1>4. ReadVersion(m)'
  BY DEF ReadVersion, Makes, ReadsOld
<1>5. OlderCopies'
  BY <1>2, <1>3 DEF OlderCopies
<1>6. LaterNext'
  <2> SUFFICES ASSUME Exists("next")', db'["next"].ver # 0
               PROVE  /\ db'["next"].ver = db["base"].ver + 1
                      /\ \A i \in Insts : Exists(i) => db[i].ver < db'["next"].ver
    BY <1>2, <1>3 DEF LaterNext
  <2>1. CASE Exists("next") /\ db'["next"].ver = db["next"].ver
    BY <2>1 DEF LaterNext
  <2>2. CASE pc[m] = "stamp" /\ db'["next"].ver = job[m].ver + 1
    <3>1. db'["next"].ver = db["base"].ver + 1
      BY <2>2 DEF ReadVersion
    <3>2. \A i \in Insts : Exists(i) => db[i].ver <= db["base"].ver
      BY DEF OlderCopies
    <3> QED
      BY <1>3, <3>1, <3>2
  <2> QED
    BY <2>1, <2>2 DEF Makes
<1> QED
  BY <1>4, <1>5, <1>6

LEMMA VersionsKept ==
    ASSUME NEW m, Sole(m), Control(m), Clonable(m), Versions(m), NEW c \in Clients,
           Step(c) \/ Crash(c)
    PROVE  Versions(m)'
<1>1. /\ Types /\ m \in Clients /\ Role(m, m) /\ Role(m, c) /\ JobT /\ PcType /\ DbType
      /\ Counts /\ Connected /\ begun \subseteq begun' /\ Upkeep(m)
  BY TypesParts, CountsKept DEF Control, Sole, Upkeep
<1>2. "base" \in DbNames /\ "next" \in DbNames
      /\ \A i \in Insts : i \in DbNames \ {"base", "next"}
  BY DbNamesFacts
<1> SUFFICES ASSUME Smooth', RefreshOnly'
             PROVE  LaterNext' /\ OlderCopies' /\ ReadVersion(m)'
  BY DEF Versions
<1>3. Smooth /\ RefreshOnly /\ ~Fails /\ Step(c)
  BY <1>1, SmoothStep DEF RefreshOnly
<1>4. LaterNext /\ OlderCopies /\ ReadVersion(m)
  BY <1>3 DEF Versions
<1>5. /\ Exists("base") \/ pc[m] = "swap_rename"
      /\ Building(m) => job[m].tgt = "next"
  BY <1>3 DEF Clonable
<1>6. CASE c # m
  <2>1. Calm /\ pc'[m] = pc[m] /\ job'[m] = job[m]
    BY <1>1, <1>6, OthersLook, LooksAreCalm, PcOthers, JobKept
  <2>2. LaterNext' /\ OlderCopies'
    BY <1>1, <1>4, <2>1, CalmVersions
  <2>3. ASSUME ReadsOld(m) PROVE pc[m] # "swap_rename"
    BY <2>3 DEF ReadsOld, ProvPhases
  <2>4. ReadVersion(m)'
    BY <1>4, <1>5, <2>1, <2>3 DEF ReadVersion, ReadsOld, Calm, Same
  <2> QED
    BY <2>2, <2>4
<1>7. CASE c = m
  <2>1. ~Reset(m) /\ job[m].op # "seed" /\ Step(m)
    BY <1>1, <1>3, <1>7, OnlyRefreshes
  <2>2. CASE Calm
    <3>1. LaterNext' /\ OlderCopies'
      BY <1>1, <1>4, <2>2, CalmVersions
    <3>2. ReadVersion(m)'
      <4>1. ASSUME pc'[m] = "stamp" \/ (ReadsOld(m)' /\ job'[m].read)
            PROVE  Exists("base") /\ job'[m].ver = db["base"].ver
        BY <1>1, <1>4, <1>5, <2>1, <4>1, VersionRead
      <4> QED
        BY <2>2, <4>1 DEF ReadVersion, Calm, Same
    <3> QED
      BY <3>1, <3>2
  <2>3. ASSUME NEW d \in {"base", "next"}, Makes(m, d)
        PROVE  LaterNext' /\ OlderCopies' /\ ReadVersion(m)'
    <3>1. Building(m) /\ job[m].tgt = d
      BY <2>3 DEF Makes
    <3>2. d = "next"
      BY <1>5, <3>1
    <3>3. pc[m] # "swap_rename"
      BY <3>1 DEF Building, BuildPhases, ReadsOld, ProvPhases
    <3> QED
      BY <1>1, <1>4, <1>5, <2>3, <3>2, <3>3, MadeVersions
  <2>4. CASE SwapDrop(m) /\ db' = Without("base") /\ pc'[m] = "swap_rename"
    <3>1. ~Exists("base")' /\ db'["next"] = db["next"] /\ \A i \in Insts : db'[i] = db[i]
      BY <1>1, <1>2, <2>4, DropPut DEF Others
    <3>2. LaterNext' /\ OlderCopies'
      BY <1>4, <3>1 DEF LaterNext, OlderCopies, Exists
    <3>3. ReadVersion(m)'
      BY <2>4 DEF ReadVersion, ReadsOld, ProvPhases
    <3> QED
      BY <3>2, <3>3
  <2>5. CASE SwapRename(m) /\ db' = Renamed /\ Droppable("next") /\ pc'[m] = "ok"
    <3>1. Exists("next") /\ db["next"].ver # 0 /\ db["next"].ver \in Nat
      <4>1. Whole("next")
        BY <2>5 DEF Control, NextIsReady, Staged, SwapPhases, SwapRename, Exec
      <4> QED
        BY <1>1, <1>2, <4>1, VersionsAreNumbers DEF Whole
    <3>2. /\ \A i \in Insts : db'[i] = db[i]
          /\ db'["base"] = db["next"] /\ ~Exists("next")'
      BY <1>1, <2>5, <3>1, RenamePut
    <3>3. \A i \in Insts : Exists(i) => db[i].ver < db["next"].ver /\ db[i].ver \in Nat
      BY <1>1, <1>2, <1>4, <3>1, VersionsAreNumbers DEF LaterNext
    <3>4. \A i \in Insts : Exists(i)' => db'[i].ver < db'["base"].ver /\ db'[i].ver \in Nat
                                         /\ db'["base"].ver \in Nat
      BY <3>1, <3>2, <3>3 DEF Exists
    <3>5. LaterNext' /\ OlderCopies'
      BY <3>2, <3>4 DEF LaterNext, OlderCopies
    <3>6. ReadVersion(m)'
      BY <2>5 DEF ReadVersion, ReadsOld, ProvPhases
    <3> QED
      BY <3>5, <3>6
  <2> QED
    BY <1>1, <2>1, <2>2, <2>3, <2>4, <2>5, DataSteps
<1> QED
  BY <1>6, <1>7

-----------------------------------------------------------------------------

(***************************************************************************)
(* The invariant                                                           *)
(***************************************************************************)

LEMMA InitTyped == Init => Typed
<1> SUFFICES ASSUME Init PROVE Typed
  OBVIOUS
<1>1. JobT
  <2>1. NoJob \in JobType
    BY BaseManagerAssumption DEF NoJob, JobType
  <2> QED
    BY <2>1 DEF Init, JobT
<1>2. DbType /\ ConnsType
  <2>1. Seeded \in Database
    BY DEF Seeded, Database, Filled
  <2> QED
    BY <2>1 DEF Init, DbType, ConnsType
<1>3. PcType /\ Counts
  BY BaseManagerAssumption DEF Init, PcType, Phases, Counts
<1>4. Connected
  BY DEF Init, Connected
<1>5. \A c \in Clients : Role(c, c)
  BY BaseManagerAssumption DEF Init, Role, NoJob, Changing, ProvPhases, ClonePhases, BuildPhases, SwapPhases
<1> QED
  BY <1>1, <1>2, <1>3, <1>4, <1>5, TypesParts DEF Typed

LEMMA InitSound == ASSUME NEW m, Sole(m), Init PROVE Sound(m)
<1>1. /\ m \in Clients /\ Typed /\ pc[m] = "idle" /\ job[m] = NoJob
      /\ db["base"] = Seeded /\ \A d \in DbNames \ {"base"} : ~Exists(d)
  BY InitTyped, DbNamesFacts DEF Init, Sole, Exists
<1>2. Exists("base") /\ Whole("base") /\ ~db["base"].open
  <2>1. Seeded \in Database
    BY DEF Seeded, Database, Filled
  <2>2. Seeded # NoDb
    BY <2>1, BaseManagerAssumption
  <2>3. /\ Seeded.schema = "full" /\ Seeded.rows = "full" /\ Seeded.ver # 0
        /\ ~Seeded.open
    BY DEF Seeded
  <2> QED
    BY <1>1, <2>2, <2>3 DEF Exists, Whole
<1>3. ~Exists("next") /\ \A i \in Insts : ~Exists(i)
  BY <1>1, DbNamesFacts
<1>4. Rests(m) /\ ~Building(m) /\ ~Staged(m) /\ ~ReadsReady(m) /\ ~ReadsOld(m)
  BY <1>1 DEF Rests, RestPhases, Building, BuildPhases, Staged, SwapPhases, ReadsReady, ReadsOld,
    ProvPhases
<1>5. Upkeep(m)
  <2>1. Progress(m)
    BY <1>1, <1>4 DEF Progress, Fills
  <2>2. NextIsReady(m)
    BY <1>3, <1>4 DEF NextIsReady, Locked
  <2>3. BaseStays(m)
    BY <1>1, <1>2 DEF BaseStays
  <2>4. NextUsers(m)
    BY DEF Init, NextUsers, UsersOf, Own
  <2> QED
    BY <2>1, <2>2, <2>3, <2>4 DEF Upkeep
<1>6. Control(m)
  <2>1. \A c \in Clients : Role(m, c)
    BY <1>1 DEF Init, Typed, Role, NoJob, Changing
  <2> QED
    BY <1>1, <1>5, <2>1 DEF Control, Typed, Upkeep
<1>7. Kept(m)
  BY <1>2, <1>4 DEF Kept
<1>8. OpenForNow
  BY <1>2 DEF OpenForNow
<1>9. Clonable(m)
  BY <1>1, <1>2, <1>3, <1>4 DEF Clonable
<1>10. Versions(m)
  BY <1>1, <1>3, <1>4 DEF Versions, LaterNext, OlderCopies, ReadVersion
<1> QED
  BY <1>6, <1>7, <1>8, <1>9, <1>10 DEF Sound

\* A session from outside plax, and a step of nobody.
Idly ==
    /\ UNCHANGED <<db, pc, job, serial, begun, starts, crashes>>
    /\ conns' \subseteq conns \cup {<<Stray, "cmd", "base">>}
    /\ conns' \subseteq conns \/ Exists("base")
    /\ UNCHANGED faults \/ Fails

LEMMA Idle ==
    ASSUME StrayComes \/ StrayGoes \/ UNCHANGED vars PROVE Idly
BY DEF StrayComes, StrayGoes, vars, bounds, Idly

LEMMA IdlyTyped == ASSUME Typed, Idly PROVE Typed'
<1>1. JobT /\ DbType /\ PcType /\ ConnsType /\ Counts /\ Connected /\ \A c \in Clients : Role(c, c)
  BY TypesParts DEF Typed
<1>2. JobT' /\ DbType' /\ PcType'
  BY <1>1 DEF Idly, JobT, DbType, PcType
<1>3. ConnsType'
  BY <1>1, DbNamesFacts DEF Idly, ConnsType
<1>4. Counts'
  BY <1>1, BaseManagerAssumption DEF Idly, Counts, Fails
<1>5. Connected'
  BY <1>1 DEF Idly, Connected, Exists
<1>6. \A c \in Clients : Role(c, c)'
  BY <1>1 DEF Idly, Role
<1> QED
  BY <1>2, <1>3, <1>4, <1>5, <1>6, TypesNext DEF Typed

LEMMA IdlySound == ASSUME Typed, NEW m, Sole(m), Sound(m), Idly PROVE Sound(m)'
<1>1. /\ Types /\ m \in Clients /\ Counts /\ Control(m) /\ Kept(m) /\ OpenForNow /\ Clonable(m)
      /\ Versions(m)
  BY TypesParts DEF Typed, Sound, Sole
<1>2. Smooth' => Smooth
  BY <1>1, BaseManagerAssumption DEF Idly, Counts, Fails, Smooth
<1>3. \A d : (Exists(d)' <=> Exists(d)) /\ (Whole(d)' <=> Whole(d))
  BY DEF Idly, Exists, Whole
<1>4. pc' = pc /\ job' = job /\ db' = db /\ begun' = begun
  BY DEF Idly
<1>5. (Building(m)' <=> Building(m)) /\ (ReadsOld(m)' <=> ReadsOld(m))
  BY <1>4 DEF Building, ReadsOld
<1>6. Control(m)'
  <2>1. Held
    <3>1. UsersOf("next")' \subseteq UsersOf("next")
      BY DEF Idly, UsersOf
    <3> QED
      BY <1>4, <3>1, HeldIf
  <2>2. Upkeep(m)'
    BY <1>1, <1>4, <2>1, StandKeeps DEF Control, Upkeep
  <2>3. Types' /\ Connected'
    BY IdlyTyped DEF Typed
  <2>4. \A c \in Clients : Role(m, c)'
    BY <1>1, <1>4 DEF Control, Role
  <2> QED
    BY <2>2, <2>3, <2>4 DEF Control, Upkeep
<1>7. Kept(m)'
  BY <1>1, <1>3, <1>4, <1>5 DEF Kept, RefreshOnly
<1>8. OpenForNow'
  <2>1. \A c \in Clients : (Restores(c)' <=> Restores(c)) /\ (WillLock(c)' <=> WillLock(c))
    BY <1>4 DEF Restores, WillLock
  <2> QED
    BY <1>1, <1>2, <1>3, <1>4, <2>1 DEF OpenForNow
<1>9. Clonable(m)'
  BY <1>1, <1>2, <1>3, <1>4, <1>5 DEF Clonable, RefreshOnly
<1>10. Versions(m)'
  <2>1. (LaterNext' <=> LaterNext) /\ (OlderCopies' <=> OlderCopies)
    BY <1>3, <1>4 DEF LaterNext, OlderCopies
  <2>2. ReadVersion(m)' <=> ReadVersion(m)
    BY <1>4, <1>5 DEF ReadVersion
  <2> QED
    BY <1>1, <1>2, <1>4, <2>1, <2>2 DEF Versions, RefreshOnly
<1> QED
  BY <1>6, <1>7, <1>8, <1>9, <1>10 DEF Sound

LEMMA StepTyped == ASSUME Typed, NEW c \in Clients, Step(c) \/ Crash(c) PROVE Typed'
<1>1. /\ Types /\ JobT /\ DbType /\ PcType /\ ConnsType /\ Counts /\ Connected
      /\ \A e \in Clients : Role(e, e)
  BY TypesParts DEF Typed
<1>2. JobT' /\ DbType' /\ PcType' /\ ConnsType' /\ Counts' /\ Connected'
  BY <1>1, JobKept, DbKept, PcKept, ConnsKept, CountsKept, ConnectedKept
<1>3. Role(c, c)'
  BY <1>1, RoleKept
<1>4. \A e \in Clients \ {c} : Role(e, e)'
  BY <1>1, RoleStays
<1> QED
  BY <1>2, <1>3, <1>4, TypesNext DEF Typed

LEMMA StepSound ==
    ASSUME NEW m, Sole(m), Sound(m), NEW c \in Clients, Step(c) \/ Crash(c)
    PROVE  Sound(m)'
<1>1. Control(m) /\ Kept(m) /\ OpenForNow /\ Clonable(m) /\ Versions(m)
  BY DEF Sound
<1>2. Control(m)'
  BY <1>1, ControlKept
<1>3. Kept(m)' /\ OpenForNow' /\ Clonable(m)' /\ Versions(m)'
  BY <1>1, <1>2, KeptKept, OpenKept, ClonableKept, VersionsKept
<1> QED
  BY <1>2, <1>3 DEF Sound

LEMMA InitIInv == Init => IInv
BY InitTyped, InitSound DEF IInv

LEMMA IInvParts == IInv <=> Typed /\ \A m \in Clients : Sole(m) => Sound(m)
<1>1. ASSUME NEW m \in Clients, Sole(m), Sound(m) PROVE Typed
  <2>1. \A c \in Clients : Role(m, c) => Role(c, c)
    BY DEF Role
  <2> QED
    BY <1>1, <2>1 DEF Sound, Control, Typed
<1>2. OneMaintains <=> \E m \in Clients : Sole(m)
  BY DEF OneMaintains
<1> QED
  BY <1>1, <1>2 DEF IInv

LEMMA NextIInv == IInv /\ [Next]_vars => IInv'
<1>1. ASSUME IInv, NEW c \in Clients, Step(c) \/ Crash(c)
      PROVE  Typed' /\ \A m \in Clients : Sole(m) => Sound(m)'
  BY <1>1, IInvParts, StepTyped, StepSound
<1>2. ASSUME IInv, StrayComes \/ StrayGoes \/ UNCHANGED vars
      PROVE  Typed' /\ \A m \in Clients : Sole(m) => Sound(m)'
  BY <1>2, IInvParts, Idle, IdlyTyped, IdlySound
<1>3. (Typed' /\ \A m \in Clients : Sole(m) => Sound(m)') => IInv'
  BY DEF IInv
<1> QED
  BY <1>1, <1>2, <1>3 DEF Next

\* However many commands work on the base they keep to their phases, and a
\* client that alone maintains it finds all of Sound (basemanager.go).
THEOREM BaseInvariant == Spec => []IInv
BY InitIInv, NextIInv, PTL DEF Spec

-----------------------------------------------------------------------------

\* Types, and a swap gives up after its last attempt (dropBaseRetry of
\* basemanager.go), however many commands work on the base.
THEOREM BaseTypes == Spec => []TypeOK
<1>1. IInv => TypeOK
  BY IInvParts DEF Typed, Types
<1> QED
  BY <1>1, BaseInvariant, PTL

\* While only refreshes change the base, one at a time, whatever statement
\* fails and whenever one is killed there is a whole base or a whole base_next
\* (RefreshBase, swapBase of basemanager.go).
THEOREM DataSurvivesInvariant == ASSUME OneMaintains PROVE Spec => []DataSurvives
<1>1. PICK m : Sole(m)
  BY DEF OneMaintains
<1>2. IInv => DataSurvives
  BY <1>1 DEF IInv, Sole, Sound, Kept, DataSurvives
<1> QED
  BY <1>2, BaseInvariant, PTL

\* A plax up never gets a copy of a base that is not whole, if no statement
\* fails and nobody is killed (CloneBase and swapBase of basemanager.go).
THEOREM SmoothCloneInvariant == ASSUME OneMaintains PROVE Spec => []SmoothClone
<1>1. PICK m : Sole(m)
  BY DEF OneMaintains
<1>2. IInv => SmoothClone
  BY <1>1 DEF IInv, Sole, Sound, Clonable, SmoothClone, NeverPartial
<1> QED
  BY <1>2, BaseInvariant, PTL

\* Once every command has ended the base refuses connections, however the
\* windows in which readers and seeds open it overlapped, if no statement
\* fails and nobody is killed (readProvenance, SeedBase of basemanager.go).
THEOREM LockedAtRestInvariant == ASSUME OneMaintains PROVE Spec => []LockedAtRest
<1>1. PICK m : Sole(m)
  BY DEF OneMaintains
<1>2. ASSUME IInv PROVE LockedAtRest
  <2>1. OpenForNow
    BY <1>1, <1>2 DEF IInv, Sole, Sound
  <2>2. \A c \in Clients : pc[c] = "idle" => ~Restores(c) /\ ~WillLock(c)
    BY DEF Restores, WillLock
  <2> QED
    BY <2>1, <2>2 DEF LockedAtRest, OpenForNow, Locked
<1> QED
  BY <1>2, BaseInvariant, PTL

\* A deferred refresh has left the old base and a base_next that the next
\* refresh accepts (RefreshBase, baseNextReady of basemanager.go).
THEOREM DeferredIsStagedInvariant == ASSUME OneMaintains PROVE Spec => []DeferredIsStaged
<1>1. PICK m : Sole(m)
  BY DEF OneMaintains
<1>2. ASSUME IInv PROVE DeferredIsStaged
  <2>1. Control(m)
    BY <1>1, <1>2 DEF IInv, Sole, Sound
  <2> SUFFICES ASSUME NEW c \in Clients, pc[c] = "deferred"
               PROVE  Exists("base") /\ Whole("next")
    BY DEF DeferredIsStaged
  <2>2. c = m
    BY <2>1 DEF Control, Role, Changing
  <2> QED
    BY <2>1, <2>2 DEF Control, BaseStays, NextIsReady, Staged
<1> QED
  BY <1>2, BaseInvariant, PTL

\* An instance of a base that refreshes have replaced since is never called
\* current (the version that Stamp writes, dataDrift of pkg/status/status.go).
THEOREM DriftIsSeenInvariant == ASSUME OneMaintains PROVE Spec => []DriftIsSeen
<1>1. PICK m : Sole(m)
  BY DEF OneMaintains
<1>2. ASSUME IInv PROVE DriftIsSeen
  <2>1. Versions(m)
    BY <1>1, <1>2 DEF IInv, Sole, Sound
  <2>2. \A i : DataDrift(i) = "ok" => Exists("base") /\ db[i].ver = db["base"].ver
    BY DEF DataDrift
  <2> QED
    BY <2>1, <2>2 DEF DriftIsSeen, Versions, OlderCopies
<1> QED
  BY <1>2, BaseInvariant, PTL

=============================================================================
