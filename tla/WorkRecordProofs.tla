-------------------------- MODULE WorkRecordProofs --------------------------
(***************************************************************************)
(* Proofs about work records, for any number of clients, instances, ups,   *)
(* notes and failures.                                                     *)
(*                                                                         *)
(* The argument: IInv of WorkRecordInv is inductive, and what work records *)
(* promise follows from it.  A step is first reduced to its effects: on    *)
(* who does what (Shape), on the records (FileEffect) and on their lock    *)
(* files (LockEffect).  Each part of IInv is then shown to be kept by      *)
(* every effect.  Last, each step is a step of the abstract Journal, or    *)
(* leaves what that shows as it is.                                        *)
(***************************************************************************)
EXTENDS WorkRecordInv, SequenceTheorems, TLAPS

(***************************************************************************)
(* Steps, seen from one client                                             *)
(***************************************************************************)

\* A step of client c: one disjunct of Next.
ClientStep(c) ==
    \/ StartNote(c) \/ StartShow(c) \/ StartUp(c) \/ Lock(c) \/ RecordStep(c) \/ UpStep(c)
    \/ Crash(c)

\* The phases of a command, in the order in which its functions run.
Edge(c, q) ==
    \/ pc[c] = "lock" /\ q = "load"
    \/ pc[c] = "load" /\ (q = "unlock" \/ (q = "open" /\ IsNote(c)))
    \/ pc[c] = "open" /\ q \in {"write", "unlock"}
    \/ pc[c] = "write" /\ q = "finish"
    \/ pc[c] = "finish" /\ q \in {"unlock", "untail", "truncate"}
    \/ pc[c] \in {"truncate", "untail"} /\ q = "unlock"
    \/ pc[c] = "unlock" /\ IsUp(c) /\ q = "leave"
    \/ pc[c] = "parent" /\ q = "lock"
    \/ pc[c] = "leave" /\ q = "up"
    \/ pc[c] = "up" /\ q = "create"
    \/ pc[c] = "create" /\ q \in {"temp", "unregister"}
    \/ pc[c] = "temp" /\ q \in {"verify", "unregister"}
    \/ pc[c] = "verify" /\ q = "withdraw"
    \/ pc[c] = "withdraw" /\ q = "unregister"

\* The commands of other clients are where they were.
Others(c) == \A d \in Clients \ {c} : pc'[d] = pc[d] /\ job'[d] = job[d]

\* The command of c is over.
Ended(c) == pc[c] # "idle" /\ pc'[c] = "idle" /\ job'[c] = NoJob

\* plax log or plax verdict, plax record, and plax up start.
BeginsNote(c) ==
    /\ pc[c] = "idle" /\ pc'[c] = "lock" /\ job'[c].op \in Kinds /\ job'[c].name \in Names
    /\ notes' = notes + 1 /\ job'[c].no = notes' /\ job'[c].gen = 0 /\ ups' = ups

BeginsShow(c) ==
    /\ pc[c] = "idle" /\ pc'[c] = "lock" /\ job'[c].op = "show" /\ job'[c].name \in Names
    /\ notes' = notes /\ ups' = ups

BeginsUp(c) ==
    /\ pc[c] = "idle" /\ job'[c].op = "up" /\ job'[c].name \in Names
    /\ job'[c].parent \in Names \cup {NoName} /\ job'[c].parent # job'[c].name
    /\ pc'[c] = IF job'[c].parent = NoName THEN "up" ELSE "parent"
    /\ notes' = notes /\ ups' = ups + 1 /\ job'[c].gen = ups'

\* appendBytes opens the file it found: its number and its length are kept.
Opens(c) ==
    /\ pc[c] = "open" /\ Exists(job[c].name)
    /\ job'[c].gen = file[job[c].name].gen /\ job'[c].orig = Len(file[job[c].name].entries)

\* The command goes on: what it is about stays.
Goes(c) ==
    /\ Edge(c, pc'[c]) /\ notes' = notes /\ ups' = ups
    /\ job'[c].op = job[c].op /\ job'[c].name = job[c].name
    /\ job'[c].parent = job[c].parent /\ job'[c].no = job[c].no
    /\ IF pc[c] = "open" /\ pc'[c] = "write" THEN Opens(c)
       ELSE job'[c].gen = job[c].gen /\ job'[c].orig = job[c].orig

\* What a step does to pc, job and the two counters.
Shape(c) ==
    /\ Others(c)
    /\ \/ BeginsNote(c) \/ BeginsShow(c) \/ BeginsUp(c) \/ Goes(c)
       \/ Ended(c) /\ notes' = notes /\ ups' = ups

\* The entries of the record c writes to, before and after the step.
Touches(c) ==
    LET n == job[c].name IN
    /\ n \in Names /\ Exists(n)
    /\ file'[n] # NoRecord /\ file'[n].gen = file[n].gen /\ file'[n].parent = file[n].parent
    /\ file'[n].entries \in Seq(Entries)
    /\ \A m \in Names \ {n} : file'[m] = file[m]
    /\ withdrawn' = withdrawn

\* appendBytes: the first bytes of the entry arrive.
Appends(c) ==
    LET es == file[job[c].name].entries   fs == file'[job[c].name].entries IN
    /\ pc[c] = "write" /\ pc'[c] = "finish" /\ Linked(c) /\ Touches(c)
    /\ Len(fs) = Len(es) + 1 /\ \A i \in 1 .. Len(es) : fs[i] = es[i]
    /\ fs[Len(es) + 1].no = job[c].no /\ fs[Len(es) + 1].kind = job[c].op

\* appendBytes: the entry is whole.
Completes(c) ==
    LET es == file[job[c].name].entries   fs == file'[job[c].name].entries IN
    /\ pc[c] = "finish" /\ pc'[c] \in {"unlock", "untail"} /\ Linked(c) /\ Touches(c)
    /\ Len(fs) = Len(es)
    /\ \A i \in 1 .. Len(es) :
          fs[i] = IF es[i].no = job[c].no THEN Entry(c, "whole") ELSE es[i]

\* appendBytes: back to the former size.
Cuts(c) ==
    LET es == file[job[c].name].entries   fs == file'[job[c].name].entries IN
    /\ pc[c] \in {"truncate", "untail"} /\ pc'[c] = "unlock" /\ Linked(c) /\ Touches(c)
    /\ Len(fs) = job[c].orig /\ \A i \in 1 .. Len(fs) : fs[i] = es[i]

\* What cutting another file to the former size leaves at its end.
Junk == [no |-> 0, kind |-> "log", form |-> "broken"]

\* appendBytes cuts another file that has the name by now.
Spoils(c) ==
    LET es == file[job[c].name].entries   fs == file'[job[c].name].entries IN
    /\ pc[c] = "untail" /\ pc'[c] = "unlock" /\ ~Linked(c) /\ Touches(c)
    /\ Len(fs) = Len(es) + 1 /\ \A i \in 1 .. Len(es) : fs[i] = es[i]
    /\ fs[Len(es) + 1] = Junk

\* Create links a record into place.
Makes(c) ==
    LET n == job[c].name IN
    /\ pc[c] = "create" /\ pc'[c] = "temp" /\ n \in Names
    /\ ~Exists(n) /\ file'[n] = New(c) /\ file'[n] \in Records
    /\ \A m \in Names \ {n} : file'[m] = file[m]
    /\ withdrawn' = withdrawn

\* The rollback of up removes it.
Removes(c) ==
    LET n == job[c].name IN
    /\ pc[c] = "withdraw" /\ pc'[c] = "unregister" /\ n \in Names
    /\ file'[n] = NoRecord /\ \A m \in Names \ {n} : file'[m] = file[m]
    /\ withdrawn' = IF Exists(n) THEN withdrawn \cup {file[n].gen} ELSE withdrawn

\* What a step does to the records: one of these or nothing.
FileEffect(c) ==
    \/ file' = file /\ withdrawn' = withdrawn
    \/ Appends(c) \/ Completes(c) \/ Cuts(c) \/ Spoils(c) \/ Makes(c) \/ Removes(c)

(***************************************************************************)
(* Types and effects                                                       *)
(***************************************************************************)

\* plax log and plax verdict start with a number of their own.
LEMMA StartNoteJob ==
    ASSUME job \in [Clients -> Jobs], NEW c \in Clients, StartNote(c)
    PROVE  /\ job'[c].op \in Kinds /\ job'[c].name \in Names
           /\ job'[c].no = notes + 1 /\ job'[c].gen = 0
           /\ \A d \in Clients \ {c} : job'[d] = job[d]
<1>1. PICK op \in Kinds, n \in Names :
         job' = [job EXCEPT ![c] = [NoJob EXCEPT !.op = op, !.name = n, !.no = notes']]
  BY Zenon DEF StartNote
<1>2. notes' = notes + 1
  BY DEF StartNote
<1> QED  BY <1>1, <1>2 DEF NoJob

\* plax up starts with a number of its own.
LEMMA StartUpJob ==
    ASSUME job \in [Clients -> Jobs], pc \in [Clients -> Phases], NEW c \in Clients,
           StartUp(c)
    PROVE  /\ job'[c].op = "up" /\ job'[c].name \in Names
           /\ job'[c].parent \in Names \cup {NoName} /\ job'[c].parent # job'[c].name
           /\ job'[c].gen = ups + 1
           /\ pc'[c] = IF job'[c].parent = NoName THEN "up" ELSE "parent"
           /\ \A d \in Clients \ {c} : job'[d] = job[d] /\ pc'[d] = pc[d]
<1>1. PICK n \in Names, p \in Names \cup {NoName} :
         /\ p # n
         /\ job' = [job EXCEPT ![c] = [NoJob EXCEPT !.op = "up", !.name = n, !.parent = p,
                                                   !.gen = ups']]
         /\ pc' = [pc EXCEPT ![c] = IF p = NoName THEN "up" ELSE "parent"]
  BY Zenon DEF StartUp, Goto
<1>2. ups' = ups + 1
  BY DEF StartUp
<1> QED  BY <1>1, <1>2 DEF NoJob

\* Read leads to the open, of a note, or to the unlock.
LEMMA LoadJob ==
    ASSUME job \in [Clients -> Jobs], pc \in [Clients -> Phases], NEW c \in Clients, Load(c)
    PROVE  /\ pc'[c] = "unlock" \/ (pc'[c] = "open" /\ IsNote(c))
           /\ job'[c].op = job[c].op /\ job'[c].name = job[c].name
           /\ job'[c].parent = job[c].parent /\ job'[c].no = job[c].no
           /\ job'[c].gen = job[c].gen /\ job'[c].orig = job[c].orig
           /\ \A d \in Clients \ {c} : job'[d] = job[d] /\ pc'[d] = pc[d]
<1>1. \/ job' = job /\ (Goto(c, "unlock") \/ (Goto(c, "open") /\ IsNote(c)))
      \/ Goto(c, "unlock") /\ \E r : job' = [job EXCEPT ![c].ok = r]
  BY Zenon DEF Load, IsNote
<1> QED  BY <1>1 DEF Goto, Jobs

\* Every step has one of the shapes above.
LEMMA ShapeStep ==
    ASSUME job \in [Clients -> Jobs], pc \in [Clients -> Phases], NEW c \in Clients,
           ClientStep(c)
    PROVE  Shape(c)
<1> USE DEF Shape, Others, Ended, BeginsNote, BeginsShow, BeginsUp, Goes, Edge, Opens,
            Goto, Ends, IsUp, IsNote, world
<1>1. CASE StartNote(c)
  BY <1>1, StartNoteJob, Zenon DEF StartNote
<1>2. CASE StartShow(c)
  BY <1>2, WorkRecordAssumption DEF StartShow, NoJob
<1>3. CASE StartUp(c)
  BY <1>3, StartUpJob, Zenon DEF StartUp
<1>4. CASE Lock(c)
  BY <1>4, WorkRecordAssumption DEF Lock
<1>5. CASE Unlock(c)
  BY <1>5, WorkRecordAssumption DEF Unlock
<1>6. CASE Load(c)
  BY <1>6, LoadJob DEF Load
<1>7. CASE OpenFile(c)
  BY <1>7, WorkRecordAssumption DEF OpenFile, Jobs
<1>8. CASE Write(c)
  BY <1>8, WorkRecordAssumption DEF Write
<1>9. CASE Finish(c)
  BY <1>9, WorkRecordAssumption DEF Finish
<1>10. CASE Truncate(c)
  BY <1>10, WorkRecordAssumption DEF Truncate
<1>11. CASE Untail(c)
  BY <1>11, WorkRecordAssumption DEF Untail
<1>12. CASE Parent(c)
  BY <1>12, WorkRecordAssumption DEF Parent
<1>13. CASE Leave(c)
  BY <1>13, WorkRecordAssumption DEF Leave
<1>14. CASE Register(c)
  BY <1>14, WorkRecordAssumption DEF Register
<1>15. CASE Create(c)
  BY <1>15, WorkRecordAssumption DEF Create
<1>16. CASE RemoveTemp(c)
  BY <1>16, WorkRecordAssumption DEF RemoveTemp
<1>17. CASE Verify(c)
  BY <1>17, WorkRecordAssumption DEF Verify
<1>18. CASE Withdraw(c)
  BY <1>18, WorkRecordAssumption DEF Withdraw
<1>19. CASE Unregister(c)
  BY <1>19, WorkRecordAssumption DEF Unregister
<1>20. CASE Crash(c)
  BY <1>20, WorkRecordAssumption DEF Crash
<1> QED  BY <1>1, <1>2, <1>3, <1>4, <1>5, <1>6, <1>7, <1>8, <1>9, <1>10, <1>11, <1>12,
            <1>13, <1>14, <1>15, <1>16, <1>17, <1>18, <1>19, <1>20, Zenon
        DEF ClientStep, RecordStep, UpStep

\* What is in a record.
LEMMA RecordFacts ==
    ASSUME NEW r \in Records
    PROVE  /\ r = [gen |-> r.gen, parent |-> r.parent, entries |-> r.entries]
           /\ r.gen \in 1 .. MaxUps /\ r.parent \in Names \cup {NoName}
           /\ r.entries \in Seq(Entries)
           /\ Len(r.entries) \in Nat /\ DOMAIN r.entries = 1 .. Len(r.entries)
           /\ \A i \in 1 .. Len(r.entries) : r.entries[i] \in Entries
<1>1. r.entries \in Seq(Entries)
  BY DEF Records
<1> QED  BY <1>1, LenProperties, ElementOfSeq DEF Records

\* What is in a record that exists.
LEMMA FileFacts ==
    ASSUME file \in [Names -> Records \cup {NoRecord}], NEW n \in Names, Exists(n)
    PROVE  /\ file[n].gen \in 1 .. MaxUps /\ file[n].parent \in Names \cup {NoName}
           /\ file[n].entries \in Seq(Entries)
           /\ Len(file[n].entries) \in Nat
           /\ DOMAIN file[n].entries = 1 .. Len(file[n].entries)
           /\ \A i \in 1 .. Len(file[n].entries) : file[n].entries[i] \in Entries
<1>1. file[n] \in Records
  BY Zenon DEF Exists
<1> QED  BY <1>1, RecordFacts

\* The entries once appendBytes has written the entry as a whole.
LEMMA CompletedFacts ==
    ASSUME NEW c \in Clients, NEW es \in Seq(Entries), es = file[job[c].name].entries,
           Entry(c, "whole") \in Entries
    PROVE  /\ Completed(c) \in Seq(Entries) /\ Len(Completed(c)) = Len(es)
           /\ \A i \in 1 .. Len(es) :
                 Completed(c)[i] = IF es[i].no = job[c].no THEN Entry(c, "whole") ELSE es[i]
<1>1. /\ DOMAIN es = 1 .. Len(es) /\ Len(es) \in Nat
      /\ \A i \in 1 .. Len(es) : es[i] \in Entries
  BY LenProperties, ElementOfSeq
<1>2. Completed(c) = [i \in 1 .. Len(es) |->
                        IF es[i].no = job[c].no THEN Entry(c, "whole") ELSE es[i]]
  BY <1>1 DEF Completed
<1>3. Completed(c) \in [1 .. Len(es) -> Entries]
  BY <1>1, <1>2
<1>4. Completed(c) \in Seq(Entries)
  BY <1>1, <1>3, SeqDef, Zenon
<1>5. DOMAIN Completed(c) = 1 .. Len(Completed(c)) /\ Len(Completed(c)) \in Nat
  BY <1>4, LenProperties
<1>6. Len(Completed(c)) = Len(es)
  BY <1>1, <1>3, <1>5
<1> QED  BY <1>1, <1>2, <1>4, <1>6, Zenon

\* New entries for the record that c writes to.
LEMMA SetEntriesFacts ==
    ASSUME file \in [Names -> Records \cup {NoRecord}], NEW c \in Clients,
           job[c].name \in Names, Exists(job[c].name),
           NEW es \in Seq(Entries), SetEntries(c, es), withdrawn' = withdrawn
    PROVE  Touches(c) /\ file'[job[c].name].entries = es
           /\ file' \in [Names -> Records \cup {NoRecord}]
<1> DEFINE n == job[c].name   r == [file[n] EXCEPT !.entries = es]
<1>1. file[n] \in Records
  BY DEF Exists
<1>2. r \in Records /\ r.gen = file[n].gen /\ r.parent = file[n].parent /\ r.entries = es
  BY <1>1, Zenon DEF Records
<1>3. file' = [file EXCEPT ![n] = r]
  BY DEF SetEntries
<1> HIDE DEF r
<1> QED  BY <1>2, <1>3, NoRecordAssumption DEF Touches, Exists

\* An idle client's job is a job.
LEMMA NoJobType == NoJob \in Jobs
  BY WorkRecordAssumption DEF NoJob, Jobs

\* Jobs stay jobs.
LEMMA JobType ==
    ASSUME TypeOK, JobsFit, NEW c \in Clients, ClientStep(c)
    PROVE  job' \in [Clients -> Jobs]
<1>0. job \in [Clients -> Jobs] /\ ups \in 0 .. MaxUps /\ notes \in 0 .. MaxNotes
  BY DEF TypeOK
<1>1. CASE StartNote(c)
  <2>1. PICK op \in Kinds, n \in Names :
           job' = [job EXCEPT ![c] = [NoJob EXCEPT !.op = op, !.name = n, !.no = notes']]
    BY <1>1, Zenon DEF StartNote
  <2>2. notes' \in 0 .. MaxNotes
    BY <1>0, <1>1, WorkRecordAssumption DEF StartNote
  <2>3. [NoJob EXCEPT !.op = op, !.name = n, !.no = notes'] \in Jobs
    BY <2>2, NoJobType, Zenon DEF Jobs
  <2> QED  BY <1>0, <2>1, <2>3
<1>2. CASE StartShow(c)
  <2>1. PICK n \in Names : job' = [job EXCEPT ![c] = [NoJob EXCEPT !.op = "show",
    !.name = n]]
    BY <1>2, Zenon DEF StartShow
  <2>2. [NoJob EXCEPT !.op = "show", !.name = n] \in Jobs
    BY NoJobType, Zenon DEF Jobs
  <2> QED  BY <1>0, <2>1, <2>2
<1>3. CASE StartUp(c)
  <2>1. PICK n \in Names, p \in Names \cup {NoName} :
           job' = [job EXCEPT ![c] = [NoJob EXCEPT !.op = "up", !.name = n, !.parent = p,
                                                     !.gen = ups']]
    BY <1>3, Zenon DEF StartUp
  <2>2. ups' \in 0 .. MaxUps
    BY <1>0, <1>3, WorkRecordAssumption DEF StartUp
  <2>3. [NoJob EXCEPT !.op = "up", !.name = n, !.parent = p, !.gen = ups'] \in Jobs
    BY <2>2, NoJobType, Zenon DEF Jobs
  <2> QED  BY <1>0, <2>1, <2>3
<1>4. CASE Load(c) \/ OpenFile(c)
  <2>1. \/ job' = job
        \/ \E r \in BOOLEAN : job' = [job EXCEPT ![c].ok = r]
        \/ \E g \in 0 .. MaxUps, l \in Nat : job' = [job EXCEPT ![c].gen = g, ![c].orig = l]
    <3>1. CASE Load(c)
      BY <3>1, Zenon DEF Load, Exists, Readable
    <3>2. CASE OpenFile(c)
      <4>1. CASE Exists(job[c].name)
        <5>1. job' = [job EXCEPT ![c].gen = file[job[c].name].gen,
                                 ![c].orig = Len(file[job[c].name].entries)]
          BY <3>2, <4>1 DEF OpenFile
        <5>2. file[job[c].name].gen \in 0 .. MaxUps /\ Len(file[job[c].name].entries) \in Nat
          <6>1. job[c].name \in Names /\ file \in [Names -> Records \cup {NoRecord}]
            BY <3>2 DEF TypeOK, JobsFit, JobFits, OpenFile
          <6> QED  BY <4>1, <6>1, FileFacts, WorkRecordAssumption
        <5> QED  BY <5>1, <5>2, Zenon
      <4> QED  BY <3>2, <4>1 DEF OpenFile
    <3> QED  BY <1>4, <3>1, <3>2, Zenon
  <2>2. CASE \E r \in BOOLEAN : job' = [job EXCEPT ![c].ok = r]
    BY <1>0, <2>2 DEF Jobs
  <2>3. CASE \E g \in 0 .. MaxUps, l \in Nat :
                job' = [job EXCEPT ![c].gen = g, ![c].orig = l]
    <3>1. PICK g \in 0 .. MaxUps, l \in Nat :
             job' = [job EXCEPT ![c] = [job[c] EXCEPT !.gen = g, !.orig = l]]
      BY <1>0, <2>3, ZenonT(60)
    <3>2. [job[c] EXCEPT !.gen = g, !.orig = l] \in Jobs
      BY <1>0, Zenon DEF Jobs
    <3> QED  BY <1>0, <3>1, <3>2
  <2> QED  BY <1>0, <2>1, <2>2, <2>3, Zenon
<1>5. CASE job' = job \/ job' = [job EXCEPT ![c] = NoJob]
  BY <1>0, <1>5, NoJobType
<1>6. ~(StartNote(c) \/ StartShow(c) \/ StartUp(c) \/ Load(c) \/ OpenFile(c))
         => job' = job \/ job' = [job EXCEPT ![c] = NoJob]
  BY DEF ClientStep, RecordStep, UpStep, Lock, Unlock, Write, Finish, Truncate, Untail,
         Parent, Leave, Register, Create, RemoveTemp, Verify, Withdraw, Unregister, Crash,
           Ends
<1> QED  BY <1>1, <1>2, <1>3, <1>4, <1>5, <1>6

\* Phases stay phases.
LEMMA PcType ==
    ASSUME pc \in [Clients -> Phases], NEW c \in Clients, ClientStep(c)
    PROVE  pc' \in [Clients -> Phases]
<1>1. \E q \in Phases : pc' = [pc EXCEPT ![c] = q]
  <2>1. \E q \in Phases : Goto(c, q)
    BY Zenon DEF ClientStep, RecordStep, UpStep, StartNote, StartShow, StartUp, Load,
                 OpenFile,
           Lock, Unlock, Write, Finish, Truncate, Untail, Parent, Leave, Register, Create,
           RemoveTemp, Verify, Withdraw, Unregister, Crash, Ends, Phases, Appending
  <2> QED  BY <2>1, Zenon DEF Goto
<1> QED  BY <1>1

\* A note is an entry.
LEMMA EntryType ==
    ASSUME TypeOK, NEW c \in Clients, IsNote(c), NEW form \in {"whole", "cut", "broken"}
    PROVE  Entry(c, form) \in Entries
<1>1. job[c].no \in 0 .. MaxNotes
  BY DEF TypeOK, Jobs
<1> QED  BY <1>1 DEF Entry, Entries, IsNote

\* A complete write in appendBytes has the effect Completes.
LEMMA CompletesStep ==
    ASSUME TypeOK, JobsFit, NEW c \in Clients, pc[c] = "finish", pc'[c] \in {"unlock",
           "untail"},
           Linked(c), SetEntries(c, Completed(c)), withdrawn' = withdrawn
    PROVE  Completes(c) /\ file' \in [Names -> Records \cup {NoRecord}]
<1> DEFINE n == job[c].name   es == file[n].entries
<1>1. /\ file \in [Names -> Records \cup {NoRecord}] /\ IsNote(c) /\ n \in Names /\ Exists(n)
  BY DEF TypeOK, JobsFit, JobFits, Opened, Tailing, Linked
<1>2. es \in Seq(Entries)
  BY <1>1, FileFacts
<1>3. Entry(c, "whole") \in Entries
  BY <1>1, EntryType
<1>4. /\ Completed(c) \in Seq(Entries) /\ Len(Completed(c)) = Len(es)
      /\ \A i \in 1 .. Len(es) :
            Completed(c)[i] = IF es[i].no = job[c].no THEN Entry(c, "whole") ELSE es[i]
  BY <1>2, <1>3, CompletedFacts
<1>5. /\ Touches(c) /\ file'[n].entries = Completed(c)
      /\ file' \in [Names -> Records \cup {NoRecord}]
  BY <1>1, <1>4, SetEntriesFacts
<1> HIDE DEF n
<1> QED  BY <1>4, <1>5 DEF Completes, n

\* Every step has one of the effects on the records above; the first bytes of an
\* entry arrive in the record that was opened, if it has its name still.
LEMMA FileStep ==
    ASSUME TypeOK, JobsFit, TailLast, NEW c \in Clients, ClientStep(c)
    PROVE  /\ FileEffect(c) /\ file' \in [Names -> Records \cup {NoRecord}]
           /\ pc[c] = "write" /\ Linked(c) /\ pc'[c] = "finish" => Appends(c)
<1> DEFINE n == job[c].name   es == file[n].entries
<1>1. /\ file \in [Names -> Records \cup {NoRecord}] /\ pc \in [Clients -> Phases]
      /\ job \in [Clients -> Jobs]
  BY DEF TypeOK
<1>2. CASE file' = file /\ withdrawn' = withdrawn /\ (pc[c] # "write" \/ pc'[c] # "finish")
  BY <1>1, <1>2 DEF FileEffect
<1>3. ASSUME n \in Names, Exists(n)
      PROVE  /\ es \in Seq(Entries) /\ Len(es) \in Nat /\ DOMAIN es = 1 .. Len(es)
             /\ \A i \in 1 .. Len(es) : es[i] \in Entries
  BY <1>1, <1>3, FileFacts
<1>5. CASE Write(c)
  <2>1. IsNote(c) /\ n \in Names /\ pc[c] = "write" /\ withdrawn' = withdrawn
    BY <1>5 DEF Write, JobsFit, JobFits, Opened, ghosts
  <2>2. pc'[c] = "finish"
    BY <1>1, <1>5 DEF Write, Goto
  <2>3. CASE Linked(c)
    <3>1. PICK form \in {"cut", "broken"} : SetEntries(c, Append(es, Entry(c, form)))
      BY <1>5, <2>3 DEF Write
    <3>2. Entry(c, form) \in Entries
      BY <2>1, EntryType
    <3>3. Exists(n)
      BY <2>3 DEF Linked
    <3>4. /\ Append(es, Entry(c, form)) \in Seq(Entries)
          /\ Len(Append(es, Entry(c, form))) = Len(es) + 1
          /\ \A i \in 1 .. Len(es) : Append(es, Entry(c, form))[i] = es[i]
          /\ Append(es, Entry(c, form))[Len(es) + 1] = Entry(c, form)
      <4>1. es \in Seq(Entries)
        BY <1>3, <2>1, <3>3
      <4> HIDE DEF es
      <4> QED  BY <3>2, <4>1, AppendProperties
    <3>5. /\ Touches(c) /\ file'[n].entries = Append(es, Entry(c, form))
          /\ file' \in [Names -> Records \cup {NoRecord}]
      BY <1>1, <2>1, <3>1, <3>3, <3>4, SetEntriesFacts, Zenon
    <3>6. Entry(c, form).no = job[c].no /\ Entry(c, form).kind = job[c].op
      BY DEF Entry
    <3> HIDE DEF n
    <3>7. Appends(c)
      BY <2>1, <2>2, <2>3, <3>4, <3>5, <3>6, Zenon DEF Appends, n
    <3> QED  BY <3>5, <3>7 DEF FileEffect
  <2>4. CASE ~Linked(c)
    BY <1>1, <1>5, <2>1, <2>4 DEF Write, FileEffect
  <2> QED  BY <2>3, <2>4
<1>6. CASE Finish(c)
  <2>1. IsNote(c) /\ n \in Names /\ pc[c] = "finish" /\ withdrawn' = withdrawn
    BY <1>6 DEF Finish, JobsFit, JobFits, Opened, Tailing, ghosts
  <2>2. pc'[c] \in {"unlock", "untail"} \/ (file' = file /\ withdrawn' = withdrawn)
    BY <1>1, <1>6, <2>1 DEF Finish, Goto
  <2>3. CASE Linked(c) /\ file' # file
    <3>1. SetEntries(c, Completed(c)) /\ pc'[c] \in {"unlock", "untail"}
      BY <1>6, <2>2, <2>3 DEF Finish
    <3> QED  BY <2>1, <2>3, <3>1, CompletesStep DEF FileEffect
  <2>4. CASE ~Linked(c) \/ file' = file
    BY <1>1, <1>6, <2>1, <2>4 DEF Finish, FileEffect
  <2> QED  BY <2>3, <2>4
<1>7. ASSUME pc[c] \in {"truncate", "untail"}, pc'[c] = "unlock", Linked(c), n \in Names,
             SetEntries(c, Before(c)), withdrawn' = withdrawn
      PROVE  FileEffect(c) /\ file' \in [Names -> Records \cup {NoRecord}]
  <2>1. Exists(n) /\ job[c].orig \in Nat
    BY <1>1, <1>7 DEF Linked, Jobs
  <2>2. Len(es) = job[c].orig + 1
    BY <1>7 DEF TailLast, TailFits, Tailing
  <2>3. \A i \in 1 .. job[c].orig : es[i] \in Entries
    BY <1>3, <1>7, <2>1, <2>2
  <2>4. /\ Before(c) \in Seq(Entries) /\ Len(Before(c)) = job[c].orig
        /\ \A i \in 1 .. job[c].orig : Before(c)[i] = es[i]
    <3>1. /\ SubSeq(es, 1, job[c].orig) \in Seq(Entries)
          /\ Len(SubSeq(es, 1, job[c].orig))
                = IF 1 <= job[c].orig THEN job[c].orig - 1 + 1 ELSE 0
          /\ \A i \in 1 .. job[c].orig - 1 + 1 :
                SubSeq(es, 1, job[c].orig)[i] = es[1 + i - 1]
      <4>1. 1 \in Int /\ job[c].orig \in Int
        BY <2>1
      <4> QED  BY <2>3, <4>1, SubSeqProperties
    <3> QED  BY <2>1, <3>1 DEF Before
  <2>5. /\ Touches(c) /\ file'[n].entries = Before(c)
        /\ file' \in [Names -> Records \cup {NoRecord}]
    BY <1>1, <1>7, <2>1, <2>4, SetEntriesFacts
  <2> HIDE DEF n
  <2>6. Cuts(c)
    BY <1>7, <2>4, <2>5 DEF Cuts, n
  <2> QED  BY <2>5, <2>6 DEF FileEffect
<1>8. CASE Truncate(c)
  <2>1. n \in Names /\ pc[c] = "truncate" /\ withdrawn' = withdrawn /\ pc'[c] = "unlock"
    BY <1>1, <1>8 DEF Truncate, JobsFit, JobFits, ghosts, Goto
  <2> QED  BY <1>1, <1>7, <1>8, <2>1 DEF Truncate, FileEffect
<1>9. CASE Untail(c)
  <2>1. n \in Names /\ pc[c] = "untail" /\ withdrawn' = withdrawn /\ pc'[c] = "unlock"
    BY <1>1, <1>9 DEF Untail, JobsFit, JobFits, ghosts, Goto
  <2>2. CASE Linked(c) /\ SetEntries(c, Before(c))
    BY <1>7, <2>1, <2>2
  <2>3. CASE ~Linked(c) /\ Exists(n) /\ SetEntries(c, Append(es, Junk))
    <3>1. Junk \in Entries
      BY WorkRecordAssumption DEF Junk, Entries, Kinds
    <3>2. /\ Append(es, Junk) \in Seq(Entries)
          /\ Len(Append(es, Junk)) = Len(es) + 1
          /\ \A i \in 1 .. Len(es) : Append(es, Junk)[i] = es[i]
          /\ Append(es, Junk)[Len(es) + 1] = Junk
      <4>1. es \in Seq(Entries)
        BY <1>3, <2>1, <2>3
      <4> HIDE DEF es
      <4> QED  BY <3>1, <4>1, AppendProperties
    <3>3. /\ Touches(c) /\ file'[n].entries = Append(es, Junk)
          /\ file' \in [Names -> Records \cup {NoRecord}]
      BY <1>1, <2>1, <2>3, <3>2, SetEntriesFacts, ZenonT(60)
    <3> HIDE DEF n
    <3>4. Spoils(c)
      BY <2>1, <2>3, <3>2, <3>3 DEF Spoils, n
    <3> QED  BY <2>1, <3>3, <3>4 DEF FileEffect
  <2>4. CASE file' = file
    BY <1>1, <2>1, <2>4 DEF FileEffect
  <2> QED  BY <1>9, <2>2, <2>3, <2>4 DEF Untail, Junk
<1>10. CASE Create(c)
  <2>1. n \in Names /\ pc[c] = "create" /\ withdrawn' = withdrawn /\ IsUp(c)
    BY <1>10 DEF Create, JobsFit, JobFits, ghosts, Making
  <2>2. CASE ~Exists(n) /\ file' = [file EXCEPT ![n] = New(c)] /\ Goto(c, "temp")
    <3>1. job[c].gen \in 1 .. MaxUps /\ job[c].parent \in Names \cup {NoName}
      <4>1. job[c].gen \in 1 .. ups /\ ups \in 0 .. MaxUps
        BY <2>1 DEF JobsFit, JobFits, TypeOK
      <4> QED  BY <1>1, <4>1, WorkRecordAssumption DEF Jobs
    <3>2. New(c) \in Records
      BY <3>1, EmptySeq DEF New, Records
    <3> QED  BY <1>1, <2>1, <2>2, <3>2 DEF FileEffect, Makes, Goto
  <2>3. CASE file' = file
    BY <1>1, <2>1, <2>3 DEF FileEffect
  <2> QED  BY <1>10, <2>2, <2>3 DEF Create
<1>11. CASE Withdraw(c)
  <2>1. n \in Names /\ pc[c] = "withdraw" /\ pc'[c] = "unregister"
    BY <1>1, <1>11, Zenon DEF Withdraw, JobsFit, JobFits, Goto
  <2> QED  BY <1>1, <1>11, <2>1 DEF FileEffect, Removes, Withdraw
<1>12. ~(Write(c) \/ Finish(c) \/ Truncate(c) \/ Untail(c) \/ Create(c) \/ Withdraw(c))
          => /\ file' = file /\ withdrawn' = withdrawn
             /\ pc[c] # "write" \/ Goto(c, "idle")
  BY Zenon DEF ClientStep, RecordStep, UpStep, StartNote, StartShow, StartUp, Load,
               OpenFile,
         Lock, Unlock, Parent, Leave, Register, RemoveTemp, Verify, Unregister, Crash,
         Ends, world, ghosts
<1>13. Goto(c, "idle") => pc'[c] # "finish"
  BY <1>1 DEF Goto
<1> QED  BY <1>2, <1>5, <1>6, <1>8, <1>9, <1>10, <1>11, <1>12, <1>13

\* What the remaining variables may become.
LockEffect(c) ==
    /\ \A n \in Names, d \in Clients \ {c} :
          /\ flock[n].excl = d => flock'[n].excl = d
          /\ d \in flock[n].shared => d \in flock'[n].shared
    /\ pc[c] = "lock" /\ pc'[c] = "load" =>
          IF Shares(c) THEN c \in flock'[Subject(c)].shared ELSE flock'[Subject(c)].excl = c
    /\ pc'[c] \in {"open"} \cup Opened => flock' = flock

\* The lock file of a record: others' locks stay, and its writer is alone.
LEMMA FlockStep ==
    ASSUME TypeOK, JobsFit, NEW c \in Clients, ClientStep(c)
    PROVE  /\ LockEffect(c) /\ flock' \in [Names -> Locks]
           /\ \A n \in Names : flock'[n].excl # NoClient => flock'[n].shared = {}
<1>1. /\ flock \in [Names -> Locks] /\ pc \in [Clients -> Phases]
      /\ \A n \in Names : flock[n].excl # NoClient => flock[n].shared = {}
  BY DEF TypeOK
<1>2. CASE Lock(c)
  <2>1. Subject(c) \in Names
    BY <1>2 DEF Lock, JobsFit, JobFits, Subject, IsUp, Resolving
  <2>2. pc[c] = "lock" /\ pc'[c] = "load"
    BY <1>1, <1>2 DEF Lock, Goto
  <2> DEFINE n == Subject(c)
  <2>4. CASE Shares(c)
    <3>1. flock[n].excl = NoClient /\ flock' = [flock EXCEPT ![n].shared = @ \cup {c}]
      BY <1>2, <2>4 DEF Lock, LockFree, TakesLock
    <3>3. [flock[n] EXCEPT !.shared = @ \cup {c}] \in Locks
      BY <1>1, <2>1 DEF Locks
    <3>4. /\ flock'[n].excl = NoClient /\ flock'[n].shared = flock[n].shared \cup {c}
          /\ \A m \in Names \ {n} : flock'[m] = flock[m]
      BY <1>1, <2>1, <3>1 DEF Locks
    <3>5. flock' \in [Names -> Locks]
      BY <1>1, <2>1, <3>1, <3>3
    <3> HIDE DEF n
    <3> QED  BY <1>1, <2>2, <2>4, <3>1, <3>4, <3>5, WorkRecordAssumption
             DEF LockEffect, n, Opened, Tailing
  <2>5. CASE ~Shares(c)
    <3>1. /\ flock[n].excl = NoClient /\ flock[n].shared = {}
          /\ flock' = [flock EXCEPT ![n].excl = c]
      BY <1>2, <2>5 DEF Lock, LockFree, TakesLock
    <3>3. [flock[n] EXCEPT !.excl = c] \in Locks
      BY <1>1, <2>1 DEF Locks
    <3>4. /\ flock'[n].excl = c /\ flock'[n].shared = {}
          /\ \A m \in Names \ {n} : flock'[m] = flock[m]
      BY <1>1, <2>1, <3>1 DEF Locks
    <3>5. flock' \in [Names -> Locks]
      BY <1>1, <2>1, <3>1, <3>3
    <3> HIDE DEF n
    <3> QED  BY <1>1, <2>2, <2>5, <3>1, <3>4, <3>5, WorkRecordAssumption
             DEF LockEffect, n, Opened, Tailing
  <2> QED  BY <2>4, <2>5
<1>3. CASE Unlock(c) \/ Crash(c)
  <2>1. flock' = LetGo(flock, c) /\ pc'[c] \in {"idle", "leave"}
    BY <1>1, <1>3, Zenon DEF Unlock, Crash, Goto, Ends
  <2> QED  BY <1>1, <2>1 DEF LockEffect, LetGo, Locks, Opened, Tailing
<1>4. ~(Lock(c) \/ Unlock(c) \/ Crash(c)) => flock' = flock /\ pc[c] # "lock"
  BY Zenon DEF ClientStep, RecordStep, UpStep, StartNote, StartShow, StartUp, Load,
               OpenFile,
         Write, Finish, Truncate, Untail, Parent, Leave, Register, Create, RemoveTemp,
         Verify, Withdraw, Unregister, world
<1> QED  BY <1>1, <1>2, <1>3, <1>4 DEF LockEffect

(***************************************************************************)
(* The registry lock, and what is reported and shown                       *)
(***************************************************************************)

\* The registry lock goes from hand to hand.
LEMMA RegStep ==
    ASSUME IInv, NEW c \in Clients, ClientStep(c)
    PROVE  /\ reg' \in Clients \cup {NoClient}
           /\ \A d \in Clients \ {c} : reg = d => reg' = d
           /\ pc'[c] \in Making \/ (job'[c].op = "up" /\ pc'[c] \in Resolving) => reg' = c
           /\ pc[c] = "parent" /\ pc'[c] = "lock" => reg = NoClient /\ Exists(job[c].parent)
<1>1. /\ pc \in [Clients -> Phases] /\ job \in [Clients -> Jobs]
      /\ reg \in Clients \cup {NoClient}
  BY DEF IInv, TypeOK
<1>2. Shape(c)
  BY <1>1, ShapeStep
<1>3. pc[c] \in Making \/ (IsUp(c) /\ pc[c] \in Resolving) => reg = c
  BY DEF IInv, LocksHeld
<1>4. CASE Parent(c)
  BY <1>1, <1>4, WorkRecordAssumption DEF Parent, Making, Drafting, Resolving, Goto, Ends,
         NoJob
<1>5. CASE Register(c)
  BY <1>1, <1>5, WorkRecordAssumption DEF Register, Making, Drafting, Resolving, Goto,
         Ends, NoJob
<1>6. CASE Leave(c)
  BY <1>1, <1>6, WorkRecordAssumption DEF Leave, Making, Drafting, Resolving, Goto, Ends,
         NoJob
<1>7. CASE Verify(c) \/ Unregister(c)
  <2>1. pc[c] \in Making
    BY <1>7 DEF Verify, Unregister, Making, Drafting
  <2> QED  BY <1>1, <1>3, <1>7, <2>1, WorkRecordAssumption
           DEF Verify, Unregister, Making, Drafting, Resolving, Goto, Ends, NoJob
<1>8. CASE Crash(c)
  BY <1>1, <1>8 DEF Crash, Making, Drafting, Resolving, Goto, Ends, NoJob
<1>9. CASE reg' = reg /\ pc[c] # "parent" /\ pc[c] # "up"
  <2>1. Goes(c) \/ ~(pc'[c] \in Making \/ (job'[c].op = "up" /\ pc'[c] \in Resolving))
    BY <1>2 DEF Shape, BeginsNote, BeginsShow, BeginsUp, Ended, Making, Drafting, Resolving,
                Kinds
  <2>2. Goes(c) => (pc'[c] \in Making \/ (job'[c].op = "up" /\ pc'[c] \in Resolving)
                       => pc[c] \in Making \/ (IsUp(c) /\ pc[c] \in Resolving))
    <3>1. pc[c] \in {"open"} \cup Opened => ~IsUp(c)
      BY DEF IInv, JobsFit, JobFits, IsNote, IsUp, Kinds
    <3> QED  BY <1>9, <3>1 DEF Goes, Edge, IsUp, Making, Drafting, Resolving, Opened,
                               Tailing
  <2>3. pc'[c] \in Making \/ (job'[c].op = "up" /\ pc'[c] \in Resolving) => reg' = c
    BY <1>3, <1>9, <2>1, <2>2, Zenon
  <2> QED  BY <1>1, <1>9, <2>3
<1>10. ~(Parent(c) \/ Register(c) \/ Leave(c) \/ Verify(c) \/ Unregister(c) \/ Crash(c))
          => reg' = reg /\ pc[c] # "parent" /\ pc[c] # "up"
  BY Zenon DEF ClientStep, RecordStep, UpStep, StartNote, StartShow, StartUp, Lock, Unlock,
               Load,
         OpenFile, Write, Finish, Truncate, Untail, Create, RemoveTemp, Withdraw, world
<1> QED  BY <1>4, <1>5, <1>6, <1>7, <1>8, <1>9, <1>10

\* What commands report and show.
LEMMA GhostStep ==
    ASSUME IInv, NEW c \in Clients, ClientStep(c)
    PROVE  /\ \A x \in reported' : \/ x \in reported
                                   \/ /\ pc[c] = "finish" /\ pc'[c] = "unlock"
                                      /\ x = <<job[c].name, job[c].gen, Entry(c, "whole")>>
                                      /\ file' = file \/ Completes(c)
                                      /\ Linked(c) => Completes(c)
           /\ \A x \in shown' : \/ x \in shown
                                \/ /\ job[c].op = "show" /\ pc[c] = "load" /\ pc'[c] = "unlock"
                                   /\ file' = file /\ Exists(job[c].name)
                                   /\ \E i \in DOMAIN file[job[c].name].entries :
                                         x = <<job[c].name, file[job[c].name].gen,
                                               file[job[c].name].entries[i]>>
<1>1. /\ pc \in [Clients -> Phases] /\ job \in [Clients -> Jobs]
      /\ file \in [Names -> Records \cup {NoRecord}]
  BY DEF IInv, TypeOK
<1>2. FileEffect(c)
  BY FileStep DEF IInv
<1>3. CASE Finish(c)
  <2>1. shown' = shown /\ pc[c] = "finish"
    BY <1>3 DEF Finish
  <2>2. CASE reported' = reported
    BY <2>1, <2>2
  <2>3. CASE /\ reported' = reported \cup {<<job[c].name, job[c].gen, Entry(c, "whole")>>}
             /\ Goto(c, "unlock")
             /\ IF Linked(c) THEN SetEntries(c, Completed(c)) ELSE UNCHANGED file
    <3>1. pc'[c] = "unlock"
      BY <1>1, <2>3 DEF Goto
    <3>2. ~Linked(c) => file' = file
      BY <2>3
    <3>4. withdrawn' = withdrawn
      BY <1>3 DEF Finish
    <3>3. Linked(c) => Completes(c)
      BY <2>1, <2>3, <3>1, <3>4, CompletesStep DEF IInv
    <3> QED  BY <2>1, <2>3, <3>1, <3>2, <3>3
  <2> QED  BY <1>3, <2>2, <2>3 DEF Finish
<1>4. CASE Load(c)
  <2>1. reported' = reported /\ file' = file /\ pc[c] = "load"
    BY <1>4 DEF Load, world
  <2>2. CASE shown' = shown
    BY <2>1, <2>2
  <2>3. CASE shown' # shown
    <3> DEFINE n == job[c].name
    <3>1. /\ job[c].op = "show" /\ Exists(n) /\ Goto(c, "unlock")
          /\ shown' = shown \cup {<<n, file[n].gen, e>> : e \in ToSet(file[n].entries)}
      BY <1>4, <2>3 DEF Load, Subject
    <3>2. pc'[c] = "unlock"
      BY <1>1, <3>1 DEF Goto
    <3>3. ToSet(file[n].entries) = {file[n].entries[i] : i \in DOMAIN file[n].entries}
      BY Zenon DEF ToSet
    <3> HIDE DEF n
    <3> QED  BY <2>1, <3>1, <3>2, <3>3, SMTT(30) DEF n
  <2> QED  BY <2>2, <2>3
<1>5. ~(Finish(c) \/ Load(c)) => reported' = reported /\ shown' = shown
  BY Zenon DEF ClientStep, RecordStep, UpStep, StartNote, StartShow, StartUp, Lock, Unlock,
         OpenFile, Write, Truncate, Untail, Parent, Leave, Register, Create, RemoveTemp,
         Verify, Withdraw, Unregister, Crash, ghosts
<1> QED  BY <1>3, <1>4, <1>5

(***************************************************************************)
(* Who does what when: jobs and locks                                      *)
(***************************************************************************)

\* JobsFit is kept.
LEMMA JobsFitStep ==
    ASSUME TypeOK, JobsFit, FilesKnown, NEW c \in Clients, ClientStep(c)
    PROVE  JobsFit'
<1>1. /\ pc \in [Clients -> Phases] /\ job \in [Clients -> Jobs]
      /\ file \in [Names -> Records \cup {NoRecord}]
      /\ ups \in Nat /\ notes \in Nat
  BY WorkRecordAssumption DEF TypeOK
<1>2. Shape(c)
  BY <1>1, ShapeStep
<1>3. ASSUME NEW d \in Clients \ {c}
      PROVE  pc'[d] = pc[d] /\ job'[d] = job[d] /\ ups' >= ups /\ notes' >= notes
  BY <1>1, <1>2 DEF Shape, Others, BeginsNote, BeginsShow, BeginsUp, Goes, Ended
<1>4. ASSUME NEW d \in Clients \ {c}
      PROVE  JobFits(d)'
  <2>1. JobFits(d) /\ ups' \in Nat /\ notes' \in Nat
    BY <1>1, <1>2 DEF JobsFit, Shape, BeginsNote, BeginsShow, BeginsUp, Goes
  <2> QED  BY <1>1, <1>3, <2>1 DEF JobFits, IsUp, IsNote
<1> SUFFICES JobFits(c)'
  BY <1>4 DEF JobsFit
<1>5. CASE BeginsNote(c)
  BY <1>1, <1>5 DEF JobFits, BeginsNote, IsUp, IsNote, Kinds, Opened, Tailing, Resolving,
                    Making, Drafting
<1>6. CASE BeginsShow(c)
  BY <1>1, <1>6 DEF JobFits, BeginsShow, IsUp, IsNote, Kinds, Opened, Tailing, Resolving,
                    Making, Drafting
<1>7. CASE BeginsUp(c)
  BY <1>1, <1>7 DEF JobFits, BeginsUp, IsUp, IsNote, Kinds, Opened, Tailing, Resolving,
                    Making, Drafting
<1>8. CASE Ended(c)
  BY <1>1, <1>8 DEF JobFits, Ended, NoJob, IsUp, IsNote, Kinds, Opened, Tailing, Resolving,
                    Making, Drafting
<1>9. CASE Goes(c)
  <2>1. JobFits(c)
    BY DEF JobsFit
  <2>2. pc[c] = "open" /\ Opens(c) => job'[c].gen \in 1 .. ups
    BY <2>1 DEF Opens, JobFits, FilesKnown
  <2> QED  BY <1>1, <1>9, <2>1, <2>2
           DEF JobFits, Goes, Edge, IsUp, IsNote, Kinds, Opened, Tailing, Resolving,
               Making, Drafting
<1> QED  BY <1>2, <1>5, <1>6, <1>7, <1>8, <1>9 DEF Shape

\* JobsDiffer is kept: every command gets a number nobody had.
LEMMA JobsDifferStep ==
    ASSUME TypeOK, JobsFit, JobsDiffer, NEW c \in Clients, Shape(c)
    PROVE  JobsDiffer'
<1>1. ups \in Nat /\ notes \in Nat
  BY WorkRecordAssumption DEF TypeOK
<1> QED  BY <1>1 DEF JobsFit, JobFits, JobsDiffer, Shape, Others, BeginsNote, BeginsShow,
                     BeginsUp, Goes, Ended, IsUp, IsNote, NoJob, Kinds

\* LocksHeld is kept: a lock is held from the phase that takes it to the one that
\* lets it go, and a killed command has no phase.
LEMMA LocksHeldStep ==
    ASSUME IInv, NEW c \in Clients, ClientStep(c)
    PROVE  LocksHeld'
<1>1. /\ pc \in [Clients -> Phases] /\ job \in [Clients -> Jobs]
      /\ file \in [Names -> Records \cup {NoRecord}]
  BY DEF IInv, TypeOK
<1>2. Shape(c)
  BY <1>1, ShapeStep
<1>3. LockEffect(c)
  BY FlockStep DEF IInv
<1>4. /\ \A d \in Clients \ {c} : reg = d => reg' = d
      /\ pc'[c] \in Making \/ (job'[c].op = "up" /\ pc'[c] \in Resolving) => reg' = c
  BY RegStep
<1>5. \A d \in Clients \ {c} : pc'[d] = pc[d] /\ job'[d] = job[d]
  BY <1>2 DEF Shape, Others
<1>6. ASSUME NEW d \in Clients \ {c}
      PROVE  /\ pc'[d] \in Making \/ (IsUp(d)' /\ pc'[d] \in Resolving) => reg' = d
             /\ IsNote(d)' /\ pc'[d] \in Appending => flock'[job'[d].name].excl = d
             /\ job'[d].op = "show" /\ pc'[d] = "load" => d \in flock'[job'[d].name].shared
  <2>1. pc[d] # "idle" => job[d].name \in Names
    BY DEF IInv, JobsFit, JobFits
  <2> QED  BY <1>3, <1>4, <1>5, <2>1 DEF IInv, LocksHeld, LockEffect, IsUp, IsNote,
         Appending
<1>7. IsNote(c)' /\ pc'[c] \in Appending => flock'[job'[c].name].excl = c
  BY <1>2, <1>3 DEF IInv, LocksHeld, LockEffect, IsNote, Appending, Shape, BeginsNote,
                    BeginsShow, BeginsUp, Ended, Goes, Edge, Opened, Tailing, NoJob, Kinds,
                      Shares, Subject
<1>8. job'[c].op = "show" /\ pc'[c] = "load" => c \in flock'[job'[c].name].shared
  BY <1>2, <1>3 DEF IInv, LocksHeld, LockEffect, IsNote, Appending, Shape, BeginsNote,
                    BeginsShow, BeginsUp, Ended, Goes, Edge, Opened, Tailing, NoJob, Kinds,
                      Shares, Subject
<1> QED  BY <1>4, <1>6, <1>7, <1>8 DEF LocksHeld, IsUp

\* The invariant and a step of client c, seen through their effects.
Stepped(c) ==
    /\ IInv /\ c \in Clients /\ ClientStep(c)
    /\ Shape(c) /\ FileEffect(c) /\ LockEffect(c)
    /\ file' \in [Names -> Records \cup {NoRecord}]
    /\ ups \in Nat /\ notes \in Nat /\ ups' \in Nat /\ notes' \in Nat
    /\ ups' >= ups /\ notes' >= notes
    /\ \A d \in Clients \ {c} : pc'[d] = pc[d] /\ job'[d] = job[d]

\* Every step with the invariant can be seen so.
LEMMA SteppedStep ==
    ASSUME IInv, NEW c \in Clients, ClientStep(c)
    PROVE  Stepped(c)
<1>1. /\ pc \in [Clients -> Phases] /\ job \in [Clients -> Jobs]
      /\ ups \in Nat /\ notes \in Nat
  BY WorkRecordAssumption DEF IInv, TypeOK
<1>2. Shape(c)
  BY <1>1, ShapeStep
<1>3. /\ ups' \in Nat /\ notes' \in Nat /\ ups' >= ups /\ notes' >= notes
      /\ \A d \in Clients \ {c} : pc'[d] = pc[d] /\ job'[d] = job[d]
  BY <1>1, <1>2 DEF Shape, Others, BeginsNote, BeginsShow, BeginsUp, Goes, Ended
<1>4. FileEffect(c) /\ file' \in [Names -> Records \cup {NoRecord}]
  BY FileStep DEF IInv
<1>5. LockEffect(c)
  BY FlockStep DEF IInv
<1> QED  BY <1>1, <1>2, <1>3, <1>4, <1>5 DEF Stepped

(***************************************************************************)
(* Records and open records                                                *)
(***************************************************************************)

\* A record that another has open for writing is not touched.
LEMMA Undisturbed ==
    ASSUME NEW c \in Clients, Stepped(c), NEW d \in Clients \ {c},
           IsNote(d), pc[d] \in Appending
    PROVE  LET n == job[d].name IN
           \/ file'[n] = file[n] /\ withdrawn \subseteq withdrawn'
           \/ Makes(c) /\ job[c].name = n
           \/ Removes(c) /\ job[c].name = n
<1> DEFINE n == job[d].name
<1>1. flock[n].excl = d /\ n \in Names
  BY DEF Stepped, IInv, LocksHeld, JobsFit, JobFits, Appending
<1>2. CASE Appends(c) \/ Completes(c) \/ Cuts(c) \/ Spoils(c)
  <2>1. IsNote(c) /\ pc[c] \in Appending /\ Touches(c)
    BY <1>2, Zenon DEF Stepped, IInv, JobsFit, JobFits, Appends, Completes, Cuts, Spoils,
                       Opened, Tailing,
                Appending
  <2>2. flock[job[c].name].excl = c
    BY <2>1 DEF Stepped, IInv, LocksHeld
  <2>3. job[c].name # n
    BY <1>1, <2>2
  <2> QED  BY <1>1, <2>1, <2>3, Zenon DEF Touches
<1>3. CASE Makes(c)
  BY <1>1, <1>3 DEF Makes
<1>4. CASE Removes(c)
  BY <1>1, <1>4, Zenon DEF Removes
<1> QED  BY <1>2, <1>3, <1>4 DEF Stepped, FileEffect

\* The number of a file stays with it.
LEMMA GenOfFile ==
    ASSUME NEW c \in Clients, Stepped(c), NEW n \in Names, file'[n] # NoRecord
    PROVE  \/ Exists(n) /\ file'[n].gen = file[n].gen /\ file'[n].parent = file[n].parent
           \/ Makes(c) /\ n = job[c].name
<1> QED  BY Zenon DEF Stepped, FileEffect, Appends, Completes, Cuts, Spoils, Touches,
                      Makes, Removes, Exists

\* Entries are sequences, before and after.
LEMMA EntriesBounds ==
    ASSUME NEW c \in Clients, Stepped(c), NEW n \in Names
    PROVE  /\ Exists(n) => /\ Len(file[n].entries) \in Nat
                           /\ DOMAIN file[n].entries = 1 .. Len(file[n].entries)
                           /\ file[n].entries \in Seq(Entries)
           /\ file'[n] # NoRecord => /\ Len(file'[n].entries) \in Nat
                                     /\ DOMAIN file'[n].entries = 1 .. Len(file'[n].entries)
                                     /\ file'[n].entries \in Seq(Entries)
<1>1. file \in [Names -> Records \cup {NoRecord}] /\ file' \in [Names -> Records \cup {NoRecord}]
  BY DEF Stepped, IInv, TypeOK
<1>2. file'[n] # NoRecord => file'[n] \in Records
  BY <1>1
<1> QED  BY <1>1, <1>2, FileFacts, RecordFacts

\* Where an entry of a record comes from.
LEMMA EntryOrigin ==
    ASSUME NEW c \in Clients, Stepped(c), NEW n \in Names, file'[n] # NoRecord,
           NEW i \in DOMAIN file'[n].entries
    PROVE  \/ /\ Exists(n) /\ i \in DOMAIN file[n].entries
              /\ file'[n].entries[i] = file[n].entries[i]
           \/ /\ IsNote(c) /\ pc[c] \in {"write", "finish"} /\ n = job[c].name
              /\ file'[n].entries[i].no = job[c].no
           \/ /\ pc[c] = "untail" /\ n = job[c].name
              /\ file'[n].entries[i] = Junk
<1> DEFINE es == file[n].entries   fs == file'[n].entries
<1>1. /\ DOMAIN fs = 1 .. Len(fs) /\ Len(fs) \in Nat
      /\ Exists(n) => DOMAIN es = 1 .. Len(es) /\ Len(es) \in Nat
  BY EntriesBounds
<1>2. CASE file' = file
  BY <1>2 DEF Exists
<1>3. pc[c] \in {"write", "finish"} => IsNote(c)
  BY Zenon DEF Stepped, IInv, JobsFit, JobFits, Opened, Tailing
<1>4. CASE n # job[c].name
  BY <1>2, <1>4, Zenon DEF Stepped, FileEffect, Appends, Completes, Cuts, Spoils, Touches,
                           Makes,
                    Removes, Exists
<1>5. CASE n = job[c].name /\ Appends(c)
  <2>1. /\ Len(fs) = Len(es) + 1 /\ \A j \in 1 .. Len(es) : fs[j] = es[j]
        /\ fs[Len(es) + 1].no = job[c].no /\ pc[c] = "write" /\ Exists(n)
    BY <1>5, Zenon DEF Appends, Touches
  <2>2. i \in 1 .. Len(es) \/ i = Len(es) + 1
    BY <1>1, <2>1, SMTT(30)
  <2> QED  BY <1>1, <1>3, <1>5, <2>1, <2>2, Zenon
<1>6. CASE n = job[c].name /\ Completes(c)
  <2>1. /\ Len(fs) = Len(es) /\ pc[c] = "finish" /\ Exists(n)
        /\ \A j \in 1 .. Len(es) :
              fs[j] = IF es[j].no = job[c].no THEN Entry(c, "whole") ELSE es[j]
    BY <1>6 DEF Completes, Touches
  <2>2. Entry(c, "whole").no = job[c].no
    BY DEF Entry
  <2> QED  BY <1>1, <1>3, <1>6, <2>1, <2>2, SMTT(30)
<1>7. CASE n = job[c].name /\ Cuts(c)
  <2>1. Exists(n) /\ Len(fs) = job[c].orig /\ \A j \in 1 .. Len(fs) : fs[j] = es[j]
    BY <1>7 DEF Cuts, Touches
  <2>2. Len(es) = job[c].orig + 1
    BY <1>7 DEF Cuts, Stepped, IInv, TailLast, TailFits, Tailing
  <2> QED  BY <1>1, <2>1, <2>2, SMTT(30)
<1>8. CASE n = job[c].name /\ Spoils(c)
  <2>1. /\ Len(fs) = Len(es) + 1 /\ \A j \in 1 .. Len(es) : fs[j] = es[j]
        /\ fs[Len(es) + 1] = Junk /\ pc[c] = "untail" /\ Exists(n)
    BY <1>8 DEF Spoils, Touches
  <2>2. i \in 1 .. Len(es) \/ i = Len(es) + 1
    BY <1>1, <2>1
  <2> QED  BY <1>1, <1>8, <2>1, <2>2, SMTT(30)
<1>9. CASE n = job[c].name /\ Makes(c)
  <2>1. fs = <<>>
    BY <1>9 DEF Makes, New
  <2> QED  BY <1>1, <2>1
<1>10. CASE n = job[c].name /\ Removes(c)
  BY <1>10 DEF Removes
<1> QED  BY <1>2, <1>4, <1>5, <1>6, <1>7, <1>8, <1>9, <1>10 DEF Stepped, FileEffect

\* FilesKnown is kept.
LEMMA FilesKnownStep ==
    ASSUME NEW c \in Clients, Stepped(c)
    PROVE  FilesKnown'
<1> SUFFICES ASSUME NEW n \in Names, file'[n] # NoRecord
             PROVE  /\ file'[n].gen \in 1 .. ups'
                    /\ \A i \in DOMAIN file'[n].entries : file'[n].entries[i].no <= notes'
  BY DEF FilesKnown, Exists
<1>1. ups' \in Nat /\ notes' \in Nat /\ ups \in Nat /\ notes \in Nat /\ ups' >= ups /\ notes' >= notes
  BY DEF Stepped
<1>2. file'[n].gen \in 1 .. ups'
  <2>1. Makes(c) /\ n = job[c].name => file'[n].gen \in 1 .. ups
    BY DEF Makes, New, Stepped, IInv, JobsFit, JobFits, Making
  <2>2. Exists(n) => file[n].gen \in 1 .. ups
    BY DEF Stepped, IInv, FilesKnown
  <2> QED  BY <1>1, <2>1, <2>2, GenOfFile
<1>3. ASSUME NEW i \in DOMAIN file'[n].entries
      PROVE  file'[n].entries[i].no <= notes'
  <2>1. Exists(n) /\ i \in DOMAIN file[n].entries
           => file[n].entries[i].no <= notes /\ file[n].entries[i].no \in Nat
    <3>1. Exists(n) /\ i \in DOMAIN file[n].entries => file[n].entries[i] \in Entries
      BY FileFacts DEF Stepped, IInv, TypeOK
    <3> QED  BY <3>1, WorkRecordAssumption DEF Stepped, IInv, FilesKnown, Entries
  <2>2. IsNote(c) => job[c].no \in 1 .. notes
    BY DEF Stepped, IInv, JobsFit, JobFits
  <2>3. Junk.no = 0
    BY DEF Junk
  <2> QED  BY <1>1, <2>1, <2>2, <2>3, EntryOrigin
<1> QED  BY <1>2, <1>3

\* FreshFile is kept: until up links its record nobody has seen its number.
LEMMA FreshFileStep ==
    ASSUME NEW c \in Clients, Stepped(c)
    PROVE  FreshFile'
<1> SUFFICES ASSUME NEW d \in Clients, Unmade(d)'
             PROVE  /\ \A n \in Names : file'[n] # NoRecord => file'[n].gen # job'[d].gen
                    /\ \A e \in Clients : IsNote(e)' => job'[e].gen # job'[d].gen
  BY DEF FreshFile, Exists
<1>1. /\ ups \in Nat /\ \A e \in Clients : JobFits(e) /\ Shape(c)
      /\ \A n \in Names : Exists(n) => file[n].gen \in 1 .. ups
  BY DEF Stepped, IInv, JobsFit, FilesKnown
<1>2. CASE Unmade(d) /\ job'[d].gen = job[d].gen
  <2>1. ASSUME NEW n \in Names, file'[n] # NoRecord
        PROVE  file'[n].gen # job'[d].gen
    <3>1. CASE Exists(n) /\ file'[n].gen = file[n].gen
      BY <1>2, <3>1 DEF Stepped, IInv, FreshFile
    <3>2. CASE Makes(c) /\ n = job[c].name
      <4>1. file'[n].gen = job[c].gen /\ IsUp(c) /\ pc[c] = "create" /\ pc'[c] = "temp"
        BY <1>1, <3>2 DEF Makes, New, JobFits, Making
      <4>2. d # c
        BY <4>1 DEF Unmade, Resolving
      <4>3. JobsDiffer
        BY DEF Stepped, IInv
      <4> QED  BY <1>2, <4>1, <4>2, <4>3 DEF JobsDiffer, Unmade
    <3> QED  BY <2>1, <3>1, <3>2, GenOfFile
  <2>2. ASSUME NEW e \in Clients, IsNote(e)'
        PROVE  job'[e].gen # job'[d].gen
    <3>1. CASE IsNote(e) /\ job'[e].gen = job[e].gen
      BY <1>2, <3>1 DEF Stepped, IInv, FreshFile
    <3>2. CASE e = c /\ pc[c] = "open" /\ Opens(c)
      <4>1. job[c].name \in Names
        BY <1>1, <3>2 DEF JobFits
      <4> QED  BY <1>2, <3>2, <4>1 DEF Opens, Stepped, IInv, FreshFile
    <3>3. CASE e = c /\ BeginsNote(c)
      BY <1>1, <1>2, <3>3 DEF BeginsNote, JobFits, Unmade
    <3> QED  BY <1>1, <2>2, <3>1, <3>2, <3>3
             DEF Stepped, Shape, BeginsShow, BeginsUp, Goes, Ended, NoJob, IsNote, Kinds
  <2> QED  BY <2>1, <2>2
<1>3. CASE d = c /\ BeginsUp(c)
  <2>1. pc[c] = "idle" /\ job'[d].gen = ups + 1 /\ job'[c].op = "up"
    BY <1>3 DEF BeginsUp
  <2>2. ASSUME NEW n \in Names, file'[n] # NoRecord
        PROVE  file'[n].gen # job'[d].gen
    BY <1>1, <2>1, <2>2, GenOfFile DEF Makes
  <2>3. ASSUME NEW e \in Clients, IsNote(e)'
        PROVE  job'[e].gen # job'[d].gen
    <3>1. e # c
      BY <2>1, <2>3 DEF IsNote, Kinds
    <3>2. job'[e] = job[e] /\ JobFits(e)
      BY <1>1, <3>1 DEF Stepped
    <3> QED  BY <1>1, <2>1, <2>3, <3>2 DEF JobFits, IsNote
  <2> QED  BY <2>2, <2>3
<1>4. \/ Unmade(d) /\ job'[d].gen = job[d].gen
      \/ d = c /\ BeginsUp(c)
  <2>1. CASE d # c
    BY <2>1 DEF Stepped, Unmade, IsUp
  <2>2. CASE d = c /\ Goes(c)
    <3>1. pc[c] \in {"open"} \cup Opened => ~IsUp(c)
      BY <1>1 DEF JobFits, IsNote, IsUp, Kinds
    <3> QED  BY <2>2, <3>1 DEF Goes, Edge, Unmade, IsUp, Resolving, Opened, Tailing
  <2>3. CASE d = c /\ ~Goes(c)
    BY <1>1, <2>3 DEF Shape, BeginsNote, BeginsShow, BeginsUp, Ended, NoJob, Unmade, IsUp,
                      Kinds
  <2> QED  BY <2>1, <2>2, <2>3
<1> QED  BY <1>2, <1>3, <1>4

\* FreshNote is kept: until its first bytes arrive a note is in no record.
LEMMA FreshNoteStep ==
    ASSUME NEW c \in Clients, Stepped(c)
    PROVE  FreshNote'
<1> SUFFICES ASSUME NEW d \in Clients, NEW n \in Names, IsNote(d)',
                    pc'[d] \in {"lock", "load", "open", "write"}, file'[n] # NoRecord,
                    NEW i \in DOMAIN file'[n].entries
             PROVE  file'[n].entries[i].no # job'[d].no
  BY DEF FreshNote, Exists
<1>1. \/ IsNote(d) /\ pc[d] \in {"lock", "load", "open", "write"} /\ job'[d].no = job[d].no
      \/ d = c /\ BeginsNote(c)
  BY DEF Stepped, Shape, BeginsShow, BeginsUp, Goes, Edge, Ended, NoJob, IsNote, Kinds,
         IInv,
         JobsFit, JobFits, Opened, Tailing, Making, Drafting, Resolving, IsUp
<1>2. /\ notes \in Nat /\ \A e \in Clients : JobFits(e)
      /\ JobsDiffer /\ FreshNote /\ FilesKnown
  BY DEF Stepped, IInv, JobsFit
<1>3. job'[d].no # Junk.no /\ job'[d].no \in Nat
  BY <1>1, <1>2 DEF Junk, JobFits, BeginsNote
<1>4. CASE /\ Exists(n) /\ i \in DOMAIN file[n].entries
           /\ file'[n].entries[i] = file[n].entries[i]
  <2>1. file[n].entries[i].no <= notes /\ file[n].entries[i].no \in Nat
    <3>1. file[n].entries[i] \in Entries
      BY <1>4, FileFacts DEF Stepped, IInv, TypeOK
    <3> QED  BY <1>2, <1>4, <3>1, WorkRecordAssumption DEF FilesKnown, Entries
  <2> QED  BY <1>1, <1>2, <1>4, <2>1 DEF FreshNote, BeginsNote
<1>5. CASE IsNote(c) /\ pc[c] \in {"write", "finish"} /\ file'[n].entries[i].no = job[c].no
  <2>1. d # c
    BY <1>1, <1>5 DEF Stepped, Shape, Goes, Edge, BeginsNote, BeginsShow, BeginsUp, Ended
  <2> QED  BY <1>1, <1>2, <1>5, <2>1 DEF JobsDiffer
<1>6. CASE file'[n].entries[i] = Junk
  BY <1>3, <1>6, SMTT(30)
<1> QED  BY <1>4, <1>5, <1>6, EntryOrigin

\* A note goes on to the write only if the record can take it.
LEMMA LoadOpens ==
    ASSUME IInv, NEW c \in Clients, ClientStep(c), pc[c] = "load", pc'[c] = "open"
    PROVE  /\ Exists(job[c].name) /\ MayAdd(job[c].op, file[job[c].name].entries)
           /\ file' = file /\ job' = job
<1>1. pc \in [Clients -> Phases]
  BY DEF IInv, TypeOK
<1>2. Load(c) \/ Crash(c)
  BY DEF ClientStep, RecordStep, UpStep, StartNote, StartShow, StartUp, Lock, Unlock,
         OpenFile, Write, Finish, Truncate, Untail, Parent, Leave, Register, Create,
         RemoveTemp, Verify, Withdraw, Unregister
<1>3. pc' # [pc EXCEPT ![c] = "idle"] /\ pc' # [pc EXCEPT ![c] = "unlock"]
  BY <1>1
<1>4. Load(c)
  BY <1>2, <1>3 DEF Crash, Ends, Goto
<1> QED  BY <1>3, <1>4 DEF Load, Goto, world, Subject, Kinds

\* In an empty record everything may be written.
LEMMA NothingThere ==
    /\ \A op : MayAdd(op, <<>>)
    /\ Len(<<>>) = 0
  BY DEF MayAdd, Readable, HasVerdict

\* OpenStays is kept: only the rollback of an up and a new up can put another
\* record in the place of the one that is open, and the new one is empty.
LEMMA OpenStaysStep ==
    ASSUME NEW c \in Clients, Stepped(c)
    PROVE  OpenStays'
<1>1. /\ \A d \in Clients : JobFits(d) /\ OpenFits(d)
      /\ FreshFile
  BY DEF Stepped, IInv, JobsFit, OpenStays
<1>2. ASSUME NEW d \in Clients \ {c}
      PROVE  OpenFits(d)'
  <2> DEFINE n == job[d].name
  <2>1. pc'[d] = pc[d] /\ job'[d] = job[d]
    BY DEF Stepped
  <2>2. CASE pc[d] \in {"open"} \cup Opened
    <3>1. IsNote(d) /\ pc[d] \in Appending
      BY <1>1, <2>2 DEF JobFits, Opened, Tailing, Appending
    <3>2. CASE file'[n] = file[n] /\ withdrawn \subseteq withdrawn'
      BY <1>1, <2>1, <3>2 DEF OpenFits, Linked, Exists
    <3>3. CASE Makes(c) /\ job[c].name = n
      <4>1. ~Exists(n) /\ file'[n].entries = <<>> /\ file'[n].gen = job[c].gen
            /\ withdrawn' = withdrawn
        BY <3>3 DEF Makes, New
      <4>2. job[d].gen # job[c].gen
        BY <1>1, <3>1, <3>3 DEF FreshFile, Unmade, Makes, JobFits, Making
      <4>3. ~Linked(d) /\ ~Linked(d)'
        BY <2>1, <4>1, <4>2 DEF Linked, Exists
      <4> QED  BY <1>1, <2>1, <4>1, <4>3, NothingThere DEF OpenFits
    <3>4. CASE Removes(c) /\ job[c].name = n
      <4>1. /\ file'[n] = NoRecord /\ withdrawn \subseteq withdrawn'
            /\ Exists(n) => file[n].gen \in withdrawn'
        BY <3>4 DEF Removes
      <4> QED  BY <1>1, <2>1, <4>1 DEF OpenFits, Linked, Exists
    <3> QED  BY <3>1, <3>2, <3>3, <3>4, Undisturbed
  <2>3. CASE pc[d] \notin {"open"} \cup Opened
    BY <2>1, <2>3 DEF OpenFits, Opened
  <2> QED  BY <2>2, <2>3
<1>3. OpenFits(c)'
  <2> DEFINE n == job[c].name
  <2>1. CASE pc[c] = "load" /\ pc'[c] = "open"
    <3>1. file' = file /\ job' = job /\ MayAdd(job[c].op, file[n].entries)
      BY <2>1, LoadOpens DEF Stepped
    <3> QED  BY <2>1, <3>1 DEF OpenFits, Opened, Tailing
  <2>2. CASE pc[c] = "open" /\ pc'[c] = "write" /\ Goes(c)
    <3>1. file' = file
      BY <2>2 DEF Stepped, FileEffect, Appends, Completes, Cuts, Spoils, Makes, Removes
    <3>2. /\ Exists(n) /\ job'[c].name = n /\ job'[c].gen = file[n].gen
          /\ job'[c].op = job[c].op /\ job'[c].orig = Len(file[n].entries)
      BY <2>2 DEF Goes, Opens
    <3>3. Linked(c)'
      <4>1. file'[job'[c].name] # NoRecord /\ file'[job'[c].name].gen = job'[c].gen
        BY <3>1, <3>2, SMTT(30) DEF Exists
      <4> QED  BY <4>1, Zenon DEF Linked, Exists
    <3> QED  BY <1>1, <2>2, <3>1, <3>2, <3>3 DEF OpenFits, Exists
  <2>3. CASE pc[c] \in {"write", "finish"} /\ pc'[c] \in Tailing /\ Goes(c)
    <3>1. /\ job'[c].name = n /\ job'[c].gen = job[c].gen /\ pc[c] \in Opened
      BY <2>3 DEF Goes, Opened, Tailing
    <3>2. CASE file' = file /\ withdrawn' = withdrawn
      BY <1>1, <2>3, <3>1, <3>2 DEF OpenFits, Linked, Exists, Tailing, Opened
    <3>3. CASE Appends(c) \/ Completes(c)
      <4>1. Linked(c) /\ Touches(c) /\ withdrawn' = withdrawn
        BY <3>3, Zenon DEF Appends, Completes, Touches
      <4>2. Linked(c)'
        BY <3>1, <4>1 DEF Linked, Touches, Exists
      <4> QED  BY <2>3, <4>2, Zenon DEF OpenFits, Tailing
    <3> QED  BY <2>3, <3>2, <3>3 DEF Stepped, FileEffect, Cuts, Spoils, Makes, Removes,
                                     Tailing
  <2>4. CASE pc'[c] \notin {"open"} \cup Opened
    BY <2>4 DEF OpenFits, Opened
  <2>5. \/ pc[c] = "load" /\ pc'[c] = "open"
        \/ pc[c] = "open" /\ pc'[c] = "write" /\ Goes(c)
        \/ pc[c] \in {"write", "finish"} /\ pc'[c] \in Tailing /\ Goes(c)
        \/ pc'[c] \notin {"open"} \cup Opened
    BY DEF Stepped, Shape, BeginsNote, BeginsShow, BeginsUp, Ended, Goes, Edge, Opened,
           Tailing
  <2> QED  BY <2>1, <2>2, <2>3, <2>4, <2>5
<1> QED  BY <1>2, <1>3 DEF OpenStays

\* TailLast is kept: with the lock file held nobody writes behind the entry.
LEMMA TailLastStep ==
    ASSUME NEW c \in Clients, Stepped(c)
    PROVE  TailLast'
<1>1. /\ \A d \in Clients : JobFits(d) /\ OpenFits(d) /\ TailFits(d)
      /\ FreshFile /\ FreshNote
  BY DEF Stepped, IInv, JobsFit, OpenStays, TailLast
<1>2. ASSUME NEW d \in Clients \ {c}
      PROVE  TailFits(d)'
  <2> DEFINE n == job[d].name
  <2>1. pc'[d] = pc[d] /\ job'[d] = job[d] /\ TailFits(d)
    BY <1>1 DEF Stepped
  <2>2. CASE pc[d] \in Tailing
    <3>1. IsNote(d) /\ pc[d] \in Appending
      BY <1>1, <2>2, SMTT(30) DEF JobFits, Opened, Tailing, Appending
    <3>2. CASE file'[n] = file[n]
      BY <2>1, <3>2, SMTT(30) DEF TailFits, Linked, Exists
    <3>3. CASE Makes(c) /\ job[c].name = n
      <4>1. file'[n].gen = job[c].gen
        BY <3>3 DEF Makes, New
      <4>2. job[d].gen # job[c].gen
        BY <1>1, <3>1, <3>3, SMTT(30) DEF FreshFile, Unmade, Makes, JobFits, Making
      <4> QED  BY <2>1, <4>1, <4>2 DEF TailFits, Linked
    <3>4. CASE Removes(c) /\ job[c].name = n
      BY <2>1, <3>4, SMTT(30) DEF TailFits, Linked, Exists, Removes
    <3> QED  BY <3>1, <3>2, <3>3, <3>4, Undisturbed
  <2>3. CASE pc[d] \notin Tailing
    BY <2>1, <2>3 DEF TailFits
  <2> QED  BY <2>2, <2>3
<1>3. TailFits(c)'
  <2> DEFINE n == job[c].name   es == file[n].entries   fs == file'[n].entries
  <2> SUFFICES ASSUME pc'[c] \in Tailing, Linked(c)'
               PROVE  TailFits(c)'
    BY DEF TailFits
  <2>1. /\ pc[c] \in {"write", "finish"} /\ Goes(c)
        /\ job'[c].name = n /\ job'[c].no = job[c].no /\ job'[c].op = job[c].op
        /\ job'[c].gen = job[c].gen /\ job'[c].orig = job[c].orig
    BY DEF Stepped, Shape, BeginsNote, BeginsShow, BeginsUp, Ended, Goes, Edge, Tailing
  <2>2. Linked(c) /\ n \in Names
    <3>1. n \in Names
      BY <1>1, <2>1 DEF JobFits
    <3> QED  BY <2>1, <3>1, GenOfFile DEF Linked, Exists, Makes
  <2>3. /\ DOMAIN es = 1 .. Len(es) /\ Len(es) \in Nat
    BY <2>2, EntriesBounds, Zenon DEF Linked
  <2>4. CASE pc[c] = "write"
    <3>1. Appends(c)
      BY <2>1, <2>2, <2>4, FileStep DEF Stepped, IInv, Goes, Edge
    <3>2. /\ Len(fs) = Len(es) + 1 /\ \A i \in 1 .. Len(es) : fs[i] = es[i]
          /\ fs[Len(es) + 1].no = job[c].no /\ fs[Len(es) + 1].kind = job[c].op
      BY <3>1, Zenon DEF Appends
    <3>3. job[c].orig = Len(es) /\ MayAdd(job[c].op, es)
      BY <1>1, <2>2, <2>4 DEF OpenFits
    <3>4. \A i \in 1 .. Len(es) : es[i].no # job[c].no
      BY <1>1, <2>2, <2>3, <2>4, SMTT(30) DEF FreshNote, JobFits, Opened, Linked
    <3>5. \A i \in 1 .. Len(es) :
             es[i].form # "broken" /\ (job[c].op = "verdict" => es[i].kind # "verdict")
      BY <2>3, <3>3 DEF MayAdd, Readable, HasVerdict
    <3> HIDE DEF n, es, fs
    <3>6. /\ Len(fs) = job'[c].orig + 1
          /\ fs[job'[c].orig + 1].no = job'[c].no /\ fs[job'[c].orig + 1].kind = job'[c].op
          /\ \A i \in 1 .. job'[c].orig :
                /\ fs[i].no # job'[c].no /\ fs[i].form # "broken"
                /\ job'[c].op = "verdict" => fs[i].kind # "verdict"
      BY <2>1, <3>2, <3>3, <3>4, <3>5
    <3> QED  BY <2>1, <3>6, Zenon DEF TailFits, n, fs
  <2>5. CASE pc[c] = "finish"
    <3>1. /\ Len(es) = job[c].orig + 1
          /\ es[job[c].orig + 1].no = job[c].no /\ es[job[c].orig + 1].kind = job[c].op
          /\ \A i \in 1 .. job[c].orig :
                /\ es[i].no # job[c].no /\ es[i].form # "broken"
                /\ job[c].op = "verdict" => es[i].kind # "verdict"
      BY <1>1, <2>2, <2>5, Zenon DEF TailFits, Tailing
    <3>2. CASE file' = file
      BY <2>1, <3>1, <3>2, Zenon DEF TailFits
    <3>3. CASE Completes(c)
      <4>1. Len(fs) = Len(es) /\ \A i \in 1 .. Len(es) :
               fs[i] = IF es[i].no = job[c].no THEN Entry(c, "whole") ELSE es[i]
        BY <3>3, Zenon DEF Completes
      <4>2. Entry(c, "whole").no = job[c].no /\ Entry(c, "whole").kind = job[c].op
        BY DEF Entry
      <4>3. job[c].orig \in Nat
        BY <1>1, <2>1 DEF Stepped, IInv, TypeOK, Jobs
      <4> HIDE DEF n, es, fs
      <4>4. /\ Len(fs) = job'[c].orig + 1
            /\ fs[job'[c].orig + 1].no = job'[c].no /\ fs[job'[c].orig + 1].kind = job'[c].op
            /\ \A i \in 1 .. job'[c].orig :
                  /\ fs[i].no # job'[c].no /\ fs[i].form # "broken"
                  /\ job'[c].op = "verdict" => fs[i].kind # "verdict"
        <5>1. job[c].orig + 1 \in 1 .. Len(es) /\ 1 .. job[c].orig \subseteq 1 .. Len(es)
          BY <3>1, <4>3
        <5>2. /\ fs[job[c].orig + 1].no = job[c].no /\ fs[job[c].orig + 1].kind = job[c].op
              /\ \A i \in 1 .. job[c].orig : fs[i] = es[i]
          BY <3>1, <4>1, <4>2, <5>1
        <5> QED  BY <2>1, <3>1, <4>1, <5>2
      <4> QED  BY <2>1, <4>4, Zenon DEF TailFits, n, fs
    <3> QED  BY <2>5, <3>2, <3>3 DEF Stepped, FileEffect, Appends, Cuts, Spoils, Makes,
                                     Removes
  <2> QED  BY <2>1, <2>4, <2>5
<1> QED  BY <1>2, <1>3 DEF TailLast

(***************************************************************************)
(* What has settled                                                        *)
(***************************************************************************)

\* Who has an unsettled entry in a record after a step.
LEMMA WritersStep ==
    ASSUME NEW c \in Clients, Stepped(c), NEW n \in Names, Exists(n), file'[n] # NoRecord,
           file'[n].gen = file[n].gen, NEW d \in Writers(n)'
    PROVE  \/ d \in Writers(n) /\ job'[d].orig = job[d].orig
           \/ /\ d = c /\ n = job[c].name /\ Appends(c)
              /\ job'[c].orig = Len(file[n].entries)
<1>1. /\ d \in Clients /\ pc'[d] \in {"finish", "truncate", "untail"} /\ job'[d].name = n
      /\ job'[d].gen = file[n].gen
  BY DEF Writers, Linked
<1>2. CASE d # c
  BY <1>1, <1>2 DEF Stepped, Writers, Linked, Exists
<1>3. CASE d = c
  <2>1. Goes(c) /\ pc[c] \in {"write", "finish"}
    BY <1>1, <1>3 DEF Stepped, Shape, BeginsNote, BeginsShow, BeginsUp, Ended, Goes, Edge
  <2>2. job[c].name = n /\ job[c].gen = file[n].gen /\ job'[c].orig = job[c].orig
    BY <1>1, <1>3, <2>1 DEF Goes
  <2>3. Linked(c)
    BY <2>2 DEF Linked
  <2>4. CASE pc[c] = "write"
    <3>1. pc'[c] = "finish"
      BY <2>1, <2>4 DEF Goes, Edge
    <3>2. Appends(c)
      BY <2>3, <2>4, <3>1, FileStep DEF Stepped, IInv
    <3>3. job[c].orig = Len(file[n].entries)
      BY <2>2, <2>3, <2>4 DEF Stepped, IInv, OpenStays, OpenFits
    <3> QED  BY <1>3, <2>2, <3>2, <3>3
  <2>5. CASE pc[c] = "finish"
    BY <1>3, <2>2, <2>3, <2>5 DEF Writers
  <2> QED  BY <2>1, <2>4, <2>5
<1> QED  BY <1>2, <1>3

\* Only one command can have such an entry in a record: it has the lock file.
LEMMA WriterHolds ==
    ASSUME IInv, NEW n \in Names, NEW d \in Writers(n)
    PROVE  d \in Clients /\ flock[n].excl = d /\ IsNote(d) /\ d # NoClient
<1>1. d \in Clients /\ pc[d] \in Tailing /\ job[d].name = n
  BY DEF Writers, Tailing
<1>2. IsNote(d) /\ pc[d] \in Appending
  BY <1>1, Zenon DEF IInv, JobsFit, JobFits, Opened, Tailing, Appending
<1> QED  BY <1>1, <1>2, WorkRecordAssumption DEF IInv, LocksHeld

\* A withdrawn record stays withdrawn.
LEMMA WithdrawnGrows ==
    ASSUME NEW c \in Clients, Stepped(c)
    PROVE  withdrawn \subseteq withdrawn'
  BY Zenon DEF Stepped, FileEffect, Appends, Completes, Cuts, Spoils, Touches, Makes,
               Removes

\* What has settled stays so.
LEMMA SettledStays ==
    ASSUME NEW c \in Clients, Stepped(c), NEW x, x[1] \in Names, Settles(x)
    PROVE  Settles(x)'
<1> DEFINE n == x[1]   es == file[n].entries   fs == file'[n].entries
<1>1. CASE x[2] \in withdrawn
  BY <1>1, WithdrawnGrows DEF Settles
<1>2. CASE x[2] \notin withdrawn
  <2>1. PICK i \in DOMAIN es :
           es[i] = x[3] /\ \A d \in Writers(n) : i <= job[d].orig
    BY <1>2 DEF Settles
  <2>2. Exists(n) /\ file[n].gen = x[2]
    BY <1>2 DEF Settles
  <2>3. DOMAIN es = 1 .. Len(es) /\ Len(es) \in Nat
    BY <2>2, EntriesBounds
  <2>4. CASE Removes(c) /\ n = job[c].name
    BY <2>2, <2>4 DEF Settles, Removes
  <2>5. ASSUME file'[n] # NoRecord, file'[n].gen = file[n].gen,
               i \in DOMAIN fs, fs[i] = es[i]
        PROVE  Settles(x)'
    <3>1. \A d \in Writers(n)' : i <= job'[d].orig
      BY <2>1, <2>2, <2>3, <2>5, WritersStep
    <3> QED  BY <2>1, <2>2, <2>5, <3>1 DEF Settles, Exists
  <2>6. file'[n] # NoRecord => DOMAIN fs = 1 .. Len(fs) /\ Len(fs) \in Nat
    BY EntriesBounds
  <2>7. CASE file'[n] = file[n]
    BY <2>1, <2>2, <2>5, <2>7 DEF Exists
  <2>8. CASE (Appends(c) \/ Spoils(c)) /\ n = job[c].name
    <3>1. /\ file'[n] # NoRecord /\ file'[n].gen = file[n].gen
          /\ Len(fs) = Len(es) + 1 /\ \A j \in 1 .. Len(es) : fs[j] = es[j]
      BY <2>8, Zenon DEF Appends, Spoils, Touches
    <3>2. i \in DOMAIN fs /\ fs[i] = es[i]
      <4>1. i \in 1 .. Len(es) /\ i \in 1 .. Len(es) + 1
        BY <2>1, <2>3
      <4> QED  BY <2>6, <3>1, <4>1
    <3> QED  BY <2>5, <3>1, <3>2, Zenon
  <2>9. CASE (Completes(c) \/ Cuts(c)) /\ n = job[c].name
    <3>1. /\ file'[n] # NoRecord /\ file'[n].gen = file[n].gen
          /\ Linked(c) /\ pc[c] \in {"finish", "truncate", "untail"}
      BY <2>9 DEF Completes, Cuts, Touches
    <3>2. i <= job[c].orig
      BY <2>1, <2>9, <3>1, SMTT(30) DEF Writers
    <3>3. /\ Len(es) = job[c].orig + 1
          /\ \A j \in 1 .. job[c].orig : es[j].no # job[c].no
      BY <2>9, <3>1 DEF Stepped, IInv, TailLast, TailFits, Tailing
    <3>4. i \in 1 .. job[c].orig /\ job[c].orig \in Nat
      <4>1. job[c].orig \in Nat
        BY DEF Stepped, IInv, TypeOK, Jobs
      <4> QED  BY <2>1, <2>3, <3>2, <4>1
    <3>5. CASE Completes(c)
      <4>1. /\ Len(fs) = Len(es)
            /\ \A j \in 1 .. Len(es) :
                  fs[j] = IF es[j].no = job[c].no THEN Entry(c, "whole") ELSE es[j]
        BY <2>9, <3>5 DEF Completes
      <4>2. i \in DOMAIN fs /\ fs[i] = es[i]
        BY <2>1, <2>3, <2>6, <3>1, <3>3, <3>4, <4>1, Zenon
      <4> QED  BY <2>5, <3>1, <4>2, SMTT(30)
    <3>6. CASE Cuts(c)
      <4>1. Len(fs) = job[c].orig /\ \A j \in 1 .. Len(fs) : fs[j] = es[j]
        BY <2>9, <3>6 DEF Cuts
      <4>2. i \in DOMAIN fs /\ fs[i] = es[i]
        BY <2>6, <3>1, <3>4, <4>1
      <4> QED  BY <2>5, <3>1, <4>2
    <3> QED  BY <2>9, <3>5, <3>6, SMTT(30)
  <2>10. CASE Makes(c) /\ n = job[c].name
    BY <2>2, <2>10, Zenon DEF Makes
  <2>11. n # job[c].name => file'[n] = file[n] \/ file' = file
    BY Zenon DEF Stepped, FileEffect, Appends, Completes, Cuts, Spoils, Touches, Makes,
                 Removes
  <2> QED  BY <2>4, <2>7, <2>8, <2>9, <2>10, <2>11 DEF Stepped, FileEffect
<1> QED  BY <1>1, <1>2

\* When the holder of the lock file lets go, nobody has an unsettled entry.
LEMMA NoWriterLeft ==
    ASSUME NEW c \in Clients, Stepped(c), NEW n \in Names, Exists(n), file'[n] # NoRecord,
           file'[n].gen = file[n].gen, pc'[c] = "unlock",
           flock[n].excl \in {c, NoClient}
    PROVE  Writers(n)' = {}
<1> SUFFICES ASSUME NEW d \in Writers(n)'
             PROVE  FALSE
  OBVIOUS
<1>1. /\ d \in Clients /\ pc'[d] \in {"finish", "truncate", "untail"} /\ job'[d].name = n
      /\ job'[d].gen = file[n].gen
  BY DEF Writers, Linked
<1>2. d # c
  BY <1>1
<1>3. d \in Writers(n)
  BY <1>1, <1>2 DEF Stepped, Writers, Linked
<1> QED  BY <1>2, <1>3, WriterHolds DEF Stepped

\* GhostsSettle is kept: what is newly reported has just been completed, and what
\* is newly shown was read while no writer had the lock file.
LEMMA GhostsSettleStep ==
    ASSUME NEW c \in Clients, Stepped(c)
    PROVE  GhostsSettle'
<1>1. \A x \in reported \cup shown : Settles(x) /\ x[1] \in Names
  BY DEF Stepped, IInv, GhostsSettle, TypeOK
<1>2. IInv /\ ClientStep(c)
  BY DEF Stepped
<1>4. ASSUME NEW x \in reported', x \notin reported
      PROVE  Settles(x)'
  <2>0. PICK n : n = job[c].name
    OBVIOUS
  <2> DEFINE es == file[n].entries   fs == file'[n].entries
  <2>1. /\ pc[c] = "finish" /\ pc'[c] = "unlock"
        /\ x = <<n, job[c].gen, Entry(c, "whole")>>
        /\ Linked(c) => Completes(c)
    BY <1>2, <1>4, <2>0, GhostStep
  <2>2. CASE ~Linked(c)
    <3>1. job[c].gen \in withdrawn
      BY <1>2, <2>1, <2>2 DEF IInv, OpenStays, OpenFits, Opened, Tailing
    <3> QED  BY <2>1, <3>1, WithdrawnGrows DEF Settles
  <2>3. CASE Linked(c)
    <3>1. /\ n \in Names /\ Exists(n) /\ file'[n] # NoRecord /\ file'[n].gen = file[n].gen
          /\ Len(fs) = Len(es)
          /\ \A j \in 1 .. Len(es) :
                fs[j] = IF es[j].no = job[c].no THEN Entry(c, "whole") ELSE es[j]
      BY <2>0, <2>1, <2>3 DEF Completes, Touches
    <3>2. Len(es) = job[c].orig + 1 /\ es[job[c].orig + 1].no = job[c].no
      BY <1>2, <2>0, <2>1, <2>3 DEF IInv, TailLast, TailFits, Tailing
    <3>3. DOMAIN fs = 1 .. Len(fs) /\ Len(fs) \in Nat /\ job[c].orig \in Nat
      BY <3>1, EntriesBounds, Zenon DEF Stepped, IInv, TypeOK, Jobs
    <3>4. job[c].orig + 1 \in DOMAIN fs /\ fs[job[c].orig + 1] = Entry(c, "whole")
      <4> HIDE DEF es, fs
      <4>1. job[c].orig + 1 \in 1 .. Len(es)
        BY <3>2, <3>3
      <4> QED  BY <3>1, <3>2, <3>3, <4>1
    <3>5. flock[n].excl = c
      <4>1. c \in Writers(n)
        BY <2>0, <2>1, <2>3 DEF Writers
      <4> QED  BY <1>2, <3>1, <4>1, WriterHolds
    <3>6. Writers(n)' = {}
      BY <2>1, <3>1, <3>5, NoWriterLeft
    <3>7. file[n].gen = job[c].gen
      BY <2>0, <2>3 DEF Linked
    <3> HIDE DEF fs, es
    <3>8. x[1] = n /\ x[2] = job[c].gen /\ x[3] = Entry(c, "whole")
      BY <2>1
    <3> QED  BY <3>1, <3>4, <3>6, <3>7, <3>8, ZenonT(60) DEF Settles, Exists, fs
  <2> QED  BY <2>2, <2>3
<1>5. ASSUME NEW x \in shown', x \notin shown
      PROVE  Settles(x)'
  <2>0. PICK n : n = job[c].name
    OBVIOUS
  <2> DEFINE es == file[n].entries   fs == file'[n].entries
  <2>1. /\ job[c].op = "show" /\ pc[c] = "load" /\ pc'[c] = "unlock"
        /\ file' = file /\ Exists(n)
        /\ \E i \in DOMAIN es : x = <<n, file[n].gen, es[i]>>
    BY <1>2, <1>5, <2>0, GhostStep
  <2>2. PICK i \in DOMAIN es : x = <<n, file[n].gen, es[i]>>
    BY <2>1
  <2>3. n \in Names /\ c \in flock[n].shared
    BY <1>2, <2>0, <2>1 DEF IInv, JobsFit, JobFits, LocksHeld
  <2>4. flock[n].excl = NoClient
    BY <1>2, <2>3 DEF IInv, TypeOK
  <2>5. Writers(n)' = {}
    BY <2>1, <2>3, <2>4, NoWriterLeft DEF Exists
  <2> HIDE DEF es
  <2>6. x[1] = n /\ x[2] = file[n].gen /\ x[3] = es[i]
    BY <2>2
  <2> QED  BY <2>1, <2>5, <2>6 DEF Settles, Exists, es
<1> QED  BY <1>1, <1>4, <1>5, SettledStays DEF GhostsSettle

(***************************************************************************)
(* Drafts and parents                                                      *)
(***************************************************************************)

\* A record is made when it is linked.
LEMMA LinkMakes ==
    ASSUME NEW c \in Clients, Stepped(c), pc[c] = "create", pc'[c] = "temp"
    PROVE  Makes(c)
<1>1. /\ pc \in [Clients -> Phases] /\ file \in [Names -> Records \cup {NoRecord}]
      /\ job[c].name \in Names
  BY DEF Stepped, IInv, TypeOK, JobsFit, JobFits
<1>2. Create(c) \/ Crash(c)
  BY DEF Stepped, ClientStep, RecordStep, UpStep, StartNote, StartShow, StartUp, Lock, Load,
         OpenFile, Write, Finish, Truncate, Untail, Unlock, Parent, Leave, Register,
         RemoveTemp, Verify, Withdraw, Unregister
<1>3. pc' # [pc EXCEPT ![c] = "idle"] /\ pc' # [pc EXCEPT ![c] = "unregister"]
  BY <1>1
<1>4. ~Exists(job[c].name) /\ file' = [file EXCEPT ![job[c].name] = New(c)]
  BY <1>2, <1>3 DEF Create, Crash, Ends, Goto
<1>5. file'[job[c].name] = New(c) /\ New(c) # NoRecord
  <2>1. job[c].gen \in 1 .. MaxUps
    BY DEF Stepped, IInv, JobsFit, JobFits, Making, TypeOK, Jobs, IsUp
  <2>2. New(c) \in Records
    <3>1. job[c].parent \in Names \cup {NoName}
      BY DEF Stepped, IInv, TypeOK, Jobs
    <3>2. <<>> \in Seq(Entries)
      BY EmptySeq
    <3> QED  BY <2>1, <3>1, <3>2 DEF New, Records
  <2> QED  BY <1>1, <1>4, <2>2, NoRecordAssumption
<1>6. file' # file
  BY <1>4, <1>5 DEF Exists
<1> QED  BY <1>6 DEF Stepped, FileEffect, Appends, Completes, Cuts, Spoils, Removes

\* DraftStays is kept: the registry lock keeps the next up of the name away.
LEMMA DraftStaysStep ==
    ASSUME NEW c \in Clients, Stepped(c)
    PROVE  DraftStays'
<1>1. \A d \in Clients : pc[d] \in Drafting => Linked(d) /\ reg = d /\ job[d].name \in Names
  BY DEF Stepped, IInv, DraftStays, LocksHeld, Making, JobsFit, JobFits, Drafting
<1>2. ASSUME NEW d \in Clients \ {c}, pc[d] \in Drafting
      PROVE  Linked(d)'
  <2> DEFINE n == job[d].name
  <2>1. job'[d] = job[d] /\ Linked(d) /\ n \in Names /\ reg = d
    BY <1>1, <1>2, Zenon DEF Stepped
  <2>2. file'[n] # NoRecord
    BY <1>1, <2>1, Zenon DEF Stepped, FileEffect, Appends, Completes, Cuts, Spoils,
                             Touches, Makes,
                      Removes, Drafting, Linked, Exists
  <2>3. file'[n].gen = file[n].gen
    BY <2>1, <2>2, GenOfFile DEF Makes, Linked
  <2> QED  BY <2>1, <2>2, <2>3 DEF Linked, Exists
<1>3. ASSUME pc'[c] \in Drafting
      PROVE  Linked(c)'
  <2>1. Goes(c) /\ pc[c] \in {"create", "temp", "verify"}
    BY <1>3 DEF Stepped, Shape, BeginsNote, BeginsShow, BeginsUp, Ended, Goes, Edge,
                Drafting
  <2>2. job'[c].name = job[c].name /\ job'[c].gen = job[c].gen
    BY <2>1 DEF Goes
  <2>3. CASE pc[c] = "create"
    <3>1. Makes(c)
      <4>1. pc'[c] = "temp"
        BY <1>3, <2>1, <2>3 DEF Goes, Edge, Drafting
      <4> QED  BY <2>3, <4>1, LinkMakes
    <3> QED  BY <2>2, <3>1, NoRecordAssumption DEF Makes, Linked, Exists, New
  <2>4. CASE pc[c] \in {"temp", "verify"}
    <3>1. file' = file
      BY <2>4, Zenon DEF Stepped, FileEffect, Appends, Completes, Cuts, Spoils, Makes,
                         Removes
    <3> QED  BY <1>1, <2>2, <2>4, <3>1, Zenon DEF Linked, Exists, Drafting
  <2> QED  BY <2>1, <2>3, <2>4
<1> QED  BY <1>2, <1>3 DEF Stepped, DraftStays

\* What a record is stacked on stays what it is.
LEMMA FirmStays ==
    ASSUME NEW c \in Clients, Stepped(c), NEW p \in Names, Firm(p)
    PROVE  Firm(p)'
<1>1. Exists(p) /\ ~Draft(p)
  BY DEF Firm
<1>2. pc[c] \in Drafting /\ job[c].name = p => Draft(p)
  BY Zenon DEF Stepped, IInv, JobsFit, JobFits, Making, Draft, Drafting, IsUp
<1>3. Exists(p)'
  BY <1>1, <1>2, Zenon DEF Stepped, FileEffect, Appends, Completes, Cuts, Spoils, Touches,
                           Makes,
                    Removes, Drafting, Exists
<1>4. ASSUME NEW d \in Clients, job'[d].op = "up", job'[d].name = p, pc'[d] \in Drafting
      PROVE  FALSE
  <2>1. CASE d # c
    BY <1>1, <1>4, <2>1 DEF Stepped, Draft, Drafting
  <2>2. CASE d = c
    <3>1. Goes(c) /\ pc[c] \in {"create", "temp", "verify"}
      BY <1>4, <2>2 DEF Stepped, Shape, BeginsNote, BeginsShow, BeginsUp, Ended, Goes, Edge,
                        Drafting
    <3>2. job[c].name = p
      BY <1>4, <2>2, <3>1 DEF Goes
    <3>3. pc[c] = "create" => pc'[c] = "temp"
      BY <1>4, <2>2, <3>1 DEF Goes, Edge, Drafting
    <3>4. pc[c] = "create" => ~Exists(p)
      BY <3>2, <3>3, LinkMakes DEF Makes
    <3> QED  BY <1>1, <1>2, <3>1, <3>2, <3>4 DEF Drafting
  <2> QED  BY <2>1, <2>2
<1>5. ~Draft(p)'
  BY <1>4 DEF Draft, Drafting
<1> QED  BY <1>3, <1>5 DEF Firm

\* ParentsFirm is kept: resolveParent looks while nobody has the registry lock,
\* and what it finds then can no longer be rolled back.
LEMMA ParentsFirmStep ==
    ASSUME NEW c \in Clients, Stepped(c)
    PROVE  ParentsFirm'
<1>0. IInv /\ ClientStep(c)
  BY DEF Stepped
<1>1. \A d \in Clients : JobFits(d) /\ job[d].parent \in Names \cup {NoName}
  BY <1>0 DEF IInv, JobsFit, TypeOK, Jobs
<1>2. ASSUME NEW d \in Clients, IsUp(d), job[d].parent # NoName,
             pc[d] \in {"up", "create"} \cup Resolving
      PROVE  Firm(job[d].parent)
  BY <1>0, <1>2 DEF IInv, ParentsFirm
<1>3. ASSUME NEW n \in Names, file'[n] # NoRecord, NEW p, p = file'[n].parent, p # NoName
      PROVE  p # n /\ Firm(p)'
  <2>1. CASE Exists(n) /\ file'[n].parent = file[n].parent
    <3>1. p # n /\ Firm(p)
      BY <1>0, <1>3, <2>1 DEF IInv, ParentsFirm
    <3>2. p \in Names
      BY <1>0, <1>3, <2>1, FileFacts DEF IInv, TypeOK
    <3> QED  BY <3>1, <3>2, FirmStays
  <2>2. CASE Makes(c) /\ n = job[c].name
    <3>1. p = job[c].parent /\ pc[c] = "create"
      BY <1>3, <2>2 DEF Makes, New
    <3>2. IsUp(c) /\ p # n
      BY <1>1, <2>2, <3>1 DEF JobFits, Making
    <3>3. p \in Names /\ Firm(p)
      BY <1>1, <1>2, <1>3, <3>1, <3>2
    <3> QED  BY <3>2, <3>3, FirmStays
  <2> QED  BY <1>3, <2>1, <2>2, GenOfFile
<1>4. ASSUME NEW d \in Clients, job'[d].op = "up", NEW p, p = job'[d].parent, p # NoName,
             pc'[d] \in {"up", "create"} \cup Resolving
      PROVE  Firm(p)'
  <2>1. CASE d # c
    <3>1. p = job[d].parent /\ IsUp(d) /\ pc[d] = pc'[d] /\ p # NoName
      BY <1>4, <2>1 DEF Stepped, IsUp
    <3> QED  BY <1>1, <1>2, <1>4, <3>1, FirmStays
  <2>2. CASE d = c
    <3>1. Goes(c) /\ p = job[c].parent /\ IsUp(c) /\ p # NoName
      BY <1>4, <2>2 DEF Stepped, Shape, BeginsNote, BeginsShow, BeginsUp, Ended, Goes, IsUp,
                        Kinds, Resolving
    <3>2. pc[c] \in {"up", "create"} \cup Resolving \/ (pc[c] = "parent" /\ pc'[c] = "lock")
      <4>1. pc[c] \notin {"open"} \cup Opened
        BY <1>1, <3>1 DEF JobFits, IsUp, IsNote, Kinds
      <4> QED  BY <1>4, <2>2, <3>1, <4>1 DEF Goes, Edge, Resolving, Opened, Tailing
    <3>3. p \in Names
      BY <1>1, <3>1
    <3>4. CASE pc[c] = "parent" /\ pc'[c] = "lock"
      <4>1. reg = NoClient /\ Exists(p)
        BY <1>0, <3>1, <3>4, RegStep
      <4>2. ~Draft(p)
        BY <1>0, <4>1, WorkRecordAssumption DEF Draft, IInv, LocksHeld, Making, Drafting
      <4> QED  BY <3>3, <4>1, <4>2, FirmStays DEF Firm
    <3> QED  BY <1>2, <3>1, <3>2, <3>3, <3>4, FirmStays
  <2> QED  BY <2>1, <2>2
<1> QED  BY <1>3, <1>4 DEF ParentsFirm, Firm, Draft, Exists, IsUp

(***************************************************************************)
(* Types, and the invariant as a whole                                     *)
(***************************************************************************)

\* The counters stay within their bounds, and commands register their own name.
LEMMA CountersStep ==
    ASSUME TypeOK, NEW c \in Clients, ClientStep(c)
    PROVE  /\ ups' \in 0 .. MaxUps /\ notes' \in 0 .. MaxNotes /\ faults' \in 0 .. MaxFaults
           /\ registered' \subseteq Names \cup {job[c].name}
<1>1. /\ ups \in 0 .. MaxUps /\ notes \in 0 .. MaxNotes /\ faults \in 0 .. MaxFaults
      /\ MaxUps \in Nat /\ MaxNotes \in Nat /\ MaxFaults \in Nat /\ registered \subseteq Names
  BY WorkRecordAssumption, Zenon DEF TypeOK
<1>2. \/ ups' = ups
      \/ ups < MaxUps /\ ups' = ups + 1
  BY Zenon DEF ClientStep, RecordStep, UpStep, StartNote, StartShow, StartUp, Lock, Load,
               OpenFile,
         Write, Finish, Truncate, Untail, Unlock, Parent, Leave, Register, Create,
         RemoveTemp, Verify, Withdraw, Unregister, Crash
<1>3. \/ notes' = notes
      \/ notes < MaxNotes /\ notes' = notes + 1
  BY Zenon DEF ClientStep, RecordStep, UpStep, StartNote, StartShow, StartUp, Lock, Load,
               OpenFile,
         Write, Finish, Truncate, Untail, Unlock, Parent, Leave, Register, Create,
         RemoveTemp, Verify, Withdraw, Unregister, Crash
<1>4. \/ faults' = faults
      \/ faults > 0 /\ faults' = faults - 1
  BY Zenon DEF ClientStep, RecordStep, UpStep, StartNote, StartShow, StartUp, Lock, Load,
               OpenFile,
         Write, Finish, Truncate, Untail, Unlock, Parent, Leave, Register, Create,
         RemoveTemp, Verify, Withdraw, Unregister, Crash, Works, Fails
<1>5. \/ registered' = registered
      \/ registered' = registered \cup {job[c].name}
      \/ registered' = registered \ {job[c].name}
  BY Zenon DEF ClientStep, RecordStep, UpStep, StartNote, StartShow, StartUp, Lock, Load,
               OpenFile,
         Write, Finish, Truncate, Untail, Unlock, Parent, Leave, Register, Create,
         RemoveTemp, Verify, Withdraw, Unregister, Crash, world
<1>6. ups' \in 0 .. MaxUps
  BY <1>1, <1>2
<1>7. notes' \in 0 .. MaxNotes
  BY <1>1, <1>3
<1>8. faults' \in 0 .. MaxFaults
  BY <1>1, <1>4
<1> QED  BY <1>1, <1>5, <1>6, <1>7, <1>8

\* TypeOK is kept.
LEMMA TypeStep ==
    ASSUME NEW c \in Clients, Stepped(c)
    PROVE  TypeOK'
<1>0. IInv /\ ClientStep(c) /\ TypeOK /\ JobsFit /\ file' \in [Names -> Records \cup {NoRecord}]
  BY DEF Stepped, IInv
<1>1. /\ file \in [Names -> Records \cup {NoRecord}] /\ job \in [Clients -> Jobs]
      /\ pc \in [Clients -> Phases]
  BY <1>0 DEF TypeOK
<1>2. job' \in [Clients -> Jobs] /\ pc' \in [Clients -> Phases]
  BY <1>0, <1>1, JobType, PcType
<1>3. reg' \in Clients \cup {NoClient}
  BY <1>0, RegStep
<1>4. /\ flock' \in [Names -> Locks]
      /\ \A n \in Names : flock'[n].excl # NoClient => flock'[n].shared = {}
  BY <1>0, FlockStep
<1>5. /\ ups' \in 0 .. MaxUps /\ notes' \in 0 .. MaxNotes /\ faults' \in 0 .. MaxFaults
      /\ registered' \subseteq Names
  <2>1. registered' \subseteq Names
    <3>1. CASE pc[c] \notin {"up", "unregister"}
      <4>1. registered' = registered
        BY <1>0, <3>1, Zenon DEF ClientStep, RecordStep, UpStep, StartNote, StartShow,
                                 StartUp, Lock,
               Load, OpenFile, Write, Finish, Truncate, Untail, Unlock, Parent, Leave,
                 Register,
               Create, RemoveTemp, Verify, Withdraw, Unregister, Crash, world
      <4> QED  BY <1>0, <4>1, Zenon DEF TypeOK
    <3>2. CASE pc[c] \in {"up", "unregister"}
      <4>1. job[c].name \in Names
        BY <1>0, <3>2 DEF JobsFit, JobFits
      <4> QED  BY <1>0, <4>1, CountersStep
    <3> QED  BY <3>1, <3>2
  <2> QED  BY <1>0, <2>1, CountersStep
<1>6. \A x \in reported' : x \in Names \X (1 .. MaxUps) \X Entries
  <2> SUFFICES ASSUME NEW x \in reported', x \notin reported
               PROVE  x \in Names \X (1 .. MaxUps) \X Entries
    BY <1>0 DEF TypeOK
  <2>1. pc[c] = "finish" /\ x = <<job[c].name, job[c].gen, Entry(c, "whole")>>
    BY <1>0, GhostStep
  <2>2. IsNote(c) /\ job[c].name \in Names /\ job[c].gen # 0 /\ job[c].gen \in 0 .. MaxUps
    BY <1>0, <1>1, <2>1 DEF JobsFit, JobFits, Opened, Tailing, Jobs
  <2>3. job[c].gen \in 1 .. MaxUps
    BY <2>2, WorkRecordAssumption
  <2>4. Entry(c, "whole") \in Entries
    BY <1>0, <2>2, EntryType
  <2> QED  BY <2>1, <2>2, <2>3, <2>4
<1>7. \A x \in shown' : x \in Names \X (1 .. MaxUps) \X Entries
  <2> SUFFICES ASSUME NEW x \in shown', x \notin shown
               PROVE  x \in Names \X (1 .. MaxUps) \X Entries
    BY <1>0 DEF TypeOK
  <2>1. PICK i \in DOMAIN file[job[c].name].entries :
           /\ pc[c] = "load" /\ Exists(job[c].name)
           /\ x = <<job[c].name, file[job[c].name].gen, file[job[c].name].entries[i]>>
    BY <1>0, GhostStep
  <2>2. job[c].name \in Names
    BY <1>0, <2>1 DEF JobsFit, JobFits
  <2> QED  BY <1>1, <2>1, <2>2, FileFacts
<1>8. withdrawn' \subseteq 1 .. MaxUps
  <2>1. withdrawn \subseteq 1 .. MaxUps
    BY <1>0 DEF TypeOK
  <2>2. withdrawn' = withdrawn \/ Removes(c)
    BY Zenon DEF Stepped, FileEffect, Appends, Completes, Cuts, Spoils, Touches, Makes
  <2> QED  BY <1>1, <2>1, <2>2, FileFacts, Zenon DEF Removes
<1> QED  BY <1>0, <1>2, <1>3, <1>4, <1>5, <1>6, <1>7, <1>8 DEF TypeOK

\* The invariant holds initially: no records, no commands.
LEMMA InitHolds == Init => IInv
<1> SUFFICES ASSUME Init
             PROVE  IInv
  OBVIOUS
<1>1. \A c \in Clients : pc[c] = "idle" /\ job[c] = NoJob
  BY DEF Init
<1>2. /\ \A n \in Names : ~Exists(n)
      /\ reported = {} /\ shown = {}
  BY DEF Init, Exists
<1>3. TypeOK
  <2>1. file \in [Names -> Records \cup {NoRecord}] /\ flock \in [Names -> Locks]
    BY DEF Init, Locks
  <2>2. pc \in [Clients -> Phases] /\ job \in [Clients -> Jobs]
    BY NoJobType DEF Init, Phases
  <2>3. \A n \in Names : flock[n].shared = {}
    BY DEF Init
  <2>4. ups \in 0 .. MaxUps /\ notes \in 0 .. MaxNotes /\ faults \in 0 .. MaxFaults
    BY WorkRecordAssumption DEF Init
  <2>5. reg \in Clients \cup {NoClient} /\ registered = {} /\ withdrawn = {}
    BY DEF Init
  <2> QED  BY <1>2, <2>1, <2>2, <2>3, <2>4, <2>5 DEF TypeOK
<1>4. JobsFit /\ JobsDiffer
  <2>1. \A c \in Clients : ~IsUp(c) /\ ~IsNote(c)
    BY <1>1 DEF IsUp, IsNote, NoJob, Kinds
  <2> QED  BY <1>1, <2>1 DEF JobsFit, JobFits, JobsDiffer, Opened, Tailing, Making,
                             Drafting,
                             Resolving
<1>5. LocksHeld
  BY <1>1 DEF LocksHeld, IsUp, IsNote, NoJob, Kinds, Making, Drafting, Resolving, Appending
<1>6. FilesKnown /\ FreshFile /\ FreshNote
  BY <1>1, <1>2 DEF FilesKnown, FreshFile, FreshNote, Unmade, IsUp, IsNote, NoJob, Kinds
<1>7. OpenStays /\ TailLast /\ GhostsSettle
  BY <1>1, <1>2 DEF OpenStays, OpenFits, TailLast, TailFits, GhostsSettle, Opened, Tailing
<1>8. DraftStays /\ ParentsFirm
  BY <1>1, <1>2 DEF DraftStays, ParentsFirm, Drafting, IsUp, NoJob
<1> QED  BY <1>3, <1>4, <1>5, <1>6, <1>7, <1>8 DEF IInv

\* Nothing depends on what is registered.
LEMMA OnlyRegistered ==
    ASSUME IInv, registered' \subseteq Names,
           UNCHANGED <<reg, file, flock, pc, job, ups, notes, ghosts, faults>>
    PROVE  IInv'
<1> USE DEF ghosts
<1>1. TypeOK'
  BY DEF IInv, TypeOK
<1>2. JobsFit' /\ JobsDiffer' /\ LocksHeld'
  BY DEF IInv, JobsFit, JobFits, JobsDiffer, LocksHeld, IsUp, IsNote
<1>3. FilesKnown' /\ FreshFile' /\ FreshNote'
  BY SMTT(30) DEF IInv, FilesKnown, FreshFile, FreshNote, Unmade, IsUp, IsNote, Exists
<1>4. OpenStays' /\ TailLast'
  BY DEF IInv, OpenStays, OpenFits, TailLast, TailFits, Exists, Linked
<1>5. GhostsSettle'
  BY DEF IInv, GhostsSettle, Settles, Writers, Exists, Linked
<1>6. DraftStays' /\ ParentsFirm'
  BY DEF IInv, DraftStays, ParentsFirm, Firm, Draft, Exists, Linked, IsUp
<1> QED  BY <1>1, <1>2, <1>3, <1>4, <1>5, <1>6 DEF IInv

\* A step of a command keeps the invariant.
LEMMA ClientStepKeeps ==
    ASSUME IInv, NEW c \in Clients, ClientStep(c)
    PROVE  IInv'
<1>1. Stepped(c)
  BY SteppedStep
<1>2. TypeOK' /\ OpenStays' /\ TailLast' /\ GhostsSettle' /\ DraftStays' /\ ParentsFirm'
  BY <1>1, TypeStep, OpenStaysStep, TailLastStep, GhostsSettleStep, DraftStaysStep,
     ParentsFirmStep
<1>3. JobsFit' /\ JobsDiffer' /\ LocksHeld'
  BY <1>1, JobsFitStep, JobsDifferStep, LocksHeldStep DEF Stepped, IInv
<1>4. FilesKnown' /\ FreshFile' /\ FreshNote'
  BY <1>1, FilesKnownStep, FreshFileStep, FreshNoteStep
<1> QED  BY <1>2, <1>3, <1>4 DEF IInv

\* Every step keeps the invariant.
LEMMA StepKeeps == IInv /\ [Next]_vars => IInv'
<1> SUFFICES ASSUME IInv, [Next]_vars
             PROVE  IInv'
  OBVIOUS
<1>1. ASSUME NEW c \in Clients, ClientStep(c)
      PROVE  IInv'
  BY <1>1, ClientStepKeeps
<1>2. ASSUME NEW n \in Names, Down(n)
      PROVE  IInv'
  <2>1. registered' \subseteq Names
    BY <1>2 DEF Down, IInv, TypeOK
  <2> QED  BY <1>2, <2>1, OnlyRegistered DEF Down
<1>3. CASE UNCHANGED vars
  <2>1. registered' \subseteq Names
    BY <1>3 DEF vars, IInv, TypeOK
  <2> QED  BY <1>3, <2>1, OnlyRegistered DEF vars, ghosts
<1> QED  BY <1>1, <1>2, <1>3 DEF Next, ClientStep

\* IInv, and with it everything below, holds throughout.
THEOREM InvariantHolds == Spec => []IInv
  BY InitHolds, StepKeeps, PTL DEF Spec

\* The variables of WorkRecord have their types, and the writer of a record is
\* the only holder of its lock file (record.go lock, withLock).
THEOREM TypesHold == Spec => []TypeOK
<1>1. IInv => TypeOK
  BY DEF IInv
<1> QED  BY <1>1, InvariantHolds, PTL

\* What is settled is in its record, or that was withdrawn.
LEMMA SettlesStays ==
    ASSUME NEW x, Settles(x)
    PROVE  Stays(x)
  BY DEF Settles, Stays, ToSet

\* A note or verdict whose command reported success stays in its record, whole,
\* whatever becomes of other writes (record.go appendBytes, Append, WriteVerdict).
THEOREM ReportedHolds == Spec => []ReportedStays
<1>1. IInv => ReportedStays
  BY SettlesStays DEF IInv, GhostsSettle, ReportedStays
<1> QED  BY <1>1, InvariantHolds, PTL

\* What plax record has printed is never taken back (record.go Read, withLock).
THEOREM ShownHolds == Spec => []ShownStays
<1>1. IInv => ShownStays
  BY SettlesStays DEF IInv, GhostsSettle, ShownStays
<1> QED  BY <1>1, InvariantHolds, PTL

\* The record that an instance names as its parent is there (resolveParent in
\* cmd/plax/main.go, and the registry lock under which it looks).
THEOREM LineageHolds == Spec => []LineageKept
<1>1. IInv => LineageKept
  BY DEF IInv, ParentsFirm, Firm, LineageKept
<1> QED  BY <1>1, InvariantHolds, PTL

(***************************************************************************)
(* The abstract specification: sequences of entries                        *)
(***************************************************************************)

\* The first k entries.
LEMMA PrefixFacts ==
    ASSUME NEW s \in Seq(Entries), NEW k \in Nat, k <= Len(s)
    PROVE  /\ SubSeq(s, 1, k) \in Seq(Entries) /\ Len(SubSeq(s, 1, k)) = k
           /\ \A i \in 1 .. k : SubSeq(s, 1, k)[i] = s[i]
<1>1. Len(s) \in Nat /\ \A i \in 1 .. Len(s) : s[i] \in Entries
  BY LenProperties, ElementOfSeq
<1>2. /\ SubSeq(s, 1, k) \in Seq(Entries)
      /\ Len(SubSeq(s, 1, k)) = IF 1 <= k THEN k - 1 + 1 ELSE 0
      /\ \A i \in 1 .. k - 1 + 1 : SubSeq(s, 1, k)[i] = s[1 + i - 1]
  <2>1. \A i \in 1 .. k : s[i] \in Entries
    BY <1>1
  <2>2. 1 \in Int /\ k \in Int
    OBVIOUS
  <2> QED  BY <2>1, <2>2, SubSeqProperties
<1> QED  BY <1>2

\* Records that agree on their first k entries have the same prefix.
LEMMA SamePrefix ==
    ASSUME NEW s \in Seq(Entries), NEW t \in Seq(Entries), NEW k \in Nat,
           k <= Len(s), k <= Len(t), \A i \in 1 .. k : s[i] = t[i]
    PROVE  SubSeq(s, 1, k) = SubSeq(t, 1, k)
<1>1. /\ SubSeq(s, 1, k) \in Seq(Entries) /\ Len(SubSeq(s, 1, k)) = k
      /\ \A i \in 1 .. k : SubSeq(s, 1, k)[i] = s[i]
  BY PrefixFacts
<1>2. /\ SubSeq(t, 1, k) \in Seq(Entries) /\ Len(SubSeq(t, 1, k)) = k
      /\ \A i \in 1 .. k : SubSeq(t, 1, k)[i] = t[i]
  BY PrefixFacts
<1> QED  BY <1>1, <1>2, SeqEqual

\* A record that agrees with another as far as it goes is a prefix of it.
LEMMA WholePrefix ==
    ASSUME NEW s \in Seq(Entries), NEW k \in Nat, k <= Len(s),
           NEW t \in Seq(Entries), Len(t) = k, \A i \in 1 .. k : s[i] = t[i]
    PROVE  SubSeq(s, 1, k) = t
<1>1. /\ SubSeq(s, 1, k) \in Seq(Entries) /\ Len(SubSeq(s, 1, k)) = k
      /\ \A i \in 1 .. k : SubSeq(s, 1, k)[i] = s[i]
  BY PrefixFacts
<1> QED  BY <1>1, SeqEqual

\* A record with one entry more than that is the prefix and that entry.
LEMMA PrefixAndLast ==
    ASSUME NEW s \in Seq(Entries), NEW t \in Seq(Entries), NEW k \in Nat,
           k <= Len(s), Len(t) = k + 1, \A i \in 1 .. k : s[i] = t[i]
    PROVE  t[k + 1] \in Entries /\ t = Append(SubSeq(s, 1, k), t[k + 1])
<1>1. /\ SubSeq(s, 1, k) \in Seq(Entries) /\ Len(SubSeq(s, 1, k)) = k
      /\ \A i \in 1 .. k : SubSeq(s, 1, k)[i] = s[i]
  BY PrefixFacts
<1>2. t[k + 1] \in Entries
  <2>1. k + 1 \in 1 .. Len(t)
    OBVIOUS
  <2> QED  BY <2>1, ElementOfSeq
<1> DEFINE u == Append(SubSeq(s, 1, k), t[k + 1])
<1>3. /\ u \in Seq(Entries) /\ Len(u) = k + 1
      /\ \A i \in 1 .. k : u[i] = s[i]
      /\ u[k + 1] = t[k + 1]
  BY <1>1, <1>2, AppendProperties
<1> HIDE DEF u
<1>4. \A i \in 1 .. Len(t) : t[i] = u[i]
  <2> SUFFICES ASSUME NEW i \in 1 .. Len(t)
               PROVE  t[i] = u[i]
    OBVIOUS
  <2>1. i \in 1 .. k \/ i = k + 1
    OBVIOUS
  <2> QED  BY <1>3, <2>1
<1>5. t = u
  BY <1>3, <1>4, SeqEqual
<1> QED  BY <1>2, <1>5 DEF u

\* The settled entries of a record.
LEMMA SettledIs ==
    IInv => \A n \in Names :
               /\ Writers(n) = {} => Settled(n) = file[n].entries
               /\ \A d \in Writers(n) : Settled(n) = SubSeq(file[n].entries, 1, job[d].orig)
<1> SUFFICES ASSUME IInv, NEW n \in Names, NEW d \in Writers(n)
             PROVE  Settled(n) = SubSeq(file[n].entries, 1, job[d].orig)
  BY Zenon DEF Settled
<1>1. ASSUME NEW x \in Writers(n)
      PROVE  x = d
  BY <1>1, WriterHolds
<1>2. (CHOOSE x \in Writers(n) : TRUE) \in Writers(n)
  OBVIOUS
<1>3. (CHOOSE x \in Writers(n) : TRUE) = d
  BY <1>1, <1>2
<1>4. job[d].name = n
  BY DEF Writers
<1> QED  BY <1>3, <1>4, Zenon DEF Settled, Before

\* The same after the step.
LEMMA SettledNext ==
    IInv' => (\A n \in Names :
                 /\ Writers(n) = {} => Settled(n) = file[n].entries
                 /\ \A d \in Writers(n) :
                       Settled(n) = SubSeq(file[n].entries, 1, job[d].orig))'
  BY SettledIs, PTL

(***************************************************************************)
(* The abstract specification: what a step changes                         *)
(***************************************************************************)

\* A step of c, together with the invariant that holds after it.
SteppedOn(c) == Stepped(c) /\ IInv'

\* The client whose step it is puts a record, if at all, its own in doubt.
Drafts(c, n) == job[c].op = "up" /\ job[c].name = n /\ pc[c] \in Drafting

\* A record is a draft if some client has it in doubt.
LEMMA DraftIs == \A n : Draft(n) = \E d \in Clients : Drafts(d, n)
  BY DEF Draft, Drafts, Drafting

\* If c has it in doubt after the step as before it, it is a draft as before.
LEMMA DraftSame ==
    ASSUME NEW c \in Clients, Stepped(c), NEW n, Drafts(c, n)' = Drafts(c, n)
    PROVE  Draft(n)' = Draft(n)
<1>1. \A d \in Clients : Drafts(d, n)' = Drafts(d, n)
  BY DEF Stepped, Drafts
<1> QED  BY <1>1 DEF Draft, Drafts, Drafting

\* If the record is the same and c has a part of an entry in it after the step as
\* before it, the same entries are settled.
LEMMA SettledSame ==
    ASSUME NEW c \in Clients, SteppedOn(c), NEW n \in Names, Exists(n), file'[n] = file[n],
           c \in Writers(n) <=> c \in Writers(n)'
    PROVE  Settled(n)' = Settled(n)
<1>1. Stepped(c) /\ IInv /\ IInv' /\ file'[n] # NoRecord
  BY DEF SteppedOn, Stepped, Exists
<1>2. \A d : d \in Writers(n) <=> d \in Writers(n)'
  BY <1>1 DEF Stepped, Writers, Linked, Exists
<1>3. CASE Writers(n) = {}
  BY <1>1, <1>2, <1>3, SettledIs, SettledNext
<1>4. CASE Writers(n) # {}
  <2>1. PICK d : d \in Writers(n) /\ d \in Writers(n)'
    BY <1>2, <1>4
  <2>2. job'[d].orig = job[d].orig
    <3>1. ~(d = c /\ Appends(c) /\ n = job[c].name)
      BY <2>1 DEF Appends, Writers
    <3> QED  BY <1>1, <2>1, <3>1, WritersStep, SMTT(30)
  <2> QED  BY <1>1, <2>1, <2>2, SettledIs, SettledNext, Zenon
<1> QED  BY <1>3, <1>4

\* What another record shows does not change.
LEMMA OtherJournals ==
    ASSUME NEW c \in Clients, SteppedOn(c), NEW n \in Names, n # job[c].name
    PROVE  JournalOf(n)' = JournalOf(n)
<1>0. Stepped(c)
  BY Zenon DEF SteppedOn
<1>1. file'[n] = file[n]
  BY <1>0, Zenon DEF Stepped, FileEffect, Appends, Completes, Cuts, Spoils, Touches, Makes,
                     Removes
<1>2. pc'[c] \in Drafting \cup Tailing => job'[c].name # n
  BY <1>0 DEF Stepped, Shape, BeginsNote, BeginsShow, BeginsUp, Ended, Goes, Drafting,
              Tailing
<1>3. Drafts(c, n)' = Drafts(c, n)
  BY <1>2 DEF Drafts
<1>4. c \in Writers(n) <=> c \in Writers(n)'
  BY <1>2 DEF Writers, Tailing
<1>5. Draft(n)' = Draft(n)
  BY <1>0, <1>3, DraftSame
<1>6. Exists(n) => Settled(n)' = Settled(n)
  BY <1>1, <1>4, SettledSame
<1> QED  BY <1>1, <1>5, <1>6 DEF JournalOf, Exists

\* What becomes of the entries of a record in a step of a command about it.
LEMMA EntriesStep ==
    ASSUME NEW c \in Clients, SteppedOn(c), NEW n \in Names, n = job[c].name, Exists(n),
           file'[n] # NoRecord, file'[n].gen = file[n].gen, ~IsUp(c)
    PROVE  \/ Settled(n)' = Settled(n)
           \/ /\ Readable(Settled(n))
              /\ \E e \in Entries : /\ e.kind = "verdict" => ~HasVerdict(Settled(n))
                                    /\ Settled(n)' = Append(Settled(n), e)
<1> DEFINE es == file[n].entries   fs == file'[n].entries   k == job[c].orig
<1>1. Stepped(c) /\ IInv /\ IInv'
  BY DEF SteppedOn, Stepped
<1>2. /\ es \in Seq(Entries) /\ DOMAIN es = 1 .. Len(es) /\ Len(es) \in Nat
      /\ fs \in Seq(Entries) /\ DOMAIN fs = 1 .. Len(fs) /\ Len(fs) \in Nat
      /\ k \in Nat
  <2>1. k \in Nat
    BY <1>1, SMTT(30) DEF IInv, TypeOK, Jobs
  <2> QED  BY <1>1, <2>1, EntriesBounds
<1>3. ASSUME c \in Writers(n)
      PROVE  /\ Settled(n) = SubSeq(es, 1, k) /\ Len(es) = k + 1
             /\ pc[c] \in Tailing /\ Linked(c) /\ IsNote(c)
             /\ es[k + 1].no = job[c].no /\ es[k + 1].kind = job[c].op
             /\ \A i \in 1 .. k :
                   /\ es[i].no # job[c].no /\ es[i].form # "broken"
                   /\ job[c].op = "verdict" => es[i].kind # "verdict"
  <2>1. pc[c] \in Tailing /\ Linked(c)
    BY <1>3 DEF Writers, Tailing
  <2>2. TailFits(c)
    BY <1>1 DEF IInv, TailLast
  <2>3. Settled(n) = SubSeq(es, 1, k)
    BY <1>1, <1>3, SettledIs
  <2>4. IsNote(c)
    BY <1>1, <1>3, WriterHolds
  <2> QED  BY <2>1, <2>2, <2>3, <2>4 DEF TailFits
<1>4. /\ \A d \in Writers(n) : flock[n].excl = d
      /\ \A d \in Writers(n)' : d \in Writers(n) \/ d = c
  BY <1>1, WriterHolds, WritersStep
<1>5. CASE c \in Writers(n) /\ c \notin Writers(n)'
  <2>1. Settled(n)' = fs
    <3>1. Writers(n)' = {}
      BY <1>4, <1>5, Zenon
    <3> QED  BY <1>1, <3>1, SettledNext
  <2>2. /\ Settled(n) = SubSeq(es, 1, k) /\ Len(es) = k + 1
        /\ \A i \in 1 .. k :
              /\ es[i].form # "broken"
              /\ job[c].op = "verdict" => es[i].kind # "verdict"
    BY <1>3, <1>5, Zenon
  <2>3. CASE Cuts(c)
    <3>1. Len(fs) = k /\ \A i \in 1 .. Len(fs) : fs[i] = es[i]
      BY <2>3 DEF Cuts
    <3> HIDE DEF es, fs, k
    <3>2. fs = SubSeq(es, 1, k)
      BY <1>2, <2>2, <3>1, WholePrefix
    <3> QED  BY <2>1, <2>2, <3>2
  <2>4. CASE file' = file \/ Completes(c)
    <3>1. /\ Len(fs) = k + 1 /\ \A i \in 1 .. k : es[i] = fs[i]
          /\ fs[k + 1].kind = job[c].op
      <4>1. CASE file' = file
        BY <1>3, <1>5, <4>1, Zenon
      <4>2. CASE Completes(c)
        <5>1. /\ Len(fs) = Len(es)
              /\ \A i \in 1 .. Len(es) :
                    fs[i] = IF es[i].no = job[c].no THEN Entry(c, "whole") ELSE es[i]
          BY <4>2, SMTT(30) DEF Completes
        <5>2. Entry(c, "whole").kind = job[c].op
          BY DEF Entry
        <5>3. k + 1 \in 1 .. Len(es) /\ 1 .. k \subseteq 1 .. Len(es)
          BY <1>2, <2>2
        <5> QED  BY <1>3, <1>5, <2>2, <5>1, <5>2, <5>3, ZenonT(60)
      <4> QED  BY <2>4, <4>1, <4>2
    <3> HIDE DEF es, fs, k
    <3>2. fs[k + 1] \in Entries /\ fs = Append(SubSeq(es, 1, k), fs[k + 1])
      BY <1>2, <2>2, <3>1, PrefixAndLast
    <3>3. /\ Readable(SubSeq(es, 1, k))
          /\ job[c].op = "verdict" => ~HasVerdict(SubSeq(es, 1, k))
      <4>1. /\ SubSeq(es, 1, k) \in Seq(Entries) /\ Len(SubSeq(es, 1, k)) = k
            /\ \A i \in 1 .. k : SubSeq(es, 1, k)[i] = es[i]
        BY <1>2, <2>2, PrefixFacts
      <4>2. DOMAIN SubSeq(es, 1, k) = 1 .. k
        BY <4>1, LenProperties, Zenon
      <4> QED  BY <2>2, <4>1, <4>2 DEF Readable, HasVerdict
    <3> QED  BY <2>1, <2>2, <3>1, <3>2, <3>3, ZenonT(60)
  <2>5. ~(Appends(c) \/ Spoils(c) \/ Makes(c) \/ Removes(c))
    BY <1>3, <1>5, Zenon DEF Appends, Spoils, Makes, Removes, Tailing
  <2> QED  BY <1>1, <2>3, <2>4, <2>5 DEF Stepped, FileEffect
<1>6. CASE c \in Writers(n) /\ c \in Writers(n)'
  <2>1. job'[c].orig = k
    <3>1. ~Appends(c)
      BY <1>3, <1>6, Zenon DEF Appends, Tailing
    <3> QED  BY <1>1, <1>6, <3>1, WritersStep
  <2>2. Settled(n)' = SubSeq(fs, 1, k)
    BY <1>1, <1>6, <2>1, SettledNext, Zenon
  <2>3. Settled(n) = SubSeq(es, 1, k) /\ Len(es) = k + 1
    BY <1>3, <1>6, Zenon
  <2>4. k <= Len(fs) /\ \A i \in 1 .. k : es[i] = fs[i]
    <3>1. CASE Completes(c)
      <4>1. /\ Len(fs) = Len(es)
            /\ \A i \in 1 .. Len(es) :
                  fs[i] = IF es[i].no = job[c].no THEN Entry(c, "whole") ELSE es[i]
        BY <3>1 DEF Completes
      <4>2. \A i \in 1 .. k : es[i].no # job[c].no
        BY <1>3, <1>6, Zenon
      <4> HIDE DEF es, fs, k
      <4>3. k <= Len(fs) /\ \A i \in 1 .. k : i \in 1 .. Len(es)
        BY <1>2, <2>3, <4>1
      <4>4. \A i \in 1 .. k : es[i] = fs[i]
        BY <4>1, <4>2, <4>3, Zenon
      <4> QED  BY <4>3, <4>4
    <3>2. CASE file' = file
      BY <1>2, <2>3, <3>2, SMTT(30)
    <3>3. ~(Appends(c) \/ Cuts(c) \/ Spoils(c) \/ Makes(c) \/ Removes(c))
      BY <1>3, <1>6 DEF Appends, Cuts, Spoils, Makes, Removes, Tailing, Writers
    <3> QED  BY <1>1, <3>1, <3>2, <3>3 DEF Stepped, FileEffect
  <2> HIDE DEF es, fs, k
  <2>5. SubSeq(es, 1, k) = SubSeq(fs, 1, k)
    <3>1. es \in Seq(Entries) /\ fs \in Seq(Entries) /\ k \in Nat /\ k <= Len(es)
      <4>1. Len(es) = k + 1
        BY <2>3
      <4> QED  BY <1>2, <4>1
    <3> QED  BY <2>4, <3>1, SamePrefix
  <2> QED  BY <2>2, <2>3, <2>5, Zenon
<1>7. CASE c \notin Writers(n) /\ c \in Writers(n)'
  <2>1. Appends(c) /\ job'[c].orig = Len(es)
    BY <1>1, <1>7, WritersStep
  <2>2. Settled(n)' = SubSeq(fs, 1, Len(es))
    BY <1>1, <1>7, <2>1, SettledNext, Zenon
  <2>3. flock[n].excl = c
    BY <1>1, <2>1, Zenon DEF Appends, IInv, LocksHeld, JobsFit, JobFits, Opened, Appending
  <2>4. Settled(n) = es
    BY <1>1, <1>4, <1>7, <2>3, SettledIs, ZenonT(60)
  <2>5. Len(fs) = Len(es) + 1 /\ \A i \in 1 .. Len(es) : fs[i] = es[i]
    BY <2>1, Zenon DEF Appends
  <2> HIDE DEF es, fs
  <2>6. SubSeq(fs, 1, Len(es)) = es
    BY <1>2, <2>5, WholePrefix
  <2> QED  BY <2>2, <2>4, <2>6, Zenon
<1>8. CASE c \notin Writers(n) /\ c \notin Writers(n)'
  <2>1. CASE file'[n] = file[n]
    BY <1>8, <2>1, SettledSame
  <2>2. CASE Spoils(c)
    <3>1. /\ pc[c] = "untail" /\ ~Linked(c)
          /\ Len(fs) = Len(es) + 1 /\ fs[Len(es) + 1] = Junk
      BY <2>2 DEF Spoils
    <3>2. es = <<>>
      BY <1>1, <3>1 DEF IInv, OpenStays, OpenFits, Opened, Tailing
    <3>3. flock[n].excl = c
      BY <1>1, <3>1 DEF IInv, LocksHeld, JobsFit, JobFits, Opened, Tailing, Appending
    <3>4. Writers(n) = {} /\ Writers(n)' = {}
      BY <1>4, <1>8, <3>3
    <3>5. Settled(n) = <<>> /\ Settled(n)' = fs
      BY <1>1, <3>2, <3>4, SettledIs, SettledNext
    <3>6. Junk \in Entries /\ Junk.kind # "verdict"
      BY WorkRecordAssumption DEF Junk, Entries, Kinds
    <3>7. <<>> \in Seq(Entries) /\ Len(<<>>) = 0
      BY EmptySeq
    <3>8. fs = Append(<<>>, Junk)
      <4>1. /\ Append(<<>>, Junk) \in Seq(Entries) /\ Len(Append(<<>>, Junk)) = 1
            /\ Append(<<>>, Junk)[1] = Junk
        BY <3>6, <3>7, AppendProperties
      <4>2. Len(fs) = 1 /\ fs[1] = Junk
        BY <3>1, <3>2, <3>7
      <4> HIDE DEF es, fs
      <4>3. \A i \in 1 .. Len(fs) : fs[i] = Append(<<>>, Junk)[i]
        BY <4>1, <4>2
      <4> QED  BY <1>2, <4>1, <4>2, <4>3, SeqEqual
    <3> QED  BY <3>5, <3>6, <3>8 DEF Readable
  <2>3. ~(Appends(c) \/ Completes(c) \/ Cuts(c) \/ Makes(c) \/ Removes(c))
    <3>1. Appends(c) => c \in Writers(n)'
      BY <1>1, Zenon DEF Appends, Writers, Linked, Exists, Stepped, Shape, BeginsNote,
                         BeginsShow,
                  BeginsUp, Ended, Goes
    <3>2. Makes(c) \/ Removes(c) => IsUp(c)
      BY <1>1 DEF Makes, Removes, IInv, JobsFit, JobFits, Making, Drafting
    <3> QED  BY <1>8, <3>1, <3>2, Zenon DEF Completes, Cuts, Writers
  <2> QED  BY <1>1, <2>1, <2>2, <2>3 DEF Stepped, FileEffect
<1> QED  BY <1>5, <1>6, <1>7, <1>8

(***************************************************************************)
(* The abstract specification: step by step                                *)
(***************************************************************************)

\* A record is shown as a journal.
LEMMA JournalType ==
    ASSUME IInv, NEW n \in Names, Exists(n)
    PROVE  /\ JournalOf(n) \in Abstract!Journals /\ JournalOf(n) # NoRecord
           /\ JournalOf(n).draft = Draft(n) /\ JournalOf(n).entries = Settled(n)
           /\ JournalOf(n).parent = file[n].parent
<1>1. /\ file[n].parent \in Names \cup {NoName}
      /\ file[n].entries \in Seq(Entries) /\ Len(file[n].entries) \in Nat
  BY FileFacts DEF IInv, TypeOK
<1>2. Settled(n) \in Seq(Entries)
  <2>1. CASE Writers(n) = {}
    BY <1>1, <2>1, SettledIs
  <2>2. ASSUME NEW d \in Writers(n)
        PROVE  Settled(n) \in Seq(Entries)
    <3>1. Len(file[n].entries) = job[d].orig + 1
      BY DEF Writers, IInv, TailLast, TailFits, Tailing
    <3>2. job[d].orig \in Nat
      BY DEF Writers, IInv, TypeOK, Jobs
    <3>3. SubSeq(file[n].entries, 1, job[d].orig) \in Seq(Entries)
      BY <1>1, <3>1, <3>2, PrefixFacts
    <3> QED  BY <3>3, SettledIs
  <2> QED  BY <2>1, <2>2
<1>3. Draft(n) \in BOOLEAN
  BY DEF Draft
<1>4. JournalOf(n) = [draft |-> Draft(n), parent |-> file[n].parent, entries |-> Settled(n)]
  BY DEF JournalOf
<1>5. JournalOf(n) \in Abstract!Journals
  BY <1>1, <1>2, <1>3, <1>4 DEF Abstract!Journals
<1> QED  BY <1>4, <1>5, NoJournalAssumption

\* A journal that is no draft any more.
LEMMA SettledJournal ==
    ASSUME NEW j \in Abstract!Journals
    PROVE  [j EXCEPT !.draft = FALSE]
              = [draft |-> FALSE, parent |-> j.parent, entries |-> j.entries]
<1> DEFINE s == [j EXCEPT !.draft = FALSE]
<1>1. s.draft = FALSE /\ s.parent = j.parent /\ s.entries = j.entries
  BY DEF Abstract!Journals
<1>2. s \in Abstract!Journals
  BY Zenon DEF Abstract!Journals
<1> HIDE DEF s
<1>3. s = [draft |-> s.draft, parent |-> s.parent, entries |-> s.entries]
  BY <1>2 DEF Abstract!Journals
<1>4. s = [draft |-> FALSE, parent |-> j.parent, entries |-> j.entries]
  BY <1>1, <1>3
<1> QED  BY <1>4 DEF s

\* A journal with one more entry.
LEMMA LongerJournal ==
    ASSUME NEW d, NEW p, NEW es, NEW e
    PROVE  [[draft |-> d, parent |-> p, entries |-> es] EXCEPT !.entries = Append(@, e)]
              = [draft |-> d, parent |-> p, entries |-> Append(es, e)]
  OBVIOUS

\* A step that changes one record only.
LEMMA OneJournal ==
    ASSUME NEW n \in Names, NEW v, JournalOf(n)' = v,
           \A m \in Names \ {n} : JournalOf(m)' = JournalOf(m)
    PROVE  AbstractJournal' = [AbstractJournal EXCEPT ![n] = v]
  BY Zenon DEF AbstractJournal

\* Such a step is one of the journals, if it is allowed, or changes nothing.
LEMMA AbstractStep ==
    ASSUME NEW n \in Names, NEW v, AbstractJournal' = [AbstractJournal EXCEPT ![n] = v],
           Abstract!Publish(n) \/ Abstract!Withdraw(n) \/ Abstract!Settle(n) \/ Abstract!Write(n)
    PROVE  Abstract!Next \/ AbstractJournal' = AbstractJournal
<1>1. AbstractJournal = [m \in Names |-> AbstractJournal[m]]
  BY DEF AbstractJournal
<1>2. CASE AbstractJournal'[n] = AbstractJournal[n]
  BY <1>1, <1>2
<1>3. CASE AbstractJournal'[n] # AbstractJournal[n]
  BY <1>3 DEF Abstract!Next
<1> QED  BY <1>2, <1>3

\* An up makes its record.
LEMMA MakesPublishes ==
    ASSUME NEW c \in Clients, SteppedOn(c), Makes(c), NEW n \in Names, n = job[c].name,
           \A m \in Names \ {n} : JournalOf(m)' = JournalOf(m)
    PROVE  Abstract!Next \/ AbstractJournal' = AbstractJournal
<1>0. Stepped(c) /\ IInv /\ IInv'
  BY DEF SteppedOn, Stepped
<1> DEFINE v == [draft |-> TRUE, parent |-> job[c].parent, entries |-> <<>>]
<1>1. /\ ~Exists(n) /\ file'[n] # NoRecord /\ file'[n].gen = job[c].gen
      /\ file'[n].parent = job[c].parent /\ file'[n].entries = <<>>
      /\ pc[c] = "create" /\ pc'[c] = "temp"
  <2>1. file'[n] = New(c) /\ New(c) # NoRecord
    BY NoRecordAssumption DEF Makes
  <2> QED  BY <2>1 DEF Makes, New
<1>2. IsUp(c) /\ Goes(c)
  BY <1>0, <1>1 DEF IInv, JobsFit, JobFits, Making, Stepped, Shape, BeginsNote, BeginsShow,
                    BeginsUp, Ended
<1>3. Draft(n)'
  <2>1. Drafts(c, n)'
    BY <1>1, <1>2 DEF Drafts, Goes, Drafting, IsUp
  <2> QED  BY <2>1 DEF Draft, Drafts, Drafting
<1>4. Writers(n)' = {}
  <2> SUFFICES ASSUME NEW d \in Writers(n)'
               PROVE  FALSE
    OBVIOUS
  <2>1. d \in Clients /\ pc'[d] \in Tailing /\ job'[d].gen = job[c].gen
    BY <1>1 DEF Writers, Linked, Tailing
  <2>2. d # c
    BY <1>1, <2>1 DEF Tailing
  <2>3. pc[d] \in Tailing /\ job[d].gen = job[c].gen
    BY <1>0, <2>1, <2>2 DEF Stepped
  <2>4. IsNote(d)
    BY <1>0, <2>1, <2>3 DEF IInv, JobsFit, JobFits, Opened
  <2> QED  BY <1>0, <1>1, <1>2, <2>1, <2>3, <2>4 DEF IInv, FreshFile, Unmade
<1>5. Settled(n)' = <<>>
  BY <1>0, <1>1, <1>4, SettledNext
<1>6. JournalOf(n)' = v
  <2>1. Draft(n)' = TRUE
    BY <1>3 DEF Draft
  <2> QED  BY <1>1, <1>5, <2>1, Zenon DEF JournalOf, Exists
<1>7. AbstractJournal' = [AbstractJournal EXCEPT ![n] = v]
  BY <1>6, OneJournal
<1>8. job[c].parent \in (Names \ {n}) \cup {NoName}
  BY <1>0, <1>2 DEF IInv, TypeOK, JobsFit, JobFits, Jobs
<1>9. ASSUME job[c].parent # NoName
      PROVE  AbstractJournal[job[c].parent] # NoRecord /\ ~AbstractJournal[job[c].parent].draft
  <2>1. job[c].parent \in Names /\ Firm(job[c].parent)
    BY <1>0, <1>1, <1>2, <1>8, <1>9 DEF IInv, ParentsFirm
  <2>2. AbstractJournal[job[c].parent] = JournalOf(job[c].parent)
    BY <2>1 DEF AbstractJournal
  <2> QED  BY <1>0, <2>1, <2>2, JournalType DEF Firm
<1>10. AbstractJournal[n] = NoRecord
  BY <1>1 DEF AbstractJournal, JournalOf
<1>11. Abstract!Publish(n)
  BY <1>7, <1>8, <1>9, <1>10, Zenon DEF Abstract!Publish, Abstract!Sets
<1> QED  BY <1>7, <1>11, AbstractStep, Zenon

\* The rollback of an up removes it.
LEMMA RemovesWithdraws ==
    ASSUME NEW c \in Clients, SteppedOn(c), Removes(c), NEW n \in Names, n = job[c].name,
           \A m \in Names \ {n} : JournalOf(m)' = JournalOf(m)
    PROVE  Abstract!Next \/ AbstractJournal' = AbstractJournal
<1>0. Stepped(c) /\ IInv
  BY DEF SteppedOn, Stepped
<1>1. pc[c] = "withdraw" /\ IsUp(c) /\ Linked(c)
  BY <1>0 DEF Removes, IInv, JobsFit, JobFits, DraftStays, Making, Drafting
<1>2. JournalOf(n)' = NoRecord
  BY DEF JournalOf, Exists, Removes
<1>3. AbstractJournal' = [AbstractJournal EXCEPT ![n] = NoRecord]
  BY <1>2, OneJournal
<1>4. Exists(n) /\ Draft(n)
  BY <1>1 DEF Linked, Draft, IsUp
<1>5. AbstractJournal[n] # NoRecord /\ AbstractJournal[n].draft
  BY <1>0, <1>4, JournalType DEF AbstractJournal
<1>6. Abstract!Withdraw(n)
  BY <1>3, <1>5 DEF Abstract!Withdraw, Abstract!Sets
<1> QED  BY <1>3, <1>6, AbstractStep, Zenon

\* Any other step of an up about its record: at most the record is settled.
LEMMA UpSettles ==
    ASSUME NEW c \in Clients, SteppedOn(c), IsUp(c), file' = file, NEW n \in Names,
           n = job[c].name, \A m \in Names \ {n} : JournalOf(m)' = JournalOf(m)
    PROVE  Abstract!Next \/ AbstractJournal' = AbstractJournal
<1>0. Stepped(c) /\ IInv
  BY DEF SteppedOn, Stepped
<1>1. CASE ~Exists(n)
  <2>1. JournalOf(n)' = JournalOf(n)
    BY <1>1 DEF JournalOf, Exists
  <2> QED  BY <2>1 DEF AbstractJournal
<1>2. CASE Exists(n)
  <2>1. Goes(c) \/ Ended(c)
    BY <1>0 DEF Stepped, Shape, BeginsNote, BeginsShow, BeginsUp, IInv, JobsFit, JobFits,
                IsUp,
                NoJob
  <2>2. c \notin Writers(n) /\ c \notin Writers(n)'
    <3>1. pc[c] \notin {"open"} \cup Opened
      BY <1>0 DEF IInv, JobsFit, JobFits, IsUp, IsNote, Kinds
    <3> QED  BY <2>1, <3>1 DEF Writers, Goes, Edge, Ended, Opened, Tailing
  <2>3. Settled(n)' = Settled(n)
    BY <1>2, <2>2, SettledSame
  <2>4. CASE Drafts(c, n)' = Drafts(c, n)
    <3>1. JournalOf(n)' = JournalOf(n)
      <4>1. Draft(n)' = Draft(n)
        BY <1>0, <2>4, DraftSame
      <4> QED  BY <1>2, <2>3, <4>1 DEF JournalOf, Exists
    <3> QED  BY <3>1 DEF AbstractJournal
  <2>5. CASE ~Drafts(c, n) /\ Drafts(c, n)'
    <3>1. pc[c] = "create" /\ pc'[c] = "temp"
      BY <2>1, <2>5 DEF Drafts, Goes, Edge, Ended, Drafting, IsUp
    <3>2. Makes(c)
      BY <1>0, <3>1, LinkMakes
    <3> QED  BY <1>2, <3>2 DEF Makes
  <2>6. CASE Drafts(c, n) /\ ~Drafts(c, n)'
    <3>1. Draft(n)
      BY <2>6, DraftIs, Zenon
    <3>2. ~Draft(n)'
      <4>1. \A d \in Clients \ {c} : ~Drafts(d, n)
        BY <1>0, <2>6 DEF Drafts, IInv, LocksHeld, Making
      <4>2. \A d \in Clients : ~Drafts(d, n)'
        BY <1>0, <2>6, <4>1 DEF Stepped, Drafts
      <4> QED  BY <4>2 DEF Draft, Drafts, Drafting
    <3>3. JournalOf(n)' = [JournalOf(n) EXCEPT !.draft = FALSE]
      <4>1. Draft(n)' = FALSE
        BY <3>2 DEF Draft
      <4>2. JournalOf(n)' = [draft |-> FALSE, parent |-> file[n].parent,
        entries |-> Settled(n)]
        BY <1>2, <2>3, <4>1, Zenon DEF JournalOf, Exists
      <4>3. /\ JournalOf(n) \in Abstract!Journals
            /\ JournalOf(n).parent = file[n].parent /\ JournalOf(n).entries = Settled(n)
        BY <1>0, <1>2, JournalType
      <4> QED  BY <4>2, <4>3, SettledJournal
    <3>4. AbstractJournal[n] = JournalOf(n)
      BY DEF AbstractJournal
    <3> DEFINE v == [AbstractJournal[n] EXCEPT !.draft = FALSE]
    <3>5. AbstractJournal' = [AbstractJournal EXCEPT ![n] = v]
      BY <3>3, <3>4, OneJournal
    <3>6. AbstractJournal[n] # NoRecord /\ AbstractJournal[n].draft
      BY <1>0, <1>2, <3>1, <3>4, JournalType
    <3>7. Abstract!Settle(n)
      BY <3>5, <3>6 DEF Abstract!Settle, Abstract!Sets
    <3> QED  BY <3>5, <3>7, AbstractStep, Zenon
  <2> QED  BY <2>4, <2>5, <2>6 DEF Drafts
<1> QED  BY <1>1, <1>2

\* A step of a note, a verdict or a look at the record: at most one entry is
\* added to what is settled.
LEMMA NoteWrites ==
    ASSUME NEW c \in Clients, SteppedOn(c), ~IsUp(c), NEW n \in Names,
           n = job[c].name, \A m \in Names \ {n} : JournalOf(m)' = JournalOf(m)
    PROVE  Abstract!Next \/ AbstractJournal' = AbstractJournal
<1>0. Stepped(c) /\ IInv
  BY DEF SteppedOn, Stepped
<1>1. ~Makes(c) /\ ~Removes(c)
  BY <1>0 DEF Makes, Removes, IInv, JobsFit, JobFits, Making, Drafting
<1>2. CASE ~Exists(n)
  <2>1. file'[n] = file[n]
    BY <1>0, <1>1, <1>2, Zenon DEF Stepped, FileEffect, Appends, Completes, Cuts, Spoils,
                                   Touches
  <2>2. JournalOf(n)' = JournalOf(n)
    BY <1>2, <2>1 DEF JournalOf, Exists
  <2> QED  BY <2>2, Zenon DEF AbstractJournal
<1>3. CASE Exists(n)
  <2>1. file'[n] # NoRecord /\ file'[n].gen = file[n].gen /\ file'[n].parent = file[n].parent
    BY <1>0, <1>1, <1>3, Zenon DEF Stepped, FileEffect, Appends, Completes, Cuts, Spoils,
                                   Touches,
                            Exists
  <2>2. Draft(n)' = Draft(n)
    <3>1. ~Drafts(c, n)
      BY DEF Drafts, IsUp
    <3>2. ~Drafts(c, n)'
      BY <1>0 DEF Drafts, IsUp, Drafting, Stepped, Shape, BeginsNote, BeginsShow, BeginsUp,
                  Ended, Goes
    <3>3. Drafts(c, n)' = Drafts(c, n)
      BY <3>1, <3>2 DEF Drafts
    <3> QED  BY <1>0, <3>3, DraftSame
  <2>3. JournalOf(n) = [draft |-> Draft(n), parent |-> file[n].parent,
    entries |-> Settled(n)]
    BY <1>3 DEF JournalOf
  <2>4. JournalOf(n)' = [draft |-> Draft(n), parent |-> file[n].parent,
    entries |-> Settled(n)']
    BY <2>1, <2>2 DEF JournalOf, Exists
  <2>5. CASE Settled(n)' = Settled(n)
    BY <2>3, <2>4, <2>5 DEF AbstractJournal
  <2>6. CASE /\ Readable(Settled(n))
             /\ \E e \in Entries : /\ e.kind = "verdict" => ~HasVerdict(Settled(n))
                                   /\ Settled(n)' = Append(Settled(n), e)
    <3>1. PICK e \in Entries : /\ e.kind = "verdict" => ~HasVerdict(Settled(n))
                               /\ Settled(n)' = Append(Settled(n), e)
      BY <2>6
    <3>2. AbstractJournal[n] = JournalOf(n) /\ JournalOf(n).entries = Settled(n)
          /\ JournalOf(n) # NoRecord
      BY <1>0, <1>3, JournalType DEF AbstractJournal
    <3> DEFINE v == [AbstractJournal[n] EXCEPT !.entries = Append(@, e)]
    <3>3. JournalOf(n)' = v
      BY <2>3, <2>4, <3>1, <3>2, LongerJournal
    <3>4. AbstractJournal' = [AbstractJournal EXCEPT ![n] = v]
      BY <3>3, OneJournal
    <3>5. Abstract!Readable(Settled(n)) /\ (e.kind = "verdict" => ~Abstract!HasVerdict(Settled(n)))
      BY <2>6, <3>1 DEF Abstract!Readable, Abstract!HasVerdict, Readable, HasVerdict
    <3>6. Abstract!Write(n)
      BY <3>2, <3>4, <3>5, Zenon DEF Abstract!Write, Abstract!Sets
    <3> QED  BY <3>4, <3>6, AbstractStep, Zenon
  <2> QED  BY <1>3, <2>1, <2>5, <2>6, EntriesStep, Zenon
<1> QED  BY <1>2, <1>3

\* Every step is one of the journals, or changes none of them.
LEMMA StepImplements ==
    IInv /\ IInv' /\ [Next]_vars => [Abstract!Next]_AbstractJournal
<1> SUFFICES ASSUME IInv, IInv', [Next]_vars
             PROVE  Abstract!Next \/ AbstractJournal' = AbstractJournal
  OBVIOUS
<1>1. ASSUME NEW c \in Clients, ClientStep(c)
      PROVE  Abstract!Next \/ AbstractJournal' = AbstractJournal
  <2>0. SteppedOn(c) /\ Stepped(c)
    BY <1>1, SteppedStep DEF SteppedOn
  <2>1. CASE job[c].name \notin Names
    <3>1. \A m \in Names : JournalOf(m)' = JournalOf(m)
      BY <2>0, <2>1, OtherJournals
    <3> QED  BY <3>1 DEF AbstractJournal
  <2>2. CASE job[c].name \in Names
    <3>1. \A m \in Names \ {job[c].name} : JournalOf(m)' = JournalOf(m)
      BY <2>0, OtherJournals
    <3>2. CASE ~IsUp(c)
      BY <2>0, <2>2, <3>1, <3>2, NoteWrites
    <3>3. CASE IsUp(c) /\ file' = file
      BY <2>0, <2>2, <3>1, <3>3, UpSettles
    <3>4. CASE Makes(c) \/ Removes(c)
      BY <2>0, <2>2, <3>1, <3>4, MakesPublishes, RemovesWithdraws, Zenon
    <3>5. IsUp(c) => ~(Appends(c) \/ Completes(c) \/ Cuts(c) \/ Spoils(c))
      BY <2>0, Zenon DEF Stepped, IInv, JobsFit, JobFits, IsUp, IsNote, Kinds, Opened,
                         Tailing,
                  Appends, Completes, Cuts, Spoils
    <3> QED  BY <2>0, <3>2, <3>3, <3>4, <3>5 DEF Stepped, FileEffect
  <2> QED  BY <2>1, <2>2
<1>2. ASSUME NEW n \in Names, Down(n)
      PROVE  AbstractJournal' = AbstractJournal
  BY <1>2 DEF Down, AbstractJournal, JournalOf, Settled, Before, Writers, Draft, Exists,
              Linked
<1>3. CASE UNCHANGED vars
  BY <1>3 DEF vars, AbstractJournal, JournalOf, Settled, Before, Writers, Draft, Exists,
              Linked
<1> QED  BY <1>1, <1>2, <1>3 DEF Next, ClientStep

\* At first there are no journals.
LEMMA InitImplements == Init => Abstract!Init
  BY DEF Init, Abstract!Init, AbstractJournal, JournalOf, Exists

\* Every behaviour of the commands is one of the journals.
THEOREM Implements == Spec => ImplementsJournal
<1>1. Init => Abstract!Init
  BY InitImplements
<1>2. IInv /\ IInv' /\ [Next]_vars => [Abstract!Next]_AbstractJournal
  BY StepImplements
<1> QED  BY <1>1, <1>2, InvariantHolds, PTL DEF Spec, ImplementsJournal, Abstract!Spec

=============================================================================
