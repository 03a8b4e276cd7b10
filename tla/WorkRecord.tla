------------------------------- MODULE WorkRecord -------------------------------
(***************************************************************************)
(* Work records: pkg/record, and the commands that use it.                 *)
(*                                                                         *)
(* The record of an instance is one file.  plax up creates it, by linking  *)
(* a finished temporary file into place; plax log and plax verdict append  *)
(* an entry; plax record shows it.  Those three never take the registry    *)
(* lock: they exclude each other by a lock file of the record's own, which *)
(* up does not take when it creates or withdraws a record.                 *)
(*                                                                         *)
(* The text is reduced to its entries.  An entry is whole, or cut, so that *)
(* the record still parses with it, or broken, so that it does not.  A     *)
(* part of an entry that is not even a section heading is no entry.        *)
(***************************************************************************)
EXTENDS Naturals, Sequences, SequencesExt, FiniteSets

CONSTANTS
    Clients, NoClient,  \* plax processes, and none
    Names, NoName,      \* instances, and none
    NoRecord,           \* there is no file
    MaxUps,             \* bound: ups in a behaviour
    MaxNotes,           \* bound: notes and verdicts in a behaviour
    MaxFaults           \* bound: failing steps and kills in a behaviour; a step
                        \* that undoes a failed one fails without counting

ASSUME WorkRecordAssumption ==
    /\ NoClient \notin Clients /\ NoName \notin Names
    /\ MaxUps \in Nat /\ MaxNotes \in Nat /\ MaxFaults \in Nat

VARIABLES
    reg,         \* holder of the registry lock
    registered,  \* registered instances
    file,        \* file[n]: the record of n, or NoRecord
    flock,       \* flock[n]: who holds the lock file of n, and how
    pc, job,     \* pc[c], job[c]: what command c does next, and what it is about
    ups, notes,  \* number of the latest up, of the latest note or verdict
    reported,    \* ghost: entries whose command reported success, with their file
    shown,       \* ghost: entries plax record printed, with their file
    withdrawn,   \* ghost: files removed by a rollback
    faults       \* what is left of the bound

world == <<reg, registered, file, flock>>
ghosts == <<reported, shown, withdrawn>>
vars == <<reg, registered, file, flock, pc, job, ups, notes,
          reported, shown, withdrawn, faults>>

Kinds == {"log", "verdict"}
Entries == [no : 0 .. MaxNotes, kind : Kinds, form : {"whole", "cut", "broken"}]
\* gen tells the files that had the same name one after the other apart.
Records == [gen : 1 .. MaxUps, parent : Names \cup {NoName}, entries : Seq(Entries)]

ASSUME NoRecordAssumption == NoRecord \notin Records

Appending == {"load", "open", "write", "finish", "truncate", "untail"}
Phases == {"idle", "lock", "unlock", "parent", "leave", "up", "create", "temp",
           "verify", "withdraw", "unregister"} \cup Appending

NoJob == [op |-> "none", name |-> NoName, parent |-> NoName, no |-> 0,
          gen |-> 0, orig |-> 0, ok |-> FALSE]

Goto(c, phase) == pc' = [pc EXCEPT ![c] = phase]
Ends(c) == Goto(c, "idle") /\ job' = [job EXCEPT ![c] = NoJob]
Works == UNCHANGED faults
Fails == faults > 0 /\ faults' = faults - 1

Exists(n) == file[n] # NoRecord

\* parseRecord, on a record that exists.
Readable(entries) == \A i \in DOMAIN entries : entries[i].form # "broken"
HasVerdict(entries) == \E i \in DOMAIN entries : entries[i].kind = "verdict"

\* The record a command is about: its own, or that of the parent to be.
Subject(c) == IF job[c].op = "up" THEN job[c].parent ELSE job[c].name

(***************************************************************************)
(* Commands start                                                          *)
(***************************************************************************)

\* A command about a record that is not there ends at once.
StartNote(c) ==
    /\ pc[c] = "idle" /\ notes < MaxNotes
    /\ notes' = notes + 1
    /\ \E op \in Kinds, n \in Names :
          /\ Exists(n)
          /\ job' = [job EXCEPT ![c] = [NoJob EXCEPT !.op = op, !.name = n, !.no = notes']]
    /\ Goto(c, "lock")
    /\ UNCHANGED <<world, ghosts, ups, faults>>

StartShow(c) ==
    /\ pc[c] = "idle"
    /\ \E n \in Names :
          Exists(n) /\ job' = [job EXCEPT ![c] = [NoJob EXCEPT !.op = "show", !.name = n]]
    /\ Goto(c, "lock")
    /\ UNCHANGED <<world, ghosts, ups, notes, faults>>

\* A tracked up, of an instance of its own or of one stacked on a parent.
StartUp(c) ==
    /\ pc[c] = "idle" /\ ups < MaxUps
    /\ ups' = ups + 1
    /\ \E n \in Names, p \in Names \cup {NoName} :
          /\ p # n
          /\ job' = [job EXCEPT ![c] = [NoJob EXCEPT !.op = "up", !.name = n, !.parent = p,
                                                     !.gen = ups']]
          /\ Goto(c, IF p = NoName THEN "up" ELSE "parent")
    /\ UNCHANGED <<world, ghosts, notes, faults>>

(***************************************************************************)
(* The lock file of a record                                               *)
(***************************************************************************)

\* Mutant: writers take the lock as readers do.
AllShare(c) == TRUE

Shares(c) == job[c].op \in {"show", "up"}

TakesLock(c, n) ==
    flock' = IF Shares(c) THEN [flock EXCEPT ![n].shared = @ \cup {c}]
                          ELSE [flock EXCEPT ![n].excl = c]

\* Mutant: a writer waits for writers only.
LockOutWriters(c) == flock[Subject(c)].excl = NoClient

\* Mutant: a reader does not wait.
LockOutReaders(c) ==
    Shares(c) \/ flock[Subject(c)] = [excl |-> NoClient, shared |-> {}]

LockFree(c) ==
    LET held == flock[Subject(c)] IN
    held.excl = NoClient /\ (Shares(c) \/ held.shared = {})

Lock(c) ==
    /\ pc[c] = "lock"
    /\ LockFree(c)
    /\ TakesLock(c, Subject(c))
    /\ Goto(c, "load")
    /\ UNCHANGED <<reg, registered, file, job, ups, notes, ghosts, faults>>

LetGo(locks, c) ==
    [n \in Names |-> [excl |-> IF locks[n].excl = c THEN NoClient ELSE locks[n].excl,
                      shared |-> locks[n].shared \ {c}]]

\* After its look at the parent's record up goes on, with the registry locked.
Unlock(c) ==
    /\ pc[c] = "unlock"
    /\ flock' = LetGo(flock, c)
    /\ IF job[c].op = "up" THEN Goto(c, "leave") /\ UNCHANGED job ELSE Ends(c)
    /\ UNCHANGED <<reg, registered, file, ups, notes, ghosts, faults>>

(***************************************************************************)
(* Read, and the first half of Append and WriteVerdict                     *)
(***************************************************************************)

\* Mutant: a second verdict is not refused.
MayConclude(op, entries) == Readable(entries)

\* A verdict may be refused for a contract it does not answer: see Load.
MayAdd(op, entries) == Readable(entries) /\ (op = "verdict" => ~HasVerdict(entries))

\* The file may be gone, or another, since the command looked for it.
Load(c) ==
    /\ pc[c] = "load"
    /\ LET n == Subject(c)
           readable == Exists(n) /\ Readable(file[n].entries) IN
       /\ \/ /\ job[c].op \in Kinds
             /\ Exists(n) /\ MayAdd(job[c].op, file[n].entries)
             /\ Goto(c, "open") /\ UNCHANGED <<job, shown>>
          \/ /\ job[c].op \in Kinds
             /\ Exists(n) => ~MayAdd(job[c].op, file[n].entries) \/ job[c].op = "verdict"
             /\ Goto(c, "unlock") /\ UNCHANGED <<job, shown>>
          \/ /\ job[c].op = "show"
             /\ shown' = IF readable
                         THEN shown \cup {<<n, file[n].gen, e>> : e \in ToSet(file[n].entries)}
                         ELSE shown
             /\ Goto(c, "unlock") /\ UNCHANGED job
          \/ /\ job[c].op = "up"
             /\ job' = [job EXCEPT ![c].ok = readable]
             /\ Goto(c, "unlock") /\ UNCHANGED shown
    /\ UNCHANGED <<world, ups, notes, reported, withdrawn, faults>>

(***************************************************************************)
(* appendBytes                                                             *)
(***************************************************************************)

\* The open file is still the one that has the name.
Linked(c) == Exists(job[c].name) /\ file[job[c].name].gen = job[c].gen

\* The entries of the record become es.
SetEntries(c, es) == file' = [file EXCEPT ![job[c].name].entries = es]
Entry(c, form) == [no |-> job[c].no, kind |-> job[c].op, form |-> form]
Before(c) == SubSeq(file[job[c].name].entries, 1, job[c].orig)

Completed(c) ==
    LET es == file[job[c].name].entries IN
    [i \in DOMAIN es |-> IF es[i].no = job[c].no THEN Entry(c, "whole") ELSE es[i]]

OpenFile(c) ==
    /\ pc[c] = "open"
    /\ IF Exists(job[c].name)
       THEN /\ job' = [job EXCEPT ![c].gen = file[job[c].name].gen,
                                  ![c].orig = Len(file[job[c].name].entries)]
            /\ Goto(c, "write")
       ELSE Goto(c, "unlock") /\ UNCHANGED job
    /\ UNCHANGED <<world, ups, notes, ghosts, faults>>

\* The first bytes arrive; from here on a part of the entry is in the file.
Write(c) ==
    /\ pc[c] = "write"
    /\ IF Linked(c)
       THEN \E form \in {"cut", "broken"} :
               SetEntries(c, Append(file[job[c].name].entries, Entry(c, form)))
       ELSE UNCHANGED file
    /\ Goto(c, "finish")
    /\ UNCHANGED <<reg, registered, flock, job, ups, notes, ghosts, faults>>

\* The write is complete, and then the file is closed; or it stays short.
Finish(c) ==
    /\ pc[c] = "finish"
    /\ LET whole == IF Linked(c) THEN SetEntries(c, Completed(c)) ELSE UNCHANGED file IN
       \/ /\ whole /\ Works /\ Goto(c, "unlock")
          /\ reported' = reported \cup {<<job[c].name, job[c].gen, Entry(c, "whole")>>}
       \/ whole /\ Fails /\ Goto(c, "untail") /\ UNCHANGED reported
       \/ UNCHANGED <<file, reported>> /\ Fails /\ Goto(c, "truncate")
    /\ UNCHANGED <<reg, registered, flock, job, ups, notes, shown, withdrawn>>

\* Back to the former size; whether that works is not looked at.
Truncate(c) ==
    /\ pc[c] = "truncate"
    /\ \/ Linked(c) /\ SetEntries(c, Before(c))
       \/ UNCHANGED file
    /\ Goto(c, "unlock")
    /\ UNCHANGED <<reg, registered, flock, job, ups, notes, ghosts, faults>>

\* After a failed close the file is found by its name.  If that is another
\* one by now, its size becomes that of the old one, in the middle of its
\* header at worst.
Untail(c) ==
    /\ pc[c] = "untail"
    /\ LET n == job[c].name
           junk == [no |-> 0, kind |-> "log", form |-> "broken"] IN
       \/ Linked(c) /\ SetEntries(c, Before(c))
       \/ ~Linked(c) /\ Exists(n) /\ SetEntries(c, Append(file[n].entries, junk))
       \/ UNCHANGED file
    /\ Goto(c, "unlock")
    /\ UNCHANGED <<reg, registered, flock, job, ups, notes, ghosts, faults>>

(***************************************************************************)
(* up and down, as far as records are concerned                            *)
(***************************************************************************)

\* Mutant: the parent is looked up without the registry lock.
ParentUnlocked(c) ==
    /\ pc[c] = "parent"
    /\ IF job[c].parent \in registered /\ Exists(job[c].parent)
       THEN Goto(c, "lock") /\ UNCHANGED job
       ELSE Ends(c)
    /\ UNCHANGED <<world, ups, notes, ghosts, faults>>

\* resolveParent: under the registry lock the parent must be registered and
\* have a record; whether that can be read is found out in Load.
Parent(c) ==
    /\ pc[c] = "parent" /\ reg = NoClient
    /\ IF job[c].parent \in registered /\ Exists(job[c].parent)
       THEN reg' = c /\ Goto(c, "lock") /\ UNCHANGED job
       ELSE Ends(c) /\ UNCHANGED reg
    /\ UNCHANGED <<registered, file, flock, ups, notes, ghosts, faults>>

\* resolveParent returns; its other checks, of the worktree, may refuse too.
Leave(c) ==
    /\ pc[c] = "leave"
    /\ reg' = IF reg = c THEN NoClient ELSE reg
    /\ \/ job[c].ok /\ Goto(c, "up") /\ UNCHANGED job
       \/ Ends(c)
    /\ UNCHANGED <<registered, file, flock, ups, notes, ghosts, faults>>

\* buildDeps and the phases of Up before the record, which end with the save.
Register(c) ==
    /\ pc[c] = "up" /\ reg = NoClient
    /\ IF job[c].name \in registered
       THEN Ends(c) /\ UNCHANGED <<reg, registered>>
       ELSE /\ reg' = c /\ registered' = registered \cup {job[c].name}
            /\ Goto(c, "create") /\ UNCHANGED job
    /\ UNCHANGED <<file, flock, ups, notes, ghosts, faults>>

New(c) == [gen |-> job[c].gen, parent |-> job[c].parent, entries |-> <<>>]

\* Create up to the link, which fails if there is a record.
Create(c) ==
    /\ pc[c] = "create"
    /\ \/ /\ ~Exists(job[c].name) /\ Works /\ Goto(c, "temp")
          /\ file' = [file EXCEPT ![job[c].name] = New(c)]
       \/ /\ IF Exists(job[c].name) THEN Works ELSE Fails
          /\ Goto(c, "unregister") /\ UNCHANGED file
    /\ UNCHANGED <<reg, registered, flock, job, ups, notes, ghosts>>

\* The last step of Create.  If it fails up rolls back, without a cleanup for
\* the record that is in place already.
RemoveTemp(c) ==
    /\ pc[c] = "temp"
    /\ \/ Works /\ Goto(c, "verify")
       \/ Fails /\ Goto(c, "unregister")
    /\ UNCHANGED <<world, job, ups, notes, ghosts>>

Verify(c) ==
    /\ pc[c] = "verify"
    /\ \/ Works /\ Ends(c) /\ reg' = NoClient
       \/ Fails /\ Goto(c, "withdraw") /\ UNCHANGED <<job, reg>>
    /\ UNCHANGED <<registered, file, flock, ups, notes, ghosts>>

\* The rollback removes the record, whoever is writing to it.
Withdraw(c) ==
    /\ pc[c] = "withdraw"
    /\ LET n == job[c].name IN
       \/ /\ file' = [file EXCEPT ![n] = NoRecord]
          /\ withdrawn' = IF Exists(n) THEN withdrawn \cup {file[n].gen} ELSE withdrawn
       \/ UNCHANGED <<file, withdrawn>>
    /\ Goto(c, "unregister")
    /\ UNCHANGED <<reg, registered, flock, job, ups, notes, reported, shown, faults>>

Unregister(c) ==
    /\ pc[c] = "unregister"
    /\ registered' \in {registered, registered \ {job[c].name}}
    /\ reg' = NoClient
    /\ Ends(c)
    /\ UNCHANGED <<file, flock, ups, notes, ghosts, faults>>

\* A down, which leaves the record alone.
Down(n) ==
    /\ reg = NoClient /\ n \in registered
    /\ registered' = registered \ {n}
    /\ UNCHANGED <<reg, file, flock, pc, job, ups, notes, ghosts, faults>>

(***************************************************************************)
(* A command is killed: the kernel drops its locks                         *)
(***************************************************************************)

Crash(c) ==
    /\ pc[c] # "idle"
    /\ Fails
    /\ reg' = IF reg = c THEN NoClient ELSE reg
    /\ flock' = LetGo(flock, c)
    /\ Ends(c)
    /\ UNCHANGED <<registered, file, ups, notes, ghosts>>

(***************************************************************************)
(* Specification                                                           *)
(***************************************************************************)

Init ==
    /\ reg = NoClient /\ registered = {}
    /\ file = [n \in Names |-> NoRecord]
    /\ flock = [n \in Names |-> [excl |-> NoClient, shared |-> {}]]
    /\ pc = [c \in Clients |-> "idle"] /\ job = [c \in Clients |-> NoJob]
    /\ ups = 0 /\ notes = 0
    /\ reported = {} /\ shown = {} /\ withdrawn = {}
    /\ faults = MaxFaults

\* The steps taken with the lock file of a record locked.
RecordStep(c) ==
    \/ Load(c) \/ OpenFile(c) \/ Write(c) \/ Finish(c) \/ Truncate(c) \/ Untail(c) \/ Unlock(c)

UpStep(c) ==
    \/ Parent(c) \/ Leave(c) \/ Register(c) \/ Create(c) \/ RemoveTemp(c)
    \/ Verify(c) \/ Withdraw(c) \/ Unregister(c)

Next ==
    \/ \E c \in Clients :
          \/ StartNote(c) \/ StartShow(c) \/ StartUp(c) \/ Lock(c) \/ RecordStep(c) \/ UpStep(c)
          \/ Crash(c)
    \/ \E n \in Names : Down(n)

Spec == Init /\ [][Next]_vars

=============================================================================
