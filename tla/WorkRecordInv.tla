------------------------------ MODULE WorkRecordInv ------------------------------
(***************************************************************************)
(* The inductive invariant behind what work records promise: who holds     *)
(* which lock in which phase, and what is true of a record meanwhile.      *)
(***************************************************************************)
EXTENDS WorkRecordProps

IsNote(c) == job[c].op \in Kinds
IsUp(c) == job[c].op = "up"

\* Phases: with an entry in the record that is not settled; with the record
\* open; of the look at the parent; and of an up with the registry locked.
Tailing == {"finish", "truncate", "untail"}
Opened == {"write"} \cup Tailing
Resolving == {"lock", "load", "unlock", "leave"}
Drafting == {"temp", "verify", "withdraw"}
Making == {"create", "unregister"} \cup Drafting

\* An up that has not made its record yet.
Unmade(c) == IsUp(c) /\ pc[c] \in {"parent", "up", "create"} \cup Resolving

\* What a command is about fits the phase it is in.
JobFits(c) ==
    /\ IF pc[c] = "idle" THEN job[c] = NoJob ELSE job[c].name \in Names
    /\ pc[c] \in {"lock", "load", "unlock"} => job[c].op # "none"
    /\ pc[c] \in {"open"} \cup Opened => IsNote(c)
    /\ pc[c] \in {"parent", "leave", "up"} \cup Making => IsUp(c)
    /\ IsUp(c) => job[c].gen \in 1 .. ups /\ job[c].parent # job[c].name
    /\ IsUp(c) /\ pc[c] \in {"parent"} \cup Resolving => job[c].parent \in Names
    /\ IsNote(c) => job[c].no \in 1 .. notes /\ job[c].gen \in 0 .. ups
    /\ pc[c] \in Opened => job[c].gen # 0

JobsFit == \A c \in Clients : JobFits(c)

\* No two ups make the same file, no two notes are the same.
JobsDiffer ==
    \A c, d \in Clients :
       c # d => /\ IsUp(c) /\ IsUp(d) => job[c].gen # job[d].gen
                /\ IsNote(c) /\ IsNote(d) => job[c].no # job[d].no

\* Who holds the registry lock, and the lock file of a record.
LocksHeld ==
    \A c \in Clients :
       /\ pc[c] \in Making \/ (IsUp(c) /\ pc[c] \in Resolving) => reg = c
       /\ IsNote(c) /\ pc[c] \in Appending => flock[job[c].name].excl = c
       /\ job[c].op = "show" /\ pc[c] = "load" => c \in flock[job[c].name].shared

\* A file that is to be made, and a note that is to be written, are new.
FilesKnown ==
    \A n \in Names :
       Exists(n) => /\ file[n].gen \in 1 .. ups
                    /\ \A i \in DOMAIN file[n].entries : file[n].entries[i].no <= notes

FreshFile ==
    \A d \in Clients :
       Unmade(d) => /\ \A n \in Names : Exists(n) => file[n].gen # job[d].gen
                    /\ \A c \in Clients : IsNote(c) => job[c].gen # job[d].gen

FreshNote ==
    \A c \in Clients, n \in Names :
       IsNote(c) /\ pc[c] \in {"lock", "load", "open", "write"} /\ Exists(n) =>
          \A i \in DOMAIN file[n].entries : file[n].entries[i].no # job[c].no

\* The record a note was opened in is still the one, or it was withdrawn and
\* the one in its place is empty: its lock file is held.
OpenFits(c) ==
    LET n == job[c].name IN
    /\ pc[c] = "open" /\ Exists(n) => MayAdd(job[c].op, file[n].entries)
    /\ pc[c] \in Opened => Linked(c) \/ job[c].gen \in withdrawn
    /\ pc[c] \in Opened /\ Exists(n) /\ ~Linked(c) => file[n].entries = <<>>
    /\ pc[c] = "write" /\ Linked(c) =>
          job[c].orig = Len(file[n].entries) /\ MayAdd(job[c].op, file[n].entries)

OpenStays == \A c \in Clients : OpenFits(c)

\* An unsettled entry is the last one, and the only one of the note; without
\* it the record is as it was found.
TailFits(c) ==
    LET es == file[job[c].name].entries IN
    pc[c] \in Tailing /\ Linked(c) =>
       /\ Len(es) = job[c].orig + 1
       /\ es[job[c].orig + 1].no = job[c].no /\ es[job[c].orig + 1].kind = job[c].op
       /\ \A i \in 1 .. job[c].orig :
             /\ es[i].no # job[c].no /\ es[i].form # "broken"
             /\ job[c].op = "verdict" => es[i].kind # "verdict"

TailLast == \A c \in Clients : TailFits(c)

\* What was reported or shown is among the settled entries.
Settles(x) ==
    \/ x[2] \in withdrawn
    \/ /\ Exists(x[1]) /\ file[x[1]].gen = x[2]
       /\ \E i \in DOMAIN file[x[1]].entries :
             /\ file[x[1]].entries[i] = x[3]
             /\ \A c \in Writers(x[1]) : i <= job[c].orig

GhostsSettle == \A x \in reported \cup shown : Settles(x)

\* An up between the link of its record and the end of its rollback finds its
\* own; and a record that another is or will be stacked on is no draft.
DraftStays == \A c \in Clients : pc[c] \in Drafting => Linked(c)

Firm(p) == Exists(p) /\ ~Draft(p)

ParentsFirm ==
    /\ \A n \in Names :
          Exists(n) /\ file[n].parent # NoName => file[n].parent # n /\ Firm(file[n].parent)
    /\ \A c \in Clients :
          IsUp(c) /\ job[c].parent # NoName /\ pc[c] \in {"up", "create"} \cup Resolving =>
             Firm(job[c].parent)

\* The inductive invariant: TypeOK, ReportedStays, ShownStays and LineageKept
\* follow from it, and every step of record.go and of up's record phase as
\* modelled keeps it.
IInv ==
    /\ TypeOK /\ JobsFit /\ JobsDiffer /\ LocksHeld
    /\ FilesKnown /\ FreshFile /\ FreshNote
    /\ OpenStays /\ TailLast /\ GhostsSettle
    /\ DraftStays /\ ParentsFirm

=============================================================================
