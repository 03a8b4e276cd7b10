----------------------------- MODULE WorkRecordProps -----------------------------
(***************************************************************************)
(* What work records promise.                                              *)
(***************************************************************************)
EXTENDS WorkRecord

Locks == [excl : Clients \cup {NoClient}, shared : SUBSET Clients]
Jobs == [op : Kinds \cup {"show", "up", "none"}, name : Names \cup {NoName},
         parent : Names \cup {NoName}, no : 0 .. MaxNotes, gen : 0 .. MaxUps,
         orig : Nat, ok : BOOLEAN]

\* Types; an exclusive holder of a lock file is its only holder.
TypeOK ==
    /\ reg \in Clients \cup {NoClient}
    /\ registered \subseteq Names
    /\ file \in [Names -> Records \cup {NoRecord}]
    /\ flock \in [Names -> Locks]
    /\ \A n \in Names : flock[n].excl # NoClient => flock[n].shared = {}
    /\ pc \in [Clients -> Phases]
    /\ job \in [Clients -> Jobs]
    /\ ups \in 0 .. MaxUps /\ notes \in 0 .. MaxNotes
    /\ reported \subseteq Names \X (1 .. MaxUps) \X Entries
    /\ shown \subseteq Names \X (1 .. MaxUps) \X Entries
    /\ withdrawn \subseteq 1 .. MaxUps
    /\ faults \in 0 .. MaxFaults

\* The entry x is in the record it was written to, or that was withdrawn.
Stays(x) ==
    \/ x[2] \in withdrawn
    \/ Exists(x[1]) /\ file[x[1]].gen = x[2] /\ x[3] \in ToSet(file[x[1]].entries)

\* A note or verdict whose command reported success is in the record, whole,
\* and stays there whatever other writers do or fail to do: the truncation
\* after a short write never takes another's entry away.  Only the rollback
\* of the up that made the record can (record.go appendBytes, up.go:577-586).
ReportedStays == \A x \in reported : Stays(x)

\* "so it never observes a concurrent partial append" (record.go:268): what
\* plax record has printed is never taken back or changed afterwards, not
\* even if it is the rest of an append that failed.
ShownStays == \A x \in shown : Stays(x)

\* "A parent must be registered, tracked, and clean" (docs/manual.md:822): a
\* stacked instance was looked up under the registry lock, so no up of the
\* parent could still fail, and though the lock was let go before its own up
\* began, the record it names as its parent is there.
LineageKept ==
    \A n \in Names : Exists(n) /\ file[n].parent # NoName => Exists(file[n].parent)

(***************************************************************************)
(* The abstract view                                                       *)
(***************************************************************************)

\* The commands with an entry of theirs in the record that is not settled yet.
Writers(n) ==
    {c \in Clients : /\ pc[c] \in {"finish", "truncate", "untail"}
                     /\ job[c].name = n /\ Linked(c)}

Settled(n) ==
    IF Writers(n) = {} THEN file[n].entries
    ELSE Before(CHOOSE c \in Writers(n) : TRUE)

\* The up that made the record may still take it back.
Draft(n) ==
    \E c \in Clients : /\ job[c].op = "up" /\ job[c].name = n
                       /\ pc[c] \in {"temp", "verify", "withdraw"}

JournalOf(n) ==
    IF ~Exists(n) THEN NoRecord
    ELSE [draft |-> Draft(n), parent |-> file[n].parent, entries |-> Settled(n)]

AbstractJournal == [n \in Names |-> JournalOf(n)]

Abstract == INSTANCE Journal WITH journal <- AbstractJournal

ASSUME NoJournalAssumption == NoRecord \notin Abstract!Journals

\* Work records are "durable, append-only" (record.go:1): each appears once
\* and empty, with a parent whose record is there to stay; from then on
\* entries are only added at the end, one verdict at most, and none after a
\* torn one; and no record is taken away or replaced but by the rollback of
\* the very up that made it.
ImplementsJournal == Abstract!Spec

=============
