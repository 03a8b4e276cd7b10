--------------------------------- MODULE Journal ---------------------------------
(***************************************************************************)
(* What plax promises of work records, without files, locks and failing    *)
(* writes: a journal appears empty, as a draft of the up that makes it;    *)
(* only as a draft can it be withdrawn; and all the time it does nothing   *)
(* but grow, at its end, up to one verdict, as long as it can be read.     *)
(***************************************************************************)
EXTENDS Sequences, SequencesExt

CONSTANTS
    Names,      \* instances
    NoName,     \* no parent
    NoRecord,   \* no journal
    Entries     \* what may be written: records with a kind and a form

VARIABLE journal    \* journal[n]: NoRecord, or the journal of n

Journals == [draft : BOOLEAN, parent : Names \cup {NoName}, entries : Seq(Entries)]

Readable(entries) == \A i \in DOMAIN entries : entries[i].form # "broken"
HasVerdict(entries) == \E i \in DOMAIN entries : entries[i].kind = "verdict"

Sets(n, value) == journal' = [journal EXCEPT ![n] = value]

\* The parent of a stacked instance has a journal, and for good.
Publish(n) ==
    /\ journal[n] = NoRecord
    /\ \E p \in (Names \ {n}) \cup {NoName} :
          /\ p # NoName => journal[p] # NoRecord /\ ~journal[p].draft
          /\ Sets(n, [draft |-> TRUE, parent |-> p, entries |-> <<>>])

Withdraw(n) == journal[n] # NoRecord /\ journal[n].draft /\ Sets(n, NoRecord)

Settle(n) ==
    /\ journal[n] # NoRecord /\ journal[n].draft
    /\ Sets(n, [journal[n] EXCEPT !.draft = FALSE])

Write(n) ==
    /\ journal[n] # NoRecord /\ Readable(journal[n].entries)
    /\ \E e \in Entries :
          /\ e.kind = "verdict" => ~HasVerdict(journal[n].entries)
          /\ Sets(n, [journal[n] EXCEPT !.entries = Append(@, e)])

Init == journal = [n \in Names |-> NoRecord]

\* One journal at a time.
Next ==
    \E n \in {m \in Names : journal'[m] # journal[m]} :
       Publish(n) \/ Withdraw(n) \/ Settle(n) \/ Write(n)

Spec == Init /\ [][Next]_journal

=============================================================================
