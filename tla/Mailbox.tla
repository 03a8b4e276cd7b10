-------------------------------- MODULE Mailbox --------------------------------
(***************************************************************************)
(* Sessions and messages: plax exec and attach, plax send and recv, and    *)
(* the mailbox directory of one instance, pkg/mailbox.                     *)
(*                                                                         *)
(* Each of these commands opens the registry first and closes it last, so  *)
(* it holds the exclusive registry lock all along: send and recv for a     *)
(* moment, exec and attach until the child they started exits.  The child  *)
(* is a shell or an agent, and may run plax commands of its own.           *)
(*                                                                         *)
(* A message is a file whose name starts with the time of the send; here   *)
(* it is the number of the send.  A temporary file has the same suffix and *)
(* a name that sorts before those of all messages.                         *)
(***************************************************************************)
EXTENDS Naturals, FiniteSets, Sequences, SequencesExt

CONSTANTS
    Clients,    \* plax processes
    NoClient,   \* nobody: owner of a free lock, parent of a command from outside
    Nested,     \* whether children of sessions run plax commands
    MaxSends,   \* bound: sends in a behaviour
    MaxFaults,  \* bound: failing file operations in a behaviour
    MaxCrashes  \* bound: commands killed in a behaviour

ASSUME MailboxAssumption ==
    /\ NoClient \notin Clients
    /\ Nested \in BOOLEAN
    /\ MaxSends \in Nat /\ MaxFaults \in Nat /\ MaxCrashes \in Nat

VARIABLES
    lock,       \* holder of the registry lock
    pc,         \* pc[c]: what process c does next
    job,        \* job[c]: its command, its parent, and the messages it is at
    files,      \* the files of the mailbox directory that end in .json
    sends,      \* ghost: number of the latest send
    sent,       \* ghost: sends that reported success
    delivered,  \* ghost: messages printed by recv, in order
    faults, crashes     \* what is left of the bounds

vars == <<lock, pc, job, files, sends, sent, delivered, faults, crashes>>

Commands == {"session", "send", "recv", "recvall"}
Phases == {"idle", "open", "child", "send", "rename", "recv", "remove", "print", "close"}

FirstPhase == [session |-> "child", send |-> "send", recv |-> "recv", recvall |-> "recv"]

File == [no : 1 .. MaxSends, tmp : BOOLEAN, whole : BOOLEAN]

NoJob == [op |-> "none", parent |-> NoClient, no |-> 0, found |-> {}]

Goto(c, phase) == pc' = [pc EXCEPT ![c] = phase]
Works == UNCHANGED faults
Fails == faults > 0 /\ faults' = faults - 1

\* The plax commands running inside the session of c.
Children(c) == {k \in Clients : pc[k] # "idle" /\ job[k].parent = c}

(***************************************************************************)
(* Start, lock, end                                                        *)
(***************************************************************************)

Start(c) ==
    /\ pc[c] = "idle"
    /\ \E op \in Commands, p \in Clients \cup {NoClient} :
          /\ p # NoClient => Nested /\ pc[p] = "child"
          /\ job' = [job EXCEPT ![c] = [op |-> op, parent |-> p, no |-> 0, found |-> {}]]
    /\ Goto(c, "open")
    /\ UNCHANGED <<lock, files, sends, sent, delivered, faults, crashes>>

\* Mutant: the commands do not exclude each other.
NoLocking == TRUE

LockFree == lock = NoClient

\* registry.Open.
Open(c) ==
    /\ pc[c] = "open"
    /\ LockFree
    /\ lock' = c
    /\ Goto(c, FirstPhase[job[c].op])
    /\ UNCHANGED <<job, files, sends, sent, delivered, faults, crashes>>

\* Mutant: an exit that skips the deferred call.
CloseSkipped(c) ==
    /\ pc[c] = "close"
    /\ Goto(c, "idle")
    /\ job' = [job EXCEPT ![c] = NoJob]
    /\ UNCHANGED <<lock, files, sends, sent, delivered, faults, crashes>>

\* The deferred Registry.Close.
Close(c) ==
    /\ pc[c] = "close"
    /\ lock' = NoClient
    /\ Goto(c, "idle")
    /\ job' = [job EXCEPT ![c] = NoJob]
    /\ UNCHANGED <<files, sends, sent, delivered, faults, crashes>>

\* The child of an exec or attach is waited for; it ends once the commands it
\* runs have.
ChildExits(c) ==
    /\ pc[c] = "child"
    /\ Children(c) = {}
    /\ Goto(c, "close")
    /\ UNCHANGED <<lock, job, files, sends, sent, delivered, faults, crashes>>

(***************************************************************************)
(* Send: a temporary file, renamed when it is complete                     *)
(***************************************************************************)

Temp(no, whole) == [no |-> no, tmp |-> TRUE, whole |-> whole]
Message(no)     == [no |-> no, tmp |-> FALSE, whole |-> TRUE]

\* A write that fails may leave part of the file behind.
SendWrite(c) ==
    /\ pc[c] = "send"
    /\ sends < MaxSends /\ sends' = sends + 1
    /\ job' = [job EXCEPT ![c].no = sends']
    /\ \/ files' = files \cup {Temp(sends', TRUE)} /\ Works /\ Goto(c, "rename")
       \/ /\ Fails /\ Goto(c, "close")
          /\ files' \in {files, files \cup {Temp(sends', FALSE)}}
    /\ UNCHANGED <<lock, sent, delivered, crashes>>

\* A send beyond the bound ends at once; it stands for no send at all.
NoMoreSends(c) ==
    /\ pc[c] = "send" /\ sends = MaxSends
    /\ Goto(c, "close")
    /\ UNCHANGED <<lock, job, files, sends, sent, delivered, faults, crashes>>

\* The clean-up after a rename that failed may fail as well, unnoticed.
SendRename(c) ==
    /\ pc[c] = "rename"
    /\ LET temp == Temp(job[c].no, TRUE) IN
       \/ /\ files' = (files \ {temp}) \cup {Message(job[c].no)}
          /\ sent' = sent \cup {job[c].no} /\ Works
       \/ /\ Fails /\ files' \in {files, files \ {temp}}
          /\ UNCHANGED sent
    /\ Goto(c, "close")
    /\ UNCHANGED <<lock, job, sends, delivered, crashes>>

(***************************************************************************)
(* Recv: list, read, remove, then print                                    *)
(***************************************************************************)

\* The order of the file names, and files listed in that order.
Before(f, g) == IF f.tmp = g.tmp THEN f.no < g.no ELSE f.tmp

Listing(S) ==
    CHOOSE q \in [1 .. Cardinality(S) -> S] :
       \A i, j \in DOMAIN q : i < j => Before(q[i], q[j])

\* Mutant: the newest file instead of the oldest.
ListedNewest(op) ==
    IF op = "recvall" THEN files ELSE {f \in files : \A g \in files \ {f} : Before(g, f)}

\* What a recv looks at: all files, or the first one.
Listed(op) ==
    IF op = "recvall" THEN files ELSE {f \in files : \A g \in files \ {f} : Before(f, g)}

\* Files that could be read and parsed; the others are skipped and stay.
Taken(listed, bad) == {f \in listed \ bad : f.whole}

\* Mutant: a recv that finds nothing waits for a message.
PollWhenEmpty(found) == IF found = {} THEN "recv" ELSE "remove"

\* A recv that finds nothing ends.
AfterReading(found) == IF found = {} THEN "close" ELSE "remove"

RecvRead(c) ==
    /\ pc[c] = "recv"
    /\ LET listed == Listed(job[c].op) IN
       \E bad \in SUBSET listed :
          LET found == Taken(listed, bad) IN
             /\ IF bad = {} THEN Works ELSE Fails
             /\ job' = [job EXCEPT ![c].found = found]
             /\ Goto(c, AfterReading(found))
    /\ UNCHANGED <<lock, files, sends, sent, delivered, crashes>>

\* Mutant: an error to remove ends the recv.
RecvRemoveOrFail(c) ==
    /\ pc[c] = "remove"
    /\ \E left \in SUBSET job[c].found :
          /\ files' = files \ (job[c].found \ left)
          /\ IF left = {} THEN Works /\ Goto(c, "print") ELSE Fails /\ Goto(c, "close")
    /\ UNCHANGED <<lock, job, sends, sent, delivered, crashes>>

\* A file that cannot be removed is delivered now and again later.
RecvRemove(c) ==
    /\ pc[c] = "remove"
    /\ \E left \in SUBSET job[c].found :
          /\ files' = files \ (job[c].found \ left)
          /\ IF left = {} THEN Works ELSE Fails
    /\ Goto(c, "print")
    /\ UNCHANGED <<lock, job, sends, sent, delivered, crashes>>

RecvPrint(c) ==
    /\ pc[c] = "print"
    /\ LET found == Listing(job[c].found) IN
          delivered' = delivered \o [i \in DOMAIN found |-> found[i].no]
    /\ Goto(c, "close")
    /\ UNCHANGED <<lock, job, files, sends, sent, faults, crashes>>

(***************************************************************************)
(* A command is killed                                                     *)
(***************************************************************************)

\* The kernel drops the lock; a send may have been in the middle of a write.
Crash(c) ==
    /\ pc[c] \notin {"idle", "child"}
    /\ crashes > 0 /\ crashes' = crashes - 1
    /\ lock' = IF lock = c THEN NoClient ELSE lock
    /\ Goto(c, "idle")
    /\ job' = [job EXCEPT ![c] = NoJob]
    /\ \/ UNCHANGED <<files, sends>>
       \/ /\ pc[c] = "send" /\ sends < MaxSends /\ sends' = sends + 1
          /\ \E whole \in BOOLEAN : files' = files \cup {Temp(sends', whole)}
    /\ UNCHANGED <<sent, delivered, faults>>

(***************************************************************************)
(* Specification                                                           *)
(***************************************************************************)

Init ==
    /\ lock = NoClient
    /\ pc = [c \in Clients |-> "idle"]
    /\ job = [c \in Clients |-> NoJob]
    /\ files = {} /\ sends = 0 /\ sent = {} /\ delivered = <<>>
    /\ faults = MaxFaults /\ crashes = MaxCrashes

Step(c) ==
    \/ Close(c) \/ ChildExits(c) \/ SendWrite(c) \/ SendRename(c) \/ NoMoreSends(c)
    \/ RecvRead(c) \/ RecvRemove(c) \/ RecvPrint(c)

Next == \E c \in Clients : Start(c) \/ Open(c) \/ Step(c) \/ Crash(c)

Spec == Init /\ [][Next]_vars

\* A running command goes on, a child exits as soon as it can, and whoever
\* waits for the lock gets it if it is free often enough.  The last two are
\* more than anybody guarantees: nobody bounds a shell, and flock has no queue.
Fairness == \A c \in Clients : WF_vars(Step(c)) /\ SF_vars(Open(c))

FairSpec == Spec /\ Fairness

=============================================================================
