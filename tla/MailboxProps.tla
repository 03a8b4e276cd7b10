------------------------------ MODULE MailboxProps ------------------------------
(***************************************************************************)
(* What sessions and messages promise.                                     *)
(***************************************************************************)
EXTENDS Mailbox

\* Types; and the lock is held by a command that is running.
TypeOK ==
    /\ lock \in Clients \cup {NoClient}
    /\ pc \in [Clients -> Phases]
    /\ \A c \in Clients :
          /\ lock = c <=> pc[c] \notin {"idle", "open"}
          /\ job[c].op \in Commands \cup {"none"}
          /\ job[c].parent \in Clients \cup {NoClient}
          /\ job[c].no \in 0 .. MaxSends /\ job[c].found \subseteq File
    /\ files \subseteq File
    /\ sends \in 0 .. MaxSends /\ sent \subseteq 1 .. sends
    /\ ToSet(delivered) \subseteq 1 .. sends
    /\ faults \in 0 .. MaxFaults /\ crashes \in 0 .. MaxCrashes

\* The messages a recv has removed and not yet printed.
InHand == UNION {job[c].found : c \in {d \in Clients : pc[d] \in {"remove", "print"}}}

\* "Delivery is at-least-once" (mailbox.go:90): what was sent is in the
\* mailbox, or in the hands of a recv, or was printed, whatever file operation
\* failed, and unless a command was killed.
AtLeastOnce ==
    crashes = MaxCrashes =>
       \A no \in sent : \/ Message(no) \in files \cup InHand
                        \/ no \in ToSet(delivered)

\* "oldest first" (mailbox.go:89), and once each: if nothing fails, whoever
\* sends and receives at the same time, the messages are printed in the order
\* of the sends and none twice.
OnceInOrder ==
    faults = MaxFaults /\ crashes = MaxCrashes =>
       \A i, j \in DOMAIN delivered : i < j => delivered[i] < delivered[j]

\* A recv that reads without an error comes away with a message if there is
\* one: "The write is atomic: the message appears fully formed or not at all"
\* (mailbox.go:43), so a send that failed or was killed cannot be in the way.
WaitingIsReceived ==
    [][\A c \in Clients :
          pc[c] = "recv" /\ pc'[c] = "close" /\ UNCHANGED faults =>
             \A f \in files : f.tmp]_vars

\* Whoever waits for the registry lock gets it: "no daemon, and no locking"
\* (docs/design.md:384-385) must at least mean that a send or recv cannot
\* block for good, wherever it is run.
Served == \A c \in Clients : pc[c] = "open" ~> pc[c] # "open"

(***************************************************************************)
(* The inductive invariant.  AtLeastOnce needs to know that what a recv    *)
(* removes is what it has in hand, OnceInOrder also that a send number is  *)
(* in one file only, and how what was printed, what is in hand and what is *)
(* in the mailbox follow each other while nothing fails.                   *)
(***************************************************************************)

JobType == [op : Commands \cup {"none"}, parent : Clients \cup {NoClient},
            no : 0 .. MaxSends, found : SUBSET File]

Types ==
    /\ TypeOK
    /\ job \in [Clients -> JobType]
    /\ delivered \in Seq(1 .. MaxSends)
    /\ \A c \in Clients : pc[c] # "idle" => job[c].op \in Commands

Distinct(S) == \A f, g \in S : f.no = g.no => f = g

\* Files of known sends, one each.
Numbered(S) == Distinct(S) /\ \A f \in S : f.no <= sends

AtWork(c) ==
    /\ pc[c] = "rename" => Temp(job[c].no, TRUE) \in files
    /\ pc[c] = "remove" => job[c].found \subseteq files
    /\ pc[c] \in {"remove", "print"} => Numbered(job[c].found)

\* Nothing has failed so far.
Nominal == faults = MaxFaults /\ crashes = MaxCrashes

Later(f, S) == \A g \in S : f.no < g.no

\* What c has in hand comes before what it leaves.
FirstInHand(c) ==
    /\ pc[c] = "remove" => \A f \in job[c].found : Later(f, files \ job[c].found)
    /\ pc[c] = "print"  => \A f \in job[c].found : Later(f, files)
    /\ pc[c] \in {"remove", "print"} => \A f \in job[c].found : ~f.tmp

InOrder ==
    /\ \A f \in files :
          /\ f.whole
          /\ f.tmp => \E c \in Clients : pc[c] = "rename" /\ f = Temp(job[c].no, TRUE)
    /\ \A c \in Clients : FirstInHand(c)
    /\ \A i \in DOMAIN delivered : \A f \in files \cup InHand : delivered[i] < f.no
    /\ \A i, j \in DOMAIN delivered : i < j => delivered[i] < delivered[j]

IInv ==
    /\ Types
    /\ Numbered(files)
    /\ \A c \in Clients : AtWork(c)
    /\ AtLeastOnce
    /\ Nominal => InOrder

=============================================================================
