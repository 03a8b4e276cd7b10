----------------------------- MODULE MailboxProofs -----------------------------
(***************************************************************************)
(* Proofs about sessions and messages, for every set of commands and every *)
(* bound: types, delivery at least once, and once each in the order of the *)
(* sends while nothing fails.                                              *)
(***************************************************************************)
EXTENDS MailboxProps, FiniteSetTheorems, SequenceTheorems, TLAPS

(***************************************************************************)
(* Files can be listed                                                     *)
(***************************************************************************)

\* The names of files of different sends are strictly ordered.
LEMMA NamesOrdered ==
    ASSUME NEW S \in SUBSET File, Distinct(S)
    PROVE  /\ \A f \in S : ~Before(f, f)
           /\ \A f, g \in S : f = g \/ Before(f, g) \/ Before(g, f)
           /\ \A f, g \in S : ~(Before(f, g) /\ Before(g, f))
           /\ \A f, g, h \in S : Before(f, g) /\ Before(g, h) => Before(f, h)
<1>1. MaxSends \in Nat
  BY MailboxAssumption
<1>2. \A f \in S : f.no \in Nat /\ f.tmp \in BOOLEAN
  BY <1>1 DEF File
<1>3. \A f, g \in S : f.no = g.no => f = g
  BY DEF Distinct
<1>q. QED
  BY <1>2, <1>3 DEF Before

\* A set of files of different sends is finite.
LEMMA FilesFinite ==
    ASSUME NEW S \in SUBSET File, Distinct(S)
    PROVE  IsFiniteSet(S)
<1> DEFINE T  == 1 .. MaxSends
           no == [f \in S |-> f.no]
<1>1. MaxSends \in Nat
  BY MailboxAssumption
<1>2. IsFiniteSet(T)
  BY <1>1, FS_Interval
<1>3. no \in [S -> T]
  BY DEF File
<1>4. \A f, g \in S : no[f] = no[g] => f = g
  BY DEF Distinct
<1>5. no \in Injection(S, T)
  BY <1>3, <1>4 DEF Injection, IsInjective
<1> HIDE DEF T, no
<1>q. QED
  BY <1>2, <1>5, FS_Injection

\* A set of files of different sends has a listing: each at the place given
\* by the number of those before it.
LEMMA ListingExists ==
    ASSUME NEW S \in SUBSET File, Distinct(S)
    PROVE  /\ Cardinality(S) \in Nat
           /\ \E q \in [1 .. Cardinality(S) -> S] :
                 \A i, j \in DOMAIN q : i < j => Before(q[i], q[j])
<1> DEFINE n        == Cardinality(S)
           Prior(f) == {g \in S : Before(g, f)}
           place    == [f \in S |-> Cardinality(Prior(f)) + 1]
<1>1. IsFiniteSet(S) /\ n \in Nat
  BY FilesFinite, FS_CardinalityType
<1>2. \A f \in S : /\ IsFiniteSet(Prior(f)) /\ Cardinality(Prior(f)) \in Nat
                   /\ Cardinality(Prior(f)) < n
  <2> TAKE f \in S
  <2>1. Prior(f) \in SUBSET S /\ Prior(f) # S
    BY NamesOrdered
  <2> HIDE DEF Prior
  <2>q. QED
    BY <1>1, <2>1, FS_Subset, FS_CardinalityType
<1>3. \A f, g \in S : Before(f, g) => place[f] < place[g]
  <2> HIDE DEF Prior
  <2> SUFFICES ASSUME NEW f \in S, NEW g \in S, Before(f, g)
               PROVE  Cardinality(Prior(f)) < Cardinality(Prior(g))
    BY <1>2
  <2>1. Prior(f) \in SUBSET Prior(g) /\ f \in Prior(g) /\ f \notin Prior(f)
    BY NamesOrdered DEF Prior
  <2>q. QED
    BY <1>2, <2>1, FS_Subset
<1>4. place \in [S -> 1 .. n]
  BY <1>1, <1>2
<1>5. \A f, g \in S : place[f] = place[g] => f = g
  <2> SUFFICES ASSUME NEW f \in S, NEW g \in S, place[f] = place[g], f # g
               PROVE  FALSE
    OBVIOUS
  <2>1. place[f] < place[g] \/ place[g] < place[f]
    BY <1>3, NamesOrdered
  <2>2. place[f] \in Nat /\ place[g] \in Nat
    BY <1>2
  <2> HIDE DEF place
  <2>q. QED
    BY <2>1, <2>2
<1> HIDE DEF Prior, place
<1>6. place \in Injection(S, 1 .. n)
  BY <1>4, <1>5 DEF Injection, IsInjective
<1>7. IsFiniteSet(1 .. n) /\ Cardinality(1 .. n) = n
  BY <1>1, FS_Interval
<1>8. place \in Surjection(S, 1 .. n)
  BY <1>6, <1>7, FS_Injection
<1>9. \A i \in 1 .. n : \E f \in S : place[f] = i
  BY <1>8 DEF Surjection
<1> DEFINE q == [i \in 1 .. n |-> CHOOSE f \in S : place[f] = i]
<1>10. \A i \in 1 .. n : q[i] \in S /\ place[q[i]] = i
  BY <1>9
<1>11. q \in [1 .. n -> S]
  BY <1>10
<1>12. \A i, j \in 1 .. n : i < j => Before(q[i], q[j])
  <2> SUFFICES ASSUME NEW i \in 1 .. n, NEW j \in 1 .. n, i < j
               PROVE  Before(q[i], q[j])
    OBVIOUS
  <2> HIDE DEF q
  <2>1. q[i] # q[j]
    BY <1>1, <1>10
  <2>2. ~Before(q[j], q[i])
    BY <1>1, <1>3, <1>10
  <2>q. QED
    BY <1>10, <2>1, <2>2, NamesOrdered
<1>q. QED
  BY <1>1, <1>11, <1>12

\* What Listing returns: every file of the set, in the order of the names.
LEMMA ListingOrdered ==
    ASSUME NEW S \in SUBSET File, Distinct(S)
    PROVE  /\ Cardinality(S) \in Nat
           /\ Listing(S) \in [1 .. Cardinality(S) -> S]
           /\ \A i, j \in 1 .. Cardinality(S) : i < j => Before(Listing(S)[i], Listing(S)[j])
           /\ \A f \in S : \E i \in 1 .. Cardinality(S) : Listing(S)[i] = f
<1> DEFINE n == Cardinality(S)
           q == Listing(S)
<1>1. n \in Nat
  BY ListingExists
<1>2. q \in [1 .. n -> S] /\ \A i, j \in DOMAIN q : i < j => Before(q[i], q[j])
  BY ListingExists DEF Listing
<1>3. DOMAIN q = 1 .. n
  BY <1>2
<1> HIDE DEF q
<1>4. \A i, j \in 1 .. n : q[i] = q[j] => i = j
  <2> SUFFICES ASSUME NEW i \in 1 .. n, NEW j \in 1 .. n, q[i] = q[j], i < j
               PROVE  FALSE
    BY <1>1
  <2>q. QED
    BY <1>2, <1>3, NamesOrdered
<1>5. q \in Injection(1 .. n, S)
  BY <1>2, <1>4 DEF Injection, IsInjective
<1>6. IsFiniteSet(S) /\ Cardinality(1 .. n) = n
  BY <1>1, FilesFinite, FS_Interval, SMTT(30)
<1>7. q \in Surjection(1 .. n, S)
  BY <1>5, <1>6, FS_Injection
<1>8. \A f \in S : \E i \in 1 .. n : q[i] = f
  BY <1>7 DEF Surjection
<1>q. QED
  BY <1>1, <1>2, <1>3, <1>8 DEF q

(***************************************************************************)
(* Types                                                                   *)
(***************************************************************************)

LEMMA InitTypes ==
    ASSUME Init
    PROVE  Types
<1>1. /\ MaxSends \in Nat /\ MaxFaults \in Nat /\ MaxCrashes \in Nat
      /\ NoClient \notin Clients
  BY MailboxAssumption
<1>2. NoJob \in JobType
  BY <1>1 DEF NoJob, JobType
<1>3. job \in [Clients -> JobType] /\ pc \in [Clients -> Phases]
  BY <1>2 DEF Init, Phases
<1>4. delivered \in Seq(1 .. MaxSends) /\ ToSet(delivered) \subseteq 1 .. sends
  BY DEF Init, ToSet
<1>q. QED
  BY <1>1, <1>3, <1>4 DEF Init, Types, TypeOK, JobType, NoJob

\* The one command that holds the lock is the only one that is past Open.
LEMMA Alone ==
    ASSUME Types, NEW c \in Clients, pc[c] \notin {"idle", "open"}
    PROVE  \A d \in Clients : d = c \/ pc[d] \in {"idle", "open"}
BY DEF Types, TypeOK

\* Steps of the others: what c changes of its own phase and job.
Moves(c, phase, j) ==
    /\ pc' = [pc EXCEPT ![c] = phase]
    /\ job' = [job EXCEPT ![c] = j]

\* The types of phases, jobs and lock.
LEMMA MovesTypes ==
    ASSUME Types, NEW c \in Clients, NEW phase \in Phases, NEW j \in JobType,
           Moves(c, phase, j),
           lock' \in Clients \cup {NoClient},
           lock' = c <=> phase \notin {"idle", "open"},
           \A d \in Clients : d # c => (lock' = d <=> lock = d),
           phase # "idle" => j.op \in Commands
    PROVE  /\ pc' \in [Clients -> Phases] /\ job' \in [Clients -> JobType]
           /\ pc'[c] = phase /\ job'[c] = j
           /\ \A d \in Clients : d # c => pc'[d] = pc[d] /\ job'[d] = job[d]
           /\ \A d \in Clients :
                 /\ lock' = d <=> pc'[d] \notin {"idle", "open"}
                 /\ job'[d].op \in Commands \cup {"none"}
                 /\ pc'[d] # "idle" => job'[d].op \in Commands
                 /\ job'[d].parent \in Clients \cup {NoClient}
                 /\ job'[d].no \in 0 .. MaxSends /\ job'[d].found \subseteq File
<1>1. /\ pc \in [Clients -> Phases] /\ job \in [Clients -> JobType]
      /\ \A d \in Clients : /\ lock = d <=> pc[d] \notin {"idle", "open"}
                            /\ pc[d] # "idle" => job[d].op \in Commands
  BY DEF Types, TypeOK
<1>2. /\ pc' \in [Clients -> Phases] /\ job' \in [Clients -> JobType]
      /\ pc'[c] = phase /\ job'[c] = j
      /\ \A d \in Clients : d # c => pc'[d] = pc[d] /\ job'[d] = job[d]
  BY <1>1 DEF Moves
<1>3. \A d \in Clients : lock' = d <=> pc'[d] \notin {"idle", "open"}
  BY <1>1, <1>2
<1>4. \A d \in Clients : job'[d] \in JobType /\ (pc'[d] # "idle" => job'[d].op \in Commands)
  BY <1>1, <1>2
<1>q. QED
  BY <1>2, <1>3, <1>4 DEF JobType

(***************************************************************************)
(* Steps that touch no message                                             *)
(***************************************************************************)

Quiet == {"idle", "open", "child", "send", "recv", "close"}

\* A step of c between phases in which it is at no message: nothing is lost
\* or gained.
LEMMA QuietStep ==
    ASSUME IInv, Types', NEW c \in Clients,
           pc[c] \in Quiet, pc'[c] \in Quiet,
           \A d \in Clients : d # c => pc'[d] = pc[d] /\ job'[d] = job[d],
           UNCHANGED <<files, sends, sent, delivered, faults, crashes>>
    PROVE  IInv'
<1>1. \A d \in Clients : /\ pc[d] \in {"rename", "remove", "print"} => d # c
                         /\ pc'[d] \in {"rename", "remove", "print"} => d # c
  BY DEF Quiet
<1>2. InHand' = InHand
  BY <1>1 DEF InHand
<1>3. Numbered(files)'
  BY DEF IInv, Numbered, Distinct
<1>4. \A d \in Clients : AtWork(d)'
  <2> TAKE d \in Clients
  <2>1. CASE d = c
    BY <2>1, <1>1 DEF AtWork
  <2>2. CASE d # c
    <3>1. AtWork(d)
      BY DEF IInv
    <3>q. QED
      BY <2>2, <3>1 DEF AtWork, Numbered, Distinct
  <2>q. QED
    BY <2>1, <2>2
<1>5. AtLeastOnce'
  BY <1>2 DEF IInv, AtLeastOnce
<1>6. Nominal' => InOrder'
  <2> SUFFICES ASSUME Nominal'
               PROVE  InOrder'
    OBVIOUS
  <2>1. InOrder
    BY DEF IInv, Nominal
  <2>2. \A f \in files : f.tmp => \E d \in Clients : pc'[d] = "rename" /\ f = Temp(job'[d].no, TRUE)
    <3> TAKE f \in files
    <3> HAVE f.tmp
    <3>1. PICK d \in Clients : pc[d] = "rename" /\ f = Temp(job[d].no, TRUE)
      BY <2>1 DEF InOrder
    <3>q. QED
      BY <3>1, <1>1
  <2>3. \A d \in Clients : FirstInHand(d)'
    <3> TAKE d \in Clients
    <3>1. CASE d = c
      BY <3>1, <1>1 DEF FirstInHand
    <3>2. CASE d # c
      <4>1. FirstInHand(d)
        BY <2>1 DEF InOrder
      <4>q. QED
        BY <3>2, <4>1 DEF FirstInHand, Later
    <3>q. QED
      BY <3>1, <3>2
  <2>q. QED
    BY <1>2, <2>1, <2>2, <2>3 DEF InOrder, Temp
<1>q. QED
  BY <1>3, <1>4, <1>5, <1>6 DEF IInv

LEMMA StartStep ==
    ASSUME IInv, NEW c \in Clients, Start(c)
    PROVE  IInv'
<1>1. Types /\ pc[c] = "idle"
  BY DEF IInv, Start
<1>2. PICK op \in Commands : \E p \in Clients \cup {NoClient} :
          job' = [job EXCEPT ![c] = [op |-> op, parent |-> p, no |-> 0, found |-> {}]]
  BY Zenon DEF Start
<1>3. PICK p \in Clients \cup {NoClient} :
          job' = [job EXCEPT ![c] = [op |-> op, parent |-> p, no |-> 0, found |-> {}]]
  BY <1>2
<1> DEFINE j == [op |-> op, parent |-> p, no |-> 0, found |-> {}]
<1>4. j \in JobType /\ j.op \in Commands
  BY MailboxAssumption DEF JobType
<1>5. Moves(c, "open", j)
  BY <1>3 DEF Moves, Start, Goto
<1>6. lock # c
  BY <1>1 DEF Types, TypeOK
<1>7. UNCHANGED <<lock, files, sends, sent, delivered, faults, crashes>>
  BY DEF Start
<1> HIDE DEF j
<1>8. /\ pc' \in [Clients -> Phases] /\ job' \in [Clients -> JobType]
      /\ pc'[c] = "open" /\ job'[c] = j
      /\ \A d \in Clients : d # c => pc'[d] = pc[d] /\ job'[d] = job[d]
      /\ \A d \in Clients :
            /\ lock' = d <=> pc'[d] \notin {"idle", "open"}
            /\ job'[d].op \in Commands \cup {"none"}
            /\ pc'[d] # "idle" => job'[d].op \in Commands
            /\ job'[d].parent \in Clients \cup {NoClient}
            /\ job'[d].no \in 0 .. MaxSends /\ job'[d].found \subseteq File
  <2>1. "open" \in Phases /\ lock' \in Clients \cup {NoClient}
    BY <1>1, <1>7 DEF Phases, Types, TypeOK
  <2>q. QED
    BY <1>1, <1>4, <1>5, <1>6, <1>7, <2>1, MovesTypes, Zenon
<1>9. Types'
  BY <1>1, <1>7, <1>8 DEF Types, TypeOK, ToSet
<1>q. QED
  BY <1>1, <1>7, <1>8, <1>9, QuietStep DEF Quiet

\* Steps of c that leave its job and everything but the lock alone.
LEMMA GoesOn ==
    ASSUME IInv, NEW c \in Clients, NEW phase \in Quiet,
           pc[c] \in Quiet \ {"idle"}, Goto(c, phase),
           lock' \in Clients \cup {NoClient},
           lock' = c <=> phase \notin {"idle", "open"},
           \A d \in Clients : d # c => (lock' = d <=> lock = d),
           UNCHANGED <<job, files, sends, sent, delivered, faults, crashes>>
    PROVE  IInv'
<1>1. Types
  BY DEF IInv
<1>2. phase \in Phases /\ job[c] \in JobType
  BY <1>1 DEF Phases, Quiet, Types
<1>a. pc[c] \in Quiet /\ job[c].op \in Commands
  BY <1>1 DEF Types
<1>3. Moves(c, phase, job[c])
  BY <1>1 DEF Moves, Goto, Types
<1>4. /\ pc' \in [Clients -> Phases] /\ job' \in [Clients -> JobType]
      /\ pc'[c] = phase
      /\ \A d \in Clients : d # c => pc'[d] = pc[d] /\ job'[d] = job[d]
      /\ \A d \in Clients :
            /\ lock' = d <=> pc'[d] \notin {"idle", "open"}
            /\ job'[d].op \in Commands \cup {"none"}
            /\ pc'[d] # "idle" => job'[d].op \in Commands
            /\ job'[d].parent \in Clients \cup {NoClient}
            /\ job'[d].no \in 0 .. MaxSends /\ job'[d].found \subseteq File
  BY <1>1, <1>2, <1>a, <1>3, MovesTypes, Zenon
<1>5. Types'
  BY <1>1, <1>4 DEF Types, TypeOK, ToSet
<1>q. QED
  BY <1>4, <1>5, QuietStep

LEMMA OpenStep ==
    ASSUME IInv, NEW c \in Clients, Open(c)
    PROVE  IInv'
<1>1. Types /\ pc[c] = "open" /\ lock = NoClient /\ lock' = c
  BY DEF IInv, Open, LockFree
<1>2. job[c].op \in Commands
  BY <1>1 DEF Types
<1>3. FirstPhase[job[c].op] \in {"child", "send", "recv"}
  BY <1>2 DEF Commands, FirstPhase
<1>4. \A d \in Clients : d # c => lock' # d /\ lock # d
  BY <1>1, MailboxAssumption
<1>q. QED
  BY <1>1, <1>3, <1>4, GoesOn DEF Open, Quiet

LEMMA CloseStep ==
    ASSUME IInv, NEW c \in Clients, Close(c)
    PROVE  IInv'
<1>1. Types /\ pc[c] = "close" /\ lock' = NoClient
  BY DEF IInv, Close
<1>2. lock = c /\ NoClient \notin Clients
  BY <1>1, MailboxAssumption DEF Types, TypeOK
<1>3. NoJob \in JobType
  BY MailboxAssumption DEF NoJob, JobType
<1>4. Moves(c, "idle", NoJob)
  BY DEF Moves, Close, Goto
<1>5. /\ pc' \in [Clients -> Phases] /\ job' \in [Clients -> JobType]
      /\ pc'[c] = "idle"
      /\ \A d \in Clients : d # c => pc'[d] = pc[d] /\ job'[d] = job[d]
      /\ \A d \in Clients :
            /\ lock' = d <=> pc'[d] \notin {"idle", "open"}
            /\ job'[d].op \in Commands \cup {"none"}
            /\ pc'[d] # "idle" => job'[d].op \in Commands
            /\ job'[d].parent \in Clients \cup {NoClient}
            /\ job'[d].no \in 0 .. MaxSends /\ job'[d].found \subseteq File
  <2>1. "idle" \in Phases /\ lock' # c /\ \A d \in Clients : d # c => lock' # d /\ lock # d
    BY <1>1, <1>2 DEF Phases
  <2>q. QED
    BY <1>1, <1>3, <1>4, <2>1, MovesTypes, Zenon
<1>6. UNCHANGED <<files, sends, sent, delivered, faults, crashes>>
  BY DEF Close
<1>7. Types'
  BY <1>1, <1>5, <1>6 DEF Types, TypeOK, ToSet
<1>q. QED
  BY <1>1, <1>5, <1>6, <1>7, QuietStep DEF Quiet

LEMMA ChildExitsStep ==
    ASSUME IInv, NEW c \in Clients, ChildExits(c)
    PROVE  IInv'
<1>1. pc[c] = "child" /\ Types
  BY DEF IInv, ChildExits
<1>2. lock = c /\ lock' = lock
  BY <1>1 DEF Types, TypeOK, ChildExits
<1>q. QED
  BY <1>1, <1>2, GoesOn DEF ChildExits, Quiet

LEMMA NoMoreSendsStep ==
    ASSUME IInv, NEW c \in Clients, NoMoreSends(c)
    PROVE  IInv'
<1>1. pc[c] = "send" /\ Types
  BY DEF IInv, NoMoreSends
<1>2. lock = c /\ lock' = lock
  BY <1>1 DEF Types, TypeOK, NoMoreSends
<1>q. QED
  BY <1>1, <1>2, GoesOn DEF NoMoreSends, Quiet

(***************************************************************************)
(* Steps of the command that is at work                                    *)
(***************************************************************************)

\* A step of the command that holds the lock and goes on: what is in hand
\* is what it has in hand.
LEMMA WorkingHand ==
    ASSUME Types, NEW c \in Clients, NEW phase \in Phases, NEW j \in JobType,
           pc[c] \notin {"idle", "open"}, Moves(c, phase, j)
    PROVE  /\ InHand = IF pc[c] \in {"remove", "print"} THEN job[c].found ELSE {}
           /\ InHand' = IF phase \in {"remove", "print"} THEN j.found ELSE {}
<1>1. /\ pc \in [Clients -> Phases] /\ job \in [Clients -> JobType]
      /\ \A d \in Clients : d = c \/ pc[d] \in {"idle", "open"}
  BY Alone DEF Types, TypeOK
<1>2. /\ pc'[c] = phase /\ job'[c] = j
      /\ \A d \in Clients : d = c \/ pc'[d] \in {"idle", "open"}
  BY <1>1 DEF Moves
<1>q. QED
  BY <1>1, <1>2 DEF InHand

\* Such a step keeps the types of phases and jobs.
LEMMA WorkingTypes ==
    ASSUME Types, NEW c \in Clients, NEW phase \in Phases, NEW j \in JobType,
           pc[c] \notin {"idle", "open"}, phase \notin {"idle", "open"},
           Moves(c, phase, j), lock' = lock, j.op = job[c].op
    PROVE  /\ pc' \in [Clients -> Phases] /\ job' \in [Clients -> JobType]
           /\ pc'[c] = phase /\ job'[c] = j
           /\ \A d \in Clients : d # c => pc'[d] = pc[d] /\ job'[d] = job[d]
           /\ \A d \in Clients : d # c => pc'[d] \in {"idle", "open"}
           /\ lock' \in Clients \cup {NoClient}
           /\ \A d \in Clients :
                 /\ lock' = d <=> pc'[d] \notin {"idle", "open"}
                 /\ job'[d].op \in Commands \cup {"none"}
                 /\ pc'[d] # "idle" => job'[d].op \in Commands
                 /\ job'[d].parent \in Clients \cup {NoClient}
                 /\ job'[d].no \in 0 .. MaxSends /\ job'[d].found \subseteq File
<1>1. /\ lock = c /\ lock \in Clients \cup {NoClient} /\ job[c].op \in Commands
      /\ \A d \in Clients : d # c => pc[d] \in {"idle", "open"}
  BY Alone DEF Types, TypeOK
<1>q. QED
  BY <1>1, MovesTypes, ZenonT(60)

\* After such a step the others are at no message.
LEMMA WorkingInv ==
    ASSUME NEW c \in Clients, Types', Numbered(files)', AtWork(c)', AtLeastOnce',
           \A d \in Clients : d # c => pc'[d] \in {"idle", "open"},
           Nominal' =>
              /\ \A f \in files' : /\ f.whole
                                   /\ f.tmp => pc'[c] = "rename" /\ f = Temp(job'[c].no, TRUE)
              /\ FirstInHand(c)'
              /\ \A i \in DOMAIN delivered' :
                    \A f \in files' \cup InHand' : delivered'[i] < f.no
              /\ \A i, j \in DOMAIN delivered' : i < j => delivered'[i] < delivered'[j]
    PROVE  IInv'
<1>1. \A d \in Clients : AtWork(d)'
  <2> TAKE d \in Clients
  <2>1. CASE d = c
    BY <2>1
  <2>2. CASE d # c
    BY <2>2 DEF AtWork
  <2>q. QED
    BY <2>1, <2>2
<1>2. ASSUME Nominal'
      PROVE  InOrder'
  <2>1. \A d \in Clients : FirstInHand(d)'
    <3> TAKE d \in Clients
    <3>1. CASE d = c
      BY <3>1, <1>2
    <3>2. CASE d # c
      BY <3>2 DEF FirstInHand
    <3>q. QED
      BY <3>1, <3>2
  <2>q. QED
    BY <1>2, <2>1 DEF InOrder, Temp
<1>q. QED
  BY <1>1, <1>2 DEF IInv

LEMMA SendWriteStep ==
    ASSUME IInv, NEW c \in Clients, SendWrite(c)
    PROVE  IInv'
<1> DEFINE j == [job[c] EXCEPT !.no = sends']
<1>1. /\ Types /\ Numbered(files) /\ AtLeastOnce /\ (Nominal => InOrder)
      /\ pc[c] = "send" /\ sends' = sends + 1
      /\ UNCHANGED <<lock, sent, delivered, crashes>>
  BY DEF IInv, SendWrite
<1>2. /\ MaxSends \in Nat /\ sends \in 0 .. MaxSends /\ sends' \in 1 .. MaxSends
      /\ files \subseteq File /\ sent \subseteq 1 .. sends
      /\ ToSet(delivered) \subseteq 1 .. sends /\ delivered \in Seq(1 .. MaxSends)
      /\ faults \in 0 .. MaxFaults /\ MaxFaults \in Nat
      /\ crashes \in 0 .. MaxCrashes
      /\ job \in [Clients -> JobType]
  BY <1>1, MailboxAssumption DEF Types, TypeOK, SendWrite
<1>3. j \in JobType /\ j.op = job[c].op /\ j.no = sends'
  <2>1. job[c] \in JobType /\ sends' \in 0 .. MaxSends
    BY <1>2
  <2>q. QED
    BY <2>1 DEF JobType
<1>4. PICK phase \in {"rename", "close"} :
         /\ Goto(c, phase)
         /\ files' \subseteq files \cup {Temp(sends', TRUE), Temp(sends', FALSE)}
         /\ files \subseteq files'
         /\ faults' \in 0 .. MaxFaults
         /\ phase = "rename" => files' = files \cup {Temp(sends', TRUE)}
         /\ phase = "close" => faults' # MaxFaults
         /\ faults' = MaxFaults => faults = MaxFaults
  <2>1. CASE files' = files \cup {Temp(sends', TRUE)} /\ Works /\ Goto(c, "rename")
    BY <1>2, <2>1 DEF Works
  <2>2. CASE /\ Fails /\ Goto(c, "close")
             /\ files' \in {files, files \cup {Temp(sends', FALSE)}}
    <3>1. faults' \in 0 .. MaxFaults /\ faults' # MaxFaults
      BY <1>2, <2>2 DEF Fails
    <3>2. /\ files' \subseteq files \cup {Temp(sends', TRUE), Temp(sends', FALSE)}
          /\ files \subseteq files'
      BY <2>2
    <3>q. QED
      BY <2>2, <3>1, <3>2, Zenon
  <2>q. QED
    BY <2>1, <2>2 DEF SendWrite
<1>5. Moves(c, phase, j) /\ phase \in Phases
  BY <1>1, <1>4 DEF Moves, Goto, SendWrite, Phases
<1> HIDE DEF j
<1>6. /\ pc' \in [Clients -> Phases] /\ job' \in [Clients -> JobType]
      /\ pc'[c] = phase /\ job'[c] = j
      /\ \A d \in Clients : d # c => pc'[d] \in {"idle", "open"}
      /\ lock' \in Clients \cup {NoClient}
      /\ \A d \in Clients :
            /\ lock' = d <=> pc'[d] \notin {"idle", "open"}
            /\ job'[d].op \in Commands \cup {"none"}
            /\ pc'[d] # "idle" => job'[d].op \in Commands
            /\ job'[d].parent \in Clients \cup {NoClient}
            /\ job'[d].no \in 0 .. MaxSends /\ job'[d].found \subseteq File
  BY <1>1, <1>3, <1>4, <1>5, WorkingTypes, ZenonT(60)
<1>7. InHand = {} /\ InHand' = {}
  BY <1>1, <1>3, <1>4, <1>5, WorkingHand
<1>8. \A whole \in BOOLEAN : Temp(sends', whole) \in File
  BY <1>2 DEF Temp, File
<1>9. Types'
  <2>1. files' \subseteq File
    BY <1>2, <1>4, <1>8
  <2>2. /\ sends' \in 0 .. MaxSends /\ sent' \subseteq 1 .. sends'
        /\ ToSet(delivered') \subseteq 1 .. sends' /\ delivered' \in Seq(1 .. MaxSends)
        /\ faults' \in 0 .. MaxFaults /\ crashes' \in 0 .. MaxCrashes
    BY <1>1, <1>2, <1>4
  <2>q. QED
    BY <1>6, <2>1, <2>2 DEF Types, TypeOK
<1>10. Numbered(files)'
  <2>1. \A f \in files : f.no \in Nat /\ f.no <= sends
    BY <1>1, <1>2 DEF Numbered, File
  <2>2. \A f \in files' : f \in files \/ f.no = sends'
    BY <1>4 DEF Temp
  <2>3. \A f, g \in files : f.no = g.no => f = g
    BY <1>1 DEF Numbered, Distinct
  <2>4. \A f, g \in files' : f \notin files /\ g \notin files => f = g
    <3>1. CASE phase = "rename"
      BY <3>1, <1>4
    <3>2. CASE phase = "close"
      <4>1. files' = files \/ files' = files \cup {Temp(sends', FALSE)} \/ files' = files \cup {Temp(sends', TRUE)}
        BY DEF SendWrite
      <4>q. QED
        BY <4>1
    <3>q. QED
      BY <3>1, <3>2, <1>4
  <2>5. \A f, g \in files' : f.no = g.no => f = g
    BY <1>1, <1>2, <2>1, <2>2, <2>3, <2>4
  <2>6. \A f \in files' : f.no <= sends'
    BY <1>1, <1>2, <2>1, <2>2
  <2>q. QED
    BY <2>5, <2>6 DEF Numbered, Distinct
<1>11. AtWork(c)'
  BY <1>3, <1>4, <1>6 DEF AtWork, Temp
<1>12. AtLeastOnce'
  BY <1>1, <1>4, <1>7 DEF AtLeastOnce, Message
<1>13. ASSUME Nominal'
       PROVE  /\ \A f \in files' : /\ f.whole
                                   /\ f.tmp => pc'[c] = "rename" /\ f = Temp(job'[c].no, TRUE)
              /\ FirstInHand(c)'
              /\ \A i \in DOMAIN delivered' :
                    \A f \in files' \cup InHand' : delivered'[i] < f.no
              /\ \A a, b \in DOMAIN delivered' : a < b => delivered'[a] < delivered'[b]
  <2>1. InOrder /\ phase = "rename" /\ files' = files \cup {Temp(sends', TRUE)}
    BY <1>1, <1>2, <1>4, <1>13 DEF Nominal
  <2>2. \A f \in files : ~f.tmp
    <3>1. \A d \in Clients : pc[d] # "rename"
      BY <1>1, Alone
    <3>q. QED
      BY <2>1, <3>1 DEF InOrder
  <2>3. \A i \in DOMAIN delivered : delivered[i] \in 1 .. sends
    BY <1>2 DEF ToSet
  <2>q. QED
    BY <1>1, <1>2, <1>3, <1>6, <1>7, <2>1, <2>2, <2>3 DEF InOrder, FirstInHand, Temp
<1>q. QED
  BY <1>6, <1>9, <1>10, <1>11, <1>12, <1>13, WorkingInv

LEMMA SendRenameStep ==
    ASSUME IInv, NEW c \in Clients, SendRename(c)
    PROVE  IInv'
<1> DEFINE no   == job[c].no
           temp == Temp(no, TRUE)
<1>1. /\ Types /\ Numbered(files) /\ AtLeastOnce /\ (Nominal => InOrder)
      /\ pc[c] = "rename" /\ temp \in files
      /\ UNCHANGED <<lock, job, sends, delivered, crashes>>
  BY DEF IInv, SendRename, AtWork
<1>2. /\ MaxSends \in Nat /\ sends \in 0 .. MaxSends
      /\ files \subseteq File /\ sent \subseteq 1 .. sends
      /\ ToSet(delivered) \subseteq 1 .. sends /\ delivered \in Seq(1 .. MaxSends)
      /\ faults \in 0 .. MaxFaults /\ MaxFaults \in Nat
      /\ crashes \in 0 .. MaxCrashes
      /\ job \in [Clients -> JobType] /\ job[c] \in JobType
  BY <1>1, MailboxAssumption DEF Types, TypeOK
<1>3. no \in 1 .. sends
  <2>1. temp \in File /\ temp.no = no /\ temp.no <= sends
    BY <1>1, <1>2 DEF Numbered, Temp
  <2> HIDE DEF temp, no
  <2>2. temp.no \in 1 .. MaxSends
    BY <2>1 DEF File
  <2>q. QED
    BY <1>2, <2>1, <2>2
<1>4. \/ /\ files' = (files \ {temp}) \cup {Message(no)}
         /\ sent' = sent \cup {no} /\ faults' = faults
      \/ /\ faults > 0 /\ faults' = faults - 1
         /\ files' = files \/ files' = files \ {temp}
         /\ sent' = sent
  BY DEF SendRename, Works, Fails
<1>5. Moves(c, "close", job[c]) /\ "close" \in Phases
  BY <1>1, <1>2 DEF Moves, Goto, SendRename, Phases
<1> HIDE DEF no, temp
<1>6. /\ pc' \in [Clients -> Phases] /\ job' \in [Clients -> JobType]
      /\ pc'[c] = "close"
      /\ \A d \in Clients : d # c => pc'[d] \in {"idle", "open"}
      /\ lock' \in Clients \cup {NoClient}
      /\ \A d \in Clients :
            /\ lock' = d <=> pc'[d] \notin {"idle", "open"}
            /\ job'[d].op \in Commands \cup {"none"}
            /\ pc'[d] # "idle" => job'[d].op \in Commands
            /\ job'[d].parent \in Clients \cup {NoClient}
            /\ job'[d].no \in 0 .. MaxSends /\ job'[d].found \subseteq File
  <2>1. lock' = lock
    BY <1>1
  <2>q. QED
    BY <1>1, <1>2, <1>5, <2>1, WorkingTypes, Zenon
<1>7. InHand = {} /\ InHand' = {}
  BY <1>1, <1>2, <1>5, WorkingHand
<1>8. Message(no) \in File /\ Message(no).no = no /\ temp.no = no
  BY <1>2, <1>3 DEF Message, File, temp, Temp
<1>9. Types'
  <2>1. files' \subseteq File /\ sent' \subseteq 1 .. sends'
    BY <1>1, <1>2, <1>3, <1>4, <1>8
  <2>2. /\ sends' \in 0 .. MaxSends
        /\ ToSet(delivered') \subseteq 1 .. sends' /\ delivered' \in Seq(1 .. MaxSends)
        /\ faults' \in 0 .. MaxFaults /\ crashes' \in 0 .. MaxCrashes
    BY <1>1, <1>2, <1>4
  <2>q. QED
    BY <1>6, <2>1, <2>2 DEF Types, TypeOK
<1>10. Numbered(files)'
  <2>1. \A f, g \in files : f.no = g.no => f = g
    BY <1>1 DEF Numbered, Distinct
  <2>2. \A f \in files' : f \in files \/ f = Message(no)
    BY <1>4
  <2>3. Message(no) \in files' => temp \notin files' \/ Message(no) \in files
    BY <1>4, <1>8 DEF Message, temp, Temp
  <2>4. \A f, g \in files' : f.no = g.no => f = g
    BY <1>1, <1>8, <2>1, <2>2, <2>3
  <2>5. \A f \in files' : f.no <= sends'
    BY <1>1, <1>2, <1>3, <1>8, <2>2 DEF Numbered
  <2>q. QED
    BY <2>4, <2>5 DEF Numbered, Distinct
<1>11. AtWork(c)'
  BY <1>6 DEF AtWork
<1>12. AtLeastOnce'
  <2>1. \A k : Message(k) # temp
    BY DEF Message, temp, Temp
  <2>q. QED
    BY <1>1, <1>4, <1>7, <2>1 DEF AtLeastOnce
<1>13. ASSUME Nominal'
       PROVE  /\ \A f \in files' : /\ f.whole
                                   /\ f.tmp => pc'[c] = "rename" /\ f = Temp(job'[c].no, TRUE)
              /\ FirstInHand(c)'
              /\ \A i \in DOMAIN delivered' :
                    \A f \in files' \cup InHand' : delivered'[i] < f.no
              /\ \A a, b \in DOMAIN delivered' : a < b => delivered'[a] < delivered'[b]
  <2>1. InOrder /\ files' = (files \ {temp}) \cup {Message(no)}
    BY <1>1, <1>2, <1>4, <1>13 DEF Nominal
  <2>2. \A f \in files : f.tmp => f = temp
    <3>1. \A d \in Clients : pc[d] = "rename" => d = c
      BY <1>1, Alone
    <3>q. QED
      BY <2>1, <3>1 DEF InOrder, temp, no
  <2>3. \A f \in files' : f.whole /\ ~f.tmp
    <3>1. \A f \in files : f.whole
      BY <2>1 DEF InOrder
    <3>2. Message(no).whole /\ ~Message(no).tmp
      BY DEF Message
    <3>3. \A f \in files' : (f \in files /\ f # temp) \/ f = Message(no)
      BY <2>1
    <3>q. QED
      BY <2>2, <3>1, <3>2, <3>3
  <2>4. \A i \in DOMAIN delivered : \A f \in files' : delivered[i] < f.no
    BY <1>1, <1>8, <2>1 DEF InOrder
  <2>q. QED
    BY <1>1, <1>6, <1>7, <2>1, <2>3, <2>4 DEF InOrder, FirstInHand
<1>q. QED
  BY <1>6, <1>9, <1>10, <1>11, <1>12, <1>13, WorkingInv

LEMMA RecvReadStep ==
    ASSUME IInv, NEW c \in Clients, RecvRead(c)
    PROVE  IInv'
<1> DEFINE listed == Listed(job[c].op)
<1>1. /\ Types /\ Numbered(files) /\ AtLeastOnce /\ (Nominal => InOrder)
      /\ pc[c] = "recv"
      /\ UNCHANGED <<lock, files, sends, sent, delivered, crashes>>
  BY DEF IInv, RecvRead
<1>2. /\ MaxSends \in Nat /\ sends \in 0 .. MaxSends
      /\ files \subseteq File /\ sent \subseteq 1 .. sends
      /\ ToSet(delivered) \subseteq 1 .. sends /\ delivered \in Seq(1 .. MaxSends)
      /\ faults \in 0 .. MaxFaults /\ MaxFaults \in Nat
      /\ crashes \in 0 .. MaxCrashes
      /\ job \in [Clients -> JobType] /\ job[c] \in JobType
  BY <1>1, MailboxAssumption DEF Types, TypeOK
<1>3. PICK bad \in SUBSET listed :
         /\ IF bad = {} THEN Works ELSE Fails
         /\ job' = [job EXCEPT ![c].found = Taken(listed, bad)]
         /\ Goto(c, AfterReading(Taken(listed, bad)))
  BY Zenon DEF RecvRead
<1> DEFINE found == Taken(listed, bad)
           phase == AfterReading(found)
           j     == [job[c] EXCEPT !.found = found]
<1>4. listed \subseteq files /\ found \subseteq listed
  BY DEF Listed, Taken
<1>5. /\ faults' \in 0 .. MaxFaults
      /\ faults' = MaxFaults => faults = MaxFaults /\ bad = {}
  <2>1. CASE bad = {} /\ Works
    BY <1>2, <2>1 DEF Works
  <2>2. CASE Fails
    BY <1>2, <2>2 DEF Fails
  <2>q. QED
    BY <1>3, <2>1, <2>2
<1>6. phase \in {"close", "remove"}
  BY DEF AfterReading
<1>7. Moves(c, phase, j)
  BY <1>2, <1>3 DEF Moves, Goto
<1>8. \A f \in listed : f \in found \/ f \in bad \/ ~f.whole
  BY DEF Taken
<1>9. listed = IF job[c].op = "recvall" THEN files
               ELSE {f \in files : \A g \in files \ {f} : Before(f, g)}
  BY DEF Listed
<1> HIDE DEF listed, found, phase
<1>10. /\ j \in JobType /\ j.op = job[c].op /\ j.found = found
       /\ phase \in Phases
  BY <1>2, <1>4, <1>6 DEF JobType, Phases
<1> HIDE DEF j
<1>11. /\ pc' \in [Clients -> Phases] /\ job' \in [Clients -> JobType]
       /\ pc'[c] = phase /\ job'[c] = j
       /\ \A d \in Clients : d # c => pc'[d] \in {"idle", "open"}
       /\ lock' \in Clients \cup {NoClient}
       /\ \A d \in Clients :
             /\ lock' = d <=> pc'[d] \notin {"idle", "open"}
             /\ job'[d].op \in Commands \cup {"none"}
             /\ pc'[d] # "idle" => job'[d].op \in Commands
             /\ job'[d].parent \in Clients \cup {NoClient}
             /\ job'[d].no \in 0 .. MaxSends /\ job'[d].found \subseteq File
  <2>1. lock' = lock
    BY <1>1
  <2>q. QED
    BY <1>1, <1>6, <1>7, <1>10, <2>1, WorkingTypes, ZenonT(60)
<1>12. InHand = {} /\ InHand' \subseteq found
  BY <1>1, <1>7, <1>10, WorkingHand
<1>13. Types'
  BY <1>1, <1>2, <1>5, <1>11 DEF Types, TypeOK
<1>14. Numbered(files)'
  BY <1>1 DEF Numbered, Distinct
<1>15. AtWork(c)'
  <2>1. \A f, g \in found : f.no = g.no => f = g
    BY <1>1, <1>4 DEF Numbered, Distinct
  <2>2. \A f \in found : f.no <= sends'
    BY <1>1, <1>4 DEF Numbered
  <2>3. job'[c].found = found /\ found \subseteq files' /\ pc'[c] \in {"close", "remove"}
    BY <1>1, <1>4, <1>6, <1>10, <1>11
  <2>q. QED
    BY <2>1, <2>2, <2>3 DEF AtWork, Numbered, Distinct
<1>16. AtLeastOnce'
  BY <1>1, <1>12 DEF AtLeastOnce
<1>17. ASSUME Nominal'
       PROVE  /\ \A f \in files' : /\ f.whole
                                   /\ f.tmp => pc'[c] = "rename" /\ f = Temp(job'[c].no, TRUE)
              /\ FirstInHand(c)'
              /\ \A i \in DOMAIN delivered' :
                    \A f \in files' \cup InHand' : delivered'[i] < f.no
              /\ \A a, b \in DOMAIN delivered' : a < b => delivered'[a] < delivered'[b]
  <2>1. InOrder /\ bad = {}
    BY <1>1, <1>5, <1>17 DEF Nominal
  <2>2. \A f \in files : f.whole /\ ~f.tmp
    <3>1. \A d \in Clients : pc[d] # "rename"
      BY <1>1, Alone
    <3>q. QED
      BY <2>1, <3>1 DEF InOrder
  <2>3. found = listed
    BY <1>4, <1>8, <2>1, <2>2
  <2>4. \A f \in found, g \in files \ found : f.no < g.no
    BY <1>4, <1>9, <2>2, <2>3 DEF Before
  <2>5. FirstInHand(c)'
    BY <1>1, <1>4, <1>6, <1>10, <1>11, <2>2, <2>4 DEF FirstInHand, Later
  <2>q. QED
    BY <1>1, <1>4, <1>12, <2>1, <2>2, <2>5 DEF InOrder
<1>q. QED
  BY <1>11, <1>13, <1>14, <1>15, <1>16, <1>17, WorkingInv

LEMMA RecvRemoveStep ==
    ASSUME IInv, NEW c \in Clients, RecvRemove(c)
    PROVE  IInv'
<1> DEFINE found == job[c].found
<1>1. /\ Types /\ Numbered(files) /\ AtLeastOnce /\ (Nominal => InOrder)
      /\ pc[c] = "remove" /\ found \subseteq files
      /\ UNCHANGED <<lock, job, sends, sent, delivered, crashes>>
  BY DEF IInv, RecvRemove, AtWork
<1>2. /\ MaxSends \in Nat /\ sends \in 0 .. MaxSends
      /\ files \subseteq File /\ sent \subseteq 1 .. sends
      /\ ToSet(delivered) \subseteq 1 .. sends /\ delivered \in Seq(1 .. MaxSends)
      /\ faults \in 0 .. MaxFaults /\ MaxFaults \in Nat
      /\ crashes \in 0 .. MaxCrashes
      /\ job \in [Clients -> JobType] /\ job[c] \in JobType
  BY <1>1, MailboxAssumption DEF Types, TypeOK
<1>3. PICK left \in SUBSET found :
         /\ files' = files \ (found \ left)
         /\ IF left = {} THEN Works ELSE Fails
  BY Zenon DEF RecvRemove
<1>4. /\ faults' \in 0 .. MaxFaults
      /\ faults' = MaxFaults => faults = MaxFaults /\ left = {}
  <2>1. CASE left = {} /\ Works
    BY <1>2, <2>1 DEF Works
  <2>2. CASE Fails
    BY <1>2, <2>2 DEF Fails
  <2>q. QED
    BY <1>3, <2>1, <2>2
<1>5. Moves(c, "print", job[c]) /\ "print" \in Phases
  BY <1>1, <1>2 DEF Moves, Goto, RecvRemove, Phases
<1>6. /\ pc' \in [Clients -> Phases] /\ job' \in [Clients -> JobType]
      /\ pc'[c] = "print" /\ job'[c] = job[c]
      /\ \A d \in Clients : d # c => pc'[d] \in {"idle", "open"}
      /\ lock' \in Clients \cup {NoClient}
      /\ \A d \in Clients :
            /\ lock' = d <=> pc'[d] \notin {"idle", "open"}
            /\ job'[d].op \in Commands \cup {"none"}
            /\ pc'[d] # "idle" => job'[d].op \in Commands
            /\ job'[d].parent \in Clients \cup {NoClient}
            /\ job'[d].no \in 0 .. MaxSends /\ job'[d].found \subseteq File
  <2>1. lock' = lock
    BY <1>1
  <2>q. QED
    BY <1>1, <1>2, <1>5, <2>1, WorkingTypes, Zenon
<1>7. InHand = found /\ InHand' = found
  BY <1>1, <1>2, <1>5, WorkingHand
<1> HIDE DEF found
<1>8. files' \subseteq files /\ files \subseteq files' \cup found
  BY <1>3
<1>9. Types'
  BY <1>1, <1>2, <1>4, <1>6, <1>8 DEF Types, TypeOK
<1>10. Numbered(files)'
  BY <1>1, <1>8 DEF Numbered, Distinct
<1>11. AtWork(c)'
  <2>1. \A f, g \in found : f.no = g.no => f = g
    BY <1>1 DEF Numbered, Distinct
  <2>2. \A f \in found : f.no <= sends'
    BY <1>1 DEF Numbered
  <2>3. job'[c].found = found
    BY <1>6 DEF found
  <2>q. QED
    BY <1>6, <2>1, <2>2, <2>3 DEF AtWork, Numbered, Distinct
<1>12. AtLeastOnce'
  BY <1>1, <1>7, <1>8 DEF AtLeastOnce
<1>13. ASSUME Nominal'
       PROVE  /\ \A f \in files' : /\ f.whole
                                   /\ f.tmp => pc'[c] = "rename" /\ f = Temp(job'[c].no, TRUE)
              /\ FirstInHand(c)'
              /\ \A i \in DOMAIN delivered' :
                    \A f \in files' \cup InHand' : delivered'[i] < f.no
              /\ \A a, b \in DOMAIN delivered' : a < b => delivered'[a] < delivered'[b]
  <2>1. InOrder /\ files' = files \ found
    BY <1>1, <1>3, <1>4, <1>13 DEF Nominal
  <2>2. \A f \in files : f.whole /\ ~f.tmp
    <3>1. \A d \in Clients : pc[d] # "rename"
      BY <1>1, Alone
    <3>q. QED
      BY <2>1, <3>1 DEF InOrder
  <2>3. FirstInHand(c)
    BY <2>1 DEF InOrder
  <2>4. job'[c].found = found
    BY <1>6 DEF found
  <2>5. FirstInHand(c)'
    <3>1. \A f \in found : \A g \in files' : f.no < g.no
      BY <1>1, <2>1, <2>3 DEF FirstInHand, Later, found
    <3>2. \A f \in found : ~f.tmp
      BY <1>1, <2>2
    <3>q. QED
      BY <1>6, <2>4, <3>1, <3>2 DEF FirstInHand, Later
  <2>6. \A i \in DOMAIN delivered : \A f \in files' \cup InHand' : delivered[i] < f.no
    BY <1>7, <1>8, <2>1 DEF InOrder
  <2>7. \A a, b \in DOMAIN delivered : a < b => delivered[a] < delivered[b]
    BY <2>1 DEF InOrder
  <2>q. QED
    BY <1>1, <1>8, <2>2, <2>5, <2>6, <2>7
<1>q. QED
  BY <1>6, <1>9, <1>10, <1>11, <1>12, <1>13, WorkingInv

LEMMA RecvPrintStep ==
    ASSUME IInv, NEW c \in Clients, RecvPrint(c)
    PROVE  IInv'
<1> DEFINE found == job[c].found
           list  == Listing(found)
           n     == Cardinality(found)
           nums  == [i \in DOMAIN list |-> list[i].no]
<1>1. /\ Types /\ Numbered(files) /\ AtLeastOnce /\ (Nominal => InOrder)
      /\ pc[c] = "print" /\ Numbered(found)
      /\ UNCHANGED <<lock, job, files, sends, sent, faults, crashes>>
      /\ delivered' = delivered \o nums
  BY DEF IInv, RecvPrint, AtWork
<1>2. /\ MaxSends \in Nat /\ sends \in 0 .. MaxSends
      /\ files \subseteq File /\ sent \subseteq 1 .. sends
      /\ ToSet(delivered) \subseteq 1 .. sends /\ delivered \in Seq(1 .. MaxSends)
      /\ faults \in 0 .. MaxFaults /\ MaxFaults \in Nat
      /\ crashes \in 0 .. MaxCrashes
      /\ job \in [Clients -> JobType] /\ job[c] \in JobType
  BY <1>1, MailboxAssumption DEF Types, TypeOK
<1>3. found \in SUBSET File
  BY <1>2 DEF JobType
<1>4. Moves(c, "close", job[c]) /\ "close" \in Phases
  BY <1>1, <1>2 DEF Moves, Goto, RecvPrint, Phases
<1>5. /\ pc' \in [Clients -> Phases] /\ job' \in [Clients -> JobType]
      /\ pc'[c] = "close"
      /\ \A d \in Clients : d # c => pc'[d] \in {"idle", "open"}
      /\ lock' \in Clients \cup {NoClient}
      /\ \A d \in Clients :
            /\ lock' = d <=> pc'[d] \notin {"idle", "open"}
            /\ job'[d].op \in Commands \cup {"none"}
            /\ pc'[d] # "idle" => job'[d].op \in Commands
            /\ job'[d].parent \in Clients \cup {NoClient}
            /\ job'[d].no \in 0 .. MaxSends /\ job'[d].found \subseteq File
  <2>1. lock' = lock
    BY <1>1
  <2>q. QED
    BY <1>1, <1>2, <1>4, <2>1, WorkingTypes, Zenon
<1>6. InHand = found /\ InHand' = {}
  BY <1>1, <1>2, <1>4, WorkingHand
<1>8. ASSUME Nominal
      PROVE  \A f \in found : ~f.tmp /\ \A g \in files : f.no < g.no
  BY <1>1, <1>8 DEF InOrder, FirstInHand, Later
<1> HIDE DEF found
<1>9. /\ n \in Nat /\ list \in [1 .. n -> found]
      /\ \A i, j \in 1 .. n : i < j => Before(list[i], list[j])
      /\ \A f \in found : \E i \in 1 .. n : list[i] = f
  BY <1>1, <1>3, ListingOrdered DEF Numbered
<1> HIDE DEF list, n
<1>10. \A f \in found : f.no \in 1 .. MaxSends /\ f.no \in 1 .. sends
  BY <1>1, <1>2, <1>3 DEF Numbered, File
<1>11. /\ nums \in Seq(1 .. MaxSends) /\ Len(nums) = n
       /\ \A i \in 1 .. n : nums[i] = list[i].no /\ list[i] \in found
  <2>1. DOMAIN list = 1 .. n
    BY <1>9
  <2>2. nums \in [1 .. n -> 1 .. MaxSends] /\ \A i \in 1 .. n : nums[i] = list[i].no
    BY <1>9, <1>10, <2>1
  <2> HIDE DEF nums
  <2>3. nums \in Seq(1 .. MaxSends)
    <3>1. \A k \in Nat : [1 .. k -> 1 .. MaxSends] \subseteq Seq(1 .. MaxSends)
      BY SeqDef
    <3>q. QED
      BY <1>9, <2>2, <3>1
  <2>4. Len(nums) = n
    BY <1>9, <2>2, <2>3
  <2>q. QED
    BY <1>9, <2>2, <2>3, <2>4
<1> HIDE DEF nums
<1> DEFINE m == Len(delivered)
<1>12. /\ delivered' \in Seq(1 .. MaxSends) /\ m \in Nat
       /\ DOMAIN delivered = 1 .. m /\ DOMAIN delivered' = 1 .. m + n
       /\ \A i \in 1 .. m : delivered'[i] = delivered[i]
       /\ \A i \in 1 .. n : delivered'[m + i] = nums[i]
  <2>1. /\ delivered \in Seq(1 .. MaxSends) /\ nums \in Seq(1 .. MaxSends)
        /\ delivered' = delivered \o nums /\ n \in Nat /\ Len(nums) = n
    BY <1>1, <1>2, <1>9, <1>11
  <2>2. m \in Nat /\ DOMAIN delivered = 1 .. m
    BY <2>1
  <2>3. delivered' \in Seq(1 .. MaxSends) /\ Len(delivered') = m + n
    BY <2>1, ConcatProperties
  <2>4. DOMAIN delivered' = 1 .. m + n
    BY <2>3
  <2>5. \A i \in 1 .. m : delivered'[i] = delivered[i]
    BY <2>1, <2>2
  <2>6. \A i \in 1 .. n : delivered'[m + i] = nums[i]
    BY <2>1, <2>2
  <2>q. QED
    BY <2>2, <2>3, <2>4, <2>5, <2>6
<1>13. \A i \in 1 .. m + n : i \in 1 .. m \/ \E k \in 1 .. n : i = m + k
  <2> TAKE i \in 1 .. m + n
  <2>1. CASE i <= m
    BY <2>1, <1>12
  <2>2. CASE i > m
    <3>1. i - m \in 1 .. n /\ i = m + (i - m)
      BY <1>9, <1>12, <2>2
    <3>q. QED
      BY <3>1
  <2>q. QED
    BY <1>9, <1>12, <2>1, <2>2
<1> HIDE DEF m
<1>14. \A i \in DOMAIN delivered' :
          \/ i \in DOMAIN delivered /\ delivered'[i] = delivered[i]
          \/ \E k \in 1 .. n : i = m + k /\ delivered'[i] = list[k].no
  <2> TAKE i \in DOMAIN delivered'
  <2>1. CASE i \in 1 .. m
    BY <2>1, <1>12
  <2>2. CASE i \notin 1 .. m
    <3>1. PICK k \in 1 .. n : i = m + k
      BY <2>2, <1>12, <1>13
    <3>2. delivered'[i] = list[k].no
      BY <3>1, <1>11, <1>12
    <3>q. QED
      BY <3>1, <3>2
  <2>q. QED
    BY <2>1, <2>2
<1>15. Types'
  <2>1. ToSet(delivered') \subseteq 1 .. sends'
    <3>1. \A i \in DOMAIN delivered : delivered[i] \in 1 .. sends
      BY <1>2 DEF ToSet
    <3>2. \A i \in DOMAIN delivered' : delivered'[i] \in 1 .. sends
      BY <1>10, <1>11, <1>14, <3>1
    <3>q. QED
      BY <1>1, <3>2 DEF ToSet
  <2>q. QED
    BY <1>1, <1>2, <1>5, <1>12, <2>1 DEF Types, TypeOK
<1>16. Numbered(files)'
  BY <1>1 DEF Numbered, Distinct
<1>17. AtWork(c)'
  BY <1>5 DEF AtWork
<1>18. AtLeastOnce'
  <2> SUFFICES ASSUME crashes = MaxCrashes, NEW no \in sent
               PROVE  Message(no) \in files \/ no \in ToSet(delivered')
    BY <1>1, <1>6 DEF AtLeastOnce
  <2>1. Message(no) \in files \cup found \/ no \in ToSet(delivered)
    BY <1>1, <1>6 DEF AtLeastOnce
  <2>2. CASE Message(no) \in found
    <3>1. PICK k \in 1 .. n : list[k] = Message(no)
      BY <1>9, <2>2
    <3>2. m + k \in DOMAIN delivered' /\ delivered'[m + k] = no
      BY <1>9, <1>11, <1>12, <3>1 DEF Message
    <3>q. QED
      BY <3>2 DEF ToSet
  <2>3. CASE no \in ToSet(delivered)
    <3>1. PICK i \in DOMAIN delivered : delivered[i] = no
      BY <2>3 DEF ToSet
    <3>2. i \in DOMAIN delivered' /\ delivered'[i] = no
      BY <1>9, <1>12, <3>1
    <3>q. QED
      BY <3>2 DEF ToSet
  <2>q. QED
    BY <2>1, <2>2, <2>3
<1>19. ASSUME Nominal'
       PROVE  /\ \A f \in files' : /\ f.whole
                                   /\ f.tmp => pc'[c] = "rename" /\ f = Temp(job'[c].no, TRUE)
              /\ FirstInHand(c)'
              /\ \A i \in DOMAIN delivered' :
                    \A f \in files' \cup InHand' : delivered'[i] < f.no
              /\ \A a, b \in DOMAIN delivered' : a < b => delivered'[a] < delivered'[b]
  <2>1. InOrder /\ Nominal
    BY <1>1, <1>19 DEF Nominal
  <2>2. \A f \in files' : f.whole /\ ~f.tmp
    <3>1. \A d \in Clients : pc[d] # "rename"
      BY <1>1, Alone
    <3>q. QED
      BY <1>1, <2>1, <3>1 DEF InOrder
  <2>3. FirstInHand(c)'
    BY <1>5 DEF FirstInHand
  <2>4. \A i \in DOMAIN delivered : \A f \in files \cup found : delivered[i] < f.no
    BY <1>6, <2>1 DEF InOrder
  <2>5. \A f \in found : ~f.tmp /\ \A g \in files : f.no < g.no
    BY <1>8, <2>1
  <2>6. \A i \in DOMAIN delivered' : \A f \in files' \cup InHand' : delivered'[i] < f.no
    BY <1>1, <1>6, <1>11, <1>14, <2>4, <2>5, ZenonT(60)
  <2>7. \A i, k \in 1 .. n : i < k => list[i].no < list[k].no
    BY <1>9, <1>11, <2>5 DEF Before
  <2>8. \A a, b \in DOMAIN delivered' : a < b => delivered'[a] < delivered'[b]
    <3> SUFFICES ASSUME NEW a \in DOMAIN delivered', NEW b \in DOMAIN delivered', a < b
                 PROVE  delivered'[a] < delivered'[b]
      OBVIOUS
    <3>1. CASE a \in DOMAIN delivered /\ b \in DOMAIN delivered
      BY <1>12, <2>1, <3>1 DEF InOrder
    <3>2. CASE a \in DOMAIN delivered /\ b \notin DOMAIN delivered
      BY <1>11, <1>12, <1>14, <2>4, <3>2, SMTT(30)
    <3>3. CASE a \notin DOMAIN delivered
      <4>1. PICK i \in 1 .. n : a = m + i /\ delivered'[a] = list[i].no
        BY <1>14, <3>3
      <4>2. b \notin DOMAIN delivered
        BY <1>9, <1>12, <4>1
      <4>3. PICK k \in 1 .. n : b = m + k /\ delivered'[b] = list[k].no
        BY <1>14, <4>2
      <4>4. i < k
        BY <1>9, <1>12, <4>1, <4>3
      <4>q. QED
        BY <2>7, <4>1, <4>3, <4>4
    <3>q. QED
      BY <3>1, <3>2, <3>3
  <2>q. QED
    BY <2>2, <2>3, <2>6, <2>8
<1>q. QED
  BY <1>5, <1>15, <1>16, <1>17, <1>18, <1>19, WorkingInv

(***************************************************************************)
(* A kill                                                                  *)
(***************************************************************************)

\* The promises are void after a kill; the files stay well formed.
LEMMA CrashStep ==
    ASSUME IInv, NEW c \in Clients, Crash(c)
    PROVE  IInv'
<1>1. /\ Types /\ Numbered(files) /\ \A d \in Clients : AtWork(d)
      /\ crashes > 0 /\ crashes' = crashes - 1
      /\ lock' = IF lock = c THEN NoClient ELSE lock
      /\ UNCHANGED <<sent, delivered, faults>>
  BY DEF IInv, Crash
<1>2. /\ MaxSends \in Nat /\ sends \in 0 .. MaxSends
      /\ files \subseteq File /\ sent \subseteq 1 .. sends
      /\ ToSet(delivered) \subseteq 1 .. sends /\ delivered \in Seq(1 .. MaxSends)
      /\ faults \in 0 .. MaxFaults
      /\ crashes \in 0 .. MaxCrashes /\ MaxCrashes \in Nat
      /\ job \in [Clients -> JobType]
  BY <1>1, MailboxAssumption DEF Types, TypeOK
<1>3. NoJob \in JobType /\ "idle" \in Phases
  BY MailboxAssumption DEF NoJob, JobType, Phases
<1>4. Moves(c, "idle", NoJob)
  BY DEF Moves, Crash, Goto
<1>5. /\ lock' \in Clients \cup {NoClient} /\ lock' # c
      /\ \A d \in Clients : d # c => (lock' = d <=> lock = d)
  BY <1>1, MailboxAssumption DEF Types, TypeOK
<1>6. /\ pc' \in [Clients -> Phases] /\ job' \in [Clients -> JobType]
      /\ pc'[c] = "idle"
      /\ \A d \in Clients : d # c => pc'[d] = pc[d] /\ job'[d] = job[d]
      /\ \A d \in Clients :
            /\ lock' = d <=> pc'[d] \notin {"idle", "open"}
            /\ job'[d].op \in Commands \cup {"none"}
            /\ pc'[d] # "idle" => job'[d].op \in Commands
            /\ job'[d].parent \in Clients \cup {NoClient}
            /\ job'[d].no \in 0 .. MaxSends /\ job'[d].found \subseteq File
  BY <1>1, <1>3, <1>4, <1>5, MovesTypes, Zenon
<1>7. \/ files' = files /\ sends' = sends
      \/ /\ sends' = sends + 1 /\ sends' \in 1 .. MaxSends
         /\ \E whole \in BOOLEAN : files' = files \cup {Temp(sends', whole)}
  BY <1>2 DEF Crash
<1>8. /\ sends' \in 0 .. MaxSends /\ sends <= sends' /\ files \subseteq files'
  BY <1>2, <1>7
<1>9. \A f \in files : f.no \in Nat /\ f.no <= sends
  BY <1>1, <1>2 DEF Numbered, File
<1>10. files' \subseteq File /\ Numbered(files)'
  <2>1. CASE files' = files /\ sends' = sends
    BY <1>1, <1>2, <2>1 DEF Numbered, Distinct
  <2>2. CASE /\ sends' = sends + 1 /\ sends' \in 1 .. MaxSends
             /\ \E whole \in BOOLEAN : files' = files \cup {Temp(sends', whole)}
    <3>1. PICK whole \in BOOLEAN : files' = files \cup {Temp(sends', whole)}
      BY <2>2
    <3> DEFINE t == Temp(sends', whole)
    <3>2. t \in File /\ t.no = sends'
      BY <2>2 DEF Temp, File
    <3> HIDE DEF t
    <3>3. \A f, g \in files : f.no = g.no => f = g
      BY <1>1 DEF Numbered, Distinct
    <3>4. \A f \in files' : f = t \/ f \in files
      BY <3>1 DEF t
    <3>5. \A f \in files : f.no # sends' /\ f.no <= sends'
      BY <1>2, <1>9, <2>2
    <3>6. \A f, g \in files' : f.no = g.no => f = g
      BY <3>2, <3>3, <3>4, <3>5
    <3>7. \A f \in files' : f.no <= sends'
      BY <1>2, <2>2, <3>2, <3>4, <3>5
    <3>q. QED
      BY <1>2, <3>2, <3>4, <3>6, <3>7 DEF Numbered, Distinct
  <2>q. QED
    BY <1>7, <2>1, <2>2
<1>11. Types'
  <2>1. /\ sent' \subseteq 1 .. sends' /\ ToSet(delivered') \subseteq 1 .. sends'
        /\ delivered' \in Seq(1 .. MaxSends)
        /\ faults' \in 0 .. MaxFaults /\ crashes' \in 0 .. MaxCrashes
    BY <1>1, <1>2, <1>8
  <2>q. QED
    BY <1>5, <1>6, <1>8, <1>10, <2>1 DEF Types, TypeOK
<1>12. \A d \in Clients : AtWork(d)'
  <2> TAKE d \in Clients
  <2>1. CASE d = c
    BY <2>1, <1>6 DEF AtWork
  <2>2. CASE d # c
    <3>1. AtWork(d) /\ pc'[d] = pc[d] /\ job'[d] = job[d]
      BY <1>1, <1>6, <2>2
    <3>2. \A f \in job[d].found : f.no <= sends => f.no <= sends'
      <4>1. job[d].found \subseteq File
        BY <1>2 DEF JobType
      <4>q. QED
        BY <1>2, <1>8, <4>1 DEF File
    <3>q. QED
      BY <1>8, <3>1, <3>2 DEF AtWork, Numbered, Distinct
  <2>q. QED
    BY <2>1, <2>2
<1>13. crashes' # MaxCrashes
  BY <1>1, <1>2
<1>q. QED
  BY <1>10, <1>11, <1>12, <1>13 DEF IInv, AtLeastOnce, Nominal

(***************************************************************************)
(* The theorems                                                            *)
(***************************************************************************)

LEMMA InitInv == Init => IInv
<1> SUFFICES ASSUME Init
             PROVE  IInv
  OBVIOUS
<1>1. Types
  BY InitTypes
<1>2. InHand = {}
  BY DEF Init, InHand
<1>3. \A c \in Clients : AtWork(c) /\ FirstInHand(c)
  BY DEF Init, AtWork, FirstInHand
<1>4. files = {} /\ sent = {} /\ DOMAIN delivered = {}
  BY DEF Init
<1>q. QED
  BY <1>1, <1>2, <1>3, <1>4 DEF IInv, Numbered, Distinct, AtLeastOnce, InOrder

LEMMA NextInv == IInv /\ [Next]_vars => IInv'
<1> SUFFICES ASSUME IInv, [Next]_vars
             PROVE  IInv'
  OBVIOUS
<1>1. CASE UNCHANGED vars
  BY <1>1 DEF vars, IInv, Types, TypeOK, Numbered, Distinct, AtWork, AtLeastOnce, InHand,
              Nominal, InOrder, FirstInHand, Later, Temp, Message, JobType, ToSet
<1>2. ASSUME NEW c \in Clients, Start(c) \/ Open(c) \/ Step(c) \/ Crash(c)
      PROVE  IInv'
  <2>1. ASSUME Step(c)
        PROVE  IInv'
    BY <2>1, CloseStep, ChildExitsStep, SendWriteStep, SendRenameStep, NoMoreSendsStep,
       RecvReadStep, RecvRemoveStep, RecvPrintStep DEF Step
  <2>q. QED
    BY <1>2, <2>1, StartStep, OpenStep, CrashStep
<1>q. QED
  BY <1>1, <1>2 DEF Next

\* The inductive invariant of sessions and messages.
THEOREM MailboxInvariant == Spec => []IInv
BY InitInv, NextInv, PTL DEF Spec

\* Types, and the lock is held by a running command.
THEOREM TypesHold == Spec => []TypeOK
<1>1. IInv => TypeOK
  BY DEF IInv, Types
<1>q. QED
  BY <1>1, MailboxInvariant, PTL

\* Delivery is at least once (mailbox.go:90) unless a command is killed,
\* whichever reads, renames and removals fail and whoever else sends or
\* receives.
THEOREM AtLeastOnceHolds == Spec => []AtLeastOnce
<1>1. IInv => AtLeastOnce
  BY DEF IInv
<1>q. QED
  BY <1>1, MailboxInvariant, PTL

\* Oldest first (mailbox.go:89) and once each while nothing fails, for any
\* number of processes that send and receive.
THEOREM OnceInOrderHolds == Spec => []OnceInOrder
<1>1. IInv => OnceInOrder
  BY DEF IInv, OnceInOrder, InOrder, Nominal
<1>q. QED
  BY <1>1, MailboxInvariant, PTL

=============================================================================
