---------------------------- MODULE EnvironmentInv ----------------------------
(***************************************************************************)
(* The inductive invariant behind EnvironmentProps.                        *)
(***************************************************************************)
EXTENDS EnvironmentProps

JobType ==
    [op : {"none", "up", "rederive", "verify"}, todo : SUBSET Instances,
     new : Instances \cup {NoInst}, user : UserEnvs \cup {<<>>}, holes : SUBSET Keys,
     scrub : SUBSET Keys, mem : [Instances -> Rec \cup {NoInst}] \cup {<<>>},
     dirty : BOOLEAN, failed : SUBSET Instances, tmp : Seq(Lines), blind : SUBSET Instances,
     quiet : BOOLEAN]

Types ==
    /\ TypeOK
    /\ env \in [Instances -> Seq(Lines) \cup {NoFile}]
    /\ job \in JobType

\* Which command is in which phase, and what it is about.
Role ==
    pc # "idle" =>
       /\ job.op = "up" => job.new \in Instances /\ job.todo \subseteq {job.new}
       /\ job.op # "up" => job.new = NoInst
       /\ IF job.op = "rederive" THEN job.todo \subseteq Registered
          ELSE \A i, j \in job.todo : i = j
       /\ pc # "derive" => job.todo # {}
       /\ pc \in {"create", "static", "register"} =>
             job.op = "up" /\ rec[At] = NoInst /\ ~job.dirty
       /\ pc = "replace" \/ (pc = "derive" /\ job.todo # {}) => job.op = "rederive"
       /\ pc = "check" => rec[At] # NoInst

\* A command knows who is registered.
SameNames == pc # "idle" => \A i \in Instances : job.mem[i] = NoInst <=> rec[i] = NoInst

\* The verdicts on the instances that the command at work, or the registry,
\* has.
Known == IF pc = "idle" THEN rec ELSE job.mem

\* While nothing has failed they hold, but that on an instance whose .env was
\* just replaced or that is about to be judged.
Verdicts ==
    faults = MaxFaults =>
       \A i \in Instances :
          /\ Known[i] # NoInst /\ Known[i].current /\ Known[i].health = "healthy"
          /\ ~(pc = "check" /\ i = At)
          => EnvPasses(env[i], holes, scrub)

\* A .env is as fresh as it is said to be, also that of an up that is not
\* through, or was killed.
FreshFiles ==
    \A i \in Instances : fresh[i] \in {"up", "rederive"} =>
       /\ env[i] # NoFile => AsMap(env[i]) = Target(i)
       /\ rec[i] # NoInst \/ (pc = "register" /\ i = At) => env[i] # NoFile

\* While nobody edits, a command knows what is there, but a user's .env that it
\* could not read.
ReadsToday ==
    pc # "idle" /\ job.quiet =>
       /\ job.holes = holes /\ job.scrub = scrub
       /\ job.user = user \/ job.blind = Instances

\* What rederive is about to rename is what it should be, if it could read all.
TmpIsRight ==
    pc = "replace" /\ job.quiet /\ At \notin job.blind => AsMap(job.tmp) = Target(At)

\* While nobody edits, rederive has passed over no instance.
Reached ==
    pc # "idle" /\ job.op = "rederive" /\ job.quiet =>
       /\ \A i \in Registered : i \in job.todo \cup job.failed \/ fresh[i] \in {"rederive", "blind"}
       /\ pc = "check" => fresh[At] \in {"rederive", "blind"}

IInv ==
    /\ Types /\ Role /\ SameNames /\ Verdicts
    /\ FreshFiles /\ ReadsToday /\ TmpIsRight /\ Reached

=============================================================================
