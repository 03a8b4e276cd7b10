---------------------------- MODULE EnvironmentProps ----------------------------
(***************************************************************************)
(* What the .env files of instances have to be.                            *)
(***************************************************************************)
EXTENDS Environment

\* Types; and whatever a command changed in its copy of the registry it knows
\* that it has to save.
TypeOK ==
    /\ template \in Templates /\ user \in UserEnvs
    /\ holes \subseteq Keys /\ scrub \subseteq Keys
    /\ rec \in [Instances -> Rec \cup {NoInst}]
    /\ \A i \in Instances : env[i] = NoFile \/ env[i] \in Seq(Lines)
    /\ pc \in {"idle", "create", "static", "register", "derive", "replace", "check"}
    /\ pc # "idle" => /\ job.dirty \/ job.mem = rec
                      /\ job.todo \cup job.failed \subseteq Instances
                      /\ job.mem \in [Instances -> Rec \cup {NoInst}]
    /\ fresh \in [Instances -> {"none", "up", "rederive", "blind"}]
    /\ edits \in 0 .. MaxEdits /\ faults \in 0 .. MaxFaults

\* What a rederive would make of instance i now, as a map.
Target(i) == Reference(template, user, env[i], holes, scrub, i)

\* Line by line, with its three loops, DeriveMerged comes to the documented
\* precedence (docs/manual.md:461-465), for every template, also one that
\* repeats a key or lacks a hole, and whatever is scrubbed, given by the user
\* or left over in the instance.
DeriveIsReference ==
    \A i \in Instances :
       \A lines \in Derived(template, Merged(user, env[i], holes), holes, scrub, i) :
          AsMap(lines) = Target(i)

\* The .env of an instance derived since the inputs last changed, by a command
\* that could read them all, is what a rederive would make of it: what up
\* writes and what rederive writes agree, a second rederive changes the value
\* of no key, and a key that came to be scrubbed, or stopped being a hole, is
\* not left as it was.
FreshIsRight ==
    \A i \in Registered : fresh[i] \in {"up", "rederive"} => AsMap(env[i]) = Target(i)

\* As long as nothing has been edited since an instance was checked, one that
\* the registry calls healthy passes the checks of its environment: verify,
\* up and rederive never leave an older verdict beside a newer file, unless
\* one is killed, or fails to save, after it wrote the file.
HealthIsTrue ==
    pc = "idle" /\ faults = MaxFaults =>
       \A i \in Registered :
          rec[i].current /\ rec[i].health = "healthy" => EnvPasses(env[i], holes, scrub)

\* A rederive that ends, while nobody edits, has derived every instance anew
\* but those it reports as failed: one failure does not keep it from the
\* instances that follow (docs/plans/04-state.md:637).  What it derived without
\* a file that it could not read is "blind".
RederiveReachesAll ==
    [][Save /\ job.op = "rederive" /\ job.quiet =>
          \A i \in Registered :
             fresh'[i] \in {"rederive", "blind"} \/ i \in job.failed]_vars

\* "Exit 0 | All instances rederived" (docs/plans/04-state.md:782): after a
\* rederive that reports no instance as failed, during which nobody edited,
\* every .env is what the inputs make of it.  No run checks this: it is false
\* where one of the files could not be read.
ExitZeroIsUpToDate ==
    [][Save /\ job.op = "rederive" /\ job.quiet /\ job.failed = {} =>
          \A i \in Registered : env[i] # NoFile /\ AsMap(env[i]) = Target(i)]_vars

\* "Two identical runs produce identical output"
\* (docs/plans/13-user-env-keys-not-dropped.md:154): the .env of an instance
\* that was rederived is not written again by another rederive while the
\* inputs stay as they are.
SecondRunWritesNothing ==
    [][\A i \in Registered :
          fresh[i] = "rederive" /\ fresh'[i] = "rederive" => env'[i] = env[i]]_vars

=============================================================================
