------------------------------- MODULE Environment -------------------------------
(***************************************************************************)
(* The .env files of instances: how plax up derives one, how plax rederive *)
(* brings them up to date, and how verify judges them.                     *)
(*                                                                         *)
(* A file is a sequence of lines, each an assignment.  A line that is not  *)
(* plain carries an export prefix or a trailing comment, which reading the *)
(* file as a map drops; blank lines and comments are left out.  A hole is  *)
(* a key that gets a value of the instance's own: a port, a database name. *)
(*                                                                         *)
(* Every command here holds the registry lock from start to end, so there  *)
(* is one at a time; the user edits the inputs whenever he likes.          *)
(***************************************************************************)
EXTENDS Naturals, Sequences, SequencesExt, FiniteSets, FiniteSetsExt

CONSTANTS
    Instances,      \* numbers, in the order of the names
    Keys,
    Values,         \* what template and user may assign
    Braced,         \* one of them, which contains "{{"
    Templates,      \* the contents the template may have
    UserEnvs,       \* the contents the user's .env may have
    NoInst, NoFile, \* not registered; no .env
    MaxEdits,       \* bound: edits of the inputs in a behaviour
    MaxFaults       \* bound: failing steps and kills in a behaviour

VARIABLES
    template, user,     \* the two input files: lines, and a map
    holes, scrub,       \* the keys the blueprint lists as holes and as scrubbed
    rec,                \* registry file: rec[i], or NoInst
    env,                \* env[i]: lines of the .env of i, or NoFile
    pc, job,            \* the command that runs, if any
    fresh,              \* ghost: the command that derived i from the inputs as
                        \* they are now; "blind" if it could not read them all;
                        \* or "none"
    edits, faults       \* what is left of the bounds

inputs == <<template, user, holes, scrub>>
vars == <<inputs, rec, env, pc, job, fresh, edits, faults>>

Own(i, k) == <<i, k>>
Lines == [key : Keys, val : Values \cup (Instances \X Keys), plain : BOOLEAN]

\* supplied: the holes the record has a value for; current: a ghost, true
\* from the check of i until the next edit of what was checked.
Rec == [supplied : SUBSET Keys, health : {"none", "healthy", "unhealthy"},
        current : BOOLEAN]

\* blind: a ghost, the instances that a rederive derives without a file that
\* it could not read; quiet: a ghost, true until an edit.
NoJob == [op |-> "none", todo |-> {}, new |-> NoInst, user |-> <<>>, holes |-> {},
          scrub |-> {}, mem |-> <<>>, dirty |-> FALSE, failed |-> {}, tmp |-> <<>>,
          blind |-> {}, quiet |-> FALSE]

ASSUME EnvironmentAssumption ==
    /\ Instances \subseteq Nat
    /\ IsFiniteSet(Keys)
    /\ Templates \subseteq Seq(Lines)
    /\ UserEnvs \subseteq UNION {[D -> Values] : D \in SUBSET Keys}
    /\ NoInst \notin Rec \cup Instances
    /\ NoFile \notin Seq(Lines)
    /\ MaxEdits \in Nat /\ MaxFaults \in Nat

Works == UNCHANGED faults
Fails == faults > 0 /\ faults' = faults - 1

(***************************************************************************)
(* Reading and deriving                                                    *)
(***************************************************************************)

KeysOf(lines) == {lines[n].key : n \in DOMAIN lines}

\* ParseFile: of several lines with one key the last counts.
AsMap(lines) ==
    [k \in KeysOf(lines) |-> lines[Max({n \in DOMAIN lines : lines[n].key = k})].val]

Assign(k, v) == [key |-> k, val |-> v, plain |-> TRUE]

\* Both maps in one; where they differ the first counts.
Over(f, g) == [k \in DOMAIN f \cup DOMAIN g |-> IF k \in DOMAIN f THEN f[k] ELSE g[k]]

\* A line of the template as it is copied.
Copied(line, over, hs, sc, i) ==
    IF line.key \in hs THEN Assign(line.key, Own(i, line.key))
    ELSE IF line.key \in DOMAIN over \ sc THEN Assign(line.key, over[line.key])
    ELSE line

\* Mutant: the overrides that are not in the template are not scrubbed.
UnscrubbedRest(tmpl, over, hs, sc) == DOMAIN over \ (hs \cup KeysOf(tmpl))

Unwritten(tmpl, over, hs, sc) == DOMAIN over \ (hs \cup KeysOf(tmpl) \cup sc)

\* What DeriveMerged may write: the template line by line, the holes it does
\* not mention in the order of a map iteration, the other overrides by name.
Derived(tmpl, over, hs, sc, i) ==
    LET copied == [n \in DOMAIN tmpl |-> Copied(tmpl[n], over, hs, sc, i)]
        rest == SetToSeq(Unwritten(tmpl, over, hs, sc))
    IN {copied \o [n \in DOMAIN order |-> Assign(order[n], Own(i, order[n]))]
               \o [n \in DOMAIN rest |-> Assign(rest[n], over[rest[n]])]
          : order \in SetToSeqs(hs \ KeysOf(tmpl))}

\* Mutant: what the instance has wins over the user.
OldFirst(us, lines, hs) ==
    LET inst == IF lines = NoFile THEN <<>> ELSE AsMap(lines)
    IN [k \in (DOMAIN inst \cup DOMAIN us) \ hs |-> Over(inst, us)[k]]

\* The overrides of a rederive: the .env the instance has, and over it the
\* user's, without the holes of today.
Merged(us, lines, hs) ==
    LET inst == IF lines = NoFile THEN <<>> ELSE AsMap(lines)
        both == Over(us, inst)
    IN [k \in DOMAIN both \ hs |-> both[k]]

\* What rederive means for a key: holes are the instance's own, then comes
\* the user, then what the instance was born with, then the template; of a
\* scrubbed key the template only.
Reference(tmpl, us, lines, hs, sc, i) ==
    LET default == AsMap(tmpl)
        born == IF lines = NoFile THEN <<>> ELSE AsMap(lines)
        given == (DOMAIN us \cup DOMAIN born) \ sc
    IN [k \in hs \cup DOMAIN default \cup given |->
          IF k \in hs THEN Own(i, k)
          ELSE IF k \in given THEN Over(us, born)[k]
          ELSE default[k]]

(***************************************************************************)
(* CheckEnv                                                                *)
(***************************************************************************)

Complete(lines, hs, sc) ==
    (KeysOf(template) \cup DOMAIN user \cup hs) \ sc \subseteq KeysOf(lines)

Resolved(lines) == \A n \in DOMAIN lines : lines[n].val # Braced

\* No key has the user's value of a scrubbed one, unless that is no secret.
NoLeak(lines, sc) ==
    \A k \in sc \cap DOMAIN user :
       \/ k \in KeysOf(template) /\ AsMap(template)[k] = user[k]
       \/ user[k] \notin {AsMap(lines)[d] : d \in KeysOf(lines)}

EnvPasses(lines, hs, sc) ==
    lines # NoFile /\ Complete(lines, hs, sc) /\ Resolved(lines) /\ NoLeak(lines, sc)

\* What is left of it when a file cannot be read: the checks pass over the
\* template, the user's .env and, but for its keys, the instance's .env.
EnvMayPass(lines, hs, sc) == lines # NoFile /\ hs \ sc \subseteq KeysOf(lines)

(***************************************************************************)
(* Commands                                                                *)
(***************************************************************************)

Registered == {i \in Instances : rec[i] # NoInst}

\* Every command loads blueprint and registry first.
Begin(op, todo, us, blind, phase) ==
    /\ pc = "idle"
    /\ job' = [op |-> op, todo |-> todo,
               new |-> IF op = "up" THEN Min(todo) ELSE NoInst, user |-> us,
               holes |-> holes, scrub |-> scrub, mem |-> rec, dirty |-> FALSE,
               failed |-> {}, tmp |-> <<>>, blind |-> blind, quiet |-> TRUE]
    /\ pc' = phase
    /\ UNCHANGED <<inputs, rec, env, fresh, edits>>

\* Rederive reads the user's .env once for all instances; if it cannot, it
\* goes on as if the file were empty.
Rederive ==
    \/ Works /\ Begin("rederive", Registered, user, {}, "derive")
    \/ Fails /\ Begin("rederive", Registered, <<>>, Instances, "derive")

\* An up needs the worktree's place free: what a kill left there refuses it.
Start ==
    \/ Rederive
    \/ /\ Works
       /\ \/ \E i \in Instances \ Registered :
                env[i] = NoFile /\ Begin("up", {i}, user, {}, "create")
          \/ \E i \in Registered : Begin("verify", {i}, user, {}, "check")

Ends == pc' = "idle" /\ job' = NoJob

At == Min(job.todo)

\* Mutant: the user's value wins over a hole.
UserFirst(i) == Derived(template, user, job.holes \ DOMAIN user, job.scrub, i)

\* What Derive may write for a new instance.
NewEnv(i) == Derived(template, user, job.holes, job.scrub, i)

\* The rollback of up: the .env goes with the worktree.
RollBack == Ends /\ env' = [env EXCEPT ![At] = NoFile]

\* Step 4 of up, which fails if the blueprint does not declare the variables
\* that its holes name.
Create ==
    /\ pc = "create"
    /\ \/ /\ Works
          /\ \E lines \in NewEnv(At) : env' = [env EXCEPT ![At] = lines]
          /\ fresh' = [fresh EXCEPT ![At] = IF job.holes = holes /\ job.scrub = scrub
                                           THEN "up" ELSE "none"]
          /\ pc' = "static" /\ UNCHANGED job
       \/ Fails /\ RollBack /\ UNCHANGED fresh
    /\ UNCHANGED <<inputs, rec, edits>>

\* Step 4.5, which rolls back if the new file is not right, or not to be read.
Static ==
    /\ pc = "static"
    /\ \/ /\ IF EnvPasses(env[At], job.holes, job.scrub) THEN Works
             ELSE Fails /\ EnvMayPass(env[At], job.holes, job.scrub)
          /\ pc' = "register" /\ UNCHANGED <<env, job>>
       \/ /\ IF EnvPasses(env[At], job.holes, job.scrub) THEN Fails ELSE Works
          /\ RollBack
    /\ UNCHANGED <<inputs, rec, fresh, edits>>

\* The steps up to the save of the record, which has a value for every hole
\* and no health yet; up may end there, or verify the instance.
Register ==
    /\ pc = "register"
    /\ \/ LET new == [supplied |-> job.holes, health |-> "none", current |-> FALSE] IN
          /\ Works
          /\ rec' = [rec EXCEPT ![At] = new]
          /\ \/ job' = [job EXCEPT !.mem[At] = new] /\ pc' = "check"
             \/ Ends
          /\ UNCHANGED env
       \/ Fails /\ RollBack /\ UNCHANGED rec
    /\ UNCHANGED <<inputs, fresh, edits>>

\* Mutant: the first instance that fails ends the rederive.
StopsAt(i) == job' = [job EXCEPT !.todo = {}, !.failed = @ \cup {i}]

\* An instance that fails is reported, and the next one follows.
Skips(i) == job' = [job EXCEPT !.todo = @ \ {i}, !.failed = @ \cup {i}]

\* The derived file is written beside the old one.  A hole of today that the
\* record has no value for is an error; an old file that cannot be read is
\* none, and counts like one that is not there.
Derive ==
    /\ pc = "derive" /\ job.todo # {}
    /\ \/ /\ job.holes \subseteq job.mem[At].supplied
          /\ \E old \in {env[At], NoFile} :
                /\ IF old = env[At] THEN Works ELSE Fails
                /\ \E lines \in Derived(template, Merged(job.user, old, job.holes),
                                        job.holes, job.scrub, At) :
                      job' = [job EXCEPT !.tmp = lines,
                                         !.blind = IF old = env[At] THEN @ ELSE @ \cup {At}]
          /\ pc' = "replace"
       \/ /\ IF job.holes \subseteq job.mem[At].supplied THEN Fails ELSE Works
          /\ Skips(At) /\ UNCHANGED pc
    /\ UNCHANGED <<inputs, rec, env, fresh, edits>>

Freshness(i) ==
    IF ~job.quiet THEN "none" ELSE IF i \in job.blind THEN "blind" ELSE "rederive"

\* A file with the same bytes is left alone, and its health too.
Same ==
    /\ pc = "replace" /\ job.tmp = env[At]
    /\ job' = [job EXCEPT !.todo = @ \ {At}]
    /\ fresh' = [fresh EXCEPT ![At] = Freshness(At)]
    /\ pc' = "derive"
    /\ UNCHANGED <<inputs, rec, env, edits, faults>>

\* Any other is replaced, and so is one whose bytes could not be read.
Rename ==
    /\ pc = "replace"
    /\ \/ /\ IF job.tmp = env[At] THEN Fails ELSE Works
          /\ pc' = "check"
          /\ env' = [env EXCEPT ![At] = job.tmp]
          /\ fresh' = [fresh EXCEPT ![At] = Freshness(At)]
          /\ UNCHANGED job
       \/ Fails /\ pc' = "derive" /\ Skips(At) /\ UNCHANGED <<env, fresh>>
    /\ UNCHANGED <<inputs, rec, edits>>

\* Mutant: rederive takes what it wrote for right.
Trusts(i) == job.op = "rederive" \/ EnvPasses(env[i], job.holes, job.scrub)

Judges(i) == EnvPasses(env[i], job.holes, job.scrub)

Noted(i, health) ==
    [job.mem EXCEPT ![i].health = health,
                    ![i].current = job.holes = holes /\ job.scrub = scrub]

\* Mutant: the health is noted, and forgotten to be saved.
Mentions(i, health) == job' = [job EXCEPT !.mem = Noted(i, health), !.todo = @ \ {i}]

Notes(i, health) ==
    job' = [job EXCEPT !.mem = Noted(i, health), !.dirty = TRUE, !.todo = @ \ {i}]

\* What fails is a check of processes, services or databases, which a rederive
\* does not make, or the reading of a file.
Check ==
    /\ pc = "check"
    /\ \/ Works /\ Notes(At, IF Judges(At) THEN "healthy" ELSE "unhealthy")
       \/ Fails /\ Notes(At, "unhealthy")
       \/ /\ Fails /\ EnvMayPass(env[At], job.holes, job.scrub)
          /\ Notes(At, "healthy")
    /\ pc' = "derive"
    /\ UNCHANGED <<inputs, rec, env, fresh, edits>>

\* The instances as they are if the rollback of an up works: without the one
\* the up was about.
WithoutNew(all, none) ==
    [i \in Instances |-> IF i = job.new THEN none ELSE all[i]]

\* Nothing left to do: the registry is saved if it has changed.  An up whose
\* save fails here rolls back, and what failed may fail again.
Save ==
    /\ pc = "derive" /\ job.todo = {}
    /\ \/ Works /\ rec' = (IF job.dirty THEN job.mem ELSE rec) /\ UNCHANGED <<env, fresh>>
       \/ /\ job.dirty /\ Fails
          /\ env' = WithoutNew(env, NoFile) /\ fresh' = WithoutNew(fresh, "none")
          /\ rec' \in {rec, WithoutNew(rec, NoInst)}
    /\ Ends
    /\ UNCHANGED <<inputs, edits>>

\* A down, whose own steps are those of module Lifecycle.
Down(i) ==
    /\ pc = "idle" /\ rec[i] # NoInst
    /\ rec' = [rec EXCEPT ![i] = NoInst] /\ env' = [env EXCEPT ![i] = NoFile]
    /\ fresh' = [fresh EXCEPT ![i] = "none"]
    /\ UNCHANGED <<inputs, pc, job, edits, faults>>

(***************************************************************************)
(* The user, and kills                                                     *)
(***************************************************************************)

Outdated(records) ==
    [i \in Instances |-> IF records[i] = NoInst THEN NoInst
                         ELSE [records[i] EXCEPT !.current = FALSE]]

\* An input changes: nothing is fresh any more, and no check is current.
Edits ==
    /\ edits > 0 /\ edits' = edits - 1
    /\ fresh' = [i \in Instances |-> "none"]
    /\ rec' = Outdated(rec)
    /\ job' = IF pc = "idle" THEN job
              ELSE [job EXCEPT !.mem = Outdated(@), !.quiet = FALSE]
    /\ UNCHANGED <<pc, faults>>

EditTemplate ==
    /\ template' \in Templates \ {template}
    /\ Edits /\ UNCHANGED <<user, holes, scrub, env>>

EditUser ==
    /\ user' \in UserEnvs \ {user}
    /\ Edits /\ UNCHANGED <<template, holes, scrub, env>>

EditBlueprint ==
    /\ \/ holes' \in SUBSET Keys \ {holes} /\ UNCHANGED scrub
       \/ scrub' \in SUBSET Keys \ {scrub} /\ UNCHANGED holes
    /\ Edits /\ UNCHANGED <<template, user, env>>

\* The .env of an instance is deleted; rederive is to repair it.
LoseEnv ==
    /\ \E i \in Registered : env[i] # NoFile /\ env' = [env EXCEPT ![i] = NoFile]
    /\ Edits /\ UNCHANGED inputs

\* A kill; the .env of a killed up stays.
Crash ==
    /\ pc # "idle"
    /\ Fails
    /\ Ends
    /\ UNCHANGED <<inputs, rec, env, fresh, edits>>

(***************************************************************************)
(* Specification                                                           *)
(***************************************************************************)

Init ==
    /\ template \in Templates /\ user \in UserEnvs
    /\ holes \in SUBSET Keys /\ scrub \in SUBSET Keys
    /\ rec = [i \in Instances |-> NoInst]
    /\ env = [i \in Instances |-> NoFile]
    /\ pc = "idle" /\ job = NoJob
    /\ fresh = [i \in Instances |-> "none"]
    /\ edits = MaxEdits /\ faults = MaxFaults

Next ==
    \/ Start \/ Create \/ Static \/ Register
    \/ Derive \/ Same \/ Rename \/ Check \/ Save
    \/ \E i \in Instances : Down(i)
    \/ EditTemplate \/ EditUser \/ EditBlueprint \/ LoseEnv
    \/ Crash

Spec == Init /\ [][Next]_vars

=============================================================================
