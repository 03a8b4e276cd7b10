------------------------------- MODULE Supervisor -------------------------------
(***************************************************************************)
(* One native process of an instance: Spawn starts it as the leader of a   *)
(* process group, later calls of Terminate, mostly from other plax         *)
(* processes, signal the group; pkg/process/supervisor.go.                 *)
(*                                                                         *)
(* Around them the group lives its own life: members fork, exit and are    *)
(* reaped.  Once the group is empty the kernel may give its number to a    *)
(* stranger, which may lead a group of its own and leave members behind.   *)
(* A start time is only compared with others, so it is known here by whose *)
(* it is.  What signal a member honours and when is left to the member:    *)
(* whoever runs may exit at any time or never.                             *)
(***************************************************************************)
EXTENDS Naturals, FiniteSets

CONSTANTS
    Leader,     \* the process that Spawn starts
    Children,   \* what may be forked inside its group
    MaxCalls    \* bound: calls of Terminate

ASSUME SupervisorAssumption == Leader \notin Children /\ MaxCalls \in Nat

VARIABLES
    proc,       \* whether the platform has /proc
    member,     \* member[p]: where process p of the group is in its life
    parent,     \* who reaps the leader: Spawn has it, Spawn waits for it, or init
    recorded,   \* whose start time Spawn has returned
    stranger,   \* who else uses the number of the group
    pc,         \* what Spawn or Terminate does next
    result,     \* what the latest Terminate has returned
    calls,      \* calls of Terminate left
    hit         \* ghost: the groups that were signalled

vars == <<proc, member, parent, recorded, stranger, pc, result, calls, hit>>

Group == {Leader} \cup Children

\* "alone": a process with the number, in the group of somebody else.
Strangers == {"none", "alone", "leads", "orphans"}

Existing == {p \in Group : member[p] \in {"runs", "zombie"}}
Running  == {p \in Group : member[p] = "runs"}

world == <<proc, member, parent, recorded, stranger>>

Goto(phase)  == pc' = phase /\ UNCHANGED <<result, calls, hit>>
Return(what) == pc' = "idle" /\ result' = what /\ UNCHANGED <<calls, hit>>

(***************************************************************************)
(* What plax can ask the kernel                                            *)
(***************************************************************************)

\* Zombies count.
IsAlive == Existing # {} \/ stranger \in {"leads", "orphans"}

StartTime ==
    CASE ~proc                           -> "nobody"
      [] proc /\ Leader \in Existing     -> "ours"
      [] proc /\ stranger \in {"alone", "leads"} -> "stranger"
      [] OTHER                           -> "nobody"

(***************************************************************************)
(* Spawn                                                                   *)
(***************************************************************************)

\* No log directory, no log file, or no shell.
SpawnFails ==
    /\ pc = "new"
    /\ Goto("failed")
    /\ UNCHANGED world

SpawnStart ==
    /\ pc = "new"
    /\ member' = [member EXCEPT ![Leader] = "runs"]
    /\ Goto("started")
    /\ UNCHANGED <<proc, parent, recorded, stranger>>

\* The start time is read before anybody waits for the leader.
SpawnRecord ==
    /\ pc = "started"
    /\ recorded' = StartTime
    /\ parent' = "waits"
    /\ Goto("idle")
    /\ UNCHANGED <<proc, member, stranger>>

\* The plax process that has called Spawn ends.
SpawnerExits ==
    /\ pc = "idle" /\ parent = "waits"
    /\ parent' = "init"
    /\ UNCHANGED <<proc, member, recorded, stranger, pc, result, calls, hit>>

(***************************************************************************)
(* Terminate                                                               *)
(***************************************************************************)

Terminate ==
    /\ pc = "idle" /\ parent # "spawn"
    /\ calls > 0 /\ calls' = calls - 1
    /\ pc' = "identify" /\ result' = "none"
    /\ UNCHANGED <<world, hit>>

\* Mutant: a start time that differs counts as a leader that is gone.
MismatchIgnored ==
    /\ pc = "identify"
    /\ IF recorded # "nobody" /\ StartTime = recorded THEN Goto("sigterm") ELSE Goto("probe")
    /\ UNCHANGED world

\* The first look at the leader.
Identify ==
    /\ pc = "identify"
    /\ CASE recorded = "nobody" \/ StartTime = "nobody" -> Goto("probe")
         [] recorded # "nobody" /\ StartTime = recorded -> Goto("sigterm")
         [] OTHER                                       -> Return("stale")
    /\ UNCHANGED world

\* A leader that is gone, or not known, may have left a group.
Probe ==
    /\ pc = "probe"
    /\ IF IsAlive THEN Goto("sigterm") ELSE Return("ok")
    /\ UNCHANGED world

Addressees == (IF Existing # {} THEN {"ours"} ELSE {}) \cup ({stranger} \cap {"leads", "orphans"})

\* If there is no such group any more, all is well.
SigTerm ==
    /\ pc = "sigterm"
    /\ hit' = hit \cup Addressees
    /\ IF IsAlive THEN pc' = "wait" /\ UNCHANGED result
                  ELSE pc' = "idle" /\ result' = "ok"
    /\ UNCHANGED <<world, calls>>

\* Mutant: without its leader the group counts as gone.
LeaderOnly(here, group, yes) ==
    /\ pc = here
    /\ CASE recorded = "nobody"   -> Goto(group)
         [] recorded # "nobody" /\ StartTime = recorded -> Goto(yes)
         [] OTHER                 -> Return("ok")
    /\ UNCHANGED world

\* First half of aliveAs: by the leader, if there is one to compare.  The
\* second is at phase `group`; on to `yes` if the group is alive and ours.
AliveAs(here, group, yes) ==
    /\ pc = here
    /\ CASE recorded = "nobody" \/ StartTime = "nobody" -> Goto(group)
         [] recorded # "nobody" /\ StartTime = recorded -> Goto(yes)
         [] OTHER                                       -> Return("ok")
    /\ UNCHANGED world

\* Second half of aliveAs: by the group.
AliveAsGroup(group, yes) ==
    /\ pc = group
    /\ IF IsAlive THEN Goto(yes) ELSE Return("ok")
    /\ UNCHANGED world

Poll      == AliveAs("wait", "waitgroup", "wait")
PollGroup == AliveAsGroup("waitgroup", "wait")

TimeOut ==
    /\ pc = "wait"
    /\ Goto("leader")
    /\ UNCHANGED world

leaderDead == recorded # "nobody" /\ StartTime # recorded

AskLeader ==
    /\ pc = "leader"
    /\ IF leaderDead THEN Goto("survivors") ELSE Goto("recheck")
    /\ UNCHANGED world

\* The group without its leader is reported and not killed.
AskSurvivors ==
    /\ pc = "survivors"
    /\ IF IsAlive THEN Return("survivors") ELSE Return("ok")
    /\ UNCHANGED world

Recheck      == AliveAs("recheck", "recheckgroup", "sigkill")
RecheckGroup == AliveAsGroup("recheckgroup", "sigkill")

SigKill ==
    /\ pc = "sigkill"
    /\ hit' = hit \cup Addressees
    /\ member' = [p \in Group |-> IF member[p] = "runs" THEN "zombie" ELSE member[p]]
    /\ stranger' = IF stranger \in {"leads", "orphans"} THEN "none" ELSE stranger
    /\ pc' = "idle" /\ result' = "ok"
    /\ UNCHANGED <<proc, parent, recorded, calls>>

(***************************************************************************)
(* The group and the strangers                                             *)
(***************************************************************************)

Fork(p) ==
    /\ p \in Children /\ member[p] = "none" /\ Running # {}
    /\ member' = [member EXCEPT ![p] = "runs"]
    /\ UNCHANGED <<proc, parent, recorded, stranger, pc, result, calls, hit>>

Exit(p) ==
    /\ member[p] = "runs"
    /\ member' = [member EXCEPT ![p] = "zombie"]
    /\ UNCHANGED <<proc, parent, recorded, stranger, pc, result, calls, hit>>

\* Mutant: Spawn waits for the leader before it has read the start time.
WaitsFirst(p) == TRUE

\* Mutant: Spawn does not wait.
NeverWaits(p) == p = Leader => parent = "init"

\* The leader is reaped by the goroutine that waits for it or by init; a
\* child by its parent in the group or by init.
Awaited(p) == p = Leader => parent # "spawn"

Reap(p) ==
    /\ member[p] = "zombie" /\ Awaited(p)
    /\ member' = [member EXCEPT ![p] = "gone"]
    /\ UNCHANGED <<proc, parent, recorded, stranger, pc, result, calls, hit>>

\* The number is free once no process of the group exists.  It takes the
\* kernel a whole round of its numbers to come back to it: not in the few
\* system calls between a look at the group and the signal that follows.
Hasty == pc \in {"probe", "sigterm", "recheckgroup", "sigkill"}

Reuse ==
    /\ member[Leader] = "gone" /\ Existing = {}
    /\ stranger = "none" /\ ~Hasty
    /\ stranger' = "alone"
    /\ UNCHANGED <<proc, member, parent, recorded, pc, result, calls, hit>>

StrangerMoves ==
    /\ \/ stranger = "alone"   /\ stranger' \in {"leads", "none"}
       \/ stranger = "leads"   /\ stranger' \in {"orphans", "none"}
       \/ stranger = "orphans" /\ stranger' = "none"
    /\ UNCHANGED <<proc, member, parent, recorded, pc, result, calls, hit>>

(***************************************************************************)
(* Specification                                                           *)
(***************************************************************************)

Init ==
    /\ proc \in BOOLEAN
    /\ member = [p \in Group |-> "none"]
    /\ parent = "spawn" /\ recorded = "nobody" /\ stranger = "none"
    /\ pc = "new" /\ result = "none" /\ calls = MaxCalls /\ hit = {}

Spawning == SpawnFails \/ SpawnStart \/ SpawnRecord

Terminating ==
    \/ Identify \/ Probe \/ SigTerm \/ Poll \/ PollGroup \/ TimeOut
    \/ AskLeader \/ AskSurvivors \/ Recheck \/ RecheckGroup \/ SigKill

World == \/ SpawnerExits \/ Reuse \/ StrangerMoves
         \/ \E p \in Group : Fork(p) \/ Exit(p) \/ Reap(p)

Next == Spawning \/ Terminate \/ Terminating \/ World

Spec == Init /\ [][Next]_vars

\* Spawn goes on, and the goroutine or init reaps whom it waits for.  Members
\* that run may neglect their children; nothing is assumed of them, of the
\* strangers, or of the end of the spawning plax.
FairSpec == Spec /\ WF_vars(SpawnRecord) /\ \A p \in Group : WF_vars(Running = {} /\ Reap(p))

=============================================================================
