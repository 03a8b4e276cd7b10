---------------------------- MODULE SupervisorProofs ----------------------------
(***************************************************************************)
(* TypeOK, GoneWhenReported and LedStrangerSpared for any set of children  *)
(* and any number of calls.                                                *)
(*                                                                         *)
(* The last two are not inductive: that Terminate may trust what it saw a  *)
(* moment ago rests on the kernel's rule (NumberTaken), and that a signal  *)
(* spares strangers on what the look before it has excluded (LookedAt).    *)
(***************************************************************************)
EXTENDS SupervisorProps, TLAPS

\* What holds before Spawn returns: the leader is still there to be asked.
BeforeSpawn ==
    /\ parent = "spawn" <=> pc \in {"new", "started", "failed"}
    /\ parent = "spawn" => result = "none"
    /\ pc \in {"new", "failed"} => member[Leader] = "none" /\ Existing = {}
    /\ pc = "started" => Leader \in Existing

\* The number of the group is not given away while somebody uses it.
NumberTaken == stranger # "none" => member[Leader] = "gone" /\ Existing = {}

\* From the last look at the group to the signal, no stranger has come.
LookedAt == proc /\ Hasty => stranger \notin {"alone", "leads"}

IInv ==
    /\ TypeOK /\ BeforeSpawn /\ NumberTaken /\ LookedAt
    /\ GoneWhenReported /\ LedStrangerSpared

-----------------------------------------------------------------------------

LEMMA InitIInv == Init => IInv
BY SupervisorAssumption DEF Init, IInv, TypeOK, BeforeSpawn, NumberTaken, LookedAt,
    GoneWhenReported, LedStrangerSpared, Group, Existing, Running, Strangers, Hasty

LEMMA SpawningKeepsIInv == IInv /\ Spawning => IInv'
<1> SUFFICES ASSUME IInv, Spawning PROVE IInv'
  OBVIOUS
<1> USE DEF IInv, TypeOK, BeforeSpawn, NumberTaken, LookedAt, GoneWhenReported,
    LedStrangerSpared, Existing, Running, Hasty, Goto, world
<1>1. CASE SpawnFails
  BY <1>1 DEF SpawnFails
<1>2. CASE SpawnStart
  BY <1>2 DEF SpawnStart, Group
<1>3. CASE SpawnRecord
  BY <1>3 DEF SpawnRecord, StartTime, Strangers
<1> QED
  BY <1>1, <1>2, <1>3 DEF Spawning

LEMMA TerminateKeepsIInv == IInv /\ Terminate => IInv'
BY SupervisorAssumption DEF IInv, TypeOK, BeforeSpawn, NumberTaken, LookedAt, GoneWhenReported,
    LedStrangerSpared, Existing, Running, Hasty, Terminate, world

-----------------------------------------------------------------------------

(***************************************************************************)
(* The steps of Terminate that only look                                   *)
(***************************************************************************)

\* What IsAlive and StartTime say of our group.
LEMMA WhatLooksSay ==
    ASSUME IInv
    PROVE  /\ ~IsAlive => Existing = {}
           /\ StartTime = "stranger" => Existing = {}
           /\ proc /\ StartTime = "nobody" => stranger \notin {"alone", "leads"}
           /\ StartTime = "ours" => stranger = "none"
           /\ StartTime \in {"nobody", "ours", "stranger"}
BY DEF IInv, NumberTaken, IsAlive, StartTime, Existing

\* A step to another phase keeps IInv if the look before a signal has been
\* taken; a return does if the group is empty or nothing is said of it.
LEMMA LookKeepsIInv ==
    ASSUME IInv, UNCHANGED world, parent # "spawn",
           NEW phase, phase \in {"probe", "sigterm", "wait", "waitgroup", "leader",
                                 "survivors", "recheck", "recheckgroup", "sigkill"},
           NEW what, what \in {"ok", "stale", "survivors"},
           \/ /\ Goto(phase)
              /\ proc /\ phase \in {"probe", "sigterm", "recheckgroup", "sigkill"} =>
                    stranger \notin {"alone", "leads"}
           \/ /\ Return(what)
              /\ what = "survivors" \/ Existing = {}
    PROVE  IInv'
BY ZenonT(60) DEF IInv, TypeOK, BeforeSpawn, NumberTaken, LookedAt, GoneWhenReported,
    LedStrangerSpared, Existing, Running, Hasty, Goto, Return, world

Looking == \/ Identify \/ Probe \/ Poll \/ PollGroup \/ TimeOut
           \/ AskLeader \/ AskSurvivors \/ Recheck \/ RecheckGroup

LEMMA LookingKeepsIInv == IInv /\ Looking => IInv'
<1> SUFFICES ASSUME IInv, Looking PROVE IInv'
  OBVIOUS
<1>1. parent # "spawn" /\ UNCHANGED world
  BY DEF Looking, Identify, Probe, Poll, PollGroup, TimeOut, AskLeader, AskSurvivors,
      Recheck, RecheckGroup, AliveAs, AliveAsGroup, IInv, BeforeSpawn
<1>2. recorded = IF proc THEN "ours" ELSE "nobody"
  BY <1>1 DEF IInv, TypeOK
<1>3. CASE Identify
  BY <1>1, <1>2, <1>3, WhatLooksSay, LookKeepsIInv DEF Identify
<1>4. CASE Probe
  BY <1>1, <1>4, WhatLooksSay, LookKeepsIInv DEF Probe, IInv, LookedAt, Hasty
<1>5. CASE Poll
  BY <1>1, <1>2, <1>5, WhatLooksSay, LookKeepsIInv DEF Poll, AliveAs
<1>6. CASE PollGroup
  BY <1>1, <1>6, WhatLooksSay, LookKeepsIInv DEF PollGroup, AliveAsGroup
<1>7. CASE TimeOut
  BY <1>1, <1>7, LookKeepsIInv DEF TimeOut
<1>8. CASE AskLeader
  BY <1>1, <1>8, LookKeepsIInv DEF AskLeader
<1>9. CASE AskSurvivors
  BY <1>1, <1>9, WhatLooksSay, LookKeepsIInv DEF AskSurvivors
<1>10. CASE Recheck
  BY <1>1, <1>2, <1>10, WhatLooksSay, LookKeepsIInv DEF Recheck, AliveAs
<1>11. CASE RecheckGroup
  BY <1>1, <1>11, WhatLooksSay, LookKeepsIInv DEF RecheckGroup, AliveAsGroup, IInv, LookedAt, Hasty
<1> QED
  BY <1>3, <1>4, <1>5, <1>6, <1>7, <1>8, <1>9, <1>10, <1>11 DEF Looking

-----------------------------------------------------------------------------

(***************************************************************************)
(* The signals                                                             *)
(***************************************************************************)

LEMMA SignalsSpare ==
    ASSUME IInv, Hasty
    PROVE  /\ Addressees \subseteq {"ours", "leads", "orphans"}
           /\ proc => "leads" \notin Addressees
BY DEF Addressees, IInv, LookedAt

LEMMA SigTermKeepsIInv == IInv /\ SigTerm => IInv'
<1> SUFFICES ASSUME IInv, SigTerm PROVE IInv'
  OBVIOUS
<1>1. /\ hit' \subseteq {"ours", "leads", "orphans"}
      /\ proc => "leads" \notin hit'
  BY SignalsSpare DEF SigTerm, IInv, TypeOK, LedStrangerSpared, Hasty
<1>2. ~IsAlive => Running = {}
  BY WhatLooksSay DEF Existing, Running
<1> QED
  BY <1>1, <1>2 DEF SigTerm, IInv, TypeOK, BeforeSpawn, NumberTaken, LookedAt,
      GoneWhenReported, LedStrangerSpared, Existing, Running, Hasty, world

LEMMA SigKillKeepsIInv == IInv /\ SigKill => IInv'
<1> SUFFICES ASSUME IInv, SigKill PROVE IInv'
  OBVIOUS
<1>1. /\ hit' \subseteq {"ours", "leads", "orphans"}
      /\ proc => "leads" \notin hit'
  BY SignalsSpare DEF SigKill, IInv, TypeOK, LedStrangerSpared, Hasty
<1>2. /\ member' \in [Group -> {"none", "runs", "zombie", "gone"}]
      /\ Running' = {}
      /\ Existing' = Existing
      /\ member[Leader] = "gone" => member'[Leader] = "gone"
  BY DEF SigKill, IInv, TypeOK, Existing, Running, Group
<1> QED
  BY <1>1, <1>2 DEF SigKill, IInv, TypeOK, BeforeSpawn, NumberTaken, LookedAt,
      GoneWhenReported, LedStrangerSpared, Hasty, Strangers

-----------------------------------------------------------------------------

(***************************************************************************)
(* The group, the strangers, and all steps together                        *)
(***************************************************************************)

LEMMA WorldKeepsIInv == IInv /\ World => IInv'
<1> SUFFICES ASSUME IInv, World PROVE IInv'
  OBVIOUS
<1> USE DEF IInv, TypeOK, BeforeSpawn, NumberTaken, LookedAt, GoneWhenReported,
    LedStrangerSpared, Existing, Running, Hasty, Strangers
<1>1. CASE SpawnerExits
  BY <1>1 DEF SpawnerExits
<1>2. CASE Reuse
  BY <1>2 DEF Reuse
<1>3. CASE StrangerMoves
  BY <1>3 DEF StrangerMoves
<1>4. ASSUME NEW p \in Group, Fork(p) PROVE IInv'
  BY <1>4, SupervisorAssumption DEF Fork, Group
<1>5. ASSUME NEW p \in Group, Exit(p) PROVE IInv'
  BY <1>5 DEF Exit, Group
<1>6. ASSUME NEW p \in Group, Reap(p) PROVE IInv'
  BY <1>6 DEF Reap, Awaited, Group
<1> QED
  BY <1>1, <1>2, <1>3, <1>4, <1>5, <1>6 DEF World

LEMMA NextIInv == IInv /\ [Next]_vars => IInv'
<1> SUFFICES ASSUME IInv, [Next]_vars PROVE IInv'
  OBVIOUS
<1>1. CASE UNCHANGED vars
  BY <1>1 DEF vars, IInv, TypeOK, BeforeSpawn, NumberTaken, LookedAt, GoneWhenReported,
      LedStrangerSpared, Existing, Running, Hasty
<1>2. CASE Terminating
  BY <1>2, LookingKeepsIInv, SigTermKeepsIInv, SigKillKeepsIInv DEF Terminating, Looking
<1> QED
  BY <1>1, <1>2, SpawningKeepsIInv, TerminateKeepsIInv, WorldKeepsIInv DEF Next

LEMMA IInvHolds == Spec => []IInv
BY InitIInv, NextIInv, PTL DEF Spec

\* The types of Supervisor, and: the start time that Spawn returns is the
\* leader's, however early the leader exits (Spawn of supervisor.go).
THEOREM SupervisorTypes == Spec => []TypeOK
<1>1. IInv => TypeOK
  BY DEF IInv
<1> QED
  BY <1>1, IInvHolds, PTL

\* Whatever the number of children and of calls, a Terminate that reports
\* success or a stale process leaves nobody of the group running (Terminate and
\* aliveAs of supervisor.go).
THEOREM GoneWhenReportedInvariant == Spec => []GoneWhenReported
<1>1. IInv => GoneWhenReported
  BY DEF IInv
<1> QED
  BY <1>1, IInvHolds, PTL

\* The start time protects every stranger that leads the group, at the SIGTERM
\* and at the SIGKILL (Terminate of supervisor.go).
THEOREM LedStrangerSparedInvariant == Spec => []LedStrangerSpared
<1>1. IInv => LedStrangerSpared
  BY DEF IInv
<1> QED
  BY <1>1, IInvHolds, PTL

=============================================================================
