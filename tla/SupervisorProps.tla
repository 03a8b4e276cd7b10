---------------------------- MODULE SupervisorProps ----------------------------
(***************************************************************************)
(* What Spawn and Terminate promise.                                       *)
(***************************************************************************)
EXTENDS Supervisor

\* Types; and with /proc the start time that Spawn returns is the leader's,
\* even if the leader has exited by the time it is read.
TypeOK ==
    /\ proc \in BOOLEAN
    /\ member \in [Group -> {"none", "runs", "zombie", "gone"}]
    /\ parent \in {"spawn", "waits", "init"}
    /\ recorded = IF proc /\ parent # "spawn" THEN "ours" ELSE "nobody"
    /\ stranger \in Strangers
    /\ pc \in {"new", "failed", "started", "idle", "identify", "probe", "sigterm", "wait",
               "waitgroup", "leader", "survivors", "recheck", "recheckgroup", "sigkill"}
    /\ result \in {"none", "ok", "stale", "survivors"}
    /\ calls \in 0 .. MaxCalls
    /\ hit \subseteq {"ours", "leads", "orphans"}

\* A Terminate that returns no error, or the ErrStaleProcess that "callers
\* must treat as already gone" (supervisor.go:18-19), leaves no process of the
\* group running, whoever exits or forks between its checks and with or without
\* /proc: down drops its record of the process on the strength of it.
GoneWhenReported == result \in {"ok", "stale"} => Running = {}

\* With /proc no signal reaches the group of a stranger that leads it: neither
\* the SIGTERM nor, after the wait, the SIGKILL (supervisor.go:160-161).
LedStrangerSpared == proc => "leads" \notin hit

\* "a reused PGID is never killed" (supervisor.go:108), whoever of the
\* stranger's group is left.  No run checks this: it is false where the
\* stranger that led the group is gone and its children are not, for then
\* there is no start time to compare.
StrangerSpared == proc => hit \subseteq {"ours"}

\* A group of which nobody runs any more ceases to exist, so that IsAlive comes
\* to tell the settle check of up and resume, even while the plax process that
\* spawned it stays.
DeadGroupVanishes == (pc # "new" /\ Running = {}) ~> Existing = {}

=============================================================================
