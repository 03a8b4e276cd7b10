------------------------------- MODULE BaseProps -------------------------------
(***************************************************************************)
(* What the base has to be for the commands that clone it.                 *)
(***************************************************************************)
EXTENDS BaseManager

\* Types; in particular a swap gives up after its last attempt, not later.
TypeOK ==
    /\ db \in [DbNames -> Database \cup {NoDb}]
    /\ conns \subseteq (Clients \cup {Stray}) \X {"pool", "cmd"} \X DbNames
    /\ pc \in [Clients -> Phases]
    /\ \A c \in Clients :
          /\ job[c].op \in Commands \cup {"none"}
          /\ job[c].tgt \in {"base", "next"} /\ job[c].of \in {"base", "next"}
          /\ job[c].ret \in {"none", "info", "ready", "old"}
          /\ job[c].seen \in {"absent", "open", "locked"}
          /\ job[c].ver \in Nat /\ job[c].tries \in 0 .. Tries
    /\ begun \subseteq Commands
    /\ serial \in Nat /\ starts \in 0 .. MaxStarts
    /\ faults \in 0 .. MaxFaults /\ crashes \in 0 .. MaxCrashes

\* Nobody but refreshes has changed the base.
RefreshOnly == begun \subseteq {"refresh", "status", "up"}

\* Nothing has failed and nobody was killed.
Smooth == faults = MaxFaults /\ crashes = MaxCrashes

\* Completely migrated, stamped, and seeded.
Whole(d) ==
    Exists(d) /\ db[d].schema = "full" /\ db[d].rows = "full" /\ db[d].ver # 0

\* As long as only refreshes change it, there is a whole base to clone or a
\* whole and locked one waiting to be renamed: a refresh that fails, or is
\* killed, or has to wait, never costs the data ("renames it into place when
\* it finishes", docs/design.md:260; swapBase, RefreshBase).
DataSurvives ==
    RefreshOnly => Whole("base") \/ Whole("next")

\* As long as only refreshes change the base, a plax up gets a copy of a whole
\* one or none at all: "Creating an instance never waits on a refresh and
\* never sees a partial base" (docs/design.md:264-265).
NeverPartial ==
    RefreshOnly => \A i \in Insts : Exists(i) => Whole(i)

\* The same where nothing fails, nobody is killed and one person refreshes.
SmoothClone == Smooth => NeverPartial

\* Once every command has ended the base refuses connections again, however
\* the windows of its readers, of a seed and of a swap overlapped, unless a
\* statement failed or a command was killed (readProvenance: "the database's
\* lock state is restored before returning"; relock).
LockedAtRest ==
    Smooth /\ (\A c \in Clients : pc[c] = "idle") /\ Exists("base") => Locked("base")

\* A deferred refresh has left both the old base and a base_next that a later
\* refresh accepts (ErrDeferredSwap: "The staged base_next is left in place;
\* a later refresh resumes the swap").
DeferredIsStaged ==
    \A c \in Clients : pc[c] = "deferred" => Exists("base") /\ Whole("next")

\* "data - whether the instance was built from the current base version"
\* (docs/manual.md:646): an instance of a base that refreshes have replaced
\* since is never called current, so versions, which each refresh reads from
\* one database and writes to another, do not repeat.  Where the base was
\* reset, or created anew after a kill, they do.
DriftIsSeen ==
    RefreshOnly /\ Smooth =>
       \A i \in Insts : Exists(i) /\ DataDrift(i) = "ok" => db[i].id = db["base"].id

=============================================================================
