------------------------------ MODULE BaseManager ------------------------------
(***************************************************************************)
(* The base database and the commands that work on it, pkg/derive/postgres *)
(* and plax base create | seed | reset | refresh | status, together with   *)
(* the part of plax up that inspects and clones the base.                  *)
(*                                                                         *)
(* The base commands take no lock: any number of them, and a plax up, work *)
(* on the same server at once.  What serialises them is Postgres: one      *)
(* statement is one action here, and the rules of its DDL are the guards.  *)
(* A database that refuses connections is "locked" in the code's words.    *)
(***************************************************************************)
EXTENDS Naturals, FiniteSets

CONSTANTS
    Clients,    \* plax processes
    Insts,      \* instance databases a plax up may clone
    Runs,       \* the commands each client may run, as <<client, command>>
    NoDb,       \* entry of a database that does not exist
    Stray,      \* a session from outside plax
    Tries,      \* attempts of the swap to drop the old base (7 in the code)
    MaxStarts,  \* bound: commands started in a behaviour
    MaxFaults,  \* bound: failing statements and commands, stray sessions
    MaxCrashes  \* bound: commands killed in a behaviour

VARIABLES
    db,         \* db[d]: the database of that name
    conns,      \* open connections, as <<who, "pool" or "cmd", database>>
    pc,         \* pc[c]: what process c does next
    job,        \* job[c]: the command and what it has read so far
    serial,     \* ghost: databases created so far
    begun,      \* ghost: commands started so far
    starts, faults, crashes     \* what is left of the bounds

vars == <<db, conns, pc, job, serial, begun, starts, faults, crashes>>

Commands == {"create", "seed", "reset", "refresh", "status", "up"}
DbNames  == {"base", "next"} \cup Insts

\* What a migrate or seed command has put into a database.
Filled == {"none", "part", "full"}

\* id tells a database from an earlier one of its name; ver is the version in
\* the provenance row, 0 without one.
Database == [id : Nat, open : BOOLEAN, schema : Filled, rows : Filled, ver : Nat]

ASSUME BaseManagerAssumption ==
    /\ Runs \subseteq Clients \X Commands
    /\ Stray \notin Clients
    /\ Insts \cap {"base", "next"} = {}
    /\ NoDb \notin Database
    /\ Tries \in Nat \ {0}
    /\ MaxStarts \in Nat /\ MaxFaults \in Nat /\ MaxCrashes \in Nat

NewDb(id) == [id |-> id, open |-> TRUE, schema |-> "none", rows |-> "none", ver |-> 0]

\* op and inst: the command line.  tgt: the database being built.  of, ret and
\* locked: the database whose provenance is read, why, and its lock as seen;
\* read and ver: whether that worked and the version.  seen: the base's state
\* as reported.  id: the database a running migrate or seed command started
\* on.  tries: failed attempts to drop the old base.
NoJob == [op |-> "none", inst |-> NoDb, tgt |-> "base", of |-> "base", ret |-> "none",
          locked |-> FALSE, read |-> FALSE, ver |-> 0, seen |-> "absent", id |-> 0,
          tries |-> 0]

FirstPhase == [create |-> "create", seed |-> "seed_check", reset |-> "reset_check",
               refresh |-> "refresh", status |-> "info", up |-> "info"]

\* How a command ends: done, refused for an unlocked base, deferred, failed.
Ends == {"ok", "refused", "deferred", "err"}

Phases ==
    Ends \cup
    {"idle", "info", "info_done", "prov", "prov_unlock", "prov_connect", "prov_close",
     "prov_relock", "create", "createdb", "migrate", "migrating", "old", "stamp", "lock",
     "close", "cleanup", "drop", "seed_check", "seed_unlock", "seed", "seeding",
     "seed_stamp", "assert", "relock", "reset_check", "reset_term", "reset_drop",
     "refresh", "refresh_next", "ready", "swap_term", "swap_drop", "swap_again",
     "swap_rename", "clone_check", "clone", "clone_stamp", "clone_drop"}

(***************************************************************************)
(* Postgres                                                                *)
(***************************************************************************)

Exists(d)   == db[d] # NoDb
Locked(d)   == Exists(d) /\ ~db[d].open
UsersOf(d)  == {x \in conns : x[3] = d}
Own(c, k, d) == <<c, k, d>> \in conns

\* A session already there goes on; a new one needs the flag.
Reaches(c, k, d) == Exists(d) /\ (db[d].open \/ Own(c, k, d))

\* DROP DATABASE, and RENAME, refuse a database somebody is connected to.
Droppable(d) == Exists(d) /\ UsersOf(d) = {}

WithOpen(d, open) == [db EXCEPT ![d].open = open]
Without(d)        == [db EXCEPT ![d] = NoDb]
Terminate(d)      == conns' = conns \ UsersOf(d)
Disconnects(c, k, d) == conns' = conns \ {<<c, k, d>>}

Goto(c, phase) == pc' = [pc EXCEPT ![c] = phase]
Works == UNCHANGED faults
Fails == faults > 0 /\ faults' = faults - 1

\* A statement on a database: it works if it can, and may fail anyway.
Refused(can) == IF can THEN Fails ELSE Works

bounds == <<serial, begun, starts, crashes>>

\* A phase that is one statement on the catalogue, which turns db into new.
Exec(c, phase, can, new, next, failed) ==
    /\ pc[c] = phase
    /\ \/ can /\ db' = new /\ Works /\ Goto(c, next)
       \/ Refused(can) /\ Goto(c, failed) /\ UNCHANGED db
    /\ UNCHANGED <<conns, job, bounds>>

\* A phase that is one query of the catalogue, after which next is the way on.
Query(c, phase, next) ==
    /\ pc[c] = phase
    /\ \/ Works /\ Goto(c, next)
       \/ Fails /\ Goto(c, "err")
    /\ UNCHANGED <<db, conns, bounds>>

(***************************************************************************)
(* Begin and end of a command                                              *)
(***************************************************************************)

Start(c) ==
    /\ pc[c] = "idle"
    /\ starts > 0 /\ starts' = starts - 1
    /\ \E op \in Commands, i \in Insts :
          /\ <<c, op>> \in Runs
          /\ job' = [job EXCEPT ![c] = [NoJob EXCEPT !.op = op, !.inst = i]]
          /\ Goto(c, FirstPhase[op])
          /\ begun' = begun \cup {op}
    /\ UNCHANGED <<db, conns, serial, faults, crashes>>

End(c) ==
    /\ pc[c] \in Ends
    /\ Goto(c, "idle")
    /\ job' = [job EXCEPT ![c] = NoJob]
    /\ conns' = {x \in conns : x[1] # c}
    /\ UNCHANGED <<db, faults, bounds>>

(***************************************************************************)
(* readProvenance: a locked database is opened for the time of the read.   *)
(***************************************************************************)

Reads(c, d, ret) ==
    /\ job' = [job EXCEPT ![c] = [@ EXCEPT !.of = d, !.ret = ret, !.read = FALSE, !.ver = 0]]
    /\ Goto(c, "prov")

\* Where the caller goes on: BaseStatus drops an error, baseNextReady needs a
\* stamped database, a refresh without the old version gives up its staging.
Back(c, read, ver) ==
    CASE job[c].ret = "info"  -> "info_done"
      [] job[c].ret = "ready" -> IF read /\ ver # 0 THEN "swap_term" ELSE "err"
      [] job[c].ret = "old"   -> IF read THEN "stamp" ELSE "cleanup"

ProvCheck(c) ==
    /\ pc[c] = "prov"
    /\ \/ /\ job' = [job EXCEPT ![c].locked = Locked(job[c].of)]
          /\ Goto(c, IF Locked(job[c].of) THEN "prov_unlock" ELSE "prov_connect")
          /\ Works
       \/ Fails /\ Goto(c, Back(c, FALSE, 0)) /\ UNCHANGED job
    /\ UNCHANGED <<db, conns, bounds>>

ProvUnlock(c) ==
    LET d == job[c].of
    IN Exec(c, "prov_unlock", Exists(d), WithOpen(d, TRUE), "prov_connect",
            Back(c, FALSE, 0))

\* Mutant: the lock is not put back.
AfterReadOpen(c, read, ver) == Goto(c, Back(c, read, ver))

\* After the read, however it went, the lock is put back if it was there.
AfterRead(c, read, ver) ==
    Goto(c, IF job[c].locked THEN "prov_relock" ELSE Back(c, read, ver))

ProvConnect(c) ==
    /\ pc[c] = "prov_connect"
    /\ LET d == job[c].of IN
       \/ /\ Reaches(c, "pool", d) /\ conns' = conns \cup {<<c, "pool", d>>}
          /\ Works /\ Goto(c, "prov_close")
       \/ Refused(Reaches(c, "pool", d)) /\ AfterRead(c, FALSE, 0) /\ UNCHANGED conns
    /\ UNCHANGED <<db, job, bounds>>

\* The row is read and the pool closed, unless the session was terminated.
ProvClose(c) ==
    /\ pc[c] = "prov_close"
    /\ LET d == job[c].of
           alive == Own(c, "pool", d)
       IN /\ \/ /\ alive /\ Works
                /\ job' = [job EXCEPT ![c] = [@ EXCEPT !.read = TRUE, !.ver = db[d].ver]]
                /\ AfterRead(c, TRUE, db[d].ver)
             \/ Refused(alive) /\ AfterRead(c, FALSE, 0) /\ UNCHANGED job
          /\ Disconnects(c, "pool", d)
    /\ UNCHANGED <<db, bounds>>

ProvRelock(c) ==
    LET d == job[c].of
    IN Exec(c, "prov_relock", Exists(d), WithOpen(d, FALSE),
            Back(c, job[c].read, job[c].ver), Back(c, FALSE, 0))

ReadProvenance(c) ==
    \/ ProvCheck(c) \/ ProvUnlock(c) \/ ProvConnect(c) \/ ProvClose(c) \/ ProvRelock(c)

(***************************************************************************)
(* BaseStatus, as plax base status and plax up use it                      *)
(***************************************************************************)

Info(c) ==
    /\ pc[c] = "info"
    /\ LET seen == IF ~Exists("base") THEN "absent"
                   ELSE IF Locked("base") THEN "locked" ELSE "open"
       IN
       \/ /\ job' = [job EXCEPT ![c] = [@ EXCEPT !.seen = seen, !.of = "base", !.ret = "info"]]
          /\ Goto(c, IF Exists("base") THEN "prov" ELSE "info_done")
          /\ Works
       \/ Fails /\ Goto(c, "err") /\ UNCHANGED job
    /\ UNCHANGED <<db, conns, bounds>>

\* What was seen before the read decides: plax up goes on with a locked base
\* only.  (base_next is looked at here too, for display.)
InfoDone(c) ==
    /\ Query(c, "info_done", IF job[c].op = "status" THEN "ok"
                             ELSE IF job[c].seen = "locked" THEN "clone_check"
                             ELSE IF job[c].seen = "open" THEN "refused" ELSE "err")
    /\ UNCHANGED job

(***************************************************************************)
(* CloneBase                                                               *)
(***************************************************************************)

\* The base must be locked and the target must not exist.
CloneCheck(c) ==
    /\ Query(c, "clone_check",
             IF ~Exists("base") \/ (Locked("base") /\ Exists(job[c].inst)) THEN "err"
             ELSE IF Locked("base") THEN "clone" ELSE "refused")
    /\ UNCHANGED job

\* CREATE DATABASE ... TEMPLATE: refused (55006) while anybody is connected
\* to the template, whose flag it does not look at; the copy accepts
\* connections.
Clone(c) ==
    Exec(c, "clone", Droppable("base") /\ ~Exists(job[c].inst),
         [db EXCEPT ![job[c].inst] = [db["base"] EXCEPT !.open = TRUE]],
         "clone_stamp", "err")

\* A provenance row gets the clone's name, a missing one is not an error.
CloneStamp(c) == Exec(c, "clone_stamp", TRUE, db, "ok", "clone_drop")

\* DropInstanceDB of a clone that could not be finished; errors are ignored.
CloneDrop(c) == Exec(c, "clone_drop", TRUE, Without(job[c].inst), "err", "err")

Up(c) == Info(c) \/ InfoDone(c) \/ CloneCheck(c) \/ Clone(c) \/ CloneStamp(c) \/ CloneDrop(c)

(***************************************************************************)
(* plax status: was the instance built from the base as it is now?         *)
(***************************************************************************)

\* Versions are all that is compared.
DataDrift(i) ==
    IF db[i].ver = 0 \/ ~Exists("base") THEN "unknown"
    ELSE IF db[i].ver = db["base"].ver THEN "ok" ELSE "drift"

(***************************************************************************)
(* A migrate or seed command runs against the target database.  It may     *)
(* connect more than once; between two connections its work is half done.  *)
(***************************************************************************)

Begins(c, phase, kind, next, failed) ==
    /\ pc[c] = phase
    /\ LET d == job[c].tgt IN
       \/ /\ Reaches(c, "cmd", d) /\ conns' = conns \cup {<<c, "cmd", d>>}
          /\ db' = [db EXCEPT ![d][kind] = "part"]
          /\ job' = [job EXCEPT ![c].id = db[d].id]
          /\ Works /\ Goto(c, next)
       \/ Refused(Reaches(c, "cmd", d)) /\ Goto(c, failed) /\ UNCHANGED <<db, conns, job>>
    /\ UNCHANGED bounds

\* A command that ends on another database than it began on leaves it half
\* filled.
Finishes(c, phase, kind, next, failed) ==
    /\ pc[c] = phase
    /\ LET d == job[c].tgt IN
       \/ /\ Own(c, "cmd", d) /\ Disconnects(c, "cmd", d)
          /\ Works /\ UNCHANGED <<db, pc>>
       \/ /\ Reaches(c, "cmd", d)
          /\ db' = [db EXCEPT ![d][kind] = IF db[d].id = job[c].id THEN "full" ELSE "part"]
          /\ Disconnects(c, "cmd", d) /\ Works /\ Goto(c, next)
       \/ /\ Refused(Reaches(c, "cmd", d))
          /\ Disconnects(c, "cmd", d) /\ Goto(c, failed) /\ UNCHANGED db
    /\ UNCHANGED <<job, bounds>>

Staging(c) == job[c].tgt = "next"

AfterSeed(c)  == IF job[c].op = "seed" THEN "seed_stamp" ELSE "assert"
FailedSeed(c) == IF job[c].op = "seed" THEN "relock" ELSE "cleanup"

Migrate(c)   == Begins(c, "migrate", "schema", "migrating", "cleanup")
SeedBegin(c) == Begins(c, "seed", "rows", "seeding", FailedSeed(c))
SeedEnd(c)   == Finishes(c, "seeding", "rows", AfterSeed(c), FailedSeed(c))

Migrated(c) ==
    Finishes(c, "migrating", "schema", IF Staging(c) THEN "old" ELSE "stamp", "cleanup")

\* A refresh reads the version of the base it is about to replace.
ReadOld(c) ==
    /\ pc[c] = "old"
    /\ Reads(c, "base", "old")
    /\ UNCHANGED <<db, conns, faults, bounds>>

(***************************************************************************)
(* CreateBase, and the staging of a refresh, which goes through the same   *)
(* steps on base_next                                                      *)
(***************************************************************************)

\* A base that exists is fine if it is locked.
Create(c) ==
    /\ Query(c, "create", IF ~Exists("base") THEN "createdb"
                          ELSE IF Locked("base") THEN "ok" ELSE "err")
    /\ job' = [job EXCEPT ![c].tgt = "base"]

CreateDb(c) ==
    /\ pc[c] = "createdb"
    /\ LET d == job[c].tgt IN
       \/ /\ ~Exists(d) /\ db' = [db EXCEPT ![d] = NewDb(serial + 1)]
          /\ serial' = serial + 1
          /\ Works /\ Goto(c, "migrate")
       \/ Refused(~Exists(d)) /\ Goto(c, "err") /\ UNCHANGED <<db, serial>>
    /\ UNCHANGED <<conns, job, begun, starts, crashes>>

\* Mutant: a refresh stages the schema only.
StampUnseeded(c) ==
    /\ pc[c] = "stamp"
    /\ LET d == job[c].tgt IN
       \/ /\ Reaches(c, "pool", d)
          /\ db' = [db EXCEPT ![d].ver = IF Staging(c) THEN job[c].ver + 1 ELSE 1]
          /\ UNCHANGED conns
          /\ Works /\ Goto(c, "lock")
       \/ Refused(Reaches(c, "pool", d)) /\ Goto(c, "cleanup") /\ UNCHANGED <<db, conns>>
    /\ UNCHANGED <<job, bounds>>

\* Mutant: a refresh stamps the version of the base it replaces.
StampOldVersion(c) ==
    /\ pc[c] = "stamp"
    /\ LET d == job[c].tgt IN
       \/ /\ Reaches(c, "pool", d)
          /\ db' = [db EXCEPT ![d].ver = IF Staging(c) THEN job[c].ver ELSE 1]
          /\ conns' = IF Staging(c) THEN conns \cup {<<c, "pool", d>>} ELSE conns
          /\ Works /\ Goto(c, IF Staging(c) THEN "seed" ELSE "lock")
       \/ Refused(Reaches(c, "pool", d)) /\ Goto(c, "cleanup") /\ UNCHANGED <<db, conns>>
    /\ UNCHANGED <<job, bounds>>

\* Version 1, or the old base's plus one.  A refresh keeps its pool.
Stamp(c) ==
    /\ pc[c] = "stamp"
    /\ LET d == job[c].tgt IN
       \/ /\ Reaches(c, "pool", d)
          /\ db' = [db EXCEPT ![d].ver = IF Staging(c) THEN job[c].ver + 1 ELSE 1]
          /\ conns' = IF Staging(c) THEN conns \cup {<<c, "pool", d>>} ELSE conns
          /\ Works /\ Goto(c, IF Staging(c) THEN "seed" ELSE "lock")
       \/ Refused(Reaches(c, "pool", d)) /\ Goto(c, "cleanup") /\ UNCHANGED <<db, conns>>
    /\ UNCHANGED <<job, bounds>>

\* assertSeedNonEmpty.
AssertSeeded(c) == Exec(c, "assert", Reaches(c, "pool", job[c].tgt), db, "lock", "cleanup")

Lock(c) ==
    LET d == job[c].tgt
    IN Exec(c, "lock", Exists(d), WithOpen(d, FALSE),
            IF Staging(c) THEN "close" ELSE "ok", "cleanup")

\* The pool is closed before the swap, which could not rename otherwise.
Close(c) ==
    /\ pc[c] = "close"
    /\ Disconnects(c, "pool", job[c].tgt)
    /\ Goto(c, "swap_term")
    /\ UNCHANGED <<db, job, faults, bounds>>

\* cleanupDB: its own pool is closed, the others' sessions are terminated.
Cleanup(c) ==
    /\ pc[c] = "cleanup"
    /\ \/ Terminate(job[c].tgt) /\ Works /\ Goto(c, "drop")
       \/ Disconnects(c, "pool", job[c].tgt) /\ Fails /\ Goto(c, "err")
    /\ UNCHANGED <<db, job, bounds>>

Drop(c) ==
    LET d == job[c].tgt IN Exec(c, "drop", UsersOf(d) = {}, Without(d), "err", "err")

Build(c) ==
    \/ Create(c) \/ CreateDb(c) \/ Migrate(c) \/ Migrated(c) \/ ReadOld(c) \/ Stamp(c)
    \/ AssertSeeded(c) \/ Lock(c) \/ Close(c) \/ Cleanup(c) \/ Drop(c)

(***************************************************************************)
(* SeedBase                                                                *)
(***************************************************************************)

SeedCheck(c) ==
    Query(c, "seed_check", IF Exists("base") THEN "seed_unlock" ELSE "err") /\ UNCHANGED job

SeedUnlock(c) == Exec(c, "seed_unlock", Exists("base"), WithOpen("base", TRUE), "seed", "err")

\* The rows are counted and the version goes up by one, through a pool that
\* is closed again; the statements of that pool are one step here.
SeedStamp(c) ==
    /\ pc[c] = "seed_stamp"
    /\ LET can == Reaches(c, "pool", "base") IN
       \/ /\ can /\ db' = [db EXCEPT !["base"].ver = @ + 1]
          /\ job' = [job EXCEPT ![c].read = TRUE] /\ Works
       \/ Refused(can) /\ UNCHANGED <<db, job>>
    /\ Goto(c, "relock")
    /\ UNCHANGED <<conns, bounds>>

\* On every path out of a seed that got as far as to unlock.
Relock(c) ==
    Exec(c, "relock", Exists("base"), WithOpen("base", FALSE),
         IF job[c].read THEN "ok" ELSE "err", "err")

Seed(c) ==
    \/ SeedCheck(c) \/ SeedUnlock(c) \/ SeedBegin(c) \/ SeedEnd(c) \/ SeedStamp(c)
    \/ Relock(c)

(***************************************************************************)
(* ResetBase: the base, then base_next, is dropped; then CreateBase.       *)
(***************************************************************************)

\* What a reset does once a name is out of the way.
Cleared(c) ==
    /\ Goto(c, IF Staging(c) THEN "create" ELSE "reset_check")
    /\ job' = [job EXCEPT ![c].tgt = "next"]

ResetCheck(c) ==
    /\ pc[c] = "reset_check"
    /\ \/ Exists(job[c].tgt) /\ Works /\ Goto(c, "reset_term") /\ UNCHANGED job
       \/ ~Exists(job[c].tgt) /\ Works /\ Cleared(c)
       \/ Fails /\ Goto(c, "err") /\ UNCHANGED job
    /\ UNCHANGED <<db, conns, bounds>>

ResetTerm(c) ==
    /\ pc[c] = "reset_term"
    /\ \/ Terminate(job[c].tgt) /\ Works /\ Goto(c, "reset_drop")
       \/ Fails /\ Goto(c, "err") /\ UNCHANGED conns
    /\ UNCHANGED <<db, job, bounds>>

\* DROP DATABASE IF EXISTS.
ResetDrop(c) ==
    /\ pc[c] = "reset_drop"
    /\ LET can == UsersOf(job[c].tgt) = {} IN
       \/ can /\ db' = Without(job[c].tgt) /\ Works /\ Cleared(c)
       \/ Refused(can) /\ Goto(c, "err") /\ UNCHANGED <<db, job>>
    /\ UNCHANGED <<conns, bounds>>

Reset(c) == ResetCheck(c) \/ ResetTerm(c) \/ ResetDrop(c)

(***************************************************************************)
(* RefreshBase and swapBase                                                *)
(***************************************************************************)

\* Without a base a refresh is a create.
Refresh(c) ==
    Query(c, "refresh", IF Exists("base") THEN "refresh_next" ELSE "create") /\ UNCHANGED job

RefreshNext(c) ==
    /\ Query(c, "refresh_next", IF Exists("next") THEN "ready" ELSE "createdb")
    /\ job' = [job EXCEPT ![c].tgt = "next"]

\* Mutant: any stamped base_next is taken for a deferred swap.
ReadyIfStamped(c) ==
    /\ pc[c] = "ready"
    /\ \/ Exists("next") /\ Works /\ Reads(c, "next", "ready")
       \/ Refused(Exists("next")) /\ Goto(c, "err") /\ UNCHANGED job
    /\ UNCHANGED <<db, conns, bounds>>

\* baseNextReady: locked and stamped, whoever staged it.
Ready(c) ==
    /\ pc[c] = "ready"
    /\ \/ Locked("next") /\ Works /\ Reads(c, "next", "ready")
       \/ Refused(Locked("next")) /\ Goto(c, "err") /\ UNCHANGED job
    /\ UNCHANGED <<db, conns, bounds>>

SwapTerm(c) ==
    /\ pc[c] = "swap_term"
    /\ \/ Terminate("base") /\ Works /\ Goto(c, "swap_drop")
       \/ Fails /\ Goto(c, "err") /\ UNCHANGED conns
    /\ UNCHANGED <<db, job, bounds>>

\* An error to drop counts as the base being in use.
SwapDrop(c) ==
    /\ pc[c] = "swap_drop"
    /\ \/ /\ Droppable("base") /\ db' = Without("base") /\ Works
          /\ Goto(c, "swap_rename") /\ UNCHANGED job
       \/ /\ Refused(Droppable("base")) /\ UNCHANGED db
          /\ job' = [job EXCEPT ![c].tries = @ + 1]
          /\ Goto(c, IF job[c].tries + 1 = Tries THEN "deferred" ELSE "swap_again")
    /\ UNCHANGED <<conns, bounds>>

\* After a pause, which a cancelled context cuts short and ends the swap, the
\* sessions are terminated once more, error or not.
SwapAgain(c) ==
    /\ pc[c] = "swap_again"
    /\ \/ Terminate("base") /\ Works /\ Goto(c, "swap_drop")
       \/ Fails /\ UNCHANGED conns /\ (Goto(c, "swap_drop") \/ Goto(c, "err"))
    /\ UNCHANGED <<db, job, bounds>>

Renamed == [db EXCEPT !["base"] = db["next"], !["next"] = NoDb]

\* Mutant: a failing rename cleans up like every other failure.
SwapRenameOrDrop(c) ==
    Exec(c, "swap_rename", Droppable("next") /\ ~Exists("base"), Renamed, "ok", "cleanup")

SwapRename(c) ==
    Exec(c, "swap_rename", Droppable("next") /\ ~Exists("base"), Renamed, "ok", "err")

Swap(c) ==
    \/ Refresh(c) \/ RefreshNext(c) \/ Ready(c)
    \/ SwapTerm(c) \/ SwapDrop(c) \/ SwapAgain(c) \/ SwapRename(c)

(***************************************************************************)
(* The environment                                                         *)
(***************************************************************************)

\* A killed command loses its connections; nothing it did is undone.
Crash(c) ==
    /\ pc[c] \notin Ends \cup {"idle"}
    /\ crashes > 0 /\ crashes' = crashes - 1
    /\ Goto(c, "idle")
    /\ job' = [job EXCEPT ![c] = NoJob]
    /\ conns' = {x \in conns : x[1] # c}
    /\ UNCHANGED <<db, serial, begun, starts, faults>>

\* A session from outside plax uses the base while it accepts connections.
StrayComes ==
    /\ Exists("base") /\ db["base"].open
    /\ <<Stray, "cmd", "base">> \notin conns
    /\ conns' = conns \cup {<<Stray, "cmd", "base">>}
    /\ Fails
    /\ UNCHANGED <<db, pc, job, bounds>>

StrayGoes ==
    /\ <<Stray, "cmd", "base">> \in conns
    /\ conns' = conns \ {<<Stray, "cmd", "base">>}
    /\ UNCHANGED <<db, pc, job, faults, bounds>>

(***************************************************************************)
(* Specification                                                           *)
(***************************************************************************)

\* The base as base create and base seed left it.
Seeded == [id |-> 1, open |-> FALSE, schema |-> "full", rows |-> "full", ver |-> 2]

Init ==
    /\ db = [d \in DbNames |-> IF d = "base" THEN Seeded ELSE NoDb]
    /\ conns = {}
    /\ pc = [c \in Clients |-> "idle"]
    /\ job = [c \in Clients |-> NoJob]
    /\ serial = 1 /\ begun = {}
    /\ starts = MaxStarts /\ faults = MaxFaults /\ crashes = MaxCrashes

Step(c) ==
    \/ Start(c) \/ End(c) \/ ReadProvenance(c) \/ Up(c) \/ Build(c) \/ Seed(c)
    \/ Reset(c) \/ Swap(c)

Next ==
    \/ \E c \in Clients : Step(c) \/ Crash(c)
    \/ StrayComes \/ StrayGoes

Spec == Init /\ [][Next]_vars

=============================================================================
