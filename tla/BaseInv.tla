-------------------------------- MODULE BaseInv --------------------------------
(***************************************************************************)
(* The inductive invariant behind BaseProps, for a project whose base is   *)
(* looked after by one client m at a time.                                 *)
(***************************************************************************)
EXTENDS BaseProps

\* The commands that change the base, and the hypothesis that only m runs them.
Changing == {"create", "seed", "reset", "refresh"}
Sole(m)  == m \in Clients /\ \A c \in Clients, op \in Changing : <<c, op>> \in Runs => c = m

ProvPhases  == {"prov", "prov_unlock", "prov_connect", "prov_close", "prov_relock"}
ClonePhases == {"clone_check", "clone", "clone_stamp", "clone_drop"}
SwapPhases  == {"swap_term", "swap_drop", "swap_again", "swap_rename"}
BuildPhases == {"createdb", "migrate", "migrating", "stamp", "lock", "cleanup", "drop"}

\* c reads the version of the base it is about to replace, or looks whether
\* base_next is a deferred swap.
ReadsOld(c)   == pc[c] \in ProvPhases /\ job[c].ret = "old"
ReadsReady(c) == pc[c] \in ProvPhases /\ job[c].ret = "ready"

\* c builds job[c].tgt from nothing, or gives it up.
Building(c) ==
    \/ pc[c] \in BuildPhases \cup {"old", "assert"}
    \/ pc[c] \in {"seed", "seeding"} /\ job[c].op # "seed"
    \/ ReadsOld(c)

\* c has a finished base_next.
Staged(c) == pc[c] \in SwapPhases \cup {"close", "deferred"}

JobType ==
    [op : Commands \cup {"none"}, inst : Insts \cup {NoDb}, tgt : {"base", "next"},
     of : {"base", "next"}, ret : {"none", "info", "ready", "old"}, locked : BOOLEAN,
     read : BOOLEAN, ver : Nat, seen : {"absent", "open", "locked"}, id : Nat,
     tries : 0 .. Tries]

Types == TypeOK /\ job \in [Clients -> JobType]

\* Which command is in which phase, and on which database.
Role(m, c) ==
    /\ job[c].op \in Changing => c = m
    /\ job[c].op \in begun \cup {"none"}
    /\ pc[c] \in {"info", "info_done"} => job[c].op \in {"status", "up"}
    /\ pc[c] \in ClonePhases => job[c].op = "up" /\ job[c].inst \in Insts
    /\ job[c].op = "up" => job[c].inst \in Insts
    /\ pc[c] \in ProvPhases =>
          \/ job[c].ret = "info" /\ job[c].of = "base" /\ job[c].op \in {"status", "up"}
          \/ job[c].ret = "ready" /\ job[c].of = "next" /\ job[c].op = "refresh"
          \/ /\ job[c].ret = "old" /\ job[c].of = "base" /\ job[c].op = "refresh"
             /\ job[c].tgt = "next"
    /\ pc[c] = "prov_unlock" => job[c].locked
    /\ pc[c] = "create" => job[c].op \in {"create", "reset", "refresh"}
    /\ pc[c] \in BuildPhases =>
          /\ job[c].op \in {"create", "reset", "refresh"}
          /\ job[c].tgt = "next" => job[c].op = "refresh"
    /\ pc[c] \in {"old", "assert", "close"} => job[c].op = "refresh" /\ job[c].tgt = "next"
    /\ pc[c] \in {"seed", "seeding"} =>
          \/ job[c].op = "seed" /\ job[c].tgt = "base"
          \/ job[c].op = "refresh" /\ job[c].tgt = "next"
    /\ pc[c] \in {"seed_check", "seed_unlock", "seed_stamp", "relock"} =>
          job[c].op = "seed" /\ job[c].tgt = "base"
    /\ pc[c] \in {"reset_check", "reset_term", "reset_drop"} => job[c].op = "reset"
    /\ pc[c] \in {"refresh", "refresh_next", "ready", "deferred"} \cup SwapPhases =>
          job[c].op = "refresh"
    /\ pc[c] # "deferred" => job[c].tries < Tries

\* c builds a base_next and is in one of these phases.
Fills(c, phases) == job[c].tgt = "next" /\ pc[c] \in phases

\* How far a base_next under construction is.
Progress(m) ==
    /\ pc[m] = "createdb" => ~Exists(job[m].tgt)
    /\ Fills(m, {"migrate", "migrating", "old", "stamp", "seed", "seeding", "assert", "lock"})
          \/ ReadsOld(m) => Exists("next") /\ db["next"].open
    /\ Fills(m, {"migrating", "seeding"}) => db["next"].id = job[m].id
    /\ Fills(m, {"old", "stamp", "seed", "seeding", "assert", "lock"}) \/ ReadsOld(m) =>
          db["next"].schema = "full"
    /\ Fills(m, {"seed", "seeding", "assert", "lock"}) => db["next"].ver # 0
    /\ Fills(m, {"assert", "lock"}) => db["next"].rows = "full"

\* What is locked under that name is a finished one, and a refresh that is
\* about to swap has found it so.
NextIsReady(m) ==
    /\ Locked("next") => Whole("next")
    /\ Staged(m) => Locked("next")
    /\ ReadsReady(m) => /\ Whole("next")
                        /\ IF pc[m] = "prov" THEN Locked("next") ELSE job[m].locked

\* A refresh keeps the base until it renames, and finds no other then.
BaseStays(m) ==
    /\ \/ Building(m) /\ job[m].tgt = "next"
       \/ pc[m] \in {"refresh_next", "ready", "close", "deferred",
                    "swap_term", "swap_drop", "swap_again"}
       \/ ReadsReady(m)
       => Exists("base")
    /\ pc[m] = "swap_rename" => ~Exists("base")

\* Who is connected to base_next: nobody when it is renamed.
NextUsers(m) ==
    /\ UsersOf("next") \subseteq {<<m, "pool", "next">>, <<m, "cmd", "next">>}
    /\ Own(m, "cmd", "next") => Fills(m, {"migrating", "seeding"})
    /\ Own(m, "pool", "next") =>
          \/ Fills(m, {"seed", "seeding", "assert", "lock", "close", "cleanup"})
          \/ pc[m] = "prov_close" /\ ReadsReady(m)

\* Sessions are on a base or a base_next that exists.
Connected == \A x \in conns : x[3] \in {"base", "next"} /\ Exists(x[3])

Control(m) ==
    /\ Types /\ Connected /\ \A c \in Clients : Role(m, c)
    /\ Progress(m) /\ NextIsReady(m) /\ BaseStays(m) /\ NextUsers(m)

\* While only refreshes change it: the database that is not being built is
\* whole.
Kept(m) ==
    RefreshOnly =>
       /\ Whole("base") \/ Whole("next")
       /\ Building(m) => IF job[m].tgt = "next" THEN Whole("base") ELSE Whole("next")

\* If nothing fails, whoever opened the base will lock it.
Restores(c) ==
    pc[c] \in {"prov_connect", "prov_close", "prov_relock"} /\ job[c].of = "base" /\ job[c].locked

WillLock(c) ==
    \/ pc[c] \in {"migrate", "migrating", "stamp", "lock"} /\ job[c].tgt = "base"
    \/ pc[c] \in {"seed_stamp", "relock"}
    \/ pc[c] \in {"seed", "seeding"} /\ job[c].op = "seed"

OpenForNow ==
    Smooth /\ Exists("base") /\ db["base"].open => \E c \in Clients : Restores(c) \/ WillLock(c)

\* If nothing fails and only refreshes change it, a base that exists is whole.
Clonable(m) ==
    Smooth /\ RefreshOnly =>
       /\ IF Exists("base") THEN Whole("base") ELSE pc[m] = "swap_rename"
       /\ Building(m) => job[m].tgt = "next"
       /\ pc[m] # "create"
       /\ \A i \in Insts : Exists(i) => Whole(i)

\* A finished base_next is the next version of the base, and no clone has it.
LaterNext ==
    Exists("next") /\ db["next"].ver # 0 =>
       /\ Exists("base") => db["next"].ver = db["base"].ver + 1
       /\ \A i \in Insts : Exists(i) => db[i].ver < db["next"].ver

\* No clone is later than the base, and one of its version is a clone of it.
OlderCopies ==
    Exists("base") =>
       \A i \in Insts : Exists(i) => /\ db[i].ver <= db["base"].ver
                                     /\ db[i].ver = db["base"].ver => db[i].id = db["base"].id

\* The version a refresh has read is that of the base it replaces.
ReadVersion(m) ==
    pc[m] = "stamp" \/ (ReadsOld(m) /\ job[m].read) => job[m].ver = db["base"].ver

\* Versions then grow with every refresh.
Versions(m) == Smooth /\ RefreshOnly => LaterNext /\ OlderCopies /\ ReadVersion(m)

Sound(m) == Control(m) /\ Kept(m) /\ OpenForNow /\ Clonable(m) /\ Versions(m)

\* Whoever maintains the base, every command keeps to its phases.
Typed == Types /\ Connected /\ \A c \in Clients : Role(c, c)

\* Nobody else may change the base while a client does.
OneMaintains == \E m \in Clients : Sole(m)

\* Sound contains Typed.
IInv == /\ OneMaintains \/ Typed
        /\ \A m \in Clients : Sole(m) => Sound(m)

=============================================================================
