------------------------------ MODULE Instances ------------------------------
(***************************************************************************)
(* What plax promises about its instances, with every intermediate step    *)
(* hidden: an instance is absent, running or suspended, and it owns a set  *)
(* of ports from the moment it is registered until the moment it is torn   *)
(* down.  Each change is one atomic step of one instance; in particular no *)
(* step touches two instances, and no port ever passes from one instance   *)
(* to another without being free in between.                               *)
(*                                                                         *)
(* Lifecycle implements this specification through the registry file.      *)
(***************************************************************************)
EXTENDS Naturals, FiniteSets

CONSTANTS
    Names,      \* instance names
    Ports,      \* host ports of the pool
    NoName,     \* owner of a free port, not a name
    NumPorts    \* ports one instance needs

VARIABLES
    state,      \* state[n]: what the registry says of instance n
    holder      \* holder[p]: the instance port p is allocated to, or NoName

vars == <<state, holder>>

TypeOK ==
    /\ state \in [Names -> {"absent", "running", "suspended"}]
    /\ holder \in [Ports -> Names \cup {NoName}]

Init ==
    /\ state = [n \in Names |-> "absent"]
    /\ holder = [p \in Ports |-> NoName]

\* plax up: the instance appears, running, with ports nobody held.
Create(n) ==
    /\ state[n] = "absent"
    /\ \E ps \in SUBSET {p \in Ports : holder[p] = NoName} :
          /\ Cardinality(ps) = NumPorts
          /\ holder' = [p \in Ports |-> IF p \in ps THEN n ELSE holder[p]]
    /\ state' = [state EXCEPT ![n] = "running"]

\* plax down, or the rollback of a plax up: all of its ports are free again.
Destroy(n) ==
    /\ state[n] # "absent"
    /\ state' = [state EXCEPT ![n] = "absent"]
    /\ holder' = [p \in Ports |-> IF holder[p] = n THEN NoName ELSE holder[p]]

\* plax suspend, or the rollback of a plax resume: the ports stay reserved.
Sleep(n) ==
    /\ state[n] = "running"
    /\ state' = [state EXCEPT ![n] = "suspended"]
    /\ UNCHANGED holder

\* plax resume: the instance runs again on the ports it always had.
Wake(n) ==
    /\ state[n] = "suspended"
    /\ state' = [state EXCEPT ![n] = "running"]
    /\ UNCHANGED holder

Next == \E n \in Names : Create(n) \/ Destroy(n) \/ Sleep(n) \/ Wake(n)

Spec == Init /\ [][Next]_vars

=============================================================================
