----------------------------- MODULE MCBaseManager -----------------------------
(* Instances of BaseManager for TLC: see the .cfg files. *)
EXTENDS BaseInv, TLC

CONSTANTS m1, m2, u, s

\* One person maintains the base while others create instances and look.
OneMaintainer ==
    ({m1} \X {"create", "seed", "reset", "refresh"}) \cup {<<u, "up">>, <<s, "status">>}

\* Two people refresh at once.
TwoRefreshers == ({m1, m2} \X {"refresh"}) \cup {<<u, "up">>}

=============================================================================
