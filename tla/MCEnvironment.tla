----------------------------- MODULE MCEnvironment -----------------------------
(* Instances of Environment for TLC: see the .cfg files. *)
EXTENDS EnvironmentInv, TLC

CONSTANTS k1, k2, a, s

Plain(k, v) == Assign(k, v)
Fancy(k, v) == [Assign(k, v) EXCEPT !.plain = FALSE]

\* One key, twice; and a line that reading simplifies beside one with a brace
\* that nobody fills.
MCTemplates ==
    {<<Plain(k1, a), Plain(k1, s)>>, <<Fancy(k1, a), Plain(k2, Braced)>>}

\* Nothing, so that all holes are appended.
MCEmpty == {<<>>}

\* Nothing; or one value, the first template's for k1, under both keys.
MCUserEnvs == {<<>>, k1 :> s @@ k2 :> s}

=============================================================================
