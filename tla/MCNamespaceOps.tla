--------------------------- MODULE MCNamespaceOps ---------------------------
(***************************************************************************)
(* A small instance of NamespaceOps: the namespace web has the members a   *)
(* and b; d stands alone.                                                  *)
(***************************************************************************)
EXTENDS NamespaceOps, TLC

CONSTANTS a, b, d, web

MCProcs == {a, b, d}
MCNamespaces == {web}
MCMembers == web :> <<a, b>>

\* b needs both others, so its dependencies form one level
MCDeps == (a :> {}) @@ (b :> {a, d}) @@ (d :> {})
=============================================================================
