--------------------------- MODULE MCIntegrations ---------------------------
(***************************************************************************)
(* One repository at each of the providers that have any, and requests that *)
(* are interchangeable.                                                     *)
(***************************************************************************)
EXTENDS Integrations, TLC

MCRepos ==
    [p \in Provs |-> CASE p = "github" -> {"r1"} [] p = "gitlab" -> {"r2"} [] p = "bitbucket" -> {"r3"}
                       [] OTHER -> {}]

Symmetry == Permutations(Reqs)
=============================================================================
