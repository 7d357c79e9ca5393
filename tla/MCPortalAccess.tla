--------------------------- MODULE MCPortalAccess ---------------------------
(***************************************************************************)
(* A small instance of PortalAccess for TLC.                               *)
(***************************************************************************)
EXTENDS PortalAccess, TLC

\* Requests, clients, grants and prefixes are interchangeable.
PortalSymmetry ==
    Permutations(Requests) \cup Permutations(Clients)
        \cup Permutations(Grants) \cup Permutations(Prefixes)

=============================================================================
