------------------------------ MODULE AuditLog ------------------------------
(***************************************************************************)
(* What a tenant's audit chain promises to whoever reads it: an append-only*)
(* log.  Nothing that was written is ever changed, dropped or reordered,   *)
(* and no entry appears twice.  AuditChain implements this specification.  *)
(***************************************************************************)
EXTENDS Naturals, Sequences

VARIABLE log    \* the identifiers of the entries, oldest first

Distinct(s) == \A i, j \in 1..Len(s) : s[i] = s[j] => i = j

\* The tenant is created with its first entry.
Init == Len(log) = 1

\* A transaction makes its entries part of the log.
Extend ==
    /\ Len(log') > Len(log)
    /\ \A i \in 1..Len(log) : log'[i] = log[i]
    /\ Distinct(log')

Spec == Init /\ [][Extend]_log
=============================================================================
