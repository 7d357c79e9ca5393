---------------------------- MODULE MCAuditChain ----------------------------
EXTENDS AuditChain, TLC

CONSTANTS t1, t2, t3, boot

\* The commands of the lock-order question: one that takes the tenant's row
\* before the fence, and one that needs both.
BatchKinds == {"merkle", "batch"}

\* Transactions are interchangeable.
TxnSymmetry == Permutations(Txns)
=============================================================================
