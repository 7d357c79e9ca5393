-------------------------- MODULE AuditChainProofs --------------------------
(***************************************************************************)
(* Proofs about AuditChain for any number of transactions, any mix of the  *)
(* commands and any page size: the committed chain is intact and is an     *)
(* append-only log, whoever certifies it is recorded right after what it   *)
(* saw, and the holder of the fence waits for nobody but a verification    *)
(* that took the tenant's row first.                                       *)
(*                                                                         *)
(* LockInv says that the locks of a transaction are those that its program *)
(* has passed, and that conflicting locks are never held together.  Since  *)
(* every program passes the chain's lock before it reads or extends the    *)
(* chain, whoever is past it finds the chain unchanged until it ends.      *)
(* ChainInv uses that: the chain that such a transaction sees, its own     *)
(* entries included, is intact, and ends where its next number says.       *)
(***************************************************************************)
EXTENDS AuditChain, FiniteSetTheorems, SequenceTheorems, TLAPS

Stmt(t, i) == Program(kind[t])[i]
Passed(t, step) == \E i \in 1..pc[t] - 1 : Stmt(t, i) = step

\* The lock that a statement takes.
Takes(step, l) ==
    \/ step = l /\ l \in Locks
    \/ l = "sequence" /\ step \in {"allocate", "sync"}

ControlType ==
    /\ status \in [Txns -> {"idle", "open", "committed", "failed"}]
    /\ kind \in [Txns -> Kinds \cup {"none"}]
    /\ pc \in [Txns -> Nat \ {0}]
    /\ held \in [Txns -> SUBSET Locks]

OwnLocks(t) ==
    /\ status[t] = "idle" => pc[t] = 1
    /\ Open(t) => kind[t] \in Kinds /\ pc[t] \in 1..Len(Program(kind[t])) + 1
    /\ ~Open(t) => held[t] = {}
    /\ Open(t) => \A l \in Locks : Passed(t, l) => l \in held[t]
    /\ \A l \in held[t] : \E i \in 1..pc[t] - 1 : Takes(Stmt(t, i), l)

LockInv ==
    /\ ControlType
    /\ \A t \in Txns : OwnLocks(t)
    /\ \A t, u \in Txns : t # u =>
        \A l \in held[t], m \in held[u] : ~Conflicts(l, m)

-----------------------------------------------------------------------------
(* Facts about the programs, read off their statements one by one.          *)

\* What a program may do before it has locked the chain, and what not.
Early == {"load", "projection", "tenant_share", "tenant_update", "rotate",
          "revoke", "batch"}
Late == {"allocate", "insert", "reconcile", "sync", "view", "commitment",
         "leaves", "sign", "page"}
Statements == Early \cup Late \cup {"chain"}

ChainFirst(p) ==
    \E c \in 1..Len(p) :
        p[c] = "chain" /\ \A i \in 1..Len(p) : i < c => p[i] \in Early

\* Before the fence a program locks nothing.
FenceFirst(p) ==
    \E f \in 1..Len(p) :
        p[f] = "projection" /\ \A i \in 1..Len(p) : i < f => p[i] = "load"

Follows(s, r) ==
    /\ s = "allocate" <=> r = "insert"
    /\ s = "reconcile" <=> r = "sync"

\* A number is allocated for the entry inserted next, and the counter is
\* brought up to a reconciled chain at once.
Paired(p) ==
    /\ p[1] \notin {"insert", "sync"}
    /\ p[Len(p)] \notin {"allocate", "reconcile"}
    /\ \A i \in 1..Len(p) - 1 : Follows(p[i], p[i + 1])

\* The statements that belong to a few commands only, and where they are.
Placed(k, n, i, s) ==
    /\ s \in Statements
    /\ s = "load" => k = "mutation" /\ i = 1
    /\ s = "reconcile" => k = "mutation" /\ i = 4
    /\ s = "sync" => k = "mutation" /\ i = 5
    /\ s = "commitment" => k = "backup" /\ i = 4
    /\ s = "leaves" => k = "merkle" /\ i = 5
    /\ s = "sign" => k = "merkle" /\ i = 6
    /\ s = "rotate" => k = "rotate" /\ i = 3
    /\ s = "revoke" => k = "revoke" /\ i = 3
    /\ s = "batch" => \/ k = "batch" /\ i = 2
                      \/ k = "checkpoint" /\ i = 5
    /\ s = "view" => \/ k \in {"merkle", "chain", "checkpoint"} /\ i = 4
                     \/ k = "backup" /\ i = 5
    /\ s = "page" => \/ k = "chain" /\ i = 5
                     \/ k \in {"checkpoint", "backup"} /\ i = 6
    /\ s \in {"allocate", "insert"} /\ k \in Certifiers => i >= n - 1
    /\ s \in {"allocate", "insert"} => k # "mutation"

Disciplined(k) ==
    /\ Len(Program(k)) \in Nat \ {0}
    /\ ChainFirst(Program(k)) /\ Paired(Program(k))
    /\ k # "batch" => FenceFirst(Program(k))
    /\ \A i \in 1..Len(Program(k)) : Placed(k, Len(Program(k)), i, Program(k)[i])
    /\ k \in Certifiers =>
          /\ Program(k)[Len(Program(k))] = "insert"
          /\ \E v \in 1..Len(Program(k)) : Program(k)[v] = "view"

\* The chain's lock is statement c, the fence statement f.
LEMMA DisciplineFromTable ==
    ASSUME NEW k, NEW n \in Nat \ {0}, NEW c \in 1..n, NEW f \in 1..n,
           Len(Program(k)) = n,
           Program(k)[c] = "chain", Program(k)[f] = "projection",
           Program(k)[1] \notin {"insert", "sync"}, Program(k)[n] \in {"insert", "sync"},
           k \in Certifiers =>
               Program(k)[n] = "insert" /\ \E v \in 1..n : Program(k)[v] = "view",
           \A i \in 1..n :
               /\ i < c => Program(k)[i] \in Early
               /\ k # "batch" /\ i < f => Program(k)[i] = "load"
               /\ i < n => Follows(Program(k)[i], Program(k)[i + 1])
               /\ Placed(k, n, i, Program(k)[i])
    PROVE  Disciplined(k)
<1>1. ChainFirst(Program(k)) BY DEF ChainFirst
<1>2. k # "batch" => FenceFirst(Program(k)) BY DEF FenceFirst
<1>3. Paired(Program(k))
  <2>1. \A i \in 1..n - 1 : i \in 1..n /\ i < n OBVIOUS
  <2> QED BY <2>1 DEF Paired
<1> QED BY <1>1, <1>2, <1>3 DEF Disciplined

LEMMA AppendProgram == Disciplined("append")
<1> DEFINE p == Program("append")
<1>1. Len(p) = 4 /\ DOMAIN p = 1..4 BY DEF Program, appendEntry, AppendAudit
<1>2. p[1] = "projection" /\ p[2] = "chain" /\ p[3] = "allocate"
      /\ p[4] = "insert"
  BY DEF Program, appendEntry, AppendAudit
<1> HIDE DEF p
<1>3. ASSUME NEW i \in 1..4
      PROVE  /\ i < 2 => p[i] \in Early
             /\ "append" # "batch" /\ i < 1 => p[i] = "load"
             /\ i < 4 => Follows(p[i], p[i + 1])
             /\ Placed("append", 4, i, p[i])
  <2> DEFINE s == p[i]  r == p[i + 1]
  <2>1. \/ i = 1 /\ s = "projection" /\ r = "chain"
        \/ i = 2 /\ s = "chain" /\ r = "allocate"
        \/ i = 3 /\ s = "allocate" /\ r = "insert"
        \/ i = 4 /\ s = "insert"
    BY <1>1, <1>2
  <2> HIDE DEF s, r
  <2>2. (i < 2 => s \in Early) /\ ("append" # "batch" /\ i < 1 => s = "load")
    BY <2>1 DEF Early
  <2>3. i < 4 => Follows(s, r) BY <2>1 DEF Follows
  <2>4. Placed("append", 4, i, s)
    BY <2>1 DEF Placed, Statements, Early, Late, Certifiers
  <2> QED BY <2>2, <2>3, <2>4 DEF s, r
<1>4. "append" \in Certifiers =>
        p[4] = "insert" /\ \E v \in 1..4 : p[v] = "view"
  BY DEF Certifiers
<1>5. 2 \in 1..4 /\ 1 \in 1..4 /\ 4 \in Nat \ {0} OBVIOUS
<1> QED BY <1>1, <1>2, <1>3, <1>4, <1>5, DisciplineFromTable DEF p

LEMMA AppendTwoProgram == Disciplined("append_two")
<1> DEFINE p == Program("append_two")
<1>1. Len(p) = 6 /\ DOMAIN p = 1..6 BY DEF Program, appendEntries
<1>2. p[1] = "projection" /\ p[2] = "chain" /\ p[3] = "allocate"
      /\ p[4] = "insert" /\ p[5] = "allocate" /\ p[6] = "insert"
  BY DEF Program, appendEntries
<1> HIDE DEF p
<1>3. ASSUME NEW i \in 1..6
      PROVE  /\ i < 2 => p[i] \in Early
             /\ "append_two" # "batch" /\ i < 1 => p[i] = "load"
             /\ i < 6 => Follows(p[i], p[i + 1])
             /\ Placed("append_two", 6, i, p[i])
  <2> DEFINE s == p[i]  r == p[i + 1]
  <2>1. \/ i = 1 /\ s = "projection" /\ r = "chain"
        \/ i = 2 /\ s = "chain" /\ r = "allocate"
        \/ i = 3 /\ s = "allocate" /\ r = "insert"
        \/ i = 4 /\ s = "insert" /\ r = "allocate"
        \/ i = 5 /\ s = "allocate" /\ r = "insert"
        \/ i = 6 /\ s = "insert"
    BY <1>1, <1>2
  <2> HIDE DEF s, r
  <2>2. (i < 2 => s \in Early) /\ ("append_two" # "batch" /\ i < 1 => s = "load")
    BY <2>1 DEF Early
  <2>3. i < 6 => Follows(s, r) BY <2>1 DEF Follows
  <2>4. Placed("append_two", 6, i, s)
    BY <2>1 DEF Placed, Statements, Early, Late, Certifiers
  <2> QED BY <2>2, <2>3, <2>4 DEF s, r
<1>4. "append_two" \in Certifiers =>
        p[6] = "insert" /\ \E v \in 1..6 : p[v] = "view"
  BY DEF Certifiers
<1>5. 2 \in 1..6 /\ 1 \in 1..6 /\ 6 \in Nat \ {0} OBVIOUS
<1> QED BY <1>1, <1>2, <1>3, <1>4, <1>5, DisciplineFromTable DEF p

LEMMA MutationProgram == Disciplined("mutation")
<1> DEFINE p == Program("mutation")
<1>1. Len(p) = 5 /\ DOMAIN p = 1..5 BY DEF Program, applyReleaseLedgerMutation
<1>2. p[1] = "load" /\ p[2] = "projection" /\ p[3] = "chain"
      /\ p[4] = "reconcile" /\ p[5] = "sync"
  BY DEF Program, applyReleaseLedgerMutation
<1> HIDE DEF p
<1>3. ASSUME NEW i \in 1..5
      PROVE  /\ i < 3 => p[i] \in Early
             /\ "mutation" # "batch" /\ i < 2 => p[i] = "load"
             /\ i < 5 => Follows(p[i], p[i + 1])
             /\ Placed("mutation", 5, i, p[i])
  <2> DEFINE s == p[i]  r == p[i + 1]
  <2>1. \/ i = 1 /\ s = "load" /\ r = "projection"
        \/ i = 2 /\ s = "projection" /\ r = "chain"
        \/ i = 3 /\ s = "chain" /\ r = "reconcile"
        \/ i = 4 /\ s = "reconcile" /\ r = "sync"
        \/ i = 5 /\ s = "sync"
    BY <1>1, <1>2
  <2> HIDE DEF s, r
  <2>2. (i < 3 => s \in Early) /\ ("mutation" # "batch" /\ i < 2 => s = "load")
    BY <2>1 DEF Early
  <2>3. i < 5 => Follows(s, r) BY <2>1 DEF Follows
  <2>4. Placed("mutation", 5, i, s)
    BY <2>1 DEF Placed, Statements, Early, Late, Certifiers
  <2> QED BY <2>2, <2>3, <2>4 DEF s, r
<1>4. "mutation" \in Certifiers =>
        p[5] = "insert" /\ \E v \in 1..5 : p[v] = "view"
  BY DEF Certifiers
<1>5. 3 \in 1..5 /\ 2 \in 1..5 /\ 5 \in Nat \ {0} OBVIOUS
<1> QED BY <1>1, <1>2, <1>3, <1>4, <1>5, DisciplineFromTable DEF p

LEMMA MerkleProgram == Disciplined("merkle")
<1> DEFINE p == Program("merkle")
<1>1. Len(p) = 8 /\ DOMAIN p = 1..8 BY DEF Program, createMerkleBatch
<1>2. p[1] = "projection" /\ p[2] = "tenant_update" /\ p[3] = "chain"
      /\ p[4] = "view" /\ p[5] = "leaves" /\ p[6] = "sign"
      /\ p[7] = "allocate" /\ p[8] = "insert"
  BY DEF Program, createMerkleBatch
<1> HIDE DEF p
<1>3. ASSUME NEW i \in 1..8
      PROVE  /\ i < 3 => p[i] \in Early
             /\ "merkle" # "batch" /\ i < 1 => p[i] = "load"
             /\ i < 8 => Follows(p[i], p[i + 1])
             /\ Placed("merkle", 8, i, p[i])
  <2> DEFINE s == p[i]  r == p[i + 1]
  <2>1. \/ i = 1 /\ s = "projection" /\ r = "tenant_update"
        \/ i = 2 /\ s = "tenant_update" /\ r = "chain"
        \/ i = 3 /\ s = "chain" /\ r = "view"
        \/ i = 4 /\ s = "view" /\ r = "leaves"
        \/ i = 5 /\ s = "leaves" /\ r = "sign"
        \/ i = 6 /\ s = "sign" /\ r = "allocate"
        \/ i = 7 /\ s = "allocate" /\ r = "insert"
        \/ i = 8 /\ s = "insert"
    BY <1>1, <1>2
  <2> HIDE DEF s, r
  <2>2. (i < 3 => s \in Early) /\ ("merkle" # "batch" /\ i < 1 => s = "load")
    BY <2>1 DEF Early
  <2>3. i < 8 => Follows(s, r) BY <2>1 DEF Follows
  <2>4. Placed("merkle", 8, i, s)
    BY <2>1 DEF Placed, Statements, Early, Late, Certifiers
  <2> QED BY <2>2, <2>3, <2>4 DEF s, r
<1>4. "merkle" \in Certifiers =>
        p[8] = "insert" /\ \E v \in 1..8 : p[v] = "view"
  <2>1. 4 \in 1..8 OBVIOUS
  <2> QED BY <1>2, <2>1
<1>5. 3 \in 1..8 /\ 1 \in 1..8 /\ 8 \in Nat \ {0} OBVIOUS
<1> QED BY <1>1, <1>2, <1>3, <1>4, <1>5, DisciplineFromTable DEF p

LEMMA RotateProgram == Disciplined("rotate")
<1> DEFINE p == Program("rotate")
<1>1. Len(p) = 6 /\ DOMAIN p = 1..6 BY DEF Program, RotateSigningKey
<1>2. p[1] = "projection" /\ p[2] = "tenant_update" /\ p[3] = "rotate"
      /\ p[4] = "chain" /\ p[5] = "allocate" /\ p[6] = "insert"
  BY DEF Program, RotateSigningKey
<1> HIDE DEF p
<1>3. ASSUME NEW i \in 1..6
      PROVE  /\ i < 4 => p[i] \in Early
             /\ "rotate" # "batch" /\ i < 1 => p[i] = "load"
             /\ i < 6 => Follows(p[i], p[i + 1])
             /\ Placed("rotate", 6, i, p[i])
  <2> DEFINE s == p[i]  r == p[i + 1]
  <2>1. \/ i = 1 /\ s = "projection" /\ r = "tenant_update"
        \/ i = 2 /\ s = "tenant_update" /\ r = "rotate"
        \/ i = 3 /\ s = "rotate" /\ r = "chain"
        \/ i = 4 /\ s = "chain" /\ r = "allocate"
        \/ i = 5 /\ s = "allocate" /\ r = "insert"
        \/ i = 6 /\ s = "insert"
    BY <1>1, <1>2
  <2> HIDE DEF s, r
  <2>2. (i < 4 => s \in Early) /\ ("rotate" # "batch" /\ i < 1 => s = "load")
    BY <2>1 DEF Early
  <2>3. i < 6 => Follows(s, r) BY <2>1 DEF Follows
  <2>4. Placed("rotate", 6, i, s)
    BY <2>1 DEF Placed, Statements, Early, Late, Certifiers
  <2> QED BY <2>2, <2>3, <2>4 DEF s, r
<1>4. "rotate" \in Certifiers =>
        p[6] = "insert" /\ \E v \in 1..6 : p[v] = "view"
  BY DEF Certifiers
<1>5. 4 \in 1..6 /\ 1 \in 1..6 /\ 6 \in Nat \ {0} OBVIOUS
<1> QED BY <1>1, <1>2, <1>3, <1>4, <1>5, DisciplineFromTable DEF p

LEMMA RevokeProgram == Disciplined("revoke")
<1> DEFINE p == Program("revoke")
<1>1. Len(p) = 6 /\ DOMAIN p = 1..6 BY DEF Program, RevokeSigningKey
<1>2. p[1] = "projection" /\ p[2] = "tenant_update" /\ p[3] = "revoke"
      /\ p[4] = "chain" /\ p[5] = "allocate" /\ p[6] = "insert"
  BY DEF Program, RevokeSigningKey
<1> HIDE DEF p
<1>3. ASSUME NEW i \in 1..6
      PROVE  /\ i < 4 => p[i] \in Early
             /\ "revoke" # "batch" /\ i < 1 => p[i] = "load"
             /\ i < 6 => Follows(p[i], p[i + 1])
             /\ Placed("revoke", 6, i, p[i])
  <2> DEFINE s == p[i]  r == p[i + 1]
  <2>1. \/ i = 1 /\ s = "projection" /\ r = "tenant_update"
        \/ i = 2 /\ s = "tenant_update" /\ r = "revoke"
        \/ i = 3 /\ s = "revoke" /\ r = "chain"
        \/ i = 4 /\ s = "chain" /\ r = "allocate"
        \/ i = 5 /\ s = "allocate" /\ r = "insert"
        \/ i = 6 /\ s = "insert"
    BY <1>1, <1>2
  <2> HIDE DEF s, r
  <2>2. (i < 4 => s \in Early) /\ ("revoke" # "batch" /\ i < 1 => s = "load")
    BY <2>1 DEF Early
  <2>3. i < 6 => Follows(s, r) BY <2>1 DEF Follows
  <2>4. Placed("revoke", 6, i, s)
    BY <2>1 DEF Placed, Statements, Early, Late, Certifiers
  <2> QED BY <2>2, <2>3, <2>4 DEF s, r
<1>4. "revoke" \in Certifiers =>
        p[6] = "insert" /\ \E v \in 1..6 : p[v] = "view"
  BY DEF Certifiers
<1>5. 4 \in 1..6 /\ 1 \in 1..6 /\ 6 \in Nat \ {0} OBVIOUS
<1> QED BY <1>1, <1>2, <1>3, <1>4, <1>5, DisciplineFromTable DEF p

LEMMA ChainProgram == Disciplined("chain")
<1> DEFINE p == Program("chain")
<1>1. Len(p) = 7 /\ DOMAIN p = 1..7 BY DEF Program, verifyAuditChain
<1>2. p[1] = "projection" /\ p[2] = "tenant_share" /\ p[3] = "chain"
      /\ p[4] = "view" /\ p[5] = "page" /\ p[6] = "allocate"
      /\ p[7] = "insert"
  BY DEF Program, verifyAuditChain
<1> HIDE DEF p
<1>3. ASSUME NEW i \in 1..7
      PROVE  /\ i < 3 => p[i] \in Early
             /\ "chain" # "batch" /\ i < 1 => p[i] = "load"
             /\ i < 7 => Follows(p[i], p[i + 1])
             /\ Placed("chain", 7, i, p[i])
  <2> DEFINE s == p[i]  r == p[i + 1]
  <2>1. \/ i = 1 /\ s = "projection" /\ r = "tenant_share"
        \/ i = 2 /\ s = "tenant_share" /\ r = "chain"
        \/ i = 3 /\ s = "chain" /\ r = "view"
        \/ i = 4 /\ s = "view" /\ r = "page"
        \/ i = 5 /\ s = "page" /\ r = "allocate"
        \/ i = 6 /\ s = "allocate" /\ r = "insert"
        \/ i = 7 /\ s = "insert"
    BY <1>1, <1>2
  <2> HIDE DEF s, r
  <2>2. (i < 3 => s \in Early) /\ ("chain" # "batch" /\ i < 1 => s = "load")
    BY <2>1 DEF Early
  <2>3. i < 7 => Follows(s, r) BY <2>1 DEF Follows
  <2>4. Placed("chain", 7, i, s)
    BY <2>1 DEF Placed, Statements, Early, Late, Certifiers
  <2> QED BY <2>2, <2>3, <2>4 DEF s, r
<1>4. "chain" \in Certifiers =>
        p[7] = "insert" /\ \E v \in 1..7 : p[v] = "view"
  <2>1. 4 \in 1..7 OBVIOUS
  <2> QED BY <1>2, <2>1
<1>5. 3 \in 1..7 /\ 1 \in 1..7 /\ 7 \in Nat \ {0} OBVIOUS
<1> QED BY <1>1, <1>2, <1>3, <1>4, <1>5, DisciplineFromTable DEF p

LEMMA BatchProgram == Disciplined("batch")
<1> DEFINE p == Program("batch")
<1>1. Len(p) = 6 /\ DOMAIN p = 1..6 BY DEF Program, verifyMerkleBatch
<1>2. p[1] = "tenant_share" /\ p[2] = "batch" /\ p[3] = "projection"
      /\ p[4] = "chain" /\ p[5] = "allocate" /\ p[6] = "insert"
  BY DEF Program, verifyMerkleBatch
<1> HIDE DEF p
<1>3. ASSUME NEW i \in 1..6
      PROVE  /\ i < 4 => p[i] \in Early
             /\ "batch" # "batch" /\ i < 3 => p[i] = "load"
             /\ i < 6 => Follows(p[i], p[i + 1])
             /\ Placed("batch", 6, i, p[i])
  <2> DEFINE s == p[i]  r == p[i + 1]
  <2>1. \/ i = 1 /\ s = "tenant_share" /\ r = "batch"
        \/ i = 2 /\ s = "batch" /\ r = "projection"
        \/ i = 3 /\ s = "projection" /\ r = "chain"
        \/ i = 4 /\ s = "chain" /\ r = "allocate"
        \/ i = 5 /\ s = "allocate" /\ r = "insert"
        \/ i = 6 /\ s = "insert"
    BY <1>1, <1>2
  <2> HIDE DEF s, r
  <2>2. (i < 4 => s \in Early) /\ ("batch" # "batch" /\ i < 3 => s = "load")
    BY <2>1 DEF Early
  <2>3. i < 6 => Follows(s, r) BY <2>1 DEF Follows
  <2>4. Placed("batch", 6, i, s)
    BY <2>1 DEF Placed, Statements, Early, Late, Certifiers
  <2> QED BY <2>2, <2>3, <2>4 DEF s, r
<1>4. "batch" \in Certifiers =>
        p[6] = "insert" /\ \E v \in 1..6 : p[v] = "view"
  BY DEF Certifiers
<1>5. 4 \in 1..6 /\ 3 \in 1..6 /\ 6 \in Nat \ {0} OBVIOUS
<1> QED BY <1>1, <1>2, <1>3, <1>4, <1>5, DisciplineFromTable DEF p

LEMMA CheckpointProgram == Disciplined("checkpoint")
<1> DEFINE p == Program("checkpoint")
<1>1. Len(p) = 8 /\ DOMAIN p = 1..8 BY DEF Program, verifyMerkleCheckpoint
<1>2. p[1] = "projection" /\ p[2] = "tenant_share" /\ p[3] = "chain"
      /\ p[4] = "view" /\ p[5] = "batch" /\ p[6] = "page"
      /\ p[7] = "allocate" /\ p[8] = "insert"
  BY DEF Program, verifyMerkleCheckpoint
<1> HIDE DEF p
<1>3. ASSUME NEW i \in 1..8
      PROVE  /\ i < 3 => p[i] \in Early
             /\ "checkpoint" # "batch" /\ i < 1 => p[i] = "load"
             /\ i < 8 => Follows(p[i], p[i + 1])
             /\ Placed("checkpoint", 8, i, p[i])
  <2> DEFINE s == p[i]  r == p[i + 1]
  <2>1. \/ i = 1 /\ s = "projection" /\ r = "tenant_share"
        \/ i = 2 /\ s = "tenant_share" /\ r = "chain"
        \/ i = 3 /\ s = "chain" /\ r = "view"
        \/ i = 4 /\ s = "view" /\ r = "batch"
        \/ i = 5 /\ s = "batch" /\ r = "page"
        \/ i = 6 /\ s = "page" /\ r = "allocate"
        \/ i = 7 /\ s = "allocate" /\ r = "insert"
        \/ i = 8 /\ s = "insert"
    BY <1>1, <1>2
  <2> HIDE DEF s, r
  <2>2. (i < 3 => s \in Early) /\ ("checkpoint" # "batch" /\ i < 1 => s = "load")
    BY <2>1 DEF Early
  <2>3. i < 8 => Follows(s, r) BY <2>1 DEF Follows
  <2>4. Placed("checkpoint", 8, i, s)
    BY <2>1 DEF Placed, Statements, Early, Late, Certifiers
  <2> QED BY <2>2, <2>3, <2>4 DEF s, r
<1>4. "checkpoint" \in Certifiers =>
        p[8] = "insert" /\ \E v \in 1..8 : p[v] = "view"
  <2>1. 4 \in 1..8 OBVIOUS
  <2> QED BY <1>2, <2>1
<1>5. 3 \in 1..8 /\ 1 \in 1..8 /\ 8 \in Nat \ {0} OBVIOUS
<1> QED BY <1>1, <1>2, <1>3, <1>4, <1>5, DisciplineFromTable DEF p

LEMMA BackupProgram == Disciplined("backup")
<1> DEFINE p == Program("backup")
<1>1. Len(p) = 8 /\ DOMAIN p = 1..8 BY DEF Program, GenerateBackupManifest
<1>2. p[1] = "projection" /\ p[2] = "tenant_update" /\ p[3] = "chain"
      /\ p[4] = "commitment" /\ p[5] = "view" /\ p[6] = "page"
      /\ p[7] = "allocate" /\ p[8] = "insert"
  BY DEF Program, GenerateBackupManifest
<1> HIDE DEF p
<1>3. ASSUME NEW i \in 1..8
      PROVE  /\ i < 3 => p[i] \in Early
             /\ "backup" # "batch" /\ i < 1 => p[i] = "load"
             /\ i < 8 => Follows(p[i], p[i + 1])
             /\ Placed("backup", 8, i, p[i])
  <2> DEFINE s == p[i]  r == p[i + 1]
  <2>1. \/ i = 1 /\ s = "projection" /\ r = "tenant_update"
        \/ i = 2 /\ s = "tenant_update" /\ r = "chain"
        \/ i = 3 /\ s = "chain" /\ r = "commitment"
        \/ i = 4 /\ s = "commitment" /\ r = "view"
        \/ i = 5 /\ s = "view" /\ r = "page"
        \/ i = 6 /\ s = "page" /\ r = "allocate"
        \/ i = 7 /\ s = "allocate" /\ r = "insert"
        \/ i = 8 /\ s = "insert"
    BY <1>1, <1>2
  <2> HIDE DEF s, r
  <2>2. (i < 3 => s \in Early) /\ ("backup" # "batch" /\ i < 1 => s = "load")
    BY <2>1 DEF Early
  <2>3. i < 8 => Follows(s, r) BY <2>1 DEF Follows
  <2>4. Placed("backup", 8, i, s)
    BY <2>1 DEF Placed, Statements, Early, Late, Certifiers
  <2> QED BY <2>2, <2>3, <2>4 DEF s, r
<1>4. "backup" \in Certifiers =>
        p[8] = "insert" /\ \E v \in 1..8 : p[v] = "view"
  <2>1. 5 \in 1..8 OBVIOUS
  <2> QED BY <1>2, <2>1
<1>5. 3 \in 1..8 /\ 1 \in 1..8 /\ 8 \in Nat \ {0} OBVIOUS
<1> QED BY <1>1, <1>2, <1>3, <1>4, <1>5, DisciplineFromTable DEF p

\* Every command keeps the discipline of the locks.
LEMMA ProgramsDisciplined ==
    ASSUME NEW k \in AllKinds
    PROVE  Disciplined(k)
BY AppendProgram, AppendTwoProgram, MutationProgram, MerkleProgram
   , RotateProgram, RevokeProgram, ChainProgram, BatchProgram
   , CheckpointProgram, BackupProgram DEF AllKinds

-----------------------------------------------------------------------------
(* The locks                                                                *)

LocksOf(s) == {l \in Locks : Takes(s, l)}

\* A statement that does not end its transaction.
Moves(t, s) ==
    /\ At(t, s)
    /\ clock' = clock /\ status' = status /\ kind' = kind
    /\ entries' = entries /\ nextSeq' = nextSeq /\ keys' = keys
    /\ batches' = batches
    /\ pc' = [pc EXCEPT ![t] = @ + 1] \/ (s = "page" /\ pc' = pc)
    /\ held' = [held EXCEPT ![t] = @ \cup LocksOf(s)]
    /\ \A l \in LocksOf(s) : CanLock(t, l)

LEMMA OnlyOpenDeadlocks ==
    ASSUME NEW t \in Txns, Deadlocked(t)
    PROVE  Open(t)
BY DEF Deadlocked, WaitsFor, Requests, At, Open

LEMMA LocksOfStatements ==
    /\ \A l \in Locks \ {"sequence"} : LocksOf(l) = {l}
    /\ LocksOf("allocate") = {"sequence"} /\ LocksOf("sync") = {"sequence"}
    /\ \A s \in Statements \ Locks : s \notin {"allocate", "sync"} => LocksOf(s) = {}
BY DEF LocksOf, Takes, Locks, Statements, Early, Late

LEMMA UntakenLocks ==
    ASSUME NEW t \in Txns, ControlType, NEW s, LocksOf(s) = {}, held' = held
    PROVE  held' = [held EXCEPT ![t] = @ \cup LocksOf(s)]
BY DEF ControlType

\* What a step of a transaction does to its control state.
LEMMA StepShape ==
    ASSUME NEW t \in Txns, Step(t), ControlType
    PROVE  \/ Open(t) /\ Fail(t)
           \/ Commit(t)
           \/ \E s \in Statements : Moves(t, s)
<1> USE DEF committed, local, Advance
<1> DEFINE Quiet == {"insert", "load", "reconcile", "view", "commitment",
                     "leaves", "sign", "rotate", "revoke", "batch", "page"}
<1>0. ASSUME NEW s \in Quiet, At(t, s), held' = held, clock' = clock,
             status' = status, kind' = kind, entries' = entries,
             nextSeq' = nextSeq, keys' = keys, batches' = batches,
             pc' = [pc EXCEPT ![t] = @ + 1] \/ (s = "page" /\ pc' = pc)
      PROVE  \E x \in Statements : Moves(t, x)
  <2>1. s \in Statements /\ LocksOf(s) = {}
    BY LocksOfStatements DEF Statements, Early, Late, Locks
  <2> QED BY <1>0, <2>1, UntakenLocks DEF Moves
<1> HIDE DEF Quiet
<1>q. \A s \in {"insert", "load", "reconcile", "view", "commitment",
               "leaves", "sign", "rotate", "revoke", "batch", "page"} :
         s \in Quiet
  BY DEF Quiet
<1>1. CASE Lock(t)
  <2>1. PICK l \in Locks \ {"sequence"} :
          /\ At(t, l) /\ CanLock(t, l)
          /\ held' = [held EXCEPT ![t] = @ \cup {l}]
          /\ pc' = [pc EXCEPT ![t] = @ + 1]
          /\ UNCHANGED <<clock, committed, status, kind>>
    BY <1>1 DEF Lock
  <2>2. l \in Statements /\ LocksOf(l) = {l}
    BY LocksOfStatements DEF Statements, Early, Locks
  <2>3. Moves(t, l) BY <2>1, <2>2 DEF Moves
  <2> QED BY <2>2, <2>3
<1>2. CASE Allocate(t)
  <2>1. Moves(t, "allocate")
    BY <1>2, LocksOfStatements DEF Allocate, Moves
  <2> QED BY <2>1 DEF Statements, Late
<1>3. CASE Sync(t)
  <2>1. Moves(t, "sync")
    BY <1>3, LocksOfStatements DEF Sync, Moves
  <2> QED BY <2>1 DEF Statements, Late
<1>4. CASE Insert(t)
  <2>1. CASE Fail(t) BY <1>4, <2>1 DEF Insert, At, Open
  <2>2. CASE ~Fail(t) BY <1>0, <1>q, <1>4, <2>2 DEF Insert
  <2> QED BY <2>1, <2>2
<1>5. CASE Load(t) BY <1>0, <1>q, <1>5 DEF Load
<1>6. CASE Reconcile(t)
  <2>1. CASE Fail(t) BY <1>6, <2>1 DEF Reconcile, At, Open
  <2>2. CASE ~Fail(t) BY <1>0, <1>q, <1>6, <2>2 DEF Reconcile
  <2> QED BY <2>1, <2>2
<1>7. CASE View(t)
  <2>1. CASE Fail(t) BY <1>7, <2>1 DEF View, At, Open
  <2>2. CASE ~Fail(t) BY <1>0, <1>q, <1>7, <2>2 DEF View
  <2> QED BY <2>1, <2>2
<1>8. CASE Commitment(t) BY <1>0, <1>q, <1>8 DEF Commitment
<1>9. CASE Leaves(t)
  <2>1. CASE Fail(t) BY <1>9, <2>1 DEF Leaves, At, Open
  <2>2. CASE ~Fail(t) BY <1>0, <1>q, <1>9, <2>2 DEF Leaves
  <2> QED BY <2>1, <2>2
<1>10. CASE SignMerkleRoot(t)
  <2>1. CASE Fail(t) BY <1>10, <2>1 DEF SignMerkleRoot, At, Open
  <2>2. CASE ~Fail(t) BY <1>0, <1>q, <1>10, <2>2 DEF SignMerkleRoot
  <2> QED BY <2>1, <2>2
<1>11. CASE Rotate(t) BY <1>0, <1>q, <1>11 DEF Rotate
<1>12. CASE Revoke(t)
  <2>1. CASE Fail(t) BY <1>12, <2>1 DEF Revoke, At, Open
  <2>2. CASE ~Fail(t) BY <1>0, <1>q, <1>12, <2>2 DEF Revoke
  <2> QED BY <2>1, <2>2
<1>13. CASE ReadMerkleVerification(t)
  <2>1. CASE Fail(t) BY <1>13, <2>1 DEF ReadMerkleVerification, At, Open
  <2>2. CASE ~Fail(t) BY <1>0, <1>q, <1>13, <2>2 DEF ReadMerkleVerification
  <2> QED BY <2>1, <2>2
<1>14. CASE ReadAuditChainVerificationPage(t)
  <2>1. CASE Fail(t)
    BY <1>14, <2>1 DEF ReadAuditChainVerificationPage, At, Open
  <2>2. CASE ~Fail(t)
    BY <1>0, <1>q, <1>14, <2>2 DEF ReadAuditChainVerificationPage
  <2> QED BY <2>1, <2>2
<1>15. CASE Commit(t) BY <1>15
<1>16. CASE AbortDeadlock(t)
  BY <1>16, OnlyOpenDeadlocks DEF AbortDeadlock
<1> QED
  BY <1>1, <1>2, <1>3, <1>4, <1>5, <1>6, <1>7, <1>8, <1>9, <1>10, <1>11,
     <1>12, <1>13, <1>14, <1>15, <1>16 DEF Step

\* A transaction that moves, its control state after the step.
LEMMA MoveControl ==
    ASSUME NEW t \in Txns, NEW s \in Statements, LockInv, Moves(t, s)
    PROVE  /\ ControlType'
           /\ \A u \in Txns : u # t => pc'[u] = pc[u] /\ held'[u] = held[u]
           /\ pc'[t] \in {pc[t], pc[t] + 1}
           /\ held'[t] = held[t] \cup LocksOf(s)
           /\ Open(t) /\ Stmt(t, pc[t]) = s /\ pc[t] \in 1..Len(Program(kind[t]))
           /\ kind[t] \in Kinds
           /\ pc'[t] = pc[t] => s = "page"
<1>1. LocksOf(s) \subseteq Locks BY DEF LocksOf
<1>2. ControlType BY DEF LockInv
<1>3. Open(t) /\ Stmt(t, pc[t]) = s /\ pc[t] <= Len(Program(kind[t]))
  BY DEF Moves, At, Open, Stmt
<1>4. kind[t] \in Kinds /\ pc[t] \in 1..Len(Program(kind[t])) + 1
  BY <1>3 DEF LockInv, OwnLocks
<1>5. Len(Program(kind[t])) \in Nat
  BY <1>4, ProgramsDisciplined, AuditChainAssumption DEF Disciplined
<1>6. pc[t] \in 1..Len(Program(kind[t])) BY <1>3, <1>4, <1>5
<1>7. held' \in [Txns -> SUBSET Locks] BY <1>1, <1>2 DEF Moves, ControlType
<1>8. pc' \in [Txns -> Nat \ {0}] BY <1>2 DEF Moves, ControlType
<1>9. ControlType' BY <1>2, <1>7, <1>8 DEF Moves, ControlType
<1>10. /\ \A u \in Txns : u # t => pc'[u] = pc[u] /\ held'[u] = held[u]
       /\ pc'[t] \in {pc[t], pc[t] + 1}
       /\ held'[t] = held[t] \cup LocksOf(s)
  BY <1>2 DEF Moves, ControlType
<1>11. pc'[t] = pc[t] => s = "page"
  BY <1>2, <1>8 DEF Moves, ControlType
<1> QED BY <1>3, <1>4, <1>6, <1>9, <1>10, <1>11

LEMMA LocksUntouched ==
    ASSUME NEW u \in Txns, OwnLocks(u), status'[u] = status[u],
           kind'[u] = kind[u], pc'[u] = pc[u], held'[u] = held[u]
    PROVE  OwnLocks(u)'
BY DEF OwnLocks, Open, Passed, Stmt

\* Conflicts is symmetric.
LEMMA ConflictsBothWays ==
    ASSUME NEW l, NEW m, Conflicts(l, m)
    PROVE  Conflicts(m, l)
BY DEF Conflicts

LEMMA MoveKeepsLocks ==
    ASSUME NEW t \in Txns, NEW s \in Statements, LockInv, Moves(t, s)
    PROVE  LockInv'
<1> USE MoveControl
<1>0. /\ status' = status /\ kind' = kind
      /\ \A u \in Txns : u # t => pc'[u] = pc[u] /\ held'[u] = held[u]
      /\ pc'[t] \in {pc[t], pc[t] + 1} /\ pc[t] \in Nat \ {0}
      /\ held'[t] = held[t] \cup LocksOf(s)
      /\ ControlType'
  BY DEF Moves, LockInv, ControlType
<1>1. ASSUME NEW u \in Txns, u # t
      PROVE  OwnLocks(u)'
  BY <1>0, <1>1, LocksUntouched DEF LockInv
<1>2. OwnLocks(t)'
  <2>1. Open(t)' /\ Open(t) /\ kind[t]' = kind[t] /\ kind[t] \in Kinds
    BY <1>0 DEF Open
  <2>2. Len(Program(kind[t])) \in Nat
    BY <2>1, ProgramsDisciplined, AuditChainAssumption DEF Disciplined
  <2>3. pc[t] \in 1..Len(Program(kind[t])) OBVIOUS
  <2>4. pc[t]' \in 1..Len(Program(kind[t])) + 1 BY <1>0, <2>2, <2>3
  <2>5. ASSUME NEW l \in Locks, Passed(t, l)'
        PROVE  l \in held[t]'
    <3>1. PICK i \in (1..pc[t] - 1)' : Stmt(t, i) = l
      BY <2>1, <2>5, <1>0 DEF Passed, Stmt
    <3>2. CASE i \in 1..pc[t] - 1
      BY <2>1, <3>1, <3>2, <1>0 DEF LockInv, OwnLocks, Passed
    <3>3. CASE i \notin 1..pc[t] - 1
      <4>1. i = pc[t] BY <1>0, <3>3
      <4>2. l = s BY <3>1, <4>1
      <4>3. l \in LocksOf(s) BY <4>2 DEF LocksOf, Takes
      <4> QED BY <4>3, <1>0
    <3> QED BY <3>2, <3>3
  <2>6. ASSUME NEW l \in held[t]'
        PROVE  \E i \in (1..pc[t] - 1)' : Takes(Stmt(t, i)', l)
    <3>1. CASE l \in held[t]
      <4>1. PICK i \in 1..pc[t] - 1 : Takes(Stmt(t, i), l)
        BY <3>1 DEF LockInv, OwnLocks
      <4>2. i \in (1..pc[t] - 1)' BY <1>0
      <4> QED BY <2>1, <4>1, <4>2 DEF Stmt
    <3>2. CASE l \notin held[t]
      <4>1. Takes(s, l) BY <3>2, <1>0 DEF LocksOf
      <4>2. s # "page" BY <4>1 DEF Takes, Locks
      <4>3. pc[t] \in (1..pc[t] - 1)' BY <1>0, <4>2
      <4>4. Stmt(t, pc[t])' = s \/ pc'[t] # pc[t] BY <2>1 DEF Stmt
      <4>5. Program(kind[t])[pc[t]] = s BY DEF Stmt
      <4> QED BY <2>1, <4>1, <4>3, <4>5 DEF Stmt
    <3> QED BY <3>1, <3>2
  <2>7. status[t]' = "open" /\ kind[t]' \in Kinds BY <2>1 DEF Open
  <2>8. pc[t]' \in 1..Len(Program(kind[t])') + 1 BY <2>1, <2>4
  <2> QED BY <2>5, <2>6, <2>7, <2>8 DEF OwnLocks, Open
<1>3. ASSUME NEW u \in Txns, NEW w \in Txns, u # w, NEW l \in held[u]',
             NEW m \in held[w]', Conflicts(l, m)
      PROVE  FALSE
  <2>1. \A x, y \in Txns : x # y =>
            \A a \in held[x], b \in held[y] : ~Conflicts(a, b)
    BY DEF LockInv
  <2>2. ASSUME NEW x \in Txns, x # t, NEW a \in LocksOf(s), NEW b \in held[x]
        PROVE  ~Conflicts(a, b)
    BY <2>2 DEF Moves, CanLock
  <2>3. CASE u = t
    <3>1. m \in held[w] BY <1>0, <1>3, <2>3
    <3>2. l \in held[t] \/ l \in LocksOf(s) BY <1>0, <2>3
    <3> QED BY <1>3, <2>1, <2>2, <2>3, <3>1, <3>2
  <2>4. CASE w = t
    <3>1. l \in held[u] BY <1>0, <1>3, <2>4
    <3>2. m \in held[t] \/ m \in LocksOf(s) BY <1>0, <2>4
    <3>3. Conflicts(m, l) BY <1>3, ConflictsBothWays
    <3> QED BY <1>3, <2>1, <2>2, <2>4, <3>1, <3>2, <3>3
  <2>5. CASE u # t /\ w # t BY <1>0, <1>3, <2>1, <2>5
  <2> QED BY <2>3, <2>4, <2>5
<1> QED BY <1>0, <1>1, <1>2, <1>3 DEF LockInv

\* A transaction that ends, or begins, holds no lock afterwards.
LEMMA FreeKeepsLocks ==
    ASSUME NEW t \in Txns, LockInv, ControlType', held'[t] = {}, OwnLocks(t)',
           \A u \in Txns : u # t => /\ status'[u] = status[u]
                                    /\ kind'[u] = kind[u]
                                    /\ pc'[u] = pc[u] /\ held'[u] = held[u]
    PROVE  LockInv'
<1>1. \A u \in Txns : OwnLocks(u)' BY LocksUntouched DEF LockInv
<1>2. ASSUME NEW u \in Txns, NEW w \in Txns, u # w, NEW l \in held[u]',
             NEW m \in held[w]'
      PROVE  ~Conflicts(l, m)
  <2>1. l \in held[u] /\ m \in held[w] OBVIOUS
  <2> QED BY <1>2, <2>1 DEF LockInv
<1> QED BY <1>1, <1>2 DEF LockInv

LEMMA LockInit == Init => LockInv
<1> SUFFICES ASSUME Init PROVE LockInv OBVIOUS
<1>1. ControlType BY DEF Init, ControlType
<1>2. ASSUME NEW t \in Txns PROVE OwnLocks(t)
  BY DEF Init, OwnLocks, Open
<1> QED BY <1>1, <1>2 DEF LockInv, Init

LEMMA LockNext == LockInv /\ [Next]_vars => LockInv'
<1> SUFFICES ASSUME LockInv, [Next]_vars PROVE LockInv' OBVIOUS
<1> USE DEF committed, local
<1>0. ControlType BY DEF LockInv
<1>1. ASSUME NEW t \in Txns, Open(t), Fail(t) PROVE LockInv'
  <2>1. ControlType' BY <1>0, <1>1 DEF Fail, ControlType
  <2>2. status'[t] = "failed" /\ held'[t] = {}
    BY <1>0, <1>1 DEF Fail, ControlType
  <2>3. OwnLocks(t)' BY <2>2 DEF OwnLocks, Open
  <2> QED BY <1>0, <1>1, <2>1, <2>2, <2>3, FreeKeepsLocks DEF Fail, ControlType
<1>2. ASSUME NEW t \in Txns, Commit(t) PROVE LockInv'
  <2>1. ControlType' BY <1>0, <1>2 DEF Commit, ControlType
  <2>2. status'[t] = "committed" /\ held'[t] = {}
    BY <1>0, <1>2 DEF Commit, ControlType
  <2>3. OwnLocks(t)' BY <2>2 DEF OwnLocks, Open
  <2> QED BY <1>0, <1>2, <2>1, <2>2, <2>3, FreeKeepsLocks DEF Commit, ControlType
<1>3. ASSUME NEW t \in Txns, NEW k \in Kinds, Begin(t, k) PROVE LockInv'
  <2>1. ControlType' BY <1>0, <1>3 DEF Begin, ControlType
  <2>2. /\ status'[t] = "open" /\ held'[t] = {} /\ kind'[t] = k /\ pc'[t] = 1
        /\ UNCHANGED <<pc, held>>
    BY <1>0, <1>3 DEF Begin, ControlType, LockInv, OwnLocks, Open
  <2>3. OwnLocks(t)'
    <3>1. Len(Program(k)) \in Nat
      BY ProgramsDisciplined, AuditChainAssumption DEF Disciplined
    <3>2. \A l \in Locks : ~Passed(t, l)' BY <2>2 DEF Passed
    <3>3. pc[t]' \in 1..Len(Program(kind[t])') + 1 BY <2>2, <3>1
    <3> QED BY <2>2, <3>2, <3>3 DEF OwnLocks, Open
  <2> QED BY <1>0, <1>3, <2>1, <2>2, <2>3, FreeKeepsLocks DEF Begin, ControlType
<1>4. ASSUME NEW t \in Txns, Step(t) PROVE LockInv'
  BY <1>0, <1>1, <1>2, <1>4, StepShape, MoveKeepsLocks
<1>5. ASSUME UNCHANGED <<status, kind, pc, held>> PROVE LockInv'
  <2>1. ControlType' BY <1>0, <1>5 DEF ControlType
  <2>2. \A u \in Txns : OwnLocks(u)' BY <1>5, LocksUntouched DEF LockInv
  <2> QED BY <1>5, <2>1, <2>2 DEF LockInv
<1>6. CASE Tick BY <1>5, <1>6 DEF Tick
<1>7. CASE UNCHANGED vars BY <1>5, <1>7 DEF vars
<1>8. ASSUME NEW t \in Txns, Rollback(t) PROVE LockInv'
  BY <1>1, <1>8 DEF Rollback, Open
<1> QED BY <1>3, <1>4, <1>6, <1>7, <1>8 DEF Next

LEMMA LocksAreKept == Spec => []LockInv
BY LockInit, LockNext, PTL DEF Spec

LEMMA HolderOfAnyLockHasFence ==
    ASSUME LockInv, NEW u \in Txns, kind[u] # "batch", NEW m \in held[u]
    PROVE  "projection" \in held[u]
<1>1. Open(u) BY DEF LockInv, OwnLocks
<1>2. kind[u] \in AllKinds /\ kind[u] \in Kinds
  BY <1>1, AuditChainAssumption DEF LockInv, OwnLocks
<1> DEFINE p == Program(kind[u])
<1>3. FenceFirst(p) /\ Len(p) \in Nat
  BY <1>2, ProgramsDisciplined DEF Disciplined
<1>4. pc[u] \in 1..Len(p) + 1 /\ pc[u] \in Nat
  BY <1>1 DEF LockInv, OwnLocks, ControlType
<1>5. PICK i \in 1..pc[u] - 1 : Takes(p[i], m)
  BY DEF LockInv, OwnLocks, Stmt
<1>6. p[i] # "load" BY <1>5 DEF Takes, Locks
<1> HIDE DEF p
<1>7. PICK f \in 1..Len(p) :
        p[f] = "projection" /\ \A j \in 1..Len(p) : j < f => p[j] = "load"
  BY <1>3 DEF FenceFirst
<1>8. i \in 1..Len(p) BY <1>3, <1>4
<1>9. f \in 1..pc[u] - 1 BY <1>3, <1>4, <1>6, <1>7, <1>8
<1>10. Passed(u, "projection") BY <1>7, <1>9 DEF Passed, Stmt, p
<1> QED BY <1>1, <1>10 DEF LockInv, OwnLocks, Locks

\* Whoever holds the fence waits for nobody, except for a batch verification
\* that has locked the tenant's row and not the fence yet: every other
\* command takes the fence before any other lock (lockWorkerProjection first),
\* so that only one of them holds locks at all.
THEOREM FenceHolderWaitsForNobody == Spec => []FenceHolderProceeds
<1>1. LockInv => FenceHolderProceeds
  <2> SUFFICES ASSUME LockInv, NEW t \in Txns, NEW u \in Txns,
                      "projection" \in held[t], WaitsFor(t, u)
               PROVE  kind[u] = "batch" /\ "projection" \notin held[u]
    BY DEF FenceHolderProceeds
  <2>1. u # t /\ \E m \in held[u] : TRUE BY DEF WaitsFor
  <2>2. "projection" \notin held[u] BY <2>1 DEF LockInv, Conflicts
  <2> QED BY <2>1, <2>2, HolderOfAnyLockHasFence
<1> QED BY <1>1, LocksAreKept, PTL

-----------------------------------------------------------------------------
(* The chain as a set of rows                                               *)

\* S is a chain of n entries: numbered without gap or repetition, linked, and
\* each hash lists the identifiers of all entries up to its own.
GoodRow(e) ==
    /\ e.id \in Ids /\ e.seq \in Nat \ {0} /\ e.prev \in Hashes
    /\ e.hash = Append(e.prev, e.id) /\ Len(e.prev) = e.seq - 1

GoodChain(S, n) ==
    /\ n \in Nat /\ IsFiniteSet(S) /\ Cardinality(S) = n
    /\ \A e \in S : GoodRow(e) /\ e.seq <= n
    /\ \A i \in 1..n : \E e \in S : e.seq = i
    /\ \A e, f \in S : e.seq = f.seq \/ e.id = f.id => e = f
    /\ \A e, f \in S : f.seq = e.seq - 1 => e.prev = f.hash
    /\ \A e, f \in S : f.seq <= e.seq => e.hash[f.seq] = f.id

\* The row with a number is unique, so HashAt reads its hash.
LEMMA HashOfRow ==
    ASSUME NEW S, NEW n, GoodChain(S, n), NEW e \in S
    PROVE  HashAt(S, e.seq) = e.hash
<1> DEFINE x == CHOOSE f \in S : f.seq = e.seq
<1>1. x \in S /\ x.seq = e.seq OBVIOUS
<1>2. x = e BY <1>1 DEF GoodChain
<1> QED BY <1>2 DEF HashAt

\* The hash of the last row lists as many identifiers as there are rows.
LEMMA HeadHash ==
    ASSUME NEW S, NEW n, GoodChain(S, n)
    PROVE  /\ HashAt(S, n) \in Seq(Ids)
           /\ Len(HashAt(S, n)) = n
           /\ n = 0 => HashAt(S, n) = << >>
           /\ \A f \in S : HashAt(S, n)[f.seq] = f.id /\ f.seq \in 1..n
<1>0. n \in Nat /\ \A f \in S : f.seq \in 1..n
  BY DEF GoodChain, GoodRow
<1>1. CASE n = 0
  <2>1. ~\E e \in S : e.seq = n BY <1>0, <1>1
  <2>2. HashAt(S, n) = << >> BY <2>1 DEF HashAt
  <2>3. S = {} BY <1>0, <1>1
  <2>4. << >> \in Seq(Ids) /\ Len(<< >>) = 0 OBVIOUS
  <2> QED BY <1>1, <2>2, <2>3, <2>4
<1>2. CASE n # 0
  <2>1. n \in 1..n BY <1>0, <1>2
  <2>2. PICK e \in S : e.seq = n BY <2>1 DEF GoodChain
  <2>3. HashAt(S, n) = e.hash BY <2>2, HashOfRow
  <2>4. e.id \in Ids /\ e.prev \in Seq(Ids) /\ e.hash = Append(e.prev, e.id)
        /\ Len(e.prev) = n - 1
    BY <2>2 DEF GoodChain, GoodRow, Hashes
  <2>5. e.hash \in Seq(Ids) /\ Len(e.hash) = n BY <1>0, <2>4
  <2>6. ASSUME NEW f \in S PROVE e.hash[f.seq] = f.id
    <3>1. f.seq <= e.seq BY <1>0, <2>2
    <3> QED BY <3>1 DEF GoodChain
  <2> QED BY <1>0, <1>2, <2>3, <2>5, <2>6
<1> QED BY <1>1, <1>2

\* A chain grows by an entry with a new identifier, the next number and the
\* last row's hash.
LEMMA ChainGrows ==
    ASSUME NEW S, NEW n, GoodChain(S, n), NEW id \in Ids, NEW sig,
           \A f \in S : f.id # id
    PROVE  GoodChain(S \cup {RehashAuditChainEntry(id, n + 1, HashAt(S, n), sig)},
                     n + 1)
<1> DEFINE h == HashAt(S, n)
           e == RehashAuditChainEntry(id, n + 1, h, sig)
           T == S \cup {e}
<1>0. n \in Nat /\ n + 1 \in Nat \ {0} BY DEF GoodChain
<1>1. h \in Seq(Ids) /\ Len(h) = n /\ \A f \in S : h[f.seq] = f.id /\ f.seq \in 1..n
  BY HeadHash
<1>2. n = 0 => h = << >> BY HeadHash
<1> HIDE DEF h
<1>3. /\ e.id = id /\ e.seq = n + 1 /\ e.prev = h
      /\ e.hash = Append(h, id)
  BY DEF RehashAuditChainEntry
<1> HIDE DEF e
<1>4. e.hash[n + 1] = id /\ \A i \in 1..n : e.hash[i] = h[i]
  BY <1>0, <1>1, <1>3
<1>5. GoodRow(e) BY <1>0, <1>1, <1>3 DEF GoodRow, Hashes
<1>6. e \notin S BY <1>0, <1>1, <1>3
<1>7. IsFiniteSet(T) /\ Cardinality(T) = n + 1
  BY <1>6, FS_AddElement DEF GoodChain
<1>8. \A f \in T : GoodRow(f) /\ f.seq <= n + 1
  BY <1>0, <1>1, <1>3, <1>5 DEF GoodChain
<1>9. \A i \in 1..n + 1 : \E f \in T : f.seq = i
  <2> TAKE i \in 1..n + 1
  <2>1. CASE i = n + 1 BY <1>3, <2>1
  <2>2. CASE i # n + 1
    <3>1. i \in 1..n BY <1>0, <2>2
    <3> QED BY <3>1 DEF GoodChain
  <2> QED BY <2>1, <2>2
<1>10. \A f, g \in T : f.seq = g.seq \/ f.id = g.id => f = g
  <2>1. \A f \in S : f.seq # e.seq /\ f.id # e.id BY <1>0, <1>1, <1>3
  <2> QED BY <2>1 DEF GoodChain
<1>11. \A f, g \in T : g.seq = f.seq - 1 => f.prev = g.hash
  <2> SUFFICES ASSUME NEW f \in T, NEW g \in T, g.seq = f.seq - 1
               PROVE  f.prev = g.hash
    OBVIOUS
  <2>1. CASE f \in S
    <3>1. g \in S BY <1>0, <1>1, <1>3, <2>1
    <3> QED BY <2>1, <3>1 DEF GoodChain
  <2>2. CASE f = e
    <3>1. g.seq = n BY <1>0, <1>3, <2>2
    <3>2. g \in S BY <1>0, <1>3, <3>1
    <3>3. HashAt(S, g.seq) = g.hash BY <3>2, HashOfRow
    <3> QED BY <1>3, <2>2, <3>1, <3>3 DEF h
  <2> QED BY <2>1, <2>2
<1>12. \A f, g \in T : g.seq <= f.seq => f.hash[g.seq] = g.id
  <2> SUFFICES ASSUME NEW f \in T, NEW g \in T, g.seq <= f.seq
               PROVE  f.hash[g.seq] = g.id
    OBVIOUS
  <2>1. CASE f \in S
    <3>1. g \in S BY <1>0, <1>1, <1>3, <2>1
    <3> QED BY <2>1, <3>1 DEF GoodChain
  <2>2. CASE f = e /\ g = e BY <1>3, <1>4, <2>2
  <2>3. CASE f = e /\ g \in S BY <1>1, <1>4, <2>3
  <2> QED BY <2>1, <2>2, <2>3
<1> HIDE DEF T
<1>13. GoodChain(T, n + 1)
  BY <1>0, <1>7, <1>8, <1>9, <1>10, <1>11, <1>12 DEF GoodChain
<1> QED BY <1>13 DEF T, e, h

-----------------------------------------------------------------------------
(* What the steps do to the transactions' own state                         *)

DraftShape(d) ==
    d = [rows |-> d.rows, next |-> d.next, keys |-> d.keys,
         batches |-> d.batches]

ScanShape(s) ==
    s = [after |-> s.after, seen |-> s.seen, prev |-> s.prev,
         known |-> s.known, committed |-> s.committed]

Shaped ==
    /\ draft = [t \in Txns |-> draft[t]] /\ scan = [t \in Txns |-> scan[t]]
    /\ view = [t \in Txns |-> view[t]] /\ batch = [t \in Txns |-> batch[t]]
    /\ verdict = [t \in Txns |-> verdict[t]]
    /\ \A t \in Txns : DraftShape(draft[t]) /\ ScanShape(scan[t])

\* The state of a transaction other than its control state.
SameLocal(u) ==
    /\ draft'[u] = draft[u] /\ scan'[u] = scan[u] /\ view'[u] = view[u]
    /\ batch'[u] = batch[u] /\ verdict'[u] = verdict[u]

OthersSame(t) == \A u \in Txns : u # t => SameLocal(u)

\* Updates of one variable at t, or of one field of it.
LEMMA UpdateAt ==
    ASSUME NEW t \in Txns, NEW f, NEW g, NEW v, f = [u \in Txns |-> f[u]],
           g = [f EXCEPT ![t] = v]
    PROVE  /\ g = [u \in Txns |-> g[u]]
           /\ g[t] = v /\ \A u \in Txns : u # t => g[u] = f[u]
OBVIOUS

LEMMA DraftUpdates ==
    ASSUME NEW d, DraftShape(d), NEW v
    PROVE  /\ [d EXCEPT !.next = v] =
                 [rows |-> d.rows, next |-> v, keys |-> d.keys,
                  batches |-> d.batches]
           /\ [d EXCEPT !.rows = v] =
                 [rows |-> v, next |-> d.next, keys |-> d.keys,
                  batches |-> d.batches]
           /\ [d EXCEPT !.keys = v] =
                 [rows |-> d.rows, next |-> d.next, keys |-> v,
                  batches |-> d.batches]
           /\ [d EXCEPT !.batches = v] =
                 [rows |-> d.rows, next |-> d.next, keys |-> d.keys,
                  batches |-> v]
BY DEF DraftShape

LEMMA ScanUpdates ==
    ASSUME NEW s, ScanShape(s), NEW v
    PROVE  /\ [s EXCEPT !.known = v] =
                 [after |-> s.after, seen |-> s.seen, prev |-> s.prev,
                  known |-> v, committed |-> s.committed]
           /\ [s EXCEPT !.seen = v] =
                 [after |-> s.after, seen |-> v, prev |-> s.prev,
                  known |-> s.known, committed |-> s.committed]
           /\ [s EXCEPT !.committed = v] =
                 [after |-> s.after, seen |-> s.seen, prev |-> s.prev,
                  known |-> s.known, committed |-> v]
BY DEF ScanShape

LEMMA ShapesOfRecords ==
    /\ \A a, b, c, d : DraftShape([rows |-> a, next |-> b, keys |-> c, batches |-> d])
    /\ \A a, b, c, d, e :
          ScanShape([after |-> a, seen |-> b, prev |-> c, known |-> d, committed |-> e])
    /\ DraftShape(NoDraft) /\ ScanShape(NoScan)
BY DEF DraftShape, ScanShape, NoDraft, NoScan

\* One variable changes at t; its shape and the other transactions stay.
LEMMA DraftChange ==
    ASSUME NEW t \in Txns, Shaped, NEW d, DraftShape(d),
           draft' = [draft EXCEPT ![t] = d], UNCHANGED <<scan, view>>,
           batch' = [u \in Txns |-> batch'[u]],
           verdict' = [u \in Txns |-> verdict'[u]],
           \A u \in Txns : u # t => batch'[u] = batch[u] /\ verdict'[u] = verdict[u]
    PROVE  Shaped' /\ OthersSame(t) /\ draft'[t] = d
<1>1. draft' = [u \in Txns |-> draft'[u]] /\ draft'[t] = d
      /\ \A u \in Txns : u # t => draft'[u] = draft[u]
  BY UpdateAt DEF Shaped
<1>2. \A u \in Txns : DraftShape(draft[u])'
  <2>1. \A u \in Txns : DraftShape(draft'[u]) BY <1>1 DEF Shaped
  <2> QED BY <2>1 DEF DraftShape
<1>3. \A u \in Txns : ScanShape(scan[u])' BY DEF Shaped, ScanShape
<1>4. scan' = [u \in Txns |-> scan'[u]] /\ view' = [u \in Txns |-> view'[u]]
  BY DEF Shaped
<1> QED BY <1>1, <1>2, <1>3, <1>4 DEF Shaped, OthersSame, SameLocal

LEMMA ScanChange ==
    ASSUME NEW t \in Txns, Shaped, NEW s, ScanShape(s),
           scan' = [scan EXCEPT ![t] = s], UNCHANGED <<draft, view, batch>>,
           verdict' = [u \in Txns |-> verdict'[u]],
           \A u \in Txns : u # t => verdict'[u] = verdict[u]
    PROVE  Shaped' /\ OthersSame(t) /\ scan'[t] = s
<1>1. scan' = [u \in Txns |-> scan'[u]] /\ scan'[t] = s
      /\ \A u \in Txns : u # t => scan'[u] = scan[u]
  BY UpdateAt DEF Shaped
<1>2. \A u \in Txns : ScanShape(scan[u])'
  <2>1. \A u \in Txns : ScanShape(scan'[u]) BY <1>1 DEF Shaped
  <2> QED BY <2>1 DEF ScanShape
<1>3. \A u \in Txns : DraftShape(draft[u])' BY DEF Shaped, DraftShape
<1>4. draft' = [u \in Txns |-> draft'[u]] /\ view' = [u \in Txns |-> view'[u]]
      /\ batch' = [u \in Txns |-> batch'[u]]
  BY DEF Shaped
<1> QED BY <1>1, <1>2, <1>3, <1>4 DEF Shaped, OthersSame, SameLocal

\* Only view, batch or verdict change at t.
LEMMA PlainChange ==
    ASSUME NEW t \in Txns, Shaped, UNCHANGED <<draft, scan>>,
           view' = [u \in Txns |-> view'[u]],
           batch' = [u \in Txns |-> batch'[u]],
           verdict' = [u \in Txns |-> verdict'[u]],
           \A u \in Txns : u # t => /\ view'[u] = view[u]
                                    /\ batch'[u] = batch[u]
                                    /\ verdict'[u] = verdict[u]
    PROVE  Shaped' /\ OthersSame(t)
<1>1. \A u \in Txns : ScanShape(scan[u])' BY DEF Shaped, ScanShape
<1>2. \A u \in Txns : DraftShape(draft[u])' BY DEF Shaped, DraftShape
<1>3. draft' = [u \in Txns |-> draft'[u]] /\ scan' = [u \in Txns |-> scan'[u]]
  BY DEF Shaped
<1> QED BY <1>1, <1>2, <1>3 DEF Shaped, OthersSame, SameLocal

LEMMA LockEffect ==
    ASSUME NEW t \in Txns, Shaped, Lock(t)
    PROVE  Shaped' /\ OthersSame(t) /\ SameLocal(t)
<1>1. UNCHANGED <<draft, view, scan, batch, verdict>> BY DEF Lock, local
<1> QED BY <1>1, PlainChange DEF Shaped, SameLocal

LEMMA AllocateEffect ==
    ASSUME NEW t \in Txns, Shaped, Allocate(t)
    PROVE  /\ Shaped' /\ OthersSame(t)
           /\ UNCHANGED <<view, scan, batch, verdict>>
           /\ draft'[t] = [rows |-> draft[t].rows, next |-> NextSeen(t) + 1,
                           keys |-> draft[t].keys, batches |-> draft[t].batches]
<1> DEFINE n == NextSeen(t) + 1
           d == [draft[t] EXCEPT !.next = n]
<1>0. UNCHANGED <<view, scan, batch, verdict>> BY DEF Allocate
<1>1. draft' = [draft EXCEPT ![t].next = n] BY DEF Allocate
<1> HIDE DEF n
<1>2. d = [rows |-> draft[t].rows, next |-> n, keys |-> draft[t].keys,
           batches |-> draft[t].batches]
  BY DraftUpdates DEF Shaped
<1>3. draft' = [draft EXCEPT ![t] = d] BY <1>1
<1>4. DraftShape(d) BY <1>2, ShapesOfRecords
<1> HIDE DEF d
<1> QED BY <1>0, <1>2, <1>3, <1>4, DraftChange DEF Shaped, n

LEMMA SyncEffect ==
    ASSUME NEW t \in Txns, Shaped, Sync(t)
    PROVE  /\ Shaped' /\ OthersSame(t)
           /\ UNCHANGED <<view, scan, batch, verdict>>
           /\ draft'[t] = [rows |-> draft[t].rows,
                           next |-> IF NextSeen(t) > scan[t].seen + 1
                                    THEN NextSeen(t) ELSE scan[t].seen + 1,
                           keys |-> draft[t].keys, batches |-> draft[t].batches]
<1> DEFINE n == IF NextSeen(t) > scan[t].seen + 1
                THEN NextSeen(t) ELSE scan[t].seen + 1
           d == [draft[t] EXCEPT !.next = n]
<1>0. UNCHANGED <<view, scan, batch, verdict>> BY DEF Sync
<1>1. draft' = [draft EXCEPT ![t].next = n] BY DEF Sync
<1> HIDE DEF n
<1>2. d = [rows |-> draft[t].rows, next |-> n, keys |-> draft[t].keys,
           batches |-> draft[t].batches]
  BY DraftUpdates DEF Shaped
<1>3. draft' = [draft EXCEPT ![t] = d] BY <1>1
<1>4. DraftShape(d) BY <1>2, ShapesOfRecords
<1> HIDE DEF d
<1> QED BY <1>0, <1>2, <1>3, <1>4, DraftChange DEF Shaped, n

\* The entry that t inserts.
NewEntry(t) ==
    RehashAuditChainEntry(<<t, pc[t]>>, draft[t].next - 1,
        HashAt(RowsSeen(t), draft[t].next - 1 - 1),
        IF kind[t] = "merkle" THEN batch[t].sig ELSE NoSignature)

LEMMA InsertEffect ==
    ASSUME NEW t \in Txns, Shaped, Insert(t), ~Fail(t)
    PROVE  /\ Shaped' /\ OthersSame(t)
           /\ UNCHANGED <<view, scan, batch, verdict>>
           /\ draft'[t] = [rows |-> draft[t].rows \cup {NewEntry(t)},
                           next |-> draft[t].next, keys |-> draft[t].keys,
                           batches |-> draft[t].batches]
<1> DEFINE r == draft[t].rows \cup {NewEntry(t)}
           d == [draft[t] EXCEPT !.rows = r]
<1>0. UNCHANGED <<view, scan, batch, verdict>> BY DEF Insert
<1>1. draft' = [draft EXCEPT ![t].rows = @ \cup {NewEntry(t)}]
  BY DEF Insert, NewEntry
<1>2. d = [rows |-> r, next |-> draft[t].next, keys |-> draft[t].keys,
           batches |-> draft[t].batches]
  BY DraftUpdates DEF Shaped
<1>3. draft' = [draft EXCEPT ![t] = d] BY <1>1
<1>4. DraftShape(d) BY <1>2, ShapesOfRecords
<1> HIDE DEF d, r
<1> QED BY <1>0, <1>2, <1>3, <1>4, DraftChange DEF Shaped, r

LEMMA KeysEffect ==
    ASSUME NEW t \in Txns, Shaped, NEW ks,
           draft' = [draft EXCEPT ![t].keys = ks],
           UNCHANGED <<view, scan, batch, verdict>>
    PROVE  /\ Shaped' /\ OthersSame(t)
           /\ draft'[t] = [rows |-> draft[t].rows, next |-> draft[t].next,
                           keys |-> ks, batches |-> draft[t].batches]
<1> DEFINE d == [draft[t] EXCEPT !.keys = ks]
<1>2. d = [rows |-> draft[t].rows, next |-> draft[t].next, keys |-> ks,
           batches |-> draft[t].batches]
  BY DraftUpdates DEF Shaped
<1>3. draft' = [draft EXCEPT ![t] = d] OBVIOUS
<1>4. DraftShape(d) BY <1>2, ShapesOfRecords
<1> HIDE DEF d
<1>5. /\ batch' = [u \in Txns |-> batch'[u]] /\ UNCHANGED <<scan, view>>
      /\ verdict' = [u \in Txns |-> verdict'[u]]
      /\ \A u \in Txns : batch'[u] = batch[u] /\ verdict'[u] = verdict[u]
  BY DEF Shaped
<1>6. Shaped' /\ OthersSame(t) /\ draft'[t] = d
  BY <1>3, <1>4, <1>5, DraftChange
<1> QED BY <1>2, <1>6

LEMMA LoadEffect ==
    ASSUME NEW t \in Txns, Shaped, Load(t)
    PROVE  /\ Shaped' /\ OthersSame(t)
           /\ UNCHANGED <<draft, view, batch, verdict>>
           /\ scan'[t].known = {e.id : e \in entries}
           /\ scan'[t].after = scan[t].after /\ scan'[t].seen = scan[t].seen
           /\ scan'[t].prev = scan[t].prev
<1> DEFINE v == {e.id : e \in entries}
           s == [scan[t] EXCEPT !.known = v]
<1>0. UNCHANGED <<draft, view, batch, verdict>> BY DEF Load
<1>1. scan' = [scan EXCEPT ![t].known = v] BY DEF Load
<1> HIDE DEF v
<1>2. s = [after |-> scan[t].after, seen |-> scan[t].seen, prev |-> scan[t].prev,
           known |-> v, committed |-> scan[t].committed]
  BY ScanUpdates DEF Shaped
<1>3. scan' = [scan EXCEPT ![t] = s] BY <1>1
<1>4. ScanShape(s) BY <1>2, ShapesOfRecords
<1> HIDE DEF s
<1>5. Shaped' /\ OthersSame(t) /\ scan'[t] = s
  BY <1>0, <1>3, <1>4, ScanChange DEF Shaped
<1> QED BY <1>0, <1>2, <1>5 DEF v

LEMMA CommitmentEffect ==
    ASSUME NEW t \in Txns, Shaped, Commitment(t)
    PROVE  /\ Shaped' /\ OthersSame(t)
           /\ UNCHANGED <<draft, view, batch, verdict>>
           /\ scan'[t].known = scan[t].known
           /\ scan'[t].after = scan[t].after /\ scan'[t].seen = scan[t].seen
           /\ scan'[t].prev = scan[t].prev
<1> DEFINE v == Cardinality(entries)
           s == [scan[t] EXCEPT !.committed = v]
<1>0. UNCHANGED <<draft, view, batch, verdict>> BY DEF Commitment
<1>1. scan' = [scan EXCEPT ![t].committed = v] BY DEF Commitment
<1> HIDE DEF v
<1>2. s = [after |-> scan[t].after, seen |-> scan[t].seen, prev |-> scan[t].prev,
           known |-> scan[t].known, committed |-> v]
  BY ScanUpdates DEF Shaped
<1>3. scan' = [scan EXCEPT ![t] = s] BY <1>1
<1>4. ScanShape(s) BY <1>2, ShapesOfRecords
<1> HIDE DEF s
<1>5. Shaped' /\ OthersSame(t) /\ scan'[t] = s
  BY <1>0, <1>3, <1>4, ScanChange DEF Shaped
<1> QED BY <1>0, <1>2, <1>5

\* What a reconciliation writes: t's pending entries, relinked in some order.
Relinked(t, order) ==
    {e \in {RehashAuditChainEntry(order[i], Cardinality(entries) + i,
                HashAt(entries, Cardinality(entries)) \o SubSeq(order, 1, i - 1),
                NoSignature) : i \in DOMAIN order} :
     \A f \in entries : f.id # e.id}

LEMMA ReconcileEffect ==
    ASSUME NEW t \in Txns, Shaped, Reconcile(t), ~Fail(t)
    PROVE  /\ Shaped' /\ OthersSame(t) /\ UNCHANGED <<view, batch, verdict>>
           /\ scan'[t].known = scan[t].known
           /\ scan'[t].seen = Cardinality(entries) + Cardinality(Pending(t))
           /\ \E order \in [1..Cardinality(Pending(t)) -> Pending(t)] :
                draft'[t] = [rows |-> Relinked(t, order), next |-> draft[t].next,
                             keys |-> draft[t].keys, batches |-> draft[t].batches]
<1> DEFINE p == Pending(t)
           n == Cardinality(entries) + Cardinality(p)
           s == [scan[t] EXCEPT !.seen = n]
<1>1. PICK order \in [1..Cardinality(p) -> p] :
        /\ draft' = [draft EXCEPT ![t].rows = Relinked(t, order)]
        /\ scan' = [scan EXCEPT ![t].seen = n]
        /\ UNCHANGED <<view, batch, verdict>>
  BY DEF Reconcile, Relinked
<1> DEFINE r == Relinked(t, order)
           d == [draft[t] EXCEPT !.rows = r]
<1> HIDE DEF n, p, r
<1>2. d = [rows |-> r, next |-> draft[t].next, keys |-> draft[t].keys,
           batches |-> draft[t].batches]
  BY DraftUpdates DEF Shaped
<1>3. s = [after |-> scan[t].after, seen |-> n, prev |-> scan[t].prev,
           known |-> scan[t].known, committed |-> scan[t].committed]
  BY ScanUpdates DEF Shaped
<1>4. draft' = [draft EXCEPT ![t] = d] /\ scan' = [scan EXCEPT ![t] = s]
  BY <1>1 DEF r
<1>5. DraftShape(d) /\ ScanShape(s) BY <1>2, <1>3, ShapesOfRecords
<1> HIDE DEF d, s
<1>6. draft' = [u \in Txns |-> draft'[u]] /\ draft'[t] = d
      /\ \A u \in Txns : u # t => draft'[u] = draft[u]
  BY <1>4, UpdateAt DEF Shaped
<1>7. scan' = [u \in Txns |-> scan'[u]] /\ scan'[t] = s
      /\ \A u \in Txns : u # t => scan'[u] = scan[u]
  BY <1>4, UpdateAt DEF Shaped
<1>8. \A u \in Txns : DraftShape(draft'[u]) /\ ScanShape(scan'[u])
  BY <1>5, <1>6, <1>7 DEF Shaped
<1>9. \A u \in Txns : DraftShape(draft[u])' /\ ScanShape(scan[u])'
  BY <1>8 DEF DraftShape, ScanShape
<1>10. Shaped' BY <1>1, <1>6, <1>7, <1>9 DEF Shaped
<1>11. OthersSame(t) BY <1>1, <1>6, <1>7 DEF OthersSame, SameLocal
<1>12. scan'[t].known = scan[t].known /\ scan'[t].seen = n BY <1>3, <1>7
<1>13. draft'[t] = [rows |-> r, next |-> draft[t].next, keys |-> draft[t].keys,
                    batches |-> draft[t].batches]
  BY <1>2, <1>6
<1>14. order \in [1..Cardinality(Pending(t)) -> Pending(t)] BY DEF p
<1>15. \E o \in [1..Cardinality(Pending(t)) -> Pending(t)] :
          draft'[t] = [rows |-> Relinked(t, o), next |-> draft[t].next,
                       keys |-> draft[t].keys, batches |-> draft[t].batches]
  BY <1>13, <1>14, Zenon DEF r
<1>16. scan'[t].seen = Cardinality(entries) + Cardinality(Pending(t)) BY <1>12 DEF n, p
<1> QED BY <1>1, <1>10, <1>11, <1>12, <1>15, <1>16

LEMMA ViewEffect ==
    ASSUME NEW t \in Txns, Shaped, View(t), ~Fail(t)
    PROVE  /\ Shaped' /\ OthersSame(t)
           /\ UNCHANGED <<draft, scan, batch, verdict>>
           /\ view'[t] = ChainView
<1>1. view' = [view EXCEPT ![t] = ChainView] /\ UNCHANGED <<draft, scan, batch, verdict>>
  BY DEF View
<1>2. view' = [u \in Txns |-> view'[u]] /\ view'[t] = ChainView
      /\ \A u \in Txns : u # t => view'[u] = view[u]
  BY <1>1, UpdateAt DEF Shaped
<1> QED BY <1>1, <1>2, PlainChange DEF Shaped

LEMMA LeavesEffect ==
    ASSUME NEW t \in Txns, Shaped, Leaves(t), ~Fail(t)
    PROVE  /\ Shaped' /\ OthersSame(t) /\ UNCHANGED <<draft, scan, view, verdict>>
           /\ \E from, to \in 1..view[t].count :
                /\ from <= to
                /\ batch'[t] = [from |-> from, to |-> to, sig |-> NoSignature,
                                leaves |-> [s \in from..to |-> HashAt(entries, s)]]
<1>1. PICK from \in 1..view[t].count, to \in 1..view[t].count :
        /\ from <= to
        /\ batch' = [batch EXCEPT ![t] =
               [from |-> from, to |-> to, sig |-> NoSignature,
                leaves |-> [s \in from..to |-> HashAt(entries, s)]]]
        /\ UNCHANGED <<draft, scan, view, verdict>>
  BY DEF Leaves
<1> DEFINE b == [from |-> from, to |-> to, sig |-> NoSignature,
                 leaves |-> [s \in from..to |-> HashAt(entries, s)]]
<1>2. batch' = [batch EXCEPT ![t] = b] BY <1>1
<1> HIDE DEF b
<1>3. batch' = [u \in Txns |-> batch'[u]] /\ batch'[t] = b
      /\ \A u \in Txns : u # t => batch'[u] = batch[u]
  BY <1>2, UpdateAt DEF Shaped
<1>4. Shaped' /\ OthersSame(t) BY <1>1, <1>3, PlainChange DEF Shaped
<1> QED BY <1>1, <1>3, <1>4 DEF b

\* The key that a batch is signed with now, and its version.
SigningVersion ==
    IF ActiveKeys(keys) = {} THEN LastVersion + 1
    ELSE CHOOSE x \in ActiveKeys(keys) : \A y \in ActiveKeys(keys) : y <= x
SigningKey ==
    IF ActiveKeys(keys) = {} THEN NewKey(clock) ELSE keys[SigningVersion]
Signed(t) ==
    [batch[t] EXCEPT !.sig = [key |-> SigningVersion, at |-> clock]]
SigningKeyRows ==
    IF ActiveKeys(keys) = {} THEN [x \in {SigningVersion} |-> SigningKey] ELSE << >>

LEMMA SignEffect ==
    ASSUME NEW t \in Txns, Shaped, SignMerkleRoot(t), ~Fail(t)
    PROVE  /\ Shaped' /\ OthersSame(t) /\ UNCHANGED <<scan, view, verdict>>
           /\ batch'[t] = Signed(t)
           /\ draft'[t] = [rows |-> draft[t].rows, next |-> draft[t].next,
                           keys |-> SigningKeyRows, batches |-> {Signed(t)}]
           /\ SigningVersion <= MaxVersion
           /\ ~(SigningKey.from > clock) /\ SigningKey.compromised = 0
           /\ ~(SigningKey.until # 0 /\ clock >= SigningKey.until)
<1>1. /\ SigningVersion <= MaxVersion
      /\ ~(SigningKey.from > clock) /\ SigningKey.compromised = 0
      /\ ~(SigningKey.until # 0 /\ clock >= SigningKey.until)
      /\ batch' = [batch EXCEPT ![t] = Signed(t)]
      /\ draft' = [draft EXCEPT ![t].batches = {Signed(t)},
                                ![t].keys = SigningKeyRows]
      /\ UNCHANGED <<scan, view, verdict>>
  BY DEF SignMerkleRoot, SigningVersion, SigningKey, Signed, SigningKeyRows
<1> DEFINE b == {Signed(t)}  k == SigningKeyRows
           d1 == [draft[t] EXCEPT !.batches = b]
           d == [d1 EXCEPT !.keys = k]
<1>2. draft' = [draft EXCEPT ![t].batches = b, ![t].keys = k] BY <1>1
<1> HIDE DEF b, k
<1>3. d1 = [rows |-> draft[t].rows, next |-> draft[t].next, keys |-> draft[t].keys,
            batches |-> b]
  BY DraftUpdates DEF Shaped
<1>4. DraftShape(d1) BY <1>3, ShapesOfRecords
<1>5. draft' = [draft EXCEPT ![t] = d]
  <2> DEFINE f == [draft EXCEPT ![t].batches = b]
  <2>1. draft' = [f EXCEPT ![t].keys = k] BY <1>2
  <2>2. f = [draft EXCEPT ![t] = d1] OBVIOUS
  <2>3. f[t] = d1 /\ f = [u \in Txns |-> f[u]]
    BY <2>2, UpdateAt DEF Shaped
  <2>4. draft' = [f EXCEPT ![t] = d]
    <3> HIDE DEF f, d1
    <3> QED BY <2>1, <2>3
  <2>5. [f EXCEPT ![t] = d] = [draft EXCEPT ![t] = d]
    <3> HIDE DEF d, d1, f
    <3> QED BY <2>2, <2>3 DEF Shaped
  <2> QED BY <2>4, <2>5
<1> HIDE DEF d1
<1>6. d = [rows |-> draft[t].rows, next |-> draft[t].next, keys |-> k, batches |-> b]
  <2>1. d1.rows = draft[t].rows /\ d1.next = draft[t].next /\ d1.batches = b
    BY <1>3
  <2>2. d = [rows |-> d1.rows, next |-> d1.next, keys |-> k, batches |-> d1.batches]
    BY <1>4, DraftUpdates
  <2> QED BY <2>1, <2>2
<1>7. DraftShape(d) BY <1>6, ShapesOfRecords
<1> HIDE DEF d
<1>8. batch' = [u \in Txns |-> batch'[u]] /\ batch'[t] = Signed(t)
      /\ \A u \in Txns : u # t => batch'[u] = batch[u]
  BY <1>1, UpdateAt DEF Shaped
<1>9. Shaped' /\ OthersSame(t) /\ draft'[t] = d
  <2>1. /\ UNCHANGED <<scan, view>> /\ verdict' = [u \in Txns |-> verdict'[u]]
        /\ \A u \in Txns : u # t => batch'[u] = batch[u] /\ verdict'[u] = verdict[u]
    BY <1>1, <1>8 DEF Shaped
  <2> QED BY <1>5, <1>7, <1>8, <2>1, DraftChange
<1> QED BY <1>1, <1>6, <1>8, <1>9 DEF b, k

LEMMA BatchEffect ==
    ASSUME NEW t \in Txns, Shaped, ReadMerkleVerification(t), ~Fail(t)
    PROVE  /\ Shaped' /\ OthersSame(t) /\ UNCHANGED <<draft, scan, view>>
           /\ \E b \in batches :
                /\ batch'[t] = b
                /\ verdict'[t] = Worst(verdict[t], InspectMerkleBatch(b))
<1>1. PICK b \in batches :
        /\ batch' = [batch EXCEPT ![t] = b]
        /\ verdict' = [verdict EXCEPT ![t] = Worst(verdict[t], InspectMerkleBatch(b))]
        /\ UNCHANGED <<draft, scan, view>>
  BY DEF ReadMerkleVerification
<1> DEFINE w == Worst(verdict[t], InspectMerkleBatch(b))
<1>2. verdict' = [verdict EXCEPT ![t] = w] BY <1>1
<1> HIDE DEF w
<1>3. batch' = [u \in Txns |-> batch'[u]] /\ batch'[t] = b
      /\ \A u \in Txns : u # t => batch'[u] = batch[u]
  BY <1>1, UpdateAt DEF Shaped
<1>4. verdict' = [u \in Txns |-> verdict'[u]] /\ verdict'[t] = w
      /\ \A u \in Txns : u # t => verdict'[u] = verdict[u]
  BY <1>2, UpdateAt DEF Shaped
<1>5. Shaped' /\ OthersSame(t) BY <1>1, <1>3, <1>4, PlainChange DEF Shaped
<1> QED BY <1>1, <1>3, <1>4, <1>5 DEF w

\* The last entry of the page that t reads next.
LastOf(page) == CHOOSE e \in page : \A f \in page : f.seq <= e.seq

LEMMA PageEffect ==
    ASSUME NEW t \in Txns, Shaped, ReadAuditChainVerificationPage(t), ~Fail(t)
    PROVE  /\ Shaped' /\ OthersSame(t) /\ UNCHANGED <<draft, view, batch>>
           /\ scan'[t].known = scan[t].known
           /\ \/ /\ NextPage(t) # {} /\ pc' = pc
                 /\ scan'[t].after = LastOf(NextPage(t)).seq
                 /\ scan'[t].seen = scan[t].seen + Cardinality(NextPage(t))
                 /\ scan'[t].prev = LastOf(NextPage(t)).hash
                 /\ verdict'[t] = Worst(verdict[t], PageIsGood(t, NextPage(t)))
              \/ /\ NextPage(t) = {} /\ pc' = [pc EXCEPT ![t] = @ + 1]
                 /\ scan' = scan
                 /\ scan[t].seen = view[t].count /\ scan[t].after = view[t].head
                 /\ verdict'[t] = Worst(verdict[t], TRUE)
<1> DEFINE page == NextPage(t)
<1>1. CASE page # {}
  <2> DEFINE a == LastOf(page).seq  h == LastOf(page).hash  n == Cardinality(page)
             w == Worst(verdict[t], PageIsGood(t, page))
             s == [after |-> a, seen |-> scan[t].seen + n, prev |-> h,
                   known |-> scan[t].known, committed |-> scan[t].committed]
  <2>1. /\ scan' = [scan EXCEPT ![t].after = a, ![t].seen = @ + n, ![t].prev = h]
        /\ verdict' = [verdict EXCEPT ![t] = w]
        /\ UNCHANGED <<draft, view, batch, pc>>
    BY <1>1 DEF ReadAuditChainVerificationPage, LastOf
  <2> HIDE DEF a, h, n, w, page
  <2>2. scan' = [scan EXCEPT ![t] = s]
    <3>1. scan[t] = [after |-> scan[t].after, seen |-> scan[t].seen,
                     prev |-> scan[t].prev, known |-> scan[t].known,
                     committed |-> scan[t].committed]
      BY DEF Shaped, ScanShape
    <3> DEFINE f1 == [scan EXCEPT ![t].after = a]
               f2 == [f1 EXCEPT ![t].seen = @ + n]
               s1 == [after |-> a, seen |-> scan[t].seen, prev |-> scan[t].prev,
                      known |-> scan[t].known, committed |-> scan[t].committed]
               s2 == [after |-> a, seen |-> scan[t].seen + n, prev |-> scan[t].prev,
                      known |-> scan[t].known, committed |-> scan[t].committed]
    <3>2. scan' = [f2 EXCEPT ![t].prev = h] BY <2>1
    <3>3. f1 = [u \in Txns |-> IF u = t THEN s1 ELSE scan[u]]
      BY <3>1 DEF Shaped
    <3>4. f2 = [u \in Txns |-> IF u = t THEN s2 ELSE scan[u]]
      <4> HIDE DEF f1
      <4> QED BY <3>3
    <3>5. scan' = [u \in Txns |-> IF u = t THEN s ELSE scan[u]]
      <4> HIDE DEF f1, f2
      <4> QED BY <3>2, <3>4
    <3> HIDE DEF s
    <3> QED BY <3>5 DEF Shaped
  <2>3. ScanShape(s) BY ShapesOfRecords
  <2>4. verdict' = [u \in Txns |-> verdict'[u]] /\ verdict'[t] = w
        /\ \A u \in Txns : u # t => verdict'[u] = verdict[u]
    BY <2>1, UpdateAt DEF Shaped
  <2>5. s.after = a /\ s.seen = scan[t].seen + n /\ s.prev = h /\ s.known = scan[t].known
    OBVIOUS
  <2> HIDE DEF s
  <2>6. Shaped' /\ OthersSame(t) /\ scan'[t] = s
    BY <2>1, <2>2, <2>3, <2>4, ScanChange
  <2> QED BY <1>1, <2>1, <2>4, <2>5, <2>6 DEF a, h, n, w, page
<1>2. CASE page = {}
  <2> DEFINE w == Worst(verdict[t], TRUE)
  <2>1. /\ verdict' = [verdict EXCEPT ![t] = w]
        /\ scan[t].seen = view[t].count /\ scan[t].after = view[t].head
        /\ pc' = [pc EXCEPT ![t] = @ + 1]
        /\ UNCHANGED <<draft, view, scan, batch>>
    BY <1>2 DEF ReadAuditChainVerificationPage, Advance
  <2> HIDE DEF w, page
  <2>2. verdict' = [u \in Txns |-> verdict'[u]] /\ verdict'[t] = w
        /\ \A u \in Txns : u # t => verdict'[u] = verdict[u]
    BY <2>1, UpdateAt DEF Shaped
  <2>3. Shaped' /\ OthersSame(t) BY <2>1, <2>2, PlainChange DEF Shaped
  <2> QED BY <1>2, <2>1, <2>2, <2>3 DEF w, page
<1> QED BY <1>1, <1>2

LEMMA EndEffect ==
    ASSUME NEW t \in Txns, Shaped, Fail(t) \/ Commit(t)
    PROVE  /\ Shaped' /\ OthersSame(t)
           /\ draft'[t] = NoDraft /\ scan'[t] = NoScan
           /\ batch'[t] = NoBatch /\ verdict'[t] = "none"
           /\ Commit(t) => view' = view
<1>1. /\ draft' = [draft EXCEPT ![t] = NoDraft]
      /\ scan' = [scan EXCEPT ![t] = NoScan]
      /\ batch' = [batch EXCEPT ![t] = NoBatch]
      /\ verdict' = [verdict EXCEPT ![t] = "none"]
  BY DEF Fail, Commit
<1>2. draft' = [u \in Txns |-> draft'[u]] /\ draft'[t] = NoDraft
      /\ \A u \in Txns : u # t => draft'[u] = draft[u]
  BY <1>1, UpdateAt DEF Shaped
<1>3. scan' = [u \in Txns |-> scan'[u]] /\ scan'[t] = NoScan
      /\ \A u \in Txns : u # t => scan'[u] = scan[u]
  BY <1>1, UpdateAt DEF Shaped
<1>4. batch' = [u \in Txns |-> batch'[u]] /\ batch'[t] = NoBatch
      /\ \A u \in Txns : u # t => batch'[u] = batch[u]
  BY <1>1, UpdateAt DEF Shaped
<1>5. verdict' = [u \in Txns |-> verdict'[u]] /\ verdict'[t] = "none"
      /\ \A u \in Txns : u # t => verdict'[u] = verdict[u]
  BY <1>1, UpdateAt DEF Shaped
<1>6. view' = [u \in Txns |-> view'[u]] /\ \A u \in Txns : u # t => view'[u] = view[u]
  BY DEF Fail, Commit, Shaped
<1>7. \A u \in Txns : DraftShape(draft'[u]) /\ ScanShape(scan'[u])
  BY <1>2, <1>3, ShapesOfRecords DEF Shaped
<1>8. \A u \in Txns : DraftShape(draft[u])' /\ ScanShape(scan[u])'
  BY <1>7 DEF DraftShape, ScanShape
<1>9. Shaped' BY <1>2, <1>3, <1>4, <1>5, <1>6, <1>8 DEF Shaped
<1>10. OthersSame(t)
  BY <1>2, <1>3, <1>4, <1>5, <1>6 DEF OthersSame, SameLocal
<1> QED BY <1>2, <1>3, <1>4, <1>5, <1>9, <1>10 DEF Commit

LEMMA QuietEffect ==
    ASSUME Shaped, UNCHANGED <<draft, view, scan, batch, verdict>>
    PROVE  Shaped' /\ \A u \in Txns : SameLocal(u)
<1>1. \A u \in Txns : DraftShape(draft[u])' /\ ScanShape(scan[u])'
  BY DEF Shaped, DraftShape, ScanShape
<1> QED BY <1>1 DEF Shaped, SameLocal

\* A step of t leaves the other transactions alone.
LEMMA StepFrame ==
    ASSUME NEW t \in Txns, Shaped, Step(t)
    PROVE  Shaped' /\ OthersSame(t)
<1>1. CASE Fail(t) BY <1>1, EndEffect
<1>2. CASE ~Fail(t)
  <2>1. CASE Rotate(t) BY <2>1, KeysEffect DEF Rotate
  <2>2. CASE Revoke(t) BY <1>2, <2>2, KeysEffect DEF Revoke
  <2>3. CASE AbortDeadlock(t) BY <1>2, <2>3 DEF AbortDeadlock
  <2> QED
    BY <1>2, <2>1, <2>2, <2>3, LockEffect, AllocateEffect, InsertEffect,
       LoadEffect, ReconcileEffect, SyncEffect, ViewEffect, CommitmentEffect,
       LeavesEffect, SignEffect, BatchEffect, PageEffect, EndEffect DEF Step
<1> QED BY <1>1, <1>2

-----------------------------------------------------------------------------
(* Where a transaction is in its program                                    *)

LEMMA ProgramOf ==
    ASSUME LockInv, NEW t \in Txns, Open(t)
    PROVE  /\ kind[t] \in Kinds /\ Disciplined(kind[t])
           /\ Len(Program(kind[t])) \in Nat \ {0}
           /\ pc[t] \in 1..Len(Program(kind[t])) + 1
<1>1. kind[t] \in Kinds /\ pc[t] \in 1..Len(Program(kind[t])) + 1
  BY DEF LockInv, OwnLocks
<1>2. Disciplined(kind[t]) BY <1>1, ProgramsDisciplined, AuditChainAssumption
<1> QED BY <1>1, <1>2 DEF Disciplined

\* Whoever has reached a statement on the chain holds the chain's lock.
LEMMA LateHoldsChain ==
    ASSUME LockInv, NEW t \in Txns, Open(t),
           NEW i \in 1..Len(Program(kind[t])), i <= pc[t],
           Program(kind[t])[i] \in Late
    PROVE  "chain" \in held[t]
<1> DEFINE p == Program(kind[t])
<1>1. ChainFirst(p) /\ Len(p) \in Nat /\ pc[t] \in Nat
  BY ProgramOf DEF Disciplined, LockInv, ControlType
<1>2. p[i] \in Late OBVIOUS
<1> HIDE DEF p
<1>3. PICK c \in 1..Len(p) :
        p[c] = "chain" /\ \A j \in 1..Len(p) : j < c => p[j] \in Early
  BY <1>1 DEF ChainFirst
<1>4. p[i] \notin Early /\ p[i] # "chain" BY <1>2 DEF Late, Early
<1>5. c < i BY <1>1, <1>3, <1>4 DEF p
<1>6. c \in 1..pc[t] - 1 BY <1>1, <1>3, <1>5
<1>7. Passed(t, "chain") BY <1>3, <1>6 DEF Passed, Stmt, p
<1> QED BY <1>7 DEF LockInv, OwnLocks, Locks

LEMMA PassedLateHoldsChain ==
    ASSUME LockInv, NEW t \in Txns, Open(t), NEW s \in Late,
           Passed(t, s) \/ At(t, s)
    PROVE  "chain" \in held[t]
<1>1. pc[t] \in 1..Len(Program(kind[t])) + 1 /\ Len(Program(kind[t])) \in Nat
  BY ProgramOf
<1>2. CASE Passed(t, s)
  <2>1. PICK i \in 1..pc[t] - 1 : Program(kind[t])[i] = s
    BY <1>2 DEF Passed, Stmt
  <2>2. i \in 1..Len(Program(kind[t])) /\ i <= pc[t] BY <1>1
  <2> QED BY <2>1, <2>2, LateHoldsChain
<1>3. CASE At(t, s)
  <2>1. pc[t] \in 1..Len(Program(kind[t])) /\ pc[t] <= pc[t] BY <1>1, <1>3 DEF At
  <2> QED BY <1>3, <2>1, LateHoldsChain DEF At
<1> QED BY <1>2, <1>3

\* So does whoever is about to commit.
LEMMA FinishedHoldsChain ==
    ASSUME LockInv, NEW t \in Txns, Open(t),
           pc[t] = Len(Program(kind[t])) + 1
    PROVE  "chain" \in held[t]
<1> DEFINE p == Program(kind[t])
<1>1. ChainFirst(p) /\ Len(p) \in Nat BY ProgramOf DEF Disciplined
<1>2. PICK c \in 1..Len(p) : p[c] = "chain" BY <1>1 DEF ChainFirst
<1>3. c \in 1..pc[t] - 1 BY <1>1, <1>2
<1>4. Passed(t, "chain") BY <1>2, <1>3 DEF Passed, Stmt
<1> QED BY <1>4 DEF LockInv, OwnLocks, Locks

\* While one transaction holds the chain's lock, no other is past it.
LEMMA ChainIsExclusive ==
    ASSUME LockInv, NEW t \in Txns, "chain" \in held[t],
           NEW u \in Txns, u # t, Open(u), NEW s \in Late
    PROVE  ~Passed(u, s) /\ ~At(u, s)
<1>1. "chain" \notin held[u] BY DEF LockInv, Conflicts
<1> QED BY <1>1, PassedLateHoldsChain

\* How a move changes what is passed and what comes next.
LEMMA MovePosition ==
    ASSUME LockInv, NEW t \in Txns, NEW s \in Statements, Moves(t, s),
           pc'[t] = pc[t] + 1
    PROVE  /\ \A x : Passed(t, x)' <=> Passed(t, x) \/ x = s
           /\ \A x : At(t, x) <=> x = s
           /\ At(t, "insert")' <=> s = "allocate"
           /\ At(t, "sync")' <=> s = "reconcile"
<1> DEFINE p == Program(kind[t])
<1>1. /\ Open(t) /\ Stmt(t, pc[t]) = s /\ pc[t] \in 1..Len(p)
      /\ Len(p) \in Nat \ {0} /\ Paired(p) /\ kind' = kind /\ status' = status
  BY MoveControl, ProgramOf DEF Moves, Disciplined
<1>2. \A x : At(t, x) <=> x = s BY <1>1 DEF At, Stmt, Open
<1>3. ASSUME NEW x PROVE Passed(t, x)' <=> Passed(t, x) \/ x = s
  <2>1. ASSUME Passed(t, x)' PROVE Passed(t, x) \/ x = s
    <3>1. PICK i \in 1..pc'[t] - 1 : p[i] = x
      BY <1>1, <2>1 DEF Passed, Stmt
    <3>2. i = pc[t] \/ i \in 1..pc[t] - 1 BY <1>1
    <3> QED BY <1>1, <3>1, <3>2 DEF Passed, Stmt
  <2>2. ASSUME Passed(t, x) \/ x = s PROVE Passed(t, x)'
    <3>1. PICK i \in 1..pc[t] : p[i] = x BY <1>1, <2>2 DEF Passed, Stmt
    <3>2. i \in 1..pc'[t] - 1 BY <1>1
    <3> QED BY <1>1, <3>1, <3>2 DEF Passed, Stmt
  <2> QED BY <2>1, <2>2
<1>4. p[pc[t]] = s BY <1>1 DEF Stmt
<1>5. CASE pc[t] = Len(p)
  <2>1. s \notin {"allocate", "reconcile"} BY <1>1, <1>4, <1>5 DEF Paired
  <2>2. ~At(t, "insert")' /\ ~At(t, "sync")' BY <1>1, <1>5 DEF At
  <2> QED BY <1>2, <1>3, <2>1, <2>2
<1>6. CASE pc[t] # Len(p)
  <2>1. pc[t] \in 1..Len(p) - 1 BY <1>1, <1>6
  <2>2. Follows(p[pc[t]], p[pc[t] + 1]) BY <1>1, <2>1 DEF Paired
  <2>3. pc'[t] <= Len(p) BY <1>1, <2>1
  <2> HIDE DEF p
  <2>4. \A x : At(t, x)' <=> p[pc[t] + 1] = x
    BY <1>1, <2>3 DEF At, Open, p
  <2> QED BY <1>2, <1>3, <1>4, <2>2, <2>4 DEF Follows
<1> QED BY <1>5, <1>6

-----------------------------------------------------------------------------
(* The invariant of the chain                                               *)

\* How long the chain is that an open transaction sees.
Extent(t) ==
    IF At(t, "insert") THEN draft[t].next - 2
    ELSE IF At(t, "sync") THEN scan[t].seen ELSE NextSeen(t) - 1

DraftInv(t) ==
    /\ GoodChain(RowsSeen(t), Extent(t))
    /\ ~Passed(t, "allocate") /\ ~Passed(t, "sync") => draft[t].next = 0
    /\ ~Passed(t, "insert") /\ ~Passed(t, "reconcile") => draft[t].rows = {}

\* Under the chain's lock a view stays what it was.
ViewInv(t) ==
    Passed(t, "view") =>
        /\ view[t].count = nextSeq - 1 /\ view[t].head = nextSeq - 1
        /\ view[t].hash = HashAt(entries, nextSeq - 1)

ReceiptInv(t) ==
    kind[t] \in Certifiers /\ Passed(t, "insert") =>
        \E e \in draft[t].rows : /\ e.id[1] = t /\ e.seq = nextSeq
                                 /\ e.prev = HashAt(entries, nextSeq - 1)

ChainOf(t) ==
    /\ ~Open(t) => draft[t] = NoDraft
    /\ draft[t].next \in Nat
    /\ \A e \in draft[t].rows : e.id[1] = t /\ e.id[2] < pc[t]
    /\ \A x \in scan[t].known : \E e \in entries : x = e.id
    /\ Open(t) => DraftInv(t) /\ ViewInv(t) /\ ReceiptInv(t)

ChainInv ==
    /\ Shaped
    /\ nextSeq \in Nat \ {0} /\ GoodChain(entries, nextSeq - 1)
    /\ \A e \in entries : e.id[1] \in Txns => status[e.id[1]] = "committed"
    /\ \A t \in Txns : ChainOf(t)
    /\ ReceiptFollowsView

LEMMA ChainOfUntouched ==
    ASSUME NEW u \in Txns, ChainOf(u), SameLocal(u), status'[u] = status[u],
           kind'[u] = kind[u], pc'[u] = pc[u], entries' = entries,
           nextSeq' = nextSeq
    PROVE  ChainOf(u)'
<1>1. /\ draft'[u] = draft[u] /\ scan'[u] = scan[u] /\ view'[u] = view[u]
      /\ \A x : At(u, x)' <=> At(u, x)
      /\ \A x : Passed(u, x)' <=> Passed(u, x)
      /\ Open(u)' <=> Open(u)
  BY DEF SameLocal, At, Passed, Stmt, Open
<1>2. RowsSeen(u)' = RowsSeen(u) /\ Extent(u)' = Extent(u)
  BY <1>1 DEF RowsSeen, Extent, NextSeen
<1>3. DraftInv(u) => DraftInv(u)' BY <1>1, <1>2 DEF DraftInv
<1>4. ViewInv(u) => ViewInv(u)' BY <1>1 DEF ViewInv
<1>5. ReceiptInv(u) => ReceiptInv(u)' BY <1>1 DEF ReceiptInv
<1> QED BY <1>1, <1>3, <1>4, <1>5 DEF ChainOf

LEMMA RowsAreGood ==
    ASSUME NEW t \in Txns, Open(t), ChainOf(t)
    PROVE  \A e \in RowsSeen(t) : e.id \in Ids
BY DEF ChainOf, DraftInv, GoodChain, GoodRow

LEMMA IdsArePairs ==
    ASSUME NEW id \in Ids
    PROVE  id = <<id[1], id[2]>> /\ id[2] \in Nat
BY DEF Ids

\* No row that t sees has the identifier of the entry that t makes next.
LEMMA NewIdIsFresh ==
    ASSUME LockInv, ChainInv, NEW t \in Txns, Open(t)
    PROVE  <<t, pc[t]>> \in Ids /\ \A e \in RowsSeen(t) : e.id # <<t, pc[t]>>
<1>1. pc[t] \in Nat BY DEF LockInv, ControlType
<1>2. ASSUME NEW e \in entries PROVE e.id # <<t, pc[t]>>
  BY DEF ChainInv, Open
<1>3. ASSUME NEW e \in draft[t].rows PROVE e.id # <<t, pc[t]>>
  <2>1. e.id[2] < pc[t] BY DEF ChainInv, ChainOf
  <2>2. e.id \in Ids BY RowsAreGood DEF ChainInv, RowsSeen
  <2>3. e.id[2] \in Nat BY <2>2, IdsArePairs
  <2> QED BY <1>1, <2>1, <2>3
<1> QED BY <1>1, <1>2, <1>3 DEF Ids, RowsSeen

\* The statements that leave the chain and the transaction's view of it alone.
LEMMA NeutralMove ==
    ASSUME LockInv, ChainInv, NEW t \in Txns, NEW s \in Statements, Moves(t, s),
           s \notin {"allocate", "insert", "reconcile", "sync", "view"},
           draft'[t].rows = draft[t].rows, draft'[t].next = draft[t].next,
           view'[t] = view[t],
           \A x \in scan'[t].known : \E e \in entries : x = e.id
    PROVE  ChainOf(t)'
<1>0. /\ Open(t) /\ Open(t)' /\ entries' = entries /\ nextSeq' = nextSeq
      /\ kind'[t] = kind[t] /\ status' = status
  BY MoveControl DEF Moves, Open
<1>1. /\ \A x \in {"allocate", "insert", "reconcile", "sync", "view"} :
            Passed(t, x)' <=> Passed(t, x)
      /\ ~At(t, "insert") /\ ~At(t, "sync")
      /\ ~At(t, "insert")' /\ ~At(t, "sync")'
  <2>1. CASE pc'[t] = pc[t] + 1 BY <2>1, MovePosition
  <2>2. CASE pc'[t] = pc[t]
    <3>1. \A x : (Passed(t, x)' <=> Passed(t, x)) /\ (At(t, x)' <=> At(t, x))
      BY <1>0, <2>2 DEF Passed, At, Stmt
    <3>2. ~At(t, "insert") /\ ~At(t, "sync") BY DEF Moves, At
    <3> QED BY <3>1, <3>2
  <2> QED BY <2>1, <2>2, MoveControl
<1>2. RowsSeen(t)' = RowsSeen(t) /\ Extent(t)' = Extent(t)
  BY <1>0, <1>1 DEF RowsSeen, Extent, NextSeen
<1>3. ChainOf(t) /\ DraftInv(t) /\ ViewInv(t) /\ ReceiptInv(t)
  BY <1>0 DEF ChainInv, ChainOf
<1>4. DraftInv(t)' BY <1>1, <1>2, <1>3 DEF DraftInv
<1>5. ViewInv(t)' BY <1>0, <1>1, <1>3 DEF ViewInv
<1>6. ReceiptInv(t)' BY <1>0, <1>1, <1>3 DEF ReceiptInv
<1>7. \A e \in draft'[t].rows : e.id[1] = t /\ e.id[2] < pc'[t]
  <2> TAKE e \in draft'[t].rows
  <2>1. e.id[1] = t /\ e.id[2] < pc[t] BY <1>3 DEF ChainOf
  <2>2. e.id[2] \in Nat BY <1>0, <1>3, RowsAreGood, IdsArePairs DEF RowsSeen
  <2>3. pc[t] \in Nat /\ pc'[t] \in {pc[t], pc[t] + 1}
    BY MoveControl DEF LockInv, ControlType
  <2> QED BY <2>1, <2>2, <2>3
<1> QED BY <1>0, <1>3, <1>4, <1>5, <1>6, <1>7 DEF ChainOf

\* The statements other than page advance.
LEMMA StatementAdvances ==
    ASSUME LockInv, NEW t \in Txns, NEW s \in Statements, Moves(t, s), s # "page"
    PROVE  /\ pc'[t] = pc[t] + 1 /\ pc[t] \in Nat \ {0}
           /\ Open(t) /\ Open(t)' /\ entries' = entries /\ nextSeq' = nextSeq
           /\ kind' = kind /\ status' = status
BY MoveControl DEF Moves, Open, LockInv, ControlType

\* Rows that t has made stay older than its next statement.
LEMMA OlderRows ==
    ASSUME LockInv, ChainInv, NEW t \in Txns, Open(t), pc'[t] = pc[t] + 1,
           NEW e \in draft[t].rows
    PROVE  e.id[1] = t /\ e.id[2] < pc'[t]
<1>1. e.id[1] = t /\ e.id[2] < pc[t] BY DEF ChainInv, ChainOf
<1>2. e.id[2] \in Nat BY RowsAreGood, IdsArePairs DEF RowsSeen, ChainInv
<1>3. pc[t] \in Nat BY DEF LockInv, ControlType
<1> QED BY <1>1, <1>2, <1>3

LEMMA AllocateMove ==
    ASSUME LockInv, ChainInv, NEW t \in Txns, Moves(t, "allocate"), Allocate(t)
    PROVE  ChainOf(t)'
<1> "allocate" \in Statements BY DEF Statements, Late
<1>0. /\ pc'[t] = pc[t] + 1 /\ Open(t) /\ Open(t)' /\ entries' = entries
      /\ nextSeq' = nextSeq /\ kind' = kind
  BY StatementAdvances
<1>1. /\ draft'[t].rows = draft[t].rows /\ draft'[t].next = NextSeen(t) + 1
      /\ view' = view /\ scan' = scan
  <2>1. Shaped BY DEF ChainInv
  <2>2. /\ UNCHANGED <<view, scan>>
        /\ draft'[t] = [rows |-> draft[t].rows, next |-> NextSeen(t) + 1,
                        keys |-> draft[t].keys, batches |-> draft[t].batches]
    BY <2>1, AllocateEffect
  <2> QED BY <2>2
<1>2. /\ \A x : Passed(t, x)' <=> Passed(t, x) \/ x = "allocate"
      /\ ~At(t, "insert") /\ ~At(t, "sync") /\ At(t, "insert")'
  BY <1>0, MovePosition
<1>3. DraftInv(t) /\ ViewInv(t) /\ ReceiptInv(t) /\ ChainOf(t)
  BY <1>0 DEF ChainInv, ChainOf
<1>4. NextSeen(t) \in Nat BY <1>3 DEF NextSeen, ChainInv, ChainOf
<1>5. RowsSeen(t)' = RowsSeen(t) BY <1>0, <1>1 DEF RowsSeen
<1>6. Extent(t) = NextSeen(t) - 1 BY <1>2 DEF Extent
<1>7. Extent(t)' = NextSeen(t) - 1 BY <1>1, <1>2, <1>4 DEF Extent
<1>8. DraftInv(t)' BY <1>1, <1>2, <1>3, <1>5, <1>6, <1>7 DEF DraftInv
<1>9. ViewInv(t)' BY <1>0, <1>1, <1>2, <1>3 DEF ViewInv
<1>10. ReceiptInv(t)' BY <1>0, <1>1, <1>2, <1>3 DEF ReceiptInv
<1>11. \A e \in draft'[t].rows : e.id[1] = t /\ e.id[2] < pc'[t]
  BY <1>0, <1>1, OlderRows
<1>12. draft'[t].next \in Nat BY <1>1, <1>4
<1>13. \A x \in scan'[t].known : \E e \in entries' : x = e.id
  BY <1>0, <1>1, <1>3 DEF ChainOf
<1> QED BY <1>0, <1>8, <1>9, <1>10, <1>11, <1>12, <1>13 DEF ChainOf

LEMMA SyncMove ==
    ASSUME LockInv, ChainInv, NEW t \in Txns, Moves(t, "sync"), Sync(t)
    PROVE  ChainOf(t)'
<1> "sync" \in Statements BY DEF Statements, Late
<1>0. /\ pc'[t] = pc[t] + 1 /\ Open(t) /\ Open(t)' /\ entries' = entries
      /\ nextSeq' = nextSeq /\ kind' = kind
  BY StatementAdvances
<1> DEFINE seen == scan[t].seen
           n == IF NextSeen(t) > seen + 1 THEN NextSeen(t) ELSE seen + 1
<1>1. /\ draft'[t].rows = draft[t].rows /\ draft'[t].next = n
      /\ view' = view /\ scan' = scan
  <2>1. Shaped BY DEF ChainInv
  <2>2. /\ UNCHANGED <<view, scan>>
        /\ draft'[t] = [rows |-> draft[t].rows, next |-> n,
                        keys |-> draft[t].keys, batches |-> draft[t].batches]
    BY <2>1, SyncEffect
  <2> QED BY <2>2
<1>2. /\ \A x : Passed(t, x)' <=> Passed(t, x) \/ x = "sync"
      /\ ~At(t, "insert") /\ At(t, "sync") /\ ~At(t, "insert")' /\ ~At(t, "sync")'
  BY <1>0, MovePosition
<1>3. DraftInv(t) /\ ViewInv(t) /\ ReceiptInv(t) /\ ChainOf(t)
  BY <1>0 DEF ChainInv, ChainOf
<1>4. GoodChain(RowsSeen(t), seen) BY <1>2, <1>3 DEF DraftInv, Extent
<1>5. NextSeen(t) = nextSeq
  <2>1. Placed(kind[t], Len(Program(kind[t])), pc[t], "sync") /\ kind[t] \in Kinds
    BY <1>0, <1>2, MoveControl, ProgramOf DEF Disciplined, Stmt
  <2>2. kind[t] = "mutation" /\ pc[t] = 5 BY <2>1 DEF Placed
  <2>3. ASSUME NEW x \in {"allocate", "sync"}, Passed(t, x) PROVE FALSE
    <3>1. PICK i \in 1..pc[t] - 1 : Program(kind[t])[i] = x
      BY <2>3 DEF Passed, Stmt
    <3>2. i \in 1..Len(Program(kind[t]))
      BY <1>0, <2>2, ProgramOf, MoveControl
    <3>3. Placed(kind[t], Len(Program(kind[t])), i, x)
      BY <1>0, <3>1, <3>2, ProgramOf DEF Disciplined
    <3> QED BY <2>2, <3>3 DEF Placed
  <2>4. draft[t].next = 0 BY <1>3, <2>3 DEF DraftInv
  <2> QED BY <2>4 DEF NextSeen
<1>6. seen \in Nat /\ nextSeq \in Nat /\ nextSeq - 1 <= seen
  <2>1. GoodChain(entries, nextSeq - 1) /\ nextSeq \in Nat BY DEF ChainInv
  <2>2. entries \subseteq RowsSeen(t) BY DEF RowsSeen
  <2>3. IsFiniteSet(RowsSeen(t)) /\ Cardinality(RowsSeen(t)) = seen /\ seen \in Nat
    BY <1>4 DEF GoodChain
  <2>4. Cardinality(entries) <= Cardinality(RowsSeen(t))
    BY <2>2, <2>3, FS_Subset
  <2> QED BY <2>1, <2>3, <2>4 DEF GoodChain
<1>7. n = seen + 1 BY <1>5, <1>6
<1> HIDE DEF n, seen
<1>8. RowsSeen(t)' = RowsSeen(t) BY <1>0, <1>1 DEF RowsSeen
<1>9. Extent(t)' = seen BY <1>1, <1>2, <1>6, <1>7 DEF Extent, NextSeen
<1>10. DraftInv(t)' BY <1>1, <1>2, <1>3, <1>4, <1>8, <1>9 DEF DraftInv
<1>11. ViewInv(t)' BY <1>0, <1>1, <1>2, <1>3 DEF ViewInv
<1>12. ReceiptInv(t)' BY <1>0, <1>1, <1>2, <1>3 DEF ReceiptInv
<1>13. \A e \in draft'[t].rows : e.id[1] = t /\ e.id[2] < pc'[t]
  BY <1>0, <1>1, OlderRows
<1>14. draft'[t].next \in Nat BY <1>1, <1>6, <1>7
<1>15. \A x \in scan'[t].known : \E e \in entries' : x = e.id
  BY <1>0, <1>1, <1>3 DEF ChainOf
<1> QED BY <1>0, <1>10, <1>11, <1>12, <1>13, <1>14, <1>15 DEF ChainOf

LEMMA InsertMove ==
    ASSUME LockInv, ChainInv, NEW t \in Txns, Moves(t, "insert"), Insert(t), ~Fail(t)
    PROVE  ChainOf(t)'
<1> "insert" \in Statements BY DEF Statements, Late
<1>0. /\ pc'[t] = pc[t] + 1 /\ pc[t] \in Nat \ {0} /\ Open(t) /\ Open(t)'
      /\ entries' = entries /\ nextSeq' = nextSeq /\ kind' = kind
  BY StatementAdvances
<1> DEFINE e == NewEntry(t)
<1>1. /\ draft'[t].rows = draft[t].rows \cup {e} /\ draft'[t].next = draft[t].next
      /\ view' = view /\ scan' = scan
  <2>1. Shaped BY DEF ChainInv
  <2>2. /\ UNCHANGED <<view, scan>>
        /\ draft'[t] = [rows |-> draft[t].rows \cup {e}, next |-> draft[t].next,
                        keys |-> draft[t].keys, batches |-> draft[t].batches]
    BY <2>1, InsertEffect
  <2> QED BY <2>2
<1>2. /\ \A x : Passed(t, x)' <=> Passed(t, x) \/ x = "insert"
      /\ At(t, "insert") /\ ~At(t, "sync") /\ ~At(t, "insert")' /\ ~At(t, "sync")'
  BY <1>0, MovePosition
<1>3. DraftInv(t) /\ ViewInv(t) /\ ReceiptInv(t) /\ ChainOf(t)
  BY <1>0 DEF ChainInv, ChainOf
<1> DEFINE n == draft[t].next - 2
<1>4. GoodChain(RowsSeen(t), n) BY <1>2, <1>3 DEF DraftInv, Extent
<1>5. draft[t].next \in Nat /\ n \in Nat
  BY <1>3, <1>4 DEF ChainOf, GoodChain
<1>6. draft[t].next - 1 = n + 1 /\ draft[t].next - 1 - 1 = n BY <1>5
<1> DEFINE sig == IF kind[t] = "merkle" THEN batch[t].sig ELSE NoSignature
<1>7. e = RehashAuditChainEntry(<<t, pc[t]>>, n + 1, HashAt(RowsSeen(t), n), sig)
  BY <1>6 DEF NewEntry
<1> HIDE DEF e, n, sig
<1>8. GoodChain(RowsSeen(t) \cup {e}, n + 1)
  BY <1>0, <1>4, <1>7, NewIdIsFresh, ChainGrows
<1>9. RowsSeen(t)' = RowsSeen(t) \cup {e} BY <1>0, <1>1 DEF RowsSeen
<1>10. Extent(t)' = n + 1
  BY <1>1, <1>2, <1>5, <1>6 DEF Extent, NextSeen, n
<1>11. e.id = <<t, pc[t]>> /\ e.seq = n + 1 /\ e.prev = HashAt(RowsSeen(t), n)
  BY <1>7 DEF RehashAuditChainEntry
<1>12. DraftInv(t)' BY <1>1, <1>2, <1>3, <1>8, <1>9, <1>10 DEF DraftInv
<1>13. ViewInv(t)' BY <1>0, <1>1, <1>2, <1>3 DEF ViewInv
<1>14. ReceiptInv(t)'
  <2> SUFFICES ASSUME kind[t] \in Certifiers
               PROVE  \E f \in draft'[t].rows :
                         /\ f.id[1] = t /\ f.seq = nextSeq'
                         /\ f.prev = HashAt(entries', nextSeq' - 1)
    BY <1>0 DEF ReceiptInv
  <2>1. Placed(kind[t], Len(Program(kind[t])), pc[t], "insert")
    BY <1>0, <1>2, MoveControl, ProgramOf DEF Disciplined, Stmt
  <2>2. pc[t] \in 1..Len(Program(kind[t])) /\ Len(Program(kind[t])) \in Nat \ {0}
    BY <1>0, MoveControl, ProgramOf
  <2>3. kind[t] # "mutation" BY DEF Certifiers
  <2>4. ~Passed(t, "insert") /\ ~Passed(t, "reconcile")
    <3>1. SUFFICES ASSUME NEW i \in 1..pc[t] - 1,
                          Program(kind[t])[i] \in {"insert", "reconcile"}
                   PROVE  FALSE
      BY DEF Passed, Stmt
    <3>2. i \in 1..Len(Program(kind[t])) BY <2>2
    <3>3. Placed(kind[t], Len(Program(kind[t])), i, Program(kind[t])[i])
      BY <1>0, <3>2, ProgramOf DEF Disciplined
    <3>4. Program(kind[t])[i] = "insert" BY <2>3, <3>1, <3>3 DEF Placed
    <3>5. i >= Len(Program(kind[t])) - 1 BY <3>3, <3>4 DEF Placed
    <3>6. i = pc[t] - 1 /\ pc[t] = Len(Program(kind[t])) BY <2>2, <3>5
    <3>7. i \in 1..Len(Program(kind[t])) - 1 /\ i + 1 = pc[t] BY <2>2, <3>6
    <3>8. Follows(Program(kind[t])[i], Program(kind[t])[pc[t]])
      BY <1>0, <3>7, ProgramOf DEF Disciplined, Paired
    <3>9. Program(kind[t])[pc[t]] = "insert" BY <1>2 DEF At
    <3> QED BY <3>4, <3>8, <3>9 DEF Follows
  <2>5. RowsSeen(t) = entries BY <1>3, <2>4 DEF DraftInv, RowsSeen
  <2>6. GoodChain(entries, nextSeq - 1) /\ nextSeq \in Nat BY DEF ChainInv
  <2>7. n = nextSeq - 1 BY <1>4, <2>5, <2>6 DEF GoodChain
  <2>8. e.id[1] = t /\ e.seq = nextSeq /\ e.prev = HashAt(entries, nextSeq - 1)
    BY <1>11, <2>5, <2>6, <2>7
  <2> QED BY <1>0, <1>1, <2>8
<1>15. \A f \in draft'[t].rows : f.id[1] = t /\ f.id[2] < pc'[t]
  <2> TAKE f \in draft'[t].rows
  <2>1. CASE f \in draft[t].rows BY <1>0, <2>1, OlderRows
  <2>2. CASE f = e BY <1>0, <1>11, <2>2
  <2> QED BY <1>1, <2>1, <2>2
<1>16. draft'[t].next \in Nat BY <1>1, <1>5
<1>17. \A x \in scan'[t].known : \E f \in entries' : x = f.id
  BY <1>0, <1>1, <1>3 DEF ChainOf
<1> QED BY <1>0, <1>12, <1>13, <1>14, <1>15, <1>16, <1>17 DEF ChainOf

\* A mutation has one pending entry, its own: what it has loaded is durable.
LEMMA OnePending ==
    ASSUME LockInv, ChainInv, NEW t \in Txns, Open(t)
    PROVE  Pending(t) = {<<t, pc[t]>>} /\ Cardinality(Pending(t)) = 1
<1>1. \A x \in scan[t].known : \E e \in entries : x = e.id
  BY DEF ChainInv, ChainOf
<1>2. \A e \in entries : e.id # <<t, pc[t]>> BY NewIdIsFresh DEF RowsSeen
<1>3. Pending(t) = {<<t, pc[t]>>} BY <1>1, <1>2 DEF Pending
<1>4. Cardinality({<<t, pc[t]>>}) = 1 BY FS_Singleton
<1> QED BY <1>3, <1>4

\* So a reconciliation appends exactly that entry to the durable chain.
LEMMA RelinkedIsOneEntry ==
    ASSUME LockInv, ChainInv, NEW t \in Txns, Open(t),
           NEW order \in [1..Cardinality(Pending(t)) -> Pending(t)]
    PROVE  Relinked(t, order) =
               {RehashAuditChainEntry(<<t, pc[t]>>, nextSeq - 1 + 1,
                    HashAt(entries, nextSeq - 1), NoSignature)}
<1> DEFINE n == nextSeq - 1
           id == <<t, pc[t]>>
           h == HashAt(entries, n)
           e == RehashAuditChainEntry(id, n + 1, h, NoSignature)
<1>1. GoodChain(entries, n) /\ n \in Nat /\ Cardinality(entries) = n
  BY DEF ChainInv, GoodChain
<1>2. h \in Seq(Ids) BY <1>1, HeadHash
<1>3. Pending(t) = {id} /\ Cardinality(Pending(t)) = 1 BY OnePending
<1>4. order \in [1..1 -> {id}] BY <1>3
<1>5. 1..1 = {1} OBVIOUS
<1>6. DOMAIN order = {1} /\ order[1] = id BY <1>4, <1>5
<1>7. SubSeq(order, 1, 1 - 1) = << >> BY SubSeqEmpty
<1>8. h \o SubSeq(order, 1, 1 - 1) = h BY <1>2, <1>7, ConcatEmptySeq
<1>9. e.id = id BY DEF RehashAuditChainEntry
<1>10. \A f \in entries : f.id # e.id BY <1>9, NewIdIsFresh DEF RowsSeen
<1> DEFINE row(i) == RehashAuditChainEntry(order[i], n + i,
                         h \o SubSeq(order, 1, i - 1), NoSignature)
<1>11. row(1) = e BY <1>6, <1>8
<1>12. Relinked(t, order) =
         {f \in {row(i) : i \in DOMAIN order} : \A g \in entries : g.id # f.id}
  BY <1>1 DEF Relinked
<1> HIDE DEF row, e
<1>13. {row(i) : i \in DOMAIN order} = {e} BY <1>6, <1>11
<1>14. Relinked(t, order) = {e} BY <1>10, <1>12, <1>13
<1> QED BY <1>14 DEF e

LEMMA ReconcileMove ==
    ASSUME LockInv, ChainInv, NEW t \in Txns, Moves(t, "reconcile"), Reconcile(t),
           ~Fail(t)
    PROVE  ChainOf(t)'
<1> "reconcile" \in Statements BY DEF Statements, Late
<1>0. /\ pc'[t] = pc[t] + 1 /\ pc[t] \in Nat \ {0} /\ Open(t) /\ Open(t)'
      /\ entries' = entries /\ nextSeq' = nextSeq /\ kind' = kind
  BY StatementAdvances
<1> DEFINE n == nextSeq - 1
           e == RehashAuditChainEntry(<<t, pc[t]>>, n + 1, HashAt(entries, n),
                                      NoSignature)
<1>1. /\ draft'[t].rows = {e} /\ draft'[t].next = draft[t].next
      /\ view' = view /\ scan'[t].known = scan[t].known /\ scan'[t].seen = n + 1
  <2>1. Shaped /\ Cardinality(entries) = n BY DEF ChainInv, GoodChain
  <2>2. /\ UNCHANGED view /\ scan'[t].known = scan[t].known
        /\ scan'[t].seen = Cardinality(entries) + Cardinality(Pending(t))
    BY <2>1, ReconcileEffect
  <2>3. PICK order \in [1..Cardinality(Pending(t)) -> Pending(t)] :
            draft'[t] = [rows |-> Relinked(t, order), next |-> draft[t].next,
                         keys |-> draft[t].keys, batches |-> draft[t].batches]
    BY <2>1, ReconcileEffect
  <2>4. Relinked(t, order) = {e} BY <1>0, RelinkedIsOneEntry
  <2>5. Cardinality(Pending(t)) = 1 BY <1>0, OnePending
  <2> HIDE DEF e, n
  <2> QED BY <2>1, <2>2, <2>3, <2>4, <2>5
<1>2. /\ \A x : Passed(t, x)' <=> Passed(t, x) \/ x = "reconcile"
      /\ ~At(t, "insert")' /\ At(t, "sync")'
  BY <1>0, MovePosition
<1>3. DraftInv(t) /\ ViewInv(t) /\ ReceiptInv(t) /\ ChainOf(t)
  BY <1>0 DEF ChainInv, ChainOf
<1>4. GoodChain(entries, n) /\ n \in Nat BY DEF ChainInv, GoodChain
<1>5. <<t, pc[t]>> \in Ids /\ \A f \in entries : f.id # <<t, pc[t]>>
  BY <1>0, NewIdIsFresh DEF RowsSeen
<1>6. GoodChain(entries \cup {e}, n + 1) BY <1>4, <1>5, ChainGrows
<1>7. e.id = <<t, pc[t]>> BY DEF RehashAuditChainEntry
<1> HIDE DEF e, n
<1>8. RowsSeen(t)' = entries \cup {e} BY <1>0, <1>1 DEF RowsSeen
<1>9. Extent(t)' = n + 1 BY <1>1, <1>2 DEF Extent
<1>10. DraftInv(t)' BY <1>1, <1>2, <1>3, <1>6, <1>8, <1>9 DEF DraftInv
<1>11. ViewInv(t)' BY <1>0, <1>1, <1>2, <1>3 DEF ViewInv
<1>12. ReceiptInv(t)'
  <2>1. Placed(kind[t], Len(Program(kind[t])), pc[t], "reconcile")
    BY <1>0, MoveControl, ProgramOf DEF Disciplined, Stmt
  <2>2. kind[t] \notin Certifiers BY <2>1 DEF Placed, Certifiers
  <2> QED BY <1>0, <2>2 DEF ReceiptInv
<1>13. \A f \in draft'[t].rows : f.id[1] = t /\ f.id[2] < pc'[t]
  BY <1>0, <1>1, <1>7
<1>14. draft'[t].next \in Nat BY <1>1, <1>3 DEF ChainOf
<1>15. \A x \in scan'[t].known : \E f \in entries' : x = f.id
  BY <1>0, <1>1, <1>3 DEF ChainOf
<1> QED BY <1>0, <1>10, <1>11, <1>12, <1>13, <1>14, <1>15 DEF ChainOf

\* A view counts the entries and ends with the last of them.
LEMMA ViewOfChain ==
    ASSUME NEW m, GoodChain(entries, m)
    PROVE  /\ ChainView.count = m /\ ChainView.head = m
           /\ ChainView.hash = HashAt(entries, m)
<1> DEFINE head == IF entries = {} THEN 0
                   ELSE CHOOSE s \in {e.seq : e \in entries} :
                           \A e \in entries : e.seq <= s
<1>0. m \in Nat /\ Cardinality(entries) = m /\ IsFiniteSet(entries) BY DEF GoodChain
<1>1. head = m
  <2>1. CASE entries = {} BY <1>0, <2>1, FS_EmptySet
  <2>2. CASE entries # {}
    <3>1. \A e \in entries : e.seq \in 1..m BY <1>0 DEF GoodChain, GoodRow
    <3>2. m \in 1..m BY <1>0, <2>2, <3>1
    <3>3. PICK e \in entries : e.seq = m BY <3>2 DEF GoodChain
    <3>4. m \in {f.seq : f \in entries} /\ \A f \in entries : f.seq <= m
      BY <1>0, <3>1, <3>3
    <3> DEFINE s == CHOOSE s \in {f.seq : f \in entries} :
                       \A f \in entries : f.seq <= s
    <3>5. s \in {f.seq : f \in entries} /\ \A f \in entries : f.seq <= s
      BY <3>4
    <3> HIDE DEF s
    <3>6. m <= s /\ s <= m BY <3>3, <3>4, <3>5
    <3>7. s \in Nat BY <1>0, <3>1, <3>5
    <3>8. s = m BY <1>0, <3>6, <3>7
    <3> QED BY <2>2, <3>8 DEF s
  <2> QED BY <2>1, <2>2
<1> HIDE DEF head
<1>2. ChainView = [count |-> Cardinality(entries), head |-> head,
                   hash |-> HashAt(entries, head)]
  BY DEF ChainView, head
<1> QED BY <1>0, <1>1, <1>2

LEMMA ViewMove ==
    ASSUME LockInv, ChainInv, NEW t \in Txns, Moves(t, "view"), View(t), ~Fail(t)
    PROVE  ChainOf(t)'
<1> "view" \in Statements BY DEF Statements, Late
<1>0. /\ pc'[t] = pc[t] + 1 /\ Open(t) /\ Open(t)' /\ entries' = entries
      /\ nextSeq' = nextSeq /\ kind' = kind
  BY StatementAdvances
<1>1. UNCHANGED <<draft, scan>> /\ view'[t] = ChainView
  BY ViewEffect DEF ChainInv
<1>2. /\ \A x : Passed(t, x)' <=> Passed(t, x) \/ x = "view"
      /\ ~At(t, "insert") /\ ~At(t, "sync") /\ ~At(t, "insert")' /\ ~At(t, "sync")'
  BY <1>0, MovePosition
<1>3. DraftInv(t) /\ ReceiptInv(t) /\ ChainOf(t) BY <1>0 DEF ChainInv, ChainOf
<1>4. RowsSeen(t)' = RowsSeen(t) /\ Extent(t)' = Extent(t)
  BY <1>0, <1>1, <1>2 DEF RowsSeen, Extent, NextSeen
<1>5. DraftInv(t)' BY <1>1, <1>2, <1>3, <1>4 DEF DraftInv
<1>6. /\ ChainView.count = nextSeq - 1 /\ ChainView.head = nextSeq - 1
      /\ ChainView.hash = HashAt(entries, nextSeq - 1)
  BY ViewOfChain DEF ChainInv
<1>7. ViewInv(t)' BY <1>0, <1>1, <1>6 DEF ViewInv
<1>8. ReceiptInv(t)' BY <1>0, <1>1, <1>2, <1>3 DEF ReceiptInv
<1>9. \A e \in draft'[t].rows : e.id[1] = t /\ e.id[2] < pc'[t]
  BY <1>0, <1>1, OlderRows
<1> QED BY <1>0, <1>1, <1>3, <1>5, <1>7, <1>8, <1>9 DEF ChainOf

\* A transaction that moves keeps its part of the invariant.
LEMMA OwnMove ==
    ASSUME LockInv, ChainInv, NEW t \in Txns, Step(t), ~Fail(t), ~Commit(t)
    PROVE  ChainOf(t)'
<1>0. Shaped /\ ControlType BY DEF ChainInv, LockInv
<1>1. PICK s \in Statements : Moves(t, s) BY <1>0, StepShape
<1>2. \A x : At(t, x) => x = s BY <1>1 DEF Moves, At
<1>3. ChainOf(t) BY DEF ChainInv
<1>4. ASSUME s \notin {"allocate", "insert", "reconcile", "sync", "view"},
             draft'[t].rows = draft[t].rows, draft'[t].next = draft[t].next,
             view'[t] = view[t], scan'[t].known = scan[t].known
      PROVE  ChainOf(t)'
  BY <1>1, <1>3, <1>4, NeutralMove DEF ChainOf
<1>5. CASE Lock(t)
  <2>1. SameLocal(t) BY <1>0, <1>5, LockEffect
  <2>2. s \in Locks \ {"sequence"} BY <1>2, <1>5 DEF Lock
  <2> QED BY <1>4, <2>1, <2>2 DEF SameLocal, Locks
<1>6. CASE Allocate(t)
  <2>1. s = "allocate" BY <1>2, <1>6 DEF Allocate
  <2> QED BY <1>1, <1>6, <2>1, AllocateMove
<1>7. CASE Insert(t)
  <2>1. s = "insert" BY <1>2, <1>7 DEF Insert
  <2> QED BY <1>1, <1>7, <2>1, InsertMove
<1>8. CASE Load(t)
  <2>1. s = "load" BY <1>2, <1>8 DEF Load
  <2>2. UNCHANGED <<draft, view>> /\ scan'[t].known = {e.id : e \in entries}
    BY <1>0, <1>8, LoadEffect
  <2> QED BY <1>1, <2>1, <2>2, NeutralMove
<1>9. CASE Reconcile(t)
  <2>1. s = "reconcile" BY <1>2, <1>9 DEF Reconcile
  <2> QED BY <1>1, <1>9, <2>1, ReconcileMove
<1>10. CASE Sync(t)
  <2>1. s = "sync" BY <1>2, <1>10 DEF Sync
  <2> QED BY <1>1, <1>10, <2>1, SyncMove
<1>11. CASE View(t)
  <2>1. s = "view" BY <1>2, <1>11 DEF View
  <2> QED BY <1>1, <1>11, <2>1, ViewMove
<1>12. CASE Commitment(t)
  <2>1. s = "commitment" BY <1>2, <1>12 DEF Commitment
  <2>2. UNCHANGED <<draft, view>> /\ scan'[t].known = scan[t].known
    BY <1>0, <1>12, CommitmentEffect
  <2> QED BY <1>4, <2>1, <2>2
<1>13. CASE Leaves(t)
  <2>1. s = "leaves" BY <1>2, <1>13 DEF Leaves
  <2>2. UNCHANGED <<draft, view, scan>> BY <1>0, <1>13, LeavesEffect
  <2> QED BY <1>4, <2>1, <2>2
<1>14. CASE SignMerkleRoot(t)
  <2>1. s = "sign" BY <1>2, <1>14 DEF SignMerkleRoot
  <2>2. /\ UNCHANGED <<view, scan>>
        /\ draft'[t] = [rows |-> draft[t].rows, next |-> draft[t].next,
                        keys |-> SigningKeyRows, batches |-> {Signed(t)}]
    BY <1>0, <1>14, SignEffect
  <2>3. draft'[t].rows = draft[t].rows /\ draft'[t].next = draft[t].next
    BY <2>2
  <2> QED BY <1>4, <2>1, <2>2, <2>3
<1>15. CASE Rotate(t) \/ Revoke(t)
  <2>1. s \in {"rotate", "revoke"} BY <1>2, <1>15 DEF Rotate, Revoke
  <2>2. UNCHANGED <<view, scan, batch, verdict>>
        /\ \E ks : draft' = [draft EXCEPT ![t].keys = ks]
    BY <1>15 DEF Rotate, Revoke
  <2>3. PICK ks : draft' = [draft EXCEPT ![t].keys = ks] BY <2>2
  <2>4. draft'[t] = [rows |-> draft[t].rows, next |-> draft[t].next,
                     keys |-> ks, batches |-> draft[t].batches]
    BY <1>0, <2>2, <2>3, KeysEffect
  <2>5. draft'[t].rows = draft[t].rows /\ draft'[t].next = draft[t].next
    BY <2>4
  <2> QED BY <1>4, <2>1, <2>2, <2>5
<1>16. CASE ReadMerkleVerification(t)
  <2>1. s = "batch" BY <1>2, <1>16 DEF ReadMerkleVerification
  <2>2. UNCHANGED <<draft, view, scan>> BY <1>0, <1>16, BatchEffect
  <2> QED BY <1>4, <2>1, <2>2
<1>17. CASE ReadAuditChainVerificationPage(t)
  <2>1. s = "page" BY <1>2, <1>17 DEF ReadAuditChainVerificationPage
  <2>2. UNCHANGED <<draft, view>> /\ scan'[t].known = scan[t].known
    BY <1>0, <1>17, PageEffect
  <2> QED BY <1>4, <2>1, <2>2
<1> QED
  BY <1>5, <1>6, <1>7, <1>8, <1>9, <1>10, <1>11, <1>12, <1>13, <1>14, <1>15,
     <1>16, <1>17 DEF Step, AbortDeadlock

\* A commit makes the chain that t sees the committed one.  Nobody else is past
\* the chain's lock, so all others see exactly what is committed.
LEMMA CommitKeepsChain ==
    ASSUME LockInv, ChainInv, NEW t \in Txns, Commit(t)
    PROVE  ChainInv'
<1>0. /\ Open(t) /\ pc[t] = Len(Program(kind[t])) + 1
      /\ entries' = RowsSeen(t) /\ nextSeq' = NextSeen(t)
      /\ kind' = kind /\ pc' = pc /\ view' = view
  BY DEF Commit, Open, RowsSeen
<1>1. ControlType BY DEF LockInv
<1>2. status'[t] = "committed" /\ \A u \in Txns : u # t => status'[u] = status[u]
  BY <1>1 DEF Commit, ControlType
<1>3. Shaped' /\ OthersSame(t) /\ draft'[t] = NoDraft /\ scan'[t] = NoScan
  BY EndEffect DEF ChainInv
<1>4. "chain" \in held[t] BY <1>0, FinishedHoldsChain
<1>5. ChainOf(t) /\ DraftInv(t) /\ ViewInv(t) /\ ReceiptInv(t)
  BY <1>0 DEF ChainInv, ChainOf
<1>6. Len(Program(kind[t])) \in Nat \ {0} BY <1>0, ProgramOf
<1>7. ~At(t, "insert") /\ ~At(t, "sync") BY <1>0, <1>6 DEF At
<1>8. GoodChain(entries', nextSeq' - 1) BY <1>0, <1>5, <1>7 DEF DraftInv, Extent
<1>9. nextSeq' \in Nat \ {0}
  <2>1. nextSeq' \in Nat BY <1>0, <1>5 DEF NextSeen, ChainInv, ChainOf
  <2>2. nextSeq' - 1 \in Nat BY <1>8 DEF GoodChain
  <2>3. \A n \in Nat : n - 1 \in Nat => n # 0 OBVIOUS
  <2> QED BY <2>1, <2>2, <2>3
<1>10. \A e \in entries' : e.id[1] \in Txns => status'[e.id[1]] = "committed"
  <2> TAKE e \in entries'
  <2> HAVE e.id[1] \in Txns
  <2>1. CASE e \in entries BY <1>2, <2>1 DEF ChainInv
  <2>2. CASE e \in draft[t].rows BY <1>2, <1>5, <2>2 DEF ChainOf
  <2> QED BY <1>0, <2>1, <2>2 DEF RowsSeen
<1>11. entries \subseteq entries' BY <1>0 DEF RowsSeen
<1>12. ASSUME NEW u \in Txns, u # t PROVE ChainOf(u)'
  <2>1. /\ draft'[u] = draft[u] /\ scan'[u] = scan[u]
        /\ status'[u] = status[u] /\ ChainOf(u)
    BY <1>2, <1>3, <1>12 DEF OthersSame, SameLocal, ChainInv
  <2>2. Open(u)' <=> Open(u) BY <2>1 DEF Open
  <2>3. \A x \in scan'[u].known : \E e \in entries' : x = e.id
    BY <1>11, <2>1 DEF ChainOf
  <2>4. CASE ~Open(u) BY <1>0, <2>1, <2>2, <2>3, <2>4 DEF ChainOf
  <2>5. CASE Open(u)
    <3>1. \A s \in Late : ~Passed(u, s) /\ ~At(u, s)
      BY <1>4, <1>12, <2>5, ChainIsExclusive
    <3>2. \A s \in Late : ~Passed(u, s)' /\ ~At(u, s)'
      BY <1>0, <2>1, <3>1 DEF Passed, Stmt, At
    <3>3. {"allocate", "insert", "reconcile", "sync", "view"} \subseteq Late
      BY DEF Late
    <3>4. draft[u].rows = {} /\ draft[u].next = 0
      BY <2>1, <2>5, <3>1, <3>3 DEF ChainOf, DraftInv
    <3>5. RowsSeen(u)' = entries' /\ Extent(u)' = nextSeq' - 1
      BY <2>1, <3>2, <3>3, <3>4 DEF RowsSeen, Extent, NextSeen
    <3>6. DraftInv(u)' BY <1>8, <2>1, <3>4, <3>5 DEF DraftInv
    <3>7. ViewInv(u)' /\ ReceiptInv(u)' BY <3>2, <3>3 DEF ViewInv, ReceiptInv
    <3> QED BY <1>0, <2>1, <2>2, <2>3, <2>5, <3>6, <3>7 DEF ChainOf
  <2> QED BY <2>4, <2>5
<1>13. ChainOf(t)'
  <2>1. ~Open(t)' BY <1>2 DEF Open
  <2>2. NoDraft.rows = {} /\ NoDraft.next = 0 /\ NoScan.known = {}
    BY DEF NoDraft, NoScan
  <2> QED BY <1>3, <2>1, <2>2 DEF ChainOf
<1>14. ReceiptFollowsView'
  <2> SUFFICES ASSUME NEW u \in Txns, status'[u] = "committed",
                      kind'[u] \in Certifiers
               PROVE  \E e \in entries' : /\ e.id[1] = u
                                          /\ e.seq = view'[u].count + 1
                                          /\ e.prev = view'[u].hash
    BY DEF ReceiptFollowsView
  <2>1. CASE u # t
    <3>1. status[u] = "committed" /\ kind[u] \in Certifiers BY <1>0, <1>2, <2>1
    <3>2. PICK e \in entries : /\ e.id[1] = u
                               /\ e.seq = view[u].count + 1
                               /\ e.prev = view[u].hash
      BY <3>1 DEF ChainInv, ReceiptFollowsView
    <3> QED BY <1>0, <1>11, <3>2
  <2>2. CASE u = t
    <3> DEFINE p == Program(kind[t])
    <3>1. Disciplined(kind[t]) /\ kind[t] \in Certifiers
      BY <1>0, <2>2, ProgramOf
    <3>2. p[Len(p)] = "insert" /\ \E v \in 1..Len(p) : p[v] = "view"
      BY <3>1 DEF Disciplined
    <3>3. Len(p) \in 1..pc[t] - 1 /\ 1..pc[t] - 1 = 1..Len(p) BY <1>0, <1>6
    <3>4. Passed(t, "insert") /\ Passed(t, "view")
      BY <3>2, <3>3 DEF Passed, Stmt
    <3>5. view[t].count = nextSeq - 1 /\ view[t].hash = HashAt(entries, nextSeq - 1)
      BY <1>5, <3>4 DEF ViewInv
    <3>6. PICK e \in draft[t].rows : /\ e.id[1] = t /\ e.seq = nextSeq
                                     /\ e.prev = HashAt(entries, nextSeq - 1)
      BY <1>5, <3>1, <3>4 DEF ReceiptInv
    <3>7. e \in entries' BY <1>0 DEF RowsSeen
    <3>8. nextSeq \in Nat BY DEF ChainInv
    <3>9. e.seq = view[t].count + 1 BY <3>5, <3>6, <3>8
    <3> QED BY <1>0, <2>2, <3>5, <3>6, <3>7, <3>9
  <2> QED BY <2>1, <2>2
<1> QED BY <1>3, <1>8, <1>9, <1>10, <1>12, <1>13, <1>14 DEF ChainInv

\* Only an open or idle transaction changes, and only a commit adds entries.
LEMMA ReceiptsStay ==
    ASSUME ReceiptFollowsView, entries' = entries,
           \A u \in Txns : status'[u] = "committed" =>
               /\ status[u] = "committed" /\ kind'[u] = kind[u]
               /\ view'[u] = view[u]
    PROVE  ReceiptFollowsView'
BY DEF ReceiptFollowsView

\* Steps that leave the committed state alone keep the invariant if the
\* transaction that takes them keeps its part of it.
LEMMA LocalKeepsChain ==
    ASSUME ChainInv, NEW t \in Txns, entries' = entries, nextSeq' = nextSeq,
           Shaped', OthersSame(t), ChainOf(t)', status'[t] # "committed",
           status[t] # "committed",
           \A u \in Txns : u # t => /\ status'[u] = status[u]
                                    /\ kind'[u] = kind[u] /\ pc'[u] = pc[u]
    PROVE  ChainInv'
<1>1. \A u \in Txns : ChainOf(u)'
  <2> TAKE u \in Txns
  <2>1. CASE u = t BY <2>1
  <2>2. CASE u # t BY <2>2, ChainOfUntouched DEF ChainInv, OthersSame
  <2> QED BY <2>1, <2>2
<1>2. \A e \in entries' : e.id[1] \in Txns => status'[e.id[1]] = "committed"
  BY DEF ChainInv
<1>3. ReceiptFollowsView'
  <2>1. \A u \in Txns : status'[u] = "committed" =>
            status[u] = "committed" /\ kind'[u] = kind[u] /\ view'[u] = view[u]
    BY DEF OthersSame, SameLocal
  <2> QED BY <2>1, ReceiptsStay DEF ChainInv
<1> QED BY <1>1, <1>2, <1>3 DEF ChainInv

LEMMA ClosedChainOf ==
    ASSUME NEW t \in Txns, ~Open(t)', draft'[t] = NoDraft,
           \A x \in scan'[t].known : \E e \in entries' : x = e.id
    PROVE  ChainOf(t)'
<1>1. NoDraft.rows = {} /\ NoDraft.next = 0 BY DEF NoDraft
<1> QED BY <1>1 DEF ChainOf

LEMMA FailKeepsChain ==
    ASSUME LockInv, ChainInv, NEW t \in Txns, Open(t), Fail(t)
    PROVE  ChainInv'
<1>0. ControlType BY DEF LockInv
<1>1. Shaped' /\ OthersSame(t) /\ draft'[t] = NoDraft /\ scan'[t] = NoScan
  BY EndEffect DEF ChainInv
<1>2. /\ status'[t] = "failed" /\ entries' = entries /\ nextSeq' = nextSeq
      /\ \A u \in Txns : u # t => /\ status'[u] = status[u]
                                  /\ kind'[u] = kind[u] /\ pc'[u] = pc[u]
  BY <1>0 DEF Fail, ControlType, committed
<1>3. NoScan.known = {} BY DEF NoScan
<1>4. ChainOf(t)' BY <1>1, <1>2, <1>3, ClosedChainOf DEF Open
<1>5. status[t] # "committed" /\ status'[t] # "committed" BY <1>2 DEF Open
<1> QED BY <1>1, <1>2, <1>4, <1>5, LocalKeepsChain

LEMMA BeginKeepsChain ==
    ASSUME LockInv, ChainInv, NEW t \in Txns, NEW k \in Kinds, Begin(t, k)
    PROVE  ChainInv'
<1>0. ControlType BY DEF LockInv
<1>1. /\ UNCHANGED <<draft, view, scan, batch, verdict, pc>>
      /\ entries' = entries /\ nextSeq' = nextSeq
      /\ status[t] = "idle" /\ status'[t] = "open" /\ kind'[t] = k
      /\ \A u \in Txns : u # t => status'[u] = status[u] /\ kind'[u] = kind[u]
  BY <1>0 DEF Begin, ControlType, committed, local
<1>2. Shaped' /\ OthersSame(t) /\ SameLocal(t)
  BY <1>1, QuietEffect DEF ChainInv, OthersSame
<1>3. pc[t] = 1 /\ pc'[t] = 1 BY <1>1 DEF LockInv, OwnLocks
<1>4. ChainOf(t) /\ draft[t] = NoDraft BY <1>1 DEF ChainInv, ChainOf, Open
<1>5. NoDraft.rows = {} /\ NoDraft.next = 0 BY DEF NoDraft
<1>6. \A x : ~Passed(t, x)' BY <1>3 DEF Passed
<1>7. Disciplined(k) BY ProgramsDisciplined, AuditChainAssumption
<1>8. Program(k)[1] \notin {"insert", "sync"} BY <1>7 DEF Disciplined, Paired
<1>9. ~At(t, "insert")' /\ ~At(t, "sync")' BY <1>1, <1>3, <1>8 DEF At
<1>10. RowsSeen(t)' = entries /\ Extent(t)' = nextSeq - 1
  BY <1>1, <1>4, <1>5, <1>9 DEF RowsSeen, Extent, NextSeen
<1>11. DraftInv(t)' BY <1>1, <1>4, <1>5, <1>10 DEF DraftInv, ChainInv
<1>12. ViewInv(t)' /\ ReceiptInv(t)' BY <1>6 DEF ViewInv, ReceiptInv
<1>13. ChainOf(t)' BY <1>1, <1>4, <1>5, <1>11, <1>12 DEF ChainOf, Open
<1> QED BY <1>1, <1>2, <1>13, LocalKeepsChain

LEMMA MoveKeepsChain ==
    ASSUME LockInv, ChainInv, NEW t \in Txns, Step(t), ~Fail(t), ~Commit(t)
    PROVE  ChainInv'
<1>0. ControlType /\ Shaped BY DEF LockInv, ChainInv
<1>1. PICK s \in Statements : Moves(t, s) BY <1>0, StepShape
<1>2. /\ entries' = entries /\ nextSeq' = nextSeq /\ status' = status
      /\ kind' = kind /\ status[t] = "open"
      /\ \A u \in Txns : u # t => pc'[u] = pc[u]
  BY <1>1, MoveControl DEF Moves, Open
<1>3. Shaped' /\ OthersSame(t) BY <1>0, StepFrame
<1>4. ChainOf(t)' BY OwnMove
<1> QED BY <1>2, <1>3, <1>4, LocalKeepsChain

LEMMA FirstEntryIsChain == GoodChain({FirstEntry}, 1)
<1>1. GoodChain({}, 0)
  <2>1. IsFiniteSet({}) /\ Cardinality({}) = 0 BY FS_EmptySet
  <2>2. \A i \in 1..0 : FALSE OBVIOUS
  <2> QED BY <2>1, <2>2 DEF GoodChain
<1>2. HashAt({}, 0) = << >> BY DEF HashAt
<1>3. <<Bootstrap, 1>> \in Ids BY DEF Ids
<1> DEFINE e == RehashAuditChainEntry(<<Bootstrap, 1>>, 0 + 1, HashAt({}, 0),
                                      NoSignature)
<1>4. GoodChain({} \cup {e}, 0 + 1) BY <1>1, <1>3, ChainGrows
<1>5. e = FirstEntry BY <1>2 DEF FirstEntry
<1>6. {} \cup {e} = {e} OBVIOUS
<1> HIDE DEF e
<1> QED BY <1>4, <1>5, <1>6

LEMMA ChainInit == Init => ChainInv
<1> SUFFICES ASSUME Init PROVE ChainInv OBVIOUS
<1>1. nextSeq \in Nat \ {0} /\ GoodChain(entries, nextSeq - 1)
  BY FirstEntryIsChain DEF Init
<1>2. Shaped
  <2>1. \A t \in Txns : draft[t] = NoDraft /\ scan[t] = NoScan BY DEF Init
  <2>2. \A t \in Txns : DraftShape(draft[t]) /\ ScanShape(scan[t])
    BY <2>1, ShapesOfRecords
  <2> QED BY <2>2 DEF Init, Shaped
<1>3. \A t \in Txns : ChainOf(t)
  <2> TAKE t \in Txns
  <2>1. ~Open(t) /\ draft[t] = NoDraft /\ scan[t] = NoScan BY DEF Init, Open
  <2>2. NoDraft.rows = {} /\ NoDraft.next = 0 /\ NoScan.known = {}
    BY DEF NoDraft, NoScan
  <2> QED BY <2>1, <2>2 DEF ChainOf
<1>4. \A e \in entries : e.id[1] \notin Txns
  BY AuditChainAssumption DEF Init, FirstEntry, RehashAuditChainEntry
<1>5. ReceiptFollowsView BY DEF Init, ReceiptFollowsView
<1> QED BY <1>1, <1>2, <1>3, <1>4, <1>5 DEF ChainInv

LEMMA ChainNext == LockInv /\ ChainInv /\ [Next]_vars => ChainInv'
<1> SUFFICES ASSUME LockInv, ChainInv, [Next]_vars PROVE ChainInv' OBVIOUS
<1>1. ASSUME NEW t \in Txns, Step(t) PROVE ChainInv'
  <2>1. CASE Commit(t) BY <2>1, CommitKeepsChain
  <2>2. CASE Fail(t) /\ ~Commit(t)
    <3>1. Open(t)
      BY <1>1, <2>2, StepShape DEF LockInv, Moves, At, Open
    <3> QED BY <2>2, <3>1, FailKeepsChain
  <2>3. CASE ~Fail(t) /\ ~Commit(t) BY <1>1, <2>3, MoveKeepsChain
  <2> QED BY <2>1, <2>2, <2>3
<1>2. ASSUME NEW t \in Txns, Rollback(t) PROVE ChainInv'
  BY <1>2, FailKeepsChain DEF Rollback, Open
<1>3. ASSUME NEW t \in Txns, NEW k \in Kinds, Begin(t, k) PROVE ChainInv'
  BY <1>3, BeginKeepsChain
<1>4. ASSUME UNCHANGED <<entries, nextSeq, status, kind, pc, draft, view, scan,
                         batch, verdict>>
      PROVE  ChainInv'
  <2>1. Shaped' /\ \A u \in Txns : SameLocal(u)
    BY <1>4, QuietEffect DEF ChainInv
  <2>2. \A u \in Txns : ChainOf(u)' BY <1>4, <2>1, ChainOfUntouched DEF ChainInv
  <2>3. ReceiptFollowsView' BY <1>4, ReceiptsStay DEF ChainInv
  <2> QED BY <1>4, <2>1, <2>2, <2>3 DEF ChainInv
<1>5. CASE Tick BY <1>4, <1>5 DEF Tick, committed, local
<1>6. CASE UNCHANGED vars BY <1>4, <1>6 DEF vars
<1> QED BY <1>1, <1>2, <1>3, <1>5, <1>6 DEF Next

LEMMA ChainIsKept == Spec => [](LockInv /\ ChainInv)
BY LockInit, LockNext, ChainInit, ChainNext, PTL DEF Spec

-----------------------------------------------------------------------------
(* What the invariant says to a reader of the chain                         *)

\* For any number of transactions the committed chain has neither gap,
\* repetition nor broken link, and the counter of allocateAuditEntry agrees
\* with the length that reconcileAuditChainSequences counts.
THEOREM ChainStaysIntact == Spec => []ChainIntact
<1>1. ChainInv => ChainIntact
  <2> SUFFICES ASSUME ChainInv PROVE ChainIntact OBVIOUS
  <2> DEFINE n == nextSeq - 1
  <2>1. n \in Nat /\ GoodChain(entries, n) BY DEF ChainInv
  <2> HIDE DEF n
  <2>2. \A e \in entries : GoodRow(e) /\ e.seq \in 1..n
    BY <2>1 DEF GoodChain, GoodRow
  <2>3. Cardinality(entries) = n
        /\ \A e, f \in entries : e.seq = f.seq \/ e.id = f.id => e = f
    BY <2>1 DEF GoodChain
  <2>4. ASSUME NEW e \in entries, e.seq = 1 PROVE e.prev = << >>
    <3>1. e.prev \in Seq(Ids) /\ Len(e.prev) = 0
      BY <2>2, <2>4 DEF GoodRow, Hashes
    <3> QED BY <3>1, EmptySeq
  <2>5. ASSUME NEW e \in entries, e.seq > 1
        PROVE  \E f \in entries : f.seq = e.seq - 1 /\ f.hash = e.prev
    <3>1. e.seq - 1 \in 1..n BY <2>1, <2>2, <2>5
    <3>2. PICK f \in entries : f.seq = e.seq - 1 BY <2>1, <3>1 DEF GoodChain
    <3>3. e.prev = f.hash BY <2>1, <3>2 DEF GoodChain
    <3> QED BY <3>2, <3>3
  <2> QED BY <2>2, <2>3, <2>4, <2>5 DEF ChainIntact, n
<1> QED BY <1>1, ChainIsKept, PTL

\* For any number of transactions and whatever they interleave, a Merkle batch,
\* a chain or checkpoint verification and a backup manifest are each recorded
\* by the entry that follows the chain they certify.
THEOREM ReceiptsFollowViews == Spec => []ReceiptFollowsView
<1>1. ChainInv => ReceiptFollowsView BY DEF ChainInv
<1> QED BY <1>1, ChainIsKept, PTL

\* A step adds rows to the chain and takes none away.
LEMMA RowsOnlyAdded ==
    ASSUME LockInv, ChainInv, [Next]_vars
    PROVE  entries \subseteq entries'
<1>1. ASSUME NEW t \in Txns, Step(t) PROVE entries \subseteq entries'
  <2>1. CASE Commit(t) BY <2>1 DEF Commit
  <2>2. CASE Fail(t) BY <2>2 DEF Fail, committed
  <2>3. CASE ~Fail(t) /\ ~Commit(t)
    BY <1>1, <2>3, StepShape DEF LockInv, Moves, committed
  <2> QED BY <2>1, <2>2, <2>3
<1>2. ASSUME NEW t \in Txns, Rollback(t) PROVE entries \subseteq entries'
  BY <1>2 DEF Rollback, Fail, committed
<1>3. ASSUME NEW t \in Txns, NEW k \in Kinds, Begin(t, k)
      PROVE  entries \subseteq entries'
  BY <1>3 DEF Begin, committed
<1>4. CASE Tick BY <1>4 DEF Tick, committed
<1>5. CASE UNCHANGED vars BY <1>5 DEF vars
<1> QED BY <1>1, <1>2, <1>3, <1>4, <1>5 DEF Next

\* The last hash of a chain lists the identifiers of its rows by number.
LEMMA HeadLists ==
    ASSUME NEW S, NEW n, GoodChain(S, n)
    PROVE  Log!Distinct(HashAt(S, n))
<1> DEFINE h == HashAt(S, n)
<1>1. n \in Nat /\ Len(h) = n /\ \A f \in S : h[f.seq] = f.id BY HeadHash DEF GoodChain
<1> HIDE DEF h
<1>2. ASSUME NEW i \in 1..Len(h), NEW j \in 1..Len(h), h[i] = h[j] PROVE i = j
  <2>1. PICK e \in S : e.seq = i BY <1>1 DEF GoodChain
  <2>2. PICK f \in S : f.seq = j BY <1>1 DEF GoodChain
  <2>3. e.id = f.id BY <1>1, <1>2, <2>1, <2>2
  <2>4. e = f BY <2>3 DEF GoodChain
  <2> QED BY <2>1, <2>2, <2>4
<1> QED BY <1>2 DEF Log!Distinct, h

\* A longer chain that contains a chain begins with it.
LEMMA HistoryExtends ==
    ASSUME NEW S, NEW n, GoodChain(S, n), NEW T, NEW m, GoodChain(T, m),
           S \subseteq T
    PROVE  \/ HashAt(T, m) = HashAt(S, n)
           \/ /\ Len(HashAt(T, m)) > Len(HashAt(S, n))
              /\ \A i \in 1..Len(HashAt(S, n)) : HashAt(T, m)[i] = HashAt(S, n)[i]
<1> DEFINE h == HashAt(S, n)  g == HashAt(T, m)
<1>1. n \in Nat /\ Len(h) = n /\ \A f \in S : h[f.seq] = f.id BY HeadHash DEF GoodChain
<1>2. m \in Nat /\ Len(g) = m /\ \A f \in T : g[f.seq] = f.id BY HeadHash DEF GoodChain
<1>3. /\ IsFiniteSet(T) /\ Cardinality(T) = m /\ Cardinality(S) = n
      /\ \A i \in 1..n : \E e \in S : e.seq = i
  BY DEF GoodChain
<1>4. n <= m /\ (n = m => S = T) BY <1>3, FS_Subset
<1>5. CASE n = m BY <1>4, <1>5
<1>6. CASE n # m
  <2> HIDE DEF h, g
  <2>1. Len(g) > Len(h) BY <1>1, <1>2, <1>4, <1>6
  <2>2. ASSUME NEW i \in 1..Len(h) PROVE g[i] = h[i]
    <3>1. PICK e \in S : e.seq = i BY <1>1, <1>3
    <3> QED BY <1>1, <1>2, <3>1
  <2> QED BY <2>1, <2>2 DEF h, g
<1> QED BY <1>5, <1>6

\* The audit chain implements an append-only log: for any number of concurrent
\* appends, mutations, batches, verifications and rollbacks, the identifiers
\* that the head hash commits to only ever grow at the end, without repetition.
THEOREM ChainImplementsLog == Spec => ImplementsLog
<1>1. Init => Log!Init
  <2> SUFFICES ASSUME Init PROVE Log!Init OBVIOUS
  <2>1. GoodChain(entries, 1) /\ nextSeq - 1 = 1
    BY FirstEntryIsChain DEF Init
  <2>2. Len(HashAt(entries, 1)) = 1 BY <2>1, HeadHash
  <2> QED BY <2>1, <2>2 DEF Log!Init, History
<1>2. LockInv /\ ChainInv /\ ChainInv' /\ [Next]_vars => [Log!Extend]_History
  <2> SUFFICES ASSUME LockInv, ChainInv, ChainInv', [Next]_vars
               PROVE  [Log!Extend]_History
    OBVIOUS
  <2>1. GoodChain(entries, nextSeq - 1) BY DEF ChainInv
  <2>2. GoodChain(entries', nextSeq' - 1) BY DEF ChainInv
  <2>3. entries \subseteq entries' BY RowsOnlyAdded
  <2>4. /\ History = HashAt(entries, nextSeq - 1)
        /\ History' = HashAt(entries', nextSeq' - 1)
    BY DEF History
  <2>5. Log!Distinct(HashAt(entries', nextSeq' - 1)) BY <2>2, HeadLists
  <2>6. Log!Distinct(History') BY <2>4, <2>5
  <2>7. \/ History' = History
        \/ /\ Len(History') > Len(History)
           /\ \A i \in 1..Len(History) : History'[i] = History[i]
    BY <2>1, <2>2, <2>3, <2>4, HistoryExtends
  <2> QED BY <2>6, <2>7 DEF Log!Extend, Log!Distinct
<1> QED BY <1>1, <1>2, ChainIsKept, PTL DEF Spec, ImplementsLog, Log!Spec

=============================================================================
