----------------------------- MODULE AuditChain -----------------------------
(***************************************************************************)
(* The audit chain of one tenant in PostgreSQL and the transactions that   *)
(* use it: commands that append to it (audit.Append), mutations that       *)
(* reconcile their own entries with it (reconcileAuditChainSequences),     *)
(* Merkle checkpoints and the signing keys they are signed with, chain,    *)
(* batch and checkpoint verification, and backup manifests.                *)
(*                                                                         *)
(* A transaction is the sequence of the statements that lock, read or      *)
(* write shared state.  They run one at a time, interleaved with those of  *)
(* the other transactions; a statement sees the committed rows and the     *)
(* transaction's own.  Its locks are kept until it ends:                   *)
(*                                                                         *)
(*   projection     the worker projection fence, an exclusive advisory lock*)
(*   tenant_share   the tenant's row FOR SHARE                             *)
(*   tenant_update  the tenant's row FOR NO KEY UPDATE                     *)
(*   chain          the audit chain's advisory lock                        *)
(*   sequence       the tenant_audit_sequences row, locked by its update   *)
(*                                                                         *)
(* Locks on signing key and batch rows are left out: everyone who takes one*)
(* has locked the tenant's row in the same mode before.  So is the unique  *)
(* index on (tenant, sequence): ChainIntact says that nothing ever meets   *)
(* it.  A hash is the list of what was hashed, so that hashes collide only *)
(* for equal histories.                                                    *)
(***************************************************************************)
EXTENDS Integers, Sequences, FiniteSets

CONSTANTS
    Txns,       \* transactions
    Bootstrap,  \* the transaction that created the tenant
    Kinds,      \* the commands they may run
    PageSize,   \* MaxAuditChainVerificationPageEntries
    MaxVersion, \* bound: signing key versions of the tenant
    MaxClock    \* bound: the clock stops here

VARIABLES
    clock,      \* wall clock of the API processes
    entries,    \* committed rows of audit_chain_entries
    nextSeq,    \* committed tenant_audit_sequences.next_sequence
    keys,       \* committed signing_keys, by version
    batches,    \* committed merkle_batches with their signatures
    status,     \* how far each transaction is
    kind,       \* the command each transaction runs
    pc,         \* its next statement
    held,       \* the locks it holds
    draft,      \* what it has written and not committed
    view,       \* the chain as it saw it under its locks
    scan,       \* how far it has read the chain in pages
    batch,      \* the Merkle batch it creates or verifies
    verdict     \* what its verification found

vars == <<clock, entries, nextSeq, keys, batches, status, kind, pc, held,
          draft, view, scan, batch, verdict>>

Locks == {"projection", "tenant_share", "tenant_update", "chain", "sequence"}

(***************************************************************************)
(* The commands, as the statements they run in their order.  Where a       *)
(* command asks again for a lock that it holds, the second request is left *)
(* out: it never waits.                                                    *)
(***************************************************************************)

\* audit.Append, at the end of every command.
AppendAudit == <<"projection", "chain", "allocate", "insert">>

\* A command whose only shared state here is the entry it appends, and one
\* that appends two (a login records its verification and its session).
appendEntry == AppendAudit
appendEntries ==
    <<"projection", "chain", "allocate", "insert", "allocate", "insert">>

\* A mutation of the worker or of the legacy ledger brings its own entries,
\* built on a projection it has loaded in an earlier transaction.
applyReleaseLedgerMutation ==
    <<"load", "projection", "chain", "reconcile", "sync">>

\* Mutant: the tenant's row is locked before the fence.
createMerkleBatch_TenantFirst ==
    <<"tenant_update", "projection", "chain", "view", "leaves", "sign",
      "allocate", "insert">>

createMerkleBatch ==
    <<"projection", "tenant_update", "chain", "view", "leaves", "sign",
      "allocate", "insert">>

RotateSigningKey ==
    <<"projection", "tenant_update", "rotate", "chain", "allocate", "insert">>

RevokeSigningKey ==
    <<"projection", "tenant_update", "revoke", "chain", "allocate", "insert">>

\* Mutant: the chain is read before it is locked.
verifyAuditChain_ReadFirst ==
    <<"view", "page", "projection", "tenant_share", "chain", "allocate",
      "insert">>

verifyAuditChain ==
    <<"projection", "tenant_share", "chain", "view", "page", "allocate",
      "insert">>

\* Mutant: the tenant's row is not locked.
verifyMerkleBatch_Unlocked ==
    <<"batch", "projection", "chain", "allocate", "insert">>

\* Takes the tenant's row before the fence that AppendAudit takes.
verifyMerkleBatch ==
    <<"tenant_share", "batch", "projection", "chain", "allocate", "insert">>

verifyMerkleCheckpoint ==
    <<"projection", "tenant_share", "chain", "view", "batch", "page",
      "allocate", "insert">>

GenerateBackupManifest ==
    <<"projection", "tenant_update", "chain", "commitment", "view", "page",
      "allocate", "insert">>

Program(k) ==
    CASE k = "append"     -> appendEntry
      [] k = "append_two" -> appendEntries
      [] k = "mutation"   -> applyReleaseLedgerMutation
      [] k = "merkle"     -> createMerkleBatch
      [] k = "rotate"     -> RotateSigningKey
      [] k = "revoke"     -> RevokeSigningKey
      [] k = "chain"      -> verifyAuditChain
      [] k = "batch"      -> verifyMerkleBatch
      [] k = "checkpoint" -> verifyMerkleCheckpoint
      [] k = "backup"     -> GenerateBackupManifest

AllKinds == {"append", "append_two", "mutation", "merkle", "rotate", "revoke",
             "chain", "batch", "checkpoint", "backup"}

\* The commands that certify the chain up to where they saw it.
Certifiers == {"merkle", "chain", "checkpoint", "backup"}

ASSUME AuditChainAssumption ==
    /\ Bootstrap \notin Txns
    /\ Kinds \subseteq AllKinds
    /\ PageSize \in Nat \ {0}
    /\ MaxVersion \in Nat
    /\ MaxClock \in Nat \ {0}

(***************************************************************************)
(* Rows.  0 stands for a NULL time: the clock starts at 1.                 *)
(***************************************************************************)

\* An entry's identifier: the transaction and the statement that made it.
Ids == (Txns \cup {Bootstrap}) \X Nat
Times == Nat
Versions == 1..MaxVersion
Statuses == {"absent", "active", "retiring", "revoked"}
Policies == {"preserve", "invalidate_from_compromise", "invalidate_all"}

KeyRows == [status: Statuses, from: Times, until: Times, compromised: Times,
            policy: Policies]
NoKey == [status |-> "absent", from |-> 0, until |-> 0, compromised |-> 0,
          policy |-> "preserve"]

\* The signature an entry refers to, if any: the key's version and the time.
NoSignature == [key |-> 0, at |-> 0]
Signatures == [key: Nat, at: Times]

Hashes == Seq(Ids)
Entries == [id: Ids, seq: Nat \ {0}, prev: Hashes, hash: Hashes,
            sig: Signatures]

NoBatch == [from |-> 1, to |-> 0, leaves |-> << >>, sig |-> NoSignature]

NoView == [count |-> 0, head |-> 0, hash |-> << >>]
NoScan == [after |-> 0, seen |-> 0, prev |-> << >>, known |-> {},
           committed |-> 0]
NoDraft == [rows |-> {}, next |-> 0, keys |-> << >>, batches |-> {}]

\* Mutant: the predecessor's hash is not part of what is hashed.
RehashAuditChainEntry_Alone(id, seq, prev, sig) ==
    [id |-> id, seq |-> seq, prev |-> prev, hash |-> <<id>>, sig |-> sig]

\* RehashAuditChainEntry: the hash covers the entry and its predecessor's hash.
RehashAuditChainEntry(id, seq, prev, sig) ==
    [id |-> id, seq |-> seq, prev |-> prev, hash |-> Append(prev, id),
     sig |-> sig]

(***************************************************************************)
(* Signing keys and what a signature made with one is worth.               *)
(***************************************************************************)

\* Mutant: the window excludes the instant it ends.
HistoricalValidityAt_HalfOpen(key, at) ==
    CASE at < key.from \/ (key.until # 0 /\ at >= key.until) ->
            "outside_window"
      [] OTHER -> "valid"

\* SigningKey.HistoricalValidityAt.  Its first test, that the verification does not
\* precede the signature, is left out: there is one clock and it only advances, so
\* a committed signature is never from the future.
HistoricalValidityAt(key, at) ==
    CASE key.status = "absent" \/ at < key.from
           \/ (key.until # 0 /\ at > key.until) -> "outside_window"
      [] key.compromised # 0
           /\ (\/ key.policy = "invalidate_all"
               \/ /\ key.policy = "invalidate_from_compromise"
                  /\ at >= key.compromised) -> "compromised"
      [] OTHER -> "valid"

validReferencedPayloadSignature(sig) ==
    /\ sig.key \in Versions
    /\ HistoricalValidityAt(keys[sig.key], sig.at) = "valid"

ActiveKeys(ks) == {v \in DOMAIN ks : ks[v].status = "active"}
Used(ks) == {v \in DOMAIN ks : ks[v].status # "absent"}

\* max(version) over the tenant's local keys, 0 when there is none.
LastVersion == IF Used(keys) = {} THEN 0
               ELSE CHOOSE v \in Used(keys) : \A w \in Used(keys) : w <= v

NewKey(now) == [NoKey EXCEPT !.status = "active", !.from = now]

(***************************************************************************)
(* The chain as a transaction sees it.                                     *)
(***************************************************************************)

RowsSeen(t) == entries \cup draft[t].rows

NextSeen(t) == IF draft[t].next = 0 THEN nextSeq ELSE draft[t].next

\* The hash of the row with this sequence number; "" before the first.
HashAt(rows, s) ==
    IF \E e \in rows : e.seq = s
    THEN (CHOOSE e \in rows : e.seq = s).hash
    ELSE << >>

Covers(rows, b) ==
    \A s \in b.from..b.to : \E e \in rows : e.seq = s /\ e.hash = b.leaves[s]

\* InspectMerkleBatch: coverage, root (part of the leaves here), signature.
InspectMerkleBatch(b) ==
    Covers(entries, b) /\ validReferencedPayloadSignature(b.sig)

(***************************************************************************)
(* Locks.                                                                  *)
(***************************************************************************)

Conflicts(l, m) ==
    \/ l = m /\ l # "tenant_share"
    \/ {l, m} = {"tenant_share", "tenant_update"}

CanLock(t, l) == \A u \in Txns \ {t} : \A m \in held[u] : ~Conflicts(l, m)

\* The statement that t runs next.
At(t, step) ==
    /\ status[t] = "open"
    /\ pc[t] <= Len(Program(kind[t]))
    /\ Program(kind[t])[pc[t]] = step

\* The lock that the next statement of t asks for.
Requests(t, l) ==
    \/ l \in Locks \ {"sequence"} /\ At(t, l)
    \/ l = "sequence" /\ (At(t, "allocate") \/ At(t, "sync"))

WaitsFor(t, u) ==
    /\ u # t
    /\ \E l \in Locks : Requests(t, l) /\ \E m \in held[u] : Conflicts(l, m)

\* t is part of a cycle of transactions that wait for each other.
Deadlocked(t) ==
    \E S \in SUBSET {u \in Txns : \E w \in Txns : WaitsFor(u, w)} :
        /\ t \in S
        /\ \A u \in S : \E w \in S : WaitsFor(u, w)
        /\ \A u \in S : \E w \in S : WaitsFor(w, u)

(***************************************************************************)
(* The life of a transaction.                                              *)
(***************************************************************************)

\* The entry "tenant.created", written with the tenant.
FirstEntry == RehashAuditChainEntry(<<Bootstrap, 1>>, 1, << >>, NoSignature)

Init ==
    /\ clock = 1
    /\ entries = {FirstEntry}
    /\ nextSeq = 2
    /\ keys = [v \in Versions |-> NoKey]
    /\ batches = {}
    /\ status = [t \in Txns |-> "idle"]
    /\ kind = [t \in Txns |-> "none"]
    /\ pc = [t \in Txns |-> 1]
    /\ held = [t \in Txns |-> {}]
    /\ draft = [t \in Txns |-> NoDraft]
    /\ view = [t \in Txns |-> NoView]
    /\ scan = [t \in Txns |-> NoScan]
    /\ batch = [t \in Txns |-> NoBatch]
    /\ verdict = [t \in Txns |-> "none"]

committed == <<entries, nextSeq, keys, batches>>
local == <<draft, view, scan, batch, verdict>>

Advance(t) == pc' = [pc EXCEPT ![t] = @ + 1]

Begin(t, k) ==
    /\ status[t] = "idle"
    /\ status' = [status EXCEPT ![t] = "open"]
    /\ kind' = [kind EXCEPT ![t] = k]
    /\ UNCHANGED <<clock, committed, pc, held, local>>

\* Everything the transaction wrote is gone and its locks are free.
Fail(t) ==
    /\ status' = [status EXCEPT ![t] = "failed"]
    /\ kind' = [kind EXCEPT ![t] = "none"]
    /\ pc' = [pc EXCEPT ![t] = 1]
    /\ held' = [held EXCEPT ![t] = {}]
    /\ draft' = [draft EXCEPT ![t] = NoDraft]
    /\ view' = [view EXCEPT ![t] = NoView]
    /\ scan' = [scan EXCEPT ![t] = NoScan]
    /\ batch' = [batch EXCEPT ![t] = NoBatch]
    /\ verdict' = [verdict EXCEPT ![t] = "none"]
    /\ UNCHANGED <<clock, committed>>

\* The command fails, its client leaves or its process dies.
Rollback(t) == status[t] = "open" /\ Fail(t)

\* PostgreSQL ends a transaction that waits in a cycle.
AbortDeadlock(t) == Deadlocked(t) /\ Fail(t)

Commit(t) ==
    LET d == draft[t] IN
    /\ status[t] = "open"
    /\ pc[t] = Len(Program(kind[t])) + 1
    /\ entries' = entries \cup d.rows
    /\ nextSeq' = NextSeen(t)
    /\ keys' = [v \in Versions |-> IF v \in DOMAIN d.keys THEN d.keys[v]
                                   ELSE keys[v]]
    /\ batches' = batches \cup d.batches
    /\ status' = [status EXCEPT ![t] = "committed"]
    /\ held' = [held EXCEPT ![t] = {}]
    /\ draft' = [draft EXCEPT ![t] = NoDraft]
    /\ scan' = [scan EXCEPT ![t] = NoScan]
    /\ batch' = [batch EXCEPT ![t] = NoBatch]
    /\ verdict' = [verdict EXCEPT ![t] = "none"]
    /\ UNCHANGED <<clock, kind, pc, view>>

Tick ==
    /\ clock < MaxClock
    /\ clock' = clock + 1
    /\ UNCHANGED <<committed, status, kind, pc, held, local>>

(***************************************************************************)
(* The statements.                                                         *)
(***************************************************************************)

Lock(t) ==
    \E l \in Locks \ {"sequence"} :
        /\ At(t, l)
        /\ CanLock(t, l)
        /\ held' = [held EXCEPT ![t] = @ \cup {l}]
        /\ Advance(t)
        /\ UNCHANGED <<clock, committed, status, kind, local>>

\* INSERT ... ON CONFLICT DO UPDATE ... RETURNING next_sequence - 1.
Allocate(t) ==
    /\ At(t, "allocate")
    /\ CanLock(t, "sequence")
    /\ held' = [held EXCEPT ![t] = @ \cup {"sequence"}]
    /\ draft' = [draft EXCEPT ![t].next = NextSeen(t) + 1]
    /\ Advance(t)
    /\ UNCHANGED <<clock, committed, status, kind, view, scan, batch, verdict>>

\* The entry links to the row before it, which may be the transaction's own.
\* That of a new Merkle batch refers to the batch's signature.
Insert(t) ==
    LET seq == draft[t].next - 1
        sig == IF kind[t] = "merkle" THEN batch[t].sig ELSE NoSignature IN
    /\ At(t, "insert")
    /\ IF seq > 1 /\ ~\E e \in RowsSeen(t) : e.seq = seq - 1
       THEN Fail(t)
       ELSE /\ draft' = [draft EXCEPT ![t].rows = @ \cup
                 {RehashAuditChainEntry(<<t, pc[t]>>, seq,
                                        HashAt(RowsSeen(t), seq - 1), sig)}]
            /\ Advance(t)
            /\ UNCHANGED <<clock, committed, status, kind, held, view, scan,
                           batch, verdict>>

\* The worker projection, or the whole state, read before the transaction.
Load(t) ==
    /\ At(t, "load")
    /\ scan' = [scan EXCEPT ![t].known = {e.id : e \in entries}]
    /\ Advance(t)
    /\ UNCHANGED <<clock, committed, status, kind, held, draft, view, batch,
                   verdict>>

Contiguous(rows) ==
    /\ {e.seq : e \in rows} = 1..Cardinality(rows)
    /\ \A e \in rows : e.prev = HashAt(rows, e.seq - 1)

\* Mutant: entries that are already durable are taken for new ones.
Pending_All(t) == scan[t].known \cup {<<t, pc[t]>>}

\* The entries of the mutation's state that are not durable yet.
Pending(t) ==
    (scan[t].known \cup {<<t, pc[t]>>}) \ {e.id : e \in entries}

\* Relink what is pending after the durable chain.  The keys it is sorted by
\* are left out: any order.  An identifier that exists is not inserted again.
Reconcile(t) ==
    LET n == Cardinality(entries)
        head == HashAt(entries, n)
        p == Pending(t) IN
    /\ At(t, "reconcile")
    /\ IF ~Contiguous(entries)
       THEN Fail(t)
       ELSE \E order \in [1..Cardinality(p) -> p] :
            /\ \A i, j \in DOMAIN order : order[i] = order[j] => i = j
            /\ draft' = [draft EXCEPT ![t].rows =
                 {e \in {RehashAuditChainEntry(order[i], n + i,
                                 head \o SubSeq(order, 1, i - 1), NoSignature) :
                         i \in DOMAIN order} :
                  \A f \in entries : f.id # e.id}]
            /\ scan' = [scan EXCEPT ![t].seen = n + Cardinality(p)]
            /\ Advance(t)
            /\ UNCHANGED <<clock, committed, status, kind, held, view, batch,
                           verdict>>

\* syncAuditSequenceRows: GREATEST of the row and the length of the chain.
Sync(t) ==
    LET next == scan[t].seen + 1 IN
    /\ At(t, "sync")
    /\ CanLock(t, "sequence")
    /\ held' = [held EXCEPT ![t] = @ \cup {"sequence"}]
    /\ draft' = [draft EXCEPT ![t].next =
                    IF NextSeen(t) > next THEN NextSeen(t) ELSE next]
    /\ Advance(t)
    /\ UNCHANGED <<clock, committed, status, kind, view, scan, batch, verdict>>

\* readAuditChainView: how many entries there are, and the last of them.
ChainView ==
    LET head == IF entries = {} THEN 0
                ELSE CHOOSE s \in {e.seq : e \in entries} :
                        \A e \in entries : e.seq <= s
    IN [count |-> Cardinality(entries), head |-> head,
        hash |-> HashAt(entries, head)]

\* A Merkle batch needs entries without gaps, a backup the entries it counted.
Refuses(t, v) ==
    \/ kind[t] = "merkle" /\ (v.count < 1 \/ v.head # v.count)
    \/ kind[t] = "backup" /\ v.count # scan[t].committed

View(t) ==
    /\ At(t, "view")
    /\ IF Refuses(t, ChainView)
       THEN Fail(t)
       ELSE /\ view' = [view EXCEPT ![t] = ChainView]
            /\ Advance(t)
            /\ UNCHANGED <<clock, committed, status, kind, held, draft, scan,
                           batch, verdict>>

\* The rows counted into the tenant's state commitment.
Commitment(t) ==
    /\ At(t, "commitment")
    /\ scan' = [scan EXCEPT ![t].committed = Cardinality(entries)]
    /\ Advance(t)
    /\ UNCHANGED <<clock, committed, status, kind, held, draft, view, batch,
                   verdict>>

\* The leaves of the range the client asked for.
Leaves(t) ==
    /\ At(t, "leaves")
    /\ \E from, to \in 1..view[t].count :
        /\ from <= to
        /\ IF \E s \in from..to : \A e \in entries : e.seq # s
           THEN Fail(t)
           ELSE /\ batch' = [batch EXCEPT ![t] =
                      [from |-> from, to |-> to, sig |-> NoSignature,
                       leaves |-> [s \in from..to |-> HashAt(entries, s)]]]
                /\ Advance(t)
                /\ UNCHANGED <<clock, committed, status, kind, held, draft,
                               view, scan, verdict>>

\* Sign with the newest active key, or with a new one when none is active.
\* The time is taken here, after the locks.
SignMerkleRoot(t) ==
    LET active == ActiveKeys(keys)
        v == IF active = {} THEN LastVersion + 1
             ELSE CHOOSE x \in active : \A y \in active : y <= x
        key == IF active = {} THEN NewKey(clock) ELSE keys[v]
        signed == [batch[t] EXCEPT !.sig = [key |-> v, at |-> clock]] IN
    /\ At(t, "sign")
    /\ v <= MaxVersion
    /\ IF key.from > clock \/ key.compromised # 0
            \/ (key.until # 0 /\ clock >= key.until)
       THEN Fail(t)
       ELSE /\ batch' = [batch EXCEPT ![t] = signed]
            /\ draft' = [draft EXCEPT ![t].batches = {signed},
                                      ![t].keys = IF active = {}
                                                  THEN [x \in {v} |-> key]
                                                  ELSE << >>]
            /\ Advance(t)
            /\ UNCHANGED <<clock, committed, status, kind, held, view, scan,
                           verdict>>

\* Mutant: a status that signing_keys does not know.
Retired_Misnamed(key, now) ==
    [key EXCEPT !.status = "retired", !.until = now]

Retired(key, now) == [key EXCEPT !.status = "retiring", !.until = now]

\* Mutant: the previous key is not retired.
Rotated_Kept(now) == [v \in {LastVersion + 1} |-> NewKey(now)]

\* The rows a rotation writes: every active key retires, a new one follows.
Rotated(now) ==
    [v \in ActiveKeys(keys) \cup {LastVersion + 1} |->
        IF v = LastVersion + 1 THEN NewKey(now) ELSE Retired(keys[v], now)]

Rotate(t) ==
    /\ At(t, "rotate")
    /\ LastVersion < MaxVersion
    /\ draft' = [draft EXCEPT ![t].keys = Rotated(clock)]
    /\ Advance(t)
    /\ UNCHANGED <<clock, committed, status, kind, held, view, scan, batch,
                   verdict>>

\* An ordinary revocation preserves what was signed; a compromise may not.
Revoked(key, now, compromised, policy) ==
    [key EXCEPT !.status = "revoked", !.until = now, !.policy = policy,
                !.compromised = IF compromised THEN now ELSE 0]

Revoke(t) ==
    /\ At(t, "revoke")
    /\ \E v \in Versions, compromised \in BOOLEAN, policy \in Policies :
        /\ ~compromised => policy = "preserve"
        /\ IF keys[v].status \in {"absent", "revoked"}
           THEN Fail(t)
           ELSE /\ draft' = [draft EXCEPT ![t].keys =
                      [x \in {v} |-> Revoked(keys[v], clock, compromised,
                                             policy)]]
                /\ Advance(t)
                /\ UNCHANGED <<clock, committed, status, kind, held, view,
                               scan, batch, verdict>>

Worst(old, ok) == IF ok /\ old # "failed" THEN "passed" ELSE "failed"

\* Resolve, read and inspect one batch of the tenant.
ReadMerkleVerification(t) ==
    /\ At(t, "batch")
    /\ IF batches = {}
       THEN Fail(t)
       ELSE \E b \in batches :
            /\ batch' = [batch EXCEPT ![t] = b]
            /\ verdict' = [verdict EXCEPT ![t] =
                              Worst(@, InspectMerkleBatch(b))]
            /\ Advance(t)
            /\ UNCHANGED <<clock, committed, status, kind, held, draft, view,
                           scan>>

\* The next page of the view, oldest entries first.
NextPage(t) ==
    LET rest == {e \in entries : e.seq > scan[t].after /\ e.seq <= view[t].head}
    IN {e \in rest : Cardinality({f \in rest : f.seq <= e.seq}) <= PageSize}

\* AuditChainInspector.Append for every entry of a page.
PageIsGood(t, page) ==
    \A e \in page :
        /\ e.seq = scan[t].seen + Cardinality({f \in page : f.seq <= e.seq})
        /\ e.prev = IF \E f \in page : f.seq = e.seq - 1
                    THEN HashAt(page, e.seq - 1) ELSE scan[t].prev
        /\ e.hash = Append(e.prev, e.id)
        /\ e.sig = NoSignature \/ validReferencedPayloadSignature(e.sig)

\* inspectAuditChainView: pages until one is empty, then the totals must be
\* those of the view.
ReadAuditChainVerificationPage(t) ==
    LET page == NextPage(t)
        last == CHOOSE e \in page : \A f \in page : f.seq <= e.seq IN
    /\ At(t, "page")
    /\ IF page # {}
       THEN /\ scan' = [scan EXCEPT ![t].after = last.seq,
                                    ![t].seen = @ + Cardinality(page),
                                    ![t].prev = last.hash]
            /\ verdict' = [verdict EXCEPT ![t] = Worst(@, PageIsGood(t, page))]
            /\ UNCHANGED <<clock, committed, status, kind, pc, held, draft,
                           view, batch>>
       ELSE IF /\ scan[t].seen = view[t].count
               /\ scan[t].prev = view[t].hash
               /\ scan[t].after = view[t].head
            THEN /\ verdict' = [verdict EXCEPT ![t] = Worst(@, TRUE)]
                 /\ Advance(t)
                 /\ UNCHANGED <<clock, committed, status, kind, held, draft,
                                view, scan, batch>>
            ELSE Fail(t)

Step(t) ==
    \/ Lock(t) \/ Allocate(t) \/ Insert(t)
    \/ Load(t) \/ Reconcile(t) \/ Sync(t)
    \/ View(t) \/ Commitment(t) \/ Leaves(t) \/ SignMerkleRoot(t)
    \/ Rotate(t) \/ Revoke(t)
    \/ ReadMerkleVerification(t) \/ ReadAuditChainVerificationPage(t)
    \/ Commit(t) \/ AbortDeadlock(t)

Next ==
    \/ \E t \in Txns : Step(t) \/ Rollback(t) \/ \E k \in Kinds : Begin(t, k)
    \/ Tick

Spec == Init /\ [][Next]_vars

(***************************************************************************)
(* Properties.                                                             *)
(***************************************************************************)

Open(t) == status[t] = "open"

\* Every variable keeps its type: rows, keys, batches and what the
\* transactions hold, wrote and saw.
TypeOK ==
    /\ clock \in 1..MaxClock
    /\ entries \in SUBSET Entries
    /\ nextSeq \in Nat \ {0}
    /\ keys \in [Versions -> KeyRows]
    /\ status \in [Txns -> {"idle", "open", "committed", "failed"}]
    /\ kind \in [Txns -> Kinds \cup {"none"}]
    /\ pc \in [Txns -> Nat \ {0}]
    /\ held \in [Txns -> SUBSET Locks]
    /\ verdict \in [Txns -> {"none", "passed", "failed"}]
    /\ \A t \in Txns :
        /\ draft[t].rows \in SUBSET Entries
        /\ draft[t].next \in Nat
        /\ DOMAIN draft[t].keys \subseteq Versions
        /\ \A v \in DOMAIN draft[t].keys : draft[t].keys[v] \in KeyRows

\* The committed chain is numbered 1, 2, 3, ... without gap or repetition, each
\* entry is linked to the one before it, no identifier occurs twice, and both
\* ways of numbering (the counter of audit.Append, the length that
\* reconcileAuditChainSequences takes) name the same next number.
ChainIntact ==
    /\ Cardinality(entries) = nextSeq - 1
    /\ \A e \in entries : e.seq \in 1..nextSeq - 1
    /\ \A e, f \in entries : e.seq = f.seq \/ e.id = f.id => e = f
    /\ \A e \in entries :
        /\ e.seq = 1 => e.prev = << >>
        /\ e.seq > 1 => \E f \in entries : f.seq = e.seq - 1 /\ f.hash = e.prev

\* A command that certifies the chain (Merkle batch, chain or checkpoint
\* verification, backup manifest) is recorded by the entry that comes next
\* after what it saw: nothing gets in between its view and its own entry.
ReceiptFollowsView ==
    \A t \in Txns : status[t] = "committed" /\ kind[t] \in Certifiers =>
        \E e \in entries : /\ e.id[1] = t
                           /\ e.seq = view[t].count + 1
                           /\ e.prev = view[t].hash

\* A committed Merkle batch covers the chain as it is, and was signed inside
\* its key's window of validity: no rotation or revocation, however it
\* interleaves with the signing, makes a checkpoint unverifiable except by a
\* compromise.  This supposes API processes whose clocks agree and never go back.
CheckpointVerifies ==
    \A b \in batches :
        /\ Covers(entries, b)
        /\ b.sig.key \in Versions
        /\ HistoricalValidityAt(keys[b.sig.key], b.sig.at) # "outside_window"

\* The tenant has at most one active signing key (the unique index
\* signing_keys_one_active_provider_per_tenant is never what prevents it).
OneActiveKey == \A v, w \in ActiveKeys(keys) : v = w

\* What a verification found still holds when its receipt is about to commit:
\* no key changes between its reads and its commit.
VerdictIsCurrent ==
    \A t \in Txns : Open(t) /\ pc[t] > Len(Program(kind[t])) =>
        /\ kind[t] = "batch" =>
              (verdict[t] = "passed" <=> InspectMerkleBatch(batch[t]))
        /\ kind[t] = "chain" =>
              (verdict[t] = "passed" <=>
                  \A e \in entries : e.sig = NoSignature
                      \/ validReferencedPayloadSignature(e.sig))

\* Whoever holds the fence waits for nobody, except for a batch verification
\* that took the tenant's row without it: the other nine kinds keep the order.
FenceHolderProceeds ==
    \A t, u \in Txns :
        "projection" \in held[t] /\ WaitsFor(t, u) =>
            kind[u] = "batch" /\ "projection" \notin held[u]

\* "Match every native writer: common fence, tenant root, chain lock, leaves
\* and signing key" (LockMerkleCreationView): no two transactions wait for
\* each other.
NoLockInversion ==
    \A t, u \in Txns : ~(WaitsFor(t, u) /\ WaitsFor(u, t))

\* The identifiers that the last entry's hash commits to, oldest first.
History == HashAt(entries, nextSeq - 1)

Log == INSTANCE AuditLog WITH log <- History

\* The chain is an append-only log without repetition, and the hash of its
\* last entry commits to all of it.
ImplementsLog == Log!Spec

=============================================================================
