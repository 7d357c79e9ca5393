--------------------------- MODULE AuditKeyProofs ---------------------------
(***************************************************************************)
(* Proofs about the signing keys, the Merkle batches and the verifications *)
(* of AuditChain, for any number of transactions, keys and entries: there  *)
(* is one active key, no committed batch falls out of its key's window, and*)
(* what a verification found still holds when its receipt commits.         *)
(*                                                                         *)
(* Every statement that changes a key or adds a batch comes after its      *)
(* program has locked the tenant's row for update, and every verification  *)
(* reads under a share of it.  So the keys that a writer will commit are   *)
(* good whenever the committed ones are (KeyInv), and the keys that a      *)
(* verifier has judged by are still those (VerdictInv).                    *)
(***************************************************************************)
EXTENDS AuditChainProofs

\* The keys once the rows d are written over ks.
Merge(ks, d) == [v \in Versions |-> IF v \in DOMAIN d THEN d[v] ELSE ks[v]]

\* The keys as they will be when t commits.
Overlay(t) == Merge(keys, draft[t].keys)

\* Versions are used without a gap, and one key at most is active.
GoodKeys(ks) ==
    /\ ks \in [Versions -> KeyRows]
    /\ \E m \in 0..MaxVersion : Used(ks) = 1..m
    /\ \A v, w \in ActiveKeys(ks) : v = w

\* A signature was made in its key's window.
InWindow(sig, ks, now) ==
    /\ sig.key \in Versions /\ sig.at \in 1..now
    /\ ks[sig.key].status # "absent" /\ ks[sig.key].from <= sig.at
    /\ ks[sig.key].until = 0 \/ sig.at <= ks[sig.key].until

\* A batch covers a part of the chain S of n entries.
OnChain(b, S, n) ==
    /\ b.from \in Nat \ {0} /\ b.to \in 1..n
    /\ \A s \in b.from..b.to : b.leaves[s] = HashAt(S, s)

BatchShape(b) ==
    b = [from |-> b.from, to |-> b.to, sig |-> b.sig, leaves |-> b.leaves]

\* The statements that write keys or batches.
KeyStatements == {"sign", "rotate", "revoke"}
Writing(t) == \E s \in KeyStatements : Passed(t, s)

KeysOf(t) ==
    /\ draft[t].rows \subseteq Entries
    /\ DOMAIN draft[t].keys \subseteq Versions
    /\ ~Open(t) \/ ~Writing(t) => draft[t].keys = << >> /\ draft[t].batches = {}
    /\ GoodKeys(Overlay(t))
    /\ \A b \in batches : InWindow(b.sig, Overlay(t), clock)
    /\ \A b \in draft[t].batches : /\ OnChain(b, entries, nextSeq - 1)
                                   /\ InWindow(b.sig, Overlay(t), clock)
    /\ Open(t) /\ Passed(t, "leaves") =>
          /\ BatchShape(batch[t]) /\ OnChain(batch[t], entries, nextSeq - 1)
          /\ batch[t].sig \in Signatures

KeyInv ==
    /\ clock \in 1..MaxClock
    /\ entries \subseteq Entries
    /\ GoodKeys(keys)
    /\ \A b \in batches : /\ OnChain(b, entries, nextSeq - 1)
                          /\ InWindow(b.sig, keys, clock)
    /\ \A t \in Txns : KeysOf(t)

SigOK(e) == e.sig = NoSignature \/ validReferencedPayloadSignature(e.sig)

\* What the verification of a batch has found.
BatchVerdict(t) ==
    IF Passed(t, "batch")
    THEN /\ batch[t] \in batches
         /\ verdict[t] = "passed" <=> validReferencedPayloadSignature(batch[t].sig)
    ELSE verdict[t] = "none"

\* What the verification of the chain has found up to where it has read it.
ChainVerdict(t) ==
    IF Passed(t, "page")
    THEN verdict[t] = "passed" <=> \A e \in entries : SigOK(e)
    ELSE /\ scan[t].after \in 0..nextSeq - 1 /\ scan[t].seen = scan[t].after
         /\ scan[t].prev = HashAt(entries, scan[t].after)
         /\ verdict[t] = "failed" <=>
               \E e \in entries : e.seq <= scan[t].after /\ ~SigOK(e)
         /\ ~Passed(t, "view") => scan[t].after = 0

VerdictOf(t) ==
    /\ verdict[t] \in {"none", "passed", "failed"}
    /\ ~Open(t) => scan[t] = NoScan /\ verdict[t] = "none"
    /\ Open(t) /\ kind[t] = "batch" => BatchVerdict(t)
    /\ Open(t) /\ kind[t] = "chain" => ChainVerdict(t)

VerdictInv == \A t \in Txns : VerdictOf(t)

-----------------------------------------------------------------------------

(* Keys                                                                     *)

LEMMA LastOfUsed ==
    ASSUME GoodKeys(keys)
    PROVE  LastVersion \in 0..MaxVersion /\ Used(keys) = 1..LastVersion
<1>1. PICK m \in 0..MaxVersion : Used(keys) = 1..m BY DEF GoodKeys
<1>2. MaxVersion \in Nat /\ m \in Nat BY AuditChainAssumption
<1>3. CASE m = 0
  <2>1. Used(keys) = {} BY <1>1, <1>3
  <2> QED BY <1>1, <1>3, <2>1 DEF LastVersion
<1>4. CASE m # 0
  <2> DEFINE x == CHOOSE v \in Used(keys) : \A w \in Used(keys) : w <= v
  <2>1. m \in Used(keys) /\ \A w \in Used(keys) : w <= m BY <1>1, <1>2, <1>4
  <2>2. x \in Used(keys) /\ m <= x BY <2>1
  <2>3. x = m BY <1>1, <1>2, <2>2
  <2>4. LastVersion = x BY <2>1 DEF LastVersion
  <2> QED BY <1>1, <2>3, <2>4
<1> QED BY <1>3, <1>4

LEMMA NewKeyRow ==
    ASSUME NEW now \in Nat
    PROVE  /\ NewKey(now) \in KeyRows /\ NewKey(now).status = "active"
           /\ NewKey(now).from = now /\ NewKey(now).until = 0
BY DEF NewKey, NoKey, KeyRows, Statuses, Times, Policies

LEMMA RetiredRow ==
    ASSUME NEW key \in KeyRows, NEW now \in Nat
    PROVE  /\ Retired(key, now) \in KeyRows /\ Retired(key, now).status = "retiring"
           /\ Retired(key, now).from = key.from /\ Retired(key, now).until = now
BY DEF Retired, KeyRows, Statuses, Times, Policies

LEMMA RevokedRow ==
    ASSUME NEW key \in KeyRows, NEW now \in Nat, NEW c \in BOOLEAN,
           NEW p \in Policies
    PROVE  /\ Revoked(key, now, c, p) \in KeyRows
           /\ Revoked(key, now, c, p).status = "revoked"
           /\ Revoked(key, now, c, p).from = key.from
           /\ Revoked(key, now, c, p).until = now
BY DEF Revoked, KeyRows, Statuses, Times, Policies

\* The keys ls follow ks: no key is forgotten, and a window that closes closes
\* now.
Evolves(ks, ls, now) ==
    \A v \in Versions : ks[v].status # "absent" =>
        /\ ls[v].status # "absent" /\ ls[v].from = ks[v].from
        /\ ls[v].until = ks[v].until \/ ls[v].until = now

LEMMA WindowKept ==
    ASSUME NEW now \in Nat, NEW ks, NEW ls, Evolves(ks, ls, now), NEW sig,
           InWindow(sig, ks, now)
    PROVE  InWindow(sig, ls, now)
BY DEF Evolves, InWindow

LEMMA MergeNothing ==
    ASSUME NEW ks \in [Versions -> KeyRows]
    PROVE  Merge(ks, << >>) = ks
<1>1. DOMAIN << >> = {} OBVIOUS
<1> QED BY <1>1 DEF Merge

LEMMA MergeType ==
    ASSUME NEW ks \in [Versions -> KeyRows], NEW d,
           \A v \in Versions : v \in DOMAIN d => d[v] \in KeyRows
    PROVE  /\ Merge(ks, d) \in [Versions -> KeyRows]
           /\ \A v \in Versions :
                 Merge(ks, d)[v] = IF v \in DOMAIN d THEN d[v] ELSE ks[v]
BY DEF Merge

\* A new key in the next version leaves one active key if no other stays so.
LEMMA NextKeyIsGood ==
    ASSUME GoodKeys(keys), LastVersion < MaxVersion,
           NEW ls \in [Versions -> KeyRows],
           ls[LastVersion + 1].status = "active",
           \A v \in Versions : v # LastVersion + 1 =>
               /\ ls[v].status # "active"
               /\ ls[v].status = "absent" <=> keys[v].status = "absent"
    PROVE  GoodKeys(ls)
<1>1. LastVersion \in 0..MaxVersion /\ Used(keys) = 1..LastVersion BY LastOfUsed
<1>2. MaxVersion \in Nat /\ DOMAIN ls = Versions /\ DOMAIN keys = Versions
  BY AuditChainAssumption DEF GoodKeys
<1>3. LastVersion + 1 \in Versions BY <1>1, <1>2 DEF Versions
<1>4. ActiveKeys(ls) = {LastVersion + 1} BY <1>2, <1>3 DEF ActiveKeys
<1>5. Used(ls) = Used(keys) \cup {LastVersion + 1} BY <1>2, <1>3 DEF Used
<1>6. 1..LastVersion + 1 = 1..LastVersion \cup {LastVersion + 1} BY <1>1
<1>7. LastVersion + 1 \in 0..MaxVersion BY <1>1, <1>2
<1> QED BY <1>1, <1>4, <1>5, <1>6, <1>7 DEF GoodKeys

\* A version that is not used yet is absent, so writing it forgets nothing.
LEMMA NextIsAbsent ==
    ASSUME GoodKeys(keys), LastVersion < MaxVersion
    PROVE  /\ LastVersion + 1 \in Versions /\ LastVersion \in Nat
           /\ keys[LastVersion + 1].status = "absent"
<1>1. LastVersion \in 0..MaxVersion /\ Used(keys) = 1..LastVersion BY LastOfUsed
<1>2. LastVersion + 1 \in Versions /\ LastVersion \in Nat
  BY <1>1, AuditChainAssumption DEF Versions
<1>3. LastVersion + 1 \notin Used(keys) BY <1>1, <1>2
<1> QED BY <1>2, <1>3 DEF Used, GoodKeys

LEMMA RotationIsGood ==
    ASSUME GoodKeys(keys), clock \in Nat, LastVersion < MaxVersion
    PROVE  /\ DOMAIN Rotated(clock) \subseteq Versions
           /\ GoodKeys(Merge(keys, Rotated(clock)))
           /\ Evolves(keys, Merge(keys, Rotated(clock)), clock)
<1> DEFINE n == LastVersion + 1  d == Rotated(clock)  ls == Merge(keys, d)
<1>1. n \in Versions /\ keys[n].status = "absent" BY NextIsAbsent
<1>2. /\ keys \in [Versions -> KeyRows]
      /\ \A v \in Versions : keys[v] \in KeyRows
      /\ \A v : v \in ActiveKeys(keys) <=> v \in Versions /\ keys[v].status = "active"
  BY DEF GoodKeys, ActiveKeys
<1> HIDE DEF n
<1>3. /\ DOMAIN d = ActiveKeys(keys) \cup {n}
      /\ d[n] = NewKey(clock)
      /\ \A v \in ActiveKeys(keys) : v # n => d[v] = Retired(keys[v], clock)
  BY DEF Rotated, n
<1> HIDE DEF d
<1>4. DOMAIN d \subseteq Versions BY <1>1, <1>2, <1>3
<1>5. \A v \in Versions : v \in DOMAIN d => d[v] \in KeyRows
  BY <1>2, <1>3, NewKeyRow, RetiredRow
<1>6. ls \in [Versions -> KeyRows]
      /\ \A v \in Versions : ls[v] = IF v \in DOMAIN d THEN d[v] ELSE keys[v]
  BY <1>2, <1>5, MergeType
<1> HIDE DEF ls
<1>7. ls[n] = NewKey(clock) BY <1>1, <1>3, <1>6
<1>8. ASSUME NEW v \in Versions, v # n
      PROVE  \/ v \in ActiveKeys(keys) /\ ls[v] = Retired(keys[v], clock)
             \/ v \notin ActiveKeys(keys) /\ ls[v] = keys[v]
  BY <1>3, <1>6, <1>8
<1>9. ASSUME NEW v \in Versions, v # n
      PROVE  /\ ls[v].status # "active"
             /\ ls[v].status = "absent" <=> keys[v].status = "absent"
  <2>1. CASE v \in ActiveKeys(keys)
    <3>1. ls[v].status = "retiring" BY <1>2, <1>8, <1>9, <2>1, RetiredRow
    <3> QED BY <1>2, <2>1, <3>1
  <2>2. CASE v \notin ActiveKeys(keys) BY <1>2, <1>8, <1>9, <2>2
  <2> QED BY <2>1, <2>2
<1>10. GoodKeys(ls)
  <2>1. ls[n].status = "active" BY <1>7, NewKeyRow
  <2> QED BY <1>6, <1>9, <2>1, NextKeyIsGood DEF n
<1>11. Evolves(keys, ls, clock)
  <2> SUFFICES ASSUME NEW v \in Versions, keys[v].status # "absent"
               PROVE  /\ ls[v].status # "absent" /\ ls[v].from = keys[v].from
                      /\ ls[v].until = keys[v].until \/ ls[v].until = clock
    BY DEF Evolves
  <2>1. v # n BY <1>1
  <2>2. CASE v \in ActiveKeys(keys) BY <1>2, <1>8, <2>1, <2>2, RetiredRow
  <2>3. CASE v \notin ActiveKeys(keys) BY <1>8, <2>1, <2>3
  <2> QED BY <2>2, <2>3
<1> QED BY <1>4, <1>10, <1>11 DEF d, ls

LEMMA RevocationIsGood ==
    ASSUME GoodKeys(keys), clock \in Nat, NEW v \in Versions,
           keys[v].status # "absent", NEW c \in BOOLEAN, NEW p \in Policies,
           NEW d, d = [x \in {v} |-> Revoked(keys[v], clock, c, p)]
    PROVE  /\ DOMAIN d \subseteq Versions
           /\ GoodKeys(Merge(keys, d)) /\ Evolves(keys, Merge(keys, d), clock)
<1> DEFINE r == Revoked(keys[v], clock, c, p)  ls == Merge(keys, d)
<1>1. keys \in [Versions -> KeyRows] /\ keys[v] \in KeyRows BY DEF GoodKeys
<1>2. r \in KeyRows /\ r.status = "revoked" /\ r.from = keys[v].from /\ r.until = clock
  BY <1>1, RevokedRow
<1>3. DOMAIN d = {v} /\ d[v] = r OBVIOUS
<1> HIDE DEF r
<1>4. ls \in [Versions -> KeyRows]
      /\ \A w \in Versions : ls[w] = IF w \in DOMAIN d THEN d[w] ELSE keys[w]
  BY <1>1, <1>2, <1>3, MergeType
<1> HIDE DEF ls
<1>5. ls[v] = r /\ \A w \in Versions : w # v => ls[w] = keys[w] BY <1>3, <1>4
<1>6. DOMAIN ls = Versions /\ DOMAIN keys = Versions BY <1>1, <1>4
<1>7. Used(ls) = Used(keys) BY <1>2, <1>5, <1>6 DEF Used
<1>8. ActiveKeys(ls) \subseteq ActiveKeys(keys) BY <1>2, <1>5, <1>6 DEF ActiveKeys
<1>9. GoodKeys(ls) BY <1>4, <1>7, <1>8 DEF GoodKeys
<1>10. Evolves(keys, ls, clock) BY <1>2, <1>5 DEF Evolves
<1> QED BY <1>3, <1>9, <1>10 DEF ls

LEMMA SigningIsGood ==
    ASSUME GoodKeys(keys), clock \in Nat \ {0}, SigningVersion <= MaxVersion,
           ~(SigningKey.from > clock),
           ~(SigningKey.until # 0 /\ clock >= SigningKey.until)
    PROVE  /\ DOMAIN SigningKeyRows \subseteq Versions
           /\ GoodKeys(Merge(keys, SigningKeyRows))
           /\ Evolves(keys, Merge(keys, SigningKeyRows), clock)
           /\ SigningVersion \in Versions
           /\ InWindow([key |-> SigningVersion, at |-> clock],
                       Merge(keys, SigningKeyRows), clock)
<1> DEFINE n == SigningVersion  ls == Merge(keys, SigningKeyRows)
           s == [key |-> n, at |-> clock]
<1>0. /\ keys \in [Versions -> KeyRows] /\ DOMAIN keys = Versions
      /\ \A v : v \in ActiveKeys(keys) <=> v \in Versions /\ keys[v].status = "active"
      /\ LastVersion \in 0..MaxVersion /\ MaxVersion \in Nat
  BY LastOfUsed, AuditChainAssumption DEF GoodKeys, ActiveKeys
<1>1. s.key = n /\ s.at = clock /\ clock \in 1..clock OBVIOUS
<1>2. CASE ActiveKeys(keys) = {}
  <2>1. n = LastVersion + 1 /\ SigningKey = NewKey(clock) BY <1>2 DEF SigningVersion, SigningKey
  <2>2. LastVersion < MaxVersion BY <1>0, <2>1
  <2>3. n \in Versions /\ keys[n].status = "absent" BY <2>1, <2>2, NextIsAbsent
  <2>4. DOMAIN SigningKeyRows = {n} /\ SigningKeyRows[n] = NewKey(clock)
    BY <1>2, <2>1 DEF SigningKeyRows
  <2>5. NewKey(clock) \in KeyRows /\ NewKey(clock).status = "active"
        /\ NewKey(clock).from = clock /\ NewKey(clock).until = 0
    BY NewKeyRow
  <2>6. ls \in [Versions -> KeyRows]
        /\ \A v \in Versions :
              ls[v] = IF v \in DOMAIN SigningKeyRows THEN SigningKeyRows[v] ELSE keys[v]
    BY <1>0, <2>4, <2>5, MergeType
  <2> HIDE DEF ls, n, s
  <2>7. ls[n] = NewKey(clock) /\ \A v \in Versions : v # n => ls[v] = keys[v]
    BY <2>3, <2>4, <2>6
  <2>8. \A v \in Versions : v # n =>
          /\ ls[v].status # "active"
          /\ ls[v].status = "absent" <=> keys[v].status = "absent"
    BY <1>0, <1>2, <2>7
  <2>9. ls[LastVersion + 1].status = "active" BY <2>1, <2>5, <2>7
  <2>10. GoodKeys(ls) BY <2>1, <2>2, <2>6, <2>8, <2>9, NextKeyIsGood
  <2>11. Evolves(keys, ls, clock) BY <2>3, <2>7 DEF Evolves
  <2>12. InWindow(s, ls, clock) BY <1>1, <2>3, <2>5, <2>7 DEF InWindow
  <2> QED BY <2>3, <2>4, <2>10, <2>11, <2>12 DEF ls, n, s
<1>3. CASE ActiveKeys(keys) # {}
  <2>1. PICK a : a \in ActiveKeys(keys) BY <1>3
  <2>2. \A y \in ActiveKeys(keys) : y = a BY <2>1 DEF GoodKeys
  <2>3. a \in Versions /\ a <= a BY <1>0, <2>1 DEF Versions
  <2>4. n \in ActiveKeys(keys)
    <3>1. \E x \in ActiveKeys(keys) : \A y \in ActiveKeys(keys) : y <= x
      BY <2>1, <2>2, <2>3
    <3> QED BY <1>3, <3>1 DEF SigningVersion
  <2>5. SigningKey = keys[n] /\ SigningKeyRows = << >>
    BY <1>3 DEF SigningKey, SigningKeyRows
  <2>6. ls = keys BY <1>0, <2>5, MergeNothing
  <2>7. n \in Versions /\ keys[n].status = "active" /\ keys[n] \in KeyRows
    BY <1>0, <2>4
  <2>8. keys[n].from \in Nat /\ keys[n].until \in Nat BY <2>7 DEF KeyRows, Times
  <2> HIDE DEF ls, n, s
  <2>9. keys[n].from <= clock /\ (keys[n].until = 0 \/ clock <= keys[n].until)
    BY <2>5, <2>8
  <2>10. InWindow(s, ls, clock) BY <1>1, <2>6, <2>7, <2>9 DEF InWindow
  <2>11. Evolves(keys, ls, clock) BY <2>6 DEF Evolves
  <2>12. DOMAIN SigningKeyRows = {} BY <2>5
  <2> QED BY <2>6, <2>7, <2>10, <2>11, <2>12 DEF ls, n, s
<1> QED BY <1>2, <1>3

-----------------------------------------------------------------------------

(* Who holds the tenant's row                                               *)

\* Where the statements on keys and batches stand in their programs.
LEMMA Positions ==
    /\ Program("merkle")[2] = "tenant_update" /\ Program("merkle")[4] = "view"
    /\ Program("merkle")[5] = "leaves"
    /\ Len(Program("merkle")) = 8
    /\ Program("rotate")[2] = "tenant_update"
    /\ Program("revoke")[2] = "tenant_update"
    /\ Program("chain")[2] = "tenant_share" /\ Program("chain")[4] = "view"
    /\ Program("chain")[5] = "page" /\ Len(Program("chain")) = 7
    /\ Program("batch")[1] = "tenant_share" /\ Program("batch")[2] = "batch"
    /\ Len(Program("batch")) = 6
<1>1. Program("merkle") = createMerkleBatch BY DEF Program
<1>2. Program("rotate") = RotateSigningKey BY DEF Program
<1>3. Program("revoke") = RevokeSigningKey BY DEF Program
<1>4. Program("chain") = verifyAuditChain BY DEF Program
<1>5. Program("batch") = verifyMerkleBatch BY DEF Program
<1> QED
  BY <1>1, <1>2, <1>3, <1>4, <1>5
  DEF createMerkleBatch, RotateSigningKey, RevokeSigningKey, verifyAuditChain,
      verifyMerkleBatch

\* A statement that t has passed or comes to, and its place.
LEMMA PlaceOf ==
    ASSUME LockInv, NEW t \in Txns, Open(t), NEW s, Passed(t, s) \/ At(t, s)
    PROVE  \E i \in 1..Len(Program(kind[t])) :
              /\ i <= pc[t] /\ (~At(t, s) => i < pc[t])
              /\ Placed(kind[t], Len(Program(kind[t])), i, s)
<1> DEFINE p == Program(kind[t])
<1>1. pc[t] \in 1..Len(p) + 1 /\ Len(p) \in Nat
      /\ \A i \in 1..Len(p) : Placed(kind[t], Len(p), i, p[i])
  BY ProgramOf DEF Disciplined
<1> HIDE DEF p
<1>2. CASE At(t, s)
  <2>1. pc[t] \in 1..Len(p) /\ p[pc[t]] = s BY <1>1, <1>2 DEF At, p
  <2> QED BY <1>1, <1>2, <2>1 DEF p
<1>3. CASE Passed(t, s)
  <2>1. PICK i \in 1..pc[t] - 1 : p[i] = s BY <1>3 DEF Passed, Stmt, p
  <2>2. i \in 1..Len(p) /\ i < pc[t] /\ i <= pc[t] BY <1>1
  <2> QED BY <1>1, <2>1, <2>2 DEF p
<1> QED BY <1>2, <1>3

LEMMA EarlierIsPassed ==
    ASSUME LockInv, NEW t \in Txns, Open(t), NEW i \in Nat \ {0}, i < pc[t]
    PROVE  Passed(t, Program(kind[t])[i])
<1>1. pc[t] \in Nat BY DEF LockInv, ControlType
<1>2. i \in 1..pc[t] - 1 BY <1>1
<1> QED BY <1>2 DEF Passed, Stmt

\* Whoever writes keys or batches has locked the tenant's row for update.
LEMMA WriterHoldsTenant ==
    ASSUME LockInv, NEW t \in Txns, Open(t), NEW s \in KeyStatements,
           Passed(t, s) \/ At(t, s)
    PROVE  "tenant_update" \in held[t]
<1>1. PICK i \in 1..Len(Program(kind[t])) :
        i <= pc[t] /\ Placed(kind[t], Len(Program(kind[t])), i, s)
  BY PlaceOf
<1>2. i > 2 /\ kind[t] \in {"merkle", "rotate", "revoke"}
  BY <1>1 DEF Placed, KeyStatements
<1>3. pc[t] \in Nat /\ i \in Nat BY DEF LockInv, ControlType
<1>4. 2 < pc[t] BY <1>1, <1>2, <1>3
<1>5. Passed(t, "tenant_update") BY <1>2, <1>4, EarlierIsPassed, Positions
<1> QED BY <1>5 DEF LockInv, OwnLocks, Locks

\* Whoever verifies a batch or the chain has locked it for share.
LEMMA VerifierHoldsTenant ==
    ASSUME LockInv, NEW t \in Txns, Open(t),
           \/ kind[t] = "batch" /\ (Passed(t, "batch") \/ At(t, "batch"))
           \/ kind[t] = "chain" /\ (Passed(t, "page") \/ At(t, "page"))
           \/ kind[t] = "chain" /\ (Passed(t, "view") \/ At(t, "view"))
    PROVE  "tenant_share" \in held[t]
<1>1. PICK s \in {"batch", "page", "view"} :
        /\ Passed(t, s) \/ At(t, s)
        /\ \/ kind[t] = "batch" /\ s = "batch"
           \/ kind[t] = "chain" /\ s \in {"page", "view"}
  OBVIOUS
<1>2. PICK i \in 1..Len(Program(kind[t])) :
        i <= pc[t] /\ Placed(kind[t], Len(Program(kind[t])), i, s)
  BY <1>1, PlaceOf
<1>3. \/ kind[t] = "batch" /\ i = 2
      \/ kind[t] = "chain" /\ i > 2
  BY <1>1, <1>2 DEF Placed
<1>4. pc[t] \in Nat /\ i \in Nat BY DEF LockInv, ControlType
<1>5. CASE kind[t] = "batch"
  <2>1. 1 < pc[t] BY <1>2, <1>3, <1>4, <1>5
  <2>2. Passed(t, "tenant_share") BY <1>5, <2>1, EarlierIsPassed, Positions
  <2> QED BY <2>2 DEF LockInv, OwnLocks, Locks
<1>6. CASE kind[t] = "chain"
  <2>1. 2 < pc[t] BY <1>2, <1>3, <1>4, <1>6
  <2>2. Passed(t, "tenant_share") BY <1>6, <2>1, EarlierIsPassed, Positions
  <2> QED BY <2>2 DEF LockInv, OwnLocks, Locks
<1> QED BY <1>3, <1>5, <1>6

\* While a writer is past its lock, nobody else writes or verifies.
LEMMA WriterIsAlone ==
    ASSUME LockInv, NEW t \in Txns, Open(t), Writing(t),
           NEW u \in Txns, u # t, Open(u)
    PROVE  /\ ~Writing(u)
           /\ kind[u] = "batch" => ~Passed(u, "batch")
           /\ kind[u] = "chain" => ~Passed(u, "page") /\ ~Passed(u, "view")
<1>1. "tenant_update" \in held[t] BY WriterHoldsTenant DEF Writing
<1>2. "tenant_update" \notin held[u] /\ "tenant_share" \notin held[u]
  BY <1>1 DEF LockInv, Conflicts
<1> QED BY <1>2, WriterHoldsTenant, VerifierHoldsTenant DEF Writing

\* A transaction that comes to a statement on keys has written none.
LEMMA NotYetWriting ==
    ASSUME LockInv, NEW t \in Txns, Open(t), NEW s \in KeyStatements, At(t, s)
    PROVE  ~Writing(t)
<1> SUFFICES ASSUME NEW r \in KeyStatements, Passed(t, r) PROVE FALSE
  BY DEF Writing
<1> DEFINE p == Program(kind[t])
<1>1. pc[t] \in 1..Len(p) /\ p[pc[t]] = s /\ Len(p) \in Nat
      /\ \A i \in 1..Len(p) : Placed(kind[t], Len(p), i, p[i])
  BY ProgramOf DEF Disciplined, At
<1> HIDE DEF p
<1>2. PICK i \in 1..pc[t] - 1 : p[i] = r BY DEF Passed, Stmt, p
<1>3. i \in 1..Len(p) /\ i < pc[t] BY <1>1
<1>4. Placed(kind[t], Len(p), i, r) /\ Placed(kind[t], Len(p), pc[t], s)
  BY <1>1, <1>2, <1>3
<1>5. i = pc[t] BY <1>4 DEF Placed, KeyStatements
<1> QED BY <1>3, <1>5

\* Whoever comes to sign has the leaves, and so has the insert after it.
LEMMA SignerHasLeaves ==
    ASSUME LockInv, NEW t \in Txns, Open(t),
           At(t, "sign") \/ (At(t, "insert") /\ kind[t] = "merkle")
    PROVE  kind[t] = "merkle" /\ Passed(t, "leaves")
<1> DEFINE s == IF At(t, "sign") THEN "sign" ELSE "insert"
<1>1. At(t, s) BY DEF s
<1>2. PICK i \in 1..Len(Program(kind[t])) :
        i <= pc[t] /\ Placed(kind[t], Len(Program(kind[t])), i, s)
  BY <1>1, PlaceOf
<1>3. kind[t] = "merkle" BY <1>2 DEF Placed
<1>4. i >= 6
  <2>1. Len(Program(kind[t])) = 8 /\ i \in Nat BY <1>3, Positions
  <2>2. CASE At(t, "sign") BY <1>2, <2>2 DEF Placed
  <2>3. CASE ~At(t, "sign")
    <3>1. s = "insert" BY <2>3
    <3>2. i >= 8 - 1 BY <1>2, <1>3, <2>1, <3>1 DEF Placed, Certifiers
    <3> QED BY <2>1, <3>2
  <2> QED BY <2>2, <2>3
<1>5. pc[t] \in Nat /\ i \in Nat BY DEF LockInv, ControlType
<1>6. 5 < pc[t] BY <1>2, <1>4, <1>5
<1> QED BY <1>3, <1>6, EarlierIsPassed, Positions

-----------------------------------------------------------------------------

(* The invariant of the keys                                                *)

\* The hashes of a chain stay when it grows.
LEMMA OldHashes ==
    ASSUME NEW S, NEW n, GoodChain(S, n), NEW T, NEW m, GoodChain(T, m),
           S \subseteq T
    PROVE  n <= m /\ \A s \in 1..n : HashAt(T, s) = HashAt(S, s)
<1>1. n \in Nat /\ m \in Nat /\ IsFiniteSet(T)
      /\ Cardinality(S) = n /\ Cardinality(T) = m
  BY DEF GoodChain
<1>2. n <= m BY <1>1, FS_Subset
<1>3. ASSUME NEW s \in 1..n PROVE HashAt(T, s) = HashAt(S, s)
  <2>1. PICK e \in S : e.seq = s BY DEF GoodChain
  <2>2. HashAt(S, e.seq) = e.hash BY HashOfRow
  <2>3. e \in T BY <2>1
  <2>4. HashAt(T, e.seq) = e.hash BY <2>3, HashOfRow
  <2> QED BY <2>1, <2>2, <2>4
<1> QED BY <1>2, <1>3

\* So a batch that covers a part of it still does.
LEMMA OnChainKept ==
    ASSUME NEW S, NEW n, GoodChain(S, n), NEW T, NEW m, GoodChain(T, m),
           S \subseteq T, NEW b, OnChain(b, S, n)
    PROVE  OnChain(b, T, m)
<1>1. n \in Nat /\ m \in Nat BY DEF GoodChain
<1>2. n <= m /\ \A s \in 1..n : HashAt(T, s) = HashAt(S, s) BY OldHashes
<1>3. b.from \in Nat \ {0} /\ b.to \in 1..n
      /\ \A s \in b.from..b.to : b.leaves[s] = HashAt(S, s)
  BY DEF OnChain
<1>4. b.to \in 1..m BY <1>1, <1>2, <1>3
<1>5. ASSUME NEW s \in b.from..b.to PROVE b.leaves[s] = HashAt(T, s)
  <2>1. s \in 1..n BY <1>1, <1>3
  <2> QED BY <1>2, <1>3, <2>1
<1> QED BY <1>3, <1>4, <1>5 DEF OnChain

\* A row of a chain that was made by RehashAuditChainEntry is an entry.
LEMMA RowIsEntry ==
    ASSUME NEW id, NEW seq, NEW prev, NEW sig \in Signatures,
           GoodRow(RehashAuditChainEntry(id, seq, prev, sig))
    PROVE  RehashAuditChainEntry(id, seq, prev, sig) \in Entries
<1>1. id \in Ids /\ seq \in Nat \ {0} /\ prev \in Seq(Ids)
  BY DEF GoodRow, RehashAuditChainEntry, Hashes
<1>2. Append(prev, id) \in Seq(Ids) BY <1>1
<1> QED BY <1>1, <1>2 DEF Entries, RehashAuditChainEntry, Hashes

\* How a move changes what is passed, the page that does not advance included.
LEMMA MovePassed ==
    ASSUME LockInv, NEW t \in Txns, NEW s \in Statements, Moves(t, s)
    PROVE  /\ Open(t) /\ Open(t)' /\ kind' = kind /\ At(t, s)
           /\ \A x : x # s => (Passed(t, x)' <=> Passed(t, x))
           /\ pc'[t] = pc[t] + 1 => Passed(t, s)'
           /\ pc'[t] = pc[t] => (Passed(t, s)' <=> Passed(t, s))
           /\ s # "page" => pc'[t] = pc[t] + 1
<1>1. /\ Open(t) /\ Open(t)' /\ kind' = kind /\ At(t, s)
      /\ pc'[t] \in {pc[t], pc[t] + 1}
      /\ pc'[t] = pc[t] => s = "page"
  BY MoveControl DEF Moves, Open
<1>2. CASE pc'[t] = pc[t] + 1
  <2>1. pc'[t] # pc[t] BY <1>2 DEF LockInv, ControlType
  <2> QED BY <1>1, <1>2, <2>1, MovePosition
<1>3. CASE pc'[t] = pc[t]
  <2>1. \A x : Passed(t, x)' <=> Passed(t, x) BY <1>1, <1>3 DEF Passed, Stmt
  <2>2. pc'[t] # pc[t] + 1 BY <1>3 DEF LockInv, ControlType
  <2> QED BY <1>1, <1>3, <2>1, <2>2
<1> QED BY <1>1, <1>2, <1>3

LEMMA KeysOfUntouched ==
    ASSUME NEW u \in Txns, KeysOf(u), SameLocal(u), status'[u] = status[u],
           kind'[u] = kind[u], pc'[u] = pc[u], entries' = entries,
           nextSeq' = nextSeq, keys' = keys, batches' = batches, clock' = clock
    PROVE  KeysOf(u)'
<1>1. /\ draft'[u] = draft[u] /\ batch'[u] = batch[u]
      /\ \A x : Passed(u, x)' <=> Passed(u, x)
      /\ Open(u)' <=> Open(u)
  BY DEF SameLocal, Passed, Stmt, Open
<1>2. (Writing(u)' <=> Writing(u)) /\ Overlay(u)' = Overlay(u)
  BY <1>1 DEF Writing, Overlay
<1> QED BY <1>1, <1>2 DEF KeysOf

\* The statements that write neither keys nor batches.
LEMMA KeysNeutralMove ==
    ASSUME LockInv, KeyInv, NEW t \in Txns, NEW s \in Statements, Moves(t, s),
           s \notin KeyStatements, s # "leaves",
           draft'[t].keys = draft[t].keys, draft'[t].batches = draft[t].batches,
           batch'[t] = batch[t] \/ s = "batch", draft'[t].rows \subseteq Entries
    PROVE  KeysOf(t)'
<1>1. /\ Open(t) /\ Open(t)' /\ kind' = kind /\ At(t, s)
      /\ \A x : x # s => (Passed(t, x)' <=> Passed(t, x))
  BY MovePassed
<1>2. /\ entries' = entries /\ nextSeq' = nextSeq /\ keys' = keys
      /\ batches' = batches /\ clock' = clock
  BY DEF Moves
<1>3. KeysOf(t) BY DEF KeyInv
<1>4. (Writing(t)' <=> Writing(t)) /\ Overlay(t)' = Overlay(t)
  BY <1>1, <1>2 DEF Writing, Overlay
<1>5. Passed(t, "leaves")' => Passed(t, "leaves") /\ batch'[t] = batch[t]
  <2> SUFFICES ASSUME Passed(t, "leaves"), s = "batch" PROVE FALSE BY <1>1
  <2>1. \E i : Placed(kind[t], Len(Program(kind[t])), i, "leaves") BY <1>1, PlaceOf
  <2>2. \E i : Placed(kind[t], Len(Program(kind[t])), i, "batch") BY <1>1, PlaceOf
  <2> QED BY <2>1, <2>2 DEF Placed
<1>6. Passed(t, "leaves")' =>
        /\ BatchShape(batch'[t]) /\ OnChain(batch'[t], entries', nextSeq' - 1)
        /\ batch'[t].sig \in Signatures
  BY <1>1, <1>2, <1>3, <1>5 DEF KeysOf
<1>7. Passed(t, "leaves")' => BatchShape(batch[t])'
  BY <1>6 DEF BatchShape
<1> QED BY <1>1, <1>2, <1>3, <1>4, <1>6, <1>7 DEF KeysOf

\* The statements that write them: the keys that t will commit follow the
\* committed ones, and a batch it has signed is on the chain and in its window.
LEMMA KeysWritingMove ==
    ASSUME LockInv, KeyInv, NEW t \in Txns, NEW s \in KeyStatements, Moves(t, s),
           NEW ks, DOMAIN ks \subseteq Versions, GoodKeys(Merge(keys, ks)),
           Evolves(keys, Merge(keys, ks), clock),
           NEW bs, draft'[t] = [rows |-> draft[t].rows, next |-> draft[t].next,
                                keys |-> ks, batches |-> bs],
           \A b \in bs : /\ OnChain(b, entries, nextSeq - 1)
                         /\ InWindow(b.sig, Merge(keys, ks), clock),
           Passed(t, "leaves") => /\ BatchShape(batch'[t])
                                  /\ OnChain(batch'[t], entries, nextSeq - 1)
                                  /\ batch'[t].sig \in Signatures
    PROVE  KeysOf(t)'
<1>0. s \in Statements /\ s # "leaves" /\ s # "page"
  BY DEF KeyStatements, Statements, Early, Late
<1>1. /\ Open(t) /\ Open(t)' /\ kind' = kind
      /\ \A x : x # s => (Passed(t, x)' <=> Passed(t, x))
      /\ Passed(t, s)'
  BY <1>0, MovePassed
<1>2. /\ entries' = entries /\ nextSeq' = nextSeq /\ keys' = keys
      /\ batches' = batches /\ clock' = clock
  BY DEF Moves
<1>3. KeysOf(t) BY DEF KeyInv
<1>4. Writing(t)' BY <1>1 DEF Writing
<1>5. draft'[t].rows = draft[t].rows /\ draft'[t].keys = ks
      /\ draft'[t].batches = bs
  OBVIOUS
<1>6. Overlay(t)' = Merge(keys, ks) BY <1>2, <1>5 DEF Overlay
<1>7. clock \in Nat BY DEF KeyInv
<1>8. \A b \in batches : InWindow(b.sig, Merge(keys, ks), clock)
  BY <1>7, WindowKept DEF KeyInv
<1>9. Passed(t, "leaves")' =>
        /\ BatchShape(batch[t])' /\ OnChain(batch'[t], entries', nextSeq' - 1)
        /\ batch'[t].sig \in Signatures
  BY <1>0, <1>1, <1>2 DEF BatchShape
<1>10. draft'[t].rows \subseteq Entries BY <1>3, <1>5 DEF KeysOf
<1> QED BY <1>1, <1>2, <1>4, <1>5, <1>6, <1>8, <1>9, <1>10 DEF KeysOf

LEMMA LeavesKeys ==
    ASSUME LockInv, ChainInv, KeyInv, NEW t \in Txns, Moves(t, "leaves"),
           Leaves(t), ~Fail(t)
    PROVE  KeysOf(t)'
<1>0. "leaves" \in Statements BY DEF Statements, Late
<1>1. /\ Open(t) /\ Open(t)' /\ kind' = kind /\ At(t, "leaves")
      /\ \A x : x # "leaves" => (Passed(t, x)' <=> Passed(t, x))
  BY <1>0, MovePassed
<1>2. /\ entries' = entries /\ nextSeq' = nextSeq /\ keys' = keys
      /\ batches' = batches /\ clock' = clock
  BY DEF Moves
<1>3. PICK from \in 1..view[t].count, to \in 1..view[t].count :
        /\ from <= to /\ UNCHANGED draft
        /\ batch'[t] = [from |-> from, to |-> to, sig |-> NoSignature,
                        leaves |-> [s \in from..to |-> HashAt(entries, s)]]
  BY LeavesEffect DEF ChainInv
<1>4. view[t].count = nextSeq - 1 /\ nextSeq - 1 \in Nat
  <2>1. PICK i \in 1..Len(Program(kind[t])) :
          i <= pc[t] /\ Placed(kind[t], Len(Program(kind[t])), i, "leaves")
    BY <1>1, PlaceOf
  <2>2. kind[t] = "merkle" /\ i = 5 BY <2>1 DEF Placed
  <2>3. pc[t] \in Nat BY DEF LockInv, ControlType
  <2>4. 4 < pc[t] BY <2>1, <2>2, <2>3
  <2>5. Passed(t, "view") BY <1>1, <2>2, <2>4, EarlierIsPassed, Positions
  <2> QED BY <1>1, <2>5 DEF ChainInv, ChainOf, ViewInv
<1>5. /\ batch'[t].from = from /\ batch'[t].to = to
      /\ batch'[t].sig = NoSignature
      /\ batch'[t].leaves = [s \in from..to |-> HashAt(entries, s)]
  BY <1>3
<1>6. BatchShape(batch[t])' BY <1>3 DEF BatchShape
<1>7. OnChain(batch'[t], entries, nextSeq - 1)
  BY <1>3, <1>4, <1>5 DEF OnChain
<1>8. NoSignature \in Signatures BY DEF NoSignature, Signatures, Times
<1>9. KeysOf(t) BY DEF KeyInv
<1>10. Writing(t)' <=> Writing(t) BY <1>1 DEF Writing, KeyStatements
<1>11. draft'[t] = draft[t] /\ Overlay(t)' = Overlay(t)
  BY <1>2, <1>3 DEF Overlay
<1> QED BY <1>1, <1>2, <1>5, <1>6, <1>7, <1>8, <1>9, <1>10, <1>11 DEF KeysOf

LEMMA SignKeys ==
    ASSUME LockInv, ChainInv, KeyInv, NEW t \in Txns, Moves(t, "sign"),
           SignMerkleRoot(t), ~Fail(t)
    PROVE  KeysOf(t)'
<1> DEFINE sig == [key |-> SigningVersion, at |-> clock]
           ls == Merge(keys, SigningKeyRows)
<1>1. /\ batch'[t] = Signed(t)
      /\ draft'[t] = [rows |-> draft[t].rows, next |-> draft[t].next,
                      keys |-> SigningKeyRows, batches |-> {Signed(t)}]
      /\ SigningVersion <= MaxVersion
      /\ ~(SigningKey.from > clock)
      /\ ~(SigningKey.until # 0 /\ clock >= SigningKey.until)
  BY SignEffect DEF ChainInv
<1>2. GoodKeys(keys) /\ clock \in Nat \ {0} /\ KeysOf(t) BY DEF KeyInv
<1>3. /\ DOMAIN SigningKeyRows \subseteq Versions
      /\ GoodKeys(ls) /\ Evolves(keys, ls, clock)
      /\ SigningVersion \in Versions /\ InWindow(sig, ls, clock)
  BY <1>1, <1>2, SigningIsGood
<1>4. Open(t) /\ At(t, "sign") BY DEF Moves, At, Open
<1>5. BatchShape(batch[t]) /\ OnChain(batch[t], entries, nextSeq - 1)
  BY <1>2, <1>4, SignerHasLeaves DEF KeysOf
<1> DEFINE b == Signed(t)
<1>6. b = [from |-> batch[t].from, to |-> batch[t].to, sig |-> sig,
           leaves |-> batch[t].leaves]
  BY <1>5 DEF BatchShape, Signed
<1> HIDE DEF ls
<1>7. sig \in Signatures BY <1>2, <1>3 DEF Signatures, Times, Versions
<1> HIDE DEF sig
<1>8. /\ b.from = batch[t].from /\ b.to = batch[t].to /\ b.sig = sig
      /\ b.leaves = batch[t].leaves /\ BatchShape(b)
  BY <1>6 DEF BatchShape
<1> HIDE DEF b
<1>9. OnChain(b, entries, nextSeq - 1) BY <1>5, <1>8 DEF OnChain
<1>10. "sign" \in KeyStatements BY DEF KeyStatements
<1>11. \A x \in {b} : OnChain(x, entries, nextSeq - 1) /\ InWindow(x.sig, ls, clock)
  BY <1>3, <1>8, <1>9
<1>12. BatchShape(batch'[t]) /\ OnChain(batch'[t], entries, nextSeq - 1)
       /\ batch'[t].sig \in Signatures
  BY <1>1, <1>7, <1>8, <1>9 DEF b
<1>13. draft'[t] = [rows |-> draft[t].rows, next |-> draft[t].next,
                    keys |-> SigningKeyRows, batches |-> {b}]
  BY <1>1 DEF b
<1> QED BY <1>3, <1>10, <1>11, <1>12, <1>13, KeysWritingMove DEF ls

LEMMA RotateKeys ==
    ASSUME LockInv, ChainInv, KeyInv, NEW t \in Txns, Moves(t, "rotate"),
           Rotate(t)
    PROVE  KeysOf(t)'
<1>1. /\ LastVersion < MaxVersion /\ UNCHANGED <<view, scan, batch, verdict>>
      /\ draft' = [draft EXCEPT ![t].keys = Rotated(clock)]
  BY DEF Rotate
<1>2. draft'[t] = [rows |-> draft[t].rows, next |-> draft[t].next,
                   keys |-> Rotated(clock), batches |-> draft[t].batches]
  BY <1>1, KeysEffect DEF ChainInv
<1>3. GoodKeys(keys) /\ clock \in Nat /\ KeysOf(t) BY DEF KeyInv
<1>4. /\ DOMAIN Rotated(clock) \subseteq Versions
      /\ GoodKeys(Merge(keys, Rotated(clock)))
      /\ Evolves(keys, Merge(keys, Rotated(clock)), clock)
  BY <1>1, <1>3, RotationIsGood
<1>5. "rotate" \in KeyStatements BY DEF KeyStatements
<1>6. Open(t) /\ At(t, "rotate") BY DEF Moves, At, Open
<1>7. draft[t].batches = {} BY <1>3, <1>5, <1>6, NotYetWriting DEF KeysOf
<1>8. ~Passed(t, "leaves")
  <2>1. \E i : Placed(kind[t], Len(Program(kind[t])), i, "rotate") BY <1>6, PlaceOf
  <2>2. Passed(t, "leaves") =>
          \E i : Placed(kind[t], Len(Program(kind[t])), i, "leaves")
    BY <1>6, PlaceOf
  <2> QED BY <2>1, <2>2 DEF Placed
<1> QED BY <1>2, <1>4, <1>5, <1>7, <1>8, KeysWritingMove

LEMMA RevokeKeys ==
    ASSUME LockInv, ChainInv, KeyInv, NEW t \in Txns, Moves(t, "revoke"),
           Revoke(t), ~Fail(t)
    PROVE  KeysOf(t)'
<1>1. PICK v \in Versions, c \in BOOLEAN, p \in Policies :
        /\ keys[v].status \notin {"absent", "revoked"}
        /\ draft' = [draft EXCEPT ![t].keys =
                        [x \in {v} |-> Revoked(keys[v], clock, c, p)]]
        /\ UNCHANGED <<view, scan, batch, verdict>>
  BY DEF Revoke
<1> DEFINE d == [x \in {v} |-> Revoked(keys[v], clock, c, p)]
<1>2. draft' = [draft EXCEPT ![t].keys = d] BY <1>1
<1>3. GoodKeys(keys) /\ clock \in Nat /\ KeysOf(t) BY DEF KeyInv
<1>4. /\ DOMAIN d \subseteq Versions /\ GoodKeys(Merge(keys, d))
      /\ Evolves(keys, Merge(keys, d), clock)
  BY <1>1, <1>3, RevocationIsGood
<1> HIDE DEF d
<1>5. draft'[t] = [rows |-> draft[t].rows, next |-> draft[t].next,
                   keys |-> d, batches |-> draft[t].batches]
  BY <1>1, <1>2, KeysEffect DEF ChainInv
<1>6. "revoke" \in KeyStatements BY DEF KeyStatements
<1>7. Open(t) /\ At(t, "revoke") BY DEF Moves, At, Open
<1>8. draft[t].batches = {} BY <1>3, <1>6, <1>7, NotYetWriting DEF KeysOf
<1>9. ~Passed(t, "leaves")
  <2>1. \E i : Placed(kind[t], Len(Program(kind[t])), i, "revoke") BY <1>7, PlaceOf
  <2>2. Passed(t, "leaves") =>
          \E i : Placed(kind[t], Len(Program(kind[t])), i, "leaves")
    BY <1>7, PlaceOf
  <2> QED BY <2>1, <2>2 DEF Placed
<1> QED BY <1>4, <1>5, <1>6, <1>8, <1>9, KeysWritingMove

\* The entries that t writes are of their type.
LEMMA InsertKeys ==
    ASSUME LockInv, ChainInv, ChainInv', KeyInv, NEW t \in Txns,
           Moves(t, "insert"), Insert(t), ~Fail(t)
    PROVE  KeysOf(t)'
<1> DEFINE sig == IF kind[t] = "merkle" THEN batch[t].sig ELSE NoSignature
<1>0. "insert" \in Statements \ KeyStatements
  BY DEF Statements, Late, KeyStatements
<1>1. Open(t) /\ Open(t)' /\ At(t, "insert") BY <1>0, MovePassed
<1>2. /\ UNCHANGED batch
      /\ draft'[t] = [rows |-> draft[t].rows \cup {NewEntry(t)},
                      next |-> draft[t].next, keys |-> draft[t].keys,
                      batches |-> draft[t].batches]
  BY InsertEffect DEF ChainInv
<1>3. draft'[t].rows = draft[t].rows \cup {NewEntry(t)}
      /\ draft'[t].keys = draft[t].keys /\ draft'[t].batches = draft[t].batches
  BY <1>2
<1>4. sig \in Signatures
  <2>1. NoSignature \in Signatures BY DEF NoSignature, Signatures, Times
  <2>2. kind[t] = "merkle" => batch[t].sig \in Signatures
    BY <1>1, SignerHasLeaves DEF KeyInv, KeysOf
  <2> QED BY <2>1, <2>2
<1>5. GoodRow(NewEntry(t))
  <2>1. GoodChain(RowsSeen(t), Extent(t))'
    BY <1>1 DEF ChainInv, ChainOf, DraftInv
  <2>2. \A e \in RowsSeen(t)' : GoodRow(e)
    <3>1. \A S, n : GoodChain(S, n) => \A e \in S : GoodRow(e) BY DEF GoodChain
    <3>2. GoodChain(RowsSeen(t)', Extent(t)') BY <2>1
    <3> QED BY <3>1, <3>2
  <2>3. NewEntry(t) \in RowsSeen(t)' BY <1>3 DEF RowsSeen
  <2> QED BY <2>2, <2>3
<1>6. NewEntry(t) \in Entries BY <1>4, <1>5, RowIsEntry DEF NewEntry
<1>7. draft'[t].rows \subseteq Entries BY <1>3, <1>6 DEF KeyInv, KeysOf
<1> QED BY <1>0, <1>2, <1>3, <1>7, KeysNeutralMove

LEMMA ReconcileKeys ==
    ASSUME LockInv, ChainInv, ChainInv', KeyInv, NEW t \in Txns,
           Moves(t, "reconcile"), Reconcile(t), ~Fail(t)
    PROVE  KeysOf(t)'
<1> DEFINE e == RehashAuditChainEntry(<<t, pc[t]>>, nextSeq - 1 + 1,
                    HashAt(entries, nextSeq - 1), NoSignature)
<1>0. "reconcile" \in Statements \ KeyStatements /\ NoSignature \in Signatures
  BY DEF Statements, Late, KeyStatements, NoSignature, Signatures, Times
<1>1. Open(t) /\ Open(t)' BY <1>0, MovePassed
<1>2. UNCHANGED batch /\
      \E order \in [1..Cardinality(Pending(t)) -> Pending(t)] :
        draft'[t] = [rows |-> Relinked(t, order), next |-> draft[t].next,
                     keys |-> draft[t].keys, batches |-> draft[t].batches]
  BY ReconcileEffect DEF ChainInv
<1>3. draft'[t] = [rows |-> {e}, next |-> draft[t].next,
                   keys |-> draft[t].keys, batches |-> draft[t].batches]
  BY <1>1, <1>2, RelinkedIsOneEntry
<1>4. draft'[t].rows = {e} /\ draft'[t].keys = draft[t].keys
      /\ draft'[t].batches = draft[t].batches
  BY <1>3
<1>5. GoodRow(e)
  <2>1. GoodChain(RowsSeen(t)', Extent(t)')
    BY <1>1 DEF ChainInv, ChainOf, DraftInv
  <2>2. e \in RowsSeen(t)' BY <1>4 DEF RowsSeen
  <2>3. \A S, n : GoodChain(S, n) => \A f \in S : GoodRow(f) BY DEF GoodChain
  <2> HIDE DEF e
  <2> QED BY <2>1, <2>2, <2>3
<1>6. e \in Entries BY <1>0, <1>5, RowIsEntry
<1>7. draft'[t].rows \subseteq Entries BY <1>4, <1>6
<1> QED BY <1>0, <1>2, <1>4, <1>7, KeysNeutralMove

LEMMA KeysOwnMove ==
    ASSUME LockInv, ChainInv, ChainInv', KeyInv, NEW t \in Txns, Step(t),
           ~Fail(t), ~Commit(t)
    PROVE  KeysOf(t)'
<1>0. Shaped /\ ControlType BY DEF ChainInv, LockInv
<1>1. PICK s \in Statements : Moves(t, s) BY <1>0, StepShape
<1>2. \A x : At(t, x) => x = s BY <1>1 DEF Moves, At
<1>3. draft[t].rows \subseteq Entries BY DEF KeyInv, KeysOf
<1>4. ASSUME s \notin KeyStatements, s # "leaves",
             draft'[t].keys = draft[t].keys, draft'[t].batches = draft[t].batches,
             batch'[t] = batch[t] \/ s = "batch",
             draft'[t].rows = draft[t].rows
      PROVE  KeysOf(t)'
  BY <1>1, <1>3, <1>4, KeysNeutralMove
<1>5. CASE Lock(t)
  <2>1. SameLocal(t) BY <1>0, <1>5, LockEffect
  <2>2. s \in Locks \ {"sequence"} BY <1>2, <1>5 DEF Lock
  <2>3. s \notin KeyStatements /\ s # "leaves" BY <2>2 DEF Locks, KeyStatements
  <2> QED BY <1>4, <2>1, <2>3 DEF SameLocal
<1>6. CASE Allocate(t)
  <2>1. s = "allocate" BY <1>2, <1>6 DEF Allocate
  <2>2. /\ UNCHANGED batch
        /\ draft'[t] = [rows |-> draft[t].rows, next |-> NextSeen(t) + 1,
                        keys |-> draft[t].keys, batches |-> draft[t].batches]
    BY <1>0, <1>6, AllocateEffect
  <2>3. draft'[t].rows = draft[t].rows /\ draft'[t].keys = draft[t].keys
        /\ draft'[t].batches = draft[t].batches
    BY <2>2
  <2> QED BY <1>4, <2>1, <2>2, <2>3 DEF KeyStatements
<1>7. CASE Insert(t)
  <2>1. s = "insert" BY <1>2, <1>7 DEF Insert
  <2> QED BY <1>1, <1>7, <2>1, InsertKeys
<1>8. CASE Load(t)
  <2>1. s = "load" BY <1>2, <1>8 DEF Load
  <2>2. UNCHANGED <<draft, batch>> BY <1>0, <1>8, LoadEffect
  <2> QED BY <1>4, <2>1, <2>2 DEF KeyStatements
<1>9. CASE Reconcile(t)
  <2>1. s = "reconcile" BY <1>2, <1>9 DEF Reconcile
  <2> QED BY <1>1, <1>9, <2>1, ReconcileKeys
<1>10. CASE Sync(t)
  <2>1. s = "sync" BY <1>2, <1>10 DEF Sync
  <2>2. /\ UNCHANGED batch
        /\ \E n : draft'[t] = [rows |-> draft[t].rows, next |-> n,
                        keys |-> draft[t].keys, batches |-> draft[t].batches]
    BY <1>0, <1>10, SyncEffect
  <2>3. draft'[t].rows = draft[t].rows /\ draft'[t].keys = draft[t].keys
        /\ draft'[t].batches = draft[t].batches
    BY <2>2
  <2> QED BY <1>4, <2>1, <2>2, <2>3 DEF KeyStatements
<1>11. CASE View(t)
  <2>1. s = "view" BY <1>2, <1>11 DEF View
  <2>2. UNCHANGED <<draft, batch>> BY <1>0, <1>11, ViewEffect
  <2> QED BY <1>4, <2>1, <2>2 DEF KeyStatements
<1>12. CASE Commitment(t)
  <2>1. s = "commitment" BY <1>2, <1>12 DEF Commitment
  <2>2. UNCHANGED <<draft, batch>> BY <1>0, <1>12, CommitmentEffect
  <2> QED BY <1>4, <2>1, <2>2 DEF KeyStatements
<1>13. CASE Leaves(t)
  <2>1. s = "leaves" BY <1>2, <1>13 DEF Leaves
  <2> QED BY <1>1, <1>13, <2>1, LeavesKeys
<1>14. CASE SignMerkleRoot(t)
  <2>1. s = "sign" BY <1>2, <1>14 DEF SignMerkleRoot
  <2> QED BY <1>1, <1>14, <2>1, SignKeys
<1>15. CASE Rotate(t)
  <2>1. s = "rotate" BY <1>2, <1>15 DEF Rotate
  <2> QED BY <1>1, <1>15, <2>1, RotateKeys
<1>16. CASE Revoke(t)
  <2>1. s = "revoke" BY <1>2, <1>16 DEF Revoke
  <2> QED BY <1>1, <1>16, <2>1, RevokeKeys
<1>17. CASE ReadMerkleVerification(t)
  <2>1. s = "batch" BY <1>2, <1>17 DEF ReadMerkleVerification
  <2>2. UNCHANGED draft BY <1>0, <1>17, BatchEffect
  <2> QED BY <1>4, <2>1, <2>2 DEF KeyStatements
<1>18. CASE ReadAuditChainVerificationPage(t)
  <2>1. s = "page" BY <1>2, <1>18 DEF ReadAuditChainVerificationPage
  <2>2. UNCHANGED <<draft, batch>> BY <1>0, <1>18, PageEffect
  <2> QED BY <1>4, <2>1, <2>2 DEF KeyStatements
<1> QED
  BY <1>5, <1>6, <1>7, <1>8, <1>9, <1>10, <1>11, <1>12, <1>13, <1>14, <1>15,
     <1>16, <1>17, <1>18 DEF Step, AbortDeadlock

\* A transaction that has written neither keys nor batches will leave the keys
\* as they are.
LEMMA KeysOfNonWriter ==
    ASSUME NEW t \in Txns, draft'[t].keys = << >>, draft'[t].batches = {},
           draft'[t].rows \subseteq Entries, GoodKeys(keys'),
           \A b \in batches' : InWindow(b.sig, keys', clock'),
           ~Open(t)' \/ ~Passed(t, "leaves")'
    PROVE  KeysOf(t)'
<1>1. keys' \in [Versions -> KeyRows] BY DEF GoodKeys
<1>2. Merge(keys', << >>) = keys' BY <1>1, MergeNothing
<1>3. Overlay(t)' = keys' BY <1>2 DEF Overlay
<1>4. DOMAIN draft'[t].keys = {} OBVIOUS
<1> QED BY <1>3, <1>4 DEF KeysOf

\* A commit makes the keys that t sees the committed ones.  If it wrote any,
\* nobody else has.
LEMMA CommitKeepsKeys ==
    ASSUME LockInv, ChainInv, ChainInv', KeyInv, NEW t \in Txns, Commit(t)
    PROVE  KeyInv'
<1>0. /\ Open(t) /\ pc[t] = Len(Program(kind[t])) + 1
      /\ entries' = RowsSeen(t) /\ kind' = kind /\ pc' = pc /\ clock' = clock
      /\ batches' = batches \cup draft[t].batches
      /\ keys' = Overlay(t)
  BY DEF Commit, Open, RowsSeen, Overlay, Merge
<1>1. status'[t] = "committed" /\ \A u \in Txns : u # t => status'[u] = status[u]
  BY DEF Commit, LockInv, ControlType
<1>2. OthersSame(t) /\ draft'[t] = NoDraft BY EndEffect DEF ChainInv
<1>3. "chain" \in held[t] BY <1>0, FinishedHoldsChain
<1>4. KeysOf(t) BY DEF KeyInv
<1>5. GoodKeys(keys') BY <1>0, <1>4 DEF KeysOf
<1>6. \A b \in batches' : InWindow(b.sig, keys', clock') BY <1>0, <1>4 DEF KeysOf
<1>7. GoodChain(entries, nextSeq - 1) /\ GoodChain(entries', nextSeq' - 1)
      /\ entries \subseteq entries'
  BY <1>0 DEF ChainInv, RowsSeen
<1>8. \A b : OnChain(b, entries, nextSeq - 1) => OnChain(b, entries', nextSeq' - 1)
  BY <1>7, OnChainKept
<1>9. \A b \in batches' : OnChain(b, entries', nextSeq' - 1)
  BY <1>0, <1>4, <1>8 DEF KeysOf, KeyInv
<1>10. entries' \subseteq Entries BY <1>0, <1>4 DEF RowsSeen, KeysOf, KeyInv
<1>11. KeysOf(t)'
  <2>1. NoDraft.keys = << >> /\ NoDraft.batches = {} /\ NoDraft.rows = {}
    BY DEF NoDraft
  <2>2. ~Open(t)' BY <1>1 DEF Open
  <2> QED BY <1>2, <1>5, <1>6, <2>1, <2>2, KeysOfNonWriter
<1>12. ASSUME NEW u \in Txns, u # t PROVE KeysOf(u)'
  <2>1. /\ draft'[u] = draft[u] /\ batch'[u] = batch[u] /\ KeysOf(u)
        /\ draft[u].rows \subseteq Entries
    BY <1>2, <1>12 DEF OthersSame, SameLocal, KeyInv, KeysOf
  <2>2. /\ Open(u)' <=> Open(u)
        /\ \A x : Passed(u, x)' <=> Passed(u, x)
    BY <1>0, <1>1, <1>12 DEF Open, Passed, Stmt
  <2>3. ~Open(u)' \/ ~Passed(u, "leaves")'
    BY <1>3, <1>12, <2>2, ChainIsExclusive DEF Late
  <2>4. Writing(u)' <=> Writing(u) BY <2>2 DEF Writing
  <2>5. CASE ~Open(u) \/ ~Writing(u)
    <3>1. draft[u].keys = << >> /\ draft[u].batches = {} BY <2>1, <2>5 DEF KeysOf
    <3> QED BY <1>5, <1>6, <2>1, <2>3, <3>1, KeysOfNonWriter
  <2>6. CASE Open(u) /\ Writing(u)
    <3>1. ~Writing(t) BY <1>0, <1>12, <2>6, WriterIsAlone
    <3>2. draft[t].keys = << >> /\ draft[t].batches = {}
      BY <1>4, <3>1 DEF KeysOf
    <3>3. keys' = keys /\ batches' = batches
      BY <1>0, <3>2, MergeNothing DEF Overlay, KeyInv, GoodKeys
    <3>4. Overlay(u)' = Overlay(u) BY <2>1, <3>3 DEF Overlay
    <3>5. \A b \in draft'[u].batches : OnChain(b, entries', nextSeq' - 1)
      BY <1>8, <2>1 DEF KeysOf
    <3> QED
      BY <1>0, <2>1, <2>2, <2>3, <2>4, <2>6, <3>3, <3>4, <3>5 DEF KeysOf
  <2> QED BY <2>5, <2>6
<1>13. clock' \in 1..MaxClock BY <1>0 DEF KeyInv
<1>14. \A u \in Txns : KeysOf(u)' BY <1>11, <1>12
<1> QED BY <1>5, <1>6, <1>9, <1>10, <1>13, <1>14 DEF KeyInv

\* Steps that leave the committed state alone.
LEMMA LocalKeepsKeys ==
    ASSUME KeyInv, NEW t \in Txns, entries' = entries, nextSeq' = nextSeq,
           keys' = keys, batches' = batches, clock' = clock,
           OthersSame(t), KeysOf(t)',
           \A u \in Txns : u # t => /\ status'[u] = status[u]
                                    /\ kind'[u] = kind[u] /\ pc'[u] = pc[u]
    PROVE  KeyInv'
<1>1. ASSUME NEW u \in Txns PROVE KeysOf(u)'
  <2>1. CASE u = t BY <2>1
  <2>2. CASE u # t BY <2>2, KeysOfUntouched DEF KeyInv, OthersSame
  <2> QED BY <2>1, <2>2
<1> QED BY <1>1 DEF KeyInv

LEMMA FailKeepsKeys ==
    ASSUME LockInv, ChainInv, KeyInv, NEW t \in Txns, Fail(t)
    PROVE  KeyInv'
<1>1. OthersSame(t) /\ draft'[t] = NoDraft BY EndEffect DEF ChainInv
<1>2. /\ status'[t] = "failed" /\ clock' = clock
      /\ entries' = entries /\ nextSeq' = nextSeq /\ keys' = keys
      /\ batches' = batches
      /\ \A u \in Txns : u # t => /\ status'[u] = status[u]
                                  /\ kind'[u] = kind[u] /\ pc'[u] = pc[u]
  BY DEF Fail, LockInv, ControlType, committed
<1>3. NoDraft.keys = << >> /\ NoDraft.batches = {} /\ NoDraft.rows = {}
  BY DEF NoDraft
<1>4. ~Open(t)' BY <1>2 DEF Open
<1>5. KeysOf(t)' BY <1>1, <1>2, <1>3, <1>4, KeysOfNonWriter DEF KeyInv
<1> QED BY <1>1, <1>2, <1>5, LocalKeepsKeys

LEMMA BeginKeepsKeys ==
    ASSUME LockInv, ChainInv, KeyInv, NEW t \in Txns, NEW k \in Kinds, Begin(t, k)
    PROVE  KeyInv'
<1>1. /\ UNCHANGED <<draft, view, scan, batch, verdict, pc>>
      /\ entries' = entries /\ nextSeq' = nextSeq /\ keys' = keys
      /\ batches' = batches /\ clock' = clock /\ status[t] = "idle"
      /\ \A u \in Txns : u # t => status'[u] = status[u] /\ kind'[u] = kind[u]
  BY DEF Begin, LockInv, ControlType, committed, local
<1>2. OthersSame(t) BY <1>1, QuietEffect DEF ChainInv, OthersSame
<1>3. pc'[t] = 1 BY <1>1 DEF LockInv, OwnLocks
<1>4. ~Passed(t, "leaves")' BY <1>3 DEF Passed
<1>5. draft'[t].keys = << >> /\ draft'[t].batches = {}
      /\ draft'[t].rows \subseteq Entries
  BY <1>1 DEF KeyInv, KeysOf, Open
<1>6. KeysOf(t)' BY <1>1, <1>4, <1>5, KeysOfNonWriter DEF KeyInv
<1> QED BY <1>1, <1>2, <1>6, LocalKeepsKeys

\* Time passes: what was signed before now was signed before later.
LEMMA TickKeepsKeys ==
    ASSUME KeyInv, Tick
    PROVE  KeyInv'
<1>1. /\ clock < MaxClock /\ clock' = clock + 1
      /\ UNCHANGED <<entries, nextSeq, keys, batches, status, kind, pc, draft,
                     view, scan, batch, verdict>>
  BY DEF Tick, committed, local
<1>2. clock \in 1..MaxClock /\ MaxClock \in Nat BY AuditChainAssumption DEF KeyInv
<1>3. clock' \in 1..MaxClock BY <1>1, <1>2
<1>4. \A sig, ks : InWindow(sig, ks, clock) => InWindow(sig, ks, clock')
  BY <1>1, <1>2 DEF InWindow
<1>5. ASSUME NEW u \in Txns PROVE KeysOf(u)'
  <2>1. /\ Open(u)' <=> Open(u)
        /\ \A x : Passed(u, x)' <=> Passed(u, x)
    BY <1>1 DEF Open, Passed, Stmt
  <2>2. (Writing(u)' <=> Writing(u)) /\ Overlay(u)' = Overlay(u)
    BY <1>1, <2>1 DEF Writing, Overlay
  <2>3. KeysOf(u) BY DEF KeyInv
  <2>4. BatchShape(batch[u])' <=> BatchShape(batch[u]) BY <1>1 DEF BatchShape
  <2> QED BY <1>1, <1>4, <2>1, <2>2, <2>3, <2>4 DEF KeysOf
<1> QED BY <1>1, <1>3, <1>4, <1>5 DEF KeyInv

LEMMA KeyInit == Init => KeyInv
<1> SUFFICES ASSUME Init PROVE KeyInv OBVIOUS
<1>1. clock \in 1..MaxClock BY AuditChainAssumption DEF Init
<1>2. FirstEntry \in Entries
  <2>1. GoodRow(FirstEntry) BY FirstEntryIsChain DEF GoodChain
  <2>2. NoSignature \in Signatures BY DEF NoSignature, Signatures, Times
  <2> QED BY <2>1, <2>2, RowIsEntry DEF FirstEntry
<1>3. GoodKeys(keys)
  <2>1. keys \in [Versions -> KeyRows] /\ \A v \in Versions : keys[v].status = "absent"
    BY DEF Init, NoKey, KeyRows, Statuses, Times, Policies
  <2>2. Used(keys) = {} /\ ActiveKeys(keys) = {} BY <2>1 DEF Used, ActiveKeys
  <2>3. 0 \in 0..MaxVersion /\ 1..0 = {} BY AuditChainAssumption
  <2> QED BY <2>1, <2>2, <2>3 DEF GoodKeys
<1>4. Merge(keys, << >>) = keys BY <1>3, MergeNothing DEF GoodKeys
<1>5. ASSUME NEW t \in Txns PROVE KeysOf(t)
  <2>1. draft[t] = NoDraft /\ ~Open(t) BY DEF Init, Open
  <2>2. NoDraft.keys = << >> /\ NoDraft.batches = {} /\ NoDraft.rows = {}
    BY DEF NoDraft
  <2>3. Overlay(t) = keys BY <1>4, <2>1, <2>2 DEF Overlay
  <2>4. batches = {} /\ DOMAIN << >> = {} BY DEF Init
  <2> QED BY <1>3, <2>1, <2>2, <2>3, <2>4 DEF KeysOf
<1>6. entries \subseteq Entries /\ batches = {} BY <1>2 DEF Init
<1> QED BY <1>1, <1>3, <1>5, <1>6 DEF KeyInv

LEMMA KeyNext ==
    LockInv /\ ChainInv /\ ChainInv' /\ KeyInv /\ [Next]_vars => KeyInv'
<1> SUFFICES ASSUME LockInv, ChainInv, ChainInv', KeyInv, [Next]_vars
             PROVE  KeyInv'
  OBVIOUS
<1>1. ASSUME NEW t \in Txns, Step(t) PROVE KeyInv'
  <2>1. CASE Commit(t) BY <2>1, CommitKeepsKeys
  <2>2. CASE Fail(t) BY <2>2, FailKeepsKeys
  <2>3. CASE ~Fail(t) /\ ~Commit(t)
    <3>1. PICK s \in Statements : Moves(t, s)
      BY <1>1, <2>3, StepShape DEF LockInv
    <3>2. /\ entries' = entries /\ nextSeq' = nextSeq /\ keys' = keys
          /\ batches' = batches /\ clock' = clock /\ status' = status
          /\ kind' = kind /\ \A u \in Txns : u # t => pc'[u] = pc[u]
      BY <3>1, MoveControl DEF Moves
    <3>3. OthersSame(t) BY <1>1, StepFrame DEF ChainInv
    <3>4. KeysOf(t)' BY <1>1, <2>3, KeysOwnMove
    <3> QED BY <3>2, <3>3, <3>4, LocalKeepsKeys
  <2> QED BY <2>1, <2>2, <2>3
<1>2. ASSUME NEW t \in Txns, Rollback(t) PROVE KeyInv'
  BY <1>2, FailKeepsKeys DEF Rollback
<1>3. ASSUME NEW t \in Txns, NEW k \in Kinds, Begin(t, k) PROVE KeyInv'
  BY <1>3, BeginKeepsKeys
<1>4. CASE Tick BY <1>4, TickKeepsKeys
<1>5. CASE UNCHANGED vars
  <2>1. \A u \in Txns : SameLocal(u) BY <1>5 DEF vars, SameLocal
  <2>2. \A u \in Txns : KeysOf(u)'
    BY <1>5, <2>1, KeysOfUntouched DEF vars, KeyInv
  <2> QED BY <1>5, <2>2 DEF vars, KeyInv
<1> QED BY <1>1, <1>2, <1>3, <1>4, <1>5 DEF Next

LEMMA KeysAreKept == Spec => [](LockInv /\ ChainInv /\ KeyInv)
BY LockInit, LockNext, ChainInit, ChainNext, KeyInit, KeyNext, PTL DEF Spec

\* However signings, rotations and revocations interleave, a tenant never has
\* two active signing keys: the unique index of signing_keys is never what
\* prevents it.
THEOREM KeyIsUnique == Spec => []OneActiveKey
<1>1. KeyInv => OneActiveKey BY DEF KeyInv, GoodKeys, OneActiveKey
<1> QED BY <1>1, KeysAreKept, PTL

LEMMA BatchesAreCovered ==
    ASSUME ChainInv, KeyInv, NEW b \in batches
    PROVE  Covers(entries, b)
<1>1. OnChain(b, entries, nextSeq - 1) /\ GoodChain(entries, nextSeq - 1)
      /\ nextSeq - 1 \in Nat
  BY DEF KeyInv, ChainInv
<1>2. ASSUME NEW s \in b.from..b.to
      PROVE  \E e \in entries : e.seq = s /\ e.hash = b.leaves[s]
  <2>1. b.leaves[s] = HashAt(entries, s) /\ s \in 1..nextSeq - 1
    BY <1>1 DEF OnChain
  <2>2. PICK e \in entries : e.seq = s BY <1>1, <2>1 DEF GoodChain
  <2>3. HashAt(entries, e.seq) = e.hash BY <1>1, HashOfRow
  <2> QED BY <2>1, <2>2, <2>3
<1> QED BY <1>2 DEF Covers

\* A committed Merkle batch covers the chain as it is and stays inside its key's
\* window, for any number of keys, entries and transactions: only a compromise
\* makes a checkpoint unverifiable.
THEOREM CheckpointsStayVerifiable == Spec => []CheckpointVerifies
<1>1. ChainInv /\ KeyInv => CheckpointVerifies
  <2> SUFFICES ASSUME ChainInv, KeyInv, NEW b \in batches
               PROVE  /\ Covers(entries, b) /\ b.sig.key \in Versions
                      /\ HistoricalValidityAt(keys[b.sig.key], b.sig.at)
                            # "outside_window"
    BY DEF CheckpointVerifies
  <2>1. InWindow(b.sig, keys, clock) /\ GoodKeys(keys) /\ clock \in Nat
    BY DEF KeyInv
  <2>3. Covers(entries, b) BY BatchesAreCovered
  <2> DEFINE k == keys[b.sig.key]  a == b.sig.at
  <2>4. k \in KeyRows /\ b.sig.key \in Versions BY <2>1 DEF GoodKeys, InWindow
  <2>5. k.from \in Nat /\ k.until \in Nat /\ a \in Nat
    BY <2>1, <2>4 DEF KeyRows, Times, InWindow
  <2>6. k.status # "absent" /\ k.from <= a /\ (k.until = 0 \/ a <= k.until)
    BY <2>1 DEF InWindow
  <2> HIDE DEF k, a
  <2>7. ~(k.status = "absent" \/ a < k.from \/ (k.until # 0 /\ a > k.until))
    BY <2>5, <2>6
  <2>8. HistoricalValidityAt(k, a) # "outside_window" BY <2>7 DEF HistoricalValidityAt
  <2> QED BY <2>3, <2>4, <2>8 DEF k, a
<1> QED BY <1>1, KeysAreKept, PTL

-----------------------------------------------------------------------------
(* Reading the chain in pages                                               *)

\* As many rows as numbers.
LEMMA RowsInRange ==
    ASSUME NEW S, NEW n, GoodChain(S, n), NEW a \in 0..n, NEW b \in a..n
    PROVE  Cardinality({e \in S : a < e.seq /\ e.seq <= b}) = b - a
<1> DEFINE R == {e \in S : a < e.seq /\ e.seq <= b}
           f == [e \in R |-> e.seq]
<1>1. n \in Nat /\ a \in Nat /\ b \in Nat /\ a <= b BY DEF GoodChain
<1>2. \A e \in S : e.seq \in Nat BY DEF GoodChain, GoodRow
<1>3. f \in [R -> a + 1..b] BY <1>1, <1>2
<1>4. \A x, y \in R : f[x] = f[y] => x = y BY DEF GoodChain
<1>5. \A i \in a + 1..b : \E x \in R : f[x] = i
  <2> TAKE i \in a + 1..b
  <2>1. i \in 1..n /\ a < i /\ i <= b BY <1>1
  <2>2. PICK e \in S : e.seq = i BY <2>1 DEF GoodChain
  <2>3. e \in R BY <2>1, <2>2
  <2> QED BY <2>2, <2>3
<1>6. f \in Bijection(R, a + 1..b)
  BY <1>3, <1>4, <1>5 DEF Bijection, Injection, Surjection, IsInjective
<1>7. ExistsBijection(R, a + 1..b) BY <1>6 DEF ExistsBijection
<1>8. IsFiniteSet(R)
  <2>1. IsFiniteSet(S) /\ R \subseteq S BY DEF GoodChain
  <2> QED BY <2>1, FS_Subset
<1>9. Cardinality(a + 1..b) = Cardinality(R) BY <1>7, <1>8, FS_Bijection
<1>10. a + 1 \in Int /\ b \in Int BY <1>1
<1>11. Cardinality(a + 1..b) = IF a + 1 > b THEN 0 ELSE b - (a + 1) + 1
  BY <1>10, FS_Interval
<1>12. Cardinality(a + 1..b) = b - a BY <1>1, <1>11
<1> HIDE DEF R
<1> QED BY <1>9, <1>12 DEF R

\* The number of the last row of a page that starts after a.
PageEnd(a, n) == IF n <= a + PageSize THEN n ELSE a + PageSize

\* A page is the next rows, PageSize at most.
LEMMA PageIsRange ==
    ASSUME NEW t \in Txns, NEW n, GoodChain(entries, n), view[t].head = n,
           scan[t].after \in 0..n
    PROVE  /\ NextPage(t) = {e \in entries : scan[t].after < e.seq
                                             /\ e.seq <= PageEnd(scan[t].after, n)}
           /\ PageEnd(scan[t].after, n) \in scan[t].after..n
           /\ scan[t].after # n => PageEnd(scan[t].after, n) > scan[t].after
<1> DEFINE a == scan[t].after  m == PageEnd(a, n)
           rest == {e \in entries : e.seq > a /\ e.seq <= n}
<1>1. n \in Nat /\ a \in Nat /\ a <= n /\ PageSize \in Nat \ {0}
      /\ \A e \in entries : e.seq \in Nat /\ e.seq <= n
  BY AuditChainAssumption DEF GoodChain, GoodRow
<1> HIDE DEF a
<1>2. m \in a..n /\ (a # n => m > a) BY <1>1 DEF PageEnd
<1>3. NextPage(t) = {e \in rest : Cardinality({f \in rest : f.seq <= e.seq}) <= PageSize}
  BY DEF NextPage, a
<1>4. ASSUME NEW e \in rest
      PROVE  Cardinality({f \in rest : f.seq <= e.seq}) = e.seq - a
  <2>1. e.seq \in a..n BY <1>1
  <2>2. {f \in rest : f.seq <= e.seq} = {f \in entries : a < f.seq /\ f.seq <= e.seq}
    BY <1>1
  <2>3. Cardinality({f \in entries : a < f.seq /\ f.seq <= e.seq}) = e.seq - a
    BY <1>1, <2>1, RowsInRange
  <2> QED BY <2>2, <2>3
<1>5. NextPage(t) = {e \in rest : e.seq - a <= PageSize} BY <1>3, <1>4
<1>6. \A e \in entries : (a < e.seq /\ e.seq <= m) <=>
                         (e.seq > a /\ e.seq <= n /\ e.seq - a <= PageSize)
  BY <1>1 DEF PageEnd
<1> HIDE DEF m
<1>7. NextPage(t) = {e \in entries : a < e.seq /\ e.seq <= m} BY <1>5, <1>6
<1> QED BY <1>2, <1>7 DEF a, m

\* On an intact chain the inspector of a page objects to nothing but signatures.
LEMMA PageOfIntactChain ==
    ASSUME NEW t \in Txns, NEW n, GoodChain(entries, n),
           NEW a \in 0..n, scan[t].seen = a, scan[t].prev = HashAt(entries, a),
           NEW m \in a..n, NEW page,
           page = {e \in entries : a < e.seq /\ e.seq <= m}
    PROVE  PageIsGood(t, page) <=> \A e \in page : SigOK(e)
<1>1. n \in Nat /\ a \in Nat /\ m \in Nat /\ a <= m /\ m <= n
      /\ \A e \in entries : e.seq \in Nat \ {0} /\ GoodRow(e)
  BY DEF GoodChain, GoodRow
<1>2. ASSUME NEW e \in page
      PROVE  /\ e.seq = scan[t].seen + Cardinality({f \in page : f.seq <= e.seq})
             /\ e.prev = IF \E f \in page : f.seq = e.seq - 1
                         THEN HashAt(page, e.seq - 1) ELSE scan[t].prev
             /\ e.hash = Append(e.prev, e.id)
  <2>1. e \in entries /\ a < e.seq /\ e.seq <= m OBVIOUS
  <2>2. e.seq \in a..n BY <1>1, <2>1
  <2>3. {f \in page : f.seq <= e.seq} = {f \in entries : a < f.seq /\ f.seq <= e.seq}
    BY <1>1, <2>1
  <2>4. Cardinality({f \in page : f.seq <= e.seq}) = e.seq - a
    BY <2>2, <2>3, RowsInRange
  <2>5. e.seq = scan[t].seen + Cardinality({f \in page : f.seq <= e.seq})
    BY <1>1, <2>1, <2>4
  <2>6. e.hash = Append(e.prev, e.id) BY <1>1, <2>1 DEF GoodRow
  <2>7. CASE \E f \in page : f.seq = e.seq - 1
    <3> DEFINE x == CHOOSE f \in page : f.seq = e.seq - 1
    <3>1. x \in page /\ x.seq = e.seq - 1 BY <2>7
    <3>2. HashAt(page, e.seq - 1) = x.hash BY <2>7 DEF HashAt
    <3>3. e.prev = x.hash BY <2>1, <3>1 DEF GoodChain
    <3> QED BY <2>5, <2>6, <2>7, <3>2, <3>3
  <2>8. CASE ~\E f \in page : f.seq = e.seq - 1
    <3>1. e.seq = a + 1
      <4> SUFFICES ASSUME e.seq # a + 1 PROVE FALSE OBVIOUS
      <4>1. e.seq - 1 \in 1..n /\ a < e.seq - 1 /\ e.seq - 1 <= m BY <1>1, <2>1
      <4>2. PICK f \in entries : f.seq = e.seq - 1 BY <4>1 DEF GoodChain
      <4> QED BY <2>8, <4>1, <4>2
    <3>2. e.prev = HashAt(entries, a)
      <4>1. CASE a = 0
        <5>1. ~\E f \in entries : f.seq = a BY <1>1, <4>1
        <5>2. HashAt(entries, a) = << >> BY <5>1 DEF HashAt
        <5>3. e.prev \in Seq(Ids) /\ Len(e.prev) = 0
          BY <1>1, <2>1, <3>1, <4>1 DEF GoodRow, Hashes
        <5>4. e.prev = << >> BY <5>3, EmptySeq
        <5> QED BY <5>2, <5>4
      <4>2. CASE a # 0
        <5>1. PICK f \in entries : f.seq = a BY <1>1, <4>2 DEF GoodChain
        <5>2. HashAt(entries, f.seq) = f.hash BY HashOfRow
        <5>3. f.seq = e.seq - 1 BY <1>1, <3>1, <5>1
        <5>4. e.prev = f.hash BY <2>1, <5>3 DEF GoodChain
        <5> QED BY <5>1, <5>2, <5>4
      <4> QED BY <4>1, <4>2
    <3> QED BY <2>5, <2>6, <2>8, <3>2
  <2> QED BY <2>7, <2>8
<1> QED BY <1>2 DEF PageIsGood, SigOK

\* The last row of a page, where the next one goes on.
LEMMA LastOfPage ==
    ASSUME NEW n, GoodChain(entries, n), NEW a \in 0..n, NEW m \in a..n, m > a,
           NEW page, page = {e \in entries : a < e.seq /\ e.seq <= m}
    PROVE  /\ page # {} /\ LastOf(page).seq = m
           /\ LastOf(page).hash = HashAt(entries, m)
           /\ Cardinality(page) = m - a
<1>1. n \in Nat /\ a \in Nat /\ m \in Nat /\ \A e \in entries : e.seq \in Nat
  BY DEF GoodChain, GoodRow
<1>2. m \in 1..n BY <1>1
<1>3. PICK e \in entries : e.seq = m BY <1>2 DEF GoodChain
<1>4. e \in page /\ \A f \in page : f.seq <= e.seq BY <1>1, <1>3
<1>5. LastOf(page) \in page /\ \A f \in page : f.seq <= LastOf(page).seq
  BY <1>4 DEF LastOf
<1>6. LastOf(page).seq = m /\ LastOf(page) \in entries BY <1>1, <1>3, <1>4, <1>5
<1>7. LastOf(page) = e BY <1>3, <1>6 DEF GoodChain
<1>8. HashAt(entries, e.seq) = e.hash BY HashOfRow
<1>9. Cardinality(page) = m - a BY RowsInRange
<1> QED BY <1>3, <1>4, <1>6, <1>7, <1>8, <1>9

-----------------------------------------------------------------------------
(* The verdicts                                                             *)

\* A verification reads its batch, and ends its pages, once.
LEMMA ReadsOnce ==
    ASSUME LockInv, NEW t \in Txns, Open(t),
           \/ kind[t] = "batch" /\ At(t, "batch")
           \/ kind[t] = "chain" /\ At(t, "page")
    PROVE  /\ kind[t] = "batch" => ~Passed(t, "batch")
           /\ kind[t] = "chain" => ~Passed(t, "page") /\ Passed(t, "view")
<1> DEFINE p == Program(kind[t])
           s == IF kind[t] = "batch" THEN "batch" ELSE "page"
<1>1. pc[t] \in 1..Len(p) /\ p[pc[t]] = s /\ Len(p) \in Nat
      /\ \A i \in 1..Len(p) : Placed(kind[t], Len(p), i, p[i])
  BY ProgramOf DEF Disciplined, At
<1>2. kind[t] \in {"batch", "chain"} OBVIOUS
<1> HIDE DEF p
<1>3. ASSUME Passed(t, s) PROVE FALSE
  <2>1. PICK i \in 1..pc[t] - 1 : p[i] = s BY <1>3 DEF Passed, Stmt, p
  <2>2. i \in 1..Len(p) /\ i < pc[t] BY <1>1
  <2>3. Placed(kind[t], Len(p), i, s) /\ Placed(kind[t], Len(p), pc[t], s)
    BY <1>1, <2>1, <2>2
  <2>4. i = pc[t] BY <1>2, <2>3 DEF Placed
  <2> QED BY <2>2, <2>4
<1>4. ASSUME kind[t] = "chain" PROVE Passed(t, "view")
  <2>1. Placed(kind[t], Len(p), pc[t], "page") BY <1>1, <1>4
  <2>2. pc[t] = 5 BY <1>4, <2>1 DEF Placed
  <2> QED BY <1>4, <2>2, EarlierIsPassed, Positions
<1> QED BY <1>3, <1>4

LEMMA VerdictUntouched ==
    ASSUME NEW u \in Txns, VerdictOf(u), SameLocal(u), status'[u] = status[u],
           kind'[u] = kind[u], pc'[u] = pc[u], entries' = entries,
           nextSeq' = nextSeq, keys' = keys, batches' = batches
    PROVE  VerdictOf(u)'
<1>1. /\ scan'[u] = scan[u] /\ batch'[u] = batch[u] /\ verdict'[u] = verdict[u]
      /\ \A x : Passed(u, x)' <=> Passed(u, x)
      /\ Open(u)' <=> Open(u)
  BY DEF SameLocal, Passed, Stmt, Open
<1>2. \A e : SigOK(e)' <=> SigOK(e) BY DEF SigOK, validReferencedPayloadSignature
<1>3. BatchVerdict(u)' <=> BatchVerdict(u)
  BY <1>1 DEF BatchVerdict, validReferencedPayloadSignature
<1>4. ChainVerdict(u)' <=> ChainVerdict(u) BY <1>1, <1>2 DEF ChainVerdict
<1> QED BY <1>1, <1>3, <1>4 DEF VerdictOf

\* The statements that read neither a batch nor a page.
LEMMA VerdictNeutralMove ==
    ASSUME LockInv, VerdictInv, NEW t \in Txns, NEW s \in Statements, Moves(t, s),
           s \notin {"page", "batch"}, verdict'[t] = verdict[t],
           kind[t] = "chain" => scan'[t] = scan[t],
           kind[t] = "batch" => batch'[t] = batch[t]
    PROVE  VerdictOf(t)'
<1>1. /\ Open(t) /\ Open(t)' /\ kind' = kind
      /\ \A x : x # s => (Passed(t, x)' <=> Passed(t, x))
      /\ Passed(t, s)'
  BY MovePassed
<1>2. entries' = entries /\ nextSeq' = nextSeq /\ keys' = keys /\ batches' = batches
  BY DEF Moves
<1>3. \A e : SigOK(e)' <=> SigOK(e)
  BY <1>2 DEF SigOK, validReferencedPayloadSignature
<1>4. VerdictOf(t) BY DEF VerdictInv
<1>5. kind[t] = "batch" => BatchVerdict(t)'
  BY <1>1, <1>2, <1>4 DEF VerdictOf, BatchVerdict, validReferencedPayloadSignature
<1>6. kind[t] = "chain" => ChainVerdict(t)'
  <2> SUFFICES ASSUME kind[t] = "chain" PROVE ChainVerdict(t)' OBVIOUS
  <2>1. ChainVerdict(t) /\ scan'[t] = scan[t] BY <1>1, <1>4 DEF VerdictOf
  <2>2. /\ Passed(t, "page")' <=> Passed(t, "page")
        /\ ~Passed(t, "view")' => ~Passed(t, "view")
    BY <1>1
  <2> QED BY <1>2, <1>3, <2>1, <2>2 DEF ChainVerdict
<1> QED BY <1>1, <1>4, <1>5, <1>6 DEF VerdictOf

LEMMA WorstOf ==
    ASSUME NEW old \in {"none", "passed", "failed"}, NEW ok \in BOOLEAN
    PROVE  /\ Worst(old, ok) \in {"passed", "failed"}
           /\ Worst(old, ok) = "failed" <=> old = "failed" \/ ~ok
           /\ Worst(old, ok) = "passed" <=> old # "failed" /\ ok
BY DEF Worst

LEMMA InspectMeansSignature ==
    ASSUME ChainInv, KeyInv, NEW b \in batches
    PROVE  InspectMerkleBatch(b) <=> validReferencedPayloadSignature(b.sig)
BY BatchesAreCovered DEF InspectMerkleBatch

LEMMA BatchVerdictMove ==
    ASSUME LockInv, ChainInv, KeyInv, VerdictInv, NEW t \in Txns,
           Moves(t, "batch"), ReadMerkleVerification(t), ~Fail(t)
    PROVE  VerdictOf(t)'
<1>0. "batch" \in Statements BY DEF Statements, Early
<1>1. /\ Open(t) /\ Open(t)' /\ kind' = kind /\ At(t, "batch")
      /\ Passed(t, "batch")'
  BY <1>0, MovePassed
<1>2. keys' = keys /\ batches' = batches BY DEF Moves
<1>3. PICK b \in batches :
        /\ batch'[t] = b
        /\ verdict'[t] = Worst(verdict[t], InspectMerkleBatch(b))
  BY BatchEffect DEF ChainInv
<1>4. verdict[t] \in {"none", "passed", "failed"} /\ VerdictOf(t)
  BY DEF VerdictInv, VerdictOf
<1>5. InspectMerkleBatch(b) \in BOOLEAN
      /\ (InspectMerkleBatch(b) <=> validReferencedPayloadSignature(b.sig))
  BY InspectMeansSignature DEF InspectMerkleBatch
<1>6. /\ verdict'[t] \in {"none", "passed", "failed"}
      /\ verdict'[t] = "passed" <=>
            verdict[t] # "failed" /\ validReferencedPayloadSignature(b.sig)
  BY <1>3, <1>4, <1>5, WorstOf
<1>7. kind[t] # "chain"
  <2>1. \E i : Placed(kind[t], Len(Program(kind[t])), i, "batch") BY <1>1, PlaceOf
  <2> QED BY <2>1 DEF Placed
<1>8. kind[t] = "batch" => BatchVerdict(t)'
  <2> SUFFICES ASSUME kind[t] = "batch" PROVE BatchVerdict(t)' OBVIOUS
  <2>1. ~Passed(t, "batch") BY <1>1, ReadsOnce
  <2>2. verdict[t] = "none" BY <1>1, <1>4, <2>1 DEF VerdictOf, BatchVerdict
  <2>3. validReferencedPayloadSignature(batch[t].sig)' <=>
          validReferencedPayloadSignature(b.sig)
    BY <1>2, <1>3 DEF validReferencedPayloadSignature
  <2> QED BY <1>1, <1>2, <1>3, <1>6, <2>2, <2>3 DEF BatchVerdict
<1> QED BY <1>1, <1>6, <1>7, <1>8 DEF VerdictOf

LEMMA PageVerdictMove ==
    ASSUME LockInv, ChainInv, KeyInv, VerdictInv, NEW t \in Txns,
           Moves(t, "page"), ReadAuditChainVerificationPage(t), ~Fail(t)
    PROVE  VerdictOf(t)'
<1>0. "page" \in Statements BY DEF Statements, Late
<1>1. /\ Open(t) /\ Open(t)' /\ kind' = kind /\ At(t, "page")
      /\ \A x : x # "page" => (Passed(t, x)' <=> Passed(t, x))
      /\ pc'[t] = pc[t] + 1 => Passed(t, "page")'
      /\ pc'[t] = pc[t] => (Passed(t, "page")' <=> Passed(t, "page"))
  BY <1>0, MovePassed
<1>2. entries' = entries /\ nextSeq' = nextSeq /\ keys' = keys BY DEF Moves
<1>3. \A e : SigOK(e)' <=> SigOK(e)
  BY <1>2 DEF SigOK, validReferencedPayloadSignature
<1>4. verdict[t] \in {"none", "passed", "failed"} /\ VerdictOf(t)
  BY DEF VerdictInv, VerdictOf
<1> DEFINE page == NextPage(t)  good == PageIsGood(t, page)
<1>5. \/ /\ page # {} /\ pc' = pc
         /\ scan'[t].after = LastOf(page).seq
         /\ scan'[t].seen = scan[t].seen + Cardinality(page)
         /\ scan'[t].prev = LastOf(page).hash
         /\ verdict'[t] = Worst(verdict[t], good)
      \/ /\ page = {} /\ pc' = [pc EXCEPT ![t] = @ + 1] /\ scan' = scan
         /\ scan[t].after = view[t].head
         /\ verdict'[t] = Worst(verdict[t], TRUE)
  BY PageEffect DEF ChainInv
<1>6. good \in BOOLEAN BY DEF PageIsGood
<1> HIDE DEF page, good
<1>7. verdict'[t] \in {"none", "passed", "failed"}
  BY <1>4, <1>5, <1>6, WorstOf
<1>8. kind[t] # "batch"
  <2>1. \E i : Placed(kind[t], Len(Program(kind[t])), i, "page") BY <1>1, PlaceOf
  <2> QED BY <2>1 DEF Placed
<1>9. ASSUME kind[t] = "chain" PROVE ChainVerdict(t)'
  <2> DEFINE n == nextSeq - 1  a == scan[t].after  m == PageEnd(a, n)
  <2>1. ~Passed(t, "page") /\ Passed(t, "view") BY <1>1, <1>9, ReadsOnce
  <2>2. /\ a \in 0..n /\ scan[t].seen = a /\ scan[t].prev = HashAt(entries, a)
        /\ verdict[t] = "failed" <=> \E e \in entries : e.seq <= a /\ ~SigOK(e)
    BY <1>1, <1>4, <1>9, <2>1 DEF VerdictOf, ChainVerdict
  <2>3. GoodChain(entries, n) /\ n \in Nat /\ view[t].head = n
    BY <1>1, <2>1 DEF ChainInv, ChainOf, ViewInv
  <2>4. /\ page = {e \in entries : a < e.seq /\ e.seq <= m}
        /\ m \in a..n /\ (a # n => m > a)
    BY <2>2, <2>3, PageIsRange DEF page
  <2>5. a \in Nat /\ m \in Nat /\ a <= m /\ \A e \in entries : e.seq \in Nat /\ e.seq <= n
    BY <2>2, <2>3, <2>4 DEF GoodChain, GoodRow
  <2>6. CASE page # {} /\ pc' = pc
    <3>1. m > a BY <2>4, <2>5, <2>6
    <3>2. /\ LastOf(page).seq = m /\ LastOf(page).hash = HashAt(entries, m)
          /\ Cardinality(page) = m - a
      BY <2>2, <2>3, <2>4, <3>1, LastOfPage
    <3>3. good <=> \A e \in page : SigOK(e)
      BY <2>2, <2>3, <2>4, PageOfIntactChain DEF good
    <3>4. /\ scan'[t].after = LastOf(page).seq
          /\ scan'[t].seen = scan[t].seen + Cardinality(page)
          /\ scan'[t].prev = LastOf(page).hash
          /\ verdict'[t] = Worst(verdict[t], good)
      BY <1>5, <2>6 DEF LockInv, ControlType
    <3>5. scan'[t].after = m /\ scan'[t].seen = m /\ scan'[t].prev = HashAt(entries, m)
      BY <2>2, <2>5, <3>2, <3>4
    <3>6. verdict'[t] = "failed" <=> verdict[t] = "failed" \/ ~good
      BY <1>4, <1>6, <3>4, WorstOf
    <3>7. verdict'[t] = "failed" <=> \E e \in entries : e.seq <= m /\ ~SigOK(e)
      <4>1. \A e \in entries : e.seq <= m <=> e.seq <= a \/ e \in page
        BY <2>4, <2>5
      <4> HIDE DEF a, m, n
      <4>2. (\E e \in entries : e.seq <= m /\ ~SigOK(e)) <=>
              \/ \E e \in entries : e.seq <= a /\ ~SigOK(e)
              \/ \E e \in page : ~SigOK(e)
        BY <2>4, <4>1
      <4> QED BY <2>2, <3>3, <3>6, <4>2
    <3>8. ~Passed(t, "page")' /\ Passed(t, "view")'
      BY <1>1, <2>1, <2>6
    <3>9. m \in 0..n BY <2>3, <2>4, <2>5
    <3> HIDE DEF a, m
    <3>10. verdict'[t] = "failed" <=> \E e \in entries' : e.seq <= scan'[t].after /\ ~SigOK(e)'
      BY <1>2, <1>3, <3>5, <3>7
    <3>11. /\ scan'[t].after \in 0..nextSeq' - 1 /\ scan'[t].seen = scan'[t].after
           /\ scan'[t].prev = HashAt(entries', scan'[t].after)
      BY <1>2, <3>5, <3>9
    <3> QED BY <3>8, <3>10, <3>11 DEF ChainVerdict
  <2>7. CASE page = {} /\ pc' # pc
    <3>1. /\ pc'[t] = pc[t] + 1 /\ a = view[t].head
          /\ verdict'[t] = Worst(verdict[t], TRUE)
      BY <1>5, <2>7 DEF LockInv, ControlType
    <3>2. \A e \in entries : e.seq <= a BY <2>3, <2>5, <3>1
    <3>3. verdict'[t] = "passed" <=> verdict[t] # "failed" BY <1>4, <3>1, WorstOf
    <3> HIDE DEF a, m
    <3>4. verdict'[t] = "passed" <=> \A e \in entries : SigOK(e)
      BY <2>2, <3>2, <3>3
    <3>5. Passed(t, "page")' BY <1>1, <3>1
    <3> QED BY <1>2, <1>3, <3>4, <3>5 DEF ChainVerdict
  <2>8. \/ page # {} /\ pc' = pc
        \/ page = {} /\ pc' # pc
    <3>1. pc[t] \in Nat BY DEF LockInv, ControlType
    <3>2. pc' = [pc EXCEPT ![t] = @ + 1] => pc'[t] = pc[t] + 1
      BY DEF LockInv, ControlType
    <3>3. pc' = [pc EXCEPT ![t] = @ + 1] => pc' # pc BY <3>1, <3>2
    <3> QED BY <1>5, <3>3
  <2> QED BY <2>6, <2>7, <2>8
<1> QED BY <1>1, <1>7, <1>8, <1>9 DEF VerdictOf

LEMMA VerdictOwnMove ==
    ASSUME LockInv, ChainInv, KeyInv, VerdictInv, NEW t \in Txns, Step(t),
           ~Fail(t), ~Commit(t)
    PROVE  VerdictOf(t)'
<1>0. Shaped /\ ControlType BY DEF ChainInv, LockInv
<1>1. PICK s \in Statements : Moves(t, s) BY <1>0, StepShape
<1>2. (\A x : At(t, x) => x = s) /\ Open(t) /\ At(t, s) BY <1>1 DEF Moves, At, Open
<1>3. \E i : Placed(kind[t], Len(Program(kind[t])), i, s) BY <1>2, PlaceOf
<1>4. ASSUME s \notin {"page", "batch"}, verdict'[t] = verdict[t],
             kind[t] = "chain" => scan'[t] = scan[t],
             kind[t] = "batch" => batch'[t] = batch[t]
      PROVE  VerdictOf(t)'
  BY <1>1, <1>4, VerdictNeutralMove
<1>5. CASE Lock(t)
  <2>1. SameLocal(t) BY <1>0, <1>5, LockEffect
  <2>2. s \in Locks \ {"sequence"} BY <1>2, <1>5 DEF Lock
  <2> QED BY <1>4, <2>1, <2>2 DEF SameLocal, Locks
<1>6. CASE Allocate(t) \/ (Insert(t) /\ s = "insert") \/ Sync(t)
  <2>1. s \in {"allocate", "insert", "sync"} BY <1>2, <1>6 DEF Allocate, Sync
  <2>2. UNCHANGED <<scan, batch, verdict>>
    BY <1>6 DEF Allocate, Insert, Sync
  <2> QED BY <1>4, <2>1, <2>2
<1>7. CASE Insert(t)
  <2>1. s = "insert" BY <1>2, <1>7 DEF Insert
  <2> QED BY <1>6, <1>7, <2>1
<1>8. CASE Load(t) \/ Reconcile(t) \/ Commitment(t)
  <2>1. s \in {"load", "reconcile", "commitment"}
    BY <1>2, <1>8 DEF Load, Reconcile, Commitment
  <2>2. kind[t] # "chain" BY <1>3, <2>1 DEF Placed
  <2>3. UNCHANGED <<batch, verdict>>
    BY <1>0, <1>8, LoadEffect, ReconcileEffect, CommitmentEffect
  <2> QED BY <1>4, <2>1, <2>2, <2>3
<1>9. CASE View(t)
  <2>1. s = "view" BY <1>2, <1>9 DEF View
  <2>2. UNCHANGED <<scan, batch, verdict>> BY <1>0, <1>9, ViewEffect
  <2> QED BY <1>4, <2>1, <2>2
<1>10. CASE Leaves(t) \/ SignMerkleRoot(t)
  <2>1. s \in {"leaves", "sign"} BY <1>2, <1>10 DEF Leaves, SignMerkleRoot
  <2>2. kind[t] = "merkle" BY <1>3, <2>1 DEF Placed
  <2>3. UNCHANGED <<scan, verdict>> BY <1>0, <1>10, LeavesEffect, SignEffect
  <2> QED BY <1>4, <2>1, <2>2, <2>3
<1>11. CASE Rotate(t) \/ Revoke(t)
  <2>1. s \in {"rotate", "revoke"} BY <1>2, <1>11 DEF Rotate, Revoke
  <2>2. UNCHANGED <<scan, batch, verdict>> BY <1>11 DEF Rotate, Revoke
  <2> QED BY <1>4, <2>1, <2>2
<1>12. CASE ReadMerkleVerification(t)
  <2>1. s = "batch" BY <1>2, <1>12 DEF ReadMerkleVerification
  <2> QED BY <1>1, <1>12, <2>1, BatchVerdictMove
<1>13. CASE ReadAuditChainVerificationPage(t)
  <2>1. s = "page" BY <1>2, <1>13 DEF ReadAuditChainVerificationPage
  <2> QED BY <1>1, <1>13, <2>1, PageVerdictMove
<1> QED
  BY <1>5, <1>6, <1>7, <1>8, <1>9, <1>10, <1>11, <1>12, <1>13
  DEF Step, AbortDeadlock

\* A commit changes neither the keys that a verification has judged by nor the
\* entries that it has read.
LEMMA CommitKeepsVerdicts ==
    ASSUME LockInv, ChainInv, ChainInv', KeyInv, VerdictInv, NEW t \in Txns,
           Commit(t)
    PROVE  VerdictInv'
<1>0. /\ Open(t) /\ pc[t] = Len(Program(kind[t])) + 1
      /\ kind' = kind /\ pc' = pc
      /\ batches' = batches \cup draft[t].batches /\ keys' = Overlay(t)
  BY DEF Commit, Open, Overlay, Merge
<1>1. status'[t] = "committed" /\ \A u \in Txns : u # t => status'[u] = status[u]
  BY DEF Commit, LockInv, ControlType
<1>2. OthersSame(t) /\ scan'[t] = NoScan /\ verdict'[t] = "none"
  BY EndEffect DEF ChainInv
<1>3. "chain" \in held[t] BY <1>0, FinishedHoldsChain
<1>4. VerdictOf(t)' BY <1>1, <1>2 DEF VerdictOf, Open
<1>5. ASSUME NEW u \in Txns, u # t PROVE VerdictOf(u)'
  <2>1. /\ scan'[u] = scan[u] /\ batch'[u] = batch[u] /\ verdict'[u] = verdict[u]
        /\ VerdictOf(u)
    BY <1>2, <1>5 DEF OthersSame, SameLocal, VerdictInv
  <2>2. /\ Open(u)' <=> Open(u)
        /\ \A x : Passed(u, x)' <=> Passed(u, x)
    BY <1>0, <1>1, <1>5 DEF Open, Passed, Stmt
  <2>3. ASSUME Open(u), kind[u] = "batch" PROVE BatchVerdict(u)'
    <3>1. BatchVerdict(u) BY <2>1, <2>3 DEF VerdictOf
    <3>2. CASE ~Passed(u, "batch") BY <2>1, <2>2, <3>1, <3>2 DEF BatchVerdict
    <3>3. CASE Passed(u, "batch")
      <4>1. ~Writing(t) BY <1>0, <1>5, <2>3, <3>3, WriterIsAlone
      <4>2. draft[t].keys = << >> BY <4>1 DEF KeyInv, KeysOf
      <4>3. keys' = keys
        BY <1>0, <4>2, MergeNothing DEF Overlay, KeyInv, GoodKeys
      <4>4. validReferencedPayloadSignature(batch[u].sig)' <=>
              validReferencedPayloadSignature(batch[u].sig)
        BY <2>1, <4>3 DEF validReferencedPayloadSignature
      <4> QED BY <1>0, <2>1, <2>2, <3>1, <3>3, <4>4 DEF BatchVerdict
    <3> QED BY <3>2, <3>3
  <2>4. ASSUME Open(u), kind[u] = "chain" PROVE ChainVerdict(u)'
    <3>1. ChainVerdict(u) BY <2>1, <2>4 DEF VerdictOf
    <3>2. ~Passed(u, "page") /\ ~Passed(u, "view")
      BY <1>3, <1>5, <2>4, ChainIsExclusive DEF Late
    <3>3. scan[u].after = 0 /\ scan[u].seen = 0
          /\ scan[u].prev = HashAt(entries, 0) /\ verdict[u] # "failed"
      <4>1. GoodChain(entries, nextSeq - 1) BY DEF ChainInv
      <4>2. \A e \in entries : ~(e.seq <= 0) BY <4>1 DEF GoodChain, GoodRow
      <4> QED BY <3>1, <3>2, <4>2 DEF ChainVerdict
    <3>4. \A S, n : GoodChain(S, n) =>
             /\ HashAt(S, 0) = << >> /\ 0 \in 0..n
             /\ \A e \in S : ~(e.seq <= 0)
      BY DEF GoodChain, GoodRow, HashAt
    <3>5. GoodChain(entries, nextSeq - 1) /\ GoodChain(entries', nextSeq' - 1)
      BY DEF ChainInv
    <3>6. ~Passed(u, "page")' BY <2>2, <3>2
    <3>7. /\ scan'[u].after = 0 /\ scan'[u].seen = 0
          /\ scan'[u].prev = HashAt(entries', 0) /\ verdict'[u] # "failed"
          /\ 0 \in 0..nextSeq' - 1 /\ \A e \in entries' : ~(e.seq <= 0)
      BY <2>1, <3>3, <3>4, <3>5
    <3> QED BY <3>6, <3>7 DEF ChainVerdict
  <2> QED BY <1>0, <2>1, <2>2, <2>3, <2>4 DEF VerdictOf
<1> QED BY <1>4, <1>5 DEF VerdictInv

LEMMA LocalKeepsVerdicts ==
    ASSUME VerdictInv, NEW t \in Txns, entries' = entries, nextSeq' = nextSeq,
           keys' = keys, batches' = batches, OthersSame(t), VerdictOf(t)',
           \A u \in Txns : u # t => /\ status'[u] = status[u]
                                    /\ kind'[u] = kind[u] /\ pc'[u] = pc[u]
    PROVE  VerdictInv'
<1>1. ASSUME NEW u \in Txns PROVE VerdictOf(u)'
  <2>1. CASE u = t BY <2>1
  <2>2. CASE u # t BY <2>2, VerdictUntouched DEF VerdictInv, OthersSame
  <2> QED BY <2>1, <2>2
<1> QED BY <1>1 DEF VerdictInv

LEMMA FailKeepsVerdicts ==
    ASSUME LockInv, ChainInv, VerdictInv, NEW t \in Txns, Fail(t)
    PROVE  VerdictInv'
<1>1. OthersSame(t) /\ scan'[t] = NoScan /\ verdict'[t] = "none"
  BY EndEffect DEF ChainInv
<1>2. /\ status'[t] = "failed" /\ entries' = entries /\ nextSeq' = nextSeq
      /\ keys' = keys /\ batches' = batches
      /\ \A u \in Txns : u # t => /\ status'[u] = status[u]
                                  /\ kind'[u] = kind[u] /\ pc'[u] = pc[u]
  BY DEF Fail, LockInv, ControlType, committed
<1>3. VerdictOf(t)' BY <1>1, <1>2 DEF VerdictOf, Open
<1> QED BY <1>1, <1>2, <1>3, LocalKeepsVerdicts

LEMMA BeginKeepsVerdicts ==
    ASSUME LockInv, ChainInv, VerdictInv, NEW t \in Txns, NEW k \in Kinds,
           Begin(t, k)
    PROVE  VerdictInv'
<1>1. /\ UNCHANGED <<draft, view, scan, batch, verdict, pc>>
      /\ entries' = entries /\ nextSeq' = nextSeq /\ keys' = keys
      /\ batches' = batches /\ status[t] = "idle"
      /\ \A u \in Txns : u # t => status'[u] = status[u] /\ kind'[u] = kind[u]
  BY DEF Begin, LockInv, ControlType, committed, local
<1>2. OthersSame(t) BY <1>1, QuietEffect DEF ChainInv, OthersSame
<1>3. pc'[t] = 1 BY <1>1 DEF LockInv, OwnLocks
<1>4. \A x : ~Passed(t, x)' BY <1>3 DEF Passed
<1>5. scan'[t] = NoScan /\ verdict'[t] = "none"
  BY <1>1 DEF VerdictInv, VerdictOf, Open
<1>6. NoScan.after = 0 /\ NoScan.seen = 0 /\ NoScan.prev = << >> BY DEF NoScan
<1>7. GoodChain(entries, nextSeq - 1) BY DEF ChainInv
<1>8. HashAt(entries, 0) = << >> /\ 0 \in 0..nextSeq - 1
      /\ \A e \in entries : ~(e.seq <= 0)
  BY <1>7 DEF GoodChain, GoodRow, HashAt
<1>9. BatchVerdict(t)' BY <1>4, <1>5 DEF BatchVerdict
<1>10. ChainVerdict(t)'
  BY <1>1, <1>4, <1>5, <1>6, <1>8 DEF ChainVerdict
<1>11. VerdictOf(t)' BY <1>5, <1>9, <1>10 DEF VerdictOf
<1> QED BY <1>1, <1>2, <1>11, LocalKeepsVerdicts

LEMMA VerdictInit == Init => VerdictInv
BY DEF Init, VerdictInv, VerdictOf, Open

LEMMA VerdictNext ==
    /\ LockInv /\ ChainInv /\ ChainInv' /\ KeyInv /\ VerdictInv
    /\ [Next]_vars
    => VerdictInv'
<1> SUFFICES ASSUME LockInv, ChainInv, ChainInv', KeyInv, VerdictInv, [Next]_vars
             PROVE  VerdictInv'
  OBVIOUS
<1>1. ASSUME NEW t \in Txns, Step(t) PROVE VerdictInv'
  <2>1. CASE Commit(t) BY <2>1, CommitKeepsVerdicts
  <2>2. CASE Fail(t) BY <2>2, FailKeepsVerdicts
  <2>3. CASE ~Fail(t) /\ ~Commit(t)
    <3>1. PICK s \in Statements : Moves(t, s)
      BY <1>1, <2>3, StepShape DEF LockInv
    <3>2. /\ entries' = entries /\ nextSeq' = nextSeq /\ keys' = keys
          /\ batches' = batches /\ status' = status
          /\ kind' = kind /\ \A u \in Txns : u # t => pc'[u] = pc[u]
      BY <3>1, MoveControl DEF Moves
    <3>3. OthersSame(t) BY <1>1, StepFrame DEF ChainInv
    <3>4. VerdictOf(t)' BY <1>1, <2>3, VerdictOwnMove
    <3> QED BY <3>2, <3>3, <3>4, LocalKeepsVerdicts
  <2> QED BY <2>1, <2>2, <2>3
<1>2. ASSUME NEW t \in Txns, Rollback(t) PROVE VerdictInv'
  BY <1>2, FailKeepsVerdicts DEF Rollback
<1>3. ASSUME NEW t \in Txns, NEW k \in Kinds, Begin(t, k) PROVE VerdictInv'
  BY <1>3, BeginKeepsVerdicts
<1>4. ASSUME UNCHANGED <<entries, nextSeq, keys, batches, status, kind, pc, draft,
                         view, scan, batch, verdict>>
      PROVE  VerdictInv'
  <2>1. \A u \in Txns : SameLocal(u) BY <1>4 DEF SameLocal
  <2>2. \A u \in Txns : VerdictOf(u)' BY <1>4, <2>1, VerdictUntouched DEF VerdictInv
  <2> QED BY <2>2 DEF VerdictInv
<1>5. CASE Tick BY <1>4, <1>5 DEF Tick, committed, local
<1>6. CASE UNCHANGED vars BY <1>4, <1>6 DEF vars
<1> QED BY <1>1, <1>2, <1>3, <1>5, <1>6 DEF Next

LEMMA VerdictsAreKept == Spec => [](LockInv /\ ChainInv /\ KeyInv /\ VerdictInv)
BY VerdictInit, VerdictNext, KeysAreKept, PTL DEF Spec

\* What the verification of a batch or of the chain has found is still what it
\* would find when its receipt is about to commit, for any number of concurrent
\* signings, rotations and revocations, any length of the chain and any size of
\* the pages it was read in.
THEOREM VerdictsAreCurrent == Spec => []VerdictIsCurrent
<1>1. LockInv /\ ChainInv /\ KeyInv /\ VerdictInv => VerdictIsCurrent
  <2> SUFFICES ASSUME LockInv, ChainInv, KeyInv, VerdictInv, NEW t \in Txns,
                      Open(t), pc[t] > Len(Program(kind[t]))
               PROVE  /\ kind[t] = "batch" =>
                            (verdict[t] = "passed" <=> InspectMerkleBatch(batch[t]))
                      /\ kind[t] = "chain" =>
                            (verdict[t] = "passed" <=> \A e \in entries : SigOK(e))
    BY DEF VerdictIsCurrent, SigOK
  <2>1. pc[t] \in Nat /\ VerdictOf(t) BY DEF LockInv, ControlType, VerdictInv
  <2>2. ASSUME kind[t] = "batch"
        PROVE  verdict[t] = "passed" <=> InspectMerkleBatch(batch[t])
    <3>1. 2 < pc[t] BY <2>1, <2>2, Positions
    <3>2. Passed(t, "batch") BY <2>2, <3>1, EarlierIsPassed, Positions
    <3>3. /\ batch[t] \in batches
          /\ verdict[t] = "passed" <=> validReferencedPayloadSignature(batch[t].sig)
      BY <2>1, <2>2, <3>2 DEF VerdictOf, BatchVerdict
    <3> QED BY <3>3, InspectMeansSignature
  <2>3. ASSUME kind[t] = "chain"
        PROVE  verdict[t] = "passed" <=> \A e \in entries : SigOK(e)
    <3>1. 5 < pc[t] BY <2>1, <2>3, Positions
    <3>2. Passed(t, "page") BY <2>3, <3>1, EarlierIsPassed, Positions
    <3> QED BY <2>1, <2>3, <3>2 DEF VerdictOf, ChainVerdict
  <2> QED BY <2>2, <2>3
<1> QED BY <1>1, VerdictsAreKept, PTL

\* Every variable of the chain's transactions keeps its type.
THEOREM AuditChainTypes == Spec => []TypeOK
<1>1. LockInv /\ ChainInv /\ KeyInv /\ VerdictInv => TypeOK
  <2> SUFFICES ASSUME LockInv, ChainInv, KeyInv, VerdictInv PROVE TypeOK OBVIOUS
  <2>1. clock \in 1..MaxClock /\ entries \in SUBSET Entries
        /\ keys \in [Versions -> KeyRows]
    BY DEF KeyInv, GoodKeys
  <2>2. nextSeq \in Nat \ {0} BY DEF ChainInv
  <2>3. verdict \in [Txns -> {"none", "passed", "failed"}]
    <3>1. \A t \in Txns : verdict[t] \in {"none", "passed", "failed"}
      BY DEF VerdictInv, VerdictOf
    <3>2. verdict = [t \in Txns |-> verdict[t]] BY DEF ChainInv, Shaped
    <3> QED BY <3>1, <3>2
  <2>4. ASSUME NEW t \in Txns
        PROVE  /\ draft[t].rows \in SUBSET Entries
               /\ draft[t].next \in Nat
               /\ DOMAIN draft[t].keys \subseteq Versions
               /\ \A v \in DOMAIN draft[t].keys : draft[t].keys[v] \in KeyRows
    <3>1. draft[t].rows \in SUBSET Entries /\ DOMAIN draft[t].keys \subseteq Versions
          /\ GoodKeys(Overlay(t))
      BY DEF KeyInv, KeysOf
    <3>2. draft[t].next \in Nat BY DEF ChainInv, ChainOf
    <3>3. \A v \in DOMAIN draft[t].keys : Overlay(t)[v] = draft[t].keys[v]
      BY <3>1 DEF Overlay, Merge
    <3>4. \A v \in Versions : Overlay(t)[v] \in KeyRows BY <3>1 DEF GoodKeys
    <3> QED BY <3>1, <3>2, <3>3, <3>4
  <2> QED BY <2>1, <2>2, <2>3, <2>4 DEF TypeOK, LockInv, ControlType
<1> QED BY <1>1, VerdictsAreKept, PTL

=============================================================================
