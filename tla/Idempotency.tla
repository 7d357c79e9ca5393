---------------------------- MODULE Idempotency ----------------------------
(***************************************************************************)
(* One idempotency key of the Evydence API: the row that keeps it in       *)
(* PostgreSQL (internal/adapters/postgres/repositories/idempotency.go) and *)
(* the HTTP attempts that use it, each running                             *)
(* IdempotencyUnitOfWork.withReservation                                   *)
(* (internal/app/idempotency_unit_of_work.go).  Keys are independent, so   *)
(* one key is enough.                                                      *)
(*                                                                         *)
(* An attempt takes its reservation (request hash, owner token and "now")  *)
(* BEFORE it opens its transaction; it then reserves the key, runs the     *)
(* command, completes the row and commits, all in one transaction.  When   *)
(* the command fails that transaction is rolled back and a second one,     *)
(* persistFailure, reserves the key again with the SAME reservation to     *)
(* leave a failed row.  Between the two, and while an attempt waits for    *)
(* the row, other attempts get in: that is what this module explores.      *)
(*                                                                         *)
(* The owner token of an attempt is the attempt itself.  A response is the *)
(* attempt whose execution produced it; its redaction is left out.         *)
(***************************************************************************)
EXTENDS Naturals, FiniteSets

CONSTANTS
    Requests,   \* HTTP attempts that carry this key
    Hashes,     \* request fingerprints
    Lease,      \* defaultIdempotencyLease
    Retention,  \* defaultIdempotencyRetention
    MaxClock,   \* bound: the clock stops here
    Nil,        \* an empty or NULL column
    Earlier     \* owner of a row an earlier process left pending

ASSUME IdempotencyAssumption ==
    /\ Lease \in Nat \ {0}
    /\ Retention \in Nat \ {0}
    /\ MaxClock \in Nat
    /\ {Nil, Earlier} \cap (Requests \cup Hashes) = {}
    /\ Nil # Earlier

VARIABLES
    clock,      \* wall clock of the API processes
    row,        \* the committed row of the key
    holder,     \* attempt whose open transaction has inserted or locked the row
    draft,      \* the row as that transaction sees it
    acquired,   \* history: the clock when that transaction got the row
    pc,         \* where each attempt is
    phase,      \* which of its two transactions an attempt runs
    res,        \* the reservation of each attempt
    answer,     \* what each attempt answered its client
    execs       \* history: executions whose effects are durable

vars == <<clock, row, holder, draft, acquired, pc, phase, res, answer, execs>>

States == {"absent", "pending", "completed", "failed"}

\* The columns of idempotency_records that decide something.  A NULL lease is
\* 0: like NULL it is never after "now".
Rows == [state: States, hash: Hashes \cup {Nil},
         owner: Requests \cup {Nil, Earlier}, response: Requests \cup {Nil},
         created: Nat, lease: Nat, expires: Nat]

NoRow == [state |-> "absent", hash |-> Nil, owner |-> Nil, response |-> Nil,
          created |-> 0, lease |-> 0, expires |-> 0]

Kinds == {"none", "executed", "replay", "in progress", "failed", "conflict",
          "error"}

NoAnswer == [kind |-> "none", of |-> Nil]

(***************************************************************************)
(* The reservation.                                                        *)
(***************************************************************************)

newIdempotencyReservation(r, h, now) == [hash |-> h, owner |-> r, now |-> now]

PendingRow(v) ==
    [state |-> "pending", hash |-> v.hash, owner |-> v.owner, response |-> Nil,
     created |-> v.now, lease |-> v.now + Lease, expires |-> v.now + Retention]

\* Mutant: the owner and fingerprint parameters of the UPDATE are swapped.
recoverPending_Swapped(v) ==
    [row EXCEPT !.owner = v.hash, !.lease = v.now + Lease]

\* recoverPending keeps the creation and the expiry of the row it takes over.
recoverPending(v) ==
    [row EXCEPT !.owner = v.owner, !.lease = v.now + Lease]

\* Mutant: a row is given up with its lease.
Expired_ByLease(v) == row.created + Lease <= v.now

Expired(v) == row.expires <= v.now

Retained(v) == row # NoRow /\ ~Expired(v)

Matches(v) == Retained(v) /\ row.hash = v.hash

\* Mutant: persistFailure writes its row whatever it finds.
Outcome_FailureTakesRow(v) ==
    CASE row = NoRow -> "error"
      [] row # NoRow /\ (Expired(v) \/ phase[v.owner] = "failure") -> "acquired"
      [] Retained(v) /\ row.hash # v.hash -> "conflict"
      [] Matches(v) /\ row.state = "completed" -> "replay"
      [] Matches(v) /\ row.state = "failed" -> "failed"
      [] Matches(v) /\ row.state = "pending" /\ row.lease > v.now -> "in progress"
      [] OTHER -> "recovered"

\* Mutant: the fingerprint is not compared.
Outcome_AnyHash(v) ==
    CASE row = NoRow -> "error"
      [] row # NoRow /\ Expired(v) -> "acquired"
      [] Retained(v) /\ row.state = "completed" -> "replay"
      [] Retained(v) /\ row.state = "failed" -> "failed"
      [] Retained(v) /\ row.state = "pending" /\ row.lease > v.now -> "in progress"
      [] OTHER -> "recovered"

\* The outcome of Reserve once the row is locked.  A row that was deleted
\* between the INSERT and the lock is an error.
Outcome(v) ==
    CASE row = NoRow -> "error"
      [] row # NoRow /\ Expired(v) -> "acquired"
      [] Retained(v) /\ row.hash # v.hash -> "conflict"
      [] Matches(v) /\ row.state = "completed" -> "replay"
      [] Matches(v) /\ row.state = "failed" -> "failed"
      [] Matches(v) /\ row.state = "pending" /\ row.lease > v.now -> "in progress"
      [] OTHER -> "recovered"

----------------------------------------------------------------------------
(***************************************************************************)
(* Steps of an attempt.                                                    *)
(***************************************************************************)

\* The transaction of r ends and lets go of the row, if r had it.
Release(r) ==
    /\ holder' = IF holder = r THEN Nil ELSE holder
    /\ draft' = IF holder = r THEN NoRow ELSE draft
    /\ acquired' = IF holder = r THEN 0 ELSE acquired

\* r is over.  The answer of a failed command is its error, whatever
\* persistFailure meets.
Answer(r, kind, of) ==
    /\ pc' = [pc EXCEPT ![r] = "done"]
    /\ answer' = [answer EXCEPT ![r] =
           IF phase[r] = "failure" THEN [kind |-> "error", of |-> Nil]
                                   ELSE [kind |-> kind, of |-> of]]

Acquire(r, d) ==
    /\ holder' = r
    /\ draft' = d
    /\ acquired' = clock
    /\ pc' = [pc EXCEPT ![r] = "owned"]

\* An attempt arrives and takes its reservation.
Request(r, h) ==
    /\ pc[r] = "idle"
    /\ res' = [res EXCEPT ![r] = newIdempotencyReservation(r, h, clock)]
    /\ pc' = [pc EXCEPT ![r] = "insert"]
    /\ UNCHANGED <<clock, row, holder, draft, acquired, phase, answer, execs>>

\* An error before the row is reserved: the transaction cannot begin, Authorize
\* or the tenant check refuses, or the context ends while r waits for the row.
Refuse(r) ==
    /\ pc[r] \in {"insert", "lock"}
    /\ Answer(r, "error", Nil)
    /\ UNCHANGED <<clock, row, holder, draft, acquired, phase, res, execs>>

\* INSERT ... ON CONFLICT DO NOTHING waits for the transaction that has inserted
\* the row and not committed it; it does not wait for one that updates it.
ReserveInsert(r) ==
    /\ pc[r] = "insert"
    /\ row = NoRow => holder = Nil
    /\ \/ /\ row = NoRow
          /\ Acquire(r, PendingRow(res[r]))
       \/ /\ row # NoRow
          /\ pc' = [pc EXCEPT ![r] = "lock"]
          /\ UNCHANGED <<holder, draft, acquired>>
    /\ UNCHANGED <<clock, row, phase, res, answer, execs>>

\* SELECT ... FOR UPDATE waits for the holder and reads what it committed.
\* Outcomes that write nothing end the transaction; AuthorizeReplay or the
\* commit may still turn them into an error.
ReserveLock(r) ==
    /\ pc[r] = "lock"
    /\ holder = Nil
    /\ LET outcome == Outcome(res[r]) IN
       \/ /\ outcome = "acquired"
          /\ Acquire(r, PendingRow(res[r]))
          /\ UNCHANGED answer
       \/ /\ outcome = "recovered"
          /\ Acquire(r, recoverPending(res[r]))
          /\ UNCHANGED answer
       \/ /\ outcome \notin {"acquired", "recovered"}
          /\ \/ Answer(r, outcome, IF outcome = "replay" THEN row.response ELSE Nil)
             \/ Answer(r, "error", Nil)
          /\ UNCHANGED <<holder, draft, acquired>>
    /\ UNCHANGED <<clock, row, phase, res, execs>>

\* The command succeeds and Complete finds the row pending and owned.
RunSucceeds(r) ==
    /\ pc[r] = "owned" /\ phase[r] = "command"
    /\ draft.state = "pending" /\ draft.owner = r
    /\ draft' = [draft EXCEPT !.state = "completed", !.owner = Nil,
                              !.response = r, !.lease = 0]
    /\ pc' = [pc EXCEPT ![r] = "commit"]
    /\ UNCHANGED <<clock, row, holder, acquired, phase, res, answer, execs>>

\* Mutant: the transaction of a failed command is left open.
RunFails_KeepsRow(r) ==
    /\ pc[r] = "owned" /\ phase[r] = "command"
    /\ phase' = [phase EXCEPT ![r] = "failure"]
    /\ pc' = [pc EXCEPT ![r] = "insert"]
    /\ UNCHANGED <<clock, row, holder, draft, acquired, res, answer, execs>>

\* The command fails for good: roll back and go on to persistFailure.
RunFails(r) ==
    /\ pc[r] = "owned" /\ phase[r] = "command"
    /\ Release(r)
    /\ phase' = [phase EXCEPT ![r] = "failure"]
    /\ pc' = [pc EXCEPT ![r] = "insert"]
    /\ UNCHANGED <<clock, row, res, answer, execs>>

\* Mutant: the reservation is committed and left to its lease.
RunRetryable_Commits(r) ==
    /\ pc[r] = "owned" /\ phase[r] = "command"
    /\ row' = draft
    /\ Release(r)
    /\ Answer(r, "error", Nil)
    /\ UNCHANGED <<clock, phase, res, execs>>

\* prepare, the replay encoding or Complete fails, or the command returns
\* ErrRetryableSigning: roll back and leave no trace.
RunRetryable(r) ==
    /\ pc[r] = "owned" /\ phase[r] = "command"
    /\ Release(r)
    /\ Answer(r, "error", Nil)
    /\ UNCHANGED <<clock, row, phase, res, execs>>

\* persistFailure marks the row it reserved.
Fail(r) ==
    /\ pc[r] = "owned" /\ phase[r] = "failure"
    /\ draft.state = "pending" /\ draft.owner = r
    /\ draft' = [draft EXCEPT !.state = "failed", !.owner = Nil,
                              !.response = Nil, !.lease = 0]
    /\ pc' = [pc EXCEPT ![r] = "commit"]
    /\ UNCHANGED <<clock, row, holder, acquired, phase, res, answer, execs>>

\* The row and the effects of the command become durable together.  The
\* connection may still fail before r learns of it.
Commit(r) ==
    /\ pc[r] = "commit"
    /\ row' = draft
    /\ execs' = execs \cup
           IF phase[r] = "command"
           THEN {[by |-> r, hash |-> draft.hash, created |-> draft.created,
                  at |-> acquired]}
           ELSE {}
    /\ Release(r)
    /\ Answer(r, "executed", Nil) \/ Answer(r, "error", Nil)
    /\ UNCHANGED <<clock, phase, res>>

\* The commit fails and nothing of the transaction is durable.
CommitLost(r) ==
    /\ pc[r] = "commit"
    /\ Release(r)
    /\ Answer(r, "error", Nil)
    /\ UNCHANGED <<clock, row, phase, res, execs>>

\* The API process dies: its transaction is rolled back, its client hears nothing.
Crash(r) ==
    /\ pc[r] \notin {"idle", "done"}
    /\ Release(r)
    /\ pc' = [pc EXCEPT ![r] = "done"]
    /\ UNCHANGED <<clock, row, phase, res, answer, execs>>

\* The retention sweep deletes an expired row nobody has locked.
DeleteExpired ==
    /\ row # NoRow /\ holder = Nil
    /\ row.expires <= clock
    /\ row' = NoRow
    /\ UNCHANGED <<clock, holder, draft, acquired, pc, phase, res, answer, execs>>

Tick ==
    /\ clock < MaxClock
    /\ clock' = clock + 1
    /\ UNCHANGED <<row, holder, draft, acquired, pc, phase, res, answer, execs>>

----------------------------------------------------------------------------

\* The key is new, or a process that is gone left it pending.
Init ==
    /\ clock = 0
    /\ row \in {NoRow} \cup
           {PendingRow(newIdempotencyReservation(Earlier, h, 0)) : h \in Hashes}
    /\ holder = Nil
    /\ draft = NoRow
    /\ acquired = 0
    /\ pc = [r \in Requests |-> "idle"]
    /\ phase = [r \in Requests |-> "command"]
    /\ res = [r \in Requests |-> [hash |-> Nil, owner |-> r, now |-> 0]]
    /\ answer = [r \in Requests |-> NoAnswer]
    /\ execs = {}

\* What an attempt that has arrived does by itself.
Step(r) ==
    \/ Refuse(r)
    \/ ReserveInsert(r)
    \/ ReserveLock(r)
    \/ RunSucceeds(r)
    \/ RunFails(r)
    \/ RunRetryable(r)
    \/ Fail(r)
    \/ Commit(r)
    \/ CommitLost(r)

Next ==
    \/ \E r \in Requests :
          \/ \E h \in Hashes : Request(r, h)
          \/ Step(r)
          \/ Crash(r)
    \/ DeleteExpired
    \/ Tick

Spec == Init /\ [][Next]_vars

\* The steps by which an attempt moves on.  Refuse is left out: a request may
\* not be relied on to fail.
Progress(r) ==
    \/ ReserveInsert(r)
    \/ ReserveLock(r)
    \/ RunSucceeds(r)
    \/ Fail(r)
    \/ Commit(r)

FairSpec == Spec /\ \A r \in Requests : WF_vars(Progress(r))

----------------------------------------------------------------------------
(***************************************************************************)
(* Properties.                                                             *)
(***************************************************************************)

Executions == [by: Requests, hash: Hashes, created: Nat, at: Nat]

\* Every variable has its type: the row and the draft are rows of
\* idempotency_records, every attempt is at one step of withReservation.
TypeOK ==
    /\ clock \in Nat
    /\ row \in Rows
    /\ holder \in Requests \cup {Nil}
    /\ draft \in Rows
    /\ acquired \in Nat
    /\ pc \in [Requests -> {"idle", "insert", "lock", "owned", "commit", "done"}]
    /\ phase \in [Requests -> {"command", "failure"}]
    /\ res \in [Requests -> [hash: Hashes \cup {Nil}, owner: Requests, now: Nat]]
    /\ answer \in [Requests -> [kind: Kinds, of: Requests \cup {Nil}]]
    /\ execs \subseteq Executions

\* A retained execution: less than Retention has passed since the reservation
\* of its key.
RetainedExecution(e) == e.created + Retention > clock

\* As long as an execution is retained, the key's row is its completed row: no
\* late persistFailure, recovery, replacement or sweep hides it from a retry
\* (withReservation and persistFailure reserve with a "now" taken earlier).
RetainedExecutionIsReplayable ==
    \A e \in execs : RetainedExecution(e) =>
        /\ row.state = "completed"
        /\ row.response = e.by
        /\ row.hash = e.hash
        /\ row.created = e.created

\* The effects of a command are made durable once per retention: of two
\* executions under one key, one got the row after the other's retention was
\* over.  No attempt executes twice, persistFailure included.
OneExecutionPerRetention ==
    \A e, f \in execs : e # f =>
        /\ e.by # f.by
        /\ \/ e.at >= f.created + Retention
           \/ f.at >= e.created + Retention

\* What a client is told is true: an attempt answered from its own execution
\* has one, a replay is the response of a durable execution of the same
\* request fingerprint that was retained when the attempt arrived, and an
\* attempt refused as failed, in progress or conflicting has executed nothing
\* (the switch on the outcome in withReservation).
AnswersAreTrue ==
    \A r \in Requests :
        LET mine == {e \in execs : e.by = r} IN
        /\ answer[r].kind = "executed" => mine # {}
        /\ answer[r].kind \in {"replay", "failed", "in progress", "conflict"} =>
               mine = {}
        /\ answer[r].kind = "replay" =>
               \E e \in execs :
                   /\ e.by = answer[r].of
                   /\ e.hash = res[r].hash
                   /\ res[r].now < e.created + Retention

\* A reservation never outlives its transaction: the only pending row that is
\* ever committed is one an earlier process left.  So no crash, rollback or
\* uncertain commit leaves the key leased to an attempt that is gone.
NoReservationOutlivesItsTransaction ==
    row.state = "pending" => row.owner = Earlier /\ execs = {}

\* Every attempt that arrives ends: nobody waits for the row for ever, because
\* every end of a transaction, rollback and crash included, lets go of it.
EveryAttemptEnds ==
    \A r \in Requests : pc[r] = "insert" ~> pc[r] = "done"

=============================================================================
