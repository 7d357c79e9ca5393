------------------------- MODULE IdempotencyProofs -------------------------
(***************************************************************************)
(* What module Idempotency promises, for any set of attempts and           *)
(* fingerprints, any lease and any retention.                              *)
(***************************************************************************)
EXTENDS Idempotency, TLAPS

(***************************************************************************)
(* The inductive invariant.                                                *)
(***************************************************************************)

\* A reservation belongs to its attempt and was taken no later than now.
ReservationInv ==
    \A r \in Requests :
        /\ res[r].owner = r
        /\ res[r].now <= clock
        /\ pc[r] # "idle" => res[r].hash \in Hashes

\* The row is locked exactly by the attempt that is past its reservation.
LockInv ==
    /\ \A r \in Requests : pc[r] \in {"owned", "commit"} => holder = r
    /\ \A r \in Requests : holder = r => pc[r] \in {"owned", "commit"}

\* A row that exists names its fingerprint and expires with its retention; a
\* completed row is backed by a durable execution.
RowInv ==
    /\ row # NoRow =>
           /\ row.state # "absent"
           /\ row.hash \in Hashes
           /\ row.expires = row.created + Retention
    /\ row.state = "completed" =>
           \E e \in execs : /\ e.by = row.response
                            /\ e.hash = row.hash
                            /\ e.created = row.created

\* The holder's view of the row fits the step the holder is at.
DraftInv ==
    \A r \in Requests : holder = r =>
        /\ draft.hash \in Hashes
        /\ draft.expires = draft.created + Retention
        /\ pc[r] = "owned" => draft.state = "pending" /\ draft.owner = r
        /\ pc[r] = "commit" /\ phase[r] = "command" =>
               draft.state = "completed" /\ draft.response = r
        /\ pc[r] = "commit" /\ phase[r] = "failure" => draft.state = "failed"

\* When the holder got the row, the retention of every execution was over.
AcquiredInv ==
    holder # Nil =>
        /\ acquired <= clock
        /\ \A e \in execs : e.created + Retention <= acquired

\* An attempt answers, and has a durable execution, only when it is over.
DoneInv ==
    /\ \A r \in Requests : pc[r] # "done" => answer[r] = NoAnswer
    /\ \A e \in execs : pc[e.by] = "done"

IInv ==
    /\ TypeOK
    /\ ReservationInv
    /\ LockInv
    /\ RowInv
    /\ DraftInv
    /\ AcquiredInv
    /\ DoneInv
    /\ NoReservationOutlivesItsTransaction
    /\ RetainedExecutionIsReplayable
    /\ OneExecutionPerRetention
    /\ AnswersAreTrue

-----------------------------------------------------------------------------
(* The operators                                                           *)

\* The absent row and a pending row are rows.
LEMMA RowFacts ==
    /\ NoRow \in Rows /\ NoRow.state = "absent"
    /\ \A v \in [hash: Hashes, owner: Requests \cup {Earlier}, now: Nat] :
           /\ PendingRow(v) \in Rows
           /\ PendingRow(v).state = "pending"
           /\ PendingRow(v).owner = v.owner
           /\ PendingRow(v).hash = v.hash
           /\ PendingRow(v).created = v.now
           /\ PendingRow(v).expires = v.now + Retention
  BY IdempotencyAssumption DEF NoRow, Rows, States, PendingRow

\* What Reserve may conclude from a row, and that a verdict which writes nothing
\* is an answer.
LEMMA OutcomeFacts ==
    ASSUME IInv, NEW r \in Requests
    PROVE  LET o == Outcome(res[r]) IN
           /\ o = "acquired" => row # NoRow /\ row.expires <= res[r].now
           /\ o = "recovered" => row # NoRow /\ row.state = "pending"
           /\ o = "replay" => /\ row.state = "completed"
                              /\ row.hash = res[r].hash
                              /\ res[r].now < row.created + Retention
           /\ o \notin {"acquired", "recovered"} => o \in Kinds \ {"none", "executed"}
  <1>1. row.state \in States /\ row.expires \in Nat /\ res[r].now \in Nat
    BY DEF IInv, TypeOK, Rows
  <1>2. row # NoRow => row.state # "absent" /\ row.expires = row.created + Retention
    BY DEF IInv, RowInv
  <1> DEFINE o == Outcome(res[r])
  <1>3. CASE row = NoRow
    <2>1. o = "error"
      BY <1>3 DEF Outcome, Retained, Matches
    <2> QED
      BY <2>1 DEF Kinds
  <1>4. CASE row # NoRow /\ Expired(res[r])
    <2>1. o = "acquired"
      BY <1>4 DEF Outcome, Retained, Matches
    <2> QED
      BY <1>4, <2>1 DEF Expired
  <1>5. CASE row # NoRow /\ ~Expired(res[r]) /\ row.hash # res[r].hash
    <2>1. o = "conflict"
      BY <1>5 DEF Outcome, Retained, Matches
    <2> QED
      BY <2>1 DEF Kinds
  <1>6. CASE row # NoRow /\ ~Expired(res[r]) /\ row.hash = res[r].hash
    <2>1. row.state \in {"pending", "completed", "failed"}
      BY <1>1, <1>2, <1>6 DEF States
    <2>2. /\ row.state = "completed" => o = "replay"
          /\ row.state = "failed" => o = "failed"
          /\ row.state = "pending" => o \in {"in progress", "recovered"}
      BY <1>6, <2>1 DEF Outcome, Retained, Matches
    <2>3. res[r].now < row.created + Retention
      BY <1>1, <1>2, <1>6 DEF Expired
    <2> QED
      BY <1>6, <2>1, <2>2, <2>3 DEF Kinds
  <1> QED
    BY <1>3, <1>4, <1>5, <1>6

\* Ending an attempt keeps the types.
LEMMA AnswerType ==
    ASSUME TypeOK, NEW r \in Requests, NEW kind \in Kinds,
           NEW of \in Requests \cup {Nil}, Answer(r, kind, of)
    PROVE  /\ pc' \in [Requests -> {"idle", "insert", "lock", "owned", "commit", "done"}]
           /\ answer' \in [Requests -> [kind: Kinds, of: Requests \cup {Nil}]]
  <1>1. [kind |-> "error", of |-> Nil] \in [kind: Kinds, of: Requests \cup {Nil}]
    BY DEF Kinds
  <1> QED
    BY <1>1 DEF TypeOK, Answer

\* So does letting go of the row.
LEMMA ReleaseType ==
    ASSUME TypeOK, NEW r \in Requests, Release(r)
    PROVE  holder' \in Requests \cup {Nil} /\ draft' \in Rows /\ acquired' \in Nat
  BY RowFacts DEF TypeOK, Release

\* An attempt that lets go of the row and leaves the transaction.
LEMMA ReleaseLock ==
    ASSUME TypeOK, LockInv, NEW r \in Requests, Release(r),
           NEW x \in {"insert", "done"}, pc' = [pc EXCEPT ![r] = x]
    PROVE  LockInv'
  BY IdempotencyAssumption DEF TypeOK, LockInv, Release

\* The holder's draft and the time it got the row are untouched by an attempt
\* that does not have it.
LEMMA ReleaseDraft ==
    ASSUME IInv, NEW r \in Requests, Release(r),
           NEW x \in {"insert", "done"}, pc' = [pc EXCEPT ![r] = x],
           NEW y \in {"command", "failure"}, phase' = [phase EXCEPT ![r] = y],
           UNCHANGED <<clock, execs>>
    PROVE  DraftInv' /\ AcquiredInv'
  <1>1. CASE holder = r
    BY <1>1, IdempotencyAssumption DEF IInv, DraftInv, AcquiredInv, Release
  <1>2. CASE holder # r
    <2>1. UNCHANGED <<holder, draft, acquired>>
      BY <1>2 DEF Release
    <2>2. \A q \in Requests : holder = q => pc'[q] = pc[q] /\ phase'[q] = phase[q]
      BY <1>2 DEF IInv, TypeOK
    <2> QED
      BY <2>1, <2>2 DEF IInv, DraftInv, AcquiredInv
  <1> QED
    BY <1>1, <1>2

\* Taking the row: the new holder is the only one, and no execution is retained.
LEMMA AcquireInv ==
    ASSUME IInv, NEW r \in Requests, pc[r] \in {"insert", "lock"}, holder = Nil,
           NEW d \in Rows, d.state = "pending", d.owner = r, d.hash \in Hashes,
           d.expires = d.created + Retention,
           \A e \in execs : ~RetainedExecution(e),
           Acquire(r, d), UNCHANGED <<clock, phase, execs>>
    PROVE  LockInv' /\ DraftInv' /\ AcquiredInv'
  <1>1. LockInv'
    BY IdempotencyAssumption DEF IInv, TypeOK, LockInv, Acquire
  <1>2. pc'[r] = "owned" /\ holder' = r /\ draft' = d /\ acquired' = clock
    BY DEF IInv, TypeOK, Acquire
  <1>3. DraftInv'
    BY <1>2 DEF DraftInv
  <1>4. \A e \in execs : e.created + Retention <= clock
    BY IdempotencyAssumption DEF RetainedExecution, IInv, TypeOK, Executions
  <1>5. AcquiredInv'
    BY <1>2, <1>4 DEF AcquiredInv, IInv, TypeOK
  <1> QED
    BY <1>1, <1>3, <1>5

\* The end of an attempt that has executed nothing: whatever it answers, short
\* of an execution or an unfounded replay, is true.
LEMMA AnswerTrue ==
    ASSUME IInv, NEW r \in Requests, pc[r] # "done",
           NEW kind \in Kinds \ {"executed"}, NEW of \in Requests \cup {Nil},
           kind = "replay" =>
               \E e \in execs : /\ e.by = of
                                /\ e.hash = res[r].hash
                                /\ res[r].now < e.created + Retention,
           Answer(r, kind, of), UNCHANGED <<res, execs>>
    PROVE  AnswersAreTrue' /\ DoneInv'
  <1>1. \A e \in execs : e.by # r
    BY DEF IInv, DoneInv
  <1>2. /\ answer'[r].kind \in {kind, "error"}
        /\ answer'[r].kind = kind \/ answer'[r].kind # "replay"
        /\ answer'[r].kind = "replay" => answer'[r].of = of
        /\ \A q \in Requests \ {r} : answer'[q] = answer[q]
    BY DEF IInv, TypeOK, Answer
  <1>3. AnswersAreTrue'
    BY <1>1, <1>2 DEF IInv, AnswersAreTrue
  <1>4. DoneInv'
    BY <1>2 DEF IInv, TypeOK, DoneInv, Answer, Executions
  <1> QED
    BY <1>3, <1>4

-----------------------------------------------------------------------------
(* Every action keeps the invariant                                        *)

\* A new reservation touches no row, and its attempt has answered nothing yet.
LEMMA RequestKeeps ==
    ASSUME IInv, NEW r \in Requests, NEW h \in Hashes, Request(r, h)
    PROVE  IInv'
  <1>1. TypeOK'
    BY DEF IInv, Request, newIdempotencyReservation, TypeOK
  <1>2. ReservationInv'
    BY DEF IInv, Request, newIdempotencyReservation, TypeOK, ReservationInv
  <1>3. LockInv'
    BY DEF IInv, Request, newIdempotencyReservation, TypeOK, LockInv
  <1>4. DraftInv'
    BY DEF IInv, Request, newIdempotencyReservation, TypeOK, LockInv, DraftInv
  <1>5. DoneInv'
    BY DEF IInv, Request, newIdempotencyReservation, TypeOK, DoneInv, Executions
  <1>6. AnswersAreTrue'
    <2>1. answer[r] = NoAnswer /\ \A q \in Requests \ {r} : res'[q] = res[q]
      BY DEF IInv, DoneInv, TypeOK, Request
    <2>2. answer[r].kind = "none"
      BY <2>1 DEF NoAnswer
    <2> QED
      BY <2>2, <2>1 DEF IInv, Request, AnswersAreTrue
  <1>7. /\ RowInv'
        /\ AcquiredInv'
        /\ NoReservationOutlivesItsTransaction'
        /\ RetainedExecutionIsReplayable'
        /\ OneExecutionPerRetention'
    BY DEF IInv, Request, RowInv, AcquiredInv, NoReservationOutlivesItsTransaction,
       RetainedExecutionIsReplayable, RetainedExecution, OneExecutionPerRetention
  <1> QED
    BY <1>1, <1>2, <1>3, <1>4, <1>5, <1>6, <1>7 DEF IInv

\* An attempt that gives up before it has the row leaves the row and its holder alone.
LEMMA RefuseKeeps ==
    ASSUME IInv, NEW r \in Requests, Refuse(r)
    PROVE  IInv'
  <1>a. \A q \in Requests : holder = q => pc'[q] = pc[q]
    BY DEF IInv, TypeOK, LockInv, Refuse, Answer
  <1>1. TypeOK'
    BY AnswerType DEF IInv, Refuse, TypeOK, Kinds
  <1>2. ReservationInv'
    BY DEF IInv, Refuse, Answer, TypeOK, ReservationInv
  <1>3. LockInv'
    BY <1>a DEF IInv, TypeOK, LockInv, Refuse, Answer
  <1>4. DraftInv'
    BY <1>a DEF IInv, DraftInv, Refuse
  <1>5. DoneInv' /\ AnswersAreTrue'
    BY AnswerTrue DEF Refuse, Kinds
  <1>6. /\ RowInv'
        /\ AcquiredInv'
        /\ NoReservationOutlivesItsTransaction'
        /\ RetainedExecutionIsReplayable'
        /\ OneExecutionPerRetention'
    BY DEF IInv, Refuse, RowInv, AcquiredInv, NoReservationOutlivesItsTransaction,
       RetainedExecutionIsReplayable, RetainedExecution, OneExecutionPerRetention
  <1> QED
    BY <1>1, <1>2, <1>3, <1>4, <1>5, <1>6 DEF IInv

\* The INSERT takes the row only when there is none: then no execution is retained.
LEMMA ReserveInsertKeeps ==
    ASSUME IInv, NEW r \in Requests, ReserveInsert(r)
    PROVE  IInv'
  <1> DEFINE d == PendingRow(res[r])
  <1>a. res[r] \in [hash: Hashes, owner: Requests \cup {Earlier}, now: Nat] /\ res[r].owner = r
    BY DEF ReserveInsert, IInv, TypeOK, ReservationInv
  <1>b. d \in Rows /\ d.state = "pending" /\ d.owner = r /\ d.hash \in Hashes
        /\ d.expires = d.created + Retention
    BY <1>a, RowFacts
  <1>c. ASSUME row = NoRow
        PROVE  TypeOK' /\ LockInv' /\ DraftInv' /\ AcquiredInv'
    <2>1. \A e \in execs : ~RetainedExecution(e)
      BY <1>c, RowFacts DEF IInv, RetainedExecutionIsReplayable
    <2>2. Acquire(r, d)
      BY <1>c DEF ReserveInsert
    <2>3. LockInv' /\ DraftInv' /\ AcquiredInv'
      BY <1>b, <1>c, <2>1, <2>2, AcquireInv DEF ReserveInsert
    <2>4. TypeOK'
      BY <1>b, <2>2 DEF ReserveInsert, Acquire, IInv, TypeOK
    <2> QED
      BY <2>3, <2>4
  <1>d. ASSUME row # NoRow
        PROVE  TypeOK' /\ LockInv' /\ DraftInv' /\ AcquiredInv'
    <2>1. TypeOK'
      BY <1>d DEF ReserveInsert, IInv, TypeOK
    <2>2. LockInv' /\ AcquiredInv'
      BY <1>d DEF ReserveInsert, IInv, TypeOK, LockInv, AcquiredInv
    <2>3. \A q \in Requests : holder = q => pc'[q] = pc[q]
      BY <1>d DEF ReserveInsert, IInv, TypeOK, LockInv
    <2>4. DraftInv'
      BY <1>d, <2>3 DEF ReserveInsert, IInv, DraftInv
    <2> QED
      BY <2>1, <2>2, <2>4
  <1>1. TypeOK' /\ LockInv' /\ DraftInv' /\ AcquiredInv'
    BY <1>c, <1>d
  <1>2. ReservationInv'
    BY DEF IInv, ReserveInsert, Acquire, TypeOK, ReservationInv
  <1>3. DoneInv'
    BY DEF IInv, ReserveInsert, Acquire, TypeOK, DoneInv, Executions
  <1>4. /\ RowInv'
        /\ NoReservationOutlivesItsTransaction'
        /\ RetainedExecutionIsReplayable'
        /\ OneExecutionPerRetention'
        /\ AnswersAreTrue'
    BY DEF IInv, ReserveInsert, RowInv, NoReservationOutlivesItsTransaction,
       RetainedExecutionIsReplayable, RetainedExecution, OneExecutionPerRetention,
       AnswersAreTrue
  <1> QED
    BY <1>1, <1>2, <1>3, <1>4 DEF IInv

\* Under the row lock: an expired or abandoned row is taken over when no
\* execution is retained, any other is answered from.
LEMMA ReserveLockKeeps ==
    ASSUME IInv, NEW r \in Requests, ReserveLock(r)
    PROVE  IInv'
  <1> DEFINE o == Outcome(res[r])
             of == IF o = "replay" THEN row.response ELSE Nil
             Disturbed == /\ TypeOK /\ LockInv /\ DraftInv /\ AcquiredInv
                          /\ DoneInv /\ AnswersAreTrue
  <1>1. /\ res[r] \in [hash: Hashes, owner: Requests \cup {Earlier}, now: Nat]
        /\ res[r].owner = r /\ res[r].now <= clock
        /\ row \in Rows
    BY DEF ReserveLock, IInv, TypeOK, ReservationInv
  <1>2. UNCHANGED <<clock, row, phase, res, execs>> /\ pc[r] = "lock" /\ holder = Nil
    BY DEF ReserveLock
  <1>3. ASSUME NEW d \in Rows, Acquire(r, d), UNCHANGED answer,
               d.state = "pending", d.owner = r, d.hash \in Hashes,
               d.expires = d.created + Retention,
               \A e \in execs : ~RetainedExecution(e)
        PROVE  Disturbed'
    <2>1. LockInv' /\ DraftInv' /\ AcquiredInv'
      BY <1>2, <1>3, AcquireInv
    <2>2. TypeOK'
      BY <1>2, <1>3 DEF IInv, TypeOK, Acquire
    <2>3. DoneInv'
      BY <1>2, <1>3 DEF IInv, TypeOK, DoneInv, Acquire, Executions
    <2>4. AnswersAreTrue'
      BY <1>2, <1>3 DEF IInv, AnswersAreTrue
    <2> QED
      BY <2>1, <2>2, <2>3, <2>4
  <1>4. ASSUME o = "acquired", Acquire(r, PendingRow(res[r])), UNCHANGED answer
        PROVE  Disturbed'
    <2>1. row # NoRow /\ row.expires <= res[r].now
      BY <1>4, OutcomeFacts
    <2>2. row.expires = row.created + Retention /\ row.expires \in Nat
      BY <1>1, <2>1 DEF IInv, RowInv, Rows
    <2>3. \A e \in execs : ~RetainedExecution(e)
      BY <1>1, <2>1, <2>2 DEF IInv, TypeOK, RetainedExecutionIsReplayable,
         RetainedExecution
    <2> DEFINE d == PendingRow(res[r])
    <2>4. d \in Rows /\ d.state = "pending" /\ d.owner = r /\ d.hash \in Hashes
          /\ d.expires = d.created + Retention
      BY <1>1, RowFacts
    <2> HIDE DEF d, Disturbed
    <2> QED
      BY <1>3, <1>4, <2>3, <2>4 DEF d
  <1>5. ASSUME o = "recovered", Acquire(r, recoverPending(res[r])), UNCHANGED answer
        PROVE  Disturbed'
    <2> DEFINE d == recoverPending(res[r])
    <2>1. row # NoRow /\ row.state = "pending" /\ execs = {}
      BY <1>5, OutcomeFacts DEF IInv, NoReservationOutlivesItsTransaction
    <2>2. row.hash \in Hashes /\ row.expires = row.created + Retention
      BY <2>1 DEF IInv, RowInv
    <2>3. d \in Rows /\ d.state = "pending" /\ d.owner = r /\ d.hash \in Hashes
          /\ d.expires = d.created + Retention
      <3>1. res[r].now + Lease \in Nat /\ res[r].owner \in Requests
        BY <1>1, IdempotencyAssumption
      <3>2. d \in Rows
        BY <1>1, <3>1 DEF recoverPending, Rows
      <3>3. /\ d.state = row.state /\ d.owner = r /\ d.hash = row.hash
            /\ d.expires = row.expires /\ d.created = row.created
        BY <1>1 DEF recoverPending, Rows
      <3> QED
        BY <2>1, <2>2, <3>2, <3>3
    <2> HIDE DEF d, Disturbed
    <2> QED
      BY <1>3, <1>5, <2>1, <2>3 DEF d
  <1>6. ASSUME NEW kind \in Kinds \ {"executed"}, NEW x \in Requests \cup {Nil},
               kind = "replay" => o = "replay" /\ x = row.response,
               Answer(r, kind, x), UNCHANGED <<holder, draft, acquired>>
        PROVE  Disturbed'
    <2>1. kind = "replay" =>
              \E e \in execs : /\ e.by = x
                               /\ e.hash = res[r].hash
                               /\ res[r].now < e.created + Retention
      BY <1>6, OutcomeFacts DEF IInv, RowInv
    <2>2. AnswersAreTrue' /\ DoneInv'
      BY <1>2, <1>6, <2>1, AnswerTrue
    <2>3. TypeOK'
      BY <1>2, <1>6, AnswerType DEF IInv, TypeOK
    <2>4. \A q \in Requests : holder' # q
      BY <1>2, <1>6, IdempotencyAssumption
    <2>5. pc' = [pc EXCEPT ![r] = "done"]
      BY <1>6 DEF Answer
    <2>6. LockInv'
      BY <1>2, <1>6, <2>5, IdempotencyAssumption DEF IInv, TypeOK, LockInv
    <2>7. DraftInv' /\ AcquiredInv'
      BY <1>2, <1>6, <2>4 DEF DraftInv, AcquiredInv
    <2> QED
      BY <2>2, <2>3, <2>6, <2>7
  <1>7. Disturbed'
    <2>1. CASE o \notin {"acquired", "recovered"}
      <3>1. o \in Kinds \ {"none", "executed"}
        BY <2>1, OutcomeFacts
      <3>2. row.response \in Requests \cup {Nil} /\ "error" \in Kinds \ {"executed"}
        BY <1>1 DEF Rows, Kinds
      <3>3. /\ Answer(r, o, of) \/ Answer(r, "error", Nil)
            /\ UNCHANGED <<holder, draft, acquired>>
        BY <2>1 DEF ReserveLock
      <3> HIDE DEF o, Disturbed
      <3> QED
        BY <1>6, <3>1, <3>2, <3>3
    <2> HIDE DEF Disturbed
    <2> QED
      BY <1>4, <1>5, <2>1 DEF ReserveLock
  <1>8. ReservationInv'
    <2>1. \A q \in Requests : pc'[q] # "idle" => pc[q] # "idle"
      BY <1>2 DEF ReserveLock, Acquire, Answer, IInv, TypeOK
    <2> QED
      BY <1>2, <2>1 DEF IInv, ReservationInv
  <1>9. RowInv' /\ NoReservationOutlivesItsTransaction' /\ OneExecutionPerRetention'
        /\ RetainedExecutionIsReplayable'
    BY <1>2 DEF IInv, RowInv, NoReservationOutlivesItsTransaction,
                OneExecutionPerRetention, RetainedExecutionIsReplayable, RetainedExecution
  <1> QED
    BY <1>7, <1>8, <1>9 DEF IInv

\* Completion changes only the holder's draft.
LEMMA RunSucceedsKeeps ==
    ASSUME IInv, NEW r \in Requests, RunSucceeds(r)
    PROVE  IInv'
  <1>1. TypeOK'
    <2>1. draft' \in Rows
      BY DEF IInv, TypeOK, Rows, States, RunSucceeds
    <2> QED
      BY <2>1 DEF IInv, TypeOK, RunSucceeds
  <1>2. ReservationInv'
    BY DEF IInv, RunSucceeds, TypeOK, ReservationInv
  <1>3. LockInv'
    BY DEF IInv, RunSucceeds, TypeOK, LockInv
  <1>4. DraftInv'
    BY DEF IInv, RunSucceeds, TypeOK, LockInv, DraftInv
  <1>5. DoneInv'
    BY DEF IInv, RunSucceeds, TypeOK, DoneInv, Executions
  <1>6. /\ RowInv'
        /\ AcquiredInv'
        /\ NoReservationOutlivesItsTransaction'
        /\ RetainedExecutionIsReplayable'
        /\ OneExecutionPerRetention'
        /\ AnswersAreTrue'
    BY DEF IInv, RunSucceeds, RowInv, AcquiredInv,
       NoReservationOutlivesItsTransaction, RetainedExecutionIsReplayable,
       RetainedExecution, OneExecutionPerRetention, AnswersAreTrue
  <1> QED
    BY <1>1, <1>2, <1>3, <1>4, <1>5, <1>6 DEF IInv

\* The rollback of a failed command gives the row back unchanged.
LEMMA RunFailsKeeps ==
    ASSUME IInv, NEW r \in Requests, RunFails(r)
    PROVE  IInv'
  <1>a. /\ pc' = [pc EXCEPT ![r] = "insert"]
        /\ phase' = [phase EXCEPT ![r] = "failure"]
    BY DEF IInv, TypeOK, RunFails
  <1>b. LockInv'
    BY <1>a, ReleaseLock DEF IInv, RunFails
  <1>c. DraftInv' /\ AcquiredInv'
    <2>1. phase[r] \in {"command", "failure"}
      BY DEF IInv, TypeOK
    <2> QED
      BY <1>a, <2>1, ReleaseDraft DEF RunFails
  <1>1. TypeOK'
    BY ReleaseType DEF IInv, RunFails, TypeOK
  <1>2. ReservationInv'
    BY DEF IInv, RunFails, Release, TypeOK, ReservationInv
  <1>3. LockInv'
    BY <1>b
  <1>4. DraftInv' /\ AcquiredInv'
    BY <1>c
  <1>5. DoneInv'
    BY DEF IInv, RunFails, Release, TypeOK, DoneInv, Executions
  <1>6. /\ RowInv'
        /\ NoReservationOutlivesItsTransaction'
        /\ RetainedExecutionIsReplayable'
        /\ OneExecutionPerRetention'
        /\ AnswersAreTrue'
    BY DEF IInv, RunFails, RowInv, NoReservationOutlivesItsTransaction,
       RetainedExecutionIsReplayable, RetainedExecution, OneExecutionPerRetention,
       AnswersAreTrue
  <1> QED
    BY <1>1, <1>2, <1>3, <1>4, <1>5, <1>6 DEF IInv

\* So does the rollback that leaves no trace.
LEMMA RunRetryableKeeps ==
    ASSUME IInv, NEW r \in Requests, RunRetryable(r)
    PROVE  IInv'
  <1>a. /\ pc' = [pc EXCEPT ![r] = "done"]
        /\ phase' = [phase EXCEPT ![r] = phase[r]]
    BY DEF IInv, TypeOK, RunRetryable, Answer
  <1>b. LockInv'
    BY <1>a, ReleaseLock DEF IInv, RunRetryable
  <1>c. DraftInv' /\ AcquiredInv'
    <2>1. phase[r] \in {"command", "failure"}
      BY DEF IInv, TypeOK
    <2> QED
      BY <1>a, <2>1, ReleaseDraft DEF RunRetryable
  <1>1. TypeOK'
    BY AnswerType, ReleaseType DEF IInv, RunRetryable, TypeOK, Kinds
  <1>2. ReservationInv'
    BY DEF IInv, RunRetryable, Release, Answer, TypeOK, ReservationInv
  <1>3. LockInv'
    BY <1>b
  <1>4. DraftInv' /\ AcquiredInv'
    BY <1>c
  <1>5. DoneInv' /\ AnswersAreTrue'
    BY AnswerTrue DEF RunRetryable, Kinds
  <1>6. /\ RowInv'
        /\ NoReservationOutlivesItsTransaction'
        /\ RetainedExecutionIsReplayable'
        /\ OneExecutionPerRetention'
    BY DEF IInv, RunRetryable, RowInv, NoReservationOutlivesItsTransaction,
       RetainedExecutionIsReplayable, RetainedExecution, OneExecutionPerRetention
  <1> QED
    BY <1>1, <1>2, <1>3, <1>4, <1>5, <1>6 DEF IInv

\* The failure record changes only the holder's draft.
LEMMA FailKeeps ==
    ASSUME IInv, NEW r \in Requests, Fail(r)
    PROVE  IInv'
  <1>1. TypeOK'
    <2>1. draft' \in Rows
      BY DEF IInv, TypeOK, Rows, States, Fail
    <2> QED
      BY <2>1 DEF IInv, TypeOK, Fail
  <1>2. ReservationInv'
    BY DEF IInv, Fail, TypeOK, ReservationInv
  <1>3. LockInv'
    BY DEF IInv, Fail, TypeOK, LockInv
  <1>4. DraftInv'
    BY DEF IInv, Fail, TypeOK, LockInv, DraftInv
  <1>5. DoneInv'
    BY DEF IInv, Fail, TypeOK, DoneInv, Executions
  <1>6. /\ RowInv'
        /\ AcquiredInv'
        /\ NoReservationOutlivesItsTransaction'
        /\ RetainedExecutionIsReplayable'
        /\ OneExecutionPerRetention'
        /\ AnswersAreTrue'
    BY DEF IInv, Fail, RowInv, AcquiredInv, NoReservationOutlivesItsTransaction,
       RetainedExecutionIsReplayable, RetainedExecution, OneExecutionPerRetention,
       AnswersAreTrue
  <1> QED
    BY <1>1, <1>2, <1>3, <1>4, <1>5, <1>6 DEF IInv

\* A commit makes the draft and the execution durable together.  The retention of
\* every earlier execution was over when the row was acquired, so the draft may
\* take the place of the row.
LEMMA CommitKeeps ==
    ASSUME IInv, NEW r \in Requests, Commit(r)
    PROVE  IInv'
  <1> DEFINE mine == [by |-> r, hash |-> draft.hash, created |-> draft.created,
                      at |-> acquired]
             new == IF phase[r] = "command" THEN {mine} ELSE {}
  <1>1. /\ holder = r /\ draft \in Rows /\ draft.hash \in Hashes
        /\ draft.expires = draft.created + Retention /\ acquired <= clock
        /\ phase[r] = "command" => draft.state = "completed" /\ draft.response = r
        /\ phase[r] = "failure" => draft.state = "failed"
        /\ phase[r] \in {"command", "failure"}
        /\ \A e \in execs : e.created + Retention <= acquired
    BY IdempotencyAssumption DEF Commit, IInv, TypeOK, LockInv, DraftInv, AcquiredInv
  <1>2. /\ execs' = execs \cup new /\ row' = draft /\ holder' = Nil
        /\ pc' = [pc EXCEPT ![r] = "done"] /\ pc[r] = "commit" /\ Release(r)
        /\ UNCHANGED <<clock, phase, res>>
    BY <1>1 DEF Commit, Release, Answer
  <1>3. mine \in Executions
    BY <1>1 DEF IInv, TypeOK, Rows, Executions
  <1>4. \A e \in execs : e.by # r
    BY <1>2 DEF IInv, DoneInv
  <1>5. TypeOK'
    <2>1. execs' \subseteq Executions
      BY <1>2, <1>3 DEF IInv, TypeOK
    <2>2. /\ pc' \in [Requests -> {"idle", "insert", "lock", "owned", "commit", "done"}]
          /\ answer' \in [Requests -> [kind: Kinds, of: Requests \cup {Nil}]]
      BY AnswerType DEF Commit, IInv, Kinds
    <2> QED
      BY <1>1, <1>2, <2>1, <2>2, ReleaseType DEF IInv, TypeOK
  <1>6. ReservationInv'
    BY <1>2 DEF IInv, TypeOK, ReservationInv
  <1>7. LockInv'
    BY <1>2, ReleaseLock DEF IInv
  <1>8. DraftInv' /\ AcquiredInv'
    BY <1>2, IdempotencyAssumption DEF DraftInv, AcquiredInv
  <1>9. RowInv'
    <2>1. draft.state = "completed" => mine \in execs' /\ draft.response = r
      BY <1>1, <1>2
    <2>2. draft.state # "absent"
      BY <1>1
    <2> QED
      BY <1>1, <1>2, <2>1, <2>2 DEF RowInv
  <1>10. DoneInv'
    <2>1. \A q \in Requests \ {r} : answer'[q] = answer[q] /\ pc'[q] = pc[q]
      BY DEF Commit, Answer, IInv, TypeOK
    <2>2. pc'[r] = "done"
      BY <1>2 DEF IInv, TypeOK
    <2>3. \A e \in execs' : e.by = r \/ e \in execs
      BY <1>2
    <2> QED
      BY <1>4, <2>1, <2>2, <2>3 DEF IInv, TypeOK, DoneInv, Executions
  <1>11. NoReservationOutlivesItsTransaction'
    BY <1>1, <1>2 DEF NoReservationOutlivesItsTransaction
  <1>12. RetainedExecutionIsReplayable'
    <2>1. \A e \in execs : ~RetainedExecution(e)'
      BY <1>1, <1>2, IdempotencyAssumption
         DEF RetainedExecution, IInv, TypeOK, Executions
    <2>2. \A e \in execs' : e \in execs \/ (e = mine /\ phase[r] = "command")
      BY <1>2
    <2> QED
      BY <1>1, <1>2, <2>1, <2>2 DEF RetainedExecutionIsReplayable
  <1>13. OneExecutionPerRetention'
    <2>1. \A e \in execs' : e \in execs \/ e = mine
      BY <1>2
    <2>2. \A e \in execs : mine.at >= e.created + Retention /\ mine.by # e.by
      BY <1>1, <1>4, IdempotencyAssumption DEF IInv, TypeOK, Executions
    <2> HIDE DEF mine
    <2> QED
      BY <2>1, <2>2 DEF IInv, OneExecutionPerRetention
  <1>14. AnswersAreTrue'
    <2>1. \A q \in Requests \ {r} : answer'[q] = answer[q]
      BY DEF Commit, Answer, IInv, TypeOK
    <2>2. /\ answer'[r].kind \in {"executed", "error"}
          /\ answer'[r].kind = "executed" => phase[r] = "command"
      BY DEF Commit, Answer, IInv, TypeOK
    <2>3. phase[r] = "command" => mine \in execs' /\ mine.by = r
      BY <1>2
    <2>4. \A q \in Requests \ {r} :
              {e \in execs' : e.by = q} = {e \in execs : e.by = q}
      BY <1>2
    <2>5. execs \subseteq execs'
      BY <1>2
    <2> QED
      BY <1>2, <2>1, <2>2, <2>3, <2>4, <2>5 DEF IInv, AnswersAreTrue
  <1> QED
    BY <1>5, <1>6, <1>7, <1>8, <1>9, <1>10, <1>11, <1>12, <1>13, <1>14 DEF IInv

\* A commit that fails is a rollback.
LEMMA CommitLostKeeps ==
    ASSUME IInv, NEW r \in Requests, CommitLost(r)
    PROVE  IInv'
  <1>a. /\ pc' = [pc EXCEPT ![r] = "done"]
        /\ phase' = [phase EXCEPT ![r] = phase[r]]
    BY DEF IInv, TypeOK, CommitLost, Answer
  <1>b. LockInv'
    BY <1>a, ReleaseLock DEF IInv, CommitLost
  <1>c. DraftInv' /\ AcquiredInv'
    <2>1. phase[r] \in {"command", "failure"}
      BY DEF IInv, TypeOK
    <2> QED
      BY <1>a, <2>1, ReleaseDraft DEF CommitLost
  <1>1. TypeOK'
    BY AnswerType, ReleaseType DEF IInv, CommitLost, TypeOK, Kinds
  <1>2. ReservationInv'
    BY DEF IInv, CommitLost, Release, Answer, TypeOK, ReservationInv
  <1>3. LockInv'
    BY <1>b
  <1>4. DraftInv' /\ AcquiredInv'
    BY <1>c
  <1>5. DoneInv' /\ AnswersAreTrue'
    BY AnswerTrue DEF CommitLost, Kinds
  <1>6. /\ RowInv'
        /\ NoReservationOutlivesItsTransaction'
        /\ RetainedExecutionIsReplayable'
        /\ OneExecutionPerRetention'
    BY DEF IInv, CommitLost, RowInv, NoReservationOutlivesItsTransaction,
       RetainedExecutionIsReplayable, RetainedExecution, OneExecutionPerRetention
  <1> QED
    BY <1>1, <1>2, <1>3, <1>4, <1>5, <1>6 DEF IInv

\* A crash is a rollback without an answer.
LEMMA CrashKeeps ==
    ASSUME IInv, NEW r \in Requests, Crash(r)
    PROVE  IInv'
  <1>a. /\ pc' = [pc EXCEPT ![r] = "done"]
        /\ phase' = [phase EXCEPT ![r] = phase[r]]
    BY DEF IInv, TypeOK, Crash
  <1>b. LockInv'
    BY <1>a, ReleaseLock DEF IInv, Crash
  <1>c. DraftInv' /\ AcquiredInv'
    <2>1. phase[r] \in {"command", "failure"}
      BY DEF IInv, TypeOK
    <2> QED
      BY <1>a, <2>1, ReleaseDraft DEF Crash
  <1>1. TypeOK'
    BY ReleaseType DEF IInv, Crash, TypeOK
  <1>2. ReservationInv'
    BY DEF IInv, Crash, Release, TypeOK, ReservationInv
  <1>3. LockInv'
    BY <1>b
  <1>4. DraftInv' /\ AcquiredInv'
    BY <1>c
  <1>5. DoneInv'
    BY DEF IInv, Crash, Release, TypeOK, DoneInv, Executions
  <1>6. /\ RowInv'
        /\ NoReservationOutlivesItsTransaction'
        /\ RetainedExecutionIsReplayable'
        /\ OneExecutionPerRetention'
        /\ AnswersAreTrue'
    BY DEF IInv, Crash, RowInv, NoReservationOutlivesItsTransaction,
       RetainedExecutionIsReplayable, RetainedExecution, OneExecutionPerRetention,
       AnswersAreTrue
  <1> QED
    BY <1>1, <1>2, <1>3, <1>4, <1>5, <1>6 DEF IInv

\* The sweep deletes only a row whose retention, and so that of every execution,
\* is over.
LEMMA DeleteExpiredKeeps ==
    ASSUME IInv, DeleteExpired
    PROVE  IInv'
  <1>1. TypeOK'
    BY RowFacts DEF IInv, DeleteExpired, TypeOK
  <1>2. RowInv'
    BY RowFacts DEF DeleteExpired, RowInv
  <1>3. NoReservationOutlivesItsTransaction'
    BY RowFacts DEF DeleteExpired, NoReservationOutlivesItsTransaction
  <1>4. RetainedExecutionIsReplayable'
    <2>1. row # NoRow /\ row.expires <= clock /\ row.expires \in Nat /\ clock \in Nat
      BY DEF DeleteExpired, IInv, TypeOK, Rows
    <2>2. row.expires = row.created + Retention
      BY <2>1 DEF IInv, RowInv
    <2>3. \A e \in execs : ~RetainedExecution(e)
      BY <2>1, <2>2 DEF IInv, RetainedExecutionIsReplayable, RetainedExecution
    <2> QED
      BY <2>3 DEF DeleteExpired, RetainedExecutionIsReplayable, RetainedExecution
  <1>5. /\ ReservationInv'
        /\ LockInv'
        /\ DraftInv'
        /\ AcquiredInv'
        /\ DoneInv'
        /\ OneExecutionPerRetention'
        /\ AnswersAreTrue'
    BY DEF IInv, DeleteExpired, ReservationInv, LockInv, DraftInv, AcquiredInv,
       DoneInv, OneExecutionPerRetention, AnswersAreTrue
  <1> QED
    BY <1>1, <1>2, <1>3, <1>4, <1>5 DEF IInv

\* Time only ends retentions.
LEMMA TickKeeps ==
    ASSUME IInv, Tick
    PROVE  IInv'
  <1>1. TypeOK'
    BY DEF IInv, Tick, TypeOK
  <1>2. ReservationInv'
    BY DEF IInv, Tick, TypeOK, ReservationInv
  <1>3. AcquiredInv'
    BY DEF IInv, Tick, TypeOK, AcquiredInv
  <1>4. RetainedExecutionIsReplayable'
    <2>1. \A e \in execs : RetainedExecution(e)' => RetainedExecution(e)
      BY IdempotencyAssumption DEF RetainedExecution, Tick, IInv, TypeOK, Executions
    <2> QED
      BY <2>1 DEF IInv, Tick, RetainedExecutionIsReplayable
  <1>5. /\ LockInv'
        /\ RowInv'
        /\ DraftInv'
        /\ DoneInv'
        /\ NoReservationOutlivesItsTransaction'
        /\ OneExecutionPerRetention'
        /\ AnswersAreTrue'
    BY DEF IInv, Tick, LockInv, RowInv, DraftInv, DoneInv,
       NoReservationOutlivesItsTransaction, OneExecutionPerRetention,
       AnswersAreTrue
  <1> QED
    BY <1>1, <1>2, <1>3, <1>4, <1>5 DEF IInv

-----------------------------------------------------------------------------
(* The theorems                                                            *)

\* The invariant holds of a new key and of one an earlier process left pending.
LEMMA InitIInv == Init => IInv
  <1> SUFFICES ASSUME Init PROVE IInv
    OBVIOUS
  <1>1. row = NoRow \/ \E h \in Hashes :
            row = PendingRow([hash |-> h, owner |-> Earlier, now |-> 0])
    BY DEF Init, newIdempotencyReservation
  <1>2. /\ row \in Rows
        /\ row # NoRow => row.state # "absent" /\ row.hash \in Hashes
                          /\ row.expires = row.created + Retention
        /\ row.state # "completed"
        /\ row.state = "pending" => row.owner = Earlier
    BY <1>1, RowFacts
  <1>3. TypeOK
    BY <1>2, RowFacts DEF Init, TypeOK, NoAnswer, Kinds
  <1>4. ReservationInv /\ LockInv /\ DraftInv /\ AcquiredInv /\ DoneInv
    BY IdempotencyAssumption
       DEF Init, ReservationInv, LockInv, DraftInv, AcquiredInv, DoneInv
  <1>5. RowInv /\ NoReservationOutlivesItsTransaction
    BY <1>2 DEF Init, RowInv, NoReservationOutlivesItsTransaction
  <1>6. RetainedExecutionIsReplayable /\ OneExecutionPerRetention
    BY DEF Init, RetainedExecutionIsReplayable, OneExecutionPerRetention
  <1>7. AnswersAreTrue
    BY DEF Init, AnswersAreTrue, NoAnswer
  <1> QED
    BY <1>3, <1>4, <1>5, <1>6, <1>7 DEF IInv

\* Nothing changes in a stuttering step.
LEMMA StutterKeeps ==
    ASSUME IInv, UNCHANGED vars
    PROVE  IInv'
  BY DEF IInv, vars, TypeOK, ReservationInv, LockInv, RowInv, DraftInv,
         AcquiredInv, DoneInv, NoReservationOutlivesItsTransaction,
         RetainedExecutionIsReplayable, RetainedExecution,
         OneExecutionPerRetention, AnswersAreTrue

\* Every step keeps the invariant.
LEMMA NextIInv == IInv /\ [Next]_vars => IInv'
  <1> SUFFICES ASSUME IInv, [Next]_vars PROVE IInv'
    OBVIOUS
  <1>1. ASSUME NEW r \in Requests, Step(r)
        PROVE  IInv'
    BY <1>1, RefuseKeeps, ReserveInsertKeeps, ReserveLockKeeps, RunSucceedsKeeps,
       RunFailsKeeps, RunRetryableKeeps, FailKeeps, CommitKeeps, CommitLostKeeps
       DEF Step
  <1> QED
    BY <1>1, RequestKeeps, CrashKeeps, DeleteExpiredKeeps, TickKeeps, StutterKeeps
       DEF Next

\* The invariant above holds in every reachable state.
THEOREM Inductive == Spec => []IInv
  BY InitIInv, NextIInv, PTL DEF Spec

\* The row, the draft and the attempts of one key stay well-formed.
THEOREM TypeCorrect == Spec => []TypeOK
  <1>1. IInv => TypeOK
    BY DEF IInv
  <1> QED
    BY <1>1, Inductive, PTL

\* As long as an execution is retained, the row of its key replays it: no late
\* persistFailure, takeover, replacement or sweep hides it.
THEOREM StaysReplayable == Spec => []RetainedExecutionIsReplayable
  <1>1. IInv => RetainedExecutionIsReplayable
    BY DEF IInv
  <1> QED
    BY <1>1, Inductive, PTL

\* The effects of a command become durable at most once per retention of its key,
\* whatever attempts overlap, crash, time out or fail to learn of their commit.
THEOREM ExecutesOnce == Spec => []OneExecutionPerRetention
  <1>1. IInv => OneExecutionPerRetention
    BY DEF IInv
  <1> QED
    BY <1>1, Inductive, PTL

\* Every answer of withReservation to a client agrees with what is durable.
THEOREM TellsTheTruth == Spec => []AnswersAreTrue
  <1>1. IInv => AnswersAreTrue
    BY DEF IInv
  <1> QED
    BY <1>1, Inductive, PTL

\* No transaction of withReservation or persistFailure ever commits a pending row.
THEOREM LeavesNoLease == Spec => []NoReservationOutlivesItsTransaction
  <1>1. IInv => NoReservationOutlivesItsTransaction
    BY DEF IInv
  <1> QED
    BY <1>1, Inductive, PTL

=============================================================================
