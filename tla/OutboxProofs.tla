---------------------------- MODULE OutboxProofs ----------------------------
(***************************************************************************)
(* Proofs about Outbox for every set of jobs, workers and tokens, every    *)
(* attempt budget and every batch size.                                    *)
(***************************************************************************)
EXTENDS Outbox, TLAPS

-----------------------------------------------------------------------------
(* Type correctness                                                        *)

\* Decide keeps the worker's local state well-typed, whatever it decides.
LEMMA DecideType ==
    ASSUME TypeOK, NEW w \in Workers, NEW r \in Result, Decide(w, r)
    PROVE  /\ current' \in [Workers -> SUBSET Claim]
           /\ stage' \in [Workers -> {"between", "started", "loaded", "decided"}]
           /\ result' \in [Workers -> Result]
  BY DEF TypeOK, Decide

\* Rows created by Enqueue and ReplayTerminalJob.
LEMMA QueuedRow == [AbsentRow EXCEPT !.status = "queued", !.due = TRUE] \in Row
  BY DEF AbsentRow, Row, Status, Active

\* The acknowledgements write well-formed rows and attempt records.
LEMMA OutcomeType ==
    ASSUME TypeOK, NEW w \in Workers, NEW c \in Claim, Outcome(w, c)
    PROVE  /\ row' \in [Jobs -> Row]
           /\ history' \in [Jobs -> AttemptRecord]
  <1>1. c.job \in Jobs /\ row[c.job] \in Row /\ row[c.job].attempts \in Nat
    BY DEF TypeOK, Claim, Row
  <1>2. CASE CompleteJob(c)
    BY <1>1, <1>2 DEF CompleteJob, TypeOK, Row, Status, Released, Record, Entry, AttemptRecord
  <1>3. CASE DeferJob(c)
    <2>1. row[c.job].attempts - 1 \in Nat
      BY <1>1, <1>3 DEF DeferJob
    <2>2. history' \in [Jobs -> AttemptRecord]
      BY <1>1, <1>3 DEF DeferJob, TypeOK, AttemptRecord, Record, Entry
    <2>3. row' \in [Jobs -> Row]
      BY <1>1, <1>3, <2>1 DEF DeferJob, TypeOK, Row, Status, Active, Released
    <2> QED BY <2>2, <2>3
  <1>4. ASSUME NEW r, FailJob(c, r)
        PROVE  /\ row' \in [Jobs -> Row]
               /\ history' \in [Jobs -> AttemptRecord]
    BY <1>1, <1>4 DEF FailJob, FailRow, TypeOK, Row, Status, Active, Released, Record, Entry, AttemptRecord
  <1> QED
    BY <1>2, <1>3, <1>4 DEF Outcome

\* One step of a worker on a claim it holds.
LEMMA ProcessType ==
    ASSUME TypeOK, NEW w \in Workers, NEW c \in Held(w),
           \/ StartJob(w, c)
           \/ LoadState(w, c)
           \/ \E confirmed \in BOOLEAN : ApplyClaimed(w, c, confirmed)
           \/ FinalizePayload(w, c)
           \/ Acknowledge(w, c)
           \/ AcknowledgeLost(w, c)
    PROVE  TypeOK'
  <1>0. c \in Claim /\ c.job \in Jobs
    BY DEF Held, TypeOK, Claim
  <1> USE DEF TypeOK
  <1>1. CASE StartJob(w, c)
    BY <1>0, <1>1 DEF StartJob, dbVars
  <1>2. CASE LoadState(w, c)
    <2>1. \/ \E r \in Result : Decide(w, r)
          \/ /\ stage' = [stage EXCEPT ![w] = "loaded"]
             /\ UNCHANGED <<current, result>>
      BY <1>2 DEF LoadState, Result
    <2>2. /\ current' \in [Workers -> SUBSET Claim]
          /\ stage' \in [Workers -> {"between", "started", "loaded", "decided"}]
          /\ result' \in [Workers -> Result]
      BY <2>1, DecideType
    <2> QED
      BY <1>2, <2>2 DEF LoadState, dbVars
  <1>3. ASSUME NEW confirmed \in BOOLEAN, ApplyClaimed(w, c, confirmed)
        PROVE  TypeOK'
    <2>1. /\ effect' \in [Jobs -> Nat]
          /\ \E r \in Result : Decide(w, r)
      BY <1>0, <1>3 DEF ApplyClaimed, Result
    <2> QED
      BY <1>3, <2>1, DecideType DEF ApplyClaimed
  <1>4. CASE FinalizePayload(w, c)
    <2>1. /\ effect' \in [Jobs -> Nat]
          /\ \E r \in Result : Decide(w, r)
      BY <1>0, <1>4 DEF FinalizePayload, Result
    <2> QED
      BY <1>4, <2>1, DecideType DEF FinalizePayload
  <1>5. CASE Acknowledge(w, c)
    BY <1>0, <1>5, OutcomeType DEF Acknowledge, LeaveJob, Result
  <1>6. CASE AcknowledgeLost(w, c)
    BY <1>6 DEF AcknowledgeLost, LeaveJob, dbVars, Result
  <1> QED
    BY <1>1, <1>2, <1>3, <1>4, <1>5, <1>6

\* A claim writes well-formed rows, records and batches.
LEMMA ClaimType ==
    ASSUME TypeOK, NEW w \in Workers, NEW S \in SUBSET Claimable,
           NEW delivered \in BOOLEAN, ClaimJobs(w, S, delivered)
    PROVE  TypeOK'
  <1> USE DEF TypeOK
  <1>1. S \subseteq Jobs /\ \A j \in Jobs : row[j] \in Row /\ row[j].attempts \in Nat
    BY DEF Claimable, Row
  <1>2. \A j \in S : NewToken(j) \in Tokens
    BY DEF ClaimJobs, NewToken
  <1>3. \A j \in S : Claimed(j) \in Row
    BY <1>1, <1>2 DEF Claimed, Row, Status, Active
  <1>4. \A j \in Jobs : Released(j, "dead_letter") \in Row
    BY <1>1 DEF Released, Row, Status
  <1>5. row' \in [Jobs -> Row]
    BY <1>1, <1>3, <1>4 DEF ClaimJobs
  <1>6. history' \in [Jobs -> AttemptRecord]
    BY <1>1 DEF ClaimJobs, AttemptRecord, Entry
  <1>7. batch' \in [Workers -> SUBSET Claim]
    BY <1>1, <1>2 DEF ClaimJobs, Claim
  <1> QED
    BY <1>5, <1>6, <1>7 DEF ClaimJobs

\* Jobs \X Jobs bounds the run_after order whatever rows move last.
LEMMA MoveLastType ==
    ASSUME TypeOK, NEW S \in SUBSET Jobs
    PROVE  MoveLast(S) \subseteq Jobs \X Jobs
  BY DEF MoveLast, TypeOK

\* TypeOK is inductive.
LEMMA TypeStep == TypeOK /\ [Next]_vars => TypeOK'
  <1> SUFFICES ASSUME TypeOK, [Next]_vars
               PROVE  TypeOK'
    OBVIOUS
  <1> USE DEF TypeOK
  <1>1. ASSUME NEW S \in Commands, Enqueue(S)
        PROVE  TypeOK'
    <2>1. S \subseteq Jobs
      BY OutboxAssumption
    <2>2. row' \in [Jobs -> Row]
      BY <1>1, QueuedRow DEF Enqueue
    <2>3. before' \subseteq Jobs \X Jobs
      BY <1>1, <2>1, MoveLastType DEF Enqueue
    <2>4. preceding' \in [Jobs -> SUBSET Jobs]
      BY <1>1, OutboxAssumption DEF Enqueue
    <2> QED
      BY <1>1, <2>2, <2>3, <2>4 DEF Enqueue, workerVars
  <1>2. ASSUME NEW j \in Jobs, ReplayTerminalJob(j)
        PROVE  TypeOK'
    <2>1. row' \in [Jobs -> Row] /\ history' \in [Jobs -> AttemptRecord]
      BY <1>2, QueuedRow DEF ReplayTerminalJob, Record, Entry, AttemptRecord
    <2> QED
      BY <1>2, <2>1, MoveLastType DEF ReplayTerminalJob, workerVars
  <1>3. ASSUME NEW j \in Jobs, BecomeDue(j)
        PROVE  TypeOK'
    <2>1. row' \in [Jobs -> Row]
      BY ZenonT(60), <1>3 DEF BecomeDue, Row
    <2> QED
      BY <1>3, <2>1, MoveLastType DEF BecomeDue, workerVars
  <1>4. ASSUME NEW j \in Jobs, ExpireLease(j)
        PROVE  TypeOK'
    BY <1>4 DEF ExpireLease, Row, workerVars
  <1>5. ASSUME NEW w \in Workers, ClaimStep(w)
        PROVE  TypeOK'
    BY <1>5, ClaimType DEF ClaimStep
  <1>6. ASSUME NEW w \in Workers, Process(w)
        PROVE  TypeOK'
    BY <1>6, ProcessType DEF Process
  <1>7. ASSUME NEW w \in Workers, NEW r \in Result, ProcessFails(w, r)
        PROVE  TypeOK'
    BY <1>7, DecideType DEF ProcessFails, dbVars
  <1>8. ASSUME NEW w \in Workers, Signal(w)
        PROVE  TypeOK'
    BY <1>8 DEF Signal, dbVars
  <1>9. ASSUME NEW w \in Workers, Exit(w)
        PROVE  TypeOK'
    BY <1>9 DEF Exit, dbVars, Result
  <1>10. CASE UNCHANGED vars
    BY <1>10 DEF vars
  <1> QED
    BY <1>1, <1>2, <1>3, <1>4, <1>5, <1>6, <1>7, <1>8, <1>9, <1>10 DEF Next

\* Every reachable table and process state is well-formed, for every instance.
THEOREM TypeCorrect == Spec => []TypeOK
  <1>1. Init => TypeOK
    BY DEF Init, TypeOK, AbsentRow, Row, Status, Entry, AttemptRecord, Result, Claim
  <1> QED
    BY <1>1, TypeStep, PTL DEF Spec

-----------------------------------------------------------------------------
(* Rows, attempt budget and attempt history                                *)

\* A row carries a token exactly while it is running.
RowLeases == \A j \in Jobs : row[j].status = "running" <=> row[j].token # NoToken

\* What the rows and their newest attempt records satisfy together.
RowInv == AttemptBudget /\ HistoryExplainsRow /\ RowLeases

\* What RowInv says of one job, as a function of its row and newest record.
RowGood(r, h) ==
    /\ r.attempts <= MaxAttempts
    /\ r.status \in {"queued", "retrying"} => r.attempts < MaxAttempts
    /\ r.status = "running" => r.attempts > 0
    /\ r.status = "running" => h = Entry(r.attempts, "claimed")
    /\ r.status = "succeeded" => h = Entry(r.attempts, "succeeded")
    /\ r.status = "dead_letter" => h = Entry(r.attempts, "dead_letter")
    /\ r.status = "retrying" => h \in {Entry(r.attempts, "retrying"), Entry(r.attempts + 1, "deferred")}
    /\ r.status \in {"absent", "queued"} => h \in {Entry(0, "none"), Entry(0, "replayed")}
    /\ r.status = "running" <=> r.token # NoToken

\* RowInv says of every job exactly what RowGood says of its row and record.
LEMMA RowInvPointwise ==
    ASSUME TypeOK
    PROVE  RowInv <=> \A j \in Jobs : RowGood(row[j], history[j])
  <1>1. \A j \in Jobs : row[j].status \in Status
    BY DEF TypeOK, Row
  <1>2. HistoryExplainsRow <=>
          \A j \in Jobs :
            /\ row[j].status = "running" => history[j] = Entry(row[j].attempts, "claimed")
            /\ row[j].status = "succeeded" => history[j] = Entry(row[j].attempts, "succeeded")
            /\ row[j].status = "dead_letter" => history[j] = Entry(row[j].attempts, "dead_letter")
            /\ row[j].status = "retrying" =>
                 history[j] \in {Entry(row[j].attempts, "retrying"), Entry(row[j].attempts + 1, "deferred")}
            /\ row[j].status \in {"absent", "queued"} =>
                 history[j] \in {Entry(0, "none"), Entry(0, "replayed")}
    BY <1>1 DEF HistoryExplainsRow, Status, Active
  <1> QED
    BY <1>2 DEF RowInv, AttemptBudget, RowLeases, RowGood

\* Queued rows start a budget with nothing recorded in it.
LEMMA QueuedGood ==
    ASSUME NEW h \in {Entry(0, "none"), Entry(0, "replayed")}
    PROVE  RowGood([AbsentRow EXCEPT !.status = "queued", !.due = TRUE], h)
  BY OutboxAssumption DEF RowGood, AbsentRow

\* The acknowledgements keep the acknowledged row good.
LEMMA OutcomeGood ==
    ASSUME TypeOK, RowInv, NEW w \in Workers, NEW c \in Claim, Outcome(w, c)
    PROVE  \A j \in Jobs : RowGood(row'[j], history'[j])
  <1>1. /\ c.job \in Jobs /\ row[c.job] \in Row /\ row[c.job].attempts \in Nat
        /\ \A j \in Jobs : RowGood(row[j], history[j])
    BY RowInvPointwise DEF TypeOK, Claim, Row
  <1>2. CASE CompleteJob(c)
    BY <1>1, <1>2 DEF CompleteJob, OwnsLease, Released, Record, RowGood, TypeOK, Row
  <1>3. CASE DeferJob(c)
    <2>1. row[c.job].attempts > 0 /\ row[c.job].status = "running"
      BY <1>3 DEF DeferJob, LiveLease, OwnsLease
    <2>2. /\ row'[c.job].status = "retrying"
          /\ row'[c.job].attempts = row[c.job].attempts - 1
          /\ row'[c.job].token = NoToken
          /\ history'[c.job] = Entry(row[c.job].attempts, "deferred")
      BY <1>1, <1>3 DEF DeferJob, Released, Record, TypeOK, Row
    <2>3. (row[c.job].attempts - 1) + 1 = row[c.job].attempts
      BY <1>1
    <2>4. RowGood(row'[c.job], history'[c.job])
      BY <1>1, <2>1, <2>2, <2>3, OutboxAssumption DEF RowGood
    <2>5. \A j \in Jobs \ {c.job} : row'[j] = row[j] /\ history'[j] = history[j]
      BY <1>1, <1>3 DEF DeferJob, Record, TypeOK
    <2> QED
      BY <1>1, <2>4, <2>5
  <1>4. ASSUME NEW r, FailJob(c, r)
        PROVE  \A j \in Jobs : RowGood(row'[j], history'[j])
    <2>1. PICK status \in {"retrying", "dead_letter"} :
            /\ status = "retrying" => row[c.job].attempts < MaxAttempts
            /\ FailRow(c, status)
            /\ Record(c.job, row[c.job].attempts, status)
      BY <1>4 DEF FailJob
    <2>2. /\ row'[c.job].status = status
          /\ row'[c.job].attempts = row[c.job].attempts
          /\ row'[c.job].token = NoToken
          /\ history'[c.job] = Entry(row[c.job].attempts, status)
      BY <1>1, <2>1 DEF FailRow, Released, Record, TypeOK, Row
    <2>3. RowGood(row'[c.job], history'[c.job])
      BY <1>1, <2>1, <2>2 DEF RowGood
    <2>4. \A j \in Jobs \ {c.job} : row'[j] = row[j] /\ history'[j] = history[j]
      BY <1>1, <2>1 DEF FailRow, Record, TypeOK
    <2> QED
      BY <1>1, <2>3, <2>4
  <1> QED
    BY <1>2, <1>3, <1>4 DEF Outcome

\* Claiming keeps every row good: what it claims has an attempt left.
LEMMA ClaimGood ==
    ASSUME TypeOK, RowInv, NEW w \in Workers, NEW S \in SUBSET Claimable,
           NEW delivered \in BOOLEAN, ClaimJobs(w, S, delivered)
    PROVE  \A j \in Jobs : RowGood(row'[j], history'[j])
  <1> SUFFICES ASSUME NEW j \in Jobs
               PROVE  RowGood(row'[j], history'[j])
    OBVIOUS
  <1>1. row[j] \in Row /\ row[j].attempts \in Nat /\ RowGood(row[j], history[j])
    BY RowInvPointwise DEF TypeOK, Row
  <1>2. CASE j \in S
    <2>1. row[j].attempts < MaxAttempts
      BY <1>1, <1>2 DEF Claimable, RowGood
    <2>2. NewToken(j) \in Tokens
      BY <1>2 DEF ClaimJobs, NewToken
    <2>0. j \notin ExpiredFinal
      BY <1>1, <2>1, OutboxAssumption DEF ExpiredFinal
    <2>3. row'[j] = Claimed(j) /\ history'[j] = Entry(row[j].attempts + 1, "claimed")
      BY <1>2, <2>0 DEF ClaimJobs
    <2> QED
      BY <1>1, <2>1, <2>2, <2>3, OutboxAssumption DEF RowGood, Claimed
  <1>3. CASE j \notin S /\ j \in ExpiredFinal
    <2>1. row'[j] = Released(j, "dead_letter") /\ history'[j] = Entry(row[j].attempts, "dead_letter")
      BY <1>3 DEF ClaimJobs
    <2> QED
      BY <1>1, <2>1 DEF RowGood, Released, Row
  <1>4. CASE j \notin S /\ j \notin ExpiredFinal
    <2>1. row'[j] = row[j] /\ history'[j] = history[j]
      BY <1>4 DEF ClaimJobs
    <2> QED
      BY <1>1, <2>1
  <1> QED
    BY <1>2, <1>3, <1>4

\* RowInv is inductive relative to TypeOK.
LEMMA RowStep == TypeOK /\ RowInv /\ [Next]_vars => RowInv'
  <1> SUFFICES ASSUME TypeOK, RowInv, [Next]_vars
               PROVE  RowInv'
    OBVIOUS
  <1>0. TypeOK' /\ \A j \in Jobs : RowGood(row[j], history[j])
    BY TypeStep, RowInvPointwise
  <1>P. (TypeOK => (RowInv <=> \A j \in Jobs : RowGood(row[j], history[j])))'
    BY RowInvPointwise, PTL
  <1> SUFFICES \A j \in Jobs : RowGood(row'[j], history'[j])
    BY <1>0, <1>P
  <1>1. ASSUME NEW S \in Commands, Enqueue(S)
        PROVE  \A j \in Jobs : RowGood(row'[j], history'[j])
    <2> SUFFICES ASSUME NEW j \in Jobs
                 PROVE  RowGood(row'[j], history'[j])
      OBVIOUS
    <2>1. history' = history
      BY <1>1 DEF Enqueue
    <2>2. CASE row'[j] = row[j]
      BY <1>0, <2>1, <2>2
    <2>3. CASE /\ row[j].status = "absent"
               /\ row'[j] = [AbsentRow EXCEPT !.status = "queued", !.due = TRUE]
      BY <1>0, <2>1, <2>3, QueuedGood DEF RowGood
    <2> QED
      BY <1>1, <2>2, <2>3 DEF Enqueue
  <1>2. ASSUME NEW k \in Jobs, ReplayTerminalJob(k)
        PROVE  \A j \in Jobs : RowGood(row'[j], history'[j])
    BY <1>0, <1>2, QueuedGood DEF ReplayTerminalJob, Record, TypeOK
  <1>3. ASSUME NEW k \in Jobs, BecomeDue(k)
        PROVE  \A j \in Jobs : RowGood(row'[j], history'[j])
    BY <1>0, <1>3 DEF BecomeDue, RowGood, TypeOK, Row
  <1>4. ASSUME NEW k \in Jobs, ExpireLease(k)
        PROVE  \A j \in Jobs : RowGood(row'[j], history'[j])
    BY <1>0, <1>4 DEF ExpireLease, RowGood, TypeOK, Row
  <1>5. ASSUME NEW w \in Workers, ClaimStep(w)
        PROVE  \A j \in Jobs : RowGood(row'[j], history'[j])
    BY <1>5, ClaimGood DEF ClaimStep
  <1>6. ASSUME NEW w \in Workers, Process(w)
        PROVE  \A j \in Jobs : RowGood(row'[j], history'[j])
    <2>1. PICK c \in Held(w) :
            \/ StartJob(w, c) \/ LoadState(w, c)
            \/ \E confirmed \in BOOLEAN : ApplyClaimed(w, c, confirmed)
            \/ FinalizePayload(w, c) \/ Acknowledge(w, c) \/ AcknowledgeLost(w, c)
      BY <1>6 DEF Process
    <2>2. c \in Claim
      BY <2>1 DEF Held, TypeOK
    <2>3. CASE Acknowledge(w, c)
      BY <2>2, <2>3, OutcomeGood DEF Acknowledge
    <2>4. CASE UNCHANGED <<row, history>>
      BY <1>0, <2>4
    <2> QED
      BY <2>1, <2>3, <2>4
      DEF StartJob, LoadState, ApplyClaimed, FinalizePayload, AcknowledgeLost, dbVars
  <1>7. CASE UNCHANGED <<row, history>>
    BY <1>0, <1>7
  <1> QED
    BY <1>1, <1>2, <1>3, <1>4, <1>5, <1>6, <1>7
    DEF Next, ProcessFails, Signal, Exit, dbVars, vars

-----------------------------------------------------------------------------
(* What was uploaded                                                       *)

\* Claims, effects and the scans noted as uploaded belong to rows that exist.
UploadInv ==
    /\ \A w \in Workers : \A c \in Held(w) : row[c.job].status # "absent"
    /\ \A j \in Jobs : effect[j] > 0 => row[j].status # "absent"
    /\ \A j \in Jobs : \A d \in preceding[j] : d \in Awaits[j] /\ row[d].status # "absent"

\* What every acknowledgement has in common: it closes the running attempt.
LEMMA OutcomeRow ==
    ASSUME TypeOK, NEW w \in Workers, NEW c \in Claim, Outcome(w, c)
    PROVE  /\ c.job \in Jobs /\ row[c.job].status = "running"
           /\ row'[c.job].status \in {"succeeded", "retrying", "dead_letter"}
           /\ row'[c.job].status = "succeeded" => result[w] = "ok"
           /\ \A j \in Jobs \ {c.job} : row'[j] = row[j] /\ history'[j] = history[j]
           /\ history'[c.job].attempt = row[c.job].attempts
  <1>1. c.job \in Jobs /\ row[c.job] \in Row
    BY DEF TypeOK, Claim
  <1>2. CASE result[w] = "ok" /\ CompleteJob(c)
    BY <1>1, <1>2 DEF CompleteJob, OwnsLease, Released, Record, Entry, TypeOK, Row
  <1>3. CASE DeferJob(c)
    BY <1>1, <1>3 DEF DeferJob, LiveLease, OwnsLease, Released, Record, Entry, TypeOK, Row
  <1>4. ASSUME NEW status \in {"retrying", "dead_letter"}, FailRow(c, status),
               Record(c.job, row[c.job].attempts, status)
        PROVE  /\ row[c.job].status = "running"
               /\ row'[c.job].status = status
               /\ \A j \in Jobs \ {c.job} : row'[j] = row[j] /\ history'[j] = history[j]
               /\ history'[c.job].attempt = row[c.job].attempts
    BY <1>1, <1>4 DEF FailRow, OwnsLease, Released, Record, Entry, TypeOK, Row
  <1>5. ASSUME FailJob(c, result[w])
        PROVE  \E status \in {"retrying", "dead_letter"} :
                   FailRow(c, status) /\ Record(c.job, row[c.job].attempts, status)
    BY <1>5 DEF FailJob
  <1> QED
    BY <1>1, <1>2, <1>3, <1>4, <1>5 DEF Outcome

\* Time changes neither a row's status nor its token.
LEMMA TimeKeepsStatus ==
    ASSUME TypeOK, NEW k \in Jobs, BecomeDue(k) \/ ExpireLease(k), NEW j \in Jobs
    PROVE  row'[j].status = row[j].status /\ row'[j].token = row[j].token
  <1>1. row \in [Jobs -> Row]
    BY DEF TypeOK
  <1>2. CASE BecomeDue(k)
    <2>1. row' = [row EXCEPT ![k].due = TRUE]
      BY <1>2 DEF BecomeDue
    <2> QED
      BY <1>1, <2>1 DEF Row
  <1>3. CASE ExpireLease(k)
    <2>1. row' = [row EXCEPT ![k].lease = "expired"]
      BY <1>3 DEF ExpireLease
    <2> QED
      BY <1>1, <2>1 DEF Row
  <1> QED
    BY <1>2, <1>3

\* No statement deletes a row.
LEMMA RowsStay ==
    ASSUME TypeOK, [Next]_vars, NEW j \in Jobs, row[j].status # "absent"
    PROVE  row'[j].status # "absent"
  <1>1. row[j] \in Row
    BY DEF TypeOK
  <1>2. ASSUME NEW S \in Commands, Enqueue(S)
        PROVE  row'[j].status # "absent"
    BY <1>2 DEF Enqueue
  <1>3. ASSUME NEW k \in Jobs, ReplayTerminalJob(k)
        PROVE  row'[j].status # "absent"
    <2>1. [AbsentRow EXCEPT !.status = "queued", !.due = TRUE].status = "queued"
      BY DEF AbsentRow
    <2> QED
      BY <1>3, <2>1 DEF ReplayTerminalJob, TypeOK
  <1>4. ASSUME NEW k \in Jobs, BecomeDue(k) \/ ExpireLease(k)
        PROVE  row'[j].status # "absent"
    BY <1>4, TimeKeepsStatus
  <1>5. ASSUME NEW w \in Workers, ClaimStep(w)
        PROVE  row'[j].status # "absent"
    <2>1. Claimed(j).status = "running" /\ Released(j, "dead_letter").status = "dead_letter"
      BY <1>1 DEF Claimed, Released, Row
    <2>2. row'[j] \in {Claimed(j), Released(j, "dead_letter"), row[j]}
      BY <1>5 DEF ClaimStep, ClaimJobs
    <2> QED
      BY <2>1, <2>2
  <1>6. ASSUME NEW w \in Workers, NEW c \in Held(w), Acknowledge(w, c)
        PROVE  row'[j].status # "absent"
    <2>1. c \in Claim /\ Outcome(w, c)
      BY <1>6 DEF Held, TypeOK, Acknowledge
    <2> QED
      BY <2>1, OutcomeRow
  <1>7. CASE UNCHANGED row
    BY <1>7
  <1> QED
    BY <1>2, <1>3, <1>4, <1>5, <1>6, <1>7
    DEF Next, Process, StartJob, LoadState, ApplyClaimed, FinalizePayload, AcknowledgeLost,
        ProcessFails, Signal, Exit, dbVars, vars

\* Only jobs whose rows exist are claimed, and only held claims are worked on.
LEMMA ClaimsOfRows ==
    ASSUME TypeOK, UploadInv, [Next]_vars
    PROVE  /\ \A w \in Workers : \A c \in Held(w)' : c.job \in Jobs /\ row[c.job].status # "absent"
           /\ \A j \in Jobs : effect'[j] > 0 => row[j].status # "absent"
  <1> DEFINE Kept == /\ \A w \in Workers : Held(w)' \subseteq Held(w)
                     /\ \A j \in Jobs : effect'[j] > 0 => row[j].status # "absent"
  <1>0. \A w \in Workers : \A c \in Held(w) : c \in Claim /\ c.job \in Jobs
    BY DEF Held, TypeOK, Claim
  <1>1. ASSUME NEW w \in Workers, NEW S \in SUBSET Claimable, NEW delivered \in BOOLEAN,
               ClaimJobs(w, S, delivered)
        PROVE  /\ \A v \in Workers : \A c \in Held(v)' : c.job \in Jobs /\ row[c.job].status # "absent"
               /\ \A j \in Jobs : effect'[j] > 0 => row[j].status # "absent"
    <2>1. /\ UNCHANGED <<effect, current>>
          /\ \A v \in Workers \ {w} : batch'[v] = batch[v]
          /\ \A c \in batch'[w] : c.job \in S
      BY <1>1 DEF ClaimJobs, TypeOK
    <2>2. \A j \in S : j \in Jobs /\ row[j].status # "absent"
      BY DEF Claimable
    <2> QED
      BY <1>0, <2>1, <2>2 DEF UploadInv, Held
  <1>2. ASSUME NEW w \in Workers, NEW c \in Held(w),
               StartJob(w, c) \/ LoadState(w, c) \/ Acknowledge(w, c) \/ AcknowledgeLost(w, c)
        PROVE  Kept
    <2>1. UNCHANGED effect
      BY <1>2 DEF StartJob, LoadState, Acknowledge, AcknowledgeLost, dbVars
    <2>2. \A v \in Workers : batch'[v] \cup current'[v] \subseteq batch[v] \cup current[v]
      BY <1>2 DEF StartJob, LoadState, Decide, Acknowledge, AcknowledgeLost, LeaveJob, TypeOK
    <2> QED
      BY <2>1, <2>2 DEF UploadInv, Held
  <1>3. ASSUME NEW w \in Workers, NEW c \in Held(w),
               \/ \E confirmed \in BOOLEAN : ApplyClaimed(w, c, confirmed)
               \/ FinalizePayload(w, c)
        PROVE  Kept
    <2>1. \A j \in Jobs \ {c.job} : effect'[j] = effect[j]
      BY <1>0, <1>3 DEF ApplyClaimed, FinalizePayload, TypeOK
    <2>2. \A v \in Workers : batch'[v] \cup current'[v] \subseteq batch[v] \cup current[v]
      BY <1>3 DEF ApplyClaimed, FinalizePayload, Decide, TypeOK
    <2> QED
      BY <2>1, <2>2 DEF UploadInv, Held
  <1>4. ASSUME NEW w \in Workers, (\E r \in Result : ProcessFails(w, r)) \/ Exit(w) \/ Signal(w)
        PROVE  Kept
    <2>1. UNCHANGED effect
      BY <1>4 DEF ProcessFails, Exit, Signal, dbVars
    <2>2. \A v \in Workers : batch'[v] \cup current'[v] \subseteq batch[v] \cup current[v]
      BY <1>4 DEF ProcessFails, Decide, Exit, Signal, TypeOK
    <2> QED
      BY <2>1, <2>2 DEF UploadInv, Held
  <1>5. CASE UNCHANGED <<effect, batch, current>>
    <2>1. \A w \in Workers : Held(w)' = Held(w)
      BY <1>5 DEF Held
    <2> QED
      BY <1>0, <1>5, <2>1 DEF UploadInv
  <1>6. Kept => /\ \A w \in Workers : \A c \in Held(w)' : c.job \in Jobs /\ row[c.job].status # "absent"
                /\ \A j \in Jobs : effect'[j] > 0 => row[j].status # "absent"
    BY <1>0 DEF UploadInv
  <1> HIDE DEF Kept
  <1> QED
    BY <1>1, <1>2, <1>3, <1>4, <1>5, <1>6
    DEF Next, Enqueue, ReplayTerminalJob, BecomeDue, ExpireLease, ClaimStep, Process,
        workerVars, vars

\* UploadInv is inductive relative to TypeOK.
LEMMA UploadStep == TypeOK /\ UploadInv /\ [Next]_vars => UploadInv'
  <1> SUFFICES ASSUME TypeOK, UploadInv, [Next]_vars
               PROVE  UploadInv'
    OBVIOUS
  <1>1. \A j \in Jobs : row[j].status # "absent" => row'[j].status # "absent"
    BY RowsStay
  <1>2. /\ \A w \in Workers : \A c \in Held(w)' : row'[c.job].status # "absent"
        /\ \A j \in Jobs : effect'[j] > 0 => row'[j].status # "absent"
    BY <1>1, ClaimsOfRows
  <1>3. ASSUME NEW j \in Jobs, NEW d \in preceding'[j]
        PROVE  d \in Awaits[j] /\ row'[d].status # "absent"
    <2>1. CASE d \in preceding[j]
      BY <1>1, <2>1 DEF UploadInv, TypeOK
    <2>2. CASE d \notin preceding[j]
      <3>1. PICK S \in Commands : Enqueue(S)
        <4> SUFFICES ASSUME \A S \in Commands : ~Enqueue(S)
                     PROVE  UNCHANGED preceding
          BY <2>2
        <4>1. ASSUME NEW i \in Jobs, ReplayTerminalJob(i) \/ BecomeDue(i) \/ ExpireLease(i)
              PROVE  UNCHANGED preceding
          BY <4>1 DEF ReplayTerminalJob, BecomeDue, ExpireLease
        <4>2. ASSUME NEW w \in Workers, ClaimStep(w)
              PROVE  UNCHANGED preceding
          BY <4>2 DEF ClaimStep, ClaimJobs
        <4>3. ASSUME NEW w \in Workers, Process(w)
              PROVE  UNCHANGED preceding
          BY <4>3
          DEF Process, StartJob, LoadState, ApplyClaimed, FinalizePayload, Acknowledge,
              AcknowledgeLost, dbVars
        <4>4. ASSUME NEW w \in Workers,
                     (\E r \in Result : ProcessFails(w, r)) \/ Signal(w) \/ Exit(w)
              PROVE  UNCHANGED preceding
          BY <4>4 DEF ProcessFails, Signal, Exit, dbVars
        <4>5. CASE UNCHANGED vars
          BY <4>5 DEF vars
        <4> QED
          BY <4>1, <4>2, <4>3, <4>4, <4>5 DEF Next
      <3>2. d \in Awaits[j] /\ (d \in S \/ row[d].status # "absent")
        BY <2>2, <3>1 DEF Enqueue
      <3>3. d \in Jobs
        BY <3>2, OutboxAssumption
      <3>4. row[d].status = "absent" /\ d \in S => row'[d].status = "queued"
        BY <3>1, <3>3 DEF Enqueue, AbsentRow
      <3> QED
        BY <1>1, <3>2, <3>3, <3>4
    <2> QED
      BY <2>1, <2>2
  <1> QED
    BY <1>2, <1>3 DEF UploadInv

-----------------------------------------------------------------------------
(* Claims, publication and completion                                      *)

\* No two processes hold the same claim.
ClaimsDisjoint == \A v, w \in Workers : v # w => Held(v) \cap Held(w) = {}

\* A process works on at most one claim at a time.
OneCurrent == \A w \in Workers : \A c, d \in current[w] : c = d

\* A parser that passed its reads publishes into a state where they still
\* hold: dependencies stay satisfied, and nobody publishes its effect while
\* its claim is the job's lease.
FreshClaim(c) ==
    c.job \notin Finalizers =>
        /\ \A d \in Requires[c.job] \cup preceding[c.job] : effect[d] > 0
        /\ OwnsLease(c) => effect[c.job] = 0

\* A worker past its reads holds a fresh claim or one that will conflict.
LoadedFresh ==
    \A w \in Workers : stage[w] = "loaded" => \A c \in current[w] : FreshClaim(c)

\* A worker decides "ok" only for a job whose effect is there.
DecidedDone ==
    \A w \in Workers : stage[w] = "decided" /\ result[w] = "ok" =>
        \A c \in current[w] : effect[c.job] > 0

\* What claims, decisions and effects satisfy together.
EffectInv ==
    /\ ClaimsDisjoint
    /\ OneCurrent
    /\ LoadedFresh
    /\ DecidedDone
    /\ EffectOnce
    /\ SucceededHasEffect
    /\ NoPrematurePublish

\* Processes that only drop claims stay disjoint.
LEMMA ShrinkingClaims ==
    ASSUME ClaimsDisjoint,
           \A w \in Workers : batch'[w] \cup current'[w] \subseteq batch[w] \cup current[w]
    PROVE  ClaimsDisjoint'
  BY DEF ClaimsDisjoint, Held

\* A claim stays fresh while no row gets a lease and no effect is written.
LEMMA FreshStays ==
    ASSUME NEW c, c.job \in Jobs, FreshClaim(c), UNCHANGED effect,
           preceding'[c.job] = preceding[c.job],
           row'[c.job].status = "running" =>
               row[c.job].status = "running" /\ row'[c.job].token = row[c.job].token
    PROVE  FreshClaim(c)'
  BY DEF FreshClaim, OwnsLease

\* Steps of producers, operators and time write rows only, and note what was
\* uploaded before a job only when the job is new.
LEMMA RowOnlyStep ==
    ASSUME TypeOK, EffectInv, UNCHANGED <<effect, batch, current, stage, result>>,
           \A j \in Jobs :
               /\ row'[j].status = "running" =>
                      row[j].status = "running" /\ row'[j].token = row[j].token
               /\ row'[j].status = "succeeded" => row[j].status = "succeeded"
               /\ \/ preceding'[j] = preceding[j]
                  \/ /\ ~(effect[j] > 0)
                     /\ \A w \in Workers : \A c \in current[w] : c.job # j
    PROVE  EffectInv'
  <1>1. ClaimsDisjoint' /\ OneCurrent' /\ DecidedDone' /\ EffectOnce'
    BY DEF EffectInv, ClaimsDisjoint, Held, OneCurrent, DecidedDone, EffectOnce
  <1>2. SucceededHasEffect' /\ NoPrematurePublish'
    BY DEF EffectInv, SucceededHasEffect, NoPrematurePublish
  <1>3. LoadedFresh'
    <2>1. \A w \in Workers : \A c \in current[w] : c.job \in Jobs
      BY DEF TypeOK, Claim
    <2> QED
      BY <2>1, FreshStays DEF EffectInv, LoadedFresh
  <1> QED
    BY <1>1, <1>2, <1>3 DEF EffectInv

\* A claim step hands out tokens that nobody holds, so it neither duplicates a
\* claim nor gives a stale one its lease back.
LEMMA ClaimEffect ==
    ASSUME TypeOK, EffectInv, NEW w \in Workers, NEW S \in SUBSET Claimable,
           NEW delivered \in BOOLEAN, ClaimJobs(w, S, delivered)
    PROVE  EffectInv'
  <1>1. /\ batch[w] = {} /\ current[w] = {}
        /\ UNCHANGED <<effect, preceding, current, stage, result>>
    BY DEF ClaimJobs, Held
  <1>2. S \subseteq Jobs /\ S \cap ExpiredFinal = {}
    <2>1. \A j \in Jobs : row[j].attempts \in Nat /\ row[j].status \in Status
      BY DEF TypeOK, Row
    <2> QED
      BY <2>1, OutboxAssumption DEF Claimable, ExpiredFinal
  <1>3. \A j \in S : NewToken(j) \notin TokensInUse(j)
    BY DEF ClaimJobs, NewToken
  <1>4. ASSUME NEW v \in Workers, NEW c \in Held(v), c.job \in S
        PROVE  c.token \in TokensInUse(c.job)
    BY <1>4 DEF TokensInUse
  <1>5. \A v \in Workers \ {w} : batch'[v] = batch[v]
    BY DEF ClaimJobs, TypeOK
  <1>6. \A c \in batch'[w] : c.job \in S /\ c.token = NewToken(c.job)
    BY DEF ClaimJobs, TypeOK
  <1>7. ClaimsDisjoint'
    <2>1. ASSUME NEW v \in Workers \ {w}, NEW c \in batch'[w], c \in Held(v)
          PROVE  FALSE
      BY <1>3, <1>4, <1>6, <2>1
    <2>2. \A v \in Workers \ {w} : Held(v)' = Held(v) /\ Held(w)' = batch'[w]
      BY <1>1, <1>5 DEF Held
    <2> QED
      BY <2>1, <2>2 DEF EffectInv, ClaimsDisjoint
  <1>8. LoadedFresh'
    <2> SUFFICES ASSUME NEW v \in Workers, stage[v] = "loaded", NEW c \in current[v]
                 PROVE  FreshClaim(c)'
      BY <1>1 DEF LoadedFresh
    <2>1. c.job \in Jobs /\ FreshClaim(c) /\ c \in Held(v)
      BY DEF EffectInv, LoadedFresh, TypeOK, Claim, Held
    <2>2. CASE c.job \in S
      <3>1. row'[c.job].token = NewToken(c.job)
        BY <1>2, <2>1, <2>2 DEF ClaimJobs, Claimed
      <3>2. NewToken(c.job) # c.token
        BY <1>3, <1>4, <2>1, <2>2
      <3> QED
        BY <1>1, <2>1, <3>1, <3>2 DEF FreshClaim, OwnsLease
    <2>3. CASE c.job \notin S
      <3>1. \/ row'[c.job] = Released(c.job, "dead_letter")
            \/ row'[c.job] = row[c.job]
        BY <1>2, <2>1, <2>3 DEF ClaimJobs
      <3>2. Released(c.job, "dead_letter").status = "dead_letter"
        BY <2>1 DEF TypeOK, Row, Released
      <3> QED
        BY <1>1, <2>1, <3>1, <3>2, FreshStays
    <2> QED
      BY <2>2, <2>3
  <1>9. SucceededHasEffect'
    <2> SUFFICES ASSUME NEW j \in Jobs, row'[j].status = "succeeded"
                 PROVE  row[j].status = "succeeded"
      BY <1>1 DEF EffectInv, SucceededHasEffect
    <2>1. Claimed(j).status = "running"
      BY DEF Claimed
    <2>2. Released(j, "dead_letter").status = "dead_letter"
      BY DEF TypeOK, Row, Released
    <2>3. row'[j] = Claimed(j) \/ row'[j] = Released(j, "dead_letter") \/ row'[j] = row[j]
      BY <1>2 DEF ClaimJobs
    <2> QED
      BY <2>1, <2>2, <2>3
  <1> QED
    BY <1>1, <1>7, <1>8, <1>9
    DEF EffectInv, OneCurrent, DecidedDone, EffectOnce, NoPrematurePublish

\* What a decision does to the claims, given what it did to the effects.
LEMMA DecideClaims ==
    ASSUME TypeOK, EffectInv, NEW w \in Workers, NEW r \in Result,
           Decide(w, r), UNCHANGED batch,
           \A j \in Jobs : effect[j] > 0 => effect'[j] > 0,
           r = "ok" => \A c \in current[w] : effect'[c.job] > 0
    PROVE  /\ ClaimsDisjoint' /\ OneCurrent' /\ DecidedDone'
           /\ \A v \in Workers : stage'[v] = "loaded" =>
                  v # w /\ stage[v] = "loaded" /\ current'[v] = current[v]
  <1>1. \A v \in Workers : current'[v] \subseteq current[v]
    BY DEF TypeOK, Decide
  <1>2. ClaimsDisjoint' /\ OneCurrent'
    BY <1>1, ShrinkingClaims DEF EffectInv, OneCurrent
  <1>3. \A v \in Workers \ {w} : stage'[v] = stage[v] /\ current'[v] = current[v]
                                 /\ result'[v] = result[v]
    BY DEF TypeOK, Decide
  <1>4. /\ stage'[w] \in {"between", "decided"}
        /\ stage'[w] = "decided" => result'[w] = r
    BY DEF TypeOK, Decide
  <1>5. DecidedDone'
    <2> SUFFICES ASSUME NEW v \in Workers, stage'[v] = "decided", result'[v] = "ok",
                        NEW c \in current'[v]
                 PROVE  effect'[c.job] > 0
      BY DEF DecidedDone
    <2>1. CASE v = w
      BY <1>1, <1>4, <2>1
    <2>2. CASE v # w
      <3>1. effect[c.job] > 0 /\ c.job \in Jobs
        BY <1>3, <2>2 DEF EffectInv, DecidedDone, TypeOK, Claim
      <3> QED
        BY <3>1
    <2> QED
      BY <2>1, <2>2
  <1> QED
    BY <1>2, <1>3, <1>4, <1>5

\* A decision that writes nothing to the database.
LEMMA DecideOnly ==
    ASSUME TypeOK, EffectInv, NEW w \in Workers, NEW r \in Result,
           Decide(w, r), UNCHANGED <<dbVars, batch>>,
           r = "ok" => \A c \in current[w] : effect[c.job] > 0
    PROVE  EffectInv'
  <1>1. /\ effect' = effect /\ row' = row /\ batch' = batch /\ preceding' = preceding
        /\ \A j \in Jobs : effect[j] > 0 => effect'[j] > 0
    BY DEF dbVars, TypeOK
  <1>2. /\ ClaimsDisjoint' /\ OneCurrent' /\ DecidedDone'
        /\ \A v \in Workers : stage'[v] = "loaded" =>
                  v # w /\ stage[v] = "loaded" /\ current'[v] = current[v]
    BY <1>1, DecideClaims
  <1>3. LoadedFresh'
    BY <1>1, <1>2 DEF EffectInv, LoadedFresh, FreshClaim, OwnsLease
  <1> QED
    BY <1>1, <1>2, <1>3 DEF EffectInv, EffectOnce, SucceededHasEffect, NoPrematurePublish

\* Reading the state decides "ok" only on a written effect, and goes on only
\* with satisfied dependencies and an unwritten one.
LEMMA LoadEffect ==
    ASSUME TypeOK, UploadInv, EffectInv, NEW w \in Workers, NEW c \in Claim, LoadState(w, c)
    PROVE  EffectInv'
  <1>1. c \in current[w] /\ \A d \in current[w] : d = c
    BY DEF LoadState, EffectInv, OneCurrent
  <1>2. c.job \in Jobs /\ UNCHANGED <<dbVars, batch>>
    BY DEF LoadState, Claim
  <1>3. CASE effect[c.job] > 0 /\ Decide(w, "ok")
    BY <1>1, <1>2, <1>3, DecideOnly DEF Result
  <1>4. CASE Decide(w, "permanent") \/ Decide(w, "dependency_pending") \/ Decide(w, "transient")
    BY <1>2, <1>4, DecideOnly DEF Result
  <1>5. CASE /\ \/ c.job \in Finalizers
                \/ effect[c.job] = 0 /\ PendingScans(c.job) = {} /\ ~PayloadPending(c.job)
             /\ stage' = [stage EXCEPT ![w] = "loaded"]
             /\ UNCHANGED <<current, result>>
    <2>1. FreshClaim(c)
      <3>1. ASSUME c.job \notin Finalizers, NEW d \in Requires[c.job] \cup preceding[c.job]
            PROVE  effect[d] > 0
        <4>1. /\ d \in Jobs /\ effect[d] \in Nat
              /\ d \in Requires[c.job] \/ (d \in Awaits[c.job] /\ row[d].status # "absent")
          BY <1>2, OutboxAssumption DEF TypeOK, UploadInv
        <4> QED
          BY <1>5, <3>1, <4>1 DEF PendingScans, PayloadPending
      <3> QED
        BY <1>5, <3>1 DEF FreshClaim
    <2>2. FreshClaim(c)' /\ UNCHANGED <<effect, row, preceding, batch, current, result>>
      BY <1>2, <1>5, <2>1 DEF FreshClaim, OwnsLease, dbVars
    <2>3. LoadedFresh'
      <3> SUFFICES ASSUME NEW v \in Workers, stage'[v] = "loaded", NEW d \in current[v]
                   PROVE  FreshClaim(d)'
        BY <2>2 DEF LoadedFresh
      <3>1. CASE v = w
        BY <1>1, <2>2, <3>1
      <3>2. CASE v # w
        <4>1. stage[v] = "loaded"
          BY <1>5, <3>2 DEF TypeOK
        <4> QED
          BY <2>2, <4>1 DEF EffectInv, LoadedFresh, FreshClaim, OwnsLease
      <3> QED
        BY <3>1, <3>2
    <2>4. DecidedDone'
      BY <1>5, <2>2 DEF EffectInv, DecidedDone, TypeOK
    <2> QED
      BY <2>2, <2>3, <2>4
      DEF EffectInv, ClaimsDisjoint, Held, OneCurrent, EffectOnce, SucceededHasEffect,
          NoPrematurePublish
  <1> QED
    BY <1>3, <1>4, <1>5 DEF LoadState

\* Publication: the lease proves that the effect is not there yet, and that
\* no other process can still publish it.
LEMMA ApplyEffect ==
    ASSUME TypeOK, EffectInv, NEW w \in Workers, NEW c \in Claim,
           NEW confirmed \in BOOLEAN, ApplyClaimed(w, c, confirmed)
    PROVE  EffectInv'
  <1>1. /\ c \in current[w] /\ \A d \in current[w] : d = c
        /\ c.job \in Jobs /\ c.job \notin Finalizers /\ FreshClaim(c)
    BY DEF ApplyClaimed, EffectInv, OneCurrent, LoadedFresh, Claim
  <1>2. CASE ~LiveLease(c)
    BY <1>2, DecideOnly DEF ApplyClaimed, dbVars, Result
  <1>3. CASE LiveLease(c)
    <2>1. PICK r \in Result : Decide(w, r)
      BY <1>3 DEF ApplyClaimed, Result
    <2>2. /\ OwnsLease(c) /\ effect[c.job] = 0
          /\ \A d \in Requires[c.job] \cup preceding[c.job] : effect[d] > 0
      BY <1>1, <1>3 DEF LiveLease, FreshClaim
    <2>3. /\ effect'[c.job] = 1
          /\ \A j \in Jobs \ {c.job} : effect'[j] = effect[j]
          /\ UNCHANGED <<row, preceding, batch>>
      BY <1>1, <1>3, <2>2 DEF ApplyClaimed, TypeOK
    <2>4. \A j \in Jobs : effect[j] > 0 => effect'[j] > 0
      BY <2>3
    <2>5. /\ ClaimsDisjoint' /\ OneCurrent' /\ DecidedDone'
          /\ \A v \in Workers : stage'[v] = "loaded" =>
                  v # w /\ stage[v] = "loaded" /\ current'[v] = current[v]
      BY <1>1, <2>1, <2>3, <2>4, DecideClaims
    <2>6. LoadedFresh'
      <3> SUFFICES ASSUME NEW v \in Workers, stage'[v] = "loaded", NEW d \in current'[v]
                   PROVE  FreshClaim(d)'
        BY DEF LoadedFresh
      <3>1. /\ v # w /\ d \in current[v] /\ FreshClaim(d) /\ d \in Claim /\ d.job \in Jobs
        BY <2>5 DEF EffectInv, LoadedFresh, TypeOK, Claim
      <3>2. d # c
        BY <1>1, <3>1 DEF EffectInv, ClaimsDisjoint, Held
      <3>3. d.job = c.job => ~OwnsLease(d)
        BY <2>2, <3>1, <3>2 DEF OwnsLease, Claim
      <3>4. OwnsLease(d)' <=> OwnsLease(d)
        BY <2>3 DEF OwnsLease
      <3>5. \A k \in Requires[d.job] \cup preceding[d.job] : k \in Jobs
        BY <3>1, OutboxAssumption DEF TypeOK
      <3> QED
        BY <2>3, <2>4, <3>1, <3>3, <3>4, <3>5 DEF FreshClaim
    <2>7. NoPrematurePublish'
      <3> SUFFICES ASSUME NEW j \in Jobs, effect'[j] > 0,
                          NEW d \in Requires[j] \cup preceding[j]
                   PROVE  effect[d] > 0 /\ d \in Jobs
        BY <2>3, <2>4 DEF NoPrematurePublish
      <3> QED
        BY <2>2, <2>3, OutboxAssumption DEF TypeOK, EffectInv, NoPrematurePublish
    <2>8. EffectOnce' /\ SucceededHasEffect'
      BY <2>3, <2>4 DEF EffectInv, EffectOnce, SucceededHasEffect
    <2> QED
      BY <2>5, <2>6, <2>7, <2>8 DEF EffectInv
  <1> QED
    BY <1>2, <1>3

\* A finalizer has no dependencies and nobody counts how often it finalizes.
LEMMA FinalizeEffect ==
    ASSUME TypeOK, UploadInv, EffectInv, NEW w \in Workers, NEW c \in Claim,
           FinalizePayload(w, c)
    PROVE  EffectInv'
  <1>1. /\ c \in current[w] /\ \A d \in current[w] : d = c
        /\ c.job \in Jobs /\ c.job \in Finalizers
        /\ Decide(w, "ok")
    BY DEF FinalizePayload, EffectInv, OneCurrent, Claim
  <1>2. /\ effect'[c.job] = 1
        /\ \A j \in Jobs \ {c.job} : effect'[j] = effect[j]
        /\ UNCHANGED <<row, preceding, batch>>
    BY <1>1 DEF FinalizePayload, TypeOK
  <1>3. \A j \in Jobs : effect[j] > 0 => effect'[j] > 0
    BY <1>2
  <1>4. /\ ClaimsDisjoint' /\ OneCurrent' /\ DecidedDone'
        /\ \A v \in Workers : stage'[v] = "loaded" =>
                v # w /\ stage[v] = "loaded" /\ current'[v] = current[v]
    <2>1. \A d \in current[w] : effect'[d.job] > 0
      BY <1>1, <1>2
    <2> QED
      BY <1>1, <1>2, <1>3, <2>1, DecideClaims DEF Result
  <1>5. LoadedFresh'
    <2> SUFFICES ASSUME NEW v \in Workers, stage'[v] = "loaded", NEW d \in current'[v]
                 PROVE  FreshClaim(d)'
      BY DEF LoadedFresh
    <2>1. FreshClaim(d) /\ d.job \in Jobs
      BY <1>4 DEF EffectInv, LoadedFresh, TypeOK, Claim
    <2>2. OwnsLease(d)' <=> OwnsLease(d)
      BY <1>2 DEF OwnsLease
    <2>3. \A k \in Requires[d.job] \cup preceding[d.job] : k \in Jobs
      BY <2>1, OutboxAssumption DEF TypeOK
    <2> QED
      BY <1>1, <1>2, <1>3, <2>1, <2>2, <2>3 DEF FreshClaim
  <1>6. NoPrematurePublish'
    <2> SUFFICES ASSUME NEW j \in Jobs, effect'[j] > 0,
                        NEW d \in Requires[j] \cup preceding[j]
                 PROVE  effect[d] > 0 /\ d \in Jobs
      BY <1>2, <1>3 DEF NoPrematurePublish
    <2>1. d \in Jobs
      BY OutboxAssumption DEF TypeOK
    <2>2. CASE j = c.job
      <3>1. Requires[j] = {} /\ preceding[j] = {}
        BY <1>1, <2>2, OutboxAssumption DEF UploadInv
      <3> QED
        BY <3>1
    <2>3. CASE j # c.job
      BY <1>2, <2>1, <2>3 DEF EffectInv, NoPrematurePublish
    <2> QED
      BY <2>1, <2>2, <2>3
  <1>7. EffectOnce' /\ SucceededHasEffect'
    BY <1>1, <1>2, <1>3 DEF EffectInv, EffectOnce, SucceededHasEffect
  <1> QED
    BY <1>4, <1>5, <1>6, <1>7 DEF EffectInv

\* Steps after which the worker has no claim in progress past "started".
LEMMA RestartEffect ==
    ASSUME TypeOK, EffectInv, NEW w \in Workers, UNCHANGED <<effect, preceding>>,
           \A v \in Workers \ {w} :
               stage'[v] = stage[v] /\ result'[v] = result[v] /\ current'[v] = current[v],
           stage'[w] \in {"between", "started"},
           \A c, d \in current'[w] : c = d,
           \A v \in Workers : batch'[v] \cup current'[v] \subseteq batch[v] \cup current[v],
           \A j \in Jobs :
               /\ row'[j].status = "running" =>
                      row[j].status = "running" /\ row'[j].token = row[j].token
               /\ row'[j].status = "succeeded" => effect[j] > 0
    PROVE  EffectInv'
  <1>1. ClaimsDisjoint' /\ OneCurrent' /\ DecidedDone' /\ EffectOnce' /\ NoPrematurePublish'
    BY ShrinkingClaims
    DEF EffectInv, OneCurrent, DecidedDone, EffectOnce, NoPrematurePublish
  <1>2. SucceededHasEffect'
    BY DEF SucceededHasEffect
  <1>3. LoadedFresh'
    <2> SUFFICES ASSUME NEW v \in Workers, stage'[v] = "loaded", NEW d \in current'[v]
                 PROVE  FreshClaim(d)'
      BY DEF LoadedFresh
    <2>1. FreshClaim(d) /\ d.job \in Jobs
      BY DEF EffectInv, LoadedFresh, TypeOK, Claim
    <2> QED
      BY <2>1, FreshStays
  <1> QED
    BY <1>1, <1>2, <1>3 DEF EffectInv

\* An accepted acknowledgement drops the claim and completes only done work.
LEMMA AcknowledgeEffect ==
    ASSUME TypeOK, EffectInv, NEW w \in Workers, NEW c \in Claim, Acknowledge(w, c)
    PROVE  EffectInv'
  <1>1. /\ c \in current[w] /\ stage[w] = "decided" /\ Outcome(w, c)
        /\ LeaveJob(w) /\ UNCHANGED <<effect, preceding>>
    BY DEF Acknowledge
  <1>2. ASSUME NEW j \in Jobs
        PROVE  /\ row'[j].status = "running" =>
                      row[j].status = "running" /\ row'[j].token = row[j].token
               /\ row'[j].status = "succeeded" => effect[j] > 0
    <2>1. CASE j = c.job
      BY <1>1, <2>1, OutcomeRow DEF EffectInv, DecidedDone
    <2>2. CASE j # c.job
      BY <1>1, <2>2, OutcomeRow DEF EffectInv, SucceededHasEffect
    <2> QED
      BY <2>1, <2>2
  <1>3. /\ current'[w] = {} /\ stage'[w] = "between" /\ batch' = batch
        /\ \A v \in Workers \ {w} :
               stage'[v] = stage[v] /\ result'[v] = result[v] /\ current'[v] = current[v]
    BY <1>1 DEF LeaveJob, TypeOK
  <1>4. \A v \in Workers : batch'[v] \cup current'[v] \subseteq batch[v] \cup current[v]
    BY <1>3
  <1> QED
    BY <1>1, <1>2, <1>3, <1>4, RestartEffect

\* The steps of one worker that keep the tables as they are.
LEMMA LocalEffect ==
    ASSUME TypeOK, EffectInv, NEW w \in Workers, NEW c \in Claim,
           StartJob(w, c) \/ AcknowledgeLost(w, c) \/ Exit(w)
    PROVE  EffectInv'
  <1>1. UNCHANGED <<row, effect, preceding>>
    BY DEF StartJob, AcknowledgeLost, Exit, dbVars
  <1>2. /\ stage'[w] \in {"between", "started"}
        /\ \A d, e \in current'[w] : d = e
        /\ \A v \in Workers \ {w} :
               stage'[v] = stage[v] /\ result'[v] = result[v] /\ current'[v] = current[v]
        /\ \A v \in Workers : batch'[v] \cup current'[v] \subseteq batch[v] \cup current[v]
    <2>1. CASE StartJob(w, c)
      BY <2>1 DEF StartJob, TypeOK
    <2>2. CASE AcknowledgeLost(w, c)
      BY <2>2 DEF AcknowledgeLost, LeaveJob, TypeOK
    <2>3. CASE Exit(w)
      BY <2>3 DEF Exit, TypeOK
    <2> QED
      BY <2>1, <2>2, <2>3
  <1>3. \A j \in Jobs : row'[j].status = "succeeded" => effect[j] > 0
    BY <1>1 DEF EffectInv, SucceededHasEffect
  <1> QED
    BY <1>1, <1>2, <1>3, RestartEffect

\* Enqueue, replay and time give no row a lease and complete no row.
LEMMA QueueEffect ==
    ASSUME TypeOK, UploadInv, EffectInv,
           \/ \E S \in Commands : Enqueue(S)
           \/ \E j \in Jobs : ReplayTerminalJob(j) \/ BecomeDue(j) \/ ExpireLease(j)
    PROVE  EffectInv'
  <1>1. UNCHANGED <<effect, batch, current, stage, result>>
    BY DEF Enqueue, ReplayTerminalJob, BecomeDue, ExpireLease, workerVars
  <1>2. ASSUME NEW j \in Jobs
        PROVE  /\ row'[j].status = "running" =>
                      row[j].status = "running" /\ row'[j].token = row[j].token
               /\ row'[j].status = "succeeded" => row[j].status = "succeeded"
    <2>1. [AbsentRow EXCEPT !.status = "queued", !.due = TRUE].status = "queued"
      BY DEF AbsentRow
    <2>2. ASSUME NEW S \in Commands, Enqueue(S)
          PROVE  \/ row'[j] = row[j]
                 \/ row'[j] = [AbsentRow EXCEPT !.status = "queued", !.due = TRUE]
      BY <2>2 DEF Enqueue
    <2>3. ASSUME NEW k \in Jobs, ReplayTerminalJob(k)
          PROVE  \/ row'[j] = row[j]
                 \/ row'[j] = [AbsentRow EXCEPT !.status = "queued", !.due = TRUE]
      BY <2>3 DEF ReplayTerminalJob, TypeOK
    <2>4. ASSUME NEW k \in Jobs, BecomeDue(k) \/ ExpireLease(k)
          PROVE  row'[j].status = row[j].status /\ row'[j].token = row[j].token
      BY <2>4, TimeKeepsStatus
    <2> QED
      BY <2>1, <2>2, <2>3, <2>4
  <1>3. ASSUME NEW j \in Jobs
        PROVE  \/ preceding'[j] = preceding[j]
               \/ /\ ~(effect[j] > 0)
                  /\ \A w \in Workers : \A c \in current[w] : c.job # j
    <2>1. ASSUME NEW S \in Commands, Enqueue(S)
          PROVE  preceding'[j] = preceding[j] \/ row[j].status = "absent"
      BY <2>1 DEF Enqueue
    <2>2. row[j].status = "absent" => /\ ~(effect[j] > 0)
                                      /\ \A w \in Workers : \A c \in current[w] : c.job # j
      BY DEF UploadInv, Held
    <2> QED
      BY <2>1, <2>2 DEF ReplayTerminalJob, BecomeDue, ExpireLease
  <1> QED
    BY <1>1, <1>2, <1>3, RowOnlyStep

\* EffectInv is inductive relative to TypeOK and UploadInv.
LEMMA EffectStep == TypeOK /\ UploadInv /\ EffectInv /\ [Next]_vars => EffectInv'
  <1> SUFFICES ASSUME TypeOK, UploadInv, EffectInv, [Next]_vars
               PROVE  EffectInv'
    OBVIOUS
  <1>1. CASE \/ \E S \in Commands : Enqueue(S)
             \/ \E j \in Jobs : ReplayTerminalJob(j) \/ BecomeDue(j) \/ ExpireLease(j)
    BY <1>1, QueueEffect
  <1>2. ASSUME NEW w \in Workers, ClaimStep(w)
        PROVE  EffectInv'
    BY <1>2, ClaimEffect DEF ClaimStep
  <1>3. ASSUME NEW w \in Workers, Process(w)
        PROVE  EffectInv'
    <2>1. PICK c \in Held(w) :
            \/ StartJob(w, c) \/ LoadState(w, c)
            \/ \E confirmed \in BOOLEAN : ApplyClaimed(w, c, confirmed)
            \/ FinalizePayload(w, c) \/ Acknowledge(w, c) \/ AcknowledgeLost(w, c)
      BY <1>3 DEF Process
    <2>2. c \in Claim
      BY <2>1 DEF Held, TypeOK
    <2> QED
      BY <2>1, <2>2, LocalEffect, LoadEffect, ApplyEffect, FinalizeEffect, AcknowledgeEffect
  <1>4. ASSUME NEW w \in Workers, NEW r \in Result, ProcessFails(w, r)
        PROVE  EffectInv'
    BY <1>4, DecideOnly DEF ProcessFails
  <1>5. ASSUME NEW w \in Workers, Exit(w)
        PROVE  EffectInv'
    <2>1. /\ UNCHANGED <<row, effect, preceding>>
          /\ stage'[w] = "between" /\ current'[w] = {}
          /\ \A v \in Workers \ {w} :
                 stage'[v] = stage[v] /\ result'[v] = result[v] /\ current'[v] = current[v]
          /\ \A v \in Workers : batch'[v] \cup current'[v] \subseteq batch[v] \cup current[v]
      BY <1>5 DEF Exit, TypeOK, dbVars
    <2>2. \A j \in Jobs : row'[j].status = "succeeded" => effect[j] > 0
      BY <2>1 DEF EffectInv, SucceededHasEffect
    <2> QED
      BY <2>1, <2>2, RestartEffect
  <1>6. CASE UNCHANGED <<row, effect, preceding, batch, current, stage, result>>
    BY <1>6, RowOnlyStep
  <1> QED
    BY <1>1, <1>2, <1>3, <1>4, <1>5, <1>6 DEF Next, Signal, vars, dbVars

-----------------------------------------------------------------------------
(* The theorems                                                            *)

\* The inductive invariant of the outbox.
IndInv == TypeOK /\ RowInv /\ UploadInv /\ EffectInv

\* An empty outbox and idle workers satisfy the inductive invariant.
LEMMA InitInv == Init => IndInv
  <1> SUFFICES ASSUME Init
               PROVE  IndInv
    OBVIOUS
  <1>1. TypeOK
    BY DEF Init, TypeOK, AbsentRow, Row, Status, Entry, AttemptRecord, Result, Claim
  <1>2. \A j \in Jobs : RowGood(row[j], history[j])
    BY OutboxAssumption DEF Init, AbsentRow, RowGood
  <1>3. UploadInv
    BY DEF Init, UploadInv, Held
  <1>4. EffectInv
    BY DEF Init, AbsentRow, EffectInv, ClaimsDisjoint, Held, OneCurrent, LoadedFresh,
           DecidedDone, EffectOnce, SucceededHasEffect, NoPrematurePublish
  <1> QED
    BY <1>1, <1>2, <1>3, <1>4, RowInvPointwise DEF IndInv

\* Every step of producers, operators, time and workers preserves it.
LEMMA IndInvStep == IndInv /\ [Next]_vars => IndInv'
  BY TypeStep, RowStep, UploadStep, EffectStep DEF IndInv

\* The inductive invariant holds in every reachable state.
LEMMA Inductive == Spec => []IndInv
  BY InitInv, IndInvStep, PTL DEF Spec

\* Fencing: at most one of the claims that processes hold for a job is its
\* lease, however many leases expired, claims got lost or workers crashed.
THEOREM Fencing == Spec => []LeaseExclusive
  <1>1. IndInv => LeaseExclusive
    <2> SUFFICES ASSUME IndInv, NEW v \in Workers, NEW w \in Workers,
                        NEW c \in Held(v), NEW d \in Held(w), c.job = d.job,
                        row[c.job].token = c.token, row[c.job].token = d.token
                 PROVE  v = w /\ c = d
      BY DEF LeaseExclusive
    <2>1. c \in Claim /\ d \in Claim
      BY DEF IndInv, TypeOK, Held
    <2>2. c.token = d.token
      OBVIOUS
    <2>3. c = d
      BY <2>1, <2>2 DEF Claim
    <2> QED
      BY <2>3 DEF IndInv, EffectInv, ClaimsDisjoint
  <1> QED
    BY <1>1, Inductive, PTL

\* No row is claimed more often than max_attempts between two replays.
THEOREM Budget == Spec => []AttemptBudget
  BY Inductive, PTL DEF IndInv, RowInv

\* The newest attempt record always explains the row.
THEOREM HistoryExplains == Spec => []HistoryExplainsRow
  BY Inductive, PTL DEF IndInv, RowInv

\* A parser's effect is published at most once.
THEOREM PublishedOnce == Spec => []EffectOnce
  BY Inductive, PTL DEF IndInv, EffectInv

\* A succeeded job has its effect in the database.
THEOREM SucceededIsDone == Spec => []SucceededHasEffect
  BY Inductive, PTL DEF IndInv, EffectInv

\* Nothing is published before its payload is finalized and every scan that was
\* uploaded no later than it is projected, whatever order the jobs are claimed in.
THEOREM DependenciesFirst == Spec => []NoPrematurePublish
  BY Inductive, PTL DEF IndInv, EffectInv

\* Every recorded outcome closes the attempt that was claimed last.
THEOREM OutcomesClose == Spec => OutcomeClosesItsClaim
  <1> DEFINE Closes ==
        \A j \in Jobs :
            history'[j] # history[j] /\ history'[j].outcome \notin {"claimed", "replayed"}
                => history[j] = Entry(history'[j].attempt, "claimed")
  <1>1. IndInv /\ [Next]_vars => [Closes]_vars
    <2> SUFFICES ASSUME IndInv, Next, NEW j \in Jobs, history'[j] # history[j],
                        history'[j].outcome \notin {"claimed", "replayed"}
                 PROVE  history[j] = Entry(history'[j].attempt, "claimed")
      OBVIOUS
    <2>1. TypeOK /\ RowGood(row[j], history[j])
      BY RowInvPointwise DEF IndInv
    <2>2. ASSUME NEW k \in Jobs, ReplayTerminalJob(k)
          PROVE  FALSE
      BY <2>1, <2>2 DEF ReplayTerminalJob, Record, Entry, TypeOK
    <2>3. ASSUME NEW w \in Workers, ClaimStep(w)
          PROVE  history[j] = Entry(history'[j].attempt, "claimed")
      <3>1. PICK S \in SUBSET Claimable, delivered \in BOOLEAN : ClaimJobs(w, S, delivered)
        BY <2>3 DEF ClaimStep
      <3>2. S \cap ExpiredFinal = {}
        <4>1. \A k \in Jobs : row[k].attempts \in Nat /\ row[k].status \in Status
          BY <2>1 DEF TypeOK, Row
        <4> QED
          BY <4>1, OutboxAssumption DEF Claimable, ExpiredFinal
      <3>3. j \notin S
        <4>1. j \in S => history'[j] = Entry(row[j].attempts + 1, "claimed")
          BY <3>1, <3>2 DEF ClaimJobs
        <4> QED
          BY <4>1 DEF Entry
      <3>4. j \in ExpiredFinal /\ history'[j] = Entry(row[j].attempts, "dead_letter")
        BY <3>1, <3>2, <3>3 DEF ClaimJobs
      <3>5. row[j].status = "running" /\ history'[j].attempt = row[j].attempts
        BY <3>4 DEF ExpiredFinal, Entry
      <3> QED
        BY <2>1, <3>5 DEF RowGood
    <2>4. ASSUME NEW w \in Workers, Process(w)
          PROVE  history[j] = Entry(history'[j].attempt, "claimed")
      <3>1. PICK c \in Held(w) : Acknowledge(w, c)
        BY <2>4
        DEF Process, StartJob, LoadState, ApplyClaimed, FinalizePayload, AcknowledgeLost, dbVars
      <3>2. c \in Claim /\ Outcome(w, c)
        BY <2>1, <3>1 DEF Held, TypeOK, Acknowledge
      <3>3. j = c.job /\ row[j].status = "running" /\ history'[j].attempt = row[j].attempts
        BY <2>1, <3>2, OutcomeRow
      <3> QED
        BY <2>1, <3>3 DEF RowGood
    <2> QED
      BY <2>2, <2>3, <2>4
      DEF Next, Enqueue, BecomeDue, ExpireLease, ProcessFails, Signal, Exit, dbVars
  <1> QED
    BY <1>1, Inductive, PTL DEF Spec, OutcomeClosesItsClaim

-----------------------------------------------------------------------------
(* Refinement                                                              *)

\* The variables of JobPromise under the refinement mapping of Outbox.
Promised == Jobs \ Finalizers
PhaseOf == [j \in Promised |-> Phase(row[j].status)]
PublishedOf == [j \in Promised |-> effect[j]]

\* A step that keeps the effects and moves every promised row within its phase,
\* or accepts or gives up some of them, is a step of the promise.
LEMMA PhaseStep ==
    ASSUME UNCHANGED effect,
           NEW from \in {"absent", "pending"}, NEW to \in {"pending", "dead"},
           from = "absent" <=> to = "pending",
           \A j \in Promised :
               \/ Phase(row'[j].status) = Phase(row[j].status)
               \/ Phase(row[j].status) = from /\ Phase(row'[j].status) = to
    PROVE  [Promise!PNext]_(Promise!pvars)
  <1> DEFINE S == { j \in Promised :
                      Phase(row'[j].status) # Phase(row[j].status) }
  <1>1. S \in SUBSET Promised
    OBVIOUS
  <1>2. \A j \in S : PhaseOf[j] = from
    BY DEF PhaseOf
  <1>3. PhaseOf' = [j \in Promised |-> IF j \in S THEN to ELSE PhaseOf[j]]
    BY DEF PhaseOf
  <1>4. PublishedOf' = PublishedOf
    BY DEF PublishedOf
  <1>5. CASE from = "absent"
    BY <1>1, <1>2, <1>3, <1>4, <1>5
    DEF Promise!PNext, Promise!Accept, PhaseOf, PublishedOf, Promised
  <1>6. CASE from = "pending"
    BY <1>1, <1>2, <1>3, <1>4, <1>6
    DEF Promise!PNext, Promise!GiveUp, PhaseOf, PublishedOf, Promised
  <1> QED
    BY <1>5, <1>6

\* Claiming gives up exactly the promised jobs whose last lease expired.
LEMMA ClaimRefines ==
    ASSUME IndInv, NEW w \in Workers, ClaimStep(w)
    PROVE  [Promise!PNext]_(Promise!pvars)
  <1>1. PICK S \in SUBSET Claimable, delivered \in BOOLEAN : ClaimJobs(w, S, delivered)
    BY DEF ClaimStep
  <1>2. ASSUME NEW j \in Promised
        PROVE  \/ Phase(row'[j].status) = Phase(row[j].status)
               \/ Phase(row[j].status) = "pending" /\ Phase(row'[j].status) = "dead"
    <2>1. j \in Jobs /\ row[j] \in Row /\ row[j].attempts \in Nat /\ row[j].status \in Status
      BY DEF IndInv, TypeOK, Row, Promised
    <2>2. CASE j \in S
      <3>1. row[j].status \in Active /\ j \notin ExpiredFinal
        BY <2>1, <2>2, OutboxAssumption DEF Claimable, ExpiredFinal, Active
      <3>2. row'[j] = Claimed(j)
        BY <1>1, <2>1, <2>2, <3>1 DEF ClaimJobs
      <3>3. row'[j].status = "running"
        BY <3>2 DEF Claimed
      <3> QED
        BY <3>1, <3>3 DEF Phase, Active
    <2>3. CASE j \notin S /\ j \in ExpiredFinal
      <3>1. row[j].status = "running" /\ row'[j] = Released(j, "dead_letter")
        BY <1>1, <2>1, <2>3 DEF ClaimJobs, ExpiredFinal
      <3>2. row'[j].status = "dead_letter"
        BY <2>1, <3>1 DEF Released, Row
      <3> QED
        BY <3>1, <3>2 DEF Phase
    <2>4. CASE j \notin S /\ j \notin ExpiredFinal
      BY <1>1, <2>1, <2>4 DEF ClaimJobs
    <2> QED
      BY <2>2, <2>3, <2>4
  <1>3. UNCHANGED effect
    BY <1>1 DEF ClaimJobs
  <1> QED
    BY <1>2, <1>3, PhaseStep

\* Publishing through a live lease is the promise's Publish.
LEMMA ApplyRefines ==
    ASSUME IndInv, NEW w \in Workers, NEW c \in Claim, NEW confirmed \in BOOLEAN,
           ApplyClaimed(w, c, confirmed)
    PROVE  [Promise!PNext]_(Promise!pvars)
  <1>1. /\ c.job \in Promised /\ c.job \in Jobs /\ UNCHANGED row
        /\ FreshClaim(c) /\ c.job \notin Finalizers
    BY DEF ApplyClaimed, IndInv, EffectInv, LoadedFresh, Claim, Promised
  <1>2. CASE ~LiveLease(c)
    BY <1>1, <1>2, PhaseStep DEF ApplyClaimed
  <1>3. CASE LiveLease(c)
    <2>1. effect[c.job] = 0 /\ row[c.job].status = "running"
      BY <1>1, <1>3 DEF FreshClaim, LiveLease, OwnsLease
    <2>2. effect' = [effect EXCEPT ![c.job] = 1]
      BY <1>1, <1>3, <2>1 DEF ApplyClaimed, IndInv, TypeOK
    <2>3. /\ PhaseOf[c.job] = "pending" /\ PublishedOf[c.job] = 0
          /\ PublishedOf' = [PublishedOf EXCEPT ![c.job] = 1]
          /\ PhaseOf' = PhaseOf
      BY <1>1, <2>1, <2>2 DEF PhaseOf, PublishedOf, Phase, Promised, IndInv, TypeOK
    <2> QED
      BY <1>1, <2>3 DEF Promise!PNext, Promise!Publish, PhaseOf, PublishedOf, Promised
  <1> QED
    BY <1>2, <1>3

\* An acknowledgement finishes, gives up or keeps pending the job it names.
LEMMA AcknowledgeRefines ==
    ASSUME IndInv, NEW w \in Workers, NEW c \in Claim, Acknowledge(w, c)
    PROVE  [Promise!PNext]_(Promise!pvars)
  <1>1. /\ TypeOK /\ UNCHANGED effect /\ c \in current[w] /\ stage[w] = "decided"
        /\ Outcome(w, c)
    BY DEF Acknowledge, IndInv
  <1>2. /\ c.job \in Jobs /\ row[c.job].status = "running"
        /\ row'[c.job].status \in {"succeeded", "retrying", "dead_letter"}
        /\ row'[c.job].status = "succeeded" => result[w] = "ok"
        /\ \A j \in Jobs \ {c.job} : row'[j] = row[j]
    BY <1>1, OutcomeRow
  <1>3. CASE row'[c.job].status = "succeeded" /\ c.job \in Promised
    <2>1. effect[c.job] > 0
      BY <1>1, <1>2, <1>3 DEF IndInv, EffectInv, DecidedDone
    <2>2. /\ PhaseOf[c.job] = "pending" /\ PublishedOf[c.job] > 0
          /\ PhaseOf' = [PhaseOf EXCEPT ![c.job] = "done"]
          /\ PublishedOf' = PublishedOf
      BY <1>1, <1>2, <1>3, <2>1 DEF PhaseOf, PublishedOf, Phase, Promised
    <2> QED
      BY <1>3, <2>2 DEF Promise!PNext, Promise!Finish, PhaseOf, PublishedOf, Promised
  <1>4. CASE ~(row'[c.job].status = "succeeded" /\ c.job \in Promised)
    <2>1. ASSUME NEW j \in Promised
          PROVE  \/ Phase(row'[j].status) = Phase(row[j].status)
                 \/ Phase(row[j].status) = "pending" /\ Phase(row'[j].status) = "dead"
      BY <1>2, <1>4 DEF Phase, Promised
    <2> QED
      BY <1>1, <2>1, PhaseStep
  <1> QED
    BY <1>3, <1>4

\* Enqueue accepts, replay revives, time is invisible.
LEMMA QueueRefines ==
    ASSUME IndInv,
           \/ \E S \in Commands : Enqueue(S)
           \/ \E j \in Jobs : ReplayTerminalJob(j) \/ BecomeDue(j) \/ ExpireLease(j)
    PROVE  [Promise!PNext]_(Promise!pvars)
  <1>1. [AbsentRow EXCEPT !.status = "queued", !.due = TRUE].status = "queued"
    BY DEF AbsentRow
  <1>2. ASSUME NEW S \in Commands, Enqueue(S)
        PROVE  [Promise!PNext]_(Promise!pvars)
    <2>1. \A j \in Jobs :
              \/ row'[j] = row[j]
              \/ row[j].status = "absent" /\ row'[j].status = "queued"
      BY <1>1, <1>2 DEF Enqueue
    <2>2. \A j \in Promised :
              \/ Phase(row'[j].status) = Phase(row[j].status)
              \/ Phase(row[j].status) = "absent" /\ Phase(row'[j].status) = "pending"
      BY <2>1 DEF Phase, Promised
    <2> QED
      BY <1>2, <2>2, PhaseStep DEF Enqueue
  <1>3. ASSUME NEW k \in Jobs, ReplayTerminalJob(k)
        PROVE  [Promise!PNext]_(Promise!pvars)
    <2>1. /\ UNCHANGED effect
          /\ row[k].status = "dead_letter" /\ row'[k].status = "queued"
          /\ \A j \in Jobs \ {k} : row'[j] = row[j]
      BY <1>1, <1>3 DEF ReplayTerminalJob, IndInv, TypeOK
    <2>2. CASE k \in Promised
      <3>1. /\ PhaseOf[k] = "dead" /\ PhaseOf' = [PhaseOf EXCEPT ![k] = "pending"]
            /\ PublishedOf' = PublishedOf
        BY <2>1, <2>2 DEF PhaseOf, PublishedOf, Phase, Promised
      <3> QED
        BY <2>2, <3>1 DEF Promise!PNext, Promise!Revive, PhaseOf, PublishedOf, Promised
    <2>3. CASE k \notin Promised
      <3>1. \A j \in Promised : Phase(row'[j].status) = Phase(row[j].status)
        BY <2>1, <2>3 DEF Promised
      <3> QED
        BY <2>1, <3>1, PhaseStep
    <2> QED
      BY <2>2, <2>3
  <1>4. ASSUME NEW k \in Jobs, BecomeDue(k) \/ ExpireLease(k)
        PROVE  [Promise!PNext]_(Promise!pvars)
    <2>1. UNCHANGED effect /\ \A j \in Promised : row'[j].status = row[j].status
      BY <1>4, TimeKeepsStatus DEF BecomeDue, ExpireLease, IndInv, Promised
    <2> QED
      BY <2>1, PhaseStep
  <1> QED
    BY <1>2, <1>3, <1>4

\* The outbox implements the promise: leases, tokens, retries, deferrals,
\* crashes and replays are invisible to whoever waits for a job's effect.
THEOREM KeepsPromise == Spec => ImplementsPromise
  <1>1. Init => Promise!PInit
    BY DEF Init, AbsentRow, Phase, Promise!PInit
  <1>2. IndInv /\ [Next]_vars => [Promise!PNext]_(Promise!pvars)
    <2> SUFFICES ASSUME IndInv, [Next]_vars
                 PROVE  [Promise!PNext]_(Promise!pvars)
      OBVIOUS
    <2>1. CASE \/ \E S \in Commands : Enqueue(S)
               \/ \E j \in Jobs : ReplayTerminalJob(j) \/ BecomeDue(j) \/ ExpireLease(j)
      BY <2>1, QueueRefines
    <2>2. ASSUME NEW w \in Workers, ClaimStep(w)
          PROVE  [Promise!PNext]_(Promise!pvars)
      BY <2>2, ClaimRefines
    <2>3. CASE UNCHANGED <<row, effect>>
      BY <2>3, PhaseStep
    <2>4. ASSUME NEW w \in Workers, Process(w)
          PROVE  [Promise!PNext]_(Promise!pvars)
      <3>1. PICK c \in Held(w) :
              \/ StartJob(w, c) \/ LoadState(w, c)
              \/ \E confirmed \in BOOLEAN : ApplyClaimed(w, c, confirmed)
              \/ FinalizePayload(w, c) \/ Acknowledge(w, c) \/ AcknowledgeLost(w, c)
        BY <2>4 DEF Process
      <3>2. c \in Claim
        BY <3>1 DEF Held, IndInv, TypeOK
      <3>3. CASE FinalizePayload(w, c)
        <4>1. UNCHANGED row /\ \A j \in Promised : effect'[j] = effect[j]
          BY <3>2, <3>3 DEF FinalizePayload, Promised, IndInv, TypeOK
        <4>2. PhaseOf' = PhaseOf /\ PublishedOf' = PublishedOf
          BY <4>1 DEF PhaseOf, PublishedOf
        <4> QED
          BY <4>2 DEF Promise!pvars, PhaseOf, PublishedOf, Promised
      <3> QED
        BY <2>3, <3>1, <3>2, <3>3, ApplyRefines, AcknowledgeRefines
        DEF StartJob, LoadState, AcknowledgeLost, dbVars
    <2> QED
      BY <2>1, <2>2, <2>3, <2>4 DEF Next, ProcessFails, Signal, Exit, dbVars, vars
  <1> QED
    BY <1>1, <1>2, Inductive, PTL DEF Spec, ImplementsPromise, Promise!PSpec

=============================================================================
