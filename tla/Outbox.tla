------------------------------- MODULE Outbox -------------------------------
(***************************************************************************)
(* The PostgreSQL outbox and the worker processes that drain it: enqueue,  *)
(* claim with a lease, process, publish through the lease, acknowledge,    *)
(* defer, fail, dead-letter and operator replay.                           *)
(*                                                                         *)
(* Wall-clock time is abstracted to the two facts the queue tests: a job   *)
(* is "due" (run_after <= now()) and a lease is "live" or "expired"        *)
(* (locked_at against the five-minute lease).  Time passes in the actions  *)
(* BecomeDue and ExpireLease, in any order.                                *)
(***************************************************************************)
EXTENDS Naturals, FiniteSets

CONSTANTS
    Jobs,          \* rows of outbox_jobs, one per (tenant, deduplication key)
    Finalizers,    \* the jobs of kind finalize_payload
    Commands,      \* the sets of jobs one command transaction enqueues
    Requires,      \* Requires[j]: finalize_payload jobs of the payload j reads
    Awaits,        \* Awaits[j]: scan parsers whose projection a parse_vex job needs
    Workers,       \* evydence-worker processes
    Tokens,        \* lease tokens; a claim draws one that nobody holds
    NoToken,       \* lease_token IS NULL
    MaxAttempts,   \* outbox_jobs.max_attempts
    BatchSize      \* workerLoopConfig.BatchSize

ASSUME OutboxAssumption ==
    /\ Finalizers \subseteq Jobs
    /\ Commands \subseteq SUBSET Jobs
    /\ Requires \in [Jobs -> SUBSET Finalizers]
    /\ Awaits \in [Jobs -> SUBSET (Jobs \ Finalizers)]
    /\ \A j \in Finalizers : Requires[j] = {} /\ Awaits[j] = {}
    /\ NoToken \notin Tokens
    /\ MaxAttempts \in Nat \ {0}
    /\ BatchSize \in Nat \ {0}

VARIABLES
    row,        \* row[j]: the outbox_jobs row
    before,     \* <<j, k>>: j's run_after is older, or equal and j's kind goes first
    history,    \* history[j]: the newest outbox_job_attempts record of j
    effect,     \* effect[j]: how often j's durable effect was written
    preceding,  \* preceding[j]: awaited scans uploaded no later than j (history)
    batch,      \* batch[w]: claims returned to w and not yet started
    current,    \* current[w]: the claim w processes, at most one
    stage,      \* stage[w]: where w is in drainableWorkerJob
    result,     \* result[w]: classified outcome of processing current[w]
    stopping    \* stopping[w]: the root context of w is cancelled

dbVars == <<row, before, history, effect, preceding>>
workerVars == <<batch, current, stage, result, stopping>>
vars == <<row, before, history, effect, preceding, batch, current, stage, result, stopping>>

Claim == [job : Jobs, token : Tokens]

Active == {"queued", "retrying", "running"}
Status == {"absent", "succeeded", "dead_letter"} \cup Active

\* normalized failure classes, with the one code that is deferred; permanent
\* and poisoned failures end a job alike.
Result == {"ok", "transient", "dependency_pending", "permanent"}

Row == [status : Status, attempts : Nat, due : BOOLEAN,
        lease : {"none", "live", "expired"}, token : Tokens \cup {NoToken}]

AbsentRow == [status |-> "absent", attempts |-> 0, due |-> FALSE,
              lease |-> "none", token |-> NoToken]

\* A record of outbox_job_attempts.  The table only grows; the model keeps
\* the newest record of each job, and what may follow it is a property.
AttemptRecord ==
    [attempt : Nat, outcome : {"none", "claimed", "succeeded", "deferred", "retrying",
                               "dead_letter", "replayed"}]

Entry(n, o) == [attempt |-> n, outcome |-> o]

Record(j, n, o) == history' = [history EXCEPT ![j] = Entry(n, o)]

Init ==
    /\ row = [j \in Jobs |-> AbsentRow]
    /\ before = {}
    /\ history = [j \in Jobs |-> Entry(0, "none")]
    /\ effect = [j \in Jobs |-> 0]
    /\ preceding = [j \in Jobs |-> {}]
    /\ batch = [w \in Workers |-> {}]
    /\ current = [w \in Workers |-> {}]
    /\ stage = [w \in Workers |-> "between"]
    /\ result = [w \in Workers |-> "ok"]
    /\ stopping = [w \in Workers |-> FALSE]

\* The claims a worker process still knows a token for.
Held(w) == batch[w] \cup current[w]

\* The jobs in S receive run_after = now(): every other due row is older.
\* Rows of one transaction share now(), and then finalize_payload goes first.
MoveLast(S) ==
    { p \in before : p[1] \notin S /\ p[2] \notin S }
        \cup ((Jobs \ S) \X S)
        \cup ((S \cap Finalizers) \X (S \ Finalizers))

-----------------------------------------------------------------------------
(* Producers and operators                                                 *)

\* A committed command transaction: rows whose deduplication key exists are
\* left alone, whatever their status.
Enqueue(S) ==
    LET fresh == { j \in S : row[j].status = "absent" } IN
    /\ row' = [j \in Jobs |->
                 IF j \in fresh
                 THEN [AbsentRow EXCEPT !.status = "queued", !.due = TRUE]
                 ELSE row[j]]
    /\ before' = MoveLast(fresh)
    /\ preceding' = [j \in Jobs |->
                       IF j \in fresh
                       THEN { d \in Awaits[j] : d \in S \/ row[d].status # "absent" }
                       ELSE preceding[j]]
    /\ UNCHANGED <<history, effect, workerVars>>

\* Mutant: any finished job can be replayed.
ReplayTerminalJob_AnyFinished(j) ==
    /\ row[j].status \in {"dead_letter", "succeeded"}
    /\ row' = [row EXCEPT ![j] = [AbsentRow EXCEPT !.status = "queued", !.due = TRUE]]
    /\ before' = MoveLast({j})
    /\ Record(j, 0, "replayed")
    /\ UNCHANGED <<effect, preceding, workerVars>>

\* Operator replay: only from dead_letter, with a fresh attempt budget.
ReplayTerminalJob(j) ==
    /\ row[j].status = "dead_letter"
    /\ row' = [row EXCEPT ![j] = [AbsentRow EXCEPT !.status = "queued", !.due = TRUE]]
    /\ before' = MoveLast({j})
    /\ Record(j, 0, "replayed")
    /\ UNCHANGED <<effect, preceding, workerVars>>

-----------------------------------------------------------------------------
(* Time                                                                    *)

BecomeDue(j) ==
    /\ row[j].status = "retrying"
    /\ ~row[j].due
    /\ row' = [row EXCEPT ![j].due = TRUE]
    /\ before' = MoveLast({j})
    /\ UNCHANGED <<history, effect, preceding, workerVars>>

ExpireLease(j) ==
    /\ row[j].lease = "live"
    /\ row' = [row EXCEPT ![j].lease = "expired"]
    /\ UNCHANGED <<before, history, effect, preceding, workerVars>>

-----------------------------------------------------------------------------
(* Claiming                                                                *)

\* Expired final attempts, made terminal at the start of every claim.
ExpiredFinal ==
    { j \in Jobs : /\ row[j].status = "running"
                   /\ row[j].lease = "expired"
                   /\ row[j].attempts >= MaxAttempts }

Claimable ==
    { j \in Jobs :
        \/ row[j].status \in {"queued", "retrying"} /\ row[j].due
        \/ /\ row[j].status = "running"
           /\ row[j].lease = "expired"
           /\ row[j].attempts < MaxAttempts }

\* Mutant: newest rows first.
NewestFirst(S) ==
    /\ S \subseteq Claimable
    /\ Cardinality(S) <= BatchSize
    /\ S # Claimable => Cardinality(S) = BatchSize
    /\ \A j \in S, k \in Claimable \ S : <<j, k>> \notin before

\* ORDER BY run_after, kind LIMIT BatchSize: S takes the oldest rows.  SKIP
\* LOCKED serialises this transaction after the one that holds the row.
OldestFirst(S) ==
    /\ S \subseteq Claimable
    /\ Cardinality(S) <= BatchSize
    /\ S # Claimable => Cardinality(S) = BatchSize
    /\ \A j \in S, k \in Claimable \ S : <<k, j>> \notin before

TokensInUse(j) ==
    {row[j].token} \cup { c.token : c \in { d \in UNION { Held(w) : w \in Workers } : d.job = j } }

\* Mutant: a reclaim keeps the token of the expired lease.
NewToken_Kept(j) ==
    IF row[j].token # NoToken THEN row[j].token
    ELSE CHOOSE t \in Tokens : t \notin TokensInUse(j)

\* md5(id, clock, random): a token no row and no process still holds.
NewToken(j) == CHOOSE t \in Tokens : t \notin TokensInUse(j)

Claimed(j) ==
    [status |-> "running", attempts |-> row[j].attempts + 1, due |-> TRUE,
     lease |-> "live", token |-> NewToken(j)]

\* The row leaves "running": the lease is given up.
Released(j, status) ==
    [row[j] EXCEPT !.status = status, !.lease = "none", !.token = NoToken]

\* One claim transaction.  When delivered is FALSE it commits but the worker
\* sees an error, so the claimed rows run with tokens nobody holds.
ClaimJobs(w, S, delivered) ==
    /\ Held(w) = {} /\ ~stopping[w]
    /\ OldestFirst(S)
    /\ S \cup ExpiredFinal # {}
    /\ \A j \in S : \E t \in Tokens : t \notin TokensInUse(j)
    /\ row' = [j \in Jobs |-> CASE j \in S -> Claimed(j)
                                [] j \in ExpiredFinal -> Released(j, "dead_letter")
                                [] OTHER -> row[j]]
    /\ history' = [j \in Jobs |-> CASE j \in S -> Entry(row[j].attempts + 1, "claimed")
                                    [] j \in ExpiredFinal -> Entry(row[j].attempts, "dead_letter")
                                    [] OTHER -> history[j]]
    /\ batch' = [batch EXCEPT ![w] =
                   IF delivered THEN { [job |-> j, token |-> NewToken(j)] : j \in S }
                                ELSE {}]
    /\ UNCHANGED <<before, effect, preceding, current, stage, result, stopping>>

-----------------------------------------------------------------------------
(* Processing one claimed job                                              *)

\* prioritizePayloadFinalization: finalize_payload jobs of the batch first.
StartJob(w, c) ==
    /\ stage[w] = "between" /\ ~stopping[w]
    /\ c \in batch[w]
    /\ c.job \in Finalizers \/ \A d \in batch[w] : d.job \notin Finalizers
    /\ batch' = [batch EXCEPT ![w] = @ \ {c}]
    /\ current' = [current EXCEPT ![w] = {c}]
    /\ stage' = [stage EXCEPT ![w] = "started"]
    /\ UNCHANGED <<dbVars, result, stopping>>

\* Processing returned.  A failure seen after the signal is not acknowledged:
\* the worker leaves the job and its lease behind.
Decide(w, r) ==
    IF stopping[w] /\ r # "ok"
    THEN /\ stage' = [stage EXCEPT ![w] = "between"]
         /\ current' = [current EXCEPT ![w] = {}]
         /\ UNCHANGED result
    ELSE /\ stage' = [stage EXCEPT ![w] = "decided"]
         /\ result' = [result EXCEPT ![w] = r]
         /\ UNCHANGED current

\* Mutants: the gate before publication is not evaluated.
NoneOf(j) == {}
NotPending(j) == FALSE

\* The payload object of the job has no finalized metadata row yet.
PayloadPending(j) == \E p \in Requires[j] : effect[p] = 0

\* The uploaded scans of the release whose projection is still empty.  A scan
\* that is uploaded later is not in state.Scans and holds nothing up.
PendingScans(j) == { d \in Awaits[j] : row[d].status # "absent" /\ effect[d] = 0 }

\* Reading the durable state: an effect that is already there completes the
\* job, an empty scan projection defers it or, when nobody can fill it any
\* more, ends it, and an unfinalized payload makes it retry.  The scans come
\* first: completedVEXDecisionJob runs before verifyJobObject.  Left out: the
\* VEX import report that is marked failed beside a permanent failure, and the
\* reload between two looks at a scan's job (VexDependency).
LoadState(w, c) ==
    LET j == c.job IN
    /\ c \in current[w] /\ stage[w] = "started"
    /\ \/ /\ j \notin Finalizers /\ effect[j] > 0
          /\ Decide(w, "ok")
       \/ /\ j \notin Finalizers /\ effect[j] = 0
          /\ \E d \in PendingScans(j) : row[d].status \notin Active
          /\ Decide(w, "permanent")
       \/ /\ j \notin Finalizers /\ effect[j] = 0
          /\ PendingScans(j) # {}
          /\ \A d \in PendingScans(j) : row[d].status \in Active
          /\ Decide(w, "dependency_pending")
       \/ /\ j \notin Finalizers /\ effect[j] = 0
          /\ PendingScans(j) = {}
          /\ PayloadPending(j)
          /\ Decide(w, "transient")
       \/ /\ j \in Finalizers \/ ( /\ effect[j] = 0
                                 /\ PendingScans(j) = {}
                                 /\ ~PayloadPending(j) )
          /\ stage' = [stage EXCEPT ![w] = "loaded"]
          /\ UNCHANGED <<current, result>>
    /\ UNCHANGED <<dbVars, batch, stopping>>

\* Any step of the handler may fail: storage, provider or parser errors.
ProcessFails(w, r) ==
    /\ stage[w] \in {"started", "loaded"}
    /\ r \in {"transient", "permanent"}
    /\ Decide(w, r)
    /\ UNCHANGED <<dbVars, batch, stopping>>

\* Mutant: the acknowledgement only names the job.
OwnsLease_AnyRow(c) == row[c.job].status # "absent"

\* The claim is still the job's lease: status and token.
OwnsLease(c) ==
    row[c.job].status = "running" /\ row[c.job].token = c.token

LiveLease(c) == OwnsLease(c) /\ row[c.job].lease = "live"

\* ApplyClaimedReleaseLedgerMutation: the effect and the renewed lease commit
\* together, or the claim conflicts.  confirmed is FALSE when the commit
\* succeeds and the worker sees an error.
ApplyClaimed(w, c, confirmed) ==
    /\ c \in current[w] /\ stage[w] = "loaded"
    /\ c.job \notin Finalizers
    /\ IF LiveLease(c)
       THEN /\ effect' = [effect EXCEPT ![c.job] = @ + 1]
            /\ Decide(w, IF confirmed THEN "ok" ELSE "transient")
       ELSE /\ UNCHANGED effect
            /\ Decide(w, "transient")
    /\ UNCHANGED <<row, before, history, preceding, batch, stopping>>

\* finalize_payload publishes through the payload row, not through its claim.
FinalizePayload(w, c) ==
    /\ c \in current[w] /\ stage[w] = "loaded"
    /\ c.job \in Finalizers
    /\ effect' = [effect EXCEPT ![c.job] = 1]
    /\ Decide(w, "ok")
    /\ UNCHANGED <<row, before, history, preceding, batch, stopping>>

-----------------------------------------------------------------------------
(* Acknowledging                                                           *)

CompleteJob(c) ==
    /\ OwnsLease(c)
    /\ row' = [row EXCEPT ![c.job] = Released(c.job, "succeeded")]
    /\ Record(c.job, row[c.job].attempts, "succeeded")

DeferJob(c) ==
    /\ LiveLease(c) /\ row[c.job].attempts > 0
    /\ row' = [row EXCEPT ![c.job] =
                 [Released(c.job, "retrying") EXCEPT !.attempts = row[c.job].attempts - 1,
                                                     !.due = FALSE]]
    /\ Record(c.job, row[c.job].attempts, "deferred")

FailRow(c, status) ==
    /\ OwnsLease(c)
    /\ row' = [row EXCEPT ![c.job] =
                 [Released(c.job, status) EXCEPT !.due = row[c.job].due /\ status # "retrying"]]

\* Mutants: one attempt too many; an unknown status; always recorded as a retry.
FailJob_OneMore(c, r) ==
    LET retry == r = "transient" /\ row[c.job].attempts <= MaxAttempts
        status == IF retry THEN "retrying" ELSE "dead_letter" IN
    FailRow(c, status) /\ Record(c.job, row[c.job].attempts, status)

FailJob_Failed(c, r) ==
    FailRow(c, "failed") /\ Record(c.job, row[c.job].attempts, "dead_letter")

FailJob_RecordsRetry(c, r) ==
    LET retry == r = "transient" /\ row[c.job].attempts < MaxAttempts
        status == IF retry THEN "retrying" ELSE "dead_letter" IN
    FailRow(c, status) /\ Record(c.job, row[c.job].attempts, "retrying")

FailJob(c, r) ==
    LET retry == r = "transient" /\ row[c.job].attempts < MaxAttempts
        status == IF retry THEN "retrying" ELSE "dead_letter" IN
    FailRow(c, status) /\ Record(c.job, row[c.job].attempts, status)

Outcome(w, c) ==
    \/ result[w] = "ok" /\ CompleteJob(c)
    \/ result[w] = "dependency_pending" /\ DeferJob(c)
    \/ result[w] \in {"transient", "permanent"} /\ FailJob(c, result[w])

\* The worker leaves the job, whatever the acknowledgement returned.
LeaveJob(w) ==
    /\ current' = [current EXCEPT ![w] = {}]
    /\ stage' = [stage EXCEPT ![w] = "between"]
    /\ result' = [result EXCEPT ![w] = "ok"]
    /\ UNCHANGED <<batch, stopping>>

Acknowledge(w, c) ==
    /\ c \in current[w] /\ stage[w] = "decided"
    /\ Outcome(w, c)
    /\ LeaveJob(w)
    /\ UNCHANGED <<before, effect, preceding>>

\* The acknowledgement conflicts or does not reach the database.
AcknowledgeLost(w, c) ==
    /\ c \in current[w] /\ stage[w] = "decided"
    /\ LeaveJob(w)
    /\ UNCHANGED dbVars

-----------------------------------------------------------------------------
(* Process lifecycle                                                       *)

\* The root context is cancelled while a job is processed; a signal between
\* two jobs ends the process at once (Exit).
Signal(w) ==
    /\ current[w] # {} /\ ~stopping[w]
    /\ stopping' = [stopping EXCEPT ![w] = TRUE]
    /\ UNCHANGED <<dbVars, batch, current, stage, result>>

\* The process ends: at a job boundary after a signal, at the drain deadline,
\* after a failure seen while draining, or by a crash anywhere.  Its claims
\* stay leased; a new process takes its place.
Exit(w) ==
    /\ Held(w) # {} \/ stopping[w]
    /\ batch' = [batch EXCEPT ![w] = {}]
    /\ current' = [current EXCEPT ![w] = {}]
    /\ stage' = [stage EXCEPT ![w] = "between"]
    /\ result' = [result EXCEPT ![w] = "ok"]
    /\ stopping' = [stopping EXCEPT ![w] = FALSE]
    /\ UNCHANGED dbVars

-----------------------------------------------------------------------------
Process(w) ==
    \E c \in Held(w) :
        \/ StartJob(w, c)
        \/ LoadState(w, c)
        \/ \E confirmed \in BOOLEAN : ApplyClaimed(w, c, confirmed)
        \/ FinalizePayload(w, c)
        \/ Acknowledge(w, c)
        \/ AcknowledgeLost(w, c)

ClaimStep(w) ==
    \E S \in SUBSET Claimable, delivered \in BOOLEAN : ClaimJobs(w, S, delivered)

Next ==
    \/ \E S \in Commands : Enqueue(S)
    \/ \E j \in Jobs : ReplayTerminalJob(j) \/ BecomeDue(j) \/ ExpireLease(j)
    \/ \E w \in Workers :
          \/ ClaimStep(w)
          \/ Process(w)
          \/ \E r \in Result : ProcessFails(w, r)
          \/ Signal(w)
          \/ Exit(w)

Spec == Init /\ [][Next]_vars

\* Time passes, a running worker keeps polling and never stays inside one
\* step forever, and a signalled one ends by its drain deadline.  Nothing is
\* assumed of operators, signals, crashes, or of which step of a job fails.
Fairness ==
    /\ \A j \in Jobs : WF_vars(BecomeDue(j)) /\ WF_vars(ExpireLease(j))
    /\ \A w \in Workers : /\ WF_vars(ClaimStep(w))
                           /\ WF_vars(Process(w))
                           /\ WF_vars(stopping[w] /\ Exit(w))

FairSpec == Spec /\ Fairness

-----------------------------------------------------------------------------
(* Properties                                                              *)

\* The shape of the tables and of the worker processes' local state.
TypeOK ==
    /\ row \in [Jobs -> Row]
    /\ before \subseteq Jobs \X Jobs
    /\ history \in [Jobs -> AttemptRecord]
    /\ effect \in [Jobs -> Nat]
    /\ preceding \in [Jobs -> SUBSET Jobs]
    /\ batch \in [Workers -> SUBSET Claim]
    /\ current \in [Workers -> SUBSET Claim]
    /\ stage \in [Workers -> {"between", "started", "loaded", "decided"}]
    /\ result \in [Workers -> Result]
    /\ stopping \in [Workers -> BOOLEAN]

\* Fencing: of all the claims that processes still hold for a job, at most one
\* carries the token of the row, so an acknowledgement or a publication of any
\* other one conflicts (CompleteJob, FailJob, DeferJob, ApplyClaimed...).
LeaseExclusive ==
    \A v, w \in Workers : \A c \in Held(v), d \in Held(w) :
        c.job = d.job /\ row[c.job].token = c.token /\ row[c.job].token = d.token
            => v = w /\ c = d

\* The attempt budget: ClaimJobs increments attempts of queued and retrying
\* rows without testing max_attempts, so every other statement must keep the
\* rows it requeues below it.
AttemptBudget ==
    \A j \in Jobs :
        /\ row[j].attempts <= MaxAttempts
        /\ row[j].status \in {"queued", "retrying"} => row[j].attempts < MaxAttempts
        /\ row[j].status = "running" => row[j].attempts > 0

\* The effect of a job that publishes through its claim is written at most
\* once, whatever crashes, expiries, uncertain commits and replays happen.
EffectOnce == \A j \in Jobs \ Finalizers : effect[j] <= 1

\* A job recorded as succeeded has its effect in the database: no worker
\* acknowledges work another attempt did not finish.
SucceededHasEffect ==
    \A j \in Jobs : row[j].status = "succeeded" => effect[j] > 0

\* Claim order does not matter: an effect is published only after the payload
\* it was parsed from is finalized and every scan that was uploaded no later
\* than the VEX document is projected, in whatever order workers claim, defer,
\* expire or replay the jobs.  (A later scan is not waited for.)
NoPrematurePublish ==
    \A j \in Jobs : effect[j] > 0 =>
        \A d \in Requires[j] \cup preceding[j] : effect[d] > 0

\* The newest attempt record explains the row: it names the attempt that the
\* row counts, or the one a deferral gave back.
HistoryExplainsRow ==
    \A j \in Jobs :
        LET n == row[j].attempts IN
        history[j] \in CASE row[j].status = "running" -> {Entry(n, "claimed")}
                         [] row[j].status = "succeeded" -> {Entry(n, "succeeded")}
                         [] row[j].status = "dead_letter" -> {Entry(n, "dead_letter")}
                         [] row[j].status = "retrying" -> {Entry(n, "retrying"), Entry(n + 1, "deferred")}
                         [] OTHER -> {Entry(0, "none"), Entry(0, "replayed")}

\* The history reads as a log of attempts: every outcome closes the attempt
\* that the record before it claimed, so no outcome is recorded twice or for
\* an attempt that a later claim replaced.
OutcomeClosesItsClaim ==
    [][\A j \in Jobs :
         history'[j] # history[j] /\ history'[j].outcome \notin {"claimed", "replayed"}
           => history[j] = Entry(history'[j].attempt, "claimed")]_vars

\* The phase of JobPromise that a row's status stands for.
Phase(s) == CASE s = "absent" -> "absent"
              [] s = "succeeded" -> "done"
              [] s = "dead_letter" -> "dead"
              [] OTHER -> "pending"

Promise == INSTANCE JobPromise WITH
    Promised <- Jobs \ Finalizers,
    phase <- [j \in Jobs \ Finalizers |-> Phase(row[j].status)],
    published <- [j \in Jobs \ Finalizers |-> effect[j]]

\* Refinement: the claim, apply, acknowledge and replay statements keep the
\* promise of JobPromise for every job that publishes through its claim.
ImplementsPromise == Promise!PSpec

\* Every accepted job is settled, even when workers crash again and again and
\* parsers wait for each other: it succeeds or is dead-lettered once operators
\* stop replaying.  (Replaying a scan parser forever keeps the VEX parser that
\* waits for it deferred forever: deferral spends no attempt.)
NoReplay == \A j \in Jobs : ~ReplayTerminalJob(j)

JobsSettle ==
    <>[][NoReplay]_vars =>
        \A j \in Jobs :
            row[j].status \in Active ~> row[j].status \in {"succeeded", "dead_letter"}

=============================================================================
