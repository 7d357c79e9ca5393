# Evydence: TLA+ models and proofs

Evydence is an evidence ledger: an API process accepts uploads and commands
over HTTP, stores rows in PostgreSQL and payload bytes in an object store, and
worker processes parse, verify and finalize what was uploaded. This directory
models the parts whose correctness depends on interleavings, crashes, timeouts
and retries, checks them with TLC on small instances, and proves their safety
properties, and that outbox and audit chain implement their abstract
specifications, with TLAPS for instances of every size.

## The system

| Component | State | Operations | Interacts with |
|---|---|---|---|
| Outbox queue (`adapters/postgres/outbox.go`) | `outbox_jobs`, `outbox_job_attempts` | enqueue, claim, complete, defer, fail, replay, publish through a claim | every command transaction enqueues; workers claim |
| Worker loop (`cmd/evydence-worker/worker_loop.go`) | batch of claims, root context | claim, process, acknowledge, drain on a signal | outbox, handlers |
| Worker handlers (`cmd/evydence-worker/main.go`) | none of their own | finalize payloads, parse documents, map VEX decisions | outbox, payload rows, object store |
| Payload ingestion (`app/object_ingestion.go`, `adapters/postgres/object_payloads.go`) | `object_payloads`, staging and final keys | stage, record, finalize, mark failed or orphaned | object stores, outbox |
| Object stores (`adapters/objectstore`) | objects and sidecars | put, get, copy, remove | payload ingestion, reconciliation |
| Reconciliation (`app/object_reconciliation.go`, `object_reconciliation_apply.go`) | none between runs | list, inspect both keys, apply verdicts | payload rows, object stores |
| Idempotency and unit of work (`app/idempotency_unit_of_work.go`, `repositories/idempotency.go`) | `idempotency_records` | reserve, complete, fail, expire, take over | every command |
| Audit chain (`repositories.go`, `store.go`, `verification/app`) | per-tenant entries and sequence row, Merkle batches, signing keys | append, reconcile, verify, checkpoint, rotate, revoke, back up | every command appends |
| Single sign-on (`identity/app`, `adapters/postgres/authentication.go`) | login requests, assertion markers, sessions, directory | begin, exchange, create, authenticate, revoke | HTTP layer, audit chain |
| Portal access (`package/app`, `adapters/httpapi/failure_budget.go`) | grants, failure budget of a process | issue, look up, access, revoke | HTTP layer, audit chain |
| Release, risk, operations, integration contexts | domain rows | guarded state transitions, registrations, reports | unit of work, audit chain |
| HTTP layer, CLI, parsers, queries, configuration | none | decoding, formatting, reading | the contexts |

What is hard here: a worker can outlive its five-minute lease and work beside
its successor; every commit can be uncertain to the process that issued it;
bytes in the object store and rows in PostgreSQL are written by separate
calls with crashes in between; jobs of one upload run in any order on any
worker; an operator can replay a job or apply a reconciliation verdict at any
moment. Commands of one tenant meet in its audit chain, whose order is decided
by locks that each command takes in its own statements. Single sign-on reads
its facts in five separate transactions and decides in a sixth; a portal
request spans a rate limit, a lookup, a transaction and a clock that is read
twice. The `hazards` of `PROJECT.json` list the places where this bites and
the properties that would catch it.

What makes each part correct:

* queue and workers: a lost lease has no effect, no attempt beyond the budget,
  a history that explains each row, one effect per job, effects in dependency
  order, and every job settles;
* payloads: a finalized row has a whole object, bytes are never lost, the
  final key never regresses, rows leave service only for objects that are gone,
  and a crashed finalization can be repeated;
* idempotency: durable effects once per key and retention, a row that replays
  them for all of it, answers that agree with what is durable, and no attempt
  that waits for ever;
* audit chain: numbers without gaps, each entry linked to the one before it,
  certificates that come right after what they certify, checkpoints that stay
  verifiable through rotation and revocation, and one order of locks;
* single sign-on: a login and an assertion are used once, a session rests on
  facts that hold when it is committed, and a dead session stays dead;
* portal access: a budget of failures per minute that overlap and late
  completions cannot stretch, counters that the audit log explains, and
  packages released on live grants only.

## Modules

| Module | Models |
|---|---|
| `JobPromise` | what the outbox promises of a job, without workers, leases or retries |
| `Outbox` | queue tables, worker processes, time, operators; refines `JobPromise` |
| `OutboxProofs` | inductive invariant of `Outbox`, safety theorems, refinement |
| `MCOutbox` | instances of `Outbox` |
| `ObjectPayload` | one payload: row, two keys, uploads, finalizers, reconciliation |
| `ObjectPayloadProofs` | inductive invariants of `ObjectPayload`, and the conditions under which its conditional properties hold |
| `MCObjectPayload` | instances of `ObjectPayload` |
| `Idempotency` | one idempotency key: its row, the attempts that use it, expiry |
| `IdempotencyProofs` | inductive invariant of `Idempotency` and its safety theorems |
| `MCIdempotency` | instances of `Idempotency` |
| `VexDependency` | the three reads of `vexDecisionDependencyError` beside the scans' jobs, which `Outbox` takes as one step |
| `VexDependencyProofs` | what the gate's reads show, whatever happens between them |
| `AuditLog` | an append-only log without repetition: what the chain promises |
| `AuditChain` | one tenant's chain, keys, batches and ten commands as lock and statement sequences; refines `AuditLog` |
| `AuditChainProofs` | inductive invariants of locks and chain, and the refinement of `AuditLog` |
| `AuditKeyProofs` | inductive invariants of keys, batches and verdicts of `AuditChain` |
| `SsoLogin` | one tenant's login requests, exchanges, sessions and administration |
| `SsoLoginProofs` | inductive invariant of `SsoLogin` and its theorems |
| `PortalAccess` | failure budget, portal grants and the token command |
| `PortalAccessProofs` | inductive invariants of the failure budget and of the grants |
| `MCVexDependency`, `MCAuditChain`, `MCSsoLogin`, `MCPortalAccess` | their instances |

Definitions ending in a suffix (`FailJob_OneMore`) are mutants: plausible bugs
of the definition they are named after, each shown by TLC to violate the
property it is paired with in `PROJECT.json`.

### Outbox

`row[j]` is the `outbox_jobs` row of a deduplication key, `history[j]` the
newest `outbox_job_attempts` record, `effect[j]` how often the job's effect was
written. The clock appears as two facts: a row is `due`, a lease is `live` or
`expired`; `BecomeDue` and `ExpireLease` may happen whenever the row allows,
so any relation between back-off, lease and processing time is covered.
`before` is the order of `run_after` and kind that `ClaimJobs` sorts by.

| Action | Code |
|---|---|
| `Enqueue(S)` | the jobs of one command transaction, `ON CONFLICT DO NOTHING` |
| `ClaimJobs(w, S, delivered)` | one claim transaction: dead-letters expired last attempts, claims the oldest rows, returns or loses the claims |
| `StartJob`, `LoadState`, `ProcessFails` | batch order, the gates before publication, any failure of a handler |
| `ApplyClaimed` | `ApplyClaimedReleaseLedgerMutation`, with an uncertain commit |
| `FinalizePayload` | the effect of `finalize_payload`, which no lease guards |
| `Acknowledge`, `AcknowledgeLost` | `CompleteJob`, `DeferJob`, `FailJob`, accepted, refused or lost |
| `Signal`, `Exit` | shutdown with drain, deadline, crash and restart |
| `ReplayTerminalJob` | operator replay |

`LoadState` reads projections and job states in one step. The code reads them
in up to three queries and rechecks; `VexDependency` takes them apart. It sees
the scans that have been uploaded (`PendingScans`), like the handler, which
looks at the scans of its state: a VEX document uploaded before a scan of its
release does not wait for it and may publish first. `preceding[j]` remembers
the scans uploaded no later than job `j`, and `NoPrematurePublish` is about
those. The status that the handler writes to a VEX import's report when it fails
is left out: nothing here reads it. A worker that crashes is replaced at once: a
longer absence is a behaviour in which it takes no step.

### ObjectPayload

One payload is enough: rows, keys and jobs of different digests share nothing.
An object is absent, whole with a media type, `torn` (bytes without sidecar,
filesystem only) or `bad` (bytes that do not match the digest). Each provider
call and each statement of `FinalizeStagedObjectPayload`, of the stores'
`finalizePayload` and of `reconcile --apply` is a step, so attempts overlap at
every point. The job is what `Outbox` shows it to be: claimed again after
expiry while the earlier holder goes on, acknowledged only by its holder.
`Events` switches failing calls, lost objects, damaged objects and ageing.
Removing a staged object is one step, although the filesystem store unlinks the
bytes and then the sidecar (`filesystem.go:454`): readers open the bytes first,
so a sidecar alone is a missing object to them. An upload streams the bytes its
digest was computed from; a source that changes in between, which S3's
`stagePayload` (`s3.go:230-244`) detects after writing and removes, is left out.

### Idempotency

One key is enough: keys share nothing. `row` is the committed row of
`idempotency_records`; `holder` and `draft` are the open transaction that has
inserted or locked it, and the row as it sees it. Each attempt takes its
reservation, with its own "now", in `Request`, and then runs `withReservation`:

| Action | Code |
|---|---|
| `ReserveInsert`, `ReserveLock` | the two statements of `Reserve`: the INSERT waits for an uncommitted one, the SELECT FOR UPDATE for the holder |
| `RunSucceeds`, `RunFails`, `RunRetryable` | the command with `Complete`, a failure that goes on to `persistFailure`, an error that leaves no trace |
| `Fail` | the failed row of `persistFailure`, reserved again with the old reservation |
| `Commit`, `CommitLost` | a commit that is durable, known or not, and one that is not |
| `Refuse`, `Crash` | errors before the reservation, death of the process |
| `DeleteExpired`, `Tick` | the retention sweep, which nothing in the repository calls yet, and time |

The clock is shared: skew between API processes is not modelled. `Init` also
allows a pending row that an earlier process left, because `Reserve` handles
it and `TestWithIdempotencyRecoversExpiredPendingAfterProcessRestart` persists
one; the current code never commits one itself
(`NoReservationOutlivesItsTransaction`). So an attempt that meets a running
one with the same key waits for its row and replays its response. It is
answered `IDEMPOTENCY_IN_PROGRESS`, which `docs/api.md:97` describes for an
actively leased key, only for such an inherited row.

### VexDependency

`job[s]` is the outbox row of a scan's parser, `published[s]` its projection,
and `pc` the handler's next statement: `Load`, `CheckJob`, `Reload`,
`RecheckJob`, in the order of the loop over `pendingScanIDs`. Scans are
uploaded, claimed, published, acknowledged, dead-lettered and replayed between
any two of them. After a verdict the VEX job starts again, which stands for
deferral, retry and replay alike.

### AuditChain

A transaction is a sequence of statements (`Program`), one per lock, read or
write of shared state, taken from the command's code; `Step` runs the next one
when its lock is free. `draft[t]` is what the transaction wrote and did not
commit, `view[t]`, `scan[t]`, `batch[t]` and `verdict[t]` what it read and
concluded. Every statement may fail (`Rollback`), and a cycle of waiting
transactions is resolved as PostgreSQL does, by aborting one of them
(`AbortDeadlock`). A hash is the list of what was hashed. One clock, which only
advances, serves all processes: `HistoricalValidityAt` therefore leaves out the
test that a verification is not earlier than the signature, and
`CheckpointVerifies` says nothing of API processes whose clocks disagree. The
commands are:

| Kind | Code |
|---|---|
| `append`, `append_two` | any command, by `audit.Append` once or twice |
| `mutation` | `applyReleaseLedgerMutationTx`: load a projection, then reconcile, rehash and insert its own entries |
| `merkle` | `createMerkleBatch` with `SignMerkleRoot` |
| `rotate`, `revoke` | signing key lifecycle |
| `chain`, `batch`, `checkpoint` | the three verifications, which append a receipt |
| `backup` | `GenerateBackupManifest` |

### SsoLogin

`dir` holds the directory facts an exchange depends on: revisions of trust
material and SAML binding, link, user, roles. An exchange (`xs[x]`) samples its
clock, reads each fact in its own step, verifies the credential, and then runs
its transaction under the tenant's fence: `ValidateSSOExchangeState`, `Consume`,
`Record`, `Commit`. `Record` is the callback with the last look at session,
proof and login (`StillFresh`); time passes between it and `Commit`, and after
`Commit` the code looks once more, but only to withhold the secret. So
`IssuedOnCurrentFacts` judges the directory at the commit, where the fence makes
it meaningful, and everything that expires at the time recorded as the login's
consumption. A SAML assertion may shorten the session (`SessionEnds`). OIDC and
SAML differ in `protocol`; `BeginAuthentication`
prunes old requests and markers as the inserts do. Administration commands take
the fence in one step. `ReadIdentity` and `ValidateActiveSession` are the two
halves of `Authenticate`.

### PortalAccess

`windowStart` and `buckets` are the `failureBudget` of one API process,
`grant` the `customer_portal_access` rows, `draft` the open transaction's row,
audit entries and outcome. A request runs `Arrive` (the reservation of a slot),
`Lookup`, `Judge` and `Authorize` (the two readings of the clock in
`AccessPortalPackage`), `Commit` and `Respond` (the slot is returned or spent);
`Fail` rolls back at any of them. Denials commit like accesses, and a durable
access may still be answered with an error. The clock counts minutes and moves
in both directions.

## Runs

| Run | Instance | Shows |
|---|---|---|
| `outbox_parse` | a finalizer and a parser, 2 workers, batches of 2, 2 attempts, 3 tokens | `TypeOK`, `LeaseExclusive`, `AttemptBudget`, `NoPrematurePublish`, `HistoryExplainsRow`, `OutcomeClosesItsClaim`, `ImplementsPromise` |
| `outbox_settle` | a scan and a VEX parser in any order of upload, 1 worker, 3 attempts | `JobsSettle`, and `NoPrematurePublish` under deferral |
| `payload_stores` | both stores, 2 overlapping finalizers, 2 uploads, failing calls, ageing, reconciliation | `TypeOK`, `FinalizedIsWhole`, `BytesSurvive`, `FinalKeyStable`, `NoFalseQuarantine` |
| `payload_single` | S3, 1 worker, 3 uploads, a crash, lost and damaged objects | `CrashIsRepeatable`, `OrphanedMeansMissing`, `EventuallyFinalized` |
| `idem_retry` | 2 attempts, 2 request bodies, lease 1, retention 2, clock to 4 | `TypeOK`, `OneExecutionPerRetention`, `RetainedExecutionIsReplayable`, `AnswersAreTrue`, `NoReservationOutlivesItsTransaction`, `EveryAttemptEnds` |
| `audit_chain` | 3 transactions of any of the ten commands, 3 key versions, pages of one entry | `TypeOK`, `ChainIntact`, `ReceiptFollowsView`, `CheckpointVerifies`, `OneActiveKey`, `VerdictIsCurrent`, `FenceHolderProceeds`, `ImplementsLog` |
| `sso_login` | 2 exchanges, 2 login requests, 1 assertion, both protocols, table of 2 | `TypeOK`, `OneSessionPerRequest`, `OneSessionPerAssertion`, `LoginTableSound`, `IssuedOnCurrentFacts`, `SessionDeathIsFinal` |
| `portal_token` | 3 requests of 2 clients, 1 grant, budget of 2 for 1 client, lockout at 2, 2 minutes | `BudgetHolds`, `AuditExplainsGrant`, `ServedOnLiveGrant` |
| `payload_orphan` | S3, 2 finalizers | violates `OrphanedMeansMissing` |
| `payload_reupload` | an upload after quarantine | violates `UploadHasJob` |
| `vex_terminal` | 2 scans, 1 replay | violates `TerminalMeansUnpublished` |
| `audit_order` | 3 transactions that verify or create Merkle batches | violates `NoLockInversion` |

Bounds. Two workers are enough for a stale holder beside a current one, and
three tokens give each claim of a job that any process still remembers a
different one (the code draws them at random; two equal ones are not
modelled). Two attempts separate a retry from the last attempt; three are used
where deferral, crash and failure have to combine. Batches of two jobs make a
batch that is only partly processed at a crash. `outbox_parse` forgets the
claim order (`VIEW Unordered`): its batches have room for both jobs, so the
order decides nothing there. The theorems of `OutboxProofs`
do not depend on these numbers. A second upload is needed for re-upload.
Two idempotent attempts are enough for one to execute between the two
transactions of the other, and a clock to twice the retention lets a key expire
and be executed again; the theorems of `IdempotencyProofs` cover any number.
Three transactions let a pair deadlock or interleave while a third commits what
they read; pages of one entry make every verification read in several
statements; three key versions allow two rotations. In `sso_login` the table
holds two requests, so that a second login can present an assertion while the
marker of the first is kept and the marker alone refuses it. Proofs last one or
two ticks and requests two, an unused session dies of idleness after two, and a
SAML assertion may end its session after one, before it is idle; the lifetime of
three that is asked for is not reached by the clock. The view `Relevant` leaves
out what no later step and no property reads: the times of a session that is
dead, and the progress of an exchange that can only be refused, because a
changed fact, an expired login and a missing proof stay so. In `portal_token` two clients compete for one
bucket, three requests overflow a budget of two, two wrong tokens lock the
grant, and two minutes let a request outlive its window. One grant means that a
prefix names one grant or none; two grants of one prefix are refused in the
same branch as none. Symmetry is used in safety runs only. `CHECK_DEADLOCK` is off for the payload runs because uploads are
bounded: a payload that is finalized with no upload left has nothing to do.
The audit and login runs have it off for the same reason: transactions and
calls end, and the clock stops. All payload runs have one media type, because
with two a finalized row can name a media type its object does not have:
`MarkObjectPayloadFinalized` compares neither media type nor `updated_at`. The
bytes are never affected.

Fairness. `Outbox!Fairness`: time passes, a running worker polls and returns
from each step (calls have timeouts), and a signalled one exits by its drain
deadline. Nothing is assumed about crashes, signals, operators or which step
fails. `JobsSettle` assumes that operators stop replaying: replaying a scan
parser forever defers the VEX parser that waits for it forever, because a
deferral spends no attempt. `ObjectPayload!FairSpec`: workers poll and finish
their steps; `EventuallyFinalized` and `CrashIsRepeatable` speak of payloads
whose provider has not lost or damaged an object (`faulty`).
`Idempotency!FairSpec`: an attempt that can take its next step
does (statements and commands return), and nothing is assumed of failures,
the sweep or time. `CHECK_DEADLOCK` is off for the idempotency run because
attempts and clock are bounded. The other runs check safety only.

### Where code and documentation disagree

The four violation runs are findings of `PROJECT.json`, each with the line it
quotes. `payload_orphan` has two more ways to the same state that the model
shows under other constants: with `"error"` in `Events` and one worker, a
repeated job on a finalized payload orphans it when the verifying read fails
(`object_ingestion.go:122`); with `Reconciles = TRUE` and one worker, a
reconciliation that reads the final key before and the staging key after a
finalization orphans it (`object_reconciliation.go:268`).

`vex_terminal`: the gate looks at the queue, reloads the projections, and looks
again. In the trace the job is replayed between the first look and the reload,
the case the second look was written for; it publishes and succeeds after the
reload, so that the second look finds no active job and the reloaded state no
projection. It is taken for a job that can no longer publish, and the VEX import
fails for good although the projection is there. `audit_order`: batch
verification locks the tenant's row before the fence, which the comment at
`merkle_creation.go:23` warns against; `FenceHolderProceeds` shows that it is
the only one of the ten modelled kinds that does. The verifications of release
bundles (`release_bundle_verification.go:22`) and of backups
(`backup_verification.go:23`) take the locks in the same inverted order and are
not modelled.

One more disagreement is not a run: on the filesystem store a crash between
the rename of the bytes and of the sidecar leaves a final object that every
later finalizer refuses, against the comment at `object_ingestion.go:101`
("repeatable after crashes"). `payload_single` with `Stores = {"filesystem"}`
shows it; on S3 `CrashIsRepeatable` holds.

## Proofs

`OutboxProofs` proves for every set of jobs, workers and tokens, every
dependency relation, attempt budget and batch size that satisfy
`OutboxAssumption`:

* `TypeCorrect`, `Fencing`, `Budget`, `HistoryExplains`, `PublishedOnce`,
  `SucceededIsDone`, `DependenciesFirst`: `Spec => []P` for the invariants of
  `outbox_parse`, and for `EffectOnce` and `SucceededHasEffect`, which the
  refinement implies and no run checks again;
* `OutcomesClose`: the action property on the attempt history;
* `KeepsPromise`: `Spec => ImplementsPromise`, the refinement of `JobPromise`.

None of the safety invariants is inductive alone. `IndInv` is `TypeOK`,
`UploadInv`, `RowInv` and `EffectInv`. `UploadInv` says that claims, effects and
the scans in `preceding` belong to rows that exist, so that a handler that looks
at uploaded scans only has looked at all of `preceding`. `RowInv` adds that a row carries a token exactly
while it runs, which lets an acknowledgement that matches a token conclude that
the newest record is the claim it closes. `EffectInv` adds that no two
processes hold the same claim, that a process works on one claim, that a worker
past its reads (`LoadedFresh`) finds its dependencies satisfied and, while its
claim is still the job's lease, the effect unwritten, and that "ok" is decided
only for written effects (`DecidedDone`). `EffectOnce` rests on `LoadedFresh`:
two workers may both have passed the test for an existing effect, but only the
one whose token is in the row can publish, and a new claim makes the old one
conflict. Each conjunct has a lemma per group of actions; the refinement maps
publication to `Publish`, completion to `Finish`, dead-lettering to `GiveUp`,
replay to `Revive`, and every other step to a stutter.

`IdempotencyProofs` proves for every set of attempts and fingerprints, every
lease and every retention that satisfy `IdempotencyAssumption`: `TypeCorrect`,
`ExecutesOnce`, `StaysReplayable`, `TellsTheTruth` and `LeavesNoLease`, that
is `Spec => []P` for each invariant of `idem_retry`. The inductive invariant
`IInv` adds to them that exactly the attempt past its reservation holds the row
(`LockInv`), that a completed row is backed by a durable execution (`RowInv`),
that the holder's draft fits its step (`DraftInv`), that an attempt answers and
executes only at its end (`DoneInv`), and the one fact the argument turns on:
when the holder got the row, the retention of every execution was over
(`AcquiredInv`). An expired row gives it because a retained execution would be
that row; a missing row, because the sweep deletes expired rows only; a
recovered row, because a committed pending row means that nothing was executed
yet. A commit may then replace the row, and a late `persistFailure` cannot.

`PortalAccessProofs` proves for every finite set of requests and any clients,
grants, limits and minutes that satisfy `PortalConstants`: `BudgetIsKept`,
`AuditLogExplains` and `ReleasedOnLiveGrant`. The bound of the budget alone is
not inductive: `BudgetInv` adds that the counters are those of the current
minute's unfinished and failed requests, and `LeaseInv` that no slot belongs to
a later minute than the current one, so that a minute begins empty and a late
completion is recognised. `GrantInv` adds to `AuditExplainsGrant` that the fence
has one holder (`FenceInv`), that its draft differs from the grant it locked by
exactly the entries it is about to record (`DraftFits`), and that a request
records entries once (`AuditInv`); a commit then adds to both sides of each
equation, which the theorems about finite sets count.

`SsoLoginProofs` proves `SsoTypes`, `LoginYieldsOneSession`,
`AssertionYieldsOneSession`, `LoginTableIsSound`, `IssuedOnFacts` and
`DeadSessionsStayDead` for any number of calls, requests, assertions and any
lifetimes. `LoginInv` adds what an exchange may rely on in each phase
(`ExchangeInv`): before its transaction its snapshot, from
`ValidateSSOExchangeState` on the directory itself, because the fence has one
holder and administration writes under it only, and from `Consume` on a pending
request and an assertion on which no session rests any more. The code checks
login, proof and session with different readings of the clock; `Timely` carries
each of them back to the recorded consumption, and past a commit that comes
later than the proof's expiry. `SessionInv` is why
pruning is safe: the marker of a session's assertion is kept until its proof has
expired.

`AuditChainProofs` and `AuditKeyProofs` prove for any number of transactions of
the ten commands, any page size and any number of key versions:
`FenceHolderWaitsForNobody`, `ChainStaysIntact`, `ReceiptsFollowViews` and the
refinement `ChainImplementsLog`; `KeyIsUnique`, `CheckpointsStayVerifiable`,
`VerdictsAreCurrent` and `AuditChainTypes`. The argument has four layers, each
inductive on the one before it:

* `LockInv`: a transaction holds the locks its program has passed, and
  conflicting locks are never held together. Facts about the ten programs, read
  off their statements, say in which order each takes them;
* `ChainInv`: whoever is past the chain's lock sees an intact chain, its own
  entries included, that ends where its next number says; a commit or the
  renumbering of a mutation therefore continues the committed chain;
* `KeyInv`: keys and batches are written after the tenant's row was locked for
  update, so the keys as they will be at a writer's commit (`Overlay`) have one
  active member and keep every signature in its window;
* `VerdictInv`: a verification holds a share of the tenant's row, so the keys it
  judged by are still those when it commits.

The refinement maps the committed entries to their list; only a commit that
appends changes it.

`ObjectPayloadProofs` proves for any number of workers, uploads, crashes,
attempts and media types and for both stores: `PayloadTypes` and
`ReconcileQuarantinesNothing` without further assumption, and, if the provider
neither loses nor damages objects (`ProviderKeeps`), `FinalizedRowsAreWhole`,
`BytesAreNeverLost` and `FinalKeyIsImmutable`. `BaseInv` says that whoever works
on the row has its media type, and that a row that is still fresh is the listed
one. `WholeInv` rests on one observation about the writes (`FinalImproves`):
the final object goes from absent to torn to whole and never back. What a
worker, an upload or a reconciliation has found whole is therefore still whole
when it removes staging or writes the row. `CrashesAreRepeatable` is not true of
every deployment and names what it needs (`Repeatable`, the conditions of
`payload_single`): one worker, no repairs, no failing calls, S3, one media type
and more attempts than crashes; objects may be lost or damaged.
None of these can be dropped: overlap, failing reads and repairs orphan a whole
payload, the filesystem store leaves a torn object behind (see the disagreements
above), and of two media types one upload can stage bytes under a type that the
row of the other does not have, on which attempts fail until none is left.

`VexDependencyProofs` proves for any number of scans `GateOpensOnProjections`
(the gate opens only when every scan of its first snapshot is projected,
whatever happens between its reads, which is what `Outbox` assumes when it takes
them as one step) and `TerminalIsRightWithoutReplay` (without operator replays
the gate closes for good only on a scan without projection, so a replay is the
only way to the counterexample of `vex_terminal`).

Model-checked only: liveness (`JobsSettle`, `EventuallyFinalized`,
`EveryAttemptEnds`), which is out of the prover's reach, and
`OrphanedMeansMissing`, which the code violates as soon as attempts overlap
(`payload_orphan`) and which `payload_single` shows for a worker on its own. Every
other safety property of a passing run is stated by a theorem.

The proof modules add no assumption about the constants to the `ASSUME`s of the
component modules, which TLC evaluates on the runs, except those that the
statement of a theorem names.

## Not modelled

Parsers, canonical JSON, hashing and signatures are functions of document
text. Routing, authorization tables, queries, reports, CLI and configuration
keep no state between requests, and most of the commands of the release, risk,
integration and operations contexts are one guarded insert or update with an
audit entry: their concurrency is that of `Idempotency` and `AuditChain`. API
keys, collectors, organizations and tenant bootstrap are of that kind too. The
in-memory unit of work substitutes for PostgreSQL in tests. A restart of an API
process empties its failure budget, which the code accepts and the model leaves
out. Object lock retention, external
transparency logs and signing providers are outside services. Back-off delays
and lease lengths are abstracted to "any order", so claims that depend on one
timeout being longer than another (a parser's attempts outlasting a crashed
finalizer's lease) are not made.

## Plan

In this order:

1. Composition of `Outbox` and `ObjectPayload`: the job of the payload model
   is the outbox row, shown by refinement.
2. Release and candidate transitions, decision supersession, retention, parser
   replay, migration locking.
