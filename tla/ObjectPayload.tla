--------------------------- MODULE ObjectPayload ---------------------------
(***************************************************************************)
(* The lifecycle of one managed payload, identified by tenant and digest:  *)
(* uploads that stage its bytes and commit its metadata row, workers that  *)
(* run its finalize_payload job, and the reconciliation command.           *)
(*                                                                         *)
(* Bytes are abstract.  An object of the store is absent, "torn" (bytes    *)
(* without the metadata sidecar of the filesystem store), "bad" (bytes     *)
(* that do not have the digest), or a media type m: the right bytes, with  *)
(* media type m.  Every provider call and every statement is a step.       *)
(***************************************************************************)
EXTENDS Naturals

CONSTANTS
    Media,         \* media types that uploads of these bytes declare
    Workers,       \* worker processes
    NoWorker,      \* the job has no lease
    Stores,        \* the object stores the deployment may be configured with
    Reconciles,    \* TRUE: operators run "reconcile --apply"
    Events,        \* what may happen around the program, see below
    MaxUploads,    \* bound: uploads of these bytes
    MaxCrashes,    \* bound: worker crashes
    MaxAttempts    \* outbox_jobs.max_attempts

\* "error": a provider call or statement fails; "loss": an object disappears;
\* "rot": its bytes change; "age": staging gets older than --orphan-staged-after.
ASSUME PayloadAssumption ==
    /\ Media \cap {"absent", "torn", "bad", "none", "missing", "error"} = {}
    /\ NoWorker \notin Workers
    /\ Stores \subseteq {"filesystem", "s3"} /\ Reconciles \in BOOLEAN
    /\ Events \subseteq {"error", "loss", "rot", "age"}
    /\ MaxUploads \in Nat /\ MaxCrashes \in Nat /\ MaxAttempts \in Nat \ {0}

VARIABLES
    store,      \* the configured object store
    faulty,     \* it has lost or damaged an object
    row,        \* object_payloads row: status and media type
    old,        \* created_at is older than the abandoned-staging age
    staging,    \* the object at the staging key
    final,      \* the object at the final key
    upload,     \* media type of the upload that staged and has not committed
    uploads,    \* uploads so far
    job,        \* the finalize_payload job: status, lease holder, attempts
    pc,         \* pc[w]: the next step of FinalizeStagedObjectPayload in w
    snap,       \* snap[w]: media type of the row that w loaded
    return,     \* return[w]: what the handler will return
    crashes,    \* crashes so far
    rpc,        \* the next step of the reconciliation command
    rsnap,      \* the row it listed
    fresh,      \* updated_at is still the listed one
    verdict     \* the status its planned action writes

providerVars == <<store, faulty>>
payloadVars == <<row, old>>
storeVars == <<staging, final>>
uploadVars == <<upload, uploads>>
workerVars == <<pc, snap, return, crashes>>
reconcileVars == <<rpc, rsnap, verdict>>
vars == <<store, faulty, row, old, staging, final, upload, uploads, job, pc, snap,
          return, crashes, rpc, rsnap, fresh, verdict>>

Status == {"absent", "staged", "finalized", "failed", "orphaned"}
Object == {"absent", "torn", "bad"} \cup Media
Row == [status : Status, media : Media \cup {"none"}]
Job == [status : {"none", "active", "done", "dead"},
        holder : Workers \cup {NoWorker}, attempts : 0..MaxAttempts]
NoRow == [status |-> "absent", media |-> "none"]

Init ==
    /\ store \in Stores /\ faulty = FALSE
    /\ row = NoRow /\ old = FALSE
    /\ staging = "absent" /\ final = "absent"
    /\ upload = "none" /\ uploads = 0
    /\ job = [status |-> "none", holder |-> NoWorker, attempts |-> 0]
    /\ pc = [w \in Workers |-> "idle"]
    /\ snap = [w \in Workers |-> "none"]
    /\ return = [w \in Workers |-> "ok"]
    /\ crashes = 0
    /\ rpc = "idle" /\ rsnap = NoRow /\ fresh = FALSE /\ verdict = "none"

\* The filesystem store writes bytes and metadata sidecar one after the other.
TwoStepPut == store = "filesystem"

\* Every statement that writes the row also writes updated_at.
WriteRow(status, media) ==
    /\ row' = [status |-> status, media |-> media]
    /\ fresh' = FALSE

KeepRow == UNCHANGED <<row, fresh>>

\* Mutant: an object without sidecar takes its metadata from the request.
Get_TornIsWhole(object) ==
    (CASE object = "absent" -> {"missing"}
       [] object = "torn" -> Media
       [] object \in Media -> {object}
       [] OTHER -> {"error"})
    \cup (Events \cap {"error"})

\* What Get of a store returns: the media type, or why it failed.  Both stores
\* verify the digest, so wrong bytes and a missing sidecar are read errors.
Get(object) ==
    (CASE object = "absent" -> {"missing"}
       [] object \in Media -> {object}
       [] OTHER -> {"error"})
    \cup (Events \cap {"error"})

\* What VerifyObjectPayloadRead makes of it, for a row with this media type:
\* after Get only the metadata can mismatch.
Read(object, media) ==
    { CASE got = media -> "match"
        [] got \in Media \ {media} -> "mismatch"
        [] OTHER -> got : got \in Get(object) }

-----------------------------------------------------------------------------
(* Uploads                                                                 *)

\* StagePayload.  A filesystem upload can stop between bytes and sidecar.  The
\* digest is that of the bytes streamed: the callers hash the source they open.
\* A source that changes between hashing and streaming, whose bytes the S3 store
\* writes and removes again (stagePayload), is left out.
StagePayload(m, complete) ==
    /\ upload = "none" /\ uploads < MaxUploads
    /\ complete \/ TwoStepPut
    /\ IF complete
       THEN staging' = m /\ upload' = m
       ELSE /\ staging' = IF staging = "absent" THEN "torn" ELSE staging
            /\ UNCHANGED upload
    /\ uploads' = uploads + 1
    /\ UNCHANGED <<providerVars, payloadVars, final, job, workerVars, reconcileVars, fresh>>

\* The upsert keeps created_at and leaves a finalized row finalized.
RecordStaged ==
    IF row.status = "finalized"
    THEN WriteRow("finalized", row.media)
    ELSE WriteRow("staged", upload)

\* The command transaction: the payload row and the deduplicated job.
CommitUpload ==
    /\ upload # "none"
    /\ RecordStaged
    /\ job' = IF job.status = "none" THEN [job EXCEPT !.status = "active"] ELSE job
    /\ upload' = "none"
    /\ UNCHANGED <<providerVars, old, storeVars, uploads, workerVars, reconcileVars>>

AbortUpload ==
    /\ upload # "none"
    /\ upload' = "none"
    /\ UNCHANGED <<providerVars, payloadVars, storeVars, uploads, job, workerVars, reconcileVars, fresh>>

-----------------------------------------------------------------------------
(* The finalize_payload job, as Outbox provides it                         *)

\* A claim of the queued job, or of one whose lease expired while its holder
\* went on, stopped or crashed.
ClaimJob(w) ==
    /\ pc[w] = "idle" /\ job.status = "active"
    /\ job.attempts < MaxAttempts
    /\ job' = [job EXCEPT !.holder = w, !.attempts = @ + 1]
    /\ pc' = [pc EXCEPT ![w] = "load"]
    /\ UNCHANGED <<providerVars, payloadVars, storeVars, uploadVars, snap, return, crashes, reconcileVars, fresh>>

ExpireFinalAttempt ==
    /\ job.status = "active" /\ job.holder # NoWorker
    /\ job.attempts = MaxAttempts
    /\ job' = [job EXCEPT !.status = "dead", !.holder = NoWorker]
    /\ UNCHANGED <<providerVars, payloadVars, storeVars, uploadVars, workerVars, reconcileVars, fresh>>

ReplayJob ==
    /\ job.status = "dead"
    /\ job' = [job EXCEPT !.status = "active", !.attempts = 0]
    /\ UNCHANGED <<providerVars, payloadVars, storeVars, uploadVars, workerVars, reconcileVars, fresh>>

\* The handler returned; only the holder's acknowledgement is accepted.
Acknowledge(w) ==
    /\ pc[w] = "return"
    /\ job' = IF job.status # "active" \/ job.holder # w THEN job
              ELSE [job EXCEPT !.holder = NoWorker,
                      !.status = CASE return[w] = "ok" -> "done"
                                   [] return[w] = "retry" /\ job.attempts < MaxAttempts -> "active"
                                   [] OTHER -> "dead"]
    /\ pc' = [pc EXCEPT ![w] = "idle"]
    /\ UNCHANGED <<providerVars, payloadVars, storeVars, uploadVars, snap, return, crashes, reconcileVars, fresh>>

Crash(w) ==
    /\ pc[w] # "idle" /\ crashes < MaxCrashes
    /\ pc' = [pc EXCEPT ![w] = "idle"]
    /\ crashes' = crashes + 1
    /\ UNCHANGED <<providerVars, payloadVars, storeVars, uploadVars, job, snap, return, reconcileVars, fresh>>

-----------------------------------------------------------------------------
(* FinalizeStagedObjectPayload and the stores' FinalizePayload             *)

Goto(w, label) == pc' = [pc EXCEPT ![w] = label] /\ UNCHANGED return
Return(w, r) == pc' = [pc EXCEPT ![w] = "return"] /\ return' = [return EXCEPT ![w] = r]
\* Mark the row, then return r.
Mark(w, label, r) == pc' = [pc EXCEPT ![w] = label] /\ return' = [return EXCEPT ![w] = r]

\* GetObjectPayload does not return orphaned rows.
LoadRow(w) ==
    /\ pc[w] = "load"
    /\ \/ /\ row.status \in {"absent", "orphaned"}
          /\ Return(w, "dead")
          /\ UNCHANGED snap
       \/ /\ row.status \notin {"absent", "orphaned"}
          /\ snap' = [snap EXCEPT ![w] = row.media]
          /\ Goto(w, IF row.status = "finalized" THEN "recheck" ELSE "final")
       \/ "error" \in Events /\ Return(w, "retry") /\ UNCHANGED snap
    /\ KeepRow /\ UNCHANGED <<providerVars, old, storeVars, uploadVars, job, crashes, reconcileVars>>

StoreStep == UNCHANGED <<providerVars, old, uploadVars, job, snap, crashes, reconcileVars>> /\ KeepRow

\* Mutant: the test of the read error is inverted.
Recheck_Inverted(w) ==
    /\ pc[w] = "recheck"
    /\ \E read \in Read(final, snap[w]) :
          CASE read = "match" -> Mark(w, "orphan", "retry")
            [] read = "mismatch" -> Return(w, "retry")
            [] OTHER -> Return(w, "ok")
    /\ UNCHANGED storeVars /\ StoreStep

\* A row that is already finalized: any read error orphans it.
Recheck(w) ==
    /\ pc[w] = "recheck"
    /\ \E read \in Read(final, snap[w]) :
          CASE read = "match" -> Return(w, "ok")
            [] read = "mismatch" -> Return(w, "retry")
            [] read = "missing" -> Mark(w, "orphan", "dead")
            [] read = "error" -> Mark(w, "orphan", "retry")
    /\ UNCHANGED storeVars /\ StoreStep

\* Mutant: a final object left by an earlier attempt is a conflict.
ReadFinal_Conflict(w) ==
    /\ pc[w] = "final"
    /\ \E read \in Read(final, snap[w]) :
          IF read = "missing" THEN Goto(w, "staging") ELSE Mark(w, "fail", "retry")
    /\ UNCHANGED storeVars /\ StoreStep

\* A copy that an earlier attempt completed is verified and accepted.
ReadFinal(w) ==
    /\ pc[w] = "final"
    /\ \E read \in Read(final, snap[w]) :
          CASE read = "match" -> Goto(w, "tidy")
            [] read = "missing" -> Goto(w, "staging")
            [] OTHER -> Mark(w, "fail", "retry")
    /\ UNCHANGED storeVars /\ StoreStep

ReadStaging(w) ==
    /\ pc[w] = "staging"
    /\ \E read \in Read(staging, snap[w]) :
          CASE read = "match" -> Goto(w, "copy")
            [] read = "missing" -> Mark(w, "orphan", "dead")
            [] OTHER -> Mark(w, "fail", "retry")
    /\ UNCHANGED storeVars /\ StoreStep

\* Mutants: rewriting an object exposes it without sidecar; the sidecar is
\* not written before staging is removed.
PutBytes_Truncates(w) ==
    /\ pc[w] = "copy" /\ TwoStepPut
    /\ \/ final' = "torn" /\ Goto(w, "sidecar")
       \/ "error" \in Events /\ UNCHANGED final /\ Mark(w, "fail", "retry")
    /\ UNCHANGED staging /\ StoreStep

PutBytes_NoSidecar(w) ==
    /\ pc[w] = "copy" /\ TwoStepPut
    /\ final' = IF final = "absent" THEN "torn" ELSE final
    /\ Goto(w, "remove")
    /\ UNCHANGED staging /\ StoreStep

\* Filesystem Put: the bytes are renamed into place, then the sidecar.
PutBytes(w) ==
    /\ pc[w] = "copy" /\ TwoStepPut
    /\ \/ /\ final' = CASE final = "absent" -> "torn"
                        [] final = "bad" -> snap[w]
                        [] OTHER -> final
          /\ Goto(w, "sidecar")
       \/ "error" \in Events /\ UNCHANGED final /\ Mark(w, "fail", "retry")
    /\ UNCHANGED staging /\ StoreStep

PutSidecar(w) ==
    /\ pc[w] = "sidecar"
    /\ \/ /\ final' = IF final \in {"absent", "bad"} THEN final ELSE snap[w]
          /\ Goto(w, "remove")
       \/ "error" \in Events /\ UNCHANGED final /\ Mark(w, "fail", "retry")
    /\ UNCHANGED staging /\ StoreStep

\* S3 CopyObject copies whatever the staging key holds now.
CopyObject(w) ==
    /\ pc[w] = "copy" /\ ~TwoStepPut
    /\ \/ /\ staging = "absent"
          /\ UNCHANGED final
          /\ Mark(w, "orphan", "dead")
       \/ /\ staging # "absent"
          /\ final' = IF staging \in Media THEN snap[w] ELSE staging
          /\ Goto(w, "reread")
       \/ "error" \in Events /\ UNCHANGED final /\ Mark(w, "fail", "retry")
    /\ UNCHANGED staging /\ StoreStep

\* The filesystem store removes staging before the last read, S3 after it.
Reread(w) ==
    /\ pc[w] = "reread"
    /\ \E read \in Read(final, snap[w]) :
          CASE read = "match" -> Goto(w, IF TwoStepPut THEN "finalize" ELSE "remove")
            [] read = "missing" -> Mark(w, "orphan", "dead")
            [] OTHER -> Mark(w, "fail", "retry")
    /\ UNCHANGED storeVars /\ StoreStep

\* The filesystem store unlinks the bytes and then the sidecar.  A sidecar alone
\* reads as a missing object, so the bytes decide and one step is enough; a call
\* that fails may have taken them away already.
RemoveStaging(w) ==
    /\ pc[w] = "remove"
    /\ \/ /\ staging' = "absent"
          /\ Goto(w, IF TwoStepPut THEN "reread" ELSE "finalize")
       \/ /\ "error" \in Events /\ staging' \in {staging, "absent"}
          /\ Mark(w, "fail", "retry")
    /\ UNCHANGED final /\ StoreStep

\* Removal after an accepted earlier copy ignores errors.
TidyStaging(w) ==
    /\ pc[w] = "tidy"
    /\ staging' = "absent" \/ ("error" \in Events /\ UNCHANGED staging)
    /\ Goto(w, "finalize")
    /\ UNCHANGED final /\ StoreStep

RowStep == UNCHANGED <<providerVars, old, storeVars, uploadVars, job, snap, crashes, reconcileVars>>

\* Mutant: the transaction that marks the row is not committed.
MarkFinalized_NoCommit(w) ==
    /\ pc[w] = "finalize"
    /\ KeepRow
    /\ Return(w, "ok")
    /\ RowStep

MarkFinalized(w) ==
    /\ pc[w] = "finalize"
    /\ \/ /\ row.status \in {"staged", "failed", "finalized"}
          /\ WriteRow("finalized", row.media)
          /\ Return(w, "ok")
       \/ /\ row.status = "orphaned" \/ "error" \in Events
          /\ KeepRow
          /\ Return(w, "retry")
    /\ RowStep

\* Mutant: a status that the lifecycle does not have.
MarkFailed_Quarantined(w) ==
    /\ pc[w] = "fail"
    /\ WriteRow("quarantined", row.media)
    /\ Goto(w, "return")
    /\ RowStep

\* The result of marking a failure is ignored.
MarkFailed(w) ==
    /\ pc[w] = "fail"
    /\ \/ row.status \in {"staged", "failed"} /\ WriteRow("failed", row.media)
       \/ row.status \notin {"staged", "failed"} /\ KeepRow
       \/ "error" \in Events /\ KeepRow
    /\ Goto(w, "return")
    /\ RowStep

\* Unlike the other two, this update does not test the status.
MarkOrphaned(w) ==
    /\ pc[w] = "orphan"
    /\ WriteRow("orphaned", row.media) \/ ("error" \in Events /\ KeepRow)
    /\ Goto(w, "return")
    /\ RowStep

-----------------------------------------------------------------------------
(* reconcile --apply                                                       *)

ReconcileStep ==
    UNCHANGED <<providerVars, old, storeVars, uploadVars, job, workerVars>>

\* Failed and orphaned rows are left alone.
ListPayloads ==
    /\ Reconciles /\ rpc = "idle"
    /\ row.status \in {"staged", "finalized"}
    /\ rpc' = "final" /\ rsnap' = row /\ fresh' = TRUE /\ verdict' = "none"
    /\ UNCHANGED row /\ ReconcileStep

Plan(status) == rpc' = "apply" /\ verdict' = status
GiveUp == rpc' = "idle" /\ UNCHANGED verdict

ReconcileFinal ==
    /\ rpc = "final"
    /\ \E read \in Read(final, rsnap.media) :
          CASE read = "error" -> GiveUp
            [] read = "mismatch" -> Plan("failed")
            [] read = "match" /\ rsnap.status = "finalized" -> GiveUp
            [] read = "match" /\ rsnap.status = "staged" -> Plan("finalized")
            [] read = "missing" /\ rsnap.status = "finalized" -> Plan("orphaned")
            [] OTHER -> rpc' = "staging" /\ UNCHANGED verdict
    /\ KeepRow /\ UNCHANGED rsnap /\ ReconcileStep

ReconcileStaging ==
    /\ rpc = "staging"
    /\ \E read \in Read(staging, rsnap.media) :
          CASE read = "error" -> GiveUp
            [] read = "mismatch" -> Plan("failed")
            [] read = "match" /\ ~old -> GiveUp
            [] OTHER -> Plan("orphaned")
    /\ KeepRow /\ UNCHANGED rsnap /\ ReconcileStep

\* Mutant: the update does not compare status and updated_at.
ApplyAction_Blind ==
    /\ rpc = "apply"
    /\ WriteRow(verdict, row.media)
    /\ rpc' = "idle" /\ UNCHANGED <<rsnap, verdict>>
    /\ ReconcileStep

\* One transaction; the row must still be the listed one.
ApplyAction ==
    /\ rpc = "apply"
    /\ IF fresh THEN WriteRow(verdict, row.media) ELSE KeepRow
    /\ rpc' = "idle" /\ UNCHANGED <<rsnap, verdict>>
    /\ ReconcileStep

-----------------------------------------------------------------------------
(* The world around the program                                            *)

Age ==
    /\ "age" \in Events /\ row.status # "absent" /\ ~old
    /\ old' = TRUE
    /\ KeepRow /\ UNCHANGED <<providerVars, storeVars, uploadVars, job, workerVars, reconcileVars>>

ProviderFault ==
    /\ \E damage \in {"absent", "bad"} :
          /\ IF damage = "absent" THEN "loss" \in Events ELSE "rot" \in Events
          /\ \/ final \in Media /\ final' = damage /\ UNCHANGED staging
             \/ staging \in Media /\ staging' = damage /\ UNCHANGED final
    /\ faulty' = TRUE
    /\ KeepRow /\ UNCHANGED <<store, old, uploadVars, job, workerVars, reconcileVars>>

-----------------------------------------------------------------------------
Finalize(w) ==
    \/ LoadRow(w) \/ Recheck(w) \/ ReadFinal(w) \/ ReadStaging(w)
    \/ PutBytes(w) \/ PutSidecar(w) \/ CopyObject(w) \/ Reread(w)
    \/ RemoveStaging(w) \/ TidyStaging(w)
    \/ MarkFinalized(w) \/ MarkFailed(w) \/ MarkOrphaned(w)
    \/ Acknowledge(w)

Reconcile == ListPayloads \/ ReconcileFinal \/ ReconcileStaging \/ ApplyAction

Next ==
    \/ \E m \in Media, complete \in BOOLEAN : StagePayload(m, complete)
    \/ CommitUpload \/ AbortUpload
    \/ ExpireFinalAttempt \/ ReplayJob
    \/ \E w \in Workers : ClaimJob(w) \/ Finalize(w) \/ Crash(w)
    \/ Reconcile
    \/ Age \/ ProviderFault

Spec == Init /\ [][Next]_vars

\* Workers poll and finish their steps; nothing is assumed of uploads,
\* operators, crashes or providers.
FairSpec == Spec /\ \A w \in Workers : WF_vars(ClaimJob(w)) /\ WF_vars(Finalize(w))

-----------------------------------------------------------------------------
(* Properties                                                              *)

\* The shape of the row, the job, the two objects and the processes' state.
TypeOK ==
    /\ store \in Stores /\ faulty \in BOOLEAN
    /\ row \in Row /\ old \in BOOLEAN
    /\ staging \in Object /\ final \in Object
    /\ upload \in Media \cup {"none"} /\ uploads \in 0..MaxUploads
    /\ job \in Job
    /\ pc \in [Workers -> {"idle", "load", "recheck", "final", "staging", "copy", "sidecar",
                           "reread", "remove", "tidy", "finalize", "fail", "orphan", "return"}]
    /\ snap \in [Workers -> Media \cup {"none"}]
    /\ return \in [Workers -> {"ok", "retry", "dead"}]
    /\ crashes \in 0..MaxCrashes
    /\ rpc \in {"idle", "final", "staging", "apply"}
    /\ rsnap \in Row /\ fresh \in BOOLEAN
    /\ verdict \in {"none", "finalized", "failed", "orphaned"}

\* A finalized row vouches for the object at its final key: MarkFinalized and
\* ApplyAction run some steps after the read that justifies them, and still
\* the object is there, with its sidecar and the right bytes.
FinalizedIsWhole == row.status = "finalized" => final \in Media

\* Whatever crashes and overlapping attempts do, the committed bytes are intact
\* under one of the two keys: nobody removes staging before a whole final copy.
BytesSurvive == row.status # "absent" => staging \in Media \/ final \in Media

\* The final key is immutable for readers: a whole final object is never seen
\* torn, damaged or missing, although late attempts write it again.
FinalKeyStable == [][(final \in Media) => (final' \in Media)]_vars

\* A reconciliation that listed the row earlier never takes a payload out of
\* service that a worker has finalized since (ApplyAction compares updated_at).
NoFalseQuarantine ==
    [][rsnap.status = "staged" /\ row.status = "finalized" /\ rpc = "apply" /\ rpc' = "idle"
         => row'.status = "finalized"]_vars

\* Metadata is orphaned only when the final object is missing.
OrphanedMeansMissing == row.status = "orphaned" => final \notin Media

\* Finalization is repeatable: fewer crashes than attempts never dead-letter
\* the job while its staged bytes are intact, if the provider keeps its objects.
CrashIsRepeatable == job.status = "dead" /\ ~faulty => staging \notin Media

\* A committed upload is finalized in the end when workers keep running and the
\* provider keeps its objects.
EventuallyFinalized ==
    row.status = "staged" ~> row.status = "finalized" \/ faulty

\* A command transaction that leaves the payload staged leaves a job that will
\* finalize it.
UploadHasJob ==
    [][CommitUpload /\ row'.status = "staged" => job'.status = "active"]_vars

=============================================================================
