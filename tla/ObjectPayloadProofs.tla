------------------------ MODULE ObjectPayloadProofs ------------------------
(***************************************************************************)
(* Proofs about ObjectPayload for any number of workers, uploads, crashes, *)
(* attempts and media types, and both object stores.                       *)
(*                                                                         *)
(* As long as the provider keeps its objects, the final object only gets   *)
(* better: absent, torn, whole.  So a read that found it whole still holds *)
(* when the row is marked or the staging object is removed, however many   *)
(* attempts, uploads and reconciliations run in between (WholeInv).        *)
(*                                                                         *)
(* That a crash never costs the job its life is not true of every          *)
(* deployment: the last theorem names the conditions under which it is.    *)
(***************************************************************************)
EXTENDS ObjectPayload, TLAPS

\* The provider neither loses nor damages an object.
ProviderKeeps == Events \cap {"loss", "rot"} = {}

\* One worker at a time, no operator repairs, no failing calls.
Solitary ==
    /\ \A v, w \in Workers : v = w
    /\ ~Reconciles /\ "error" \notin Events

\* Besides, an S3 store, one declared media type, and attempts to spare.
Repeatable ==
    /\ Solitary
    /\ Stores = {"s3"}
    /\ \A m, n \in Media : m = n
    /\ MaxCrashes + 1 < MaxAttempts

\* The steps of an attempt that compare objects with the row it has loaded.
Working == {"recheck", "final", "staging", "copy", "sidecar", "reread",
            "remove", "tidy", "finalize"}

\* A row that exists has a media type, and so have the copies of it.
MediaInv ==
    /\ row.status # "absent" => row.media \in Media
    /\ \A w \in Workers :
        /\ pc[w] \in Working => snap[w] \in Media
        /\ pc[w] \in Working \cup {"fail", "orphan"} => row.status # "absent"
    /\ rpc # "idle" => rsnap.media \in Media /\ rsnap.status \in {"staged", "finalized"}

\* A reconciliation that finds the row fresh finds what it has listed.
PlanInv ==
    /\ fresh => row = rsnap
    /\ rpc = "apply" => verdict # "none"

BaseInv == TypeOK /\ MediaInv /\ PlanInv

\* What the attempts, the uploads and the reconciliation have found still holds.
WholeInv ==
    ~faulty =>
        /\ staging # "bad" /\ final # "bad"
        /\ store = "s3" => staging # "torn" /\ final # "torn"
        /\ \A w \in Workers :
            /\ pc[w] = "sidecar" => final # "absent"
            /\ pc[w] \in {"remove", "tidy", "finalize"} => final \in Media
        /\ rpc = "apply" /\ verdict = "finalized" => final \in Media
        /\ upload # "none" \/ row.status # "absent" => staging \in Media \/ final \in Media
        /\ row.status = "finalized" => final \in Media

\* The one worker has found the final object missing, and nobody has orphaned
\* the row that it works on.
SoloInv ==
    /\ rpc = "idle"
    /\ \A w \in Workers :
        /\ pc[w] \in {"staging", "copy", "orphan"} => final \notin Media
        /\ pc[w] \in Working => row.status # "orphaned"
    /\ row.status = "orphaned" => final \notin Media

\* Every attempt but the running one has ended in a crash.
RepeatInv ==
    ~faulty =>
        /\ job.status # "dead" /\ row.status # "orphaned"
        /\ job.status = "active" => row.status # "absent"
        /\ job.attempts <= crashes + 1
        /\ \A w \in Workers :
            /\ pc[w] \notin {"fail", "orphan"}
            /\ pc[w] = "return" => return[w] = "ok"
            /\ pc[w] \in {"recheck", "reread"} => final \in Media
            /\ pc[w] = "idle" /\ job.status # "done" => job.attempts <= crashes
            /\ pc[w] # "idle" => job.status = "active" /\ job.holder = w

-----------------------------------------------------------------------------
(* Reads                                                                   *)

\* A read that matches found the object whole, one that reports it missing
\* found none, and without failing calls an error means damage.
LEMMA ReadSound ==
    ASSUME NEW object \in Object, NEW media \in Media, NEW read \in Read(object, media)
    PROVE  /\ read \in {"match", "mismatch", "missing", "error"}
           /\ read = "match" => object = media
           /\ read = "missing" => object = "absent"
           /\ read = "mismatch" => object \in Media \ {media}
           /\ read = "error" /\ "error" \notin Events => object \in {"torn", "bad"}
  <1>1. PICK got \in Get(object) :
            read = CASE got = media -> "match"
                     [] got \in Media \ {media} -> "mismatch"
                     [] OTHER -> got
    BY DEF Read
  <1>2. /\ got \in Media => object = got
        /\ got = "missing" => object = "absent"
        /\ got = "error" /\ "error" \notin Events => object \in {"torn", "bad"}
        /\ got \in Media \cup {"missing", "error"}
    <2>1. CASE object = "absent"
      BY <2>1, PayloadAssumption DEF Get
    <2>2. CASE object \in Media
      BY <2>2, PayloadAssumption DEF Get
    <2>3. CASE object \in {"torn", "bad"}
      BY <2>3, PayloadAssumption DEF Get
    <2> QED  BY <2>1, <2>2, <2>3 DEF Object
  <1>3. CASE got = media
    BY <1>1, <1>2, <1>3
  <1>4. CASE got \in Media \ {media}
    BY <1>1, <1>2, <1>4
  <1>5. CASE got \in {"missing", "error"}
    <2>1. got \notin Media
      BY <1>5, PayloadAssumption
    <2> QED  BY <1>1, <1>2, <1>5, <2>1
  <1> QED  BY <1>2, <1>3, <1>4, <1>5

-----------------------------------------------------------------------------
(* Types, media types and the listed row                                   *)

LEMMA InitBase == Init => BaseInv
  <1> SUFFICES ASSUME Init PROVE BaseInv
    OBVIOUS
  <1>1. NoRow \in Row
    BY DEF NoRow, Row, Status
  <1>2. job \in Job
    BY PayloadAssumption DEF Init, Job
  <1>3. TypeOK
    <2>1. uploads \in 0..MaxUploads /\ crashes \in 0..MaxCrashes
      BY PayloadAssumption DEF Init
    <2>2. faulty \in BOOLEAN /\ old \in BOOLEAN /\ fresh \in BOOLEAN
      BY DEF Init
    <2> QED  BY <1>1, <1>2, <2>1, <2>2 DEF Init, TypeOK, Object
  <1>4. MediaInv
    BY DEF Init, MediaInv, NoRow, Working
  <1>5. PlanInv
    BY DEF Init, PlanInv
  <1> QED  BY <1>3, <1>4, <1>5 DEF BaseInv

\* The record that WriteRow writes.
LEMMA WrittenRow ==
    ASSUME NEW s \in Status, NEW m \in Media \cup {"none"}, WriteRow(s, m)
    PROVE  row' \in Row /\ row'.status = s /\ row'.media = m /\ fresh' = FALSE
  BY DEF WriteRow, Row

\* What the steps of an attempt between the load and the marks may do: move the
\* worker to a label that the invariants know.
Labels == Working \cup {"fail", "orphan", "return"}
Moves(w) ==
    \E l \in Labels :
        /\ pc' = [pc EXCEPT ![w] = l]
        /\ \/ return' = return
           \/ \E r \in {"ok", "retry", "dead"} : return' = [return EXCEPT ![w] = r]

LEMMA BaseMove ==
    ASSUME BaseInv, NEW w \in Workers, pc[w] \in Working, Moves(w), StoreStep,
           staging' \in Object, final' \in Object
    PROVE  BaseInv'
  <1>1. PICK l \in Labels :
            /\ pc' = [pc EXCEPT ![w] = l]
            /\ \/ return' = return
               \/ \E r \in {"ok", "retry", "dead"} : return' = [return EXCEPT ![w] = r]
    BY DEF Moves
  <1>2. TypeOK'
    BY <1>1 DEF BaseInv, TypeOK, StoreStep, KeepRow, providerVars, uploadVars, reconcileVars, Labels, Working
  <1>3. MediaInv'
    BY <1>1 DEF BaseInv, TypeOK, MediaInv, StoreStep, KeepRow, reconcileVars, Working
  <1>4. PlanInv'
    BY DEF BaseInv, PlanInv, StoreStep, KeepRow, reconcileVars
  <1> QED  BY <1>2, <1>3, <1>4 DEF BaseInv

LEMMA BaseReads ==
    ASSUME BaseInv, NEW w \in Workers,
           \/ Recheck(w) \/ ReadFinal(w) \/ ReadStaging(w) \/ Reread(w)
    PROVE  pc[w] \in Working /\ Moves(w) /\ StoreStep /\ UNCHANGED storeVars
  <1>1. staging \in Object /\ final \in Object
    BY DEF BaseInv, TypeOK
  <1>2. CASE Recheck(w)
    <2>1. snap[w] \in Media
      BY <1>2 DEF BaseInv, MediaInv, Recheck, Working
    <2>2. PICK read \in Read(final, snap[w]) :
              CASE read = "match" -> Return(w, "ok")
                [] read = "mismatch" -> Return(w, "retry")
                [] read = "missing" -> Mark(w, "orphan", "dead")
                [] read = "error" -> Mark(w, "orphan", "retry")
      BY <1>2 DEF Recheck
    <2>3. read \in {"match", "mismatch", "missing", "error"}
      BY <1>1, <2>1, <2>2, ReadSound
    <2>4. Moves(w)
      BY <2>2, <2>3 DEF Return, Mark, Moves, Labels
    <2> QED  BY <1>2, <2>4 DEF Recheck, Working
  <1>3. CASE ReadFinal(w)
    <2>1. Moves(w)
      BY <1>3 DEF ReadFinal, Goto, Mark, Moves, Labels, Working
    <2> QED  BY <1>3, <2>1 DEF ReadFinal, Working
  <1>4. CASE ReadStaging(w)
    <2>1. Moves(w)
      BY <1>4 DEF ReadStaging, Goto, Mark, Moves, Labels, Working
    <2> QED  BY <1>4, <2>1 DEF ReadStaging, Working
  <1>5. CASE Reread(w)
    <2>1. Moves(w)
      BY <1>5 DEF Reread, Goto, Mark, Moves, Labels, Working
    <2> QED  BY <1>5, <2>1 DEF Reread, Working
  <1> QED  BY <1>2, <1>3, <1>4, <1>5

LEMMA BaseWrites ==
    ASSUME BaseInv, NEW w \in Workers,
           \/ PutBytes(w) \/ PutSidecar(w) \/ CopyObject(w)
           \/ RemoveStaging(w) \/ TidyStaging(w)
    PROVE  /\ pc[w] \in Working /\ Moves(w) /\ StoreStep
           /\ staging' \in Object /\ final' \in Object
  <1>1. staging \in Object /\ final \in Object
    BY DEF BaseInv, TypeOK
  <1>2. pc[w] \in Working
    BY DEF PutBytes, PutSidecar, CopyObject, RemoveStaging, TidyStaging, Working
  <1>3. snap[w] \in Object
    BY <1>2 DEF BaseInv, MediaInv, Object
  <1>4. CASE PutBytes(w)
    <2>1. final' \in Object
      BY <1>1, <1>3, <1>4 DEF PutBytes, Object
    <2>2. Moves(w)
      BY <1>4 DEF PutBytes, Goto, Mark, Moves, Labels, Working
    <2> QED  BY <1>1, <1>2, <1>4, <2>1, <2>2 DEF PutBytes
  <1>5. CASE PutSidecar(w)
    <2>1. final' \in Object
      BY <1>1, <1>3, <1>5 DEF PutSidecar
    <2>2. Moves(w)
      BY <1>5 DEF PutSidecar, Goto, Mark, Moves, Labels, Working
    <2> QED  BY <1>1, <1>2, <1>5, <2>1, <2>2 DEF PutSidecar
  <1>6. CASE CopyObject(w)
    <2>1. final' \in Object
      BY <1>1, <1>3, <1>6 DEF CopyObject
    <2>2. Moves(w)
      BY <1>6 DEF CopyObject, Goto, Mark, Moves, Labels, Working
    <2> QED  BY <1>1, <1>2, <1>6, <2>1, <2>2 DEF CopyObject
  <1>7. CASE RemoveStaging(w)
    <2>1. staging' \in Object
      BY <1>1, <1>7 DEF RemoveStaging, Object
    <2>2. Moves(w)
      BY <1>7 DEF RemoveStaging, Goto, Mark, Moves, Labels, Working
    <2> QED  BY <1>1, <1>2, <1>7, <2>1, <2>2 DEF RemoveStaging
  <1>8. CASE TidyStaging(w)
    <2>1. staging' \in Object
      BY <1>1, <1>8 DEF TidyStaging, Object
    <2>2. Moves(w)
      BY <1>8 DEF TidyStaging, Goto, Moves, Labels, Working
    <2> QED  BY <1>1, <1>2, <1>8, <2>1, <2>2 DEF TidyStaging
  <1> QED  BY <1>4, <1>5, <1>6, <1>7, <1>8

\* The marks write the row, the load copies it.
LEMMA BaseMarks ==
    ASSUME BaseInv, NEW w \in Workers,
           LoadRow(w) \/ MarkFinalized(w) \/ MarkFailed(w) \/ MarkOrphaned(w)
    PROVE  BaseInv'
  <1>1. CASE LoadRow(w)
    <2>1. /\ UNCHANGED <<store, faulty, row, fresh, old, staging, final, upload, uploads,
                         job, crashes, rpc, rsnap, verdict>>
      BY <1>1 DEF LoadRow, KeepRow, providerVars, storeVars, uploadVars, reconcileVars
    <2>2. row \in Row
      BY DEF BaseInv, TypeOK
    <2>3. \/ /\ pc' = [pc EXCEPT ![w] = "return"]
             /\ return' = [return EXCEPT ![w] = "dead"] \/ return' = [return EXCEPT ![w] = "retry"]
             /\ snap' = snap
          \/ /\ row.status # "absent"
             /\ pc' = [pc EXCEPT ![w] = "recheck"] \/ pc' = [pc EXCEPT ![w] = "final"]
             /\ return' = return
             /\ snap' = [snap EXCEPT ![w] = row.media]
      BY <1>1 DEF LoadRow, Return, Goto
    <2>4. TypeOK'
      BY <2>1, <2>2, <2>3 DEF BaseInv, TypeOK, Row
    <2>5. MediaInv'
      BY <2>1, <2>3 DEF BaseInv, TypeOK, MediaInv, Working
    <2>6. PlanInv'
      BY <2>1 DEF BaseInv, PlanInv
    <2> QED  BY <2>4, <2>5, <2>6 DEF BaseInv
  <1>2. CASE MarkFinalized(w) \/ MarkFailed(w) \/ MarkOrphaned(w)
    <2>1. UNCHANGED <<store, faulty, old, staging, final, upload, uploads,
                      job, snap, crashes, rpc, rsnap, verdict>>
      BY <1>2 DEF MarkFinalized, MarkFailed, MarkOrphaned, RowStep,
                  providerVars, storeVars, uploadVars, reconcileVars
    <2>2. row \in Row /\ row.status # "absent"
      BY <1>2 DEF BaseInv, TypeOK, MediaInv, MarkFinalized, MarkFailed, MarkOrphaned, Working
    <2>3. row.status \in Status /\ row.media \in Media
      BY <2>2 DEF BaseInv, MediaInv, Row
    <2>4. \/ row' = row /\ fresh' = fresh
          \/ \E s \in {"finalized", "failed", "orphaned"} : WriteRow(s, row.media)
      BY <1>2 DEF MarkFinalized, MarkFailed, MarkOrphaned, KeepRow
    <2>5. row' \in Row /\ row'.status # "absent" /\ row'.media \in Media /\ fresh' \in BOOLEAN
      <3>1. CASE row' = row /\ fresh' = fresh
        BY <2>2, <2>3, <3>1 DEF BaseInv, TypeOK
      <3>2. ASSUME NEW s \in {"finalized", "failed", "orphaned"}, WriteRow(s, row.media)
            PROVE  row' \in Row /\ row'.status # "absent" /\ row'.media \in Media /\ fresh' \in BOOLEAN
        BY <2>3, <3>2, WrittenRow DEF Status
      <3> QED  BY <2>4, <3>1, <3>2
    <2>6. /\ pc' = [pc EXCEPT ![w] = "return"]
          /\ \/ return' = return
             \/ \E r \in {"ok", "retry"} : return' = [return EXCEPT ![w] = r]
      BY <1>2 DEF MarkFinalized, MarkFailed, MarkOrphaned, Return, Goto
    <2>7. TypeOK'
      BY <2>1, <2>5, <2>6 DEF BaseInv, TypeOK
    <2>8. MediaInv'
      BY <2>1, <2>5, <2>6 DEF BaseInv, TypeOK, MediaInv, Working
    <2>9. PlanInv'
      BY <2>1, <2>4 DEF BaseInv, PlanInv, WriteRow
    <2> QED  BY <2>7, <2>8, <2>9 DEF BaseInv
  <1> QED  BY <1>1, <1>2

LEMMA BaseUploads ==
    ASSUME BaseInv,
           \/ \E m \in Media, complete \in BOOLEAN : StagePayload(m, complete)
           \/ CommitUpload \/ AbortUpload
    PROVE  BaseInv'
  <1>1. CASE \E m \in Media, complete \in BOOLEAN : StagePayload(m, complete)
    <2>1. UNCHANGED <<store, faulty, row, fresh, old, final, job, pc, snap, return, crashes,
                      rpc, rsnap, verdict>>
      BY <1>1 DEF StagePayload, providerVars, payloadVars, workerVars, reconcileVars
    <2>2. upload' \in Media \cup {"none"} /\ staging' \in Object
      BY <1>1 DEF StagePayload, BaseInv, TypeOK, Object
    <2>3. uploads' \in 0..MaxUploads
      BY <1>1, PayloadAssumption DEF StagePayload, BaseInv, TypeOK
    <2>4. TypeOK'
      BY <2>1, <2>2, <2>3 DEF BaseInv, TypeOK
    <2> QED  BY <2>1, <2>4 DEF BaseInv, MediaInv, PlanInv
  <1>2. CASE CommitUpload
    <2>1. UNCHANGED <<store, faulty, old, staging, final, uploads, pc, snap, return, crashes,
                      rpc, rsnap, verdict>> /\ upload' = "none"
      BY <1>2 DEF CommitUpload, providerVars, storeVars, workerVars, reconcileVars
    <2>2. job' \in Job
      BY <1>2 DEF CommitUpload, BaseInv, TypeOK, Job
    <2>3. /\ row' \in Row /\ row'.status \in {"staged", "finalized"} /\ row'.media \in Media
          /\ fresh' = FALSE
      <3>1. upload \in Media /\ (row.status = "finalized" => row.media \in Media)
        BY <1>2 DEF CommitUpload, BaseInv, TypeOK, MediaInv
      <3>2. CASE row.status = "finalized"
        BY <1>2, <3>1, <3>2, WrittenRow DEF CommitUpload, RecordStaged, Status
      <3>3. CASE row.status # "finalized"
        BY <1>2, <3>1, <3>3, WrittenRow DEF CommitUpload, RecordStaged, Status
      <3> QED  BY <3>2, <3>3
    <2>4. TypeOK'
      BY <2>1, <2>2, <2>3 DEF BaseInv, TypeOK
    <2> QED  BY <2>1, <2>3, <2>4 DEF BaseInv, MediaInv, PlanInv
  <1>3. CASE AbortUpload
    <2>1. UNCHANGED <<store, faulty, row, fresh, old, staging, final, uploads, job, pc, snap,
                      return, crashes, rpc, rsnap, verdict>> /\ upload' = "none"
      BY <1>3 DEF AbortUpload, providerVars, payloadVars, storeVars, workerVars, reconcileVars
    <2>2. TypeOK'
      BY <2>1 DEF BaseInv, TypeOK
    <2> QED  BY <2>1, <2>2 DEF BaseInv, MediaInv, PlanInv
  <1> QED  BY <1>1, <1>2, <1>3

\* The queue moves the job and takes workers in and out of attempts.
JobStep(w) == ClaimJob(w) \/ Acknowledge(w) \/ Crash(w)

LEMMA BaseJobs ==
    ASSUME BaseInv, ExpireFinalAttempt \/ ReplayJob \/ \E w \in Workers : JobStep(w)
    PROVE  BaseInv'
  <1>1. UNCHANGED <<store, faulty, row, fresh, old, staging, final, upload, uploads, snap,
                    return, rpc, rsnap, verdict>>
    BY DEF ExpireFinalAttempt, ReplayJob, JobStep, ClaimJob, Acknowledge, Crash, providerVars,
           payloadVars, storeVars, uploadVars, workerVars, reconcileVars
  <1>2. pc' = pc \/ \E w \in Workers : \E l \in {"idle", "load"} : pc' = [pc EXCEPT ![w] = l]
    BY DEF ExpireFinalAttempt, ReplayJob, JobStep, ClaimJob, Acknowledge, Crash, workerVars
  <1>3. crashes' \in 0..MaxCrashes
    <2>1. crashes \in 0..MaxCrashes
      BY DEF BaseInv, TypeOK
    <2>2. crashes' = crashes \/ (crashes < MaxCrashes /\ crashes' = crashes + 1)
      BY DEF ExpireFinalAttempt, ReplayJob, JobStep, ClaimJob, Acknowledge, Crash, workerVars
    <2> QED  BY <2>1, <2>2, PayloadAssumption
  <1>4. job' \in Job
    <2>1. job \in Job
      BY DEF BaseInv, TypeOK
    <2>2. CASE ExpireFinalAttempt
      BY <2>1, <2>2 DEF ExpireFinalAttempt, Job
    <2>3. CASE ReplayJob
      <3>1. 0 \in 0..MaxAttempts
        BY PayloadAssumption
      <3> QED  BY <2>1, <2>3, <3>1 DEF ReplayJob, Job
    <2>4. ASSUME NEW w \in Workers, ClaimJob(w)
          PROVE  job' \in Job
      <3>1. job.attempts + 1 \in 0..MaxAttempts
        BY <2>1, <2>4, PayloadAssumption DEF ClaimJob, Job
      <3> QED  BY <2>1, <2>4, <3>1 DEF ClaimJob, Job
    <2>5. ASSUME NEW w \in Workers, Acknowledge(w)
          PROVE  job' \in Job
      BY <2>1, <2>5 DEF Acknowledge, Job
    <2>6. ASSUME NEW w \in Workers, Crash(w)
          PROVE  job' \in Job
      BY <2>1, <2>6 DEF Crash
    <2> QED  BY <2>2, <2>3, <2>4, <2>5, <2>6 DEF JobStep
  <1>5. TypeOK'
    BY <1>1, <1>2, <1>3, <1>4 DEF BaseInv, TypeOK
  <1>6. MediaInv'
    BY <1>1, <1>2 DEF BaseInv, TypeOK, MediaInv, Working
  <1> QED  BY <1>1, <1>5, <1>6 DEF BaseInv, PlanInv

LEMMA BaseReconcile ==
    ASSUME BaseInv, Reconcile
    PROVE  BaseInv'
  <1>1. UNCHANGED <<store, faulty, old, staging, final, upload, uploads, job, pc, snap,
                    return, crashes>>
    BY DEF Reconcile, ListPayloads, ReconcileFinal, ReconcileStaging, ApplyAction,
           ReconcileStep, providerVars, storeVars, uploadVars, workerVars
  <1>2. CASE ListPayloads
    <2>1. /\ row' = row /\ rsnap' = row /\ fresh' = TRUE /\ rpc' = "final" /\ verdict' = "none"
          /\ row.status \in {"staged", "finalized"}
      BY <1>2 DEF ListPayloads
    <2>2. TypeOK'
      BY <1>1, <2>1 DEF BaseInv, TypeOK
    <2> QED  BY <1>1, <2>1, <2>2 DEF BaseInv, MediaInv, PlanInv
  <1>3. CASE ReconcileFinal \/ ReconcileStaging
    <2>1. row' = row /\ fresh' = fresh /\ rsnap' = rsnap /\ rpc # "idle"
      BY <1>3 DEF ReconcileFinal, ReconcileStaging, KeepRow
    <2>2. /\ rpc' \in {"idle", "staging", "apply"}
          /\ verdict' = verdict \/ verdict' \in {"finalized", "failed", "orphaned"}
          /\ rpc' = "apply" => verdict' # "none"
      BY <1>3 DEF ReconcileFinal, ReconcileStaging, Plan, GiveUp
    <2>3. TypeOK'
      BY <1>1, <2>1, <2>2 DEF BaseInv, TypeOK
    <2> QED  BY <1>1, <2>1, <2>2, <2>3 DEF BaseInv, MediaInv, PlanInv
  <1>4. CASE ApplyAction
    <2>1. rpc = "apply" /\ rpc' = "idle" /\ rsnap' = rsnap /\ verdict' = verdict
      BY <1>4 DEF ApplyAction
    <2>2. CASE fresh
      <3>1. /\ verdict \in {"finalized", "failed", "orphaned"} /\ row.media \in Media
        BY <2>1, <2>2 DEF BaseInv, TypeOK, MediaInv, PlanInv
      <3>2. WriteRow(verdict, row.media)
        BY <1>4, <2>2 DEF ApplyAction
      <3>3. row' \in Row /\ row'.status = verdict /\ row'.media = row.media /\ fresh' = FALSE
        BY <3>1, <3>2, WrittenRow DEF Status
      <3>4. TypeOK'
        BY <1>1, <2>1, <3>3 DEF BaseInv, TypeOK
      <3> QED  BY <1>1, <2>1, <3>1, <3>3, <3>4 DEF BaseInv, MediaInv, PlanInv
    <2>3. CASE ~fresh
      <3>1. row' = row /\ fresh' = fresh
        BY <1>4, <2>3 DEF ApplyAction, KeepRow
      <3>2. TypeOK'
        BY <1>1, <2>1, <3>1 DEF BaseInv, TypeOK
      <3> QED  BY <1>1, <2>1, <3>1, <3>2 DEF BaseInv, MediaInv, PlanInv
    <2> QED  BY <2>2, <2>3
  <1> QED  BY <1>2, <1>3, <1>4 DEF Reconcile

LEMMA BaseWorld ==
    ASSUME BaseInv, Age \/ ProviderFault
    PROVE  BaseInv'
  <1>1. UNCHANGED <<store, row, fresh, upload, uploads, job, pc, snap, return, crashes,
                    rpc, rsnap, verdict>>
    BY DEF Age, ProviderFault, KeepRow, providerVars, uploadVars, workerVars, reconcileVars
  <1>2. old' \in BOOLEAN /\ faulty' \in BOOLEAN
    BY DEF Age, ProviderFault, providerVars, BaseInv, TypeOK
  <1>3. staging' \in Object /\ final' \in Object
    BY DEF Age, ProviderFault, storeVars, BaseInv, TypeOK, Object
  <1>4. TypeOK'
    BY <1>1, <1>2, <1>3 DEF BaseInv, TypeOK
  <1> QED  BY <1>1, <1>4 DEF BaseInv, MediaInv, PlanInv

\* The shape of a step, by the part of the program that takes it.
LEMMA StepCases ==
    ASSUME Next
    PROVE  \/ \E m \in Media, complete \in BOOLEAN : StagePayload(m, complete)
           \/ CommitUpload \/ AbortUpload
           \/ ExpireFinalAttempt \/ ReplayJob \/ \E w \in Workers : JobStep(w)
           \/ \E w \in Workers : LoadRow(w) \/ MarkFinalized(w) \/ MarkFailed(w) \/ MarkOrphaned(w)
           \/ \E w \in Workers : Recheck(w) \/ ReadFinal(w) \/ ReadStaging(w) \/ Reread(w)
           \/ \E w \in Workers : \/ PutBytes(w) \/ PutSidecar(w) \/ CopyObject(w)
                                 \/ RemoveStaging(w) \/ TidyStaging(w)
           \/ Reconcile \/ Age \/ ProviderFault
  BY DEF Next, Finalize, JobStep

LEMMA NextBase == BaseInv /\ [Next]_vars => BaseInv'
  <1> SUFFICES ASSUME BaseInv, [Next]_vars PROVE BaseInv'
    OBVIOUS
  <1>1. CASE UNCHANGED vars
    BY <1>1 DEF BaseInv, TypeOK, MediaInv, PlanInv, vars
  <1>2. ASSUME NEW w \in Workers, Recheck(w) \/ ReadFinal(w) \/ ReadStaging(w) \/ Reread(w)
        PROVE  BaseInv'
    <2>1. staging' \in Object /\ final' \in Object
      BY <1>2, BaseReads DEF storeVars, BaseInv, TypeOK
    <2> QED  BY <1>2, <2>1, BaseReads, BaseMove
  <1>3. ASSUME NEW w \in Workers,
               \/ PutBytes(w) \/ PutSidecar(w) \/ CopyObject(w)
               \/ RemoveStaging(w) \/ TidyStaging(w)
        PROVE  BaseInv'
    BY <1>3, BaseWrites, BaseMove
  <1>4. CASE Next
    BY <1>2, <1>3, <1>4, StepCases, BaseUploads, BaseJobs, BaseMarks, BaseReconcile, BaseWorld
  <1> QED  BY <1>1, <1>4

LEMMA BaseInvariant == Spec => []BaseInv
  BY InitBase, NextBase, PTL DEF Spec

\* The payload's metadata row keeps a status of the lifecycle, and the objects,
\* the job, the attempts and the reconciliation keep their shapes, whatever
\* handlers, operators and providers do.
THEOREM PayloadTypes == Spec => []TypeOK
  <1>1. BaseInv => TypeOK
    BY DEF BaseInv
  <1> QED  BY <1>1, BaseInvariant, PTL

\* ApplyAction compares the row with the listed one: a payload that a worker has
\* finalized since the listing stays finalized, for any number of workers,
\* uploads, failing calls and provider faults.
THEOREM ReconcileQuarantinesNothing == Spec => NoFalseQuarantine
  <1>1. ASSUME BaseInv, [Next]_vars
        PROVE  [rsnap.status = "staged" /\ row.status = "finalized" /\ rpc = "apply" /\ rpc' = "idle"
                  => row'.status = "finalized"]_vars
    <2> SUFFICES ASSUME Next, rsnap.status = "staged", row.status = "finalized",
                        rpc = "apply", rpc' = "idle"
                 PROVE  row'.status = "finalized"
      BY <1>1
    <2>1. ~fresh
      BY <1>1 DEF BaseInv, PlanInv
    <2>2. rpc' # rpc
      OBVIOUS
    <2>3. ~\E m \in Media, complete \in BOOLEAN : StagePayload(m, complete)
      BY <2>2 DEF StagePayload, reconcileVars
    <2>4. ~(\E w \in Workers : ClaimJob(w) \/ Finalize(w) \/ Crash(w))
      BY <2>2 DEF ClaimJob, Crash, Finalize, LoadRow, Recheck, ReadFinal, ReadStaging, PutBytes,
                  PutSidecar, CopyObject, Reread, RemoveStaging, TidyStaging, MarkFinalized,
                  MarkFailed, MarkOrphaned, Acknowledge, StoreStep, RowStep, reconcileVars
    <2>5. ~(CommitUpload \/ AbortUpload \/ ExpireFinalAttempt \/ ReplayJob \/ Age \/ ProviderFault)
      BY <2>2 DEF CommitUpload, AbortUpload, ExpireFinalAttempt, ReplayJob, Age, ProviderFault,
                  reconcileVars
    <2>6. ApplyAction
      BY <2>3, <2>4, <2>5 DEF Next, Reconcile, ListPayloads, ReconcileFinal, ReconcileStaging
    <2> QED  BY <2>1, <2>6 DEF ApplyAction, KeepRow
  <1> QED  BY <1>1, BaseInvariant, PTL DEF Spec, NoFalseQuarantine

-----------------------------------------------------------------------------
(* What was found whole stays whole                                        *)

LEMMA InitWhole == Init => WholeInv
  BY DEF Init, WholeInv, NoRow

LEMMA WholeUploads ==
    ASSUME BaseInv, WholeInv,
           \/ \E m \in Media, complete \in BOOLEAN : StagePayload(m, complete)
           \/ CommitUpload \/ AbortUpload
    PROVE  WholeInv'
  <1>1. CASE \E m \in Media, complete \in BOOLEAN : StagePayload(m, complete)
    <2>1. UNCHANGED <<store, faulty, row, final, pc, rpc, verdict>> /\ upload = "none"
      BY <1>1 DEF StagePayload, providerVars, payloadVars, workerVars, reconcileVars
    <2>2. \/ staging' \in Media
          \/ upload' = upload /\ staging' = staging
          \/ upload' = upload /\ staging = "absent" /\ staging' = "torn" /\ store = "filesystem"
      BY <1>1 DEF StagePayload, TwoStepPut
    <2> QED  BY <2>1, <2>2, PayloadAssumption DEF WholeInv
  <1>2. CASE CommitUpload
    <2>1. UNCHANGED <<store, faulty, staging, final, pc, rpc, verdict>> /\ upload # "none"
      BY <1>2 DEF CommitUpload, providerVars, storeVars, workerVars, reconcileVars
    <2>2. row'.status = "finalized" => row.status = "finalized"
      BY <1>2 DEF CommitUpload, RecordStaged, WriteRow
    <2> QED  BY <2>1, <2>2 DEF WholeInv
  <1>3. CASE AbortUpload
    <2>1. UNCHANGED <<store, faulty, row, staging, final, pc, rpc, verdict>> /\ upload' = "none"
      BY <1>3 DEF AbortUpload, providerVars, payloadVars, storeVars, workerVars, reconcileVars
    <2> QED  BY <2>1 DEF WholeInv
  <1> QED  BY <1>1, <1>2, <1>3

LEMMA WholeJobs ==
    ASSUME BaseInv, WholeInv, ExpireFinalAttempt \/ ReplayJob \/ \E w \in Workers : JobStep(w)
    PROVE  WholeInv'
  <1>1. UNCHANGED <<store, faulty, row, staging, final, upload, rpc, verdict>>
    BY DEF ExpireFinalAttempt, ReplayJob, JobStep, ClaimJob, Acknowledge, Crash, providerVars,
           payloadVars, storeVars, uploadVars, reconcileVars
  <1>2. pc' = pc \/ \E w \in Workers : \E l \in {"idle", "load"} : pc' = [pc EXCEPT ![w] = l]
    BY DEF ExpireFinalAttempt, ReplayJob, JobStep, ClaimJob, Acknowledge, Crash, workerVars
  <1> QED  BY <1>1, <1>2 DEF WholeInv, BaseInv, TypeOK

LEMMA WholeMarks ==
    ASSUME BaseInv, WholeInv, NEW w \in Workers,
           LoadRow(w) \/ MarkFinalized(w) \/ MarkFailed(w) \/ MarkOrphaned(w)
    PROVE  WholeInv'
  <1>1. UNCHANGED <<store, faulty, staging, final, upload, rpc, verdict>>
    BY DEF LoadRow, MarkFinalized, MarkFailed, MarkOrphaned, RowStep, providerVars, storeVars,
           uploadVars, reconcileVars
  <1>2. \E l \in {"return", "recheck", "final"} : pc' = [pc EXCEPT ![w] = l]
    BY DEF LoadRow, MarkFinalized, MarkFailed, MarkOrphaned, Return, Goto
  <1>3. \/ row' = row
        \/ row.status # "absent" /\ row'.status \in {"failed", "orphaned"}
        \/ row.status # "absent" /\ pc[w] = "finalize"
    BY DEF LoadRow, MarkFinalized, MarkFailed, MarkOrphaned, KeepRow, WriteRow, BaseInv, MediaInv
  <1> QED  BY <1>1, <1>2, <1>3 DEF WholeInv, BaseInv, TypeOK

LEMMA WholeReads ==
    ASSUME BaseInv, WholeInv, NEW w \in Workers,
           \/ Recheck(w) \/ ReadFinal(w) \/ ReadStaging(w) \/ Reread(w)
    PROVE  WholeInv'
  <1>1. UNCHANGED <<store, faulty, row, staging, final, upload, rpc, verdict>>
    BY DEF Recheck, ReadFinal, ReadStaging, Reread, StoreStep, KeepRow, providerVars, storeVars,
           uploadVars, reconcileVars
  <1>2. PICK l \in Labels : pc' = [pc EXCEPT ![w] = l]
    BY BaseReads DEF Moves
  <1>3. l # "sidecar" /\ (l \in {"remove", "tidy", "finalize"} => final \in Media)
    <2>1. /\ pc'[w] = l /\ snap[w] \in Media /\ final \in Object /\ staging \in Object
      BY <1>2, BaseReads DEF BaseInv, TypeOK, MediaInv
    <2>2. CASE Recheck(w)
      <3>1. PICK read \in Read(final, snap[w]) :
                CASE read = "match" -> Return(w, "ok")
                  [] read = "mismatch" -> Return(w, "retry")
                  [] read = "missing" -> Mark(w, "orphan", "dead")
                  [] read = "error" -> Mark(w, "orphan", "retry")
        BY <2>2 DEF Recheck
      <3>2. read \in {"match", "mismatch", "missing", "error"}
        BY <2>1, <3>1, ReadSound
      <3> QED  BY <2>1, <3>1, <3>2 DEF Return, Mark, BaseInv, TypeOK
    <2>3. CASE ReadFinal(w)
      <3>1. PICK read \in Read(final, snap[w]) :
                CASE read = "match" -> Goto(w, "tidy")
                  [] read = "missing" -> Goto(w, "staging")
                  [] OTHER -> Mark(w, "fail", "retry")
        BY <2>3 DEF ReadFinal
      <3>2. read = "match" => final = snap[w]
        BY <2>1, <3>1, ReadSound
      <3> QED  BY <2>1, <3>1, <3>2 DEF Goto, Mark, BaseInv, TypeOK
    <2>4. CASE ReadStaging(w)
      BY <2>1, <2>4 DEF ReadStaging, Goto, Mark, BaseInv, TypeOK
    <2>5. CASE Reread(w)
      <3>1. PICK read \in Read(final, snap[w]) :
                CASE read = "match" -> Goto(w, IF TwoStepPut THEN "finalize" ELSE "remove")
                  [] read = "missing" -> Mark(w, "orphan", "dead")
                  [] OTHER -> Mark(w, "fail", "retry")
        BY <2>5 DEF Reread
      <3>2. read = "match" => final = snap[w]
        BY <2>1, <3>1, ReadSound
      <3> QED  BY <2>1, <3>1, <3>2 DEF Goto, Mark, BaseInv, TypeOK
    <2> QED  BY <2>2, <2>3, <2>4, <2>5
  <1> QED  BY <1>1, <1>2, <1>3 DEF WholeInv, BaseInv, TypeOK

\* A write leaves the final object at least as good as it was.
LEMMA FinalImproves ==
    ASSUME BaseInv, WholeInv, ~faulty, NEW w \in Workers,
           \/ PutBytes(w) \/ PutSidecar(w) \/ CopyObject(w)
           \/ RemoveStaging(w) \/ TidyStaging(w)
    PROVE  \/ final' = final
           \/ final' \in Media
           \/ final = "absent" /\ final' = "torn" /\ store = "filesystem"
  <1>1. snap[w] \in Media /\ staging \in Object
    BY BaseWrites DEF BaseInv, TypeOK, MediaInv
  <1>2. CASE PutBytes(w)
    BY <1>1, <1>2 DEF PutBytes, TwoStepPut
  <1>3. CASE PutSidecar(w)
    BY <1>1, <1>3 DEF PutSidecar
  <1>4. CASE CopyObject(w)
    <2>1. store = "s3"
      BY <1>4, PayloadAssumption DEF CopyObject, TwoStepPut, BaseInv, TypeOK
    <2> QED  BY <1>1, <1>4, <2>1 DEF CopyObject, WholeInv, Object
  <1>5. CASE RemoveStaging(w) \/ TidyStaging(w)
    BY <1>5 DEF RemoveStaging, TidyStaging
  <1> QED  BY <1>2, <1>3, <1>4, <1>5

LEMMA WholeWrites ==
    ASSUME BaseInv, WholeInv, NEW w \in Workers,
           \/ PutBytes(w) \/ PutSidecar(w) \/ CopyObject(w)
           \/ RemoveStaging(w) \/ TidyStaging(w)
    PROVE  WholeInv'
  <1>1. UNCHANGED <<store, faulty, row, upload, rpc, verdict>>
    BY BaseWrites DEF StoreStep, KeepRow, providerVars, uploadVars, reconcileVars
  <1> SUFFICES ASSUME ~faulty PROVE WholeInv'
    BY <1>1 DEF WholeInv
  <1>2. PICK l \in Labels : pc' = [pc EXCEPT ![w] = l]
    BY BaseWrites DEF Moves
  <1>3. pc'[w] = l /\ snap[w] \in Media
    BY <1>2, BaseWrites DEF BaseInv, TypeOK, MediaInv
  <1>4. staging' = staging \/ (staging' = "absent" /\ final \in Media)
    BY DEF PutBytes, PutSidecar, CopyObject, RemoveStaging, TidyStaging, WholeInv
  <1>5. /\ l = "sidecar" => final' # "absent"
        /\ l \in {"remove", "tidy", "finalize"} => final' \in Media
    <2>1. CASE PutBytes(w)
      BY <1>3, <2>1, PayloadAssumption DEF PutBytes, Goto, Mark, BaseInv, TypeOK
    <2>2. CASE PutSidecar(w)
      BY <1>3, <2>2 DEF PutSidecar, Goto, Mark, WholeInv, BaseInv, TypeOK
    <2>3. CASE CopyObject(w)
      BY <1>3, <2>3 DEF CopyObject, Goto, Mark, BaseInv, TypeOK
    <2>4. CASE RemoveStaging(w) \/ TidyStaging(w)
      BY <1>3, <2>4 DEF RemoveStaging, TidyStaging, Goto, Mark, WholeInv, BaseInv, TypeOK
    <2> QED  BY <2>1, <2>2, <2>3, <2>4
  <1>6. \/ final' = final
        \/ final' \in Media
        \/ final = "absent" /\ final' = "torn" /\ store = "filesystem"
    BY FinalImproves
  <1>7. final \in Media => final' \in Media
    BY <1>6, PayloadAssumption
  <1>8. \A v \in Workers :
            /\ pc'[v] = "sidecar" => final' # "absent"
            /\ pc'[v] \in {"remove", "tidy", "finalize"} => final' \in Media
    BY <1>2, <1>5, <1>6, <1>7, PayloadAssumption DEF WholeInv, BaseInv, TypeOK
  <1> QED  BY <1>1, <1>4, <1>6, <1>7, <1>8, PayloadAssumption DEF WholeInv

LEMMA WholeReconcile ==
    ASSUME BaseInv, WholeInv, Reconcile
    PROVE  WholeInv'
  <1>1. UNCHANGED <<store, faulty, staging, final, upload, pc>>
    BY DEF Reconcile, ListPayloads, ReconcileFinal, ReconcileStaging, ApplyAction,
           ReconcileStep, providerVars, storeVars, uploadVars, workerVars
  <1>2. CASE ListPayloads
    BY <1>1, <1>2 DEF ListPayloads, WholeInv
  <1>3. CASE ReconcileFinal
    <2>1. final \in Object /\ rsnap.media \in Media /\ row' = row
      BY <1>3 DEF BaseInv, TypeOK, MediaInv, ReconcileFinal, KeepRow
    <2>2. PICK read \in Read(final, rsnap.media) :
              CASE read = "error" -> GiveUp
                [] read = "mismatch" -> Plan("failed")
                [] read = "match" /\ rsnap.status = "finalized" -> GiveUp
                [] read = "match" /\ rsnap.status = "staged" -> Plan("finalized")
                [] read = "missing" /\ rsnap.status = "finalized" -> Plan("orphaned")
                [] OTHER -> rpc' = "staging" /\ UNCHANGED verdict
      BY <1>3 DEF ReconcileFinal
    <2>3. read = "match" => final \in Media
      BY <2>1, <2>2, ReadSound
    <2>4. rpc' = "apply" /\ verdict' = "finalized" => final \in Media
      BY <2>2, <2>3 DEF GiveUp, Plan
    <2> QED  BY <1>1, <2>1, <2>4 DEF WholeInv
  <1>4. CASE ReconcileStaging
    <2>1. row' = row /\ ~(rpc' = "apply" /\ verdict' = "finalized")
      BY <1>4 DEF ReconcileStaging, KeepRow, GiveUp, Plan
    <2> QED  BY <1>1, <2>1 DEF WholeInv
  <1>5. CASE ApplyAction
    <2>1. rpc = "apply" /\ rpc' = "idle"
      BY <1>5 DEF ApplyAction
    <2>2. row' = row \/ (row.status # "absent" /\ row'.status = verdict)
      BY <1>5, <2>1 DEF ApplyAction, KeepRow, WriteRow, BaseInv, MediaInv, PlanInv
    <2> QED  BY <1>1, <2>1, <2>2 DEF WholeInv
  <1> QED  BY <1>2, <1>3, <1>4, <1>5 DEF Reconcile

LEMMA NextWhole == BaseInv /\ WholeInv /\ [Next]_vars => WholeInv'
  <1> SUFFICES ASSUME BaseInv, WholeInv, [Next]_vars PROVE WholeInv'
    OBVIOUS
  <1>1. CASE UNCHANGED vars
    BY <1>1 DEF WholeInv, vars
  <1>2. CASE Age
    BY <1>2 DEF Age, KeepRow, providerVars, storeVars, uploadVars, workerVars, reconcileVars, WholeInv
  <1>3. CASE ProviderFault
    BY <1>3 DEF ProviderFault, WholeInv
  <1>4. CASE Next
    BY <1>2, <1>3, <1>4, StepCases, WholeUploads, WholeJobs, WholeMarks, WholeReads, WholeWrites,
       WholeReconcile
  <1> QED  BY <1>1, <1>4

\* Only a provider fault makes the provider faulty.
LEMMA FaultStays ==
    ASSUME Next, ~ProviderFault
    PROVE  faulty' = faulty
  <1>1. CASE \E m \in Media, complete \in BOOLEAN : StagePayload(m, complete)
    BY <1>1 DEF StagePayload, providerVars
  <1>2. CASE CommitUpload \/ AbortUpload \/ Reconcile \/ Age
    BY <1>2 DEF CommitUpload, AbortUpload, Reconcile, ListPayloads, ReconcileFinal,
                ReconcileStaging, ApplyAction, ReconcileStep, Age, providerVars
  <1>3. CASE ExpireFinalAttempt \/ ReplayJob \/ \E w \in Workers : JobStep(w)
    BY <1>3 DEF ExpireFinalAttempt, ReplayJob, JobStep, ClaimJob, Acknowledge, Crash, providerVars
  <1>4. CASE \E w \in Workers : LoadRow(w) \/ MarkFinalized(w) \/ MarkFailed(w) \/ MarkOrphaned(w)
    BY <1>4 DEF LoadRow, MarkFinalized, MarkFailed, MarkOrphaned, RowStep, providerVars
  <1>5. CASE \E w \in Workers : Recheck(w) \/ ReadFinal(w) \/ ReadStaging(w) \/ Reread(w)
    BY <1>5 DEF Recheck, ReadFinal, ReadStaging, Reread, StoreStep, providerVars
  <1>6. CASE \E w \in Workers : \/ PutBytes(w) \/ PutSidecar(w) \/ CopyObject(w)
                                \/ RemoveStaging(w) \/ TidyStaging(w)
    BY <1>6 DEF PutBytes, PutSidecar, CopyObject, RemoveStaging, TidyStaging, StoreStep, providerVars
  <1> QED  BY <1>1, <1>2, <1>3, <1>4, <1>5, <1>6, StepCases

LEMMA NoFault ==
    ASSUME ProviderKeeps
    PROVE  Spec => [](BaseInv /\ WholeInv /\ ~faulty)
  <1>1. Init => ~faulty
    BY DEF Init
  <1>2. ~faulty /\ [Next]_vars => ~faulty'
    <2>1. ~ProviderFault
      BY ProviderKeeps DEF ProviderKeeps, ProviderFault
    <2>2. UNCHANGED vars => faulty' = faulty
      BY DEF vars
    <2> QED  BY <2>1, <2>2, FaultStays
  <1> QED  BY <1>1, <1>2, InitBase, NextBase, InitWhole, NextWhole, PTL DEF Spec

\* A row that says "finalized" has a whole object at its final key, for any number
\* of overlapping attempts, crashes, uploads of other media types, failing calls
\* and reconciliations, and for both stores.
THEOREM FinalizedRowsAreWhole ==
    ASSUME ProviderKeeps
    PROVE  Spec => []FinalizedIsWhole
  <1>1. BaseInv /\ WholeInv /\ ~faulty => FinalizedIsWhole
    BY DEF WholeInv, FinalizedIsWhole
  <1> QED  BY <1>1, NoFault, PTL

\* The bytes of a payload with a row are whole at the staging or at the final key:
\* FinalizePayload removes staging only after it has verified the copy.
THEOREM BytesAreNeverLost ==
    ASSUME ProviderKeeps
    PROVE  Spec => []BytesSurvive
  <1>1. BaseInv /\ WholeInv /\ ~faulty => BytesSurvive
    BY DEF WholeInv, BytesSurvive
  <1> QED  BY <1>1, NoFault, PTL

\* The attempts write the final key again and again, but no reader of a whole
\* object ever sees it torn, damaged or missing afterwards.
THEOREM FinalKeyIsImmutable ==
    ASSUME ProviderKeeps
    PROVE  Spec => FinalKeyStable
  <1>1. ASSUME BaseInv /\ WholeInv /\ ~faulty, [Next]_vars
        PROVE  [(final \in Media) => (final' \in Media)]_vars
    <2> SUFFICES ASSUME Next, final \in Media
                 PROVE  final' \in Media
      BY <1>1
    <2>1. ~ProviderFault
      BY ProviderKeeps DEF ProviderKeeps, ProviderFault
    <2>2. CASE \E m \in Media, complete \in BOOLEAN : StagePayload(m, complete)
      BY <2>2 DEF StagePayload
    <2>3. CASE CommitUpload \/ AbortUpload \/ Reconcile \/ Age
      BY <2>3 DEF CommitUpload, AbortUpload, Reconcile, ListPayloads, ReconcileFinal,
                  ReconcileStaging, ApplyAction, ReconcileStep, Age, storeVars
    <2>4. CASE ExpireFinalAttempt \/ ReplayJob \/ \E w \in Workers : JobStep(w)
      BY <2>4 DEF ExpireFinalAttempt, ReplayJob, JobStep, ClaimJob, Acknowledge, Crash, storeVars
    <2>5. CASE \E w \in Workers : LoadRow(w) \/ MarkFinalized(w) \/ MarkFailed(w) \/ MarkOrphaned(w)
      BY <2>5 DEF LoadRow, MarkFinalized, MarkFailed, MarkOrphaned, RowStep, storeVars
    <2>6. CASE \E w \in Workers : Recheck(w) \/ ReadFinal(w) \/ ReadStaging(w) \/ Reread(w)
      BY <2>6 DEF Recheck, ReadFinal, ReadStaging, Reread, storeVars
    <2>7. ASSUME NEW w \in Workers,
                 \/ PutBytes(w) \/ PutSidecar(w) \/ CopyObject(w)
                 \/ RemoveStaging(w) \/ TidyStaging(w)
          PROVE  final' \in Media
      BY <1>1, <2>7, FinalImproves, PayloadAssumption
    <2> QED  BY <2>1, <2>2, <2>3, <2>4, <2>5, <2>6, <2>7, StepCases
  <1> QED  BY <1>1, NoFault, PTL DEF Spec, FinalKeyStable

-----------------------------------------------------------------------------
(* One worker at a time                                                    *)

LEMMA SoloUploads ==
    ASSUME BaseInv, SoloInv,
           \/ \E m \in Media, complete \in BOOLEAN : StagePayload(m, complete)
           \/ CommitUpload \/ AbortUpload
    PROVE  SoloInv'
  <1>1. final' = final /\ pc' = pc /\ rpc' = rpc
    BY DEF StagePayload, CommitUpload, AbortUpload, storeVars, workerVars, reconcileVars
  <1>2. row' = row \/ row'.status \in {"staged", "finalized"}
    BY DEF StagePayload, CommitUpload, AbortUpload, RecordStaged, WriteRow, payloadVars
  <1> QED  BY <1>1, <1>2 DEF SoloInv

LEMMA SoloJobs ==
    ASSUME BaseInv, SoloInv, ExpireFinalAttempt \/ ReplayJob \/ \E w \in Workers : JobStep(w)
    PROVE  SoloInv'
  <1>1. final' = final /\ row' = row /\ rpc' = rpc
    BY DEF ExpireFinalAttempt, ReplayJob, JobStep, ClaimJob, Acknowledge, Crash, payloadVars,
           storeVars, reconcileVars
  <1>2. pc' = pc \/ \E w \in Workers : \E l \in {"idle", "load"} : pc' = [pc EXCEPT ![w] = l]
    BY DEF ExpireFinalAttempt, ReplayJob, JobStep, ClaimJob, Acknowledge, Crash, workerVars
  <1> QED  BY <1>1, <1>2 DEF SoloInv, BaseInv, TypeOK, Working

LEMMA SoloMarks ==
    ASSUME Solitary, BaseInv, SoloInv, NEW w \in Workers,
           LoadRow(w) \/ MarkFinalized(w) \/ MarkFailed(w) \/ MarkOrphaned(w)
    PROVE  SoloInv'
  <1>1. final' = final /\ rpc' = rpc
    BY DEF LoadRow, MarkFinalized, MarkFailed, MarkOrphaned, RowStep, storeVars, reconcileVars
  <1>2. \A v \in Workers : v = w
    BY DEF Solitary
  <1>3. CASE LoadRow(w)
    <2>1. row' = row
      BY <1>3 DEF LoadRow, KeepRow
    <2>2. \/ pc' = [pc EXCEPT ![w] = "return"]
          \/ /\ row.status # "orphaned"
             /\ pc' = [pc EXCEPT ![w] = "recheck"] \/ pc' = [pc EXCEPT ![w] = "final"]
      BY <1>3 DEF LoadRow, Return, Goto
    <2> QED  BY <1>1, <2>1, <2>2 DEF SoloInv, BaseInv, TypeOK, Working
  <1>4. CASE MarkFinalized(w) \/ MarkFailed(w) \/ MarkOrphaned(w)
    <2>1. pc' = [pc EXCEPT ![w] = "return"]
      BY <1>4 DEF MarkFinalized, MarkFailed, MarkOrphaned, Return, Goto
    <2>2. row'.status = "orphaned" => row' = row \/ pc[w] = "orphan"
      BY <1>4 DEF MarkFinalized, MarkFailed, MarkOrphaned, KeepRow, WriteRow
    <2> QED  BY <1>1, <1>2, <2>1, <2>2 DEF SoloInv, BaseInv, TypeOK, Working
  <1> QED  BY <1>3, <1>4

LEMMA SoloReads ==
    ASSUME Solitary, BaseInv, SoloInv, NEW w \in Workers,
           \/ Recheck(w) \/ ReadFinal(w) \/ ReadStaging(w) \/ Reread(w)
    PROVE  SoloInv'
  <1>1. UNCHANGED <<row, staging, final, rpc>> /\ pc[w] \in Working
    BY BaseReads DEF StoreStep, KeepRow, storeVars, reconcileVars
  <1>2. PICK l \in Labels : pc' = [pc EXCEPT ![w] = l]
    BY BaseReads DEF Moves
  <1>3. \A v \in Workers : v = w
    BY DEF Solitary
  <1>4. l \in {"staging", "copy", "orphan"} => final \notin Media
    <2>1. /\ pc'[w] = l /\ snap[w] \in Media /\ final \in Object /\ staging \in Object
          /\ "error" \notin Events
      BY <1>1, <1>2 DEF BaseInv, TypeOK, MediaInv, Solitary
    <2>2. CASE Recheck(w)
      <3>1. PICK read \in Read(final, snap[w]) :
                CASE read = "match" -> Return(w, "ok")
                  [] read = "mismatch" -> Return(w, "retry")
                  [] read = "missing" -> Mark(w, "orphan", "dead")
                  [] read = "error" -> Mark(w, "orphan", "retry")
        BY <2>2 DEF Recheck
      <3>2. /\ read \in {"match", "mismatch", "missing", "error"}
            /\ read \in {"missing", "error"} => final \notin Media
        BY <2>1, <3>1, ReadSound, PayloadAssumption
      <3> QED  BY <2>1, <3>1, <3>2 DEF Return, Mark, BaseInv, TypeOK
    <2>3. CASE ReadFinal(w)
      <3>1. PICK read \in Read(final, snap[w]) :
                CASE read = "match" -> Goto(w, "tidy")
                  [] read = "missing" -> Goto(w, "staging")
                  [] OTHER -> Mark(w, "fail", "retry")
        BY <2>3 DEF ReadFinal
      <3>2. read = "missing" => final \notin Media
        BY <2>1, <3>1, ReadSound, PayloadAssumption
      <3> QED  BY <2>1, <3>1, <3>2 DEF Goto, Mark, BaseInv, TypeOK
    <2>4. CASE ReadStaging(w)
      BY <2>4 DEF ReadStaging, SoloInv
    <2>5. CASE Reread(w)
      <3>1. PICK read \in Read(final, snap[w]) :
                CASE read = "match" -> Goto(w, IF TwoStepPut THEN "finalize" ELSE "remove")
                  [] read = "missing" -> Mark(w, "orphan", "dead")
                  [] OTHER -> Mark(w, "fail", "retry")
        BY <2>5 DEF Reread
      <3>2. read = "missing" => final \notin Media
        BY <2>1, <3>1, ReadSound, PayloadAssumption
      <3> QED  BY <2>1, <3>1, <3>2 DEF Goto, Mark, BaseInv, TypeOK
    <2> QED  BY <2>2, <2>3, <2>4, <2>5
  <1> QED  BY <1>1, <1>2, <1>3, <1>4 DEF SoloInv, BaseInv, TypeOK

LEMMA SoloWrites ==
    ASSUME Solitary, BaseInv, SoloInv, NEW w \in Workers,
           \/ PutBytes(w) \/ PutSidecar(w) \/ CopyObject(w)
           \/ RemoveStaging(w) \/ TidyStaging(w)
    PROVE  SoloInv'
  <1>1. row' = row /\ rpc' = rpc /\ pc[w] \in Working
    BY BaseWrites DEF StoreStep, KeepRow, reconcileVars
  <1>2. PICK l \in Labels : pc' = [pc EXCEPT ![w] = l]
    BY BaseWrites DEF Moves
  <1>3. \A v \in Workers : v = w
    BY DEF Solitary
  <1>4. row.status # "orphaned"
    BY <1>1 DEF SoloInv
  <1>5. l \in {"staging", "copy", "orphan"} => final' \notin Media
    <2>1. pc'[w] = l
      BY <1>2 DEF BaseInv, TypeOK
    <2>2. CASE CopyObject(w)
      BY <2>1, <2>2 DEF CopyObject, Goto, Mark, SoloInv, BaseInv, TypeOK
    <2>3. CASE ~CopyObject(w)
      BY <2>1, <2>3 DEF PutBytes, PutSidecar, RemoveStaging, TidyStaging, Goto, Mark, BaseInv, TypeOK
    <2> QED  BY <2>2, <2>3
  <1> QED  BY <1>1, <1>2, <1>3, <1>4, <1>5 DEF SoloInv, BaseInv, TypeOK

LEMMA NextSolo ==
    ASSUME Solitary
    PROVE  BaseInv /\ SoloInv /\ [Next]_vars => SoloInv'
  <1> SUFFICES ASSUME BaseInv, SoloInv, [Next]_vars PROVE SoloInv'
    OBVIOUS
  <1>1. CASE UNCHANGED vars
    BY <1>1 DEF SoloInv, vars
  <1>2. CASE Age
    BY <1>2 DEF Age, KeepRow, storeVars, workerVars, reconcileVars, SoloInv
  <1>3. CASE ProviderFault
    <2>1. row' = row /\ pc' = pc /\ rpc' = rpc /\ (final' \in Media => final \in Media)
      BY <1>3, PayloadAssumption DEF ProviderFault, KeepRow, workerVars, reconcileVars
    <2> QED  BY <2>1 DEF SoloInv
  <1>4. ~Reconcile
    BY DEF Solitary, SoloInv, Reconcile, ListPayloads, ReconcileFinal, ReconcileStaging, ApplyAction
  <1>5. CASE Next
    BY <1>2, <1>3, <1>4, <1>5, StepCases, SoloUploads, SoloJobs, SoloMarks, SoloReads, SoloWrites
  <1> QED  BY <1>1, <1>5

-----------------------------------------------------------------------------
(* A crash is repeatable                                                   *)

\* A whole object of the one media type matches.
LEMMA OnlyMatch ==
    ASSUME Repeatable, NEW object \in Media, NEW media \in Media,
           NEW read \in Read(object, media)
    PROVE  read = "match"
  <1>1. object \in Object /\ "error" \notin Events /\ object = media
    BY DEF Object, Repeatable, Solitary
  <1>2. /\ read \in {"match", "mismatch", "missing", "error"}
        /\ read = "missing" => object = "absent"
        /\ read = "mismatch" => object \in Media \ {media}
        /\ read = "error" => object \in {"torn", "bad"}
    BY <1>1, ReadSound
  <1> QED  BY <1>1, <1>2, PayloadAssumption

LEMMA RepeatUploads ==
    ASSUME BaseInv, RepeatInv, ~faulty,
           \/ \E m \in Media, complete \in BOOLEAN : StagePayload(m, complete)
           \/ CommitUpload \/ AbortUpload
    PROVE  RepeatInv'
  <1>1. UNCHANGED <<final, pc, return, crashes>>
    BY DEF StagePayload, CommitUpload, AbortUpload, storeVars, workerVars
  <1>2. CASE CommitUpload
    <2>1. row'.status \in {"staged", "finalized"}
      BY <1>2 DEF CommitUpload, RecordStaged, WriteRow
    <2>2. job \in Job
      BY DEF BaseInv, TypeOK
    <2>3. /\ job'.attempts = job.attempts /\ job'.holder = job.holder
          /\ job'.status = IF job.status = "none" THEN "active" ELSE job.status
      BY <1>2, <2>2 DEF CommitUpload, Job
    <2> QED  BY <1>1, <2>1, <2>3 DEF RepeatInv
  <1>3. CASE ~CommitUpload
    <2>1. row' = row /\ job' = job
      BY <1>3 DEF StagePayload, AbortUpload, payloadVars
    <2> QED  BY <1>1, <2>1 DEF RepeatInv
  <1> QED  BY <1>2, <1>3

LEMMA RepeatJobs ==
    ASSUME Repeatable, BaseInv, RepeatInv, ~faulty,
           ExpireFinalAttempt \/ ReplayJob \/ \E w \in Workers : JobStep(w)
    PROVE  RepeatInv'
  <1>1. UNCHANGED <<row, final, return>>
    BY DEF ExpireFinalAttempt, ReplayJob, JobStep, ClaimJob, Acknowledge, Crash, payloadVars,
           storeVars, workerVars
  <1>2. /\ job \in Job /\ job.attempts \in Nat /\ crashes \in Nat /\ crashes <= MaxCrashes
        /\ MaxCrashes \in Nat /\ MaxAttempts \in Nat /\ MaxCrashes + 1 < MaxAttempts
    BY PayloadAssumption DEF BaseInv, TypeOK, Job, Repeatable
  <1>3. ~ExpireFinalAttempt
    BY <1>2 DEF ExpireFinalAttempt, RepeatInv
  <1>4. ~ReplayJob
    BY DEF ReplayJob, RepeatInv
  <1>5. PICK w \in Workers : JobStep(w)
    BY <1>3, <1>4
  <1>6. \A v \in Workers : v = w
    BY DEF Repeatable, Solitary
  <1>7. CASE ClaimJob(w)
    <2>1. /\ job.status = "active" /\ job'.status = "active" /\ job'.holder = w
          /\ job'.attempts = job.attempts + 1 /\ crashes' = crashes
      BY <1>2, <1>7 DEF ClaimJob, Job
    <2>2. pc[w] = "idle" /\ pc'[w] = "load"
      BY <1>7 DEF ClaimJob, BaseInv, TypeOK
    <2>3. job.attempts <= crashes
      BY <2>1, <2>2 DEF RepeatInv
    <2>4. job'.attempts <= crashes' + 1
      BY <1>2, <2>1, <2>3
    <2> QED  BY <1>1, <1>6, <2>1, <2>2, <2>4 DEF RepeatInv
  <1>8. CASE Acknowledge(w)
    <2>1. pc[w] = "return" /\ pc'[w] = "idle" /\ crashes' = crashes
      BY <1>8 DEF Acknowledge, BaseInv, TypeOK
    <2>2. job.status = "active" /\ job.holder = w /\ return[w] = "ok"
      BY <2>1 DEF RepeatInv
    <2>3. job'.status = "done" /\ job'.attempts = job.attempts
      BY <1>2, <1>8, <2>2 DEF Acknowledge, Job
    <2> QED  BY <1>1, <1>6, <2>1, <2>3 DEF RepeatInv
  <1>9. CASE Crash(w)
    <2>1. pc'[w] = "idle" /\ crashes' = crashes + 1 /\ job' = job
      BY <1>9 DEF Crash, BaseInv, TypeOK
    <2>2. job.attempts <= crashes'
      BY <2>1 DEF RepeatInv
    <2>3. job.attempts <= crashes' + 1
      BY <1>2, <2>1, <2>2
    <2> QED  BY <1>1, <1>6, <2>1, <2>2, <2>3 DEF RepeatInv
  <1> QED  BY <1>5, <1>7, <1>8, <1>9 DEF JobStep

\* What an attempt's step must show: where it goes, and that the row is not
\* orphaned by it.
LEMMA RepeatMove ==
    ASSUME Repeatable, BaseInv, RepeatInv, ~faulty, NEW w \in Workers, pc[w] # "idle",
           NEW l, pc' = [pc EXCEPT ![w] = l], l \notin {"idle", "fail", "orphan"},
           l = "return" => return'[w] = "ok",
           l \in {"recheck", "reread"} => final' \in Media,
           UNCHANGED <<job, crashes>>, row'.status \notin {"absent", "orphaned"}
    PROVE  RepeatInv'
  <1>1. \A v \in Workers : v = w
    BY DEF Repeatable, Solitary
  <1>2. pc'[w] = l
    BY DEF BaseInv, TypeOK
  <1> QED  BY <1>1, <1>2 DEF RepeatInv

LEMMA RepeatMarks ==
    ASSUME Repeatable, BaseInv, WholeInv, RepeatInv, ~faulty, NEW w \in Workers,
           LoadRow(w) \/ MarkFinalized(w) \/ MarkFailed(w) \/ MarkOrphaned(w)
    PROVE  RepeatInv'
  <1>1. /\ UNCHANGED <<job, crashes, final>> /\ "error" \notin Events
    BY DEF LoadRow, MarkFinalized, MarkFailed, MarkOrphaned, RowStep, storeVars, Repeatable, Solitary
  <1>2. pc[w] # "idle" /\ pc[w] \notin {"fail", "orphan"}
    BY DEF LoadRow, MarkFinalized, MarkFailed, MarkOrphaned, RepeatInv
  <1>3. row.status \notin {"absent", "orphaned"} /\ row \in Row
    BY <1>2 DEF RepeatInv, BaseInv, TypeOK
  <1>4. CASE LoadRow(w)
    <2>1. row' = row
      BY <1>4 DEF LoadRow, KeepRow
    <2>2. CASE row.status = "finalized"
      <3>1. pc' = [pc EXCEPT ![w] = "recheck"] /\ final' \in Media
        BY <1>1, <1>3, <1>4, <2>2 DEF LoadRow, Goto, WholeInv
      <3> QED  BY <1>1, <1>2, <1>3, <2>1, <3>1, RepeatMove
    <2>3. CASE row.status # "finalized"
      <3>1. pc' = [pc EXCEPT ![w] = "final"]
        BY <1>1, <1>3, <1>4, <2>3 DEF LoadRow, Goto
      <3> QED  BY <1>1, <1>2, <1>3, <2>1, <3>1, RepeatMove
    <2> QED  BY <2>2, <2>3
  <1>5. CASE MarkFinalized(w)
    <2>1. row.status \in {"staged", "failed", "finalized"}
      BY <1>3 DEF Row, Status
    <2>2. WriteRow("finalized", row.media) /\ Return(w, "ok")
      BY <1>1, <1>5, <2>1 DEF MarkFinalized
    <2>3. row'.status = "finalized"
      BY <2>2 DEF WriteRow
    <2>4. pc' = [pc EXCEPT ![w] = "return"] /\ return'[w] = "ok"
      BY <2>2 DEF Return, BaseInv, TypeOK
    <2> QED  BY <1>1, <1>2, <2>3, <2>4, RepeatMove
  <1> QED  BY <1>2, <1>4, <1>5 DEF MarkFailed, MarkOrphaned

LEMMA RepeatReads ==
    ASSUME Repeatable, BaseInv, WholeInv, SoloInv, RepeatInv, ~faulty, NEW w \in Workers,
           \/ Recheck(w) \/ ReadFinal(w) \/ ReadStaging(w) \/ Reread(w)
    PROVE  RepeatInv'
  <1>1. UNCHANGED <<row, staging, final, job, crashes>> /\ pc[w] \in Working
    BY BaseReads DEF StoreStep, KeepRow, storeVars
  <1>2. /\ snap[w] \in Media /\ row.status \notin {"absent", "orphaned"}
        /\ final \in Object /\ staging \in Object /\ pc[w] # "idle"
    BY <1>1 DEF BaseInv, TypeOK, MediaInv, RepeatInv, Working
  <1>3. store = "s3" /\ "error" \notin Events /\ staging \notin {"torn", "bad"} /\ final \notin {"torn", "bad"}
    BY DEF BaseInv, TypeOK, Repeatable, Solitary, WholeInv
  <1>4. CASE Recheck(w)
    <2>1. final \in Media
      BY <1>4 DEF Recheck, RepeatInv
    <2>2. \A read \in Read(final, snap[w]) : read = "match"
      BY <1>2, <2>1, OnlyMatch
    <2>3. Return(w, "ok")
      BY <1>4, <2>2 DEF Recheck
    <2>4. pc' = [pc EXCEPT ![w] = "return"] /\ return'[w] = "ok"
      BY <2>3 DEF Return, BaseInv, TypeOK
    <2> QED  BY <1>1, <1>2, <2>4, RepeatMove
  <1>5. CASE ReadFinal(w)
    <2>1. \A read \in Read(final, snap[w]) : read \in {"match", "missing"}
      <3>1. CASE final \in Media
        BY <1>2, <3>1, OnlyMatch
      <3>2. CASE final \notin Media
        BY <1>2, <1>3, <3>2, ReadSound
      <3> QED  BY <3>1, <3>2
    <2>2. Goto(w, "tidy") \/ Goto(w, "staging")
      BY <1>5, <2>1 DEF ReadFinal
    <2>3. CASE Goto(w, "tidy")
      <3>1. pc' = [pc EXCEPT ![w] = "tidy"]
        BY <2>3 DEF Goto
      <3> QED  BY <1>1, <1>2, <3>1, RepeatMove
    <2>4. CASE Goto(w, "staging")
      <3>1. pc' = [pc EXCEPT ![w] = "staging"]
        BY <2>4 DEF Goto
      <3> QED  BY <1>1, <1>2, <3>1, RepeatMove
    <2> QED  BY <2>2, <2>3, <2>4
  <1>6. CASE ReadStaging(w)
    <2>1. staging \in Media
      BY <1>2, <1>6 DEF ReadStaging, SoloInv, WholeInv
    <2>2. \A read \in Read(staging, snap[w]) : read = "match"
      BY <1>2, <2>1, OnlyMatch
    <2>3. pc' = [pc EXCEPT ![w] = "copy"]
      BY <1>6, <2>2 DEF ReadStaging, Goto
    <2> QED  BY <1>1, <1>2, <2>3, RepeatMove
  <1>7. CASE Reread(w)
    <2>1. final \in Media
      BY <1>7 DEF Reread, RepeatInv
    <2>2. \A read \in Read(final, snap[w]) : read = "match"
      BY <1>2, <2>1, OnlyMatch
    <2>3. pc' = [pc EXCEPT ![w] = "remove"]
      BY <1>3, <1>7, <2>2 DEF Reread, Goto, TwoStepPut
    <2> QED  BY <1>1, <1>2, <2>3, RepeatMove
  <1> QED  BY <1>4, <1>5, <1>6, <1>7

LEMMA RepeatWrites ==
    ASSUME Repeatable, BaseInv, WholeInv, SoloInv, RepeatInv, ~faulty, NEW w \in Workers,
           \/ PutBytes(w) \/ PutSidecar(w) \/ CopyObject(w)
           \/ RemoveStaging(w) \/ TidyStaging(w)
    PROVE  RepeatInv'
  <1>1. UNCHANGED <<row, job, crashes>> /\ pc[w] \in Working
    BY BaseWrites DEF StoreStep, KeepRow
  <1>2. /\ snap[w] \in Media /\ row.status \notin {"absent", "orphaned"} /\ pc[w] # "idle"
    BY <1>1 DEF BaseInv, MediaInv, RepeatInv, Working
  <1>3. store = "s3" /\ "error" \notin Events
    BY DEF BaseInv, TypeOK, Repeatable, Solitary
  <1>4. CASE CopyObject(w)
    <2>1. staging \in Media
      BY <1>2, <1>4 DEF CopyObject, SoloInv, WholeInv
    <2>2. pc' = [pc EXCEPT ![w] = "reread"] /\ final' \in Media
      BY <1>2, <1>3, <1>4, <2>1, PayloadAssumption DEF CopyObject, Goto
    <2> QED  BY <1>1, <1>2, <2>2, RepeatMove
  <1>5. CASE PutSidecar(w)
    <2>1. pc' = [pc EXCEPT ![w] = "remove"]
      BY <1>3, <1>5 DEF PutSidecar, Goto
    <2> QED  BY <1>1, <1>2, <2>1, RepeatMove
  <1>6. CASE RemoveStaging(w) \/ TidyStaging(w)
    <2>1. pc' = [pc EXCEPT ![w] = "finalize"]
      BY <1>3, <1>6 DEF RemoveStaging, TidyStaging, Goto, TwoStepPut
    <2> QED  BY <1>1, <1>2, <2>1, RepeatMove
  <1>7. ~PutBytes(w)
    BY <1>3 DEF PutBytes, TwoStepPut
  <1> QED  BY <1>4, <1>5, <1>6, <1>7

LEMMA NextRepeat ==
    ASSUME Repeatable
    PROVE  BaseInv /\ WholeInv /\ SoloInv /\ RepeatInv /\ [Next]_vars => RepeatInv'
  <1> SUFFICES ASSUME BaseInv, WholeInv, SoloInv, RepeatInv, [Next]_vars PROVE RepeatInv'
    OBVIOUS
  <1>1. CASE faulty'
    BY <1>1 DEF RepeatInv
  <1>2. CASE UNCHANGED vars
    BY <1>2 DEF RepeatInv, vars
  <1>3. CASE Next /\ ~faulty'
    <2>0. ~ProviderFault
      BY <1>3 DEF ProviderFault
    <2>1. ~faulty /\ ~ProviderFault
      BY <1>3, <2>0, FaultStays
    <2>2. CASE Age
      BY <2>1, <2>2 DEF Age, KeepRow, storeVars, workerVars, RepeatInv
    <2>3. ~Reconcile
      BY DEF Repeatable, Solitary, SoloInv, Reconcile, ListPayloads, ReconcileFinal,
             ReconcileStaging, ApplyAction
    <2> QED  BY <1>3, <2>1, <2>2, <2>3, StepCases, RepeatUploads, RepeatJobs, RepeatMarks,
                RepeatReads, RepeatWrites
  <1> QED  BY <1>1, <1>2, <1>3

\* With an S3 store, one worker, one declared media type and more attempts than
\* crashes, a crash at any step of FinalizeStagedObjectPayload never dead-letters
\* the job of staged bytes that the provider has kept: the next attempt accepts
\* what the crashed one left behind.
THEOREM CrashesAreRepeatable ==
    ASSUME Repeatable
    PROVE  Spec => []CrashIsRepeatable
  <1>1. Init => SoloInv
    BY DEF Init, SoloInv, NoRow, Working
  <1>2. Init => RepeatInv
    BY DEF Init, RepeatInv, NoRow
  <1>3. RepeatInv => CrashIsRepeatable
    BY DEF RepeatInv, CrashIsRepeatable
  <1>4. BaseInv /\ SoloInv /\ [Next]_vars => SoloInv'
    BY NextSolo DEF Repeatable
  <1> QED  BY <1>1, <1>2, <1>3, <1>4, InitBase, NextBase, InitWhole, NextWhole, NextRepeat, PTL DEF Spec

=============================================================================
