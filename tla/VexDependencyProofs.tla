------------------------ MODULE VexDependencyProofs ------------------------
(***************************************************************************)
(* Proofs about VexDependency for any number of scans.                     *)
(*                                                                         *)
(* The gate reads projections and queue in separate statements.  That it   *)
(* opens only on projections that exist does not depend on when it reads   *)
(* them (a projection stays): so Outbox may take the reads as one step.    *)
(* That it closes for good only on scans without a projection does: it     *)
(* needs that no operator replays a scan's job.                            *)
(***************************************************************************)
EXTENDS VexDependency, WellFoundedInduction, TLAPS

\* The steps of the handler, and those inside its loop.
Gate == Load \/ CheckJob \/ Reload \/ RecheckJob
Looping == {"check", "reload", "recheck"}

\* The scans that the handler's first snapshot knows.
Known == IF pc \in Looping THEN waits ELSE {s \in Scans : job[s] # "none"}

\* The gate lets the VEX document through only when every scan of its first
\* snapshot has its projection, as vexDecisionDependencyError intends.
OpensOnProjections ==
    [][Gate /\ pc' = "ready" => \A s \in Known : published[s]]_vars

TypeInv ==
    /\ job \in [Scans -> {"none", "queued", "running", "succeeded", "dead_letter"}]
    /\ published \in [Scans -> BOOLEAN]
    /\ replays \in Nat
    /\ pc \in {"load"} \cup Verdicts \cup Looping
    /\ list \subseteq waits /\ waits \subseteq Scans
    /\ pc \in Looping => list # {}

\* A scan of the first snapshot was uploaded, and is published unless the latest
\* snapshot still lacks its projection.
GateInv ==
    \A s \in waits : job[s] # "none" /\ (published[s] \/ s \in snap)

\* Without replays a job that has ended without a projection never publishes it.
SettledInv ==
    /\ \A s \in Scans : job[s] = "succeeded" => published[s]
    /\ replays = 0
    /\ pc \in {"reload", "recheck"} => job[Current] \notin Active
    /\ pc = "recheck" => ~published[Current]

-----------------------------------------------------------------------------
\* The handler's loop is at one of its scans.
LEMMA CurrentInList ==
    ASSUME Scans \subseteq Nat, TypeInv, pc \in Looping
    PROVE  Current \in list /\ Current \in Scans
  <1>1. list \subseteq Nat /\ list # {} /\ list \subseteq Scans
    BY DEF TypeInv
  <1> DEFINE Less == {p \in Nat \X Nat : p[1] < p[2]}
  <1>2. IsWellFoundedOn(Less, Nat)
    BY NatLessThanWellFounded, Zenon DEF OpToRel
  <1>3. \E x \in list : \A y \in list : x <= y
    <2>1. PICK x \in list : \A y \in list : ~(<<y, x>> \in Less)
      BY <1>1, <1>2, WFMin
    <2>2. ASSUME NEW y \in list PROVE x <= y
      <3>1. x \in Nat /\ y \in Nat /\ <<y, x>> \in Nat \X Nat
        BY <1>1
      <3>2. ~(y < x)
        BY <2>1, <3>1
      <3> QED  BY <3>1, <3>2
    <2> QED  BY <2>2
  <1>4. Current \in list
    BY <1>3 DEF Current, Min
  <1> QED  BY <1>1, <1>4

\* The steps of the scans' own jobs.
ScanStep ==
    \E s \in Scans : \/ Upload(s) \/ Claim(s) \/ Publish(s) \/ CompleteJob(s)
                     \/ DeadLetter(s) \/ ReplayTerminalJob(s)

\* Jobs are never forgotten and projections never withdrawn.
LEMMA ScanSteps ==
    ASSUME TypeInv, ScanStep
    PROVE  /\ TypeInv' /\ UNCHANGED gateVars
           /\ \A s \in Scans : /\ job[s] # "none" => job'[s] # "none"
                               /\ published[s] => published'[s]
  <1>1. UNCHANGED <<pc, list, waits, snap>>
    BY DEF ScanStep, Upload, Claim, Publish, CompleteJob, DeadLetter, ReplayTerminalJob, gateVars
  <1>2. PICK s \in Scans : \/ Upload(s) \/ Claim(s) \/ Publish(s) \/ CompleteJob(s)
                           \/ DeadLetter(s) \/ ReplayTerminalJob(s)
    BY DEF ScanStep
  <1>3. /\ job' = job \/ \E v \in {"queued", "running", "succeeded", "dead_letter"} :
                             job' = [job EXCEPT ![s] = v]
        /\ published' = published \/ published' = [published EXCEPT ![s] = TRUE]
    BY <1>2 DEF Upload, Claim, Publish, CompleteJob, DeadLetter, ReplayTerminalJob
  <1>4. replays' \in Nat
    BY <1>2 DEF Upload, Claim, Publish, CompleteJob, DeadLetter, ReplayTerminalJob, TypeInv
  <1>5. TypeInv'
    BY <1>1, <1>3, <1>4 DEF TypeInv
  <1> QED  BY <1>1, <1>3, <1>5 DEF TypeInv, gateVars

\* The loop's next scan, or its end.
LEMMA Advances ==
    ASSUME TypeInv, GateInv, NEW todo, todo \subseteq list, NEW state,
           \A s \in waits : published[s] \/ s \in state,
           Advance(todo, state), UNCHANGED scanVars
    PROVE  /\ TypeInv' /\ GateInv'
           /\ pc' \notin {"reload", "recheck"}
           /\ pc' = "ready" => \A s \in waits : published[s]
  <1>1. CASE todo \cap state = {}
    <2>1. list' = {} /\ waits' = {} /\ pc' = IF waits \cap state # {} THEN "pending" ELSE "ready"
      BY <1>1 DEF Advance, Conclude, Return
    <2>2. TypeInv'
      BY <2>1 DEF TypeInv, scanVars, Verdicts, Looping
    <2> QED  BY <2>1, <2>2 DEF GateInv
  <1>2. CASE todo \cap state # {}
    <2>1. pc' = "check" /\ list' = todo \cap state /\ snap' = state /\ waits' = waits
      BY <1>2 DEF Advance
    <2>2. TypeInv'
      BY <1>2, <2>1 DEF TypeInv, scanVars, Looping
    <2> QED  BY <2>1, <2>2 DEF GateInv, scanVars
  <1> QED  BY <1>1, <1>2

LEMMA GateSteps ==
    ASSUME Scans \subseteq Nat, TypeInv, GateInv, Gate
    PROVE  /\ TypeInv' /\ GateInv' /\ UNCHANGED scanVars
           /\ pc' = "ready" => \A s \in Known : published[s]
  <1>1. UNCHANGED scanVars
    BY DEF Gate, Load, CheckJob, Reload, RecheckJob
  <1>2. ASSUME NEW v \in {"error", "terminal"}, Return(v)
        PROVE  TypeInv' /\ GateInv' /\ pc' # "ready"
    BY <1>1, <1>2 DEF Return, TypeInv, GateInv, scanVars, Verdicts, Looping
  <1>3. CASE Load
    <2>1. pc \notin Looping
      BY <1>3 DEF Load, Verdicts, Looping
    <2>2. Pending \subseteq Scans /\ \A s \in Pending : job[s] # "none"
      BY DEF Pending
    <2>3. CASE Pending = {}
      <3>1. pc' = "ready" /\ list' = {} /\ waits' = {}
        BY <1>3, <2>3 DEF Load, Return
      <3>2. TypeInv' /\ GateInv'
        BY <1>1, <3>1 DEF TypeInv, GateInv, scanVars, Verdicts, Looping
      <3>3. \A s \in Known : published[s]
        BY <2>1, <2>3 DEF Known, Pending
      <3> QED  BY <1>1, <3>2, <3>3
    <2>4. CASE Pending # {}
      <3>1. pc' = "check" /\ list' = Pending /\ waits' = Pending /\ snap' = Pending
        BY <1>3, <2>4 DEF Load
      <3>2. TypeInv'
        BY <1>1, <2>2, <2>4, <3>1 DEF TypeInv, scanVars, Looping
      <3> QED  BY <1>1, <2>2, <3>1, <3>2 DEF GateInv, scanVars
    <2> QED  BY <2>3, <2>4
  <1>4. CASE CheckJob \/ RecheckJob
    <2>1. pc \in Looping
      BY <1>4 DEF CheckJob, RecheckJob, Looping
    <2>2. CASE Advance(list \ {Current}, snap)
      <3>1. \A s \in waits : published[s] \/ s \in snap
        BY DEF GateInv
      <3> QED  BY <1>1, <2>1, <2>2, <3>1, Advances DEF Known
    <2>3. CASE pc' = "reload" /\ UNCHANGED <<list, waits, snap>>
      BY <1>1, <2>1, <2>3 DEF TypeInv, GateInv, scanVars, Looping
    <2> QED  BY <1>1, <1>2, <1>4, <2>2, <2>3 DEF CheckJob, RecheckJob
  <1>5. CASE Reload
    <2>1. pc \in Looping
      BY <1>5 DEF Reload, Looping
    <2>2. \A s \in waits : published[s] \/ s \in Pending
      BY DEF GateInv, TypeInv, Pending
    <2>3. CASE Advance(list \ {Current}, Pending)
      BY <1>1, <2>1, <2>2, <2>3, Advances DEF Known
    <2>4. CASE pc' = "recheck" /\ snap' = Pending /\ UNCHANGED <<list, waits>>
      <3>1. TypeInv'
        BY <1>1, <2>1, <2>4 DEF TypeInv, scanVars, Looping
      <3> QED  BY <1>1, <2>2, <2>4, <3>1 DEF GateInv, scanVars
    <2> QED  BY <1>1, <1>2, <1>5, <2>3, <2>4 DEF Reload
  <1> QED  BY <1>3, <1>4, <1>5 DEF Gate

LEMMA NextGate ==
    ASSUME Scans \subseteq Nat
    PROVE  TypeInv /\ GateInv /\ [Next]_vars => TypeInv' /\ GateInv'
  <1> SUFFICES ASSUME TypeInv, GateInv, [Next]_vars PROVE TypeInv' /\ GateInv'
    OBVIOUS
  <1>1. CASE UNCHANGED vars
    BY <1>1 DEF TypeInv, GateInv, vars, scanVars, gateVars
  <1>2. CASE ScanStep
    <2>1. waits' = waits /\ snap' = snap /\ waits \subseteq Scans
      BY <1>2, ScanSteps DEF gateVars, TypeInv
    <2> QED  BY <1>2, <2>1, ScanSteps DEF GateInv
  <1>3. CASE Gate
    BY <1>3, GateSteps
  <1> QED  BY <1>1, <1>2, <1>3 DEF Next, ScanStep, Gate

LEMMA InitGate == Init => TypeInv /\ GateInv
  BY DEF Init, TypeInv, GateInv, Looping

\* The VEX document is let through only when every scan of its first snapshot has
\* its projection, however uploads, claims, failures and replays fall between the
\* reads of vexDecisionDependencyError, and for any number of scans.
THEOREM GateOpensOnProjections ==
    ASSUME Scans \subseteq Nat
    PROVE  Spec => OpensOnProjections
  <1>1. ASSUME TypeInv, GateInv, [Next]_vars
        PROVE  [Gate /\ pc' = "ready" => \A s \in Known : published[s]]_vars
    BY <1>1, GateSteps
  <1> QED  BY <1>1, InitGate, NextGate, PTL DEF Spec, OpensOnProjections

\* Without replays a look that finds no active job finds one that has ended.
LEMMA NextSettled ==
    ASSUME Scans \subseteq Nat, MaxReplays = 0
    PROVE  TypeInv /\ GateInv /\ SettledInv /\ [Next]_vars => SettledInv'
  <1> SUFFICES ASSUME TypeInv, GateInv, SettledInv, [Next]_vars PROVE SettledInv'
    OBVIOUS
  <1>1. CASE UNCHANGED vars
    BY <1>1 DEF SettledInv, Current, vars, scanVars, gateVars
  <1>2. CASE ScanStep
    <2>1. pc' = pc /\ list' = list
      BY <1>2, ScanSteps DEF gateVars
    <2>2. Current' = Current /\ (pc \in Looping => Current \in Scans /\ job[Current] # "none")
      BY <2>1, CurrentInList DEF Current, TypeInv, GateInv
    <2>3. PICK s \in Scans : \/ Upload(s) \/ Claim(s) \/ Publish(s) \/ CompleteJob(s)
                             \/ DeadLetter(s) \/ ReplayTerminalJob(s)
      BY <1>2 DEF ScanStep
    <2>4. ~ReplayTerminalJob(s) /\ replays' = 0
      BY <2>3 DEF ReplayTerminalJob, SettledInv, Upload, Claim, Publish, CompleteJob, DeadLetter
    <2>5. \A t \in Scans : job'[t] = "succeeded" => published'[t]
      BY <2>3, <2>4 DEF SettledInv, Upload, Claim, Publish, CompleteJob, DeadLetter, TypeInv
    <2>6. ASSUME pc \in {"reload", "recheck"}
          PROVE  job'[Current] = job[Current] /\ published'[Current] = published[Current]
      <3>1. Current \in Scans /\ job[Current] \notin Active \cup {"none"}
        BY <2>2, <2>6 DEF SettledInv, Looping
      <3> QED  BY <2>3, <2>4, <3>1 DEF Upload, Claim, Publish, CompleteJob, DeadLetter, Active, TypeInv
    <2> QED  BY <2>1, <2>2, <2>4, <2>5, <2>6 DEF SettledInv
  <1>3. CASE Gate
    <2>1. UNCHANGED <<job, published, replays>>
      BY <1>3, GateSteps DEF scanVars
    <2>2. CASE pc' \notin {"reload", "recheck"}
      BY <2>1, <2>2 DEF SettledInv
    <2>3. CASE pc' = "reload"
      <3>1. CheckJob /\ ~HasActiveJobDependency(Current) /\ list' = list
        BY <1>3, <2>3 DEF Gate, Load, CheckJob, Reload, RecheckJob, Advance, Conclude, Return
      <3>2. Current' = Current
        BY <3>1 DEF Current
      <3> QED  BY <2>1, <2>3, <3>1, <3>2 DEF SettledInv, HasActiveJobDependency
    <2>4. CASE pc' = "recheck"
      <3>1. Reload /\ Current \in Pending /\ list' = list
        BY <1>3, <2>4 DEF Gate, Load, CheckJob, Reload, RecheckJob, Advance, Conclude, Return
      <3>2. Current' = Current
        BY <3>1 DEF Current
      <3> QED  BY <2>1, <2>4, <3>1, <3>2 DEF SettledInv, Pending, Reload
    <2> QED  BY <2>2, <2>3, <2>4
  <1> QED  BY <1>1, <1>2, <1>3 DEF Next, ScanStep, Gate

\* As long as no operator replays a scan's job, an import is failed for good only
\* when the scan it waits for has no projection and will get none.  A replayed job
\* that publishes and succeeds between the reload and the second look is therefore
\* the only way to the counterexample that TLC finds with one replay.
THEOREM TerminalIsRightWithoutReplay ==
    ASSUME Scans \subseteq Nat, MaxReplays = 0
    PROVE  Spec => TerminalMeansUnpublished
  <1>1. Init => SettledInv
    BY DEF Init, SettledInv
  <1>2. ASSUME SettledInv
        PROVE  [pc = "recheck" /\ pc' = "terminal" => ~published[Current]]_vars
    BY <1>2 DEF SettledInv
  <1> QED  BY <1>1, <1>2, InitGate, NextGate, NextSettled, PTL DEF Spec, TerminalMeansUnpublished

=============================================================================
