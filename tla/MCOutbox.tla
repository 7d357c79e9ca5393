------------------------------ MODULE MCOutbox ------------------------------
(***************************************************************************)
(* Instances of Outbox for TLC.                                            *)
(***************************************************************************)
EXTENDS Outbox, TLC

CONSTANTS fin, scan, vex, w1, w2

MCFinalizers == Jobs \cap {fin}
MCCommands == {{j} : j \in Jobs \ {fin, scan}} \cup {Jobs \cap {fin, scan}}
MCRequires == [j \in Jobs |-> IF j = scan THEN Jobs \cap {fin} ELSE {}]
MCAwaits == [j \in Jobs |-> IF j = vex THEN Jobs \cap {scan} ELSE {}]

\* Worker processes are interchangeable; used by the safety runs only.
WorkerSymmetry == Permutations(Workers)

\* When a batch has room for every job, ClaimJobs takes all claimable rows and
\* their order has no influence: states that differ in it are the same.
Unordered == <<row, history, effect, preceding, batch, current, stage, result, stopping>>
=============================================================================
