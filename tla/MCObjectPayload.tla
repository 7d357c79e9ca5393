-------------------------- MODULE MCObjectPayload --------------------------
(***************************************************************************)
(* Instances of ObjectPayload for TLC.                                     *)
(***************************************************************************)
EXTENDS ObjectPayload, TLC

CONSTANTS w1, w2

\* Worker processes are interchangeable; used by the safety runs only.
WorkerSymmetry == Permutations(Workers)
=============================================================================
