-------------------------- MODULE MCDetectionWorker --------------------------
(* The DetectionWorker with three plates, two of which read alike. *)
EXTENDS DetectionWorker, TLC

CONSTANTS a, a2, b

Alike == Permutations({a, a2})
=============================================================================
