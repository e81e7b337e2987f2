---------------------------- MODULE MCSyncJobs ----------------------------
(* Model checking SyncJobs: the cfg files give the workers as model        *)
(* values; they are interchangeable, so safety runs may use the symmetry.  *)
EXTENDS SyncJobs, TLC

WorkerSymmetry == Permutations(Workers)
=============================================================================
