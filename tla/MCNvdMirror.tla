---------------------------- MODULE MCNvdMirror ----------------------------
(* Model checking NvdMirror: workers are model values and interchangeable. *)
EXTENDS NvdMirror, TLC

WorkerSymmetry == Permutations(Workers)
=============================================================================
