----------------------- MODULE MCClassificationService -----------------------
(* Model values and jobs for ClassificationService. *)
EXTENDS ClassificationService, TLC
CONSTANTS r1, r2, r3, k1, l1
MCTwo == {r1, r2}
MCThree == {r1, r2, r3}
MCKey == {k1}
MCLease == {l1}
MCJob(mode, work) == [mode |-> mode, work |-> work, key |-> k1]
MCFanOut == {MCJob("auto", 2)}
MCQueue == {MCJob("serial", 2), MCJob("parallel", 2), MCJob("parallel", 0)}
MCMixed == {MCJob("auto", 2), MCJob("serial", 2)}
Symmetry == Permutations(Request)
=============================================================================
