---------------------------- MODULE MCProcessJobs ----------------------------
(***************************************************************************)
(* Instances of ProcessJobs for TLC.                                       *)
(***************************************************************************)
EXTENDS ProcessJobs, TLC

MCToken == {"stage", "run", "cancel"} \X Job

\* All jobs of one owner, so that the owner's limit can bind.
OneOwner == [j \in Job |-> CHOOSE o \in Owner : TRUE]

\* The jobs differ in nothing, nor do the workers; used where no liveness is
\* checked.
JobSymmetry == Permutations(Job)
JobWorkerSymmetry == Permutations(Job) \union Permutations(Worker)
=============================================================================
