------------------------- MODULE MCParquetLifecycle -------------------------
(* ParquetLifecycle on a small instance for TLC.                           *)
EXTENDS ParquetLifecycle, TLC

MCSymmetry == Permutations(Outputs) \union Permutations(Jobs)

\* States that differ in the age of an object with a row are one state: the age counts
\* while an upload waits for its commit, that is before it has a row, and for the object
\* deleter, once the row is gone. A row goes when its mark is older than PFCutoff, at
\* least PFCutoff + 1 - WriteDelay = OSCutoff after the commit in the instance, and by
\* then the object's age is at its cap.
MCView ==
    <<schedulerVars, rows, flagAge, objects, doomed, tasks, content, jobVars, listAge,
      [f \in Files \ rows |-> age[f]]>>

=============================================================================
