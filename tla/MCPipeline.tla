----------------------------- MODULE MCPipeline -----------------------------
(* Instances of the pipeline for TLC.                                      *)
EXTENDS PipelineProperties

CONSTANTS l1, h1, h2,   \* producers: a listener goroutine, two HTTP requests
          s1, s2,       \* sources
          w1            \* a worker

\* Everyone feeds s1.
OneSource == [p \in Producers |-> s1]

\* l1 has a source of its own.
TwoSources == [p \in Producers |-> IF p = l1 THEN s1 ELSE s2]

Block == [s \in Sources |-> "block"]
DropOldest == [s \in Sources |-> "drop_oldest"]
DropNewest == [s \in Sources |-> "drop_newest"]
MixedPolicies == [s \in Sources |-> IF s = s1 THEN "drop_oldest" ELSE "drop_newest"]
=============================================================================
