-------------------------- MODULE MCFileProcessing --------------------------
(***************************************************************************)
(* An image with a chain of two variations: "medium" is made from the      *)
(* upload, "small" from "medium" (the source chain of playfields and       *)
(* directb2s files in file.types.ts).  All are images, hence two queues.   *)
(***************************************************************************)
EXTENDS FileProcessing, TLC

CONSTANTS medium, small, original

MCSource == (medium :> original) @@ (small :> medium)
MCCategory == [i \in {medium, small, original} |-> "image"]
MCQueues == <<<<"creation", "image">>, <<"optimization", "image">>>>
\* ImageVariationProcessor.getOrder is 100, ImageOptimizationProcessor.getOrder 500.
MCPriority ==
  [j \in [type: {"creation"}, item: Variations] \cup [type: {"optimization"}, item: Optimized]
     |-> IF j.type = "creation" THEN 100 ELSE 500]

\* The processes of the cluster are interchangeable.
NodeSymmetry == Permutations(Nodes)

=============================================================================
