------------------------- MODULE MCGenerationQueue -------------------------
(* Instances of GenerationQueue for TLC: all workers run the same model. *)
EXTENDS GenerationQueue, TLC

OneModel(w) == CHOOSE m \in Model : TRUE

Symmetry == Permutations(Job) \cup Permutations(Worker)
=============================================================================
