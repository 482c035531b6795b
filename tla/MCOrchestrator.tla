--------------------------- MODULE MCOrchestrator ---------------------------
(***************************************************************************)
(* Orchestrator with the shape of the catalog in gateway/config.py: one    *)
(* model per profile, all of them in the same container, the second one    *)
(* started as a single process, the others on two nodes.  A second shape,  *)
(* which the code also supports, has two containers and a profile of two   *)
(* models.                                                                 *)
(***************************************************************************)
EXTENDS Orchestrator, TLC

CONSTANTS t1, t2, lifespan, deepseek, qwen35, qwen38, embed, node, aux

TwoModels == <<deepseek, qwen35>>
ThreeModels == <<deepseek, qwen35, qwen38>>

OneModelEach == [p \in Profiles |-> <<p>>]
SharedContainer == [p \in Profiles |-> node]
CatalogNodes == [p \in Profiles |-> IF p = qwen35 THEN 1 ELSE 2]

WithEmbed == <<embed, deepseek, qwen38>>
DuoProfiles == <<deepseek, qwen38>>
DuoModels == [p \in Profiles |-> IF p = deepseek THEN <<deepseek, embed>> ELSE <<qwen38>>]
DuoContainers == [m \in {embed, deepseek, qwen38} |-> IF m = embed THEN aux ELSE node]
DuoNodes == [m \in {embed, deepseek, qwen38} |-> IF m = deepseek THEN 2 ELSE 1]

\* The tasks that call switch_profile are interchangeable.
CallerSymmetry == Permutations(Callers)
=============================================================================
