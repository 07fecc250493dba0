------------------------- MODULE MCEmbeddingReconciler -------------------------
EXTENDS EmbeddingReconciler, TLC

MCNote == 1..2
Processes == Permutations(Vault)
===============================================================================
