------------------------------ MODULE MCUpload ------------------------------
(* UploadPipeline for TLC: the producers are interchangeable. *)
EXTENDS UploadPipeline, TLC

ProducerSymmetry == Permutations(Producers)
=============================================================================
