------------------------------ MODULE MCNotify ------------------------------
(* A model-checking instance of the notifications: f1 and f2 share a       *)
(* bucket; f3 is the other side of f1's trade, so it has f1's tid.         *)
EXTENDS NotifyPipeline, TLC

CONSTANTS f1, f2, f3, k1, k2, b1, b2

MCBucketOf == f1 :> b1 @@ f2 :> b1 @@ f3 :> b2
MCKeyOf == f1 :> k1 @@ f2 :> k2 @@ f3 :> k1
=============================================================================
