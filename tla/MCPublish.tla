------------------------------ MODULE MCPublish ------------------------------
(* TLC instance of Publish: two members of one key group, one far from them. *)
EXTENDS Publish, TLC

CONSTANTS m1, m2, m3

Checksums == m1 :> 3 @@ m2 :> 15 @@ m3 :> 10
KeyHashes == m1 :> 7 @@ m2 :> 2 @@ m3 :> 5
=============================================================================
