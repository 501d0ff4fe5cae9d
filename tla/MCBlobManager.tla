--------------------------- MODULE MCBlobManager ---------------------------
(* A small instance of BlobManager: the cache has 3 bytes and the last of  *)
(* the four values exceeds it.                                             *)
EXTENDS BlobManager, TLC

CONSTANTS b1, b2, b3, b4, low, core

MCBlob == {b1, b2, b3, b4}
MCEmitter == {low, core}
MCSizeOf == b1 :> 1 @@ b2 :> 1 @@ b3 :> 2 @@ b4 :> 4
MCQuota == low :> 1 @@ core :> 3
Twins == Permutations({b1, b2})
=============================================================================
