--------------------------- MODULE MCBufferCache ---------------------------
(***************************************************************************)
(* A small instance of BufferCache: three buffers for four blocks on two   *)
(* hash queues, so that blocks collide on a queue, one has to leave, and   *)
(* all buffers can be dirty or locked at once.                             *)
(***************************************************************************)
EXTENDS BufferCache

CONSTANTS p1, p2

ThreeBlocks == <<0, 1, 2>>
TwoFree == <<2, 0>>
Callers == Permutations({p1, p2})
=============================================================================
