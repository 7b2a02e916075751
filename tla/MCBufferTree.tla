---------------------------- MODULE MCBufferTree ----------------------------
EXTENDS BufferTree

(* The constants are given in BufferTree.cfg: ops are told apart so that the
   liveness property can be checked.                                       *)
=============================================================================
