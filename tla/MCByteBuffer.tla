---------------------------- MODULE MCByteBuffer -----------------------------
(* An instance whose buffer is drained, slid and grown twice.               *)
EXTENDS ByteBuffer
=============================================================================
