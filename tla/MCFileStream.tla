---------------------------- MODULE MCFileStream ----------------------------
(***************************************************************************)
(* Files of up to three bytes in chunks of two: an empty file, less than a *)
(* chunk, a whole chunk, and a chunk with a rest.  The stream holds three  *)
(* bytes, so that a read may end in the middle of a chunk or of a digest.  *)
(***************************************************************************)
EXTENDS FileStream

CONSTANTS b0, b1  \* the values of a byte
=============================================================================
