----------------------------- MODULE MCReading -----------------------------
(* A file that has two versions, of two lengths, or is a directory, or gone. *)
EXTENDS Reading

MCSize == << 2, 1 >>
=============================================================================
