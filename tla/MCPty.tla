------------------------------- MODULE MCPty -------------------------------
(***************************************************************************)
(* The terminal with interchangeable readers.                              *)
(***************************************************************************)
EXTENDS Pty

ReaderSymmetry == Permutations(Reader)
=============================================================================
