------------------------ MODULE MCSessionTranscript ------------------------
(***************************************************************************)
(* SessionTranscript for TLC: two sessions over two nonces and a few       *)
(* thumbprints, and arrays enough for both and two results of Bytes().     *)
(***************************************************************************)
EXTENDS SessionTranscript, TLC

\* Arrays are interchangeable: no operator orders or names them.
CellSymmetry == Permutations(Cells)
=============================================================================
