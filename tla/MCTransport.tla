----------------------------- MODULE MCTransport -----------------------------
(***************************************************************************)
(* Headers of two units, payloads of at most one: a frame of each kind the *)
(* reader tells apart, one whose payload is shorter than declared and one  *)
(* longer.                                                                 *)
(***************************************************************************)
EXTENDS Transport

Good == [magic |-> TRUE, len |-> 1, body |-> 1, sum |-> TRUE, named |-> TRUE, decodes |-> TRUE]

MCFrames ==
  {Good,
   [Good EXCEPT !.len = 0, !.body = 0],
   [Good EXCEPT !.decodes = FALSE],
   [Good EXCEPT !.decodes = FALSE, !.named = FALSE],
   [Good EXCEPT !.sum = FALSE],
   [Good EXCEPT !.magic = FALSE],
   [Good EXCEPT !.len = 2, !.body = 2],
   [Good EXCEPT !.body = 0],
   [Good EXCEPT !.body = 2]}
=============================================================================
