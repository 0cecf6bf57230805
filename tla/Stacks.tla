-------------------------------- MODULE Stacks --------------------------------
(***************************************************************************)
(* A Vec used as a stack: the element Vec::last returns, and what Vec::pop *)
(* leaves.                                                                 *)
(***************************************************************************)
EXTENDS Integers, Sequences

Last(s) == s[Len(s)]
Front(s) == SubSeq(s, 1, Len(s) - 1)
===============================================================================
