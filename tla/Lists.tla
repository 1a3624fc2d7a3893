-------------------------------- MODULE Lists --------------------------------
(* What the modules of Analysis take from their lists. *)
EXTENDS Integers, FiniteSets, SequencesExt

\* The elements of a sequence that are in a set, in its order.
Those(seq, S) == FoldLeft(LAMBDA kept, f : IF f \in S THEN Append(kept, f) ELSE kept, <<>>, seq)
=============================================================================
