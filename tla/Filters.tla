------------------------------ MODULE Filters --------------------------------
(***************************************************************************)
(* What Vec::retain, VecDeque::drain and Iterator::filter leave, for       *)
(* models that are also proved about: SelectSeq has no definition that the *)
(* proof system can expand.                                                *)
(***************************************************************************)
EXTENDS Integers, Sequences

(* The elements of s that are in S, in their order. *)
Keeping(s, S) ==
  LET kept[i \in 0..Len(s)] ==
        IF i = 0 THEN <<>>
        ELSE IF s[i] \in S THEN Append(kept[i - 1], s[i]) ELSE kept[i - 1]
  IN  kept[Len(s)]
=============================================================================
