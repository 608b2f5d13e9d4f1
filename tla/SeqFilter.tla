------------------------------ MODULE SeqFilter -------------------------------
(* Array.filter: the elements of box that are in S, in their order. SelectSeq *)
(* as a recursive function, about which NaturalOrder proves what it keeps.    *)
EXTENDS Naturals, Sequences

Among(box, S) ==
  LET f[i \in 0 .. Len(box)] ==
        IF i = 0 THEN <<>>
        ELSE IF box[i] \in S THEN Append(f[i - 1], box[i]) ELSE f[i - 1]
  IN f[Len(box)]
===============================================================================
