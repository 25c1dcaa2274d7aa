-------------------------- MODULE MC_PagedAttention --------------------------
(***************************************************************************)
(* Model-checking instance of PagedAttention: batches as Engine.step,      *)
(* PrefillWorker.prefill_batch and DecodeWorker.step build them, from      *)
(* three sequences with fixed tables; block 0, which also pads tables, is  *)
(* somebody's, block 5 nobody's.                                           *)
(***************************************************************************)
EXTENDS PagedAttention

MC_Table == [s \in {"s1", "s2", "s3"} |->
  CASE s = "s1" -> <<2, 0>> [] s = "s2" -> <<1, 3>> [] s = "s3" -> <<4>>]

Pages(s, n) == SubSeq(MC_Table[s], 1, CeilDiv(n, BlockSize))
Prompt(s, n) == [seq |-> s, table |-> Pages(s, n), start |-> 0, num |-> n]
Part(s, start, n) == [seq |-> s, table |-> MC_Table[s], start |-> start, num |-> n]
Decoding(s, pos) == [seq |-> s, table |-> Pages(s, pos + 1), pos |-> pos]

MC_Engine ==
  {[prefills |-> p, decodes |-> d] :
     p \in {<<Part("s2", 0, 3)>>, <<Part("s2", 3, 4)>>, <<Part("s2", 4, 1)>>},
     d \in {<<>>, <<Decoding("s1", 4), Decoding("s3", 1)>>,
            <<Decoding("s3", 3), Decoding("s1", 5)>>}}
MC_Prefill ==
  {[prefills |-> <<Prompt("s3", a), Prompt("s1", b), Prompt("s2", c)>>, decodes |-> <<>>] :
     a \in {1, 4}, b \in {1, 4, 5}, c \in {2, 8}}
MC_Decode ==
  {[prefills |-> <<>>, decodes |-> d] :
     d \in {<<Decoding("s1", a), Decoding("s3", b), Decoding("s2", c)>> :
              a \in {0, 4}, b \in {0, 3}, c \in {3, 5}}}
MC_Exp == [n \in 0 .. 2 * MaxScore |-> 2 ^ n]
MC_Batches == MC_Engine \cup MC_Prefill \cup MC_Decode
=============================================================================
