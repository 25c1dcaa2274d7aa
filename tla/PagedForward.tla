----------------------------- MODULE PagedForward -----------------------------
(***************************************************************************)
(* The layout of one forward pass.  The tokens of all sequences of a batch *)
(* are one flat row: first the prompts (or chunks) being prefilled, one    *)
(* after the other, then one token per decoding sequence.  Everything      *)
(* below is index arithmetic that has to put each row with its sequence:   *)
(* where its key is stored, which rows it attends to, which block table    *)
(* the attention kernel uses for it, and whose next token its logits give. *)
(*                                                                         *)
(* A batch is [prefills |-> <<[seq, table, start, num], ...>>,             *)
(*             decodes |-> <<[seq, table, pos], ...>>];                    *)
(* seq names the sequence and is not in the code.  Rows count from 0.      *)
(***************************************************************************)
EXTENDS Integers, Sequences, SequencesExt

CONSTANT BlockSize   \* tokens per block

ASSUME BlockSizeAssumption == BlockSize \in Nat \ {0}

CeilDiv(n, d) == (n + d - 1) \div d

(* The first n lengths added up; token_offset and blk_offset before n + 1. *)
SumTo(lens, n) ==
  LET sum[i \in 0 .. n] == IF i = 0 THEN 0 ELSE sum[i - 1] + lens[i]
  IN sum[n]
NumTokens(b) == [j \in DOMAIN b.prefills |-> b.prefills[j].num]
Offset(b, j) == SumTo(NumTokens(b), j - 1)
NumPrefill(b) == SumTo(NumTokens(b), Len(b.prefills))

(* The tokens in the rows: prompt chunks, then the decoding sequences'     *)
(* last outputs.                                                           *)
Chunk(x) == [i \in 1 .. x.num |-> <<x.seq, x.start + i - 1>>]
Rows(b) ==
  FlattenSeq([j \in DOMAIN b.prefills |-> Chunk(b.prefills[j])])
  \o [i \in DOMAIN b.decodes |-> <<b.decodes[i].seq, b.decodes[i].pos>>]
RowToken(b, row) == Rows(b)[row + 1]

(* paged_kv_store: position p of a table is this cell.                     *)
CellOf(t, p) == <<t[p \div BlockSize + 1], p % BlockSize>>

(* What the store of prefill j writes: cell and row.                       *)
PrefillStore(b, j) ==
  LET x == b.prefills[j]
  IN {<<CellOf(x.table, x.start + i), Offset(b, j) + i>> : i \in 0 .. x.num - 1}

(* The mask: zero at and below the diagonal of each prompt's own square.   *)
Visible_Triangle(b, row) == 0 .. row
Visible(b, row) ==
  {col \in 0 .. NumPrefill(b) - 1 : \E j \in DOMAIN b.prefills :
     /\ {row, col} \subseteq Offset(b, j) .. Offset(b, j) + b.prefills[j].num - 1
     /\ col <= row}

(* The tables of the decoding sequences, padded with block 0.              *)
MaxBlocks(b) ==
  CHOOSE n \in {Len(b.decodes[i].table) : i \in DOMAIN b.decodes} :
    \A i \in DOMAIN b.decodes : Len(b.decodes[i].table) <= n
BlockTables(b) ==
  [i \in DOMAIN b.decodes |-> [k \in 1 .. MaxBlocks(b) |->
     IF k <= Len(b.decodes[i].table) THEN b.decodes[i].table[k] ELSE 0]]
SeqLens(b) == [i \in DOMAIN b.decodes |-> b.decodes[i].pos + 1]

DecodeStore_FromFirst(b) ==
  {<<CellOf(BlockTables(b)[i], b.decodes[i].pos), i - 1>> : i \in DOMAIN b.decodes}
DecodeStore(b) ==
  {<<CellOf(BlockTables(b)[i], b.decodes[i].pos), NumPrefill(b) + i - 1>>
     : i \in DOMAIN b.decodes}

(* The rows whose logits give the next token: the last one of each prompt  *)
(* that is complete, and those of the decoding sequences.                  *)
PrefillSample_EndOfBatch(b, j) == NumPrefill(b) - 1
PrefillSample(b, j) == Offset(b, j) + b.prefills[j].num - 1
DecodeSample(b, i) == NumPrefill(b) + i - 1
-----------------------------------------------------------------------------
(* FlashInfer's description of the same tables: the used pages of all      *)
(* sequences in one list, where each one's begin, and how full its last    *)
(* page is.                                                                *)
LastPageLen_Mod(n) == n % BlockSize
LastPageLen(n) == IF n % BlockSize = 0 THEN BlockSize ELSE n % BlockSize
PageMetadata(tables, lens) ==
  LET pages == [i \in DOMAIN lens |-> CeilDiv(lens[i], BlockSize)]
  IN [indptr |-> [i \in 1 .. Len(lens) + 1 |-> SumTo(pages, i - 1)],
      indices |-> FlattenSeq([i \in DOMAIN lens |-> SubSeq(tables[i], 1, pages[i])]),
      last_page_len |-> [i \in DOMAIN lens |-> LastPageLen(lens[i])]]

(* The cells FlashInfer attends to for sequence i, in order: all of every  *)
(* page but the last, of that one the first last_page_len.                 *)
PageCells(meta, i) ==
  LET own == SubSeq(meta.indices, meta.indptr[i] + 1, meta.indptr[i + 1])
      n == (Len(own) - 1) * BlockSize + meta.last_page_len[i]
  IN [p \in 0 .. n - 1 |-> CellOf(own, p)]
=============================================================================
