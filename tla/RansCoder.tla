------------------------------ MODULE RansCoder ------------------------------
(***************************************************************************)
(* The scalar and the blocked rANS coder of                                *)
(* src/crates/infotheory/src/coders/rans.rs.  An encoder folds symbols     *)
(* into a number, the last one outermost, and sheds words of the number    *)
(* when it would outgrow its register; a decoder takes the symbols off     *)
(* again, the last one first, and takes the words back.  The blocked coder *)
(* therefore buffers a block of symbols and encodes it backwards.          *)
(*                                                                         *)
(* In the code tables add up to 2^15, a word has 16 bits and a block 2^17  *)
(* symbols.  Nothing rests on the powers of two, so the two are constants; *)
(* a word holds at least as much as a table, so that each of the code's    *)
(* two loops runs at most once and is an IF here.                          *)
(***************************************************************************)
EXTENDS Integers, Sequences

CONSTANTS
  ANS_TOTAL,   \* what a table adds up to
  Word,        \* the number of values of a word
  BLOCK_SIZE   \* symbols of a block

ASSUME RansAssumption ==
  /\ ANS_TOTAL \in Nat \ {0} /\ Word \in Nat /\ Word >= ANS_TOTAL /\ Word > 1
  /\ BLOCK_SIZE \in Nat \ {0}

ANS_LOW == ANS_TOTAL
ANS_HIGH == ANS_TOTAL * Word

(* A symbol is the share lo..hi of the table, a coder a number and the     *)
(* words it has shed or has yet to read: newest first, the order finish()  *)
(* writes them in.                                                         *)
Freq(cdf) == cdf.hi - cdf.lo

Shed(coder, freq) ==
  IF coder.state >= freq * Word
  THEN [state |-> coder.state \div Word,
        words |-> <<coder.state % Word>> \o coder.words]
  ELSE coder

RansEncode(coder, cdf) ==
  LET fits == Shed(coder, Freq(cdf))
  IN  [fits EXCEPT !.state = (@ \div Freq(cdf)) * ANS_TOTAL
                               + (@ % Freq(cdf)) + cdf.lo]

Slot(coder) == coder.state % ANS_TOTAL

\* Mutant: a number that just fits takes a word back as well.
RefillEarly(coder) ==
  IF coder.state <= ANS_LOW /\ coder.words # <<>>
  THEN [state |-> coder.state * Word + Head(coder.words),
        words |-> Tail(coder.words)]
  ELSE coder

Refill(coder) ==
  IF coder.state < ANS_LOW /\ coder.words # <<>>
  THEN [state |-> coder.state * Word + Head(coder.words),
        words |-> Tail(coder.words)]
  ELSE coder

RansDecode(coder, cdf) ==
  Refill([coder EXCEPT
            !.state = Freq(cdf) * (@ \div ANS_TOTAL) + Slot(coder) - cdf.lo])

NewRansCoder == [state |-> ANS_LOW, words |-> <<>>]

(* A block: its symbols folded from the last to the first.  The coder once *)
(* the last n of them are in:                                              *)
EncodeLast(symbols, n) ==
  LET last[i \in 0..n] ==
        IF i = 0 THEN NewRansCoder
        ELSE RansEncode(last[i - 1], symbols[Len(symbols) - i + 1])
  IN  last[n]

EncodeBlock(symbols) == EncodeLast(symbols, Len(symbols))

(* The blocked encoder: what is buffered, and the blocks that are full.    *)
FlushBlock(b) ==
  IF b.symbols = <<>> THEN b
  ELSE [symbols |-> <<>>, blocks |-> Append(b.blocks, EncodeBlock(b.symbols))]

BlockedEncode(b, cdf) ==
  LET more == [b EXCEPT !.symbols = Append(@, cdf)]
  IN  IF Len(more.symbols) >= BLOCK_SIZE THEN FlushBlock(more) ELSE more

(* The blocked decoder: the number of blocks opened, how many symbols of   *)
(* the last one are left, and the coder of that block.  It wants one block *)
(* for every BLOCK_SIZE symbols, rounded up.                               *)
BlocksExpected(total) == (total + BLOCK_SIZE - 1) \div BLOCK_SIZE

NewBlockedDecoder ==
  [opened |-> 0, left |-> 0, coder |-> NewRansCoder]

OpenBlock(d, blocks, total) ==
  LET rest == total - d.opened * BLOCK_SIZE
  IN  [opened |-> d.opened + 1, coder |-> blocks[d.opened + 1],
       left |-> IF rest < BLOCK_SIZE THEN rest ELSE BLOCK_SIZE]

(* The decoder with a block to read from, or with none when they are over. *)
Opened(d, blocks, total) ==
  IF d.left = 0 /\ d.opened < Len(blocks) THEN OpenBlock(d, blocks, total) ELSE d

BlockedDecode(d, cdf) ==
  [d EXCEPT !.coder = RansDecode(@, cdf), !.left = @ - 1]
=============================================================================
