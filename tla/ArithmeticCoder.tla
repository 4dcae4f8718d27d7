--------------------------- MODULE ArithmeticCoder ---------------------------
(***************************************************************************)
(* The binary arithmetic coder of src/crates/infotheory/src/coders/ac.rs.  *)
(* A coder narrows the interval low..high of a PRECISION-bit register by   *)
(* the share of each symbol, and shifts out the leading bits as soon as    *)
(* they are settled.  An interval that straddles the middle closely cannot *)
(* settle a bit: the encoder counts it in carry_run and emits the pending  *)
(* bits, inverted, after the next settled one.                             *)
(*                                                                         *)
(* The code is 32 bits wide and its tables add up to 2^30; here the width  *)
(* is the constant PRECISION and the tables add up to 2^(PRECISION-2), as  *)
(* in the code.  Bytes are BYTE_BITS bits long.                            *)
(***************************************************************************)
EXTENDS Integers, Sequences

CONSTANTS PRECISION, BYTE_BITS

ASSUME PrecisionAssumption == PRECISION \in Nat /\ PRECISION > 2
ASSUME ByteAssumption == BYTE_BITS \in Nat \ {0}

Bit == {0, 1}
Half == 2 ^ (PRECISION - 1)
Quarter == 2 ^ (PRECISION - 2)
Mask == 2 ^ PRECISION - 1
CDF_TOTAL == Quarter

(* The part of the register the whole interval lies in, if it does.  What  *)
(* is left of a part once it is settled starts at its Origin.              *)
PartOf(r) ==
  IF r.high < Half THEN "lower"
  ELSE IF r.low >= Half THEN "upper"
  ELSE IF r.low >= Quarter /\ r.high < 3 * Quarter THEN "middle"
  ELSE "open"

Origin(part) ==
  CASE part = "upper" -> Half
    [] part = "middle" -> Quarter
    [] OTHER -> 0

(* The share lo..hi of the interval, in units of its total.  It lies in    *)
(* the interval, so that the encoder's mask on its bounds drops no bit.    *)
Narrow(r, lo, hi) ==
  LET range == r.high - r.low + 1
  IN  [r EXCEPT !.low = r.low + (range * lo) \div CDF_TOTAL,
                !.high = r.low + (range * hi) \div CDF_TOTAL - 1]

(* The register shifted by one bit out of a settled part.                  *)
Shift(r, part) ==
  [r EXCEPT !.low = (2 * (r.low - Origin(part))) % (Mask + 1),
            !.high = ((2 * (r.high - Origin(part))) % (Mask + 1)) + 1]

(* A settled bit, then the bits that waited for it, inverted.              *)
PutBit(e, bit) ==
  [e EXCEPT !.bits = @ \o <<bit>> \o [i \in 1..e.carryRun |-> 1 - bit],
            !.carryRun = 0]

Emit(e, part) ==
  CASE part = "lower" -> PutBit(e, 0)
    [] part = "upper" -> PutBit(e, 1)
    [] part = "middle" -> [e EXCEPT !.carryRun = @ + 1]

NewEncoder == [low |-> 0, high |-> Mask, carryRun |-> 0, bits |-> <<>>]

EncodeRound(e) ==
  LET part == PartOf(e)
  IN  IF part = "open" THEN e ELSE Shift(Emit(e, part), part)

(* Every round doubles the interval, so the loop ends in PRECISION rounds. *)
EncodeCounts(enc, lo, hi) ==
  LET after[k \in 0..PRECISION] ==
        IF k = 0 THEN Narrow(enc, lo, hi) ELSE EncodeRound(after[k - 1])
  IN  after[PRECISION]

\* Mutant: the stream ends with the settled bit alone, which does not tell the quarter.
FinishShort(enc) ==
  LET last == PutBit(enc, IF enc.low < Quarter THEN 0 ELSE 1).bits
  IN  last \o [i \in 1..((-Len(last)) % BYTE_BITS) |-> 0]

(* The bits of a finished stream: one bit more than are pending tells the  *)
(* quarter the interval reaches into, and zeros fill the last byte.        *)
FinishEncoder(enc) ==
  LET last == PutBit([enc EXCEPT !.carryRun = @ + 1],
                     IF enc.low < Quarter THEN 0 ELSE 1).bits
  IN  last \o [i \in 1..((-Len(last)) % BYTE_BITS) |-> 0]

(* The decoder reads ones past the end of its input.                       *)
InputBit(input, i) == IF i <= Len(input) THEN input[i] ELSE 1

(* The number that the n bits after position p make.                       *)
Window(input, p, n) ==
  LET value[i \in 0..n] ==
        IF i = 0 THEN 0 ELSE 2 * value[i - 1] + InputBit(input, p + i)
  IN  value[n]

NewDecoder(input) ==
  [low |-> 0, high |-> Mask, pos |-> PRECISION, code |-> Window(input, 0, PRECISION)]

DecodeRound(d, input) ==
  LET part == PartOf(d)
      next == d.pos + 1
  IN  IF part = "open" THEN d
      ELSE [Shift(d, part) EXCEPT
              !.pos = next,
              !.code = ((2 * (d.code - Origin(part))) % (Mask + 1)) + InputBit(input, next)]

AdvanceCounts(dec, lo, hi, input) ==
  LET after[k \in 0..PRECISION] ==
        IF k = 0 THEN Narrow(dec, lo, hi) ELSE DecodeRound(after[k - 1], input)
  IN  after[PRECISION]

(* Where the code lies in the interval, in units of the total.             *)
CodeValue(dec) ==
  ((dec.code - dec.low + 1) * CDF_TOTAL - 1) \div (dec.high - dec.low + 1)
=============================================================================
