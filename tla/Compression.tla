----------------------------- MODULE Compression -----------------------------
(***************************************************************************)
(* Compressing a stream and decompressing it again:                        *)
(* src/crates/infotheory/src/compression/mod.rs (encode_payload_*,         *)
(* decode_payload_*, compress_rate_bytes, decompress_rate_bytes) over the  *)
(* coders of ArithmeticCoder and RansCoder and the tables of               *)
(* coders/mod.rs.  A predictor gives a distribution before every symbol;   *)
(* it is quantised into a table of integer shares, the coder is given the  *)
(* symbol's share, and the decoder must come to the same table, the same   *)
(* registers and the same symbol from the bits alone.                      *)
(*                                                                         *)
(* The predictor itself is not modelled here: it answers any distribution  *)
(* of Distributions, and answers the same on both sides as long as it has  *)
(* seen the same symbols (message records the answers).  A distribution is *)
(* the sequence of its masses in units of 1/Unit; as sums of floats do,    *)
(* the masses may add up to a little more or less than Unit.  A byte coded *)
(* bit by bit (the fast path of CTW and of mixtures) is a run of symbols   *)
(* with two-valued tables.                                                 *)
(***************************************************************************)
EXTENDS ArithmeticCoder, RansCoder, FiniteSets, FiniteSetsExt

CONSTANTS Coders,          \* which of Ac, AcBits and Rans are used
          Ac, AcBits, Rans,
          Distributions,   \* what the predictor may answer
          Unit,            \* the mass of certainty
          PDF_MIN,         \* the least mass a bit is given
          MaxLength        \* symbols of a stream: bounds the model only

ASSUME CodersAssumption ==
  Coders \subseteq {Ac, AcBits, Rans} /\ Cardinality({Ac, AcBits, Rans}) = 3

(* A table has a unit for every symbol, which the code asserts.            *)
ASSUME DistributionsAssumption ==
  /\ Unit \in Nat \ {0} /\ PDF_MIN \in Nat /\ 2 * PDF_MIN <= Unit
  /\ \A pdf \in Distributions :
       pdf \in Seq(Nat) /\ pdf # <<>> /\ Len(pdf) <= CDF_TOTAL /\ Len(pdf) <= ANS_TOTAL

VARIABLES coder,      \* the coder of the header
          stage,      \* "encoding", "decoding", "decoded" or "failed"
          message,    \* the symbols compressed, with the predictor's answers
                      \* and, as history, the encoder's registers before each
          encoder,    \* the coder's registers while encoding
          payload,    \* what the encoder has left: bits or blocks
          decoder,    \* the coder's registers while decoding
          output      \* the symbols decoded

vars == <<coder, stage, message, encoder, payload, decoder, output>>

-----------------------------------------------------------------------------
(* Tables                                                                  *)

Mass(pdf, i) ==
  LET sum[j \in 0..i] == IF j = 0 THEN 0 ELSE sum[j - 1] + pdf[j]
  IN  sum[i]
Edge(pdf, total, i) == (Mass(pdf, i) * total) \div Unit

(* The rounded sums, when each symbol gets a share of its own ...          *)
Distinct(pdf, total) ==
  \A i \in 1..Len(pdf) :
    Edge(pdf, total, i - 1) < Edge(pdf, total, i) /\ Edge(pdf, total, i) <= total

(* ... and otherwise one unit each, and what the sums give beyond that.    *)
Extra(pdf, total, i) ==
  Max({0} \cup {LET raw == Edge(pdf, total, j) - j
                IN  IF raw > total - Len(pdf) THEN total - Len(pdf) ELSE raw
                  : j \in 1..i})

Quantise(pdf, total) ==
  [k \in 1..(Len(pdf) + 1) |->
     CASE k = 1 -> 0
       [] k = Len(pdf) + 1 -> total
       [] OTHER -> IF Distinct(pdf, total) THEN Edge(pdf, total, k - 1)
                   ELSE Extra(pdf, total, k - 1) + k - 1]

Clamped(mass) ==
  CASE mass < PDF_MIN -> PDF_MIN
    [] mass > Unit - PDF_MIN -> Unit - PDF_MIN
    [] OTHER -> mass

(* The split of a bit, by the probability of a one.                        *)
BinarySplit(pdf) ==
  LET split == ((Unit - Clamped(pdf[2])) * CDF_TOTAL) \div Unit
  IN  CASE split < 1 -> 1
        [] split >= CDF_TOTAL -> CDF_TOTAL - 1
        [] OTHER -> split

Table(pdf) ==
  CASE coder = Ac -> Quantise(pdf, CDF_TOTAL)
    [] coder = AcBits -> <<0, BinarySplit(pdf), CDF_TOTAL>>
    [] coder = Rans -> Quantise(pdf, ANS_TOTAL)

Answers == IF coder = AcBits THEN {pdf \in Distributions : Len(pdf) = 2}
           ELSE Distributions

(* The search for the last symbol whose share starts at or below a value.  *)
SymbolAt(cdf, value) == Max({s \in 1..(Len(cdf) - 1) : s = 1 \/ cdf[s] <= value})

Share(cdf, s) == [lo |-> cdf[s], hi |-> cdf[s + 1]]

-----------------------------------------------------------------------------
(* Compression                                                             *)

EncodeSymbol ==
  /\ stage = "encoding" /\ Len(message) < MaxLength
  /\ \E pdf \in Answers : \E s \in 1..Len(pdf) :
       LET share == Share(Table(pdf), s)
       IN  /\ message' = Append(message, [pdf |-> pdf, symbol |-> s, before |-> encoder])
           /\ encoder' = IF coder = Rans THEN BlockedEncode(encoder, share)
                         ELSE EncodeCounts(encoder, share.lo, share.hi)
  /\ UNCHANGED <<coder, stage, payload, decoder, output>>

(* The stream ends, its header records the coder and the length, and a     *)
(* decoder is made for what the encoder left.                              *)
Finish ==
  /\ stage = "encoding"
  /\ payload' = IF coder = Rans THEN FlushBlock(encoder).blocks
                ELSE FinishEncoder(encoder)
  /\ decoder' = IF coder = Rans THEN NewBlockedDecoder ELSE NewDecoder(payload')
  /\ stage' = IF coder = Rans /\ Len(payload') # BlocksExpected(Len(message))
              THEN "failed" ELSE "decoding"
  /\ UNCHANGED <<coder, message, encoder, output>>

(* The table the predictor's answer gives for the next symbol to decode.   *)
NextTable == Table(message[Len(output) + 1].pdf)

DecodeAc ==
  /\ stage = "decoding" /\ coder # Rans /\ Len(output) < Len(message)
  /\ LET s == SymbolAt(NextTable, CodeValue(decoder))
         share == Share(NextTable, s)
     IN  /\ output' = Append(output, s)
         /\ decoder' = AdvanceCounts(decoder, share.lo, share.hi, payload)
  /\ UNCHANGED <<coder, stage, message, encoder, payload>>

DecodeRans ==
  /\ stage = "decoding" /\ coder = Rans /\ Len(output) < Len(message)
  /\ LET d == Opened(decoder, payload, Len(message))
         s == SymbolAt(NextTable, Slot(d.coder))
     IN  IF d.left = 0
         THEN stage' = "failed" /\ UNCHANGED <<output, decoder>>
         ELSE /\ output' = Append(output, s)
              /\ decoder' = BlockedDecode(d, Share(NextTable, s))
              /\ UNCHANGED stage
  /\ UNCHANGED <<coder, message, encoder, payload>>

(* The checksum of the header is compared with that of the output.         *)
Verify ==
  /\ stage = "decoding" /\ Len(output) = Len(message)
  /\ stage' = IF output = [i \in DOMAIN message |-> message[i].symbol]
              THEN "decoded" ELSE "failed"
  /\ UNCHANGED <<coder, message, encoder, payload, decoder, output>>

Init ==
  /\ coder \in Coders
  /\ stage = "encoding" /\ message = <<>> /\ payload = <<>> /\ output = <<>>
  /\ encoder = IF coder = Rans THEN [symbols |-> <<>>, blocks |-> <<>>]
               ELSE NewEncoder
  /\ decoder = NewBlockedDecoder

Next == EncodeSymbol \/ Finish \/ DecodeAc \/ DecodeRans \/ Verify

Spec == Init /\ [][Next]_vars

-----------------------------------------------------------------------------
(* Whatever the predictor answers (shares that round to nothing, masses    *)
(* that add up to more than one), decompression gives the compressed       *)
(* symbols back one by one, and neither the number of blocks nor the       *)
(* checksum is ever found wrong (decode_payload_ac, decode_payload_rans,   *)
(* decompress_rate_bytes).                                                 *)
RoundTrips ==
  /\ stage # "failed"
  /\ \A i \in DOMAIN output : output[i] = message[i].symbol

(* The encoder after n symbols.                                            *)
EncoderAfter(n) == IF n = Len(message) THEN encoder ELSE message[n + 1].before

(* The decoder is in step with the encoder.  Arithmetic: its interval is   *)
(* the one the encoder had after as many symbols, and the code lies in it, *)
(* so that no subtraction from the code wraps around.  rANS: the number is *)
(* the one the encoder had before the symbols not yet decoded, so it stays *)
(* within its register, and a block is used up exactly with its symbols.   *)
InStep ==
  stage = "decoding" =>
    IF coder = Rans
    THEN /\ decoder.coder.state \in ANS_LOW..(ANS_HIGH - 1)
         /\ decoder.left = 0 =>
              decoder.coder = NewRansCoder
    ELSE /\ decoder.low = EncoderAfter(Len(output)).low
         /\ decoder.high = EncoderAfter(Len(output)).high
         /\ decoder.code \in decoder.low..decoder.high
=============================================================================
