---------------------------- MODULE SymbolStream ----------------------------
(***************************************************************************)
(* The data of a bit session: symbols of Width bits, each observed (the    *)
(* model learns it) or conditioned on (the model only sees it).            *)
(***************************************************************************)
EXTENDS Integers, Sequences

CONSTANTS
  Width,       \* bits of a symbol: 8 in the code
  MaxOps,      \* bound of the model on the length of the stream
  MaxDepth     \* bound of the model on the checkpoints captured since the last clear

ASSUME StreamAssumption ==
  Width \in Nat \ {0} /\ MaxOps \in Nat /\ MaxDepth \in Nat

Modes == {"adaptive", "frozen"}

\* One bit of a symbol that was fed, and the mark a lifecycle reset leaves.
Fed(mode, bit) == [op |-> mode, bit |-> bit]
ResetMark == [op |-> "reset"]
Symbol(mode, bits) == [i \in 1 .. Len(bits) |-> Fed(mode, bits[i])]

NoBits == [mode |-> "unset", bits |-> << >>]

=============================================================================
