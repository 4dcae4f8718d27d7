--------------------------- MODULE RevocableStream ---------------------------
(***************************************************************************)
(* What a bit session promises its client: a stream of bits, in symbols of *)
(* Width bits, each symbol observed (the model learns it) or conditioned   *)
(* on (the model only sees it), with checkpoints that bring back exactly   *)
(* what had been fed when they were captured.                              *)
(***************************************************************************)
EXTENDS SymbolStream

VARIABLES
  committed,   \* the whole symbols fed so far
  partial,     \* the mode and bits of the symbol in progress
  snapshots    \* [committed, partial] of every checkpoint since the last clear

vars == <<committed, partial, snapshots>>

Init == committed = << >> /\ partial = NoBits /\ snapshots = << >>

\* One more bit; a symbol cannot mix modes.
Feed(mode, bit) ==
  LET bits == Append(partial.bits, bit)
  IN  /\ partial.bits = << >> \/ partial.mode = mode
      /\ IF Len(bits) = Width
           THEN committed' = committed \o Symbol(mode, bits) /\ partial' = NoBits
           ELSE partial' = [mode |-> mode, bits |-> bits] /\ UNCHANGED committed
      /\ UNCHANGED snapshots

Save ==
  /\ snapshots' = Append(snapshots, [committed |-> committed, partial |-> partial])
  /\ UNCHANGED <<committed, partial>>

\* Back to checkpoint i; those captured after it are gone.
Restore(i) ==
  /\ committed' = snapshots[i].committed
  /\ partial' = snapshots[i].partial
  /\ snapshots' = SubSeq(snapshots, 1, i)

\* The client has no further use for its checkpoints.
Clear == snapshots' = << >> /\ UNCHANGED <<committed, partial>>

\* A new conditioning history.  It is refused while checkpoints exist, but the
\* symbol in progress is dropped all the same.
Reset ==
  /\ partial' = NoBits
  /\ committed' = IF snapshots = << >> THEN Append(committed, ResetMark) ELSE committed
  /\ UNCHANGED snapshots

Next ==
  \/ \E mode \in Modes, bit \in BOOLEAN : Feed(mode, bit)
  \/ Save
  \/ \E i \in DOMAIN snapshots : Restore(i)
  \/ Clear
  \/ Reset

Spec == Init /\ [][Next]_vars

=============================================================================
