---------------------------- MODULE SnapshotStack ----------------------------
(***************************************************************************)
(* What the Predictor trait promises the planners: a stack of rollback     *)
(* points over a stream of bits.  Speculative bits are taken back one at a *)
(* time, or all those of a scope at once; committed bits are no rollback   *)
(* points of their own.  A reset succeeds: the trait lets it fail only for *)
(* a backend that cannot tell its context from what it has learned.        *)
(***************************************************************************)
EXTENDS SymbolStream

VARIABLES
  stream,    \* the bits fed so far, learned or only conditioned on
  points     \* the rollback points: [kind, stream]

vars == <<stream, points>>

InScope == \E i \in DOMAIN points : points[i].kind = "scope"

Init == stream = << >> /\ points = << >>

Push(kind) == points' = Append(points, [kind |-> kind, stream |-> stream])

Speculate(mode, bit) ==
  /\ ~InScope
  /\ Push(mode)
  /\ stream' = Append(stream, Fed(mode, bit))

Feed(mode, bit) ==
  /\ stream' = Append(stream, Fed(mode, bit))
  /\ UNCHANGED points

BeginScope == Push("scope") /\ UNCHANGED stream

\* Back to the newest rollback point.
Undo ==
  /\ points # << >>
  /\ stream' = points[Len(points)].stream
  /\ points' = SubSeq(points, 1, Len(points) - 1)

\* A new conditioning history; no rollback point reaches behind it.
Reset ==
  /\ stream' = Append(stream, ResetMark)
  /\ points' = << >>

Next ==
  \/ \E mode \in Modes, bit \in BOOLEAN : Speculate(mode, bit) \/ Feed(mode, bit)
  \/ BeginScope
  \/ Undo
  \/ Reset

Spec == Init /\ [][Next]_vars

=============================================================================
