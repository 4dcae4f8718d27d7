------------------------------ MODULE Proposals ------------------------------
(***************************************************************************)
(* The annealer's proposal kernel on one integer leaf of a candidate, the  *)
(* max_order of a ROSA backend.  A leaf has no type of its own: the kind of*)
(* the JSON number it holds decides how it is stepped, unless a configured *)
(* range reaches below zero.  (Moves of different leaves never lead to the *)
(* same candidate, and every leaf has as many raw actions as any other.)   *)
(***************************************************************************)
EXTENDS Integers, FiniteSets

CONSTANTS
  SMin, SMax,   \* the signed integers (i64)
  UMax,         \* the unsigned integers are 0 .. UMax (u64)
  Ranged,       \* the leaf has a parameter range
  Lo, Hi,       \* that range
  Rejected      \* candidates that the bounds or the compiler refuse

ASSUME KernelAssumption ==
  /\ SMin \in Int /\ SMax \in Nat /\ UMax \in Nat /\ SMin < -1 /\ SMax < UMax
  /\ Ranged \in BOOLEAN /\ Lo \in SMin .. SMax /\ Hi \in SMin .. SMax /\ Lo <= Hi

Valid(v) == v \in SMin .. SMax /\ v \notin Rejected /\ (Ranged => Lo <= v /\ v <= Hi)

Candidates == {v \in SMin .. SMax : Valid(v)}

\* The kind of the JSON number v.
KindOf(v) == IF v >= 0 THEN "unsigned" ELSE "signed"

\* Mutant: a range below zero does not make the leaf a signed one.
ValueKind(v) == KindOf(v)

\* effective_integer_kind
EffectiveKind(v) == IF Ranged /\ Lo < 0 THEN "signed" ELSE KindOf(v)

Clamp(x, a, b) == IF x < a THEN a ELSE IF x > b THEN b ELSE x

\* integer_leaf_bounds
Bounds(v) ==
  LET lo == IF EffectiveKind(v) = "signed" THEN SMin ELSE 0
      hi == IF EffectiveKind(v) = "signed" THEN SMax ELSE UMax
  IN  IF Ranged THEN Clamp(Lo, lo, hi) .. Clamp(Hi, lo, hi) ELSE lo .. hi

\* The parser reads a number that is no i64 as the default.
Parsed(w) == IF w \in SMin .. SMax THEN w ELSE -1

\* The raw actions that lead somewhere: steps of a magnitude up to the active
\* radius r.
Moves(v, r) ==
  {d \in (-r .. r) \ {0} : v + d \in Bounds(v) /\ Valid(Parsed(v + d)) /\ Parsed(v + d) # v}

Targets(v, r) == {Parsed(v + d) : d \in Moves(v, r)}

\* raw_action_count of the transition from v to w
RawActions(v, w, r) == Cardinality({d \in Moves(v, r) : Parsed(v + d) = w})

=============================================================================
