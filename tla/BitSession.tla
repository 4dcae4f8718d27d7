------------------------------ MODULE BitSession ------------------------------
(***************************************************************************)
(* A bit session over a journaled predictor (CTW and factorized CTW), byte *)
(* packed: bits are buffered into symbols, either in a mass prefix beside  *)
(* the predictor or, when the predictor can step through a symbol itself,  *)
(* bit by bit in the predictor under a start checkpoint.                   *)
(*                                                                         *)
(* The predictor is the sequence of operations that made it.  It takes     *)
(* back operations along an undo journal that is only written while its    *)
(* checkpoint depth is positive; a checkpoint of it is a journal length.   *)
(*                                                                         *)
(* The session is used through &mut self or behind a mutex: each operation *)
(* is one step.                                                            *)
(***************************************************************************)
EXTENDS SymbolStream

CONSTANT
  Nested       \* TRUE: restoring a checkpoint abandons the ones after it

ASSUME NestedAssumption == Nested \in BOOLEAN

VARIABLES
  native,      \* the predictor steps through a symbol MSB first
  core,        \* the predictor: [tree, journal, depth, progress]
  prefix,      \* the symbol in progress: [kind, mode, start, bits]
  scoped,      \* inside a discardable simulation scope
  saved        \* the client's checkpoints since the last clear

vars == <<native, core, prefix, scoped, saved>>

None == -1       \* native_prefix_progress when no symbol is in progress
Smaller(a, b) == IF a <= b THEN a ELSE b
SaturatingDec(n) == IF n = 0 THEN 0 ELSE n - 1

-----------------------------------------------------------------------------
(* The predictor *)

NewCore == [tree |-> << >>, journal |-> << >>, depth |-> 0, progress |-> None]

\* A journal entry is the number of operations that it and the entries before
\* it take back: one for a learned bit, Width for a symbol.
Upto(journal, n) == IF n = 0 THEN 0 ELSE journal[n]
Logged(c) == Upto(c.journal, Len(c.journal))

\* Append operations, and the journal entry for them if anyone may roll back.
Applied(c, ops) ==
  [c EXCEPT !.tree = @ \o ops,
            !.journal = IF c.depth > 0 THEN Append(@, Logged(c) + Len(ops)) ELSE @]

Update(c, bits) == Applied(c, Symbol("adaptive", bits))
UpdateFrozen(c, bits) == Applied(c, Symbol("frozen", bits))

\* observe_native_msb_prefix_bit on one bit after the other, in both update
\* modes: each bit has its own journal entry.
ObserveNativeBits(c, bits) ==
  [c EXCEPT !.tree = @ \o Symbol("adaptive", bits),
            !.journal = IF c.depth > 0
                        THEN @ \o [k \in 1 .. Len(bits) |-> Logged(c) + k] ELSE @,
            !.progress = @ + Len(bits)]

\* Begin, abort, finish or abandon a native symbol.
Progress(c, p) == [c EXCEPT !.progress = p]

MarkOf(c) == [len |-> Len(c.journal), progress |-> c.progress]
Checkpointed(c) == [c EXCEPT !.depth = @ + 1]
Discarded(c) == [c EXCEPT !.depth = SaturatingDec(@)]

\* Mutant: forgets where the native symbol stood.
RolledBackTreeOnly(c, m) ==
  LET keep == Smaller(Len(c.journal), m.len)
      undone == Logged(c) - Upto(c.journal, keep)
  IN  [c EXCEPT !.tree = SubSeq(@, 1, Len(@) - undone), !.journal = SubSeq(@, 1, keep)]

\* restore_checkpoint: pop the journal down to the mark.
RolledBack(c, m) ==
  LET keep == Smaller(Len(c.journal), m.len)
      undone == Logged(c) - Upto(c.journal, keep)
  IN  [c EXCEPT !.tree = SubSeq(@, 1, Len(@) - undone),
                !.journal = SubSeq(@, 1, keep),
                !.progress = m.progress]

CheckpointsCleared(c) == [c EXCEPT !.journal = << >>, !.depth = 0, !.progress = None]

-----------------------------------------------------------------------------
(* The symbol in progress *)

NoPrefix == [kind |-> "none", mode |-> "unset", start |-> << >>, bits |-> << >>]

InNative == prefix.kind = "native"
HasStart(p) == p.kind = "native" /\ p.start # << >>

\* restore_start_checkpoint_abort_and_discard
BackToStart(c, start) == Progress(Discarded(RolledBack(c, start)), None)

\* ensure_prefix_for_update: a conditioned native symbol is preceded by its
\* start checkpoint.
Ensured(mode) ==
  IF prefix.kind # "none" THEN [core |-> core, prefix |-> prefix]
  ELSE IF ~native THEN [core |-> core, prefix |-> [NoPrefix EXCEPT !.kind = "mass"]]
  ELSE IF mode = "frozen"
       THEN [core |-> Progress(Checkpointed(core), 0),
             prefix |-> [NoPrefix EXCEPT !.kind = "native", !.start = <<MarkOf(core)>>]]
       ELSE [core |-> Progress(core, 0), prefix |-> [NoPrefix EXCEPT !.kind = "native"]]

\* Mutant: a conditioned symbol is learned bit by bit and stays learned.
CompletedNativeLearned(c, p, mode) ==
  LET done == Progress(c, None)
  IN  IF p.start # << >> THEN Discarded(done) ELSE done

\* Mutant: a learned symbol keeps its start checkpoint.
CompletedNativeHeld(c, p, mode) ==
  IF mode = "frozen"
  THEN UpdateFrozen(BackToStart(c, p.start[1]), p.bits)
  ELSE Progress(c, None)

\* The last bit of a native symbol: a conditioned symbol was learned bit by
\* bit, so it is taken back and conditioned on as a whole.
CompletedNative(c, p, mode) ==
  IF mode = "frozen"
  THEN UpdateFrozen(BackToStart(c, p.start[1]), p.bits)
  ELSE LET done == Progress(c, None)
       IN  IF p.start # << >> THEN Discarded(done) ELSE done

\* The first bit of a native symbol: capture the start unless there is one, or
\* the symbol is learned by a clone that will be thrown away.
Started(e, mode) ==
  IF e.prefix.start = << >> /\ e.prefix.bits = << >> /\ (mode = "frozen" \/ ~scoped)
  THEN [core |-> Checkpointed(e.core),
        prefix |-> [e.prefix EXCEPT !.start = <<MarkOf(e.core)>>]]
  ELSE e

\* update_byte_packed_bit
Feeding(mode, bit) ==
  LET e == Ensured(mode)
      s == IF e.prefix.kind = "native" THEN Started(e, mode) ELSE e
      c == IF e.prefix.kind = "native" THEN ObserveNativeBits(s.core, <<bit>>) ELSE s.core
      p == [s.prefix EXCEPT !.mode = mode, !.bits = Append(@, bit)]
      full == Len(p.bits) = Width
  IN  IF e.prefix.bits # << >> /\ e.prefix.mode # mode
      THEN core' = e.core /\ prefix' = e.prefix
      ELSE /\ prefix' = IF full THEN NoPrefix ELSE p
           /\ core' = IF ~full THEN c
                      ELSE IF p.kind = "native" THEN CompletedNative(c, p, mode)
                      ELSE IF mode = "adaptive" THEN Update(c, p.bits) ELSE UpdateFrozen(c, p.bits)

-----------------------------------------------------------------------------
Init ==
  /\ native \in BOOLEAN
  /\ core = NewCore
  /\ prefix = NoPrefix
  /\ scoped = FALSE
  /\ saved = << >>

\* try_observe_bit, try_condition_bit
FeedBit(mode, bit) ==
  /\ Len(core.tree) + Len(prefix.bits) < MaxOps
  /\ Feeding(mode, bit)
  /\ UNCHANGED <<native, scoped, saved>>

\* A prediction opens a native symbol or caches the symbol masses.
PredictBit ==
  /\ prefix.kind = "none"
  /\ LET e == Ensured("adaptive") IN core' = e.core /\ prefix' = e.prefix
  /\ UNCHANGED <<native, scoped, saved>>

\* What the client has fed, read off predictor c and prefix p: the operations of
\* whole symbols, and the bits of the symbol in progress.
Observed(c, p) ==
  [committed |-> SubSeq(c.tree, 1, Len(c.tree) - (IF p.kind = "native" THEN Len(p.bits) ELSE 0)),
   partial |-> IF p.bits = << >> THEN NoBits ELSE [mode |-> p.mode, bits |-> p.bits]]

TakeCheckpoint ==
  /\ ~scoped /\ core.depth < MaxDepth
  /\ saved' = Append(saved, [mark |-> MarkOf(core), prefix |-> prefix, seen |-> Observed(core, prefix)])
  /\ core' = Checkpointed(core)
  /\ UNCHANGED <<native, prefix, scoped>>

\* Mutant: captures the new start checkpoint after the bits.
ReplayedLate(c, p) ==
  LET begun == Progress(RolledBack(Checkpointed(c), p.start[1]), None)
      fed == ObserveNativeBits(Progress(Checkpointed(begun), 0), p.bits)
  IN  [core |-> Discarded(fed), prefix |-> [p EXCEPT !.start = <<MarkOf(fed)>>]]

\* Step back to the start of the checkpoint's symbol and feed its bits again,
\* under a new start checkpoint.
Replayed(c, p) ==
  LET begun == Progress(RolledBack(Checkpointed(c), p.start[1]), None)
      fresh == MarkOf(begun)
      fed == ObserveNativeBits(Progress(Checkpointed(begun), 0), p.bits)
  IN  [core |-> Discarded(fed), prefix |-> [p EXCEPT !.start = <<fresh>>]]

\* release_inflight_prefix_checkpoint_for_restore
Released(c) == IF HasStart(prefix) THEN Discarded(c) ELSE c

\* The predictor and prefix after restoring checkpoint i.
Restored(i) ==
  LET c == RolledBack(Released(core), saved[i].mark)
  IN  IF HasStart(saved[i].prefix) THEN Replayed(c, saved[i].prefix)
      ELSE [core |-> c, prefix |-> saved[i].prefix]

RestoreCheckpoint(i) ==
  /\ ~scoped
  /\ core' = Restored(i).core /\ prefix' = Restored(i).prefix
  /\ saved' = IF Nested THEN SubSeq(saved, 1, i) ELSE saved
  /\ UNCHANGED <<native, scoped>>

\* clear_checkpoints_if_supported: a native symbol in progress moves to a mass
\* prefix, so that its start checkpoint can go too.
ClearCheckpoints ==
  /\ ~scoped
  /\ saved' = << >>
  /\ IF HasStart(prefix)
     THEN /\ core' = CheckpointsCleared(BackToStart(core, prefix.start[1]))
          /\ prefix' = IF prefix.bits = << >> THEN NoPrefix
                       ELSE [prefix EXCEPT !.kind = "mass", !.start = << >>]
     ELSE IF InNative /\ prefix.bits # << >> THEN UNCHANGED <<core, prefix>>
     ELSE /\ core' = CheckpointsCleared(core)
          /\ prefix' = IF InNative THEN NoPrefix ELSE prefix
  /\ UNCHANGED <<native, scoped>>

\* abandon_inflight_prefix_for_lifecycle_reset
Abandoned ==
  IF HasStart(prefix) THEN BackToStart(core, prefix.start[1])
  ELSE IF InNative THEN Progress(core, None) ELSE core

\* reset_frozen and begin_bit_stream: drop the symbol in progress, then start a
\* new conditioning history unless a checkpoint is active.
ResetFrozen ==
  LET c == Progress(Abandoned, None)
  IN  /\ ~scoped /\ Len(core.tree) < MaxOps
      /\ prefix' = NoPrefix
      /\ IF c.depth > 0 THEN core' = c
         ELSE core' = [c EXCEPT !.tree = Append(@, ResetMark)]
      /\ UNCHANGED <<native, scoped, saved>>

\* finish: only between symbols.
Finish ==
  /\ IF prefix.bits # << >> THEN UNCHANGED <<core, prefix>>
     ELSE /\ core' = Progress(Abandoned, None) /\ prefix' = NoPrefix
  /\ UNCHANGED <<native, scoped, saved>>

\* A simulation worker marks its clone, which is never rolled back or reset.
BeginDiscardableScope ==
  /\ ~scoped /\ scoped' = TRUE
  /\ UNCHANGED <<native, core, prefix, saved>>

Next ==
  \/ \E mode \in Modes, bit \in BOOLEAN : FeedBit(mode, bit)
  \/ PredictBit
  \/ TakeCheckpoint
  \/ \E i \in DOMAIN saved : RestoreCheckpoint(i)
  \/ ClearCheckpoints
  \/ ResetFrozen
  \/ Finish
  \/ BeginDiscardableScope

Spec == Init /\ [][Next]_vars

-----------------------------------------------------------------------------
(* Properties *)

\* The session holds a native symbol exactly while the predictor is inside one,
\* at the same bit, and the predictor has learned exactly the buffered bits:
\* its next prediction is conditioned on them.
PrefixAgrees ==
  IF InNative
  THEN /\ core.progress = Len(prefix.bits)
       /\ core.tree = Observed(core, prefix).committed \o Symbol("adaptive", prefix.bits)
  ELSE core.progress = None

\* A start checkpoint takes the predictor back to the whole symbols, whatever
\* was checkpointed, restored or cleared since it was captured.
StartRecoverable ==
  HasStart(prefix) => RolledBack(core, prefix.start[1]).tree = Observed(core, prefix).committed

\* Journaling is on as long as anything may be rolled back, and off once the
\* last checkpoint is cleared, which is when a lifecycle reset is allowed.
DepthAccounted ==
  /\ (saved # << >> \/ HasStart(prefix)) <=> core.depth > 0
  /\ saved = << >> => core.depth = Len(prefix.start)

\* Every checkpoint captured since the last clear still restores the stream it
\* was captured from, whatever has been fed, restored or refused since.
RestoreExact ==
  \A i \in DOMAIN saved : Observed(Restored(i).core, Restored(i).prefix) = saved[i].seen

Promise == INSTANCE RevocableStream WITH
  committed <- Observed(core, prefix).committed,
  partial <- Observed(core, prefix).partial,
  snapshots <- [i \in DOMAIN saved |-> saved[i].seen]

\* The session implements the revocable stream.
RefinesStream == Promise!Spec

=============================================================================
