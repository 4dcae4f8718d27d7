----------------------------- MODULE BitPredictor -----------------------------
(***************************************************************************)
(* The predictor the planners mutate: rollback bookkeeping over a rate     *)
(* backend on binary tokens.  The bookkeeping is a journal of per-symbol   *)
(* checkpoints and a stack of scopes; the backend (CTW) takes bits back    *)
(* along an undo log, one entry per bit, that is only written while its    *)
(* checkpoint depth is positive, and a backend checkpoint is a length of   *)
(* that log.                                                               *)
(*                                                                         *)
(* Assertions of the code are guards: a client that pops what it pushed    *)
(* never meets them.                                                       *)
(***************************************************************************)
EXTENDS SymbolStream

VARIABLES
  tree,         \* the bits that made the backend's model
  undo,         \* the backend's undo log: how each bit it covers was fed
  depth,        \* the backend's count of active checkpoints
  journal,      \* per-symbol checkpoints: [kind, len, seen]
  scopes,       \* scope checkpoints: [len, seen, journalLen]
  discardable,  \* inside a scope whose predictor is going to be dropped
  refused       \* a reset returned an error, and the checkpoints were not cleared since

\* seen and refused are history: the bits at the time of a checkpoint, and why
\* the backend may be journaling for nobody.

vars == <<tree, undo, depth, journal, scopes, discardable, refused>>

Init ==
  /\ tree = << >> /\ undo = << >> /\ depth = 0
  /\ journal = << >> /\ scopes = << >> /\ discardable = FALSE /\ refused = FALSE

-----------------------------------------------------------------------------
\* The backend appends a bit, and logs it if its depth, now d, is positive.
Apply(mode, bit, d) ==
  /\ depth' = d
  /\ tree' = Append(tree, Fed(mode, bit))
  /\ undo' = IF d > 0 THEN Append(undo, mode) ELSE undo

\* The bits left when the undo log is popped down to length len.
TreeAt(len) == SubSeq(tree, 1, Len(tree) - (Len(undo) - len))

\* Mutant: clears the undo log although older rollback points need it.
RestoreAndClear(len, outstanding) ==
  /\ tree' = TreeAt(len)
  /\ undo' = << >>
  /\ depth' = 0
  /\ refused' = FALSE

\* Restore the backend checkpoint len; once nothing is outstanding its
\* checkpoints are cleared.
Restore(len, outstanding) ==
  /\ tree' = TreeAt(len)
  /\ undo' = IF outstanding THEN SubSeq(undo, 1, len) ELSE << >>
  /\ depth' = IF outstanding THEN depth ELSE 0
  /\ refused' = (outstanding /\ refused)

\* should_capture_symbol_checkpoint
Captures == scopes = << >> /\ ~discardable

-----------------------------------------------------------------------------
\* update, update_history
Update(mode, bit) ==
  /\ Len(tree) < MaxOps /\ depth < MaxDepth
  /\ Apply(mode, bit, IF Captures THEN depth + 1 ELSE depth)
  /\ journal' = IF Captures
                THEN Append(journal, [kind |-> mode, len |-> Len(undo), seen |-> tree])
                ELSE journal
  /\ UNCHANGED <<scopes, discardable, refused>>

\* Mutant: a committed bit is never logged.
CommitUnlogged(mode, bit) ==
  /\ Len(tree) < MaxOps
  /\ tree' = Append(tree, Fed(mode, bit))
  /\ UNCHANGED <<undo, depth, journal, scopes, discardable, refused>>

\* commit_update, commit_update_history
Commit(mode, bit) ==
  /\ Len(tree) < MaxOps
  /\ Apply(mode, bit, depth)
  /\ UNCHANGED <<journal, scopes, discardable, refused>>

\* revert, pop_history
Revert(mode) ==
  /\ ~discardable /\ scopes = << >>
  /\ journal # << >> /\ journal[Len(journal)].kind = mode
  /\ journal' = SubSeq(journal, 1, Len(journal) - 1)
  /\ Restore(journal[Len(journal)].len, journal' # << >>)
  /\ UNCHANGED <<scopes, discardable>>

\* Mutant: remembers the last journal entry instead of the length.
BeginRollbackScopeShort ==
  /\ ~discardable /\ depth < MaxDepth
  /\ scopes' = Append(scopes, [len |-> Len(undo), seen |-> tree, journalLen |-> Len(journal) - 1])
  /\ depth' = depth + 1
  /\ UNCHANGED <<tree, undo, journal, discardable, refused>>

BeginRollbackScope ==
  /\ ~discardable /\ depth < MaxDepth
  /\ scopes' = Append(scopes, [len |-> Len(undo), seen |-> tree, journalLen |-> Len(journal)])
  /\ depth' = depth + 1
  /\ UNCHANGED <<tree, undo, journal, discardable, refused>>

\* Without a scope nothing happens and the client reverts symbol by symbol.
RollbackScope ==
  LET scope == scopes[Len(scopes)]
  IN  /\ ~discardable /\ scopes # << >>
      /\ scopes' = SubSeq(scopes, 1, Len(scopes) - 1)
      /\ journal' = SubSeq(journal, 1, scope.journalLen)
      /\ Restore(scope.len, scopes' # << >> \/ journal' # << >>)
      /\ UNCHANGED discardable

BeginDiscardableScope ==
  /\ discardable' = TRUE
  /\ UNCHANGED <<tree, undo, depth, journal, scopes, refused>>

\* Mutant: a reset that is refused keeps the scopes.
ResetKeepingScopes ==
  /\ Len(tree) < MaxOps
  /\ journal' = << >> /\ discardable' = FALSE
  /\ refused' = (depth > 0)
  /\ tree' = IF refused' THEN tree ELSE Append(tree, ResetMark)
  /\ UNCHANGED <<undo, depth, scopes>>

\* The backend refuses to reset while its depth is positive, but the
\* bookkeeping is gone by then.
ResetConditioningHistory ==
  /\ Len(tree) < MaxOps
  /\ journal' = << >> /\ scopes' = << >> /\ discardable' = FALSE
  /\ refused' = (depth > 0)
  /\ tree' = IF refused' THEN tree ELSE Append(tree, ResetMark)
  /\ UNCHANGED <<undo, depth>>

Next ==
  \/ \E mode \in Modes, bit \in BOOLEAN : Update(mode, bit) \/ Commit(mode, bit)
  \/ \E mode \in Modes : Revert(mode)
  \/ BeginRollbackScope
  \/ RollbackScope
  \/ BeginDiscardableScope
  \/ ResetConditioningHistory

Spec == Init /\ [][Next]_vars

-----------------------------------------------------------------------------
(* Properties *)

Ops == [op : Modes, bit : BOOLEAN] \cup {ResetMark}

\* Every variable has its type.
TypeOK ==
  /\ tree \in Seq(Ops)
  /\ undo \in Seq(Modes) /\ depth \in Nat
  /\ journal \in Seq([kind : Modes, len : Nat, seen : Seq(Ops)])
  /\ scopes \in Seq([len : Nat, seen : Seq(Ops), journalLen : Nat])
  /\ discardable \in BOOLEAN /\ refused \in BOOLEAN

\* The checkpoints that a client may still roll back to.
Outstanding == {journal[i] : i \in DOMAIN journal} \cup {scopes[i] : i \in DOMAIN scopes}

\* Every rollback point, however deep in the journal or the scopes, still leads
\* to the bits of its own time.  The backend journals as long as there is one,
\* and for nobody only if a reset was refused and gave them all up: without
\* that, a client with no rollback point can always reset.
RollbackExact ==
  /\ \A e \in Outstanding : e.len <= Len(undo) /\ TreeAt(e.len) = e.seen
  /\ depth > 0 <=> Outstanding # {} \/ refused

\* The undo log pairs off with the newest bits, so that a bit that was learned
\* is unlearned and one that was not is only dropped.
UndoMatches ==
  /\ Len(undo) <= Len(tree)
  /\ \A k \in 1 .. Len(undo) :
       undo[k] = tree[Len(tree) - Len(undo) + k].op

\* The rollback points, journal first: none is added to the journal in a scope.
PointsOf(J, S) ==
  [i \in 1 .. Len(J) + Len(S) |->
     IF i <= Len(J) THEN [kind |-> J[i].kind, stream |-> J[i].seen]
     ELSE [kind |-> "scope", stream |-> S[i - Len(J)].seen]]

Points == PointsOf(journal, scopes)

Stack == INSTANCE SnapshotStack WITH stream <- tree, points <- Points

\* The step that the promise does not have: the backend could reset, the bits
\* stay as they are, and yet every rollback point is gone.
RefusedReset == refused' /\ Points' = << >> /\ UNCHANGED <<tree, undo, depth>>

\* The bookkeeping implements the stack of snapshots, also after a reset was
\* refused; the refusal itself is no step of it.
RefinesSnapshots == Stack!Init /\ [][Stack!Next \/ RefusedReset]_<<tree, Points>>

=============================================================================
