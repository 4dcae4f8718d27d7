------------------------------- MODULE Sequitur -------------------------------
(***************************************************************************)
(* The Sequitur predictor of backends/sequitur.rs as the rate backend uses *)
(* it: symbols that are learned (they extend the grammar and the counts of *)
(* what follows the contexts at the end of it) or only conditioned on,     *)
(* checkpoints that are positions in a journal of old values, restores and *)
(* the reset of the conditioning history, which is refused while           *)
(* checkpoints are active.  The probabilities computed from the counts are *)
(* numeric and left out.                                                   *)
(***************************************************************************)
EXTENDS SequiturGrammar, FiniteSets, FiniteSetsExt, Functions

CONSTANTS
  Bytes,             \* the symbols of the stream
  RAW_FALLBACK_MAX,  \* the length of the raw tails, 4 in the code
  ContextBytes,      \* context_bytes
  MaxLength,         \* bounds the model only: symbols fed
  MaxFrozen,         \* bounds the model only: symbols conditioned on
  MaxJournal,        \* bounds the model only: the journal when an update begins
  MaxSaved           \* bounds the model only: checkpoints

ASSUME SequiturAssumption ==
  /\ RAW_FALLBACK_MAX \in Nat \ {0} /\ ContextBytes \in Nat /\ ContextBytes >= 2
  /\ MaxLength \in Nat /\ MaxFrozen \in Nat /\ MaxJournal \in Nat /\ MaxSaved \in Nat

VARIABLES
  model,    \* the predictor
  saved,    \* the client's checkpoints, with the model and history of their time
  message   \* history variable: the symbols fed and not taken back, with their mode

vars == <<model, saved, message>>

Suffix(seq, n) == SubSeq(seq, Max({1, Len(seq) - n + 1}), Len(seq))

(* effective_raw_tail                                                      *)
RawTail(s) == Suffix(s.tails.committed \o s.tails.frozen, RAW_FALLBACK_MAX)

(* current_contexts: the ends of the raw tail, and of every rule that ends *)
(* where the stream does.                                                  *)
CurrentContexts(s) ==
  {Suffix(RawTail(s), n) : n \in 1 .. Len(RawTail(s))}
    \cup ({Suffix(Decode(s, rule), ContextBytes) : rule \in Range(RuleChain(s, Start))} \ {<< >>})

Count(counts, byte) == IF byte \in DOMAIN counts THEN counts[byte] ELSE 0

(* ContextFollowers::observe                                               *)
Observed(counts, byte) == Put(counts, byte, {Count(counts, byte) + 1})

ObserveSymbolInStats(s, byte) ==
  LET followers(t, context) ==
        IF context \in DOMAIN t.followers THEN t.followers[context] ELSE << >>
      followed(context, t) ==
        Set(t, "followers", context, {Observed(followers(t, context), byte)})
  IN  Set(FoldSet(followed, s, CurrentContexts(s)), "unigram", byte, {Count(s.unigram, byte) + 1})

SetTail(s, tail, bytes) == Set(s, "tails", tail, {bytes})
TailWith(s, tail, byte) == Suffix(Append(s.tails[tail], byte), RAW_FALLBACK_MAX)

Remembered(s, byte) ==
  SetTail(SetTail(s, "committed", TailWith(s, "committed", byte)), "frozen", << >>)

-----------------------------------------------------------------------------
(* Operations                                                              *)

Fed(mode, byte) ==
  /\ Len(message) < MaxLength /\ Len(model.undo) < MaxJournal
  /\ message' = Append(message, [mode |-> mode, byte |-> byte])

\* A symbol is learned.
Update(byte) ==
  /\ Fed("adaptive", byte)
  /\ model' = Remembered(AppendTerminal(ObserveSymbolInStats(model, byte), byte), byte)
  /\ UNCHANGED saved

\* A symbol is conditioned on: only the raw tail changes.
UpdateFrozen(byte) ==
  /\ Cardinality({i \in DOMAIN message : message[i].mode = "frozen"}) < MaxFrozen
  /\ Fed("frozen", byte)
  /\ model' = SetTail(model, "frozen", TailWith(model, "frozen", byte))
  /\ UNCHANGED saved

\* Journaling starts, and goes on until the checkpoints are cleared.
TakeCheckpoint ==
  /\ Len(saved) < MaxSaved
  /\ model' = [model EXCEPT !.logging = TRUE]
  /\ saved' = Append(saved, [undo_len |-> Len(model.undo), node_len |-> Len(model.data),
                             rule_len |-> Len(model.ring), model |-> model', message |-> message])
  /\ UNCHANGED message

Undo(s, length) ==
  FoldLeft(LAMBDA t, i : Undone(t), s, [i \in 1 .. (Len(s.undo) - length) |-> i])

\* Mutant: the rules made since stay.
RestoredWithRules(s, ck) ==
  LET t == Undo(s, ck.undo_len)
      cut(seq) == SubSeq(seq, 1, ck.node_len)
  IN  [t EXCEPT !.prev = cut(@), !.next = cut(@), !.data = cut(@)]

\* Every journaled write is taken back, the newest first, and the nodes and rules
\* made since are cut off.
Restored(s, ck) ==
  LET t == Undo(s, ck.undo_len)
      cut(seq) == SubSeq(seq, 1, ck.node_len)
      cutRules(seq) == SubSeq(seq, 1, ck.rule_len)
  IN  [t EXCEPT !.prev = cut(@), !.next = cut(@), !.data = cut(@),
                !.ring = cutRules(@), !.refs = cutRules(@), !.active = cutRules(@)]

\* Back to a checkpoint; a client that uses them last in, first out has no further
\* use for the later ones.
Restore(i) ==
  /\ model' = Restored(model, saved[i])
  /\ message' = saved[i].message
  /\ saved' = SubSeq(saved, 1, i)

\* A checkpoint is given up: the model does not hear of it.
DiscardCheckpoint ==
  /\ saved # << >>
  /\ saved' = Front(saved)
  /\ UNCHANGED <<model, message>>

ClearCheckpoints ==
  /\ model' = [model EXCEPT !.undo = << >>, !.logging = FALSE]
  /\ saved' = << >>
  /\ UNCHANGED message

\* A new conditioning history, by reset or by the beginning of a stream: refused as
\* long as the model journals, as the reset itself is not journaled.
ResetFrozen ==
  /\ ~model.logging
  /\ model' = [model EXCEPT !.tails.frozen = << >>]
  /\ UNCHANGED <<saved, message>>

Init == model = NewModel /\ saved = << >> /\ message = << >>

Next ==
  \/ \E byte \in Bytes : Update(byte) \/ UpdateFrozen(byte)
  \/ TakeCheckpoint
  \/ \E i \in DOMAIN saved : Restore(i)
  \/ DiscardCheckpoint
  \/ ClearCheckpoints
  \/ ResetFrozen

Spec == Init /\ [][Next]_vars

-----------------------------------------------------------------------------
ActiveRules == {rule \in DOMAIN model.ring : model.active[rule]}

\* The nodes of all bodies.
Placed == UNION {Range(Body(model, rule)) : rule \in ActiveRules}

\* The start rule expands to the symbols learned, none lost and none twice, however
\* often its digrams were replaced, rules unfolded and updates taken back (decode).
Lossless ==
  Decode(model, Start) =
    FoldLeft(LAMBDA bytes, fed : IF fed.mode = "adaptive" THEN Append(bytes, fed.byte) ELSE bytes,
             << >>, message)

\* No digram occurs twice without overlapping itself, and the table has exactly
\* the digrams of the grammar, each at a place where it stands: nothing is found
\* that is gone, and no repetition goes unnoticed (link, check, expand).
DigramsExact ==
  LET starts == {n \in Placed : IsDigram(model, n)}
  IN  /\ \A n, m \in starts :
           n # m /\ DigramAt(model, n) = DigramAt(model, m) => n = model.next[m] \/ m = model.next[n]
      /\ DOMAIN model.digrams = {DigramAt(model, n) : n \in starts}
      /\ \A pair \in DOMAIN model.digrams :
           model.digrams[pair] \in {n \in starts : DigramAt(model, n) = pair}

\* Every rule is worth having: it is at least two symbols long and used at least
\* twice, its reference count is the number of its uses, and no rule that was
\* unfolded is used (match_nodes, expand).
RulesUseful ==
  LET uses == {n \in Placed : IsRule(model.data[n])}
  IN  /\ \A rule \in ActiveRules \ {Start} :
           /\ Len(Body(model, rule)) >= 2
           /\ model.refs[rule] >= 2
           /\ model.refs[rule] = Cardinality({n \in uses : model.data[n].rule = rule})
      /\ \A n \in uses : model.data[n].rule \in ActiveRules

\* Each outstanding checkpoint leads back to exactly the grammar, table, counts and
\* tails of its time, whatever was learned, unfolded and restored since (push_undo,
\* restore).
RestoreExact == \A i \in DOMAIN saved : Restored(model, saved[i]) = saved[i].model

=============================================================================
