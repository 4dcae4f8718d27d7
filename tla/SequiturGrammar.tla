--------------------------- MODULE SequiturGrammar ---------------------------
(***************************************************************************)
(* The online grammar of src/crates/infotheory/src/backends/sequitur.rs.   *)
(* A rule is a ring of linked nodes through its guard; the table digrams   *)
(* holds, for each pair of neighbouring symbols, the node where it stands. *)
(* When a pair occurs a second time, both occurrences become a rule; a     *)
(* rule that is left with one use is unfolded into it.  Each of these      *)
(* steps may bring about the next one.                                     *)
(*                                                                         *)
(* A model is the record of its fields.  Every write to one of them goes   *)
(* through Set, which journals the old value while checkpoints are active; *)
(* new nodes and rules are not journaled, as a restore cuts them off.      *)
(* Nodes and rules are numbered from 1; a value that may be missing is a   *)
(* set of at most one.                                                     *)
(***************************************************************************)
EXTENDS Integers, Sequences, SequencesExt

Start == 1    \* the start rule; its guard is node 1
Dummy == 2    \* the neighbour of a node that is not linked yet

Guard(rule) == [guard |-> rule]
Terminal(byte) == [byte |-> byte]
NonTerminal(rule) == [rule |-> rule]

(* SequiturModel::new, with its statistics.                                *)
NewModel ==
  [prev |-> <<1, 2>>, next |-> <<1, 2>>, data |-> <<Guard(Start), Guard(Start)>>,
   ring |-> <<1>>, refs |-> <<0>>, active |-> <<TRUE>>, digrams |-> << >>,
   followers |-> << >>, unigram |-> << >>,
   tails |-> [committed |-> << >>, frozen |-> << >>],
   undo |-> << >>, logging |-> FALSE]

-----------------------------------------------------------------------------
(* Writes                                                                  *)

Value(f, at) == IF at \in DOMAIN f THEN {f[at]} ELSE {}

Put(f, at, value) ==
  IF value = {} THEN [x \in DOMAIN f \ {at} |-> f[x]]
  ELSE [x \in DOMAIN f \cup {at} |-> IF x = at THEN CHOOSE v \in value : TRUE ELSE f[x]]

(* The set_ and record_ functions and push_undo.                           *)
Set(s, field, at, value) ==
  LET old == Value(s[field], at)
  IN  IF old = value THEN s
      ELSE [s EXCEPT ![field] = Put(@, at, value),
                     !.undo = IF s.logging
                              THEN Append(@, [field |-> field, at |-> at, old |-> old])
                              ELSE @]

(* apply_undo of the newest entry.                                         *)
Undone(s) ==
  LET op == s.undo[Len(s.undo)]
  IN  [s EXCEPT ![op.field] = Put(@, op.at, op.old), !.undo = Front(@)]

Alloc(s, datum) ==
  LET n == Len(s.data) + 1
      self == IF "guard" \in DOMAIN datum THEN n ELSE Dummy
  IN  [s EXCEPT !.prev = Append(@, self), !.next = Append(@, self), !.data = Append(@, datum)]

NewRule(s) ==
  [Alloc(s, Guard(Len(s.ring) + 1)) EXCEPT
     !.ring = Append(@, Len(s.data) + 1), !.refs = Append(@, 0), !.active = Append(@, TRUE)]

-----------------------------------------------------------------------------
(* Rings and digrams                                                       *)

IsGuard(s, n) == "guard" \in DOMAIN s.data[n]
IsRule(symbol) == "rule" \in DOMAIN symbol
FirstNode(s, rule) == s.next[s.ring[rule]]
LastNode(s, rule) == s.prev[s.ring[rule]]

IsDigram(s, n) == ~IsGuard(s, n) /\ ~IsGuard(s, s.next[n])
DigramAt(s, n) == <<s.data[n], s.data[s.next[n]]>>

(* A node between two of its like: the pair occurs twice, overlapping, and *)
(* the table knows one of the two.                                         *)
IsTriple(s, n) ==
  ~IsGuard(s, n) /\ s.data[s.prev[n]] = s.data[n] /\ s.data[n] = s.data[s.next[n]]

Entered(s, n) == Set(s, "digrams", DigramAt(s, n), {n})

DeleteDigram(s, n) ==
  IF IsDigram(s, n) /\ Value(s.digrams, DigramAt(s, n)) \subseteq {n}
  THEN Set(s, "digrams", DigramAt(s, n), {}) ELSE s

\* Mutant: the rest of a run of equal symbols is not entered again.
LinkForgetful(s, left, right) ==
  Set(Set(IF IsGuard(s, s.next[left]) THEN s ELSE DeleteDigram(s, left),
          "next", left, {right}), "prev", right, {left})

(* The digram that starts at left goes, unless left stood alone or last;   *)
(* what is left of a run of equal symbols is entered again.                *)
Link(s, left, right) ==
  LET kept(t, n, at) == IF IsTriple(s, n) THEN Entered(t, at) ELSE t
      cut == IF IsGuard(s, s.next[left]) THEN s
             ELSE kept(kept(DeleteDigram(s, left), right, right), left, s.prev[left])
  IN  Set(Set(cut, "next", left, {right}), "prev", right, {left})

\* A use of a rule more or less.
Used(s, symbol, d) ==
  IF IsRule(symbol) THEN Set(s, "refs", symbol.rule, {Max({0, s.refs[symbol.rule] + d})}) ELSE s

InsertAfter(s, n, symbol) ==
  LET new == Len(s.data) + 1
  IN  Used(Link(Link(Alloc(s, symbol), new, s.next[n]), n, new), symbol, 1)

DeleteNode(s, n) ==
  Used(DeleteDigram(Link(s, s.prev[n], s.next[n]), n), s.data[n], -1)

-----------------------------------------------------------------------------
(* The grammar                                                             *)

(* The use of a rule at node n, its only one, replaced by its body.        *)
Expand(s, n, rule) ==
  LET last == LastNode(s, rule)
      body == Link(Link(DeleteNode(s, n), s.prev[n], FirstNode(s, rule)), last, s.next[n])
      guard == s.ring[rule]
  IN  Set(Link(Entered(body, last), guard, guard), "active", rule, {FALSE})

\* Mutant: a rule is unfolded when nobody uses it.
ExpandUnderusedLate(s, rule) ==
  LET first == FirstNode(s, rule)
      symbol == s.data[first]
  IN  IF IsRule(symbol) /\ s.refs[symbol.rule] = 0 THEN Expand(s, first, symbol.rule) ELSE s

ExpandUnderused(s, rule) ==
  LET first == FirstNode(s, rule)
      symbol == s.data[first]
  IN  IF IsRule(symbol) /\ s.refs[symbol.rule] = 1 THEN Expand(s, first, symbol.rule) ELSE s

\* Mutant: a rule that only begins with the digram is used for it.
IsBodyPrefix(s, m) ==
  IsGuard(s, s.prev[m]) /\ s.data[s.prev[m]].guard # Start

(* The digram at m is the whole body of a rule.                            *)
IsBody(s, m) ==
  /\ IsGuard(s, s.prev[m]) /\ s.data[s.prev[m]].guard # Start
  /\ IsGuard(s, s.next[s.next[m]])

(* The digram at n is known from elsewhere, and does not overlap it there. *)
Repeats(s, n) ==
  /\ IsDigram(s, n)
  /\ \E m \in Value(s.digrams, DigramAt(s, n)) : n # s.next[m] /\ m # s.next[n]

RECURSIVE Substitute(_, _, _)

(* The next rule, with the digram at n for its body.                       *)
Made(s, n) ==
  LET guard == Len(s.data) + 1
  IN  InsertAfter(InsertAfter(NewRule(s), guard, s.data[n]), guard + 1, s.data[s.next[n]])

(* A rule for the digram at node n, which also stands at node m: the rule  *)
(* it is the body of, or a new one that replaces both.                     *)
MatchNodes(s, n, m) ==
  LET known == IsBody(s, m)
      rule == IF known THEN s.data[s.prev[m]].guard ELSE Len(s.ring) + 1
      replaced == FoldLeft(LAMBDA t, at : Substitute(t, at, rule),
                           IF known THEN s ELSE Made(s, n),
                           IF known THEN <<n>> ELSE <<m, n>>)
      entered(t) == IF known THEN t ELSE Entered(t, Len(s.data) + 2)
  IN  ExpandUnderused(entered(replaced), rule)

Check(s, n) ==
  IF ~IsDigram(s, n) THEN s
  ELSE IF Value(s.digrams, DigramAt(s, n)) = {}
  THEN Entered(s, n)
  ELSE IF Repeats(s, n) THEN MatchNodes(s, n, s.digrams[DigramAt(s, n)]) ELSE s

(* The pairs on both sides of a new node, after n: the second one, unless  *)
(* the first is replaced.                                                  *)
CheckAround(s, n) ==
  FoldLeft(Check, s, IF Repeats(s, n) THEN <<n>> ELSE <<n, s.next[n]>>)

(* The digram at node n replaced by a use of the rule.                     *)
Substitute(s, n, rule) ==
  LET prev == s.prev[n]
      deleteNext(t) == DeleteNode(t, t.next[prev])
  IN  CheckAround(InsertAfter(deleteNext(deleteNext(s)), prev, NonTerminal(rule)), prev)

AppendTerminal(s, byte) ==
  LET last == LastNode(s, Start)
  IN  Check(InsertAfter(s, last, Terminal(byte)), last)

-----------------------------------------------------------------------------
(* Reading a grammar                                                       *)

RECURSIVE NodesFrom(_, _)
NodesFrom(s, n) == IF IsGuard(s, n) THEN << >> ELSE <<n>> \o NodesFrom(s, s.next[n])

\* The nodes of a rule's body.
Body(s, rule) == NodesFrom(s, FirstNode(s, rule))

(* decode_rule                                                             *)
RECURSIVE Decode(_, _)
Decode(s, rule) ==
  FoldLeft(LAMBDA bytes, n :
             bytes \o IF IsRule(s.data[n]) THEN Decode(s, s.data[n].rule) ELSE <<s.data[n].byte>>,
           << >>, Body(s, rule))

(* The rules that end at the end of the stream, the start rule first.      *)
RECURSIVE RuleChain(_, _)
RuleChain(s, rule) ==
  LET symbol == s.data[LastNode(s, rule)]
  IN  <<rule>> \o IF IsRule(symbol) /\ s.active[symbol.rule] THEN RuleChain(s, symbol.rule) ELSE << >>
=============================================================================
