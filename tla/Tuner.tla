-------------------------------- MODULE Tuner --------------------------------
(***************************************************************************)
(* One run of the tuner: warmups and the baseline, then a search under a   *)
(* time budget, by the annealed controller (with either acceptance rule)   *)
(* or by a planner, that prices candidates in worker processes and writes  *)
(* the best deployable one.  Candidates are the values of one integer leaf *)
(* (module Proposals); a worker may find a candidate deployable or not,    *)
(* time out or fail at will (module Evaluator), the objective of a         *)
(* candidate is its own.                                                   *)
(***************************************************************************)
EXTENDS Evaluator, Proposals

CONSTANTS
  Baselines,   \* the candidates a run may start from
  Budget,      \* time_budget_seconds, in ticks
  EvalLimit,   \* eval_time_limit_seconds
  MaxEvals,    \* max_evaluations
  MaxRadius,   \* max_mutation_radius
  Warmups,     \* warmup_baseline_runs
  Rounds,      \* self_improvement_rounds of a planner
  ResetAfter,  \* stagnation_reset_evals
  Nobody,      \* no candidate
  MaxAttempts  \* bound of the model on proposals_attempted

ASSUME TunerAssumption ==
  /\ Baselines \subseteq Candidates /\ Budget \in Nat \ {0} /\ EvalLimit \in Nat \ {0}
  /\ MaxEvals \in Nat \ {0} /\ MaxRadius \in Nat \ {0} /\ Warmups \in Nat
  /\ Rounds \in Nat \ {0} /\ ResetAfter \in Nat \ {0} /\ MaxAttempts \in Nat

VARIABLES
  controller,  \* elementary and hastings (the annealer's two profiles) or planner
  baseline,    \* baseline_candidate
  objective,   \* objective_bits of each candidate
  phase,       \* warmup, baseline, loop, price, eval, admit or done
  left,        \* ticks of the budget left
  round,       \* the round of the planner
  warmed,      \* warmups done
  current,     \* current_candidate
  best,        \* best_candidate
  cache,       \* results by candidate and time limit
  proposal,    \* the proposal of the iteration and its raw action counts
  stagnation,  \* stagnation_counter
  counts,      \* the counters of the report
  status,      \* the status of the report
  output       \* the candidate written, if any

searchVars == <<current, best, cache, proposal, stagnation, counts>>
tuneVars == <<controller, baseline, objective, phase, left, round, warmed, searchVars, status, output>>
vars == <<tuneVars, evalVars>>

InitialLimit == Smaller(EvalLimit, Budget)

\* Rounds share the budget evenly; this is what is left when one ends.
RoundFloor == IF controller = "planner" THEN (Budget * (Rounds - round)) \div Rounds ELSE 0

\* effective_eval_limit_seconds
EffectiveLimit ==
  Smaller(EvalLimit, IF left > RoundFloor THEN left - RoundFloor ELSE 0)

\* Mutant: a result is kept under the configured limit.
ConfiguredKey(l) == <<proposal.candidate, EvalLimit>>

\* cache_key_for_candidate
KeyFor(l) == <<proposal.candidate, l>>

Key == KeyFor(limit)

\* key_less: a smaller objective, or the same with the smaller canonical bytes.
KeyLess(c, d) ==
  \/ objective[c] < objective[d]
  \/ objective[c] = objective[d] /\ c < d

Init ==
  /\ EvalInit
  /\ controller \in {"elementary", "hastings", "planner"}
  /\ baseline \in Baselines
  /\ objective \in [Candidates -> 1 .. 2]
  /\ phase = (IF Warmups > 0 THEN "warmup" ELSE "baseline")
  /\ left = Budget /\ round = 1 /\ warmed = 0
  /\ current = baseline /\ best = baseline /\ cache = << >>
  /\ proposal = [candidate |-> baseline, forward |-> 0, reverse |-> 0]
  /\ stagnation = 0
  /\ counts = [seen |-> 0, hits |-> 0, misses |-> 0,
               attempted |-> 0, loops |-> 0, invalid |-> 0, dropped |-> 0]
  /\ status = "running" /\ output = Nobody

Counted(k) == counts' = [counts EXCEPT ![k] = @ + 1]

\* The tune ends; a deployable best candidate is written.
Finish(s) ==
  /\ phase' = "done" /\ status' = s
  /\ output' = IF s \in {"completed", "terminated"} THEN best ELSE Nobody

-----------------------------------------------------------------------------
(* The baseline *)

\* A warmup or the evaluation of the baseline begins.
StartBaseline ==
  /\ phase \in {"warmup", "baseline"}
  /\ Call(InitialLimit)
  /\ UNCHANGED tuneVars

\* The result of a warmup is dropped, unless it is fatal.
FinishWarmup ==
  /\ phase = "warmup" /\ step = "back" /\ step' = "off"
  /\ IF reply = Fatal THEN Finish("error") /\ UNCHANGED warmed
     ELSE /\ warmed' = warmed + 1
          /\ phase' = IF warmed' = Warmups THEN "baseline" ELSE "warmup"
          /\ UNCHANGED <<status, output>>
  /\ UNCHANGED <<controller, baseline, objective, left, round, searchVars,
                 limit, reply, worker, answer, evalLeft, workLeft, abandoned>>

\* Without a deployable baseline there is no search.
FinishBaseline ==
  /\ phase = "baseline" /\ step = "back" /\ step' = "off"
  /\ IF reply = Fatal THEN Finish("error") /\ UNCHANGED <<cache, counts>>
     ELSE /\ cache' = [k \in {<<baseline, InitialLimit>>} |-> reply]
          /\ counts' = [counts EXCEPT !.seen = 1, !.misses = 1]
          /\ IF reply.deployable THEN phase' = "loop" /\ UNCHANGED <<status, output>>
             ELSE Finish("baseline_not_deployable")
  /\ UNCHANGED <<controller, baseline, objective, left, round, warmed, current, best, proposal, stagnation,
                 limit, reply, worker, answer, evalLeft, workLeft, abandoned>>

-----------------------------------------------------------------------------
(* The search loop *)

LastRound == controller # "planner" \/ round = Rounds

\* The head of the loop: enough results, or no time left.
RoundOver == counts.seen >= MaxEvals \/ left <= RoundFloor

EndRound ==
  /\ phase = "loop" /\ RoundOver
  /\ IF LastRound THEN Finish("completed") /\ UNCHANGED round
     ELSE round' = round + 1 /\ UNCHANGED <<phase, status, output>>
  /\ UNCHANGED <<controller, baseline, objective, left, warmed, searchVars, evalVars>>

Attempting ==
  /\ phase = "loop" /\ ~RoundOver
  /\ counts.attempted < MaxAttempts
  /\ UNCHANGED <<controller, baseline, objective, left, round, warmed, current, best, cache, stagnation,
                 evalVars>>

Looped == counts' = [counts EXCEPT !.attempted = @ + 1, !.loops = @ + 1]

Propose(c, f, r) ==
  /\ proposal' = [candidate |-> c, forward |-> f, reverse |-> r]
  /\ phase' = "price" /\ Counted("attempted")
  /\ UNCHANGED <<status, output>>

\* The annealer draws with the radius that its temperature gives: without a
\* transition it stops, and raw actions without an effect are self-loops.
Draw ==
  /\ controller # "planner"
  /\ Attempting
  /\ \E r \in 1 .. MaxRadius :
       \/ /\ Moves(current, r) = {}
          /\ Looped /\ Finish("completed") /\ UNCHANGED proposal
       \/ /\ Moves(current, r) # {} /\ Cardinality(Moves(current, r)) < 2 * MaxRadius
          /\ Looped /\ UNCHANGED <<phase, proposal, status, output>>
       \/ \E c \in Targets(current, r) :
            Propose(c, RawActions(current, c, r), RawActions(c, current, r))

\* planner_integer_magnitudes
Magnitudes == IF Ranged THEN {m \in {1, 2, 4, 8, 16, 32} : m = 1 \/ m <= Hi - Lo} ELSE {1}

\* The planner's actions keep the kind the leaf had in the baseline; an unsigned
\* step below zero ends at zero.
Edited(v, d) ==
  IF KindOf(baseline) = "unsigned" /\ v + d < 0 THEN 0 ELSE v + d

Applicable(v, d) ==
  /\ KindOf(baseline) = "unsigned" => v >= 0
  /\ Edited(v, d) \in IF KindOf(baseline) = "unsigned" THEN 0 .. UMax ELSE SMin .. SMax
  /\ Ranged => Lo <= Edited(v, d) /\ Edited(v, d) <= Hi
  /\ Edited(v, d) # v

\* The agent selects an action; one that cannot be applied and a candidate that is
\* refused are fed back to it.
Ask ==
  /\ controller = "planner"
  /\ Attempting
  /\ \E d \in {m * s : m \in Magnitudes, s \in {-1, 1}} :
       LET c == Parsed(Edited(current, d)) IN
       \/ /\ ~Applicable(current, d)
          /\ Looped /\ UNCHANGED <<phase, proposal, status, output>>
       \/ /\ Applicable(current, d) /\ ~Valid(c)
          /\ counts' = [counts EXCEPT !.attempted = @ + 1, !.invalid = @ + 1]
          /\ UNCHANGED <<phase, proposal, status, output>>
       \/ /\ Applicable(current, d) /\ Valid(c)
          /\ Propose(c, 0, 0)

\* The time that is left decides the limit, and the limit is part of the key.  A
\* planner out of time leaves the round, its action unanswered; the annealer goes on.
Price ==
  /\ phase = "price"
  /\ limit' = EffectiveLimit
  /\ \/ /\ controller = "planner" /\ EffectiveLimit = 0
        /\ Counted("dropped")
        /\ IF LastRound THEN Finish("completed") /\ UNCHANGED round
           ELSE round' = round + 1 /\ phase' = "loop" /\ UNCHANGED <<status, output>>
        /\ UNCHANGED <<step, reply, worker, answer, evalLeft, workLeft, abandoned>>
     \/ /\ controller = "planner" => EffectiveLimit > 0
        /\ KeyFor(EffectiveLimit) \in DOMAIN cache
        /\ Counted("hits") /\ phase' = "admit"
        /\ UNCHANGED <<round, status, output, step, reply, worker, answer, evalLeft, workLeft, abandoned>>
     \/ /\ controller = "planner" => EffectiveLimit > 0
        /\ KeyFor(EffectiveLimit) \notin DOMAIN cache
        /\ Call(EffectiveLimit) /\ phase' = "eval"
        /\ UNCHANGED <<round, status, output, counts>>
  /\ UNCHANGED <<controller, baseline, objective, left, warmed, current, best, cache, proposal, stagnation>>

\* A fatal failure ends the search with the best candidate so far; any other
\* result is cached.
Evaluated ==
  /\ phase = "eval" /\ step = "back" /\ step' = "off"
  /\ IF reply = Fatal THEN Finish("terminated") /\ UNCHANGED <<cache, counts>>
     ELSE /\ cache' = [k \in DOMAIN cache \cup {Key} |-> IF k = Key THEN reply ELSE cache[k]]
          /\ Counted("misses") /\ phase' = "admit"
          /\ UNCHANGED <<status, output>>
  /\ UNCHANGED <<controller, baseline, objective, left, round, warmed, current, best, proposal, stagnation,
                 limit, reply, worker, answer, evalLeft, workLeft, abandoned>>

\* Whether the proposal becomes the current candidate: of the annealer's two rules
\* the uniform one weighs the raw actions of both directions, and chance decides
\* where the acceptance probability is neither 0 nor 1.  A planner descends.
Acceptances ==
  LET c == proposal.candidate IN
  CASE controller = "planner" -> {KeyLess(c, current)}
    [] controller = "hastings" /\ proposal.reverse = 0 -> {FALSE}
    [] OTHER -> IF objective[c] <= objective[current] /\ proposal.reverse >= proposal.forward
                THEN {TRUE} ELSE BOOLEAN

\* Mutant: the best candidate is what beats the current one.
MoveFromCurrent(c) ==
  \E accept \in Acceptances :
    /\ best' = IF KeyLess(c, current) THEN c ELSE best
    /\ current' = IF accept THEN c ELSE current
    /\ stagnation' = 0

\* A deployable result moves the current and the best candidate; after ResetAfter
\* of them without a better one the search goes back to the best.
Move(c) ==
  \E accept \in Acceptances :
    LET stagnant == IF KeyLess(c, best) THEN 0 ELSE stagnation + 1
    IN  /\ best' = IF KeyLess(c, best) THEN c ELSE best
        /\ current' = IF stagnant >= ResetAfter THEN best' ELSE IF accept THEN c ELSE current
        /\ stagnation' = IF stagnant >= ResetAfter THEN 0 ELSE stagnant

\* A result is seen.  The elementary rule demands that the proposal be as likely
\* in both directions; where it is not, the tune fails and writes nothing.
Admit ==
  /\ phase = "admit"
  /\ Counted("seen")
  /\ IF ~cache[Key].deployable
     THEN phase' = "loop" /\ UNCHANGED <<current, best, stagnation, status, output>>
     ELSE IF controller = "elementary" /\ proposal.forward # proposal.reverse
     THEN Finish("aborted") /\ UNCHANGED <<current, best, stagnation>>
     ELSE Move(proposal.candidate) /\ phase' = "loop" /\ UNCHANGED <<status, output>>
  /\ UNCHANGED <<controller, baseline, objective, left, round, warmed, cache, proposal, evalVars>>

-----------------------------------------------------------------------------
\* The one thread of the tuner.
Tune ==
  \/ StartBaseline \/ FinishWarmup \/ FinishBaseline
  \/ EndRound \/ Draw \/ Ask \/ Price \/ Evaluated \/ Admit
  \/ (Executor /\ UNCHANGED tuneVars)

Work == Worker /\ UNCHANGED tuneVars

\* Time passes while the tune runs, and for a worker it has left behind.
Tick ==
  /\ phase # "done"
  /\ left + evalLeft + workLeft > 0
  /\ left' = Decremented(left)
  /\ EvalTick
  /\ UNCHANGED <<controller, baseline, objective, phase, round, warmed, searchVars, status, output>>

Next == Tune \/ Work \/ Tick

\* The thread runs and time passes; a worker need never get anywhere.
Spec == Init /\ [][Next]_vars /\ WF_vars(Tune) /\ WF_vars(Tick)

-----------------------------------------------------------------------------
Searching == counts.seen > 0 /\ status # "baseline_not_deployable"

Deployable(c) == \E k \in DOMAIN cache : k[1] = c /\ cache[k].deployable

\* The search never leaves deployable candidates, and its best is the first, by
\* objective and bytes, of all candidates ever found deployable: also of those the
\* acceptance rule refused, and whatever resets and fatal failures came between.
\* (key_less and the moves of best_candidate; the result about to be admitted
\* excepted.)
BestIsLeast ==
  Searching =>
    /\ Deployable(best) /\ Deployable(current)
    /\ \A k \in DOMAIN cache :
         cache[k].deployable /\ ~(k = Key /\ (phase = "admit" \/ status = "aborted"))
           => ~KeyLess(k[1], best)

\* Every cached result was measured under the limit of its key, so a candidate
\* that timed out when little time was left is never taken for one that always
\* does, and no result is there that no worker was paid for.
CacheMeasured ==
  /\ \A k \in DOMAIN cache : cache[k].limit = k[2]
  /\ Cardinality(DOMAIN cache) = counts.misses

\* A worker runs only while its call is polling it: two candidates are never
\* measured at once.  The one exception is a worker left behind by an error of
\* the poll, and then no other is ever spawned.
WorkerConfined ==
  Alive =>
    \/ step \in {"poll", "check"}
    \/ abandoned /\ (phase = "done" \/ (step = "back" /\ reply = Fatal))

\* The reversibility check of the elementary rule never fails the tune.
NeverAborts == status # "aborted"

\* The tune ends, though a worker may hang and proposals may never be new.
TuneEnds == <>(phase = "done")

=============================================================================
