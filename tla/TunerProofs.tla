----------------------------- MODULE TunerProofs -----------------------------
(***************************************************************************)
(* Theorems about the tuner, for every leaf, range, budget and limit.      *)
(***************************************************************************)
EXTENDS Tuner, FiniteSetTheorems, TLAPS

-----------------------------------------------------------------------------
(* The proposal kernel                                                     *)

(* With a range, all candidates step within that range.                    *)
LEMMA RangedBounds ==
  ASSUME Ranged, NEW v \in Candidates
  PROVE  Bounds(v) = Lo .. Hi
<1>1. /\ v \in SMin .. SMax /\ Lo <= v /\ v <= Hi
  BY DEF Candidates, Valid
<1>2. /\ SMin \in Int /\ SMax \in Int /\ UMax \in Int /\ SMax < UMax
      /\ Lo \in SMin .. SMax /\ Hi \in SMin .. SMax /\ Lo <= Hi
  BY KernelAssumption
<1>3. CASE Lo < 0
  <2>1. EffectiveKind(v) = "signed" BY <1>3 DEF EffectiveKind
  <2>2. Clamp(Lo, SMin, SMax) = Lo /\ Clamp(Hi, SMin, SMax) = Hi BY <1>2 DEF Clamp
  <2> QED BY <2>1, <2>2 DEF Bounds
<1>4. CASE ~(Lo < 0)
  <2>1. EffectiveKind(v) = "unsigned" BY <1>1, <1>2, <1>4 DEF EffectiveKind, KindOf
  <2>2. Clamp(Lo, 0, UMax) = Lo /\ Clamp(Hi, 0, UMax) = Hi BY <1>2, <1>4 DEF Clamp
  <2> QED BY <2>1, <2>2 DEF Bounds
<1> QED BY <1>3, <1>4

(* Between two candidates there is at most one raw action, their           *)
(* difference.                                                             *)
LEMMA OneRawAction ==
  ASSUME Ranged, NEW v \in Candidates, NEW w \in Candidates, NEW r \in Nat
  PROVE  {d \in Moves(v, r) : Parsed(v + d) = w}
           = IF w - v \in (-r .. r) \ {0} THEN {w - v} ELSE {}
<1>1. /\ v \in Int /\ w \in Int /\ Valid(w)
      /\ w \in Lo .. Hi
  BY KernelAssumption DEF Candidates, Valid
<1>2. Lo .. Hi \subseteq SMin .. SMax
  BY KernelAssumption
<1>3. ASSUME NEW x \in Lo .. Hi PROVE Parsed(x) = x
  BY <1>2 DEF Parsed
<1>4. ASSUME NEW d \in Moves(v, r), Parsed(v + d) = w
      PROVE  d = w - v /\ w - v \in (-r .. r) \ {0}
  <2>1. d \in (-r .. r) \ {0} /\ v + d \in Lo .. Hi
    BY RangedBounds DEF Moves
  <2>2. v + d = w BY <2>1, <1>3, <1>4
  <2> QED BY <1>1, <2>1, <2>2
<1>5. ASSUME w - v \in (-r .. r) \ {0}
      PROVE  w - v \in Moves(v, r) /\ Parsed(v + (w - v)) = w
  <2>1. v + (w - v) = w BY <1>1
  <2>2. Parsed(w) = w BY <1>1, <1>3
  <2>3. w # v BY <1>1, <1>5
  <2> QED BY <1>1, <1>5, <2>1, <2>2, <2>3, RangedBounds DEF Moves
<1> QED BY <1>4, <1>5

(* With a range the raw proposal kernel is symmetric: a candidate is as    *)
(* likely to be proposed from another as the other from it, whatever the   *)
(* kinds of the two numbers (EditDescriptor kernel, annealer.rs).          *)
THEOREM KernelSymmetric ==
  ASSUME Ranged, NEW v \in Candidates, NEW w \in Candidates, NEW r \in Nat
  PROVE  RawActions(v, w, r) = RawActions(w, v, r)
<1>1. v \in Int /\ w \in Int
  BY KernelAssumption DEF Candidates
<1>2. (w - v \in (-r .. r) \ {0}) <=> (v - w \in (-r .. r) \ {0})
  BY <1>1
<1>3. Cardinality({w - v}) = Cardinality({v - w})
  BY FS_Singleton
<1>4. Cardinality({d \in Moves(v, r) : Parsed(v + d) = w})
        = Cardinality({d \in Moves(w, r) : Parsed(w + d) = v})
  <2>1. CASE w - v \in (-r .. r) \ {0}
    BY <2>1, <1>2, <1>3, OneRawAction
  <2>2. CASE w - v \notin (-r .. r) \ {0}
    BY <2>2, <1>2, OneRawAction
  <2> QED BY <2>1, <2>2
<1> QED BY <1>4 DEF RawActions

-----------------------------------------------------------------------------
(* One worker at a time                                                    *)

(* A call is under way in three phases only; while it polls, no worker has *)
(* been left behind; and the one that was left behind is the last one.     *)
CallInv ==
  /\ step # "off" => phase \in {"warmup", "baseline", "eval"}
  /\ step \in {"poll", "check"} => ~abandoned
  /\ abandoned => phase = "done" \/ (step = "back" /\ reply = Fatal)
  /\ Alive => step \in {"poll", "check"} \/ abandoned

USE DEF vars, tuneVars, searchVars, evalVars

LEMMA CallInit == Init => CallInv
  BY DEF Init, EvalInit, CallInv, Alive

(* Starting a call with a limit of l.                                      *)
LEMMA CallStarts ==
  ASSUME CallInv, NEW l, Call(l), phase # "done",
         phase' \in {"warmup", "baseline", "eval"}
  PROVE  CallInv'
<1>1. ~abandoned BY DEF CallInv, Call
<1>2. ~abandoned' BY <1>1 DEF Call
<1>3. ~Alive BY <1>1 DEF CallInv, Call
<1> QED BY <1>2, <1>3 DEF Call, Return, CallInv, Alive

LEMMA ExecutorConfined ==
  ASSUME CallInv, Executor, UNCHANGED tuneVars
  PROVE  CallInv'
<1>1. CASE PollExit
  BY <1>1 DEF PollExit, Return, CallInv, Alive
<1>2. CASE PollError
  BY <1>2 DEF PollError, Return, CallInv, Alive
<1>3. CASE CheckLimit
  BY <1>3 DEF CheckLimit, Return, CallInv, Alive
<1>4. CASE ReadAnswer
  BY <1>4 DEF ReadAnswer, Return, CallInv, Alive
<1> QED BY <1>1, <1>2, <1>3, <1>4 DEF Executor

LEMMA WorkerKeepsConfined ==
  ASSUME CallInv, Worker, UNCHANGED tuneVars
  PROVE  CallInv'
<1>1. CASE WorkerStart BY <1>1 DEF WorkerStart, CallInv, Alive
<1>2. CASE \E d \in BOOLEAN : WorkerAnswer(d)
  BY <1>2 DEF WorkerAnswer, CallInv, Alive
<1>3. CASE WorkerExit BY <1>3 DEF WorkerExit, CallInv, Alive
<1>4. CASE WorkerCrash BY <1>4 DEF WorkerCrash, CallInv, Alive
<1> QED BY <1>1, <1>2, <1>3, <1>4 DEF Worker

LEMMA CallStep == CallInv /\ [Next]_vars => CallInv'
<1> SUFFICES ASSUME CallInv, [Next]_vars PROVE CallInv'
  OBVIOUS
<1>1. CASE StartBaseline
  BY <1>1, CallStarts DEF StartBaseline
<1>2. CASE FinishWarmup
  BY <1>2 DEF FinishWarmup, Finish, CallInv, Alive
<1>3. CASE FinishBaseline
  BY <1>3 DEF FinishBaseline, Finish, CallInv, Alive
<1>4. CASE EndRound
  BY <1>4 DEF EndRound, Finish, CallInv, Alive
<1>5. CASE Draw
  BY <1>5 DEF Draw, Attempting, Propose, Looped, Finish, CallInv, Alive
<1>6. CASE Ask
  BY <1>6 DEF Ask, Attempting, Propose, Looped, CallInv, Alive
<1>7. CASE Price
  <2>1. phase = "price" /\ step = "off" /\ ~abandoned /\ ~Alive
    BY <1>7 DEF Price, CallInv
  <2>2. CASE Call(EffectiveLimit) /\ phase' = "eval"
    BY <2>1, <2>2, CallStarts
  <2>3. CASE UNCHANGED <<step, reply, worker, answer, evalLeft, workLeft, abandoned>>
    BY <2>1, <2>3 DEF CallInv, Alive
  <2> QED BY <1>7, <2>2, <2>3 DEF Price
<1>8. CASE Evaluated
  BY <1>8 DEF Evaluated, Finish, CallInv, Alive
<1>9. CASE Admit
  BY <1>9 DEF Admit, Finish, CallInv, Alive
<1>10. CASE Executor /\ UNCHANGED tuneVars
  BY <1>10, ExecutorConfined
<1>11. CASE Work
  BY <1>11, WorkerKeepsConfined DEF Work
<1>12. CASE Tick
  BY <1>12 DEF Tick, EvalTick, CallInv, Alive
<1>13. CASE UNCHANGED vars
  BY <1>13 DEF CallInv, Alive
<1> QED BY <1>1, <1>2, <1>3, <1>4, <1>5, <1>6, <1>7, <1>8, <1>9, <1>10, <1>11, <1>12, <1>13
        DEF Next, Tune

(* A worker runs only while its call polls it, unless an error of the poll *)
(* left it behind, and then it is the last one (evaluate_candidate_bounded *)
(* in eval.rs).                                                            *)
THEOREM WorkerIsConfined == Spec => []WorkerConfined
<1>1. CallInv => WorkerConfined BY DEF CallInv, WorkerConfined
<1> QED BY <1>1, CallInit, CallStep, PTL DEF Spec

-----------------------------------------------------------------------------
(* The reversibility check                                                 *)

(* The search stays among the candidates.                                  *)
StaysInv ==
  /\ baseline \in Candidates /\ current \in Candidates /\ best \in Candidates
  /\ proposal.candidate \in Candidates

(* The proposal it has made is as likely in both directions.               *)
SymmetricInv == proposal.forward = proposal.reverse

ReversibleInv == StaysInv /\ SymmetricInv /\ NeverAborts

LEMMA SearchInit == Init => ReversibleInv
  BY TunerAssumption DEF Init, ReversibleInv, StaysInv, SymmetricInv, NeverAborts

LEMMA StaysStep ==
  ASSUME StaysInv, [Next]_vars
  PROVE  StaysInv'
<1>0. CASE UNCHANGED <<baseline, current, best, proposal>>
  BY <1>0 DEF StaysInv
<1>1. CASE StartBaseline \/ FinishWarmup \/ FinishBaseline \/ EndRound
  BY <1>0, <1>1 DEF StartBaseline, FinishWarmup, FinishBaseline, EndRound
<1>2. CASE Draw
  <2>1. UNCHANGED <<baseline, current, best>>
    BY <1>2 DEF Draw, Attempting
  <2>2. ASSUME NEW r, NEW c \in Targets(current, r), NEW f, NEW b, Propose(c, f, b)
        PROVE  proposal'.candidate \in Candidates
    BY <2>2 DEF Targets, Moves, Candidates, Valid, Propose
  <2>3. UNCHANGED proposal \/ proposal'.candidate \in Candidates
    BY <1>2, <2>2 DEF Draw
  <2> QED BY <2>1, <2>3 DEF StaysInv
<1>3. CASE Ask
  <2>1. UNCHANGED <<baseline, current, best>>
    BY <1>3 DEF Ask, Attempting
  <2>2. ASSUME NEW c, Valid(c), Propose(c, 0, 0)
        PROVE  proposal'.candidate \in Candidates
    BY <2>2 DEF Candidates, Valid, Propose
  <2>3. UNCHANGED proposal \/ proposal'.candidate \in Candidates
    BY <1>3, <2>2 DEF Ask
  <2> QED BY <2>1, <2>3 DEF StaysInv
<1>4. CASE Price \/ Evaluated
  BY <1>0, <1>4 DEF Price, Evaluated
<1>5. CASE Admit
  BY <1>5 DEF Admit, Move, StaysInv
<1>6. CASE (Executor /\ UNCHANGED tuneVars) \/ Work \/ Tick \/ UNCHANGED vars
  BY <1>0, <1>6 DEF Work, Tick
<1> QED BY <1>1, <1>2, <1>3, <1>4, <1>5, <1>6 DEF Next, Tune

LEMMA SymmetricStep ==
  ASSUME Ranged, StaysInv, SymmetricInv, [Next]_vars
  PROVE  SymmetricInv'
<1>0. CASE UNCHANGED proposal
  BY <1>0 DEF SymmetricInv
<1>1. CASE StartBaseline \/ FinishWarmup \/ FinishBaseline \/ EndRound
  BY <1>0, <1>1 DEF StartBaseline, FinishWarmup, FinishBaseline, EndRound
<1>2. CASE Draw
  <2>1. ASSUME NEW r \in 1 .. MaxRadius, NEW c \in Targets(current, r),
               Propose(c, RawActions(current, c, r), RawActions(c, current, r))
        PROVE  SymmetricInv'
    <3>1. c \in Candidates
      BY <2>1 DEF Targets, Moves, Candidates, Valid
    <3>2. RawActions(current, c, r) = RawActions(c, current, r)
      BY <3>1, TunerAssumption, KernelSymmetric DEF StaysInv
    <3> QED BY <2>1, <3>2 DEF Propose, SymmetricInv
  <2> QED BY <1>0, <1>2, <2>1 DEF Draw
<1>3. CASE Ask
  BY <1>0, <1>3 DEF Ask, Propose, SymmetricInv
<1>4. CASE Price \/ Evaluated \/ Admit
  BY <1>0, <1>4 DEF Price, Evaluated, Admit
<1>5. CASE (Executor /\ UNCHANGED tuneVars) \/ Work \/ Tick \/ UNCHANGED vars
  BY <1>0, <1>5 DEF Work, Tick
<1> QED BY <1>1, <1>2, <1>3, <1>4, <1>5 DEF Next, Tune

(* Only the admission of a proposal that is less likely in one direction   *)
(* fails the check.                                                        *)
LEMMA AbortStep ==
  ASSUME SymmetricInv, NeverAborts, [Next]_vars
  PROVE  NeverAborts'
<1>0. CASE UNCHANGED status
  BY <1>0 DEF NeverAborts
<1>1. CASE StartBaseline \/ (Executor /\ UNCHANGED tuneVars) \/ Work \/ Tick \/ UNCHANGED vars
  BY <1>0, <1>1 DEF StartBaseline, Work, Tick
<1>2. CASE FinishWarmup
  BY <1>0, <1>2 DEF FinishWarmup, Finish, NeverAborts
<1>3. CASE FinishBaseline
  BY <1>0, <1>3 DEF FinishBaseline, Finish, NeverAborts
<1>4. CASE EndRound
  BY <1>0, <1>4 DEF EndRound, Finish, NeverAborts
<1>5. CASE Draw
  BY <1>0, <1>5 DEF Draw, Propose, Finish, NeverAborts
<1>6. CASE Ask
  BY <1>0, <1>6 DEF Ask, Propose
<1>7. CASE Price
  BY <1>0, <1>7 DEF Price, Finish, NeverAborts
<1>8. CASE Evaluated
  BY <1>0, <1>8 DEF Evaluated, Finish, NeverAborts
<1>9. CASE Admit
  BY <1>0, <1>9 DEF Admit, SymmetricInv, NeverAborts
<1> QED BY <1>1, <1>2, <1>3, <1>4, <1>5, <1>6, <1>7, <1>8, <1>9 DEF Next, Tune

(* As long as the leaf has a range, the reversibility check of the         *)
(* elementary acceptance rule never fails a tune, whatever the range, the  *)
(* candidates refused and the radius (accept_elementary, annealer.rs).     *)
THEOREM RangedNeverAborts ==
  ASSUME Ranged
  PROVE  Spec => []NeverAborts
<1>1. Init => ReversibleInv
  BY SearchInit
<1>2. ReversibleInv /\ [Next]_vars => ReversibleInv'
  BY StaysStep, SymmetricStep, AbortStep DEF ReversibleInv
<1>3. ReversibleInv => NeverAborts
  BY DEF ReversibleInv
<1> QED BY <1>1, <1>2, <1>3, PTL DEF Spec

-----------------------------------------------------------------------------
(* The best candidate                                                      *)

LEMMA KeyOrder ==
  ASSUME objective \in [Candidates -> Int],
         NEW a \in Candidates, NEW b \in Candidates, NEW c \in Candidates
  PROVE  /\ ~KeyLess(a, a)
         /\ KeyLess(a, b) /\ KeyLess(b, c) => KeyLess(a, c)
<1>1. a \in Int /\ b \in Int /\ c \in Int
  BY KernelAssumption DEF Candidates
<1>2. objective[a] \in Int /\ objective[b] \in Int /\ objective[c] \in Int
  OBVIOUS
<1> QED BY <1>1, <1>2 DEF KeyLess

Counters == {"seen", "hits", "misses", "attempted", "loops", "invalid", "dropped"}

(* Where the tune stands, and what the cache can hold: no result is ever   *)
(* measured that is cached, so none is lost by storing another.            *)
StageInv ==
  /\ counts \in [Counters -> Nat]
  /\ objective \in [Candidates -> Int]
  /\ phase \in {"warmup", "baseline"} =>
       counts.seen = 0 /\ best = baseline /\ current = baseline
  /\ phase \in {"loop", "price", "eval", "admit"} => counts.seen > 0
  /\ phase # "done" => status = "running"
  /\ phase = "eval" => Key \notin DOMAIN cache
  /\ phase = "admit" => Key \in DOMAIN cache
  /\ \A k \in DOMAIN cache : k[1] \in Candidates

BestInv == StaysInv /\ StageInv /\ BestIsLeast

LEMMA StageInit == Init => StageInv
  BY DEF Init, StageInv, Counters, Key, KeyFor

(* The counters keep their types.                                          *)
LEMMA CountedKept ==
  ASSUME counts \in [Counters -> Nat], NEW k \in Counters, Counted(k)
  PROVE  /\ counts' \in [Counters -> Nat]
         /\ counts'.seen = IF k = "seen" THEN counts.seen + 1 ELSE counts.seen
<1>1. counts.seen \in Nat /\ counts[k] \in Nat BY DEF Counters
<1> QED BY <1>1 DEF Counted, Counters

LEMMA TwiceKept ==
  ASSUME counts \in [Counters -> Nat], NEW k \in Counters \ {"seen", "attempted"},
         counts' = [counts EXCEPT !.attempted = @ + 1, ![k] = @ + 1]
  PROVE  counts' \in [Counters -> Nat] /\ counts'.seen = counts.seen
<1>1. counts["attempted"] \in Nat /\ counts[k] \in Nat BY DEF Counters
<1>2. [counts EXCEPT !.attempted = @ + 1] \in [Counters -> Nat]
  BY <1>1 DEF Counters
<1>3. DEFINE c == [counts EXCEPT !.attempted = @ + 1]
<1>4. c \in [Counters -> Nat] /\ c[k] \in Nat /\ c.seen = counts.seen
  BY <1>2 DEF Counters
<1>5. counts' = [c EXCEPT ![k] = @ + 1]
  OBVIOUS
<1> HIDE DEF c
<1>6. counts' \in [Counters -> Nat]
  BY <1>4, <1>5
<1>7. counts'.seen = c.seen
  BY <1>4, <1>5 DEF Counters
<1> QED BY <1>4, <1>6, <1>7

LEMMA StageStep ==
  ASSUME StaysInv, StageInv, CallInv, [Next]_vars
  PROVE  StageInv'
<1>0. CASE UNCHANGED <<counts, objective, phase, baseline, best, current, status,
                       cache, proposal, limit>>
  BY <1>0 DEF StageInv, Key, KeyFor
<1>1. CASE StartBaseline
  BY <1>1 DEF StartBaseline, StageInv, Key, KeyFor
<1>2. CASE FinishWarmup
  BY <1>2 DEF FinishWarmup, Finish, StageInv, Key, KeyFor
<1>3. CASE FinishBaseline
  <2>1. UNCHANGED <<objective, baseline, best, current, proposal, limit>>
        /\ phase = "baseline"
    BY <1>3 DEF FinishBaseline
  <2>2. CASE reply = Fatal
    BY <1>3, <2>1, <2>2 DEF FinishBaseline, Finish, StageInv
  <2>3. CASE reply # Fatal
    <3>1. counts' = [counts EXCEPT !.seen = 1, !.misses = 1]
      BY <1>3, <2>3 DEF FinishBaseline
    <3>2. counts \in [Counters -> Nat] BY DEF StageInv
    <3>3. counts' \in [Counters -> Nat] /\ counts'.seen = 1
      BY <3>1, <3>2 DEF Counters
    <3>4. cache' = [k \in {<<baseline, InitialLimit>>} |-> reply]
      BY <1>3, <2>3 DEF FinishBaseline
    <3>5. \A k \in DOMAIN cache' : k[1] \in Candidates
      BY <3>4 DEF StaysInv
    <3>6. phase' = "done" \/ (phase' = "loop" /\ status' = status)
      BY <1>3, <2>3 DEF FinishBaseline, Finish
    <3>7. objective' \in [Candidates -> Int]
      BY <2>1 DEF StageInv
    <3>8. status = "running"
      BY <2>1 DEF StageInv
    <3> QED BY <3>3, <3>5, <3>6, <3>7, <3>8 DEF StageInv
  <2> QED BY <2>2, <2>3
<1>4. CASE EndRound
  BY <1>4 DEF EndRound, Finish, StageInv, Key, KeyFor
<1>5. CASE Draw
  <2>1. UNCHANGED <<objective, baseline, best, current, cache>> /\ phase = "loop"
    BY <1>5 DEF Draw, Attempting
  <2>2. counts' \in [Counters -> Nat] /\ counts'.seen = counts.seen
    <3>1. counts \in [Counters -> Nat] BY DEF StageInv
    <3>2. CASE Looped
      BY <3>1, <3>2, TwiceKept DEF Looped, Counters
    <3>3. CASE Counted("attempted")
      BY <3>1, <3>3, CountedKept DEF Counters
    <3> QED BY <1>5, <3>2, <3>3 DEF Draw, Propose
  <2>3. phase' = "done" \/ (phase' \in {"loop", "price"} /\ status' = status)
    BY <1>5, <2>1 DEF Draw, Looped, Propose, Finish
  <2> QED BY <2>1, <2>2, <2>3 DEF StageInv
<1>6. CASE Ask
  <2>1. UNCHANGED <<objective, baseline, best, current, cache>> /\ phase = "loop"
    BY <1>6 DEF Ask, Attempting
  <2>2. counts' \in [Counters -> Nat] /\ counts'.seen = counts.seen
    <3>1. counts \in [Counters -> Nat] BY DEF StageInv
    <3>2. CASE Looped
      BY <3>1, <3>2, TwiceKept DEF Looped, Counters
    <3>3. CASE counts' = [counts EXCEPT !.attempted = @ + 1, !.invalid = @ + 1]
      BY <3>1, <3>3, TwiceKept DEF Counters
    <3>4. CASE Counted("attempted")
      BY <3>1, <3>4, CountedKept DEF Counters
    <3> QED BY <1>6, <3>2, <3>3, <3>4 DEF Ask, Propose
  <2>3. phase' \in {"loop", "price"} /\ status' = status
    BY <1>6, <2>1 DEF Ask, Propose
  <2> QED BY <2>1, <2>2, <2>3 DEF StageInv
<1>7. CASE Price
  <2>1. /\ UNCHANGED <<objective, baseline, best, current, cache, proposal>>
        /\ phase = "price" /\ limit' = EffectiveLimit
    BY <1>7 DEF Price
  <2>2. counts' \in [Counters -> Nat] /\ counts'.seen = counts.seen
    <3>1. counts \in [Counters -> Nat] BY DEF StageInv
    <3>2. \/ counts' = counts
          \/ \E k \in Counters \ {"seen"} : Counted(k)
      BY <1>7 DEF Price, Counters
    <3> QED BY <3>1, <3>2, CountedKept
  <2>3. \/ phase' = "done"
        \/ phase' = "loop" /\ status' = status
        \/ phase' = "admit" /\ status' = status /\ KeyFor(EffectiveLimit) \in DOMAIN cache
        \/ phase' = "eval" /\ status' = status /\ KeyFor(EffectiveLimit) \notin DOMAIN cache
    BY <1>7 DEF Price, Finish
  <2>4. Key' = KeyFor(EffectiveLimit)
    BY <2>1 DEF Key, KeyFor
  <2> QED BY <2>1, <2>2, <2>3, <2>4 DEF StageInv
<1>8. CASE Evaluated
  <2>1. /\ UNCHANGED <<objective, baseline, best, current, proposal, limit>>
        /\ phase = "eval"
    BY <1>8 DEF Evaluated
  <2>2. counts' \in [Counters -> Nat] /\ counts'.seen = counts.seen
    <3>1. counts \in [Counters -> Nat] BY DEF StageInv
    <3>2. counts' = counts \/ Counted("misses")
      BY <1>8 DEF Evaluated
    <3> QED BY <3>1, <3>2, CountedKept DEF Counters
  <2>3. \/ phase' = "done" /\ cache' = cache
        \/ phase' = "admit" /\ status' = status /\ DOMAIN cache' = DOMAIN cache \cup {Key}
    BY <1>8 DEF Evaluated, Finish
  <2>4. Key' = Key /\ Key[1] \in Candidates
    BY <2>1 DEF Key, KeyFor, StaysInv
  <2> QED BY <2>1, <2>2, <2>3, <2>4 DEF StageInv
<1>9. CASE Admit
  <2>1. UNCHANGED <<objective, cache>> /\ phase = "admit"
    BY <1>9 DEF Admit
  <2>2. counts' \in [Counters -> Nat] /\ counts'.seen > 0
    <3>1. counts \in [Counters -> Nat] /\ Counted("seen") BY <1>9 DEF Admit, StageInv
    <3>2. counts' \in [Counters -> Nat] /\ counts'.seen = counts.seen + 1
      BY <3>1, CountedKept DEF Counters
    <3>3. counts.seen \in Nat BY <3>1 DEF Counters
    <3> QED BY <3>2, <3>3
  <2>3. phase' = "done" \/ (phase' = "loop" /\ status' = status)
    BY <1>9 DEF Admit, Finish
  <2> QED BY <2>1, <2>2, <2>3 DEF StageInv
<1>10. CASE Executor /\ UNCHANGED tuneVars
  <2>1. limit' = limit
    BY <1>10 DEF Executor, PollExit, PollError, CheckLimit, ReadAnswer
  <2> QED BY <1>0, <1>10, <2>1
<1>11. CASE Work
  <2>1. limit' = limit
    BY <1>11 DEF Work, Worker, WorkerStart, WorkerAnswer, WorkerExit, WorkerCrash
  <2> QED BY <1>0, <1>11, <2>1 DEF Work
<1>12. CASE Tick
  BY <1>0, <1>12 DEF Tick, EvalTick
<1>13. CASE UNCHANGED vars
  BY <1>0, <1>13
<1> QED BY <1>1, <1>2, <1>3, <1>4, <1>5, <1>6, <1>7, <1>8, <1>9, <1>10, <1>11, <1>12, <1>13
        DEF Next, Tune

(* What BestIsLeast says of a single result.                               *)
LEMMA BestUnchanged ==
  ASSUME StageInv, BestIsLeast, Searching' => Searching,
         UNCHANGED <<objective, best, current>>,
         Searching' => ~(phase = "admit" \/ status = "aborted"),
         DOMAIN cache \subseteq DOMAIN cache',
         \A k \in DOMAIN cache : cache'[k] = cache[k],
         \A k \in DOMAIN cache' \ DOMAIN cache : k = Key' /\ phase' = "admit"
  PROVE  BestIsLeast'
<1> SUFFICES ASSUME Searching' PROVE BestIsLeast'
  BY DEF BestIsLeast
<1>1. Deployable(best) /\ Deployable(current)
  BY DEF BestIsLeast
<1>2. Deployable(best)' /\ Deployable(current)'
  BY <1>1 DEF Deployable
<1>3. ASSUME NEW k \in DOMAIN cache', cache'[k].deployable,
             ~(k = Key' /\ (phase' = "admit" \/ status' = "aborted"))
      PROVE  ~KeyLess(k[1], best)'
  <2>1. k \in DOMAIN cache BY <1>3
  <2>2. ~KeyLess(k[1], best) BY <1>3, <2>1 DEF BestIsLeast
  <2> QED BY <2>2 DEF KeyLess
<1> QED BY <1>2, <1>3 DEF BestIsLeast

(* Nothing of the search changes, but perhaps the stage.                   *)
LEMMA SearchUnchanged ==
  ASSUME StageInv, BestIsLeast, Searching' => Searching,
         UNCHANGED <<objective, best, current, cache>>,
         Searching' => ~(phase = "admit" \/ status = "aborted")
  PROVE  BestIsLeast'
BY BestUnchanged

LEMMA AdmitBest ==
  ASSUME StaysInv, StageInv, BestIsLeast, Admit
  PROVE  BestIsLeast'
<1>0. /\ phase = "admit" /\ Counted("seen")
      /\ UNCHANGED <<objective, cache, proposal, limit>>
  BY DEF Admit
<1>1. Searching /\ status = "running" /\ Key \in DOMAIN cache /\ Key' = Key
  BY <1>0 DEF StageInv, Searching, Key, KeyFor
<1>2. /\ Deployable(best) /\ Deployable(current)
      /\ \A k \in DOMAIN cache : cache[k].deployable /\ k # Key => ~KeyLess(k[1], best)
  BY <1>0, <1>1 DEF BestIsLeast
<1>3. \A c : Deployable(c)' <=> Deployable(c)
  BY <1>0 DEF Deployable
<1>4. \A c, d : KeyLess(c, d)' <=> KeyLess(c, d)
  BY <1>0 DEF KeyLess
<1>5. Key[1] = proposal.candidate
  BY DEF Key, KeyFor
<1>6. CASE ~cache[Key].deployable
  <2>1. UNCHANGED <<best, current>>
    BY <1>6 DEF Admit
  <2>2. Deployable(best)' /\ Deployable(current)'
    BY <1>2, <1>3, <2>1
  <2>3. \A k \in DOMAIN cache' : cache'[k].deployable => ~KeyLess(k[1], best)'
    BY <1>0, <1>2, <1>4, <1>6, <2>1
  <2> QED BY <2>2, <2>3 DEF BestIsLeast
<1>7. CASE Finish("aborted") /\ UNCHANGED <<current, best, stagnation>>
  <2>1. Deployable(best)' /\ Deployable(current)'
    BY <1>2, <1>3, <1>7
  <2>2. status' = "aborted"
    BY <1>7 DEF Finish
  <2>3. \A k \in DOMAIN cache' : cache'[k].deployable /\ k # Key' => ~KeyLess(k[1], best)'
    BY <1>0, <1>1, <1>2, <1>4, <1>7
  <2> QED BY <2>1, <2>2, <2>3 DEF BestIsLeast
<1>8. CASE cache[Key].deployable /\ Move(proposal.candidate)
  <2> DEFINE c == proposal.candidate
  <2>1. /\ best' = IF KeyLess(c, best) THEN c ELSE best
        /\ current' \in {best', c, current}
    BY <1>8 DEF Move
  <2>2. Deployable(c)
    BY <1>1, <1>5, <1>8 DEF Deployable
  <2>3. Deployable(best)' /\ Deployable(current)'
    BY <1>2, <1>3, <2>1, <2>2
  <2>4. ASSUME NEW k \in DOMAIN cache, cache[k].deployable
        PROVE  ~KeyLess(k[1], best')
    <3>1. k[1] \in Candidates /\ c \in Candidates /\ best \in Candidates
          /\ objective \in [Candidates -> Int]
      BY DEF StageInv, StaysInv
    <3>2. k = Key => k[1] = c
      BY <1>5
    <3>3. k # Key => ~KeyLess(k[1], best)
      BY <1>2, <2>4
    <3>4. /\ ~KeyLess(c, c)
          /\ KeyLess(k[1], c) /\ KeyLess(c, best) => KeyLess(k[1], best)
      BY <3>1, KeyOrder
    <3> QED BY <2>1, <3>2, <3>3, <3>4
  <2>5. \A k \in DOMAIN cache' : cache'[k].deployable => ~KeyLess(k[1], best)'
    <3> SUFFICES ASSUME NEW k \in DOMAIN cache', cache'[k].deployable
                 PROVE  ~KeyLess(k[1], best)'
      OBVIOUS
    <3>1. ~KeyLess(k[1], best')
      BY <1>0, <2>4
    <3> QED BY <1>0, <3>1 DEF KeyLess
  <2> QED BY <2>3, <2>5 DEF BestIsLeast
<1> QED BY <1>0, <1>6, <1>7, <1>8 DEF Admit

LEMMA BestStep ==
  ASSUME StaysInv, StageInv, CallInv, BestIsLeast, [Next]_vars
  PROVE  BestIsLeast'
<1>0. ASSUME UNCHANGED <<counts, objective, phase, best, current, status, cache,
                         proposal, limit>>
      PROVE  BestIsLeast'
  BY <1>0 DEF BestIsLeast, Searching, Deployable, KeyLess, Key, KeyFor
<1>1. CASE StartBaseline
  BY <1>1 DEF StartBaseline, StageInv, BestIsLeast, Searching
<1>2. CASE FinishWarmup
  BY <1>2 DEF FinishWarmup, StageInv, BestIsLeast, Searching
<1>3. CASE FinishBaseline
  <2>1. /\ UNCHANGED <<objective, baseline, best, current>> /\ phase = "baseline"
        /\ best = baseline /\ current = baseline
    BY <1>3 DEF FinishBaseline, StageInv
  <2>2. CASE reply = Fatal
    BY <1>3, <2>1, <2>2 DEF FinishBaseline, StageInv, BestIsLeast, Searching
  <2>3. CASE reply # Fatal /\ ~reply.deployable
    BY <1>3, <2>3 DEF FinishBaseline, Finish, BestIsLeast, Searching
  <2>4. CASE reply # Fatal /\ reply.deployable
    <3>1. cache' = [k \in {<<baseline, InitialLimit>>} |-> reply]
      BY <1>3, <2>4 DEF FinishBaseline
    <3>2. Deployable(best)' /\ Deployable(current)'
      BY <2>1, <2>4, <3>1 DEF Deployable
    <3>3. ~KeyLess(baseline, baseline)
      BY KeyOrder DEF StageInv, StaysInv
    <3>4. \A k \in DOMAIN cache' : ~KeyLess(k[1], best)'
      BY <2>1, <3>1, <3>3 DEF KeyLess
    <3> QED BY <3>2, <3>4 DEF BestIsLeast
  <2> QED BY <2>2, <2>3, <2>4
<1>4. CASE EndRound
  BY <1>4, SearchUnchanged DEF EndRound, Finish, StageInv, Searching
<1>5. CASE Draw
  <2>1. UNCHANGED <<objective, best, current, cache>> /\ phase = "loop"
    BY <1>5 DEF Draw, Attempting
  <2>2. Searching /\ status = "running"
    BY <2>1 DEF StageInv, Searching
  <2> QED BY <2>1, <2>2, SearchUnchanged
<1>6. CASE Ask
  <2>1. UNCHANGED <<objective, best, current, cache>> /\ phase = "loop"
    BY <1>6 DEF Ask, Attempting
  <2>2. Searching /\ status = "running"
    BY <2>1 DEF StageInv, Searching
  <2> QED BY <2>1, <2>2, SearchUnchanged
<1>7. CASE Price
  <2>1. UNCHANGED <<objective, best, current, cache>> /\ phase = "price"
    BY <1>7 DEF Price
  <2>2. Searching /\ status = "running"
    BY <2>1 DEF StageInv, Searching
  <2> QED BY <2>1, <2>2, SearchUnchanged
<1>8. CASE Evaluated
  <2>1. /\ UNCHANGED <<objective, best, current, proposal, limit>> /\ phase = "eval"
    BY <1>8 DEF Evaluated
  <2>2. Searching /\ status = "running" /\ Key \notin DOMAIN cache /\ Key' = Key
    BY <2>1 DEF StageInv, Searching, Key, KeyFor
  <2>3. CASE reply = Fatal
    BY <1>8, <2>1, <2>2, <2>3, SearchUnchanged DEF Evaluated
  <2>4. CASE reply # Fatal
    <3>1. cache' = [k \in DOMAIN cache \cup {Key} |-> IF k = Key THEN reply ELSE cache[k]]
          /\ phase' = "admit"
      BY <1>8, <2>4 DEF Evaluated
    <3>2. \A k \in DOMAIN cache : cache'[k] = cache[k]
      BY <2>2, <3>1
    <3> QED BY <2>1, <2>2, <3>1, <3>2, BestUnchanged
  <2> QED BY <2>3, <2>4
<1>9. CASE Admit
  BY <1>9, AdmitBest
<1>10. CASE Executor /\ UNCHANGED tuneVars
  <2>1. limit' = limit
    BY <1>10 DEF Executor, PollExit, PollError, CheckLimit, ReadAnswer
  <2> QED BY <1>0, <1>10, <2>1
<1>11. CASE Work
  <2>1. limit' = limit
    BY <1>11 DEF Work, Worker, WorkerStart, WorkerAnswer, WorkerExit, WorkerCrash
  <2> QED BY <1>0, <1>11, <2>1 DEF Work
<1>12. CASE Tick
  BY <1>0, <1>12 DEF Tick, EvalTick
<1>13. CASE UNCHANGED vars
  BY <1>0, <1>13
<1> QED BY <1>1, <1>2, <1>3, <1>4, <1>5, <1>6, <1>7, <1>8, <1>9, <1>10, <1>11, <1>12, <1>13
        DEF Next, Tune

(* The best candidate is the first, by objective and bytes, of all that    *)
(* were ever found deployable, and the search stays among these: whatever  *)
(* the acceptance rule refuses, however often the search is reset, rounds  *)
(* end and the cache is hit (key_less, run_annealed_search and             *)
(* run_planner_search).                                                    *)
THEOREM BestIsTheLeast == Spec => []BestIsLeast
<1> DEFINE IInv == BestInv /\ CallInv
<1>1. Init => IInv
  <2>1. Init => BestIsLeast
    BY DEF Init, BestIsLeast, Searching
  <2> QED BY <2>1, SearchInit, StageInit, CallInit DEF BestInv, ReversibleInv
<1>2. IInv /\ [Next]_vars => IInv'
  BY StaysStep, StageStep, CallStep, BestStep DEF BestInv
<1>3. IInv => BestIsLeast
  BY DEF BestInv
<1> QED BY <1>1, <1>2, <1>3, PTL DEF Spec

-----------------------------------------------------------------------------
(* The cache                                                               *)

(* What a call returns and what a worker leaves behind were measured under *)
(* the limit of the call; between calls there is no response.              *)
AnswerInv ==
  /\ step = "back" => reply = Fatal \/ reply.limit = limit
  /\ step \in {"off", "back"} => answer = NoAnswer
  /\ answer \in {Refused, NoAnswer} \/ answer.limit = limit
  /\ phase = "baseline" /\ step # "off" => limit = InitialLimit

CacheInv == IsFiniteSet(DOMAIN cache) /\ CacheMeasured

LEMMA AnswerInit == Init => AnswerInv
  BY DEF Init, EvalInit, AnswerInv

LEMMA AnswerCall ==
  ASSUME AnswerInv, NEW l, Call(l), phase' = "baseline" => l = InitialLimit
  PROVE  AnswerInv'
<1>1. step = "off" /\ answer = NoAnswer /\ limit' = l
  BY DEF Call, AnswerInv
<1>2. TimedOut(l).limit = l BY DEF TimedOut
<1>3. InitialLimit' = InitialLimit BY DEF InitialLimit
<1> QED BY <1>1, <1>2, <1>3 DEF Call, Return, AnswerInv

LEMMA AnswerExecutor ==
  ASSUME AnswerInv, Executor, UNCHANGED tuneVars
  PROVE  AnswerInv'
<1>0. InitialLimit' = InitialLimit /\ limit' = limit /\ phase' = phase
  BY DEF InitialLimit, Executor, PollExit, PollError, CheckLimit, ReadAnswer
<1>1. CASE PollExit
  BY <1>0, <1>1 DEF PollExit, Return, AnswerInv
<1>2. CASE PollError
  BY <1>0, <1>2 DEF PollError, Return, AnswerInv
<1>3. CASE CheckLimit
  <2>1. TimedOut(limit).limit = limit BY DEF TimedOut
  <2> QED BY <1>0, <1>3, <2>1 DEF CheckLimit, Return, AnswerInv
<1>4. CASE ReadAnswer
  <2>1. PICK x \in IF answer \in {Refused, NoAnswer} THEN {Fatal} ELSE Authoritative(answer) :
          Return(x)
    BY <1>4 DEF ReadAnswer
  <2>2. x = Fatal \/ x.limit = limit
    <3>1. CASE answer \in {Refused, NoAnswer} BY <2>1, <3>1
    <3>2. CASE answer \notin {Refused, NoAnswer}
      <4>1. answer.limit = limit BY <3>2 DEF AnswerInv
      <4>2. Measured(answer.limit, FALSE).limit = answer.limit BY DEF Measured
      <4> QED BY <2>1, <3>2, <4>1, <4>2 DEF Authoritative
    <3> QED BY <3>1, <3>2
  <2>3. step' = "back" /\ reply' = x /\ answer' = NoAnswer /\ step = "read"
    BY <1>4, <2>1 DEF Return, ReadAnswer
  <2> QED BY <1>0, <2>2, <2>3 DEF AnswerInv
<1> QED BY <1>1, <1>2, <1>3, <1>4 DEF Executor

LEMMA AnswerWorker ==
  ASSUME AnswerInv, CallInv, Worker, UNCHANGED tuneVars
  PROVE  AnswerInv'
<1>0. InitialLimit' = InitialLimit /\ UNCHANGED <<limit, phase, step, reply>>
  BY DEF InitialLimit, Worker, WorkerStart, WorkerAnswer, WorkerExit, WorkerCrash
<1>1. CASE UNCHANGED answer
  BY <1>0, <1>1 DEF AnswerInv
<1>2. ASSUME NEW d \in BOOLEAN, WorkerAnswer(d), ~UNCHANGED answer
      PROVE  AnswerInv'
  <2>1. step \in {"poll", "check"}
    BY <1>2 DEF WorkerAnswer, CallInv, Alive
  <2>2. answer' \in {Refused, Errored(limit), Measured(limit, d), TimedOut(limit)}
    BY <1>2 DEF WorkerAnswer
  <2>3. /\ Errored(limit).limit = limit /\ Measured(limit, d).limit = limit
        /\ TimedOut(limit).limit = limit
    BY DEF Errored, Measured, TimedOut
  <2>4. answer' \in {Refused, NoAnswer} \/ answer'.limit = limit
    BY <2>2, <2>3
  <2> QED BY <1>0, <2>1, <2>4 DEF AnswerInv
<1> QED BY <1>1, <1>2 DEF Worker, WorkerStart, WorkerExit, WorkerCrash

LEMMA AnswerStep ==
  ASSUME AnswerInv, CallInv, [Next]_vars
  PROVE  AnswerInv'
<1>0. InitialLimit' = InitialLimit BY DEF InitialLimit
<1>1. CASE StartBaseline
  BY <1>1, AnswerCall DEF StartBaseline
<1>2. CASE FinishWarmup \/ FinishBaseline \/ Evaluated
  <2>1. step' = "off" /\ answer' = answer /\ step = "back"
    BY <1>2 DEF FinishWarmup, FinishBaseline, Evaluated
  <2> QED BY <2>1 DEF AnswerInv
<1>3. CASE EndRound \/ Draw \/ Ask \/ Admit
  <2>1. UNCHANGED evalVars /\ phase \in {"loop", "admit"}
    BY <1>3 DEF EndRound, Draw, Ask, Attempting, Admit
  <2>2. step = "off"
    BY <2>1 DEF CallInv
  <2> QED BY <2>1, <2>2 DEF AnswerInv
<1>4. CASE Price
  <2>1. phase = "price" /\ step = "off" /\ answer = NoAnswer
    BY <1>4 DEF Price, CallInv, AnswerInv
  <2>2. CASE Call(EffectiveLimit) /\ phase' = "eval"
    BY <2>2, AnswerCall
  <2>3. CASE UNCHANGED <<step, reply, worker, answer, evalLeft, workLeft, abandoned>>
    BY <2>1, <2>3 DEF AnswerInv
  <2> QED BY <1>4, <2>2, <2>3 DEF Price
<1>5. CASE Executor /\ UNCHANGED tuneVars
  BY <1>5, AnswerExecutor
<1>6. CASE Work
  BY <1>6, AnswerWorker DEF Work
<1>7. CASE Tick \/ UNCHANGED vars
  <2>1. UNCHANGED <<limit, phase, step, reply, answer>>
    BY <1>7 DEF Tick, EvalTick
  <2> QED BY <1>0, <2>1 DEF AnswerInv
<1> QED BY <1>1, <1>2, <1>3, <1>4, <1>5, <1>6, <1>7 DEF Next, Tune

(* Every counter but one keeps its value.                                  *)
LEMMA OtherKept ==
  ASSUME counts \in [Counters -> Nat], NEW k \in Counters \ {"misses"}, Counted(k)
  PROVE  counts'.misses = counts.misses
BY DEF Counted, Counters

LEMMA CacheUnchanged ==
  ASSUME CacheInv, cache' = cache, counts'.misses = counts.misses
  PROVE  CacheInv'
BY DEF CacheInv, CacheMeasured

LEMMA CacheStep ==
  ASSUME CacheInv, AnswerInv, StageInv, CallInv, [Next]_vars
  PROVE  CacheInv'
<1> USE DEF StageInv
<1>1. CASE UNCHANGED <<cache, counts>>
  BY <1>1, CacheUnchanged
<1>2. CASE FinishBaseline
  <2>1. CASE reply = Fatal
    BY <1>2, <2>1, CacheUnchanged DEF FinishBaseline
  <2>2. CASE reply # Fatal
    <3> DEFINE key == <<baseline, InitialLimit>>
    <3>1. reply.limit = InitialLimit
      BY <1>2, <2>2 DEF FinishBaseline, AnswerInv
    <3>2. cache' = [k \in {key} |-> reply] /\ counts' = [counts EXCEPT !.seen = 1, !.misses = 1]
      BY <1>2, <2>2 DEF FinishBaseline
    <3>3. counts'.misses = 1
      BY <3>2 DEF Counters
    <3>4. IsFiniteSet({key}) /\ Cardinality({key}) = 1
      BY FS_Singleton
    <3>5. DOMAIN cache' = {key} /\ cache'[key].limit = key[2]
      BY <3>1, <3>2
    <3> QED BY <3>3, <3>4, <3>5 DEF CacheInv, CacheMeasured
  <2> QED BY <2>1, <2>2
<1>3. CASE Draw \/ Ask
  <2>1. cache' = cache
    BY <1>3 DEF Draw, Ask, Attempting
  <2>2. Looped \/ Counted("attempted")
          \/ counts' = [counts EXCEPT !.attempted = @ + 1, !.invalid = @ + 1]
    BY <1>3 DEF Draw, Ask, Propose
  <2>3. counts'.misses = counts.misses
    BY <2>2 DEF Looped, Counted, Counters
  <2> QED BY <2>1, <2>3, CacheUnchanged
<1>4. CASE Price
  <2>1. cache' = cache /\ (counts' = counts \/ \E k \in Counters \ {"misses"} : Counted(k))
    BY <1>4 DEF Price, Counters
  <2> QED BY <2>1, OtherKept, CacheUnchanged
<1>5. CASE Evaluated
  <2>1. CASE reply = Fatal
    BY <1>5, <2>1, CacheUnchanged DEF Evaluated
  <2>2. CASE reply # Fatal
    <3>1. /\ cache' = [k \in DOMAIN cache \cup {Key} |-> IF k = Key THEN reply ELSE cache[k]]
          /\ Counted("misses") /\ Key \notin DOMAIN cache
      BY <1>5, <2>2 DEF Evaluated
    <3>2. reply.limit = limit
      BY <1>5, <2>2 DEF Evaluated, AnswerInv
    <3>3. Key[2] = limit BY DEF Key, KeyFor
    <3>4. counts'.misses = counts.misses + 1 /\ counts.misses \in Nat
      BY <3>1 DEF Counted, Counters
    <3>5. IsFiniteSet(DOMAIN cache') /\ Cardinality(DOMAIN cache') = Cardinality(DOMAIN cache) + 1
      BY <3>1, FS_AddElement DEF CacheInv
    <3>6. \A k \in DOMAIN cache' : cache'[k].limit = k[2]
      BY <3>1, <3>2, <3>3 DEF CacheInv, CacheMeasured
    <3> QED BY <3>4, <3>5, <3>6 DEF CacheInv, CacheMeasured
  <2> QED BY <2>1, <2>2
<1>6. CASE Admit
  BY <1>6, OtherKept, CacheUnchanged DEF Admit, Counters
<1>7. CASE StartBaseline \/ FinishWarmup \/ EndRound \/ Work \/ Tick \/ UNCHANGED vars
           \/ (Executor /\ UNCHANGED tuneVars)
  BY <1>1, <1>7 DEF StartBaseline, FinishWarmup, EndRound, Work, Tick
<1> QED BY <1>2, <1>3, <1>4, <1>5, <1>6, <1>7 DEF Next, Tune

(* A cached result was measured under the time limit it is filed under,    *)
(* and each one was paid for with a call of its own, although limits       *)
(* shrink, workers are killed with their answer written, and calls fail    *)
(* (cache_key_for_candidate, evaluate_candidate_bounded).                  *)
THEOREM CacheIsMeasured == Spec => []CacheMeasured
<1> DEFINE IInv == CacheInv /\ AnswerInv /\ StaysInv /\ StageInv /\ CallInv
<1>1. Init => IInv
  <2>1. Init => CacheInv
    BY FS_EmptySet DEF Init, CacheInv, CacheMeasured
  <2> QED BY <2>1, SearchInit, StageInit, AnswerInit, CallInit DEF ReversibleInv
<1>2. IInv /\ [Next]_vars => IInv'
  BY StaysStep, StageStep, CallStep, AnswerStep, CacheStep
<1>3. IInv => CacheMeasured
  BY DEF CacheInv
<1> QED BY <1>1, <1>2, <1>3, PTL DEF Spec
=============================================================================
