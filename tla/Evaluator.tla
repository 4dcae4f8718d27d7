------------------------------ MODULE Evaluator ------------------------------
(***************************************************************************)
(* The evaluation of one candidate in a worker process.  The executor      *)
(* writes a request, spawns the worker and polls it: has it exited, is the *)
(* time limit over?  A worker that exits well has left its response in a   *)
(* file; one that is over the limit is killed and its response ignored.    *)
(* The directory of request and response is removed when the call returns. *)
(*                                                                         *)
(* The two processes and the clock are interleaved.  A worker is never     *)
(* obliged to do anything: it may compute for ever, or block on its error  *)
(* output, a pipe nobody reads.  Times are whole ticks.                    *)
(***************************************************************************)
EXTENDS Integers

CONSTANTS
  Fatal,    \* FatalEvaluatorFailure
  Refused,  \* a response that is not ok
  NoAnswer  \* no response file

VARIABLES
  limit,      \* effective_eval_time_limit_seconds of the call
  step,       \* where the call stands: off, poll, check, read or back
  reply,      \* what the last call returned
  worker,     \* the worker process
  answer,     \* the response file
  evalLeft,   \* ticks until the executor's limit
  workLeft,   \* ticks until the worker's limit
  abandoned   \* history variable: a live worker was left behind

evalVars == <<limit, step, reply, worker, answer, evalLeft, workLeft, abandoned>>

TimedOut(l) == [status |-> "timeout", deployable |-> FALSE, limit |-> l]
Errored(l) == [status |-> "error", deployable |-> FALSE, limit |-> l]
Measured(l, d) == [status |-> "success", deployable |-> d, limit |-> l]

Alive == worker \in {"spawned", "working", "answered"}
Smaller(a, b) == IF a <= b THEN a ELSE b
Decremented(t) == IF t = 0 THEN 0 ELSE t - 1

EvalInit ==
  /\ limit = 0 /\ step = "off" /\ reply = Fatal
  /\ worker = "none" /\ answer = NoAnswer /\ evalLeft = 0 /\ workLeft = 0
  /\ abandoned = FALSE

-----------------------------------------------------------------------------
(* The executor *)

\* The call returns x; what it owns is dropped.
Return(x) == step' = "back" /\ reply' = x /\ answer' = NoAnswer

\* A call with a limit of l: without time the candidate counts as timed out and
\* no worker is spawned; files, cgroup or process may fail to be created.
Call(l) ==
  /\ step = "off"
  /\ limit' = l
  /\ \/ /\ l > 0
        /\ step' = "poll" /\ worker' = "spawned" /\ evalLeft' = l
        /\ UNCHANGED <<reply, answer>>
     \/ /\ IF l > 0 THEN Return(Fatal) ELSE Return(TimedOut(l))
        /\ UNCHANGED <<worker, evalLeft>>
  /\ UNCHANGED <<workLeft, abandoned>>

\* try_wait: an unsuccessful exit is fatal.
PollExit ==
  /\ step = "poll"
  /\ \/ Alive /\ step' = "check" /\ UNCHANGED <<reply, worker, answer>>
     \/ worker = "exited" /\ step' = "read" /\ worker' = "none" /\ UNCHANGED <<reply, answer>>
     \/ worker = "failed" /\ Return(Fatal) /\ worker' = "none"
  /\ UNCHANGED <<limit, evalLeft, workLeft, abandoned>>

\* try_wait fails: the call returns and the worker is left to itself.
PollError ==
  /\ step = "poll"
  /\ Return(Fatal)
  /\ abandoned' = Alive
  /\ UNCHANGED <<limit, worker, evalLeft, workLeft>>

\* Mutant: the worker is not killed.
CheckLimitKeeping ==
  /\ step = "check"
  /\ IF evalLeft > 0 THEN step' = "poll" /\ UNCHANGED <<reply, answer, worker>>
     ELSE (Return(TimedOut(limit)) \/ Return(Fatal)) /\ UNCHANGED worker
  /\ UNCHANGED <<limit, evalLeft, workLeft, abandoned>>

\* Mutant: a live worker is waited for.
CheckLimitWaiting ==
  /\ step = "check"
  /\ IF evalLeft > 0 \/ Alive THEN step' = "poll" /\ UNCHANGED <<reply, answer, worker>>
     ELSE (Return(TimedOut(limit)) \/ Return(Fatal)) /\ worker' = "none"
  /\ UNCHANGED <<limit, evalLeft, workLeft, abandoned>>

\* The limit: sleep and poll again, or kill the worker and wait for it, whatever
\* it has done since the poll.  Its peak memory may turn out to be unreadable.
CheckLimit ==
  /\ step = "check"
  /\ IF evalLeft > 0 THEN step' = "poll" /\ UNCHANGED <<reply, answer, worker>>
     ELSE (Return(TimedOut(limit)) \/ Return(Fatal)) /\ worker' = "none"
  /\ UNCHANGED <<limit, evalLeft, workLeft, abandoned>>

\* Of two accounts of the peak memory the larger one decides, so a success may
\* still turn out not to be deployable; the account may be unreadable.
Authoritative(x) ==
  {x, Fatal} \cup (IF x.status = "success" THEN {Measured(x.limit, FALSE)} ELSE {})

ReadAnswer ==
  /\ step = "read"
  /\ \E x \in IF answer \in {Refused, NoAnswer} THEN {Fatal} ELSE Authoritative(answer) : Return(x)
  /\ UNCHANGED <<limit, worker, evalLeft, workLeft, abandoned>>

-----------------------------------------------------------------------------
(* The worker *)

\* It reads its request, unless the directory is gone already.
WorkerStart ==
  /\ worker = "spawned"
  /\ worker' = IF abandoned THEN "failed" ELSE "working"
  /\ workLeft' = limit
  /\ UNCHANGED <<limit, step, reply, answer, evalLeft, abandoned>>

\* It evaluates the candidate: over its own limit this is a timeout, a failure of
\* the candidate is a result, and any other failure a response that is not ok.
WorkerAnswer(d) ==
  /\ worker = "working"
  /\ IF abandoned THEN worker' = "failed" /\ UNCHANGED answer
     ELSE /\ worker' = "answered"
          /\ answer' \in {Refused, Errored(limit),
                          IF workLeft > 0 THEN Measured(limit, d) ELSE TimedOut(limit)}
  /\ UNCHANGED <<limit, step, reply, evalLeft, workLeft, abandoned>>

WorkerExit ==
  /\ worker = "answered"
  /\ worker' = "exited"
  /\ UNCHANGED <<limit, step, reply, answer, evalLeft, workLeft, abandoned>>

WorkerCrash ==
  /\ Alive
  /\ worker' = "failed"
  /\ UNCHANGED <<limit, step, reply, answer, evalLeft, workLeft, abandoned>>

-----------------------------------------------------------------------------
Executor == PollExit \/ PollError \/ CheckLimit \/ ReadAnswer

Worker == WorkerStart \/ (\E d \in BOOLEAN : WorkerAnswer(d)) \/ WorkerExit \/ WorkerCrash

\* A tick, for both limits.
EvalTick ==
  /\ evalLeft' = Decremented(evalLeft)
  /\ workLeft' = Decremented(workLeft)
  /\ UNCHANGED <<limit, step, reply, worker, answer, abandoned>>

=============================================================================
