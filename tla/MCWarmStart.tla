----------------------------- MODULE MCWarmStart -----------------------------
(* WarmStart on a small instance: a teacher of two traces, one a prefix of *)
(* the other, which a live history may repeat.                             *)
EXTENDS WarmStart

Stepped(a, r) == [action |-> a, reward |-> r]
Short == <<Stepped(1, 0), Stepped(0, 1)>>
Long == <<Stepped(1, 0), Stepped(0, 1), Stepped(0, 0), Stepped(1, 1)>>
SmallTeachers == {{Short, Long}}
=============================================================================
