---------------------------- MODULE AsyncExecutor ----------------------------
(***************************************************************************)
(* What PlayerScheduler promises its users, without threads or locks: tasks *)
(* are accepted in order while the intake is open, and executed one at a    *)
(* time in that order; those still pending can be cancelled; while the      *)
(* executor is frozen nothing is executed and nothing starts.               *)
(***************************************************************************)
EXTENDS Integers, Sequences

VARIABLES
  pending,   \* tasks accepted and not yet started, oldest first
  active,    \* the task being executed, 0 if none
  taken,     \* how many were accepted so far
  open,      \* the intake
  frozen

vars == <<pending, active, taken, open, frozen>>

Init ==
  /\ pending = <<>>
  /\ active = 0
  /\ taken = 0
  /\ open = TRUE
  /\ frozen = FALSE

Accept ==
  /\ open
  /\ taken' = taken + 1
  /\ pending' = Append(pending, taken')
  /\ UNCHANGED <<active, open, frozen>>

Start ==
  /\ ~frozen
  /\ active = 0
  /\ pending # <<>>
  /\ active' = Head(pending)
  /\ pending' = Tail(pending)
  /\ UNCHANGED <<taken, open, frozen>>

Finish ==
  /\ active # 0
  /\ active' = 0
  /\ UNCHANGED <<pending, taken, open, frozen>>

Cancel ==
  /\ \E i \in 1..Len(pending) :
       pending' = SubSeq(pending, 1, i - 1) \o SubSeq(pending, i + 1, Len(pending))
  /\ UNCHANGED <<active, taken, open, frozen>>

CancelAll ==
  /\ pending' = <<>>
  /\ UNCHANGED <<active, taken, open, frozen>>

\* An executor is frozen only between two tasks.
Freeze ==
  /\ active = 0
  /\ ~frozen
  /\ frozen' = TRUE
  /\ UNCHANGED <<pending, active, taken, open>>

Thaw ==
  /\ frozen
  /\ frozen' = FALSE
  /\ UNCHANGED <<pending, active, taken, open>>

SetIntake ==
  /\ open' = ~open
  /\ UNCHANGED <<pending, active, taken, frozen>>

Next == Accept \/ Start \/ Finish \/ Cancel \/ CancelAll \/ Freeze \/ Thaw \/ SetIntake

Spec == Init /\ [][Next]_vars
=============================================================================
