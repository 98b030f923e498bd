----------------------------- MODULE TaskQueue ------------------------------
(***************************************************************************)
(* What a stream with its consumer group and its workers promises to those *)
(* who publish to it: at least once.  A task is owed until it is done,     *)
(* given up on a dead-letter stream, or withdrawn.                         *)
(***************************************************************************)
CONSTANT Tasks

VARIABLES
  submitted,  \* tasks somebody published
  owed,       \* those the queue still has to serve
  done,       \* those whose work is committed
  given,      \* those given up, with a trace of it
  withdrawn   \* those whose owner no longer wants them

vars == <<submitted, owed, done, given, withdrawn>>

Init == submitted = {} /\ owed = {} /\ done = {} /\ given = {} /\ withdrawn = {}

\* Also again: a task may come back after it was served.
Submit(t) ==
  /\ submitted' = submitted \cup {t}
  /\ owed' = owed \cup {t}
  /\ UNCHANGED <<done, given, withdrawn>>

\* Also more than once, and after the queue has closed the task.
Finish(t) ==
  /\ t \in submitted
  /\ done' = done \cup {t}
  /\ UNCHANGED <<submitted, owed, given, withdrawn>>

GiveUp(t) ==
  /\ t \in submitted
  /\ given' = given \cup {t}
  /\ UNCHANGED <<submitted, owed, done, withdrawn>>

Withdraw(t) ==
  /\ withdrawn' = withdrawn \cup {t}
  /\ UNCHANGED <<submitted, owed, done, given>>

\* The queue lets go of no other task.
Settle(t) ==
  /\ t \in owed
  /\ t \in done \cup given \cup withdrawn
  /\ owed' = owed \ {t}
  /\ UNCHANGED <<submitted, done, given, withdrawn>>

Next ==
  \E t \in Tasks : Submit(t) \/ Finish(t) \/ GiveUp(t) \/ Withdraw(t) \/ Settle(t)

Spec == Init /\ [][Next]_vars
=============================================================================
