------------------------------ MODULE SweepPlan ------------------------------
(***************************************************************************)
(* What a sweep of the harness promises, whatever its loops are like: it   *)
(* has a plan of calls, a pair <<run, sub run>> each, makes them in order  *)
(* and once, counts each one when it has ended and before the next, and is *)
(* over when all are counted.                                              *)
(***************************************************************************)
EXTENDS Naturals, Sequences

VARIABLES
  sweeping,        \* is there a sweep
  plan, made,      \* the calls to make, and those made
  counted, total   \* "run counted/total"

plan_vars == <<sweeping, plan, made, counted, total>>

Idle == ~sweeping /\ plan = <<>> /\ made = <<>> /\ counted = 0 /\ total = 0

\* A sweep begins, with any plan.
Begin == /\ ~sweeping /\ sweeping' = TRUE
         /\ total' = Len(plan') /\ made' = <<>> /\ counted' = 0

MakeCall == /\ sweeping /\ counted = Len(made) /\ Len(made) < Len(plan)
            /\ made' = Append(made, plan[Len(made) + 1])
            /\ UNCHANGED <<sweeping, plan, counted, total>>

CountCall == /\ sweeping /\ counted < Len(made)
             /\ counted' = counted + 1
             /\ UNCHANGED <<sweeping, plan, made, total>>

End == /\ sweeping /\ made = plan /\ counted = total
       /\ sweeping' = FALSE /\ plan' = <<>> /\ made' = <<>>
       /\ counted' = 0 /\ total' = 0

Next == Begin \/ MakeCall \/ CountCall \/ End

Safety == Idle /\ [][Next]_plan_vars

\* A sweep that has begun goes on to its end.
Spec == Safety /\ WF_plan_vars(MakeCall \/ CountCall \/ End)

=============================================================================
