--------------------------- MODULE MCLeaveWorkflow ---------------------------
(* Instances of LeaveWorkflow for TLC. *)
EXTENDS LeaveWorkflow, TLC

\* Two leave types of the same small allocation, so that two requests can exhaust it.
MCDefaultDays == [t \in LeaveTypes |-> 3]

\* Handlers, requests and balance rows are interchangeable; leave types too, as MCDefaultDays
\* is constant.
MCSymmetry ==
    Permutations(Handlers) \cup Permutations(Requests) \cup Permutations(BalanceRows)
        \cup Permutations(LeaveTypes)

=============================================================================
