-------------------------------- MODULE MCLoans --------------------------------
(* Instances of Loans for TLC. *)
EXTENDS Loans, TLC

CONSTANTS h1, h2, l1, u1, u2, u3

Symmetry == Permutations(Handlers) \cup Permutations(Users)
-------------------------------------------------------------------------------
(* What the checks of the code achieve while calls come one after the other: *)
(* history of whether that was so until now.  A restart does not end it.     *)

VARIABLE alone

MCInit == Init /\ alone = TRUE
MCNext ==
    /\ Next
    /\ alone' = /\ alone
                /\ Cardinality({h \in Handlers : handler'[h].step # "idle"}) <= 1
MCSpec == /\ MCInit /\ [][MCNext]_<<vars, alone>>
          /\ \A h \in Handlers : WF_handler(Continue(h))

\* "Only a fully-approved loan can be disbursed", and its schedule is there
\* once: for calls one after the other, whatever was decided, refused, repeated
\* or cut off before.
FullyApprovedAlone == alone => FullyApproved /\ ScheduleOnce

\* Every repayment recorded counts towards its installment, and a loan is
\* Completed only when every installment is paid up to a cent: for repayments
\* one after the other, cut off after any of their writes.
CompletedIsPaidAlone == alone => RepaymentsKept /\ CompletedIsPaid
================================================================================
