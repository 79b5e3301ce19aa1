---------------------------- MODULE ReportCycle ----------------------------
(***************************************************************************)
(* What the periodic report promises, without handler, event word and      *)
(* task: seconds are counted, when Rate of them have passed a report falls *)
(* due, and it is made once, under the next frame number, before the next  *)
(* one falls due.                                                          *)
(***************************************************************************)
EXTENDS Naturals

CONSTANTS
    Rate,      \* seconds between two reports
    Numbers    \* modulus of the frame number

VARIABLES
    elapsed,   \* seconds since the last report fell due
    pending,   \* a report is due and not made yet
    number,    \* the number of the next report
    over       \* the process has ended

vars == << elapsed, pending, number, over >>

Init == elapsed = 0 /\ pending = FALSE /\ number = 0 /\ over = FALSE

Second ==
    /\ ~over /\ elapsed < Rate
    /\ elapsed' = elapsed + 1
    /\ UNCHANGED << pending, number, over >>

FallDue ==
    /\ ~over /\ elapsed = Rate /\ ~pending
    /\ elapsed' = 0 /\ pending' = TRUE
    /\ UNCHANGED << number, over >>

Report ==
    /\ ~over /\ pending
    /\ pending' = FALSE /\ number' = (number + 1) % Numbers
    /\ UNCHANGED << elapsed, over >>

\* With the process goes the report it had under way, if any.
End ==
    /\ ~over /\ over' = TRUE
    /\ pending' \in BOOLEAN
    /\ UNCHANGED << elapsed, number >>

Next == Second \/ FallDue \/ Report \/ End

Safety == Init /\ [][Next]_vars

Spec == Safety /\ WF_vars(Report)

=============================================================================
