---------------------------- MODULE JobLifecycle ----------------------------
(***************************************************************************)
(* The life cycle of one compare job as spec §3 states it, with the steps  *)
(* of §4 that move it, stated without workers, streams, leases or          *)
(* handlers:                                                               *)
(*                                                                         *)
(*   status   the record's status, Absent before the intake created it;    *)
(*   paid     the payment is recorded on the record;                       *)
(*   result   the result artifact is stored;                               *)
(*   charged  the user has paid the WeChat order for this job.             *)
(*                                                                         *)
(* Invariants 1 and 2 of §3 are the guards of the steps that enter "ready" *)
(* and "awaiting_payment"; invariant 3 makes "cancelled" and "ready"       *)
(* terminal, so only "processing", "awaiting_payment" and "failed" have    *)
(* steps out of them; invariant 4 holds because no step clears paid.       *)
(*                                                                         *)
(* DesignNext is that life cycle.  Departure lists, one by one, the steps  *)
(* the code was found to take against it; each is the finding of a run.   *)
(***************************************************************************)
EXTENDS JobStore

VARIABLES status, paid, result, charged

lcvars == <<status, paid, result, charged>>

\* The statuses §3 invariant 3 does not make terminal.
Open == {"processing", "awaiting_payment", "failed"}

Init ==
  /\ status = Absent
  /\ paid = FALSE /\ result = FALSE /\ charged = FALSE

\* §3 "Lifecycle": the intake creates the record in processing.
Create ==
  /\ status = Absent
  /\ status' = "processing"
  /\ UNCHANGED <<paid, result, charged>>

\* §4.5 step 9: the compute stage stores the result.
Produce ==
  /\ status \in Open /\ ~result
  /\ result' = TRUE
  /\ UNCHANGED <<status, paid, charged>>

\* §4.5 step 6: the compute stage marks a job without a result processing.
Mark ==
  /\ status \in Open /\ ~result
  /\ status' = "processing"
  /\ UNCHANGED <<paid, result, charged>>

\* §4.5-§4.7: a business failure ends the job.
Fail ==
  /\ status \in Open
  /\ status' = "failed"
  /\ UNCHANGED <<paid, result, charged>>

\* §4.7 step 7 and invariant 2: payment is asked for a computed, unpaid job.
RequestPayment ==
  /\ status \in Open /\ result /\ ~paid /\ Fee > 0
  /\ status' = "awaiting_payment"
  /\ UNCHANGED <<paid, result, charged>>

\* §4.8: the user pays the order of a job awaiting payment.
Charge ==
  /\ status = "awaiting_payment" /\ ~charged /\ Fee > 0
  /\ charged' = TRUE
  /\ UNCHANGED <<status, paid, result>>

\* §4.7 steps 4-5, §4.8 and invariant 1: the result is released only when
\* it is stored and paid for (or free), and the payment is recorded.
Release ==
  /\ status \in Open /\ result
  /\ paid \/ charged \/ Fee = 0
  /\ status' = "ready" /\ paid' = TRUE
  /\ UNCHANGED <<result, charged>>

\* §4.9: the user cancels an unpaid job.
Cancel ==
  /\ status \in Open /\ ~paid
  /\ status' = "cancelled"
  /\ UNCHANGED <<paid, result, charged>>

DesignNext ==
  \/ Create \/ Produce \/ Mark \/ Fail \/ RequestPayment \/ Charge
  \/ Release \/ Cancel

(* The departures.  Each breaks invariant 3 or §4.9 and is the finding of
   a run of MCJobPipeline. *)

\* cancel_overwritten: a failure path overwrites "cancelled".
FailCancelled ==
  /\ status = "cancelled"
  /\ status' = "failed"
  /\ UNCHANGED <<paid, result, charged>>

\* cancelled_paid: the user pays a code shown before the cancel ...
ChargeCancelled ==
  /\ status = "cancelled" /\ ~charged /\ Fee > 0
  /\ charged' = TRUE
  /\ UNCHANGED <<status, paid, result>>

\* ... and the notification records the payment on the cancelled job.
PayCancelled ==
  /\ status = "cancelled" /\ charged /\ ~paid
  /\ paid' = TRUE
  /\ UNCHANGED <<status, result, charged>>

\* ready_reopened: with no fee, a failure lands after the release.
FailReady ==
  /\ status = "ready" /\ Fee = 0
  /\ status' = "failed"
  /\ UNCHANGED <<paid, result, charged>>

Departure == FailCancelled \/ ChargeCancelled \/ PayCancelled \/ FailReady

Next == DesignNext \/ Departure

Spec == Init /\ [][Next]_lcvars

\* The design alone.
DesignSpec == Init /\ [][DesignNext]_lcvars
=============================================================================
