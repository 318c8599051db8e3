------------------------------ MODULE JobStore ------------------------------
(***************************************************************************)
(* The compare-job record kept by the job store (domain.CompareJob and     *)
(* store.RedisCompareJobStore) and the mutator closures that the handlers  *)
(* pass to CompareJobStore.Update.                                         *)
(*                                                                         *)
(* Data is abstracted to what the properties tell apart:                   *)
(*   status  the CompareJobStatus, or Absent when Get returns ok = false;  *)
(*   paid    CompareJob.Paid;                                              *)
(*   result  ResultOSSKey # "" (hasResult);                                *)
(*   code    CodeURL # "";                                                 *)
(*   amount  AmountYuan * 100 in fen (the notify handler's expectedFen).   *)
(* Timestamps, file names, error strings and OSS keys are left out.       *)
(***************************************************************************)
EXTENDS Naturals

CONSTANT Fee    \* COMPARE_JOB_FEE_FEN as returned by FeeFen()

\* FeeFen() returns a non-negative integer (0 when unset or invalid).
ASSUME FeeAssumption == Fee \in Nat

Statuses == {"processing", "awaiting_payment", "ready", "failed", "cancelled"}
Absent == "absent"

Job == [status : Statuses \cup {Absent}, paid : BOOLEAN, result : BOOLEAN,
        code : BOOLEAN, amount : 0..Fee]

\* No record under the job's key: Get and Update return ok = false.
NoJob == [status |-> Absent, paid |-> FALSE, result |-> FALSE,
          code |-> FALSE, amount |-> 0]

\* The record handleCreateJob builds before store.Create.
NewJob == [NoJob EXCEPT !.status = "processing"]

\* RedisCompareJobStore.Create: SETNX, so an existing record is kept.
CreateNX(j) == IF j.status = Absent THEN NewJob ELSE j

\* Update(id, fn): a missing key is left alone, otherwise fn's result is
\* written back in one WATCH/MULTI transaction.
Update(j, new) == IF j.status = Absent THEN j ELSE new

Terminal(j) == j.status \in {Absent, "cancelled", "ready", "failed"}

\* Worker.fail / paygate Worker.fail / the intake's enqueue-failure closure:
\* status <- failed, whatever the record says.
FailJob(j) == [j EXCEPT !.status = "failed"]

\* compare Worker.Process "Mark as processing (best-effort)".
MarkProcessing(j) ==
  IF j.status = "cancelled" THEN j ELSE [j EXCEPT !.status = "processing"]

\* compare Worker.Process "Persist result location early".
PersistResult(j) ==
  IF j.status = "cancelled" THEN j ELSE [j EXCEPT !.result = TRUE]

\* paygate Worker.Process, "If payment already confirmed, release".
ReleasePaid(j) ==
  IF j.status = "cancelled" THEN j
  ELSE [j EXCEPT !.status = "ready", !.result = TRUE, !.amount = 0,
                 !.code = FALSE]

\* Mutant: the free path forgets to set Paid.
ReleaseFreeUnpaid(j) ==
  IF j.status = "cancelled" THEN j
  ELSE [j EXCEPT !.status = "ready", !.result = TRUE, !.amount = 0,
                 !.code = FALSE]

\* paygate Worker.Process, free path (feeFen <= 0).
ReleaseFree(j) ==
  IF j.status = "cancelled" THEN j
  ELSE [j EXCEPT !.paid = TRUE, !.status = "ready", !.result = TRUE,
                 !.amount = 0, !.code = FALSE]

\* Mutant: AmountYuan stored in fen, read back *100 as fen.
AwaitPaymentFenAsYuan(j) ==
  IF j.status = "cancelled" \/ j.paid THEN j
  ELSE [j EXCEPT !.status = "awaiting_payment", !.result = TRUE,
                 !.amount = Fee * 100, !.code = TRUE]

\* paygate Worker.Process after CreateNativeOrder succeeded.
AwaitPayment(j) ==
  IF j.status = "cancelled" \/ j.paid THEN j
  ELSE [j EXCEPT !.status = "awaiting_payment", !.result = TRUE,
                 !.amount = Fee, !.code = TRUE]

\* Mutant: the release branch builds on the unpaid record.
NotifyPaidForgetsPaid(j) ==
  LET p == [j EXCEPT !.paid = TRUE]
  IN  IF j.paid THEN j
      ELSE IF j.result /\ j.status \in {"awaiting_payment", "processing"}
           THEN [j EXCEPT !.status = "ready", !.amount = 0, !.code = FALSE]
      ELSE IF j.status = "awaiting_payment"
           THEN [p EXCEPT !.status = "processing"]
      ELSE p

\* Mutant: the release branch only considers "processing".
NotifyPaidMissingAwaiting(j) ==
  LET p == [j EXCEPT !.paid = TRUE]
  IN  IF j.paid THEN j
      ELSE IF j.result /\ j.status = "processing"
           THEN [p EXCEPT !.status = "ready", !.amount = 0, !.code = FALSE]
      ELSE p

\* notifyHandler.handle's closure: record the payment, release the result
\* if it exists, otherwise leave awaiting_payment.
NotifyPaid(j) ==
  LET p == [j EXCEPT !.paid = TRUE]
  IN  IF j.paid THEN j
      ELSE IF j.result /\ j.status \in {"awaiting_payment", "processing"}
           THEN [p EXCEPT !.status = "ready", !.amount = 0, !.code = FALSE]
      ELSE IF j.status = "awaiting_payment"
           THEN [p EXCEPT !.status = "processing"]
      ELSE p

\* Mutant: cancel without the paid re-check.
CancelJobUnguarded(j) == [j EXCEPT !.status = "cancelled"]

\* handleCancelJob's closure: a concurrent payment wins.
CancelJob(j) == IF j.paid THEN j ELSE [j EXCEPT !.status = "cancelled"]

\* notifyHandler.handle: expectedFen = round(AmountYuan * 100), and 1 when
\* that is not positive.
ExpectedFen(j) == IF j.amount = 0 THEN 1 ELSE j.amount
=============================================================================
