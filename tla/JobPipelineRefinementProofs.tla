--------------------- MODULE JobPipelineRefinementProofs ---------------------
(***************************************************************************)
(* Proof that the pipeline implements the job life cycle of JobLifecycle  *)
(* under the mapping of JobPipeline's Lifecycle instance: every initial   *)
(* state maps to the initial state, and every step maps to a step of the  *)
(* spec §3 life cycle, to one of the departures JobLifecycle lists, or    *)
(* leaves the record's status, payment and result, and whether the order  *)
(* is paid, unchanged.                                                    *)
(***************************************************************************)
EXTENDS JobPipelineSafetyProofs

\* Until the intake's XADD nothing else has happened: the streams are
\* empty, every handler idle and no code shown.
BeforeEnqueue ==
  itk \in {"create", "enqueue"} =>
    /\ cq = << >> /\ pq = << >>
    /\ \A w \in CW : cw[w].pc = "idle"
    /\ \A w \in PW : pw[w].pc = "idle"
    /\ ~codeShown

\* The workers fail only jobs that showed no code, so a failed job that
\* showed one was failed by the intake's failure Update, whose reply was
\* the 502: nobody has the job id to pay with.
FailedShown == codeShown /\ job.status = "failed" => itk = "err"

\* The inductive invariant behind the refinement.
LcInv == RInv /\ AInv /\ PayInv /\ BeforeEnqueue /\ FailedShown
-----------------------------------------------------------------------------
(* LcInv is inductive. *)

LEMMA BeforeEnqueueInit == Init => BeforeEnqueue
BY DEF Init, BeforeEnqueue, Idle

\* Until the XADD the streams are empty, so no handler can take an entry,
\* and every other actor waits for something that has not happened.
LEMMA BeforeEnqueueNext ==
  TypeOK /\ BeforeEnqueue /\ [Next]_vars => BeforeEnqueue'
<1> SUFFICES ASSUME TypeOK, BeforeEnqueue, [Next]_vars,
                    itk' \in {"create", "enqueue"}
             PROVE  /\ cq' = << >> /\ pq' = << >>
                    /\ \A w \in CW : cw'[w].pc = "idle"
                    /\ \A w \in PW : pw'[w].pc = "idle"
                    /\ ~codeShown'
  BY DEF BeforeEnqueue
\* The conclusion holds in a state of the intake before its XADD.
<1>a. ASSUME itk \in {"create", "enqueue"}
      PROVE  /\ cq = << >> /\ pq = << >>
             /\ \A w \in CW : cw[w].pc = "idle"
             /\ \A w \in PW : pw[w].pc = "idle"
             /\ ~codeShown
  BY <1>a DEF BeforeEnqueue
\* An empty stream has no entry to deliver or to claim.
<1>e. OldestNew(<< >>) = {} /\ PendingEntries(<< >>) = {}
  BY DEF OldestNew, Undelivered, PendingEntries
<1>1. CASE IntakeStep
  <2>1. ICreate
    BY <1>1 DEF IntakeStep, IEnqueueOk, IEnqueueErr, IFail
  <2> QED
    BY <2>1, <1>a DEF ICreate
<1>2. ASSUME NEW w \in CW, ComputeStep(w) PROVE FALSE
  <2>1. itk' = itk
    BY <1>2 DEF ComputeStep, CDeliver, CClaim, CLockAcquired, CLockBusy, CGet,
                CMark, CWorkOk, CWorkFail, CPersist, CReget, CEnqueueOk,
                CEnqueueErr, CReturn
  <2>2. cq = << >> /\ cw[w].pc = "idle"
    BY <2>1, <1>a
  <2>3. CDeliver(w) \/ CClaim(w)
    BY <1>2, <2>2 DEF ComputeStep, CLockAcquired, LockAcquired, CLockBusy,
                      LockBusy, CGet, CMark, CWorkOk, CWorkFail, CPersist,
                      CReget, CEnqueueOk, CEnqueueErr, CReturn, Return1
  <2> QED
    BY <2>2, <2>3, <1>e DEF CDeliver, Deliver1, CClaim, Claim1
<1>3. ASSUME NEW w \in PW, PaygateStep(w) PROVE FALSE
  <2>1. itk' = itk
    BY <1>3 DEF PaygateStep, PDeliver, PClaim, PLockAcquired, PLockBusy, PGet,
                PRelease, PFree, POrderOk, POrderErr, PApply, PFail, PReturn
  <2>2. pq = << >> /\ pw[w].pc = "idle"
    BY <2>1, <1>a
  <2>3. PDeliver(w) \/ PClaim(w)
    BY <1>3, <2>2 DEF PaygateStep, PLockAcquired, LockAcquired, PLockBusy,
                      LockBusy, PGet, PRelease, PFree, POrderOk, POrderErr,
                      PApply, PFail, PReturn, Return1
  <2> QED
    BY <2>2, <2>3, <1>e DEF PDeliver, Deliver1, PClaim, Claim1
<1>4. ASSUME NEW w \in Workers, Crash(w) PROVE FALSE
  <2>1. itk' = itk
    BY <1>4 DEF Crash
  <2> QED
    BY <2>1, <1>a, <1>4 DEF Crash, Workers
<1>5. CASE \/ \E k \in LeaseKeys : LeaseExpire(k)
           \/ Pay \/ NDeliver \/ NReject \/ NAccept \/ NUpdate
           \/ KStart \/ KCloseOk \/ KCloseErr \/ KUpdate \/ UNCHANGED vars
  <2>1. UNCHANGED <<itk, cq, pq, cw, pw, codeShown>>
    BY <1>5 DEF LeaseExpire, Pay, NDeliver, NReject, NAccept, NUpdate, KStart,
                KCloseOk, KCloseErr, KUpdate, vars
  <2> QED
    BY <2>1, <1>a
<1> QED
  BY <1>1, <1>2, <1>3, <1>4, <1>5 DEF Next

\* A worker fails a job only on a stage that read it without a code, the
\* paygate's code goes onto an unpaid job it takes to "awaiting_payment",
\* and the intake fails a job before its XADD never, so after its enqueue
\* error only.
LEMMA FailedShownNext ==
  ASSUME LcInv, [Next]_vars
  PROVE  FailedShown'
<1>a. /\ job \in Job /\ cw \in [CW -> Handler] /\ pw \in [PW -> Handler]
      /\ ComputeStage /\ PayStage /\ CodeInv /\ PayInv /\ BeforeEnqueue
      /\ FailedShown
  BY DEF LcInv, RInv, IInv, TypeOK, Stages
\* A step that shows no code, leaves the intake alone and fails no job.
<1>b. ASSUME codeShown' = codeShown, itk' = itk,
             job'.status = "failed" => job.status = "failed"
      PROVE  FailedShown'
  BY <1>b, <1>a DEF FailedShown
\* A step taken while no code is shown and that shows none.
<1>c. ASSUME ~codeShown, codeShown' = codeShown
      PROVE  FailedShown'
  BY <1>c DEF FailedShown
<1>1. CASE IntakeStep
  <2>1. CASE IFail
    BY <2>1 DEF IFail, FailedShown
  <2>2. CASE ICreate \/ IEnqueueOk \/ IEnqueueErr
    <3>1. itk \in {"create", "enqueue"} /\ codeShown' = codeShown
      BY <2>2 DEF ICreate, IEnqueueOk, IEnqueueErr
    <3> QED
      BY <3>1, <1>a, <1>c DEF BeforeEnqueue
  <2> QED
    BY <1>1, <2>1, <2>2 DEF IntakeStep
<1>2. ASSUME NEW w \in CW, ComputeStep(w) PROVE FailedShown'
  <2>0. codeShown' = codeShown /\ itk' = itk
    BY <1>2 DEF ComputeStep, CDeliver, CClaim, CLockAcquired, CLockBusy, CGet,
                CMark, CWorkOk, CWorkFail, CPersist, CReget, CEnqueueOk,
                CEnqueueErr, CReturn
  \* The failing compare-worker read the job without a result.
  <2>1. CASE CWorkFail(w)
    <3>1. ~codeShown
      BY <2>1, <1>a DEF CWorkFail, ComputeStage, CodeInv, ComputePcs
    <3> QED
      BY <3>1, <2>0, <1>c
  <2>2. CASE ~CWorkFail(w)
    <3>1. \/ job' = job
          \/ job' = Update(job, MarkProcessing(job))
          \/ job' = Update(job, PersistResult(job))
      BY <1>2, <2>2 DEF ComputeStep, CDeliver, CClaim, CLockAcquired,
                        CLockBusy, CGet, CMark, CWorkOk, CPersist, CReget,
                        CEnqueueOk, CEnqueueErr, CReturn
    <3>2. job'.status = "failed" => job.status = "failed"
      BY <3>1, <1>a DEF Update, MarkProcessing, PersistResult, Job
    <3> QED
      BY <3>2, <2>0, <1>b
  <2> QED
    BY <2>1, <2>2
<1>3. ASSUME NEW w \in PW, PaygateStep(w) PROVE FailedShown'
  <2>0. itk' = itk
    BY <1>3 DEF PaygateStep, PDeliver, PClaim, PLockAcquired, PLockBusy, PGet,
                PRelease, PFree, POrderOk, POrderErr, PApply, PFail, PReturn
  \* The code goes onto an unpaid job: a paid one would have an order
  \* paid with a code already shown.
  <2>1. CASE PApply(w)
    <3>1. pw[w].pc = "apply" /\ job' = Update(job, AwaitPayment(job))
      BY <2>1 DEF PApply
    <3>2. ~codeShown /\ Fee # 0
      BY <3>1, <1>a DEF PayStage, PayInv, OrderPcs
    <3>3. ~job.paid
      BY <3>2, <1>a DEF PayInv, CodeInv
    <3>4. job'.status # "failed"
      BY <3>1, <3>3, <1>a DEF Update, AwaitPayment, Job, Absent
    <3> QED
      BY <3>4 DEF FailedShown
  <2>2. CASE PFail(w)
    <3>1. pw[w].pc = "fail" /\ codeShown' = codeShown
      BY <2>2 DEF PFail
    <3>2. ~codeShown
      BY <3>1, <1>a DEF PayStage, OrderPcs
    <3> QED
      BY <3>1, <3>2, <1>c
  <2>3. CASE ~PApply(w) /\ ~PFail(w)
    <3>1. /\ codeShown' = codeShown
          /\ \/ job' = job
             \/ job' = Update(job, ReleasePaid(job))
             \/ job' = Update(job, ReleaseFree(job))
      BY <1>3, <2>3 DEF PaygateStep, PDeliver, PClaim, PLockAcquired,
                        PLockBusy, PGet, PRelease, PFree, POrderOk, POrderErr,
                        PReturn
    <3>2. job'.status = "failed" => job.status = "failed"
      BY <3>1, <1>a DEF Update, ReleasePaid, ReleaseFree, Job
    <3> QED
      BY <3>1, <3>2, <2>0, <1>b
  <2> QED
    BY <2>1, <2>2, <2>3
<1>4. CASE \/ \E w \in Workers : Crash(w)
           \/ \E k \in LeaseKeys : LeaseExpire(k)
           \/ Pay \/ NDeliver \/ NReject \/ NAccept \/ NUpdate
           \/ KStart \/ KCloseOk \/ KCloseErr \/ KUpdate \/ UNCHANGED vars
  <2>1. /\ codeShown' = codeShown /\ itk' = itk
        /\ \/ job' = job
           \/ job' = Update(job, NotifyPaid(job))
           \/ job' = Update(job, CancelJob(job))
    BY <1>4 DEF Crash, LeaseExpire, Pay, NDeliver, NReject, NAccept, NUpdate,
                KStart, KCloseOk, KCloseErr, KUpdate, vars
  <2>2. job'.status = "failed" => job.status = "failed"
    BY <2>1, <1>a DEF Update, NotifyPaid, CancelJob, Job
  <2> QED
    BY <2>1, <2>2, <1>b
<1> QED
  BY <1>1, <1>2, <1>3, <1>4 DEF Next

LEMMA LcInvInit == Init => LcInv
BY RInvInit, AInvInit, PayInvInit, BeforeEnqueueInit
DEF LcInv, Init, FailedShown

\* LcInv is inductive when the refresher keeps the leases.
LEMMA LcInvNext ==
  ASSUME ~RefreshFaults
  PROVE  LcInv /\ [Next]_vars => LcInv'
<1> SUFFICES ASSUME LcInv, [Next]_vars PROVE LcInv'
  OBVIOUS
<1>1. RInv' /\ AInv' /\ PayInv'
  BY RInvNext, AInvNext, PayInvNext DEF LcInv
<1>2. BeforeEnqueue'
  BY BeforeEnqueueNext DEF LcInv, PayInv
<1>3. FailedShown'
  BY FailedShownNext
<1> QED
  BY <1>1, <1>2, <1>3 DEF LcInv
-----------------------------------------------------------------------------
(* Every step maps to a life-cycle step, a departure or a stutter. *)

\* The mapped life-cycle state is left as it is.
LcSame ==
  /\ job'.status = job.status /\ job'.paid = job.paid
  /\ job'.result = job.result /\ (order' = "paid") = (order = "paid")

\* A step of the spec §3 life cycle, a departure, or a stutter.
LcMoves ==
  \/ Lifecycle!Create \/ Lifecycle!Produce \/ Lifecycle!Mark
  \/ Lifecycle!Fail \/ Lifecycle!RequestPayment \/ Lifecycle!Charge
  \/ Lifecycle!Release \/ Lifecycle!Cancel
  \/ Lifecycle!FailCancelled \/ Lifecycle!ChargeCancelled
  \/ Lifecycle!PayCancelled \/ Lifecycle!FailReady
  \/ LcSame

LEMMA LcMovesStep == LcMoves => [Lifecycle!Next]_Lifecycle!lcvars
BY DEF LcMoves, LcSame, Lifecycle!Next, Lifecycle!DesignNext,
       Lifecycle!Departure, Lifecycle!lcvars

\* The failure closure (a worker's or the intake's): Fail on an open job,
\* FailCancelled on a cancelled one, FailReady on a released one at a zero
\* fee, nothing on a missing one.
LEMMA FailMoves ==
  ASSUME job \in Job, job' = Update(job, FailJob(job)), order' = order,
         job.status = "ready" => Fee = 0
  PROVE  LcMoves
<1>1. CASE job.status \in Lifecycle!Open
  <2>1. Lifecycle!Fail
    BY <1>1 DEF Lifecycle!Fail, Lifecycle!Open, Update, FailJob, Job, Absent
  <2> QED
    BY <2>1 DEF LcMoves
<1>2. CASE job.status = "cancelled"
  <2>1. Lifecycle!FailCancelled
    BY <1>2 DEF Lifecycle!FailCancelled, Update, FailJob, Job, Absent
  <2> QED
    BY <2>1 DEF LcMoves
<1>3. CASE job.status = "ready"
  <2>1. Lifecycle!FailReady
    BY <1>3 DEF Lifecycle!FailReady, Update, FailJob, Job, Absent
  <2> QED
    BY <2>1 DEF LcMoves
<1>4. CASE job.status = Absent
  BY <1>4 DEF Update, LcMoves, LcSame
<1> QED
  BY <1>1, <1>2, <1>3, <1>4 DEF Lifecycle!Open, Job, Statuses

\* The compare-worker's steps.
LEMMA RefCompute ==
  ASSUME LcInv, NEW w \in CW, ComputeStep(w)
  PROVE  LcMoves
<1>a. /\ job \in Job /\ ComputeStage /\ AwaitingImpliesOrder
      /\ ReadyImpliesPaidAndResult
  BY DEF LcInv, RInv, AInv, IInv, TypeOK, Stages
<1>b. order' = order
  BY DEF ComputeStep, CDeliver, CClaim, CLockAcquired, CLockBusy, CGet,
         CMark, CWorkOk, CWorkFail, CPersist, CReget, CEnqueueOk,
         CEnqueueErr, CReturn
<1>1. CASE CDeliver(w) \/ CClaim(w) \/ CLockAcquired(w) \/ CLockBusy(w)
           \/ CGet(w) \/ CWorkOk(w) \/ CReget(w) \/ CEnqueueOk(w)
           \/ CEnqueueErr(w) \/ CReturn(w)
  <2>1. job' = job
    BY <1>1 DEF CDeliver, CClaim, CLockAcquired, CLockBusy, CGet, CWorkOk,
                CReget, CEnqueueOk, CEnqueueErr, CReturn
  <2> QED
    BY <2>1, <1>b DEF LcMoves, LcSame
\* A computing stage read the job without a result, and no result was
\* stored since: the job is neither awaiting payment nor ready.
<1>c. ASSUME cw[w].pc \in ComputePcs
      PROVE  ~job.result /\ job.status \notin {"awaiting_payment", "ready"}
  BY <1>c, <1>a DEF ComputeStage, AwaitingImpliesOrder,
                    ReadyImpliesPaidAndResult
\* Mark and persist: on an open job Mark and Produce, on a cancelled or
\* missing one nothing.
<1>2. CASE CMark(w) \/ CPersist(w)
  <2>1. /\ cw[w].pc \in ComputePcs
        /\ \/ job' = Update(job, MarkProcessing(job))
           \/ job' = Update(job, PersistResult(job))
    BY <1>2 DEF CMark, CPersist, ComputePcs
  <2>2. ~job.result /\ job.status \notin {"awaiting_payment", "ready"}
    BY <2>1, <1>c
  <2>3. CASE job.status \in {"cancelled", Absent}
    BY <2>1, <2>3, <1>a, <1>b DEF Update, MarkProcessing, PersistResult,
                                  LcMoves, LcSame
  <2>4. CASE job.status \in {"processing", "failed"}
             /\ job' = Update(job, MarkProcessing(job))
    <3>1. Lifecycle!Mark
      BY <2>2, <2>4, <1>a, <1>b DEF Lifecycle!Mark, Lifecycle!Open, Update,
                                    MarkProcessing, Job, Absent
    <3> QED
      BY <3>1 DEF LcMoves
  <2>5. CASE job.status \in {"processing", "failed"}
             /\ job' = Update(job, PersistResult(job))
    <3>1. Lifecycle!Produce
      BY <2>2, <2>5, <1>a, <1>b DEF Lifecycle!Produce, Lifecycle!Open,
                                    Update, PersistResult, Job, Absent
    <3> QED
      BY <3>1 DEF LcMoves
  <2> QED
    BY <2>1, <2>2, <2>3, <2>4, <2>5, <1>a DEF Job, Statuses
<1>3. CASE CWorkFail(w)
  <2>1. cw[w].pc = "work" /\ job' = Update(job, FailJob(job))
    BY <1>3 DEF CWorkFail
  <2>2. job.status # "ready"
    BY <2>1, <1>c DEF ComputePcs
  <2> QED
    BY <2>1, <2>2, <1>a, <1>b, FailMoves
<1> QED
  BY <1>1, <1>2, <1>3 DEF ComputeStep

\* The payment-worker's steps.
LEMMA RefPaygate ==
  ASSUME LcInv, NEW w \in PW, PaygateStep(w)
  PROVE  LcMoves
<1>a. /\ job \in Job /\ PayStage /\ PayInv /\ CodeInv
      /\ ReleaseSeesPaid /\ ReadyImpliesPaidAndResult
  BY DEF LcInv, RInv, IInv, TypeOK, Stages
<1>f. Fee \in Nat
  BY FeeAssumption
<1>1. CASE PDeliver(w) \/ PClaim(w) \/ PLockAcquired(w) \/ PLockBusy(w)
           \/ PGet(w) \/ PReturn(w)
  <2>1. job' = job /\ order' = order
    BY <1>1 DEF PDeliver, PClaim, PLockAcquired, PLockBusy, PGet, PReturn
  <2> QED
    BY <2>1 DEF LcMoves, LcSame
\* The order call never touches a paid order.
<1>2. CASE POrderOk(w) \/ POrderErr(w)
  <2>1. job' = job /\ (order' = "paid") = (order = "paid")
    BY <1>2 DEF POrderOk, POrderErr
  <2> QED
    BY <2>1 DEF LcMoves, LcSame
\* Release on a job with a result that is paid for or free: on an open
\* job it is the life cycle's Release, on a cancelled or ready one the
\* closure changes nothing the life cycle sees.
<1>3. CASE PRelease(w) \/ PFree(w)
  <2>1. /\ pw[w].pc \in {"release", "free"} /\ order' = order
        /\ \/ job' = Update(job, ReleasePaid(job)) /\ pw[w].pc = "release"
           \/ job' = Update(job, ReleaseFree(job)) /\ pw[w].pc = "free"
    BY <1>3 DEF PRelease, PFree
  <2>2. /\ job.result /\ job.status # Absent
        /\ pw[w].pc = "release" => job.paid
        /\ pw[w].pc = "free" => Fee = 0
    BY <2>1, <1>a DEF PayStage, PaidPcs, ReleaseSeesPaid, CodeInv, PayInv
  <2>3. CASE job.status \in Lifecycle!Open
    <3>1. Lifecycle!Release
      BY <2>1, <2>2, <2>3, <1>a
      DEF Lifecycle!Release, Lifecycle!Open, Update, ReleasePaid, ReleaseFree,
          Job, Absent
    <3> QED
      BY <3>1 DEF LcMoves
  <2>4. CASE job.status \in {"cancelled", "ready"}
    BY <2>1, <2>2, <2>4, <1>a
    DEF Update, ReleasePaid, ReleaseFree, Job, Absent, LcMoves, LcSame,
        ReadyImpliesPaidAndResult
  <2> QED
    BY <2>2, <2>3, <2>4, <1>a DEF Lifecycle!Open, Job, Statuses
\* The code is persisted: on an unpaid open job, with its result at a
\* non-zero fee, it is the life cycle's RequestPayment; a paid, cancelled
\* or missing job is left alone.
<1>4. CASE PApply(w)
  <2>1. /\ pw[w].pc = "apply" /\ order' = order
        /\ job' = Update(job, AwaitPayment(job))
    BY <1>4 DEF PApply
  <2>2. Fee # 0 /\ job.result
    BY <2>1, <1>a DEF PayStage, PayInv, OrderPcs, PaidPcs
  <2>3. CASE ~job.paid /\ job.status \notin {"cancelled", Absent}
    <3>1. job.status \in Lifecycle!Open
      BY <2>3, <1>a DEF Lifecycle!Open, ReadyImpliesPaidAndResult, Job,
                        Statuses
    <3>2. /\ job'.status = "awaiting_payment"
          /\ job'.paid = job.paid /\ job'.result = job.result
      BY <2>1, <2>2, <2>3, <1>a DEF Update, AwaitPayment, Job, Absent
    <3>3. Lifecycle!RequestPayment
      BY <2>1, <2>2, <2>3, <3>1, <3>2, <1>f DEF Lifecycle!RequestPayment
    <3> QED
      BY <3>3 DEF LcMoves
  <2>4. CASE job.paid \/ job.status \in {"cancelled", Absent}
    BY <2>1, <2>4, <1>a DEF Update, AwaitPayment, LcMoves, LcSame
  <2> QED
    BY <2>3, <2>4
\* The order failed on a job the stage read unreleased.
<1>5. CASE PFail(w)
  <2>1. /\ pw[w].pc = "fail" /\ order' = order
        /\ job' = Update(job, FailJob(job))
    BY <1>5 DEF PFail
  <2>2. job.status # "ready"
    BY <2>1, <1>a DEF PayStage, OrderPcs
  <2> QED
    BY <2>1, <2>2, <1>a, FailMoves
<1> QED
  BY <1>1, <1>2, <1>3, <1>4, <1>5 DEF PaygateStep

\* The intake, crashes, lease expiry, the user, the provider and the
\* cancel handler.
LEMMA RefEnv ==
  ASSUME LcInv,
         \/ IntakeStep
         \/ \E w \in Workers : Crash(w)
         \/ \E k \in LeaseKeys : LeaseExpire(k)
         \/ Pay \/ NDeliver \/ NReject \/ NAccept \/ NUpdate
         \/ KStart \/ KCloseOk \/ KCloseErr \/ KUpdate
         \/ UNCHANGED vars
  PROVE  LcMoves
<1>a. /\ job \in Job /\ PayInv /\ CodeInv /\ FailedShown
      /\ ReadyImpliesPaidAndResult
  BY DEF LcInv, RInv, IInv, TypeOK
<1>f. Fee \in Nat
  BY FeeAssumption
\* SETNX creates the job; the failure Update, which runs before any 200
\* reply and so before any order is paid, fails a ready job only at a
\* zero fee.
<1>1. CASE IntakeStep
  <2>1. CASE job' = job
    BY <1>1, <2>1, IntakeFrame DEF LcMoves, LcSame
  <2>2. CASE job.status = Absent /\ job' = NewJob
    <3>1. ~job.paid /\ ~job.result
      BY <2>2, <1>a DEF PayInv, CodeInv
    <3>2. job'.status = "processing" /\ job'.paid = FALSE /\ job'.result = FALSE
      BY <2>2 DEF NewJob, NoJob
    <3>3. order' = order
      BY <1>1, IntakeFrame
    <3>4. job'.paid = job.paid /\ job'.result = job.result
      BY <3>1, <3>2, <1>a DEF Job
    <3>5. Lifecycle!Create
      BY <2>2, <3>2, <3>3, <3>4
      DEF Lifecycle!Create, Lifecycle!Absent, Absent
    <3> QED
      BY <3>5 DEF LcMoves
  <2>3. CASE job' = Update(job, FailJob(job))
    <3>1. job.status = "ready" => Fee = 0
      BY <1>1, <1>a, IntakeFrame DEF PayInv, ReadyImpliesPaidAndResult
    <3> QED
      BY <1>1, <2>3, <3>1, <1>a, IntakeFrame, FailMoves
  <2> QED
    BY <1>1, <2>1, <2>2, <2>3, IntakeFrame
<1>2. CASE \/ \E w \in Workers : Crash(w)
           \/ \E k \in LeaseKeys : LeaseExpire(k)
           \/ NDeliver \/ NReject \/ NAccept \/ KStart \/ KCloseErr
           \/ UNCHANGED vars
  <2>1. job' = job /\ order' = order
    BY <1>2 DEF Crash, LeaseExpire, NDeliver, NReject, NAccept, KStart,
                KCloseErr, vars
  <2> QED
    BY <2>1 DEF LcMoves, LcSame
\* Closing an order never touches a paid one.
<1>3. CASE KCloseOk
  <2>1. job' = job /\ order # "paid" /\ order' # "paid"
    BY <1>3 DEF KCloseOk
  <2> QED
    BY <2>1 DEF LcMoves, LcSame
\* The user, who had the intake's 200, pays an open order whose code was
\* shown: the job is awaiting payment, or was cancelled after the code
\* was shown (a failed job that showed a code had the intake's 502).
<1>4. CASE Pay
  <2>1. /\ itk = "ok" /\ order = "open" /\ codeShown
        /\ order' = "paid" /\ job' = job
    BY <1>4 DEF Pay
  <2>2. Fee # 0 /\ ~job.paid
    BY <2>1, <1>a DEF PayInv
  <2>3. job.status \in {"awaiting_payment", "cancelled"}
    BY <2>1, <2>2, <1>a DEF CodeInv, FailedShown, Terminal,
                            ReadyImpliesPaidAndResult
  <2>4. CASE job.status = "awaiting_payment"
    <3>1. Lifecycle!Charge
      BY <2>1, <2>2, <2>4, <1>f DEF Lifecycle!Charge
    <3> QED
      BY <3>1 DEF LcMoves
  <2>5. CASE job.status = "cancelled"
    <3>1. Lifecycle!ChargeCancelled
      BY <2>1, <2>2, <2>5, <1>f DEF Lifecycle!ChargeCancelled
    <3> QED
      BY <3>1 DEF LcMoves
  <2> QED
    BY <2>3, <2>4, <2>5
\* The notify closure, for a paid order whose code was shown: it releases
\* a job in processing or awaiting, records the payment on a cancelled
\* one, and leaves a paid one alone.
<1>5. CASE NUpdate
  <2>1. /\ ntf.pc = "update" /\ order' = order
        /\ job' \in {job, Update(job, NotifyPaid(job))}
    BY <1>5 DEF NUpdate
  <2>2. /\ order = "paid" /\ codeShown /\ job.result
        /\ job.status \notin {"failed", Absent}
    BY <2>1, <1>a DEF CodeInv, PayInv, FailedShown
  <2>3. CASE job' = job \/ job.paid
    BY <2>1, <2>3, <1>a DEF Update, NotifyPaid, LcMoves, LcSame
  <2>4. CASE job' = Update(job, NotifyPaid(job)) /\ ~job.paid
              /\ job.status \in {"processing", "awaiting_payment"}
    <3>1. Lifecycle!Release
      BY <2>1, <2>2, <2>4, <1>a
      DEF Lifecycle!Release, Lifecycle!Open, Update, NotifyPaid, Job, Absent
    <3> QED
      BY <3>1 DEF LcMoves
  <2>5. CASE job' = Update(job, NotifyPaid(job)) /\ ~job.paid
              /\ job.status \notin {"processing", "awaiting_payment"}
    <3>1. job.status = "cancelled"
      BY <2>2, <2>5, <1>a DEF ReadyImpliesPaidAndResult, Job, Statuses,
                              Absent
    <3>2. Lifecycle!PayCancelled
      BY <2>1, <2>2, <2>5, <3>1, <1>a
      DEF Lifecycle!PayCancelled, Update, NotifyPaid, Job, Absent
    <3> QED
      BY <3>2 DEF LcMoves
  <2> QED
    BY <2>1, <2>3, <2>4, <2>5
\* The cancel closure cancels an unpaid job; a paid, cancelled or missing
\* one is left as the life cycle sees it.
<1>6. CASE KUpdate
  <2>1. job' = Update(job, CancelJob(job)) /\ order' = order
    BY <1>6 DEF KUpdate
  <2>2. CASE job.paid \/ job.status \in {"cancelled", Absent}
    BY <2>1, <2>2, <1>a DEF Update, CancelJob, LcMoves, LcSame
  <2>3. CASE ~job.paid /\ job.status \notin {"cancelled", Absent}
    <3>1. job.status \in Lifecycle!Open
      BY <2>3, <1>a DEF Lifecycle!Open, ReadyImpliesPaidAndResult, Job,
                        Statuses, Absent
    <3>2. Lifecycle!Cancel
      BY <2>1, <2>3, <3>1, <1>a DEF Lifecycle!Cancel, Update, CancelJob, Job,
                                    Absent
    <3> QED
      BY <3>2 DEF LcMoves
  <2> QED
    BY <2>2, <2>3
<1> QED
  BY <1>1, <1>2, <1>3, <1>4, <1>5, <1>6

\* The pipeline, when the refresher keeps the leases, implements the job
\* life cycle of JobLifecycle: its initial state is the life cycle's, and
\* each of its steps (handlers acting on records read steps earlier,
\* racing one another and the intake, crashing, and the provider's
\* retried notifications) is a step of the spec §3 life cycle, one of the
\* four departures JobLifecycle lists (a failure over "cancelled", the
\* payment of a cancelled job and its notification, and at a zero fee the
\* intake's failure over "ready"), or leaves the record's status, payment
\* and result and the order's payment unchanged.  No other departure
\* exists.  With failing refreshes a compare-worker can reopen a ready job
\* (configuration ready_lapse), which no step of JobLifecycle allows.
THEOREM Refinement ==
  ASSUME ~RefreshFaults
  PROVE  Spec => LifecycleSpec
<1>1. Init => Lifecycle!Init
  BY DEF Init, Lifecycle!Init, Lifecycle!Absent, NoJob, Absent
<1>2. Spec => []LcInv
  BY LcInvInit, LcInvNext, PTL DEF Spec
<1>3. LcInv /\ [Next]_vars => [Lifecycle!Next]_Lifecycle!lcvars
  <2> SUFFICES ASSUME LcInv, [Next]_vars PROVE LcMoves
    BY LcMovesStep
  <2>1. CASE UNCHANGED vars
    BY <2>1, RefEnv
  <2>2. CASE Next
    BY <2>2, RefCompute, RefPaygate, RefEnv DEF Next
  <2> QED
    BY <2>1, <2>2
<1> QED
  BY <1>1, <1>2, <1>3, PTL DEF Spec, LifecycleSpec, Lifecycle!Spec
=============================================================================
