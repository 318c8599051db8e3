----------------------- MODULE JobPipelineSafetyProofs -----------------------
(***************************************************************************)
(* Proofs of the pipeline's safety properties beyond the download gate:   *)
(* the awaiting-payment record, the free path, the per-job leases and the  *)
(* finality of "ready".                                                    *)
(***************************************************************************)
EXTENDS JobPipelineProofs

\* A payment worker about to persist the code_url has had its
\* CreateNativeOrder answered, so the provider knows the order.
ApplySeesOrder == \A w \in PW : pw[w].pc = "apply" => order # "none"

\* The inductive invariant behind AwaitingImpliesOrder.
AInv == TypeOK /\ AwaitingImpliesOrder /\ ApplySeesOrder

\* With a zero fee no payment worker takes the order path, so no order,
\* no code and no notification ever exist.
FreeInv ==
  /\ TypeOK
  /\ CancelledNeverPaid
  /\ order = "none"
  /\ ntf.pc = "idle"
  /\ \A w \in PW : pw[w].pc \notin {"order", "apply", "fail"}

\* Every handler of the group S whose lease is armed finds its own token,
\* minted under its incarnation in i, in the lease key's value l.
OwnedBy(h, S, l, i) == \A w \in S : h[w].held => l = [w |-> w, inc |-> i[w]]

\* Every handler between its Acquire and its deferred Release owns the
\* lease key under its current incarnation's token.
HoldsLease ==
  /\ OwnedBy(cw, CW, lease["compute"], inc)
  /\ OwnedBy(pw, PW, lease["paygate"], inc)

\* A handler past its Acquire and before its return.
Busy(h, w) == h[w].pc \notin {"idle", "lock", "ret"}

\* Every busy handler of the group S has its lease armed.
BusyArmed(h, S) == \A w \in S : Busy(h, w) => h[w].held

\* The compare-worker stages after a Get that found no result, and the
\* payment-worker stages after a Get that found one (of which the last
\* three follow the order path).
ComputePcs == {"mark", "work", "persist"}
PaidPcs == {"release", "free", "order", "apply", "fail"}
OrderPcs == {"order", "apply", "fail"}

\* A compare-worker computing the result read a record without one, and
\* no other compare-worker can have stored one since.
ComputeStage == \A w \in CW : cw[w].pc \in ComputePcs => ~job.result

\* A payment-worker past its Get read a record with a result; one on the
\* order path read one that showed no code and was not released, and no
\* other payment-worker nor the notify handler can have changed that.
PayStage ==
  /\ \A w \in PW : pw[w].pc \in PaidPcs => job.result
  /\ \A w \in PW : pw[w].pc \in OrderPcs => ~codeShown /\ job.status # "ready"

\* What each handler stage has read and still holds true.
Stages ==
  /\ BusyArmed(cw, CW) /\ BusyArmed(pw, PW)
  /\ ComputeStage
  /\ PayStage

\* What a shown code, the order and the notification say of the record.
CodeInv ==
  /\ codeShown => job.result
  /\ codeShown => \/ job.status = "awaiting_payment" /\ job.code
                  \/ job.paid
                  \/ Terminal(job)
  /\ ntf.pc # "idle" => order = "paid"
  /\ order = "paid" => codeShown
  /\ job.status = Absent => ~job.result /\ ~codeShown

\* The inductive invariant behind LeaseExclusion and ReadyIsFinal.
RInv == IInv /\ HoldsLease /\ Stages /\ CodeInv

\* Where a recorded payment comes from: the notify handler, which runs
\* only for a paid order, or the free release; the free path is taken
\* only at a zero fee, the order path and an order exist only at a
\* non-zero one.  The user pays an order
\* only for a job id the intake answered with 200, so a paid order means
\* the intake is done and will not fail the job.
PayInv ==
  /\ TypeOK
  /\ \A w \in PW : pw[w].pc = "free" => Fee = 0
  /\ \A w \in PW : pw[w].pc \in OrderPcs => Fee # 0
  /\ order # "none" => Fee # 0
  /\ ntf.pc # "idle" => order = "paid"
  /\ job.paid => order = "paid" \/ Fee = 0
  /\ job.status = Absent => ~job.paid
  /\ order = "paid" => itk = "ok"
-----------------------------------------------------------------------------
(* The awaiting-payment record. *)

\* The record part of AwaitingImpliesOrder.
AwaitRec(j) ==
  j.status = "awaiting_payment" =>
    j.result /\ ~j.paid /\ j.code /\ j.amount = Fee

\* A store write from j to n keeps the record part and enters
\* "awaiting_payment" only from it.
AwaitKeep(j, n) ==
  /\ AwaitRec(n)
  /\ n.status = "awaiting_payment" => j.status = "awaiting_payment"

\* Only the paygate's own closure enters "awaiting_payment"; every other
\* closure keeps the record part of invariant 2 and leaves that status
\* (the notify closure releases, since an awaiting record has its result).
LEMMA MutatorsAwait ==
  ASSUME NEW j \in Job, AwaitRec(j)
  PROVE  /\ AwaitKeep(j, j)
         /\ AwaitKeep(j, Update(j, MarkProcessing(j)))
         /\ AwaitKeep(j, Update(j, PersistResult(j)))
         /\ AwaitKeep(j, Update(j, FailJob(j)))
         /\ AwaitKeep(j, Update(j, ReleasePaid(j)))
         /\ AwaitKeep(j, Update(j, ReleaseFree(j)))
         /\ AwaitKeep(j, Update(j, NotifyPaid(j)))
         /\ AwaitKeep(j, Update(j, CancelJob(j)))
         /\ AwaitRec(Update(j, AwaitPayment(j)))
<1> USE DEF AwaitKeep, AwaitRec, Update, Absent
<1>1. AwaitKeep(j, j)
  OBVIOUS
<1>2. /\ AwaitKeep(j, Update(j, MarkProcessing(j)))
      /\ AwaitKeep(j, Update(j, PersistResult(j)))
      /\ AwaitKeep(j, Update(j, FailJob(j)))
  BY DEF Job, MarkProcessing, PersistResult, FailJob
<1>3. /\ AwaitKeep(j, Update(j, ReleasePaid(j)))
      /\ AwaitKeep(j, Update(j, ReleaseFree(j)))
      /\ AwaitKeep(j, Update(j, CancelJob(j)))
  BY DEF Job, ReleasePaid, ReleaseFree, CancelJob
<1>4. AwaitKeep(j, Update(j, NotifyPaid(j)))
  BY DEF Job, NotifyPaid
<1>5. AwaitRec(Update(j, AwaitPayment(j)))
  BY DEF Job, AwaitPayment
<1> QED
  BY <1>1, <1>2, <1>3, <1>4, <1>5

\* A step that keeps the record part, enters "awaiting_payment" only
\* from it, never forgets the order and puts no payment worker at
\* "apply" preserves AInv.
LEMMA AwaitStep ==
  ASSUME AInv, TypeOK', AwaitKeep(job, job'),
         order # "none" => order' # "none",
         \A v \in PW : pw'[v].pc = "apply" => pw[v].pc = "apply"
  PROVE  AInv'
BY DEF AInv, AwaitingImpliesOrder, ApplySeesOrder, AwaitKeep, AwaitRec

LEMMA AInvInit == Init => AInv
<1> SUFFICES ASSUME Init PROVE AInv
  OBVIOUS
<1>1. job.status # "awaiting_payment" /\ \A w \in PW : pw[w].pc = "idle"
  BY DEF Init, NoJob, Absent, Idle
<1> QED
  BY <1>1, TypeInit DEF AInv, AwaitingImpliesOrder, ApplySeesOrder

LEMMA AInvNext == AInv /\ [Next]_vars => AInv'
<1> SUFFICES ASSUME AInv, [Next]_vars PROVE AInv'
  OBVIOUS
<1>0. TypeOK'
  BY TypeNext DEF AInv
<1>a. job \in Job /\ pw \in [PW -> Handler] /\ AwaitRec(job)
  BY DEF AInv, TypeOK, AwaitingImpliesOrder, AwaitRec
<1>b. ASSUME job' = job PROVE AwaitKeep(job, job')
  BY <1>a, <1>b, MutatorsAwait
\* The handler of worker w moves to a pc other than "apply", or is reset.
<1>c. ASSUME NEW w \in PW,
             \/ \E x \in {"get", "release", "free", "order", "fail"} :
                  pw' = [pw EXCEPT ![w].pc = x]
             \/ \E r \in {"ack", "keep"} :
                  pw' = [pw EXCEPT ![w].pc = "ret", ![w].ret = r]
             \/ pw' = [pw EXCEPT ![w].pc = "get", ![w].held = TRUE]
             \/ pw' = [pw EXCEPT ![w] = Idle]
             \/ \E i \in Nat : pw' = [pw EXCEPT ![w] = Start(i)]
      PROVE  \A v \in PW : pw'[v].pc = "apply" => pw[v].pc = "apply"
  <2>1. CASE \E x \in {"get", "release", "free", "order", "fail"} :
               pw' = [pw EXCEPT ![w].pc = x]
    BY <2>1, <1>a DEF Handler
  <2>2. CASE \E r \in {"ack", "keep"} :
               pw' = [pw EXCEPT ![w].pc = "ret", ![w].ret = r]
    BY <2>2, <1>a DEF Handler
  <2>3. CASE pw' = [pw EXCEPT ![w].pc = "get", ![w].held = TRUE]
    BY <2>3, <1>a DEF Handler
  <2>4. CASE pw' = [pw EXCEPT ![w] = Idle] \/ \E i \in Nat : pw' = [pw EXCEPT ![w] = Start(i)]
    BY <2>4, <1>a DEF Idle, Start
  <2> QED
    BY <1>c, <2>1, <2>2, <2>3, <2>4
<1>1. CASE IntakeStep
  <2>1. AwaitKeep(job, NewJob)
    BY DEF AwaitKeep, AwaitRec, NewJob, NoJob
  <2>2. AwaitKeep(job, job')
    BY <1>1, <2>1, <1>a, MutatorsAwait, IntakeFrame
  <2> QED
    BY <1>1, <2>2, <1>0, AwaitStep, IntakeFrame
<1>2. ASSUME NEW w \in CW, ComputeStep(w) PROVE AInv'
  <2>1. pw' = pw /\ order' = order
    BY <1>2 DEF ComputeStep, CDeliver, CClaim, CLockAcquired, CLockBusy, CGet,
                CMark, CWorkOk, CWorkFail, CPersist, CReget, CEnqueueOk,
                CEnqueueErr, CReturn
  <2>2. \/ job' = job
        \/ job' = Update(job, MarkProcessing(job))
        \/ job' = Update(job, FailJob(job))
        \/ job' = Update(job, PersistResult(job))
    BY <1>2 DEF ComputeStep, CDeliver, CClaim, CLockAcquired, CLockBusy, CGet,
                CMark, CWorkOk, CWorkFail, CPersist, CReget, CEnqueueOk,
                CEnqueueErr, CReturn
  <2>3. AwaitKeep(job, job')
    BY <2>2, <1>a, MutatorsAwait
  <2> QED
    BY <2>1, <2>3, <1>0, AwaitStep
<1>3. ASSUME NEW w \in PW, PaygateStep(w) PROVE AInv'
  <2>1. CASE PDeliver(w) \/ PClaim(w)
    <3>1. /\ job' = job /\ order' = order
          /\ \E i \in Nat : pw' = [pw EXCEPT ![w] = Start(i)]
      BY <2>1, StreamOpsType DEF PDeliver, PClaim, Deliver1, Claim1, AInv,
                                 TypeOK
    <3> QED
      BY <3>1, <1>0, <1>b, <1>c, AwaitStep
  <2>2. CASE PLockAcquired(w) \/ PLockBusy(w) \/ PGet(w) \/ PReturn(w)
    <3>1. /\ job' = job /\ order' = order
          /\ \/ \E x \in {"get", "release", "free", "order", "fail"} :
                  pw' = [pw EXCEPT ![w].pc = x]
             \/ \E r \in {"ack", "keep"} :
                  pw' = [pw EXCEPT ![w].pc = "ret", ![w].ret = r]
             \/ pw' = [pw EXCEPT ![w].pc = "get", ![w].held = TRUE]
             \/ pw' = [pw EXCEPT ![w] = Idle]
      BY <2>2 DEF PLockAcquired, PLockBusy, LockAcquired, LockBusy, PGet,
                  PGo, PRet, PReturn, Return1
    <3> QED
      BY <3>1, <1>0, <1>b, <1>c, AwaitStep
  <2>3. CASE PRelease(w) \/ PFree(w) \/ PFail(w)
    <3>1. /\ order' = order
          /\ pw' = [pw EXCEPT ![w].pc = "ret", ![w].ret = "ack"]
          /\ \/ job' = Update(job, ReleasePaid(job))
             \/ job' = Update(job, ReleaseFree(job))
             \/ job' = Update(job, FailJob(job))
      BY <2>3 DEF PRelease, PFree, PFail, PRet
    <3>2. AwaitKeep(job, job')
      BY <3>1, <1>a, MutatorsAwait
    <3> QED
      BY <3>1, <3>2, <1>0, <1>c, AwaitStep
  <2>4. CASE POrderOk(w)
    <3>1. /\ job' = job /\ order' = "open"
          /\ pw' = [pw EXCEPT ![w].pc = "apply"]
      BY <2>4 DEF POrderOk, PGo
    <3> QED
      BY <3>1, <1>0, <1>a DEF AInv, AwaitingImpliesOrder, ApplySeesOrder
  <2>5. CASE POrderErr(w)
    <3>1. /\ job' = job /\ (order # "none" => order' # "none")
          /\ pw' = [pw EXCEPT ![w].pc = "fail"]
      BY <2>5 DEF POrderErr, PGo
    <3> QED
      BY <3>1, <1>0, <1>b, <1>c, AwaitStep
  <2>6. CASE PApply(w)
    <3>1. /\ order' = order /\ order # "none"
          /\ pw' = [pw EXCEPT ![w].pc = "ret", ![w].ret = "ack"]
          /\ job' = Update(job, AwaitPayment(job))
      BY <2>6 DEF PApply, PRet, AInv, ApplySeesOrder
    <3>2. AwaitRec(job')
      BY <3>1, <1>a, MutatorsAwait
    <3>3. ApplySeesOrder'
      BY <3>1, <1>a, <1>c DEF AInv, ApplySeesOrder
    <3> QED
      BY <3>1, <3>2, <3>3, <1>0 DEF AInv, AwaitingImpliesOrder, AwaitRec
  <2> QED
    BY <1>3, <2>1, <2>2, <2>3, <2>4, <2>5, <2>6 DEF PaygateStep
<1>4. ASSUME NEW w \in Workers, Crash(w) PROVE AInv'
  <2>1. job' = job /\ order' = order
    BY <1>4 DEF Crash
  <2>2. \A v \in PW : pw'[v].pc = "apply" => pw[v].pc = "apply"
    <3>1. CASE w \in PW
      <4>1. pw' = pw \/ pw' = [pw EXCEPT ![w] = Idle]
        BY <1>4 DEF Crash
      <4> QED
        BY <3>1, <4>1, <1>c
    <3>2. CASE w \notin PW
      BY <3>2, <1>4 DEF Crash
    <3> QED
      BY <3>1, <3>2
  <2> QED
    BY <2>1, <2>2, <1>0, <1>b, AwaitStep
<1>5. CASE \/ \E k \in LeaseKeys : LeaseExpire(k)
           \/ NDeliver \/ NReject \/ NAccept
           \/ KStart \/ KCloseErr \/ UNCHANGED vars
  <2>1. job' = job /\ pw' = pw /\ order' = order
    BY <1>5 DEF LeaseExpire, NDeliver, NReject, NAccept, KStart, KCloseErr,
                vars
  <2> QED
    BY <2>1, <1>0, <1>b, AwaitStep
<1>6. CASE Pay \/ KCloseOk
  <2>1. job' = job /\ pw' = pw /\ (order # "none" => order' # "none")
    BY <1>6 DEF Pay, KCloseOk
  <2> QED
    BY <2>1, <1>0, <1>b, AwaitStep
<1>7. CASE NUpdate \/ KUpdate
  <2>1. /\ pw' = pw /\ order' = order
        /\ \/ job' = job
           \/ job' = Update(job, NotifyPaid(job))
           \/ job' = Update(job, CancelJob(job))
    BY <1>7 DEF NUpdate, KUpdate
  <2>2. AwaitKeep(job, job')
    BY <2>1, <1>a, MutatorsAwait
  <2> QED
    BY <2>1, <2>2, <1>0, AwaitStep
<1> QED
  BY <1>1, <1>2, <1>3, <1>4, <1>5, <1>6, <1>7 DEF Next

\* Spec invariant 2, for every value of the constants (leases refreshed
\* or not): a job awaiting payment has its result, is unpaid, shows a
\* code at the configured fee, and the provider knows its order, whatever
\* the notify handler, the cancel handler and the compare-workers write
\* concurrently with the payment worker that set it.
THEOREM AwaitingOrder == Spec => []AwaitingImpliesOrder
<1>1. Init => AInv
  BY AInvInit
<1>2. AInv /\ [Next]_vars => AInv'
  BY AInvNext
<1>3. AInv => AwaitingImpliesOrder
  BY DEF AInv
<1> QED
  BY <1>1, <1>2, <1>3, PTL DEF Spec
-----------------------------------------------------------------------------
(* The free path. *)

\* The record part of CancelledNeverPaid.
NoCancelPaid(j) == ~(j.status = "cancelled" /\ j.paid)

\* Every closure but the notify handler's keeps a cancelled job unpaid and
\* a paid job out of "cancelled": the release closures return early on
\* cancelled, the cancel closure on paid.
LEMMA MutatorsNoCancelPaid ==
  ASSUME NEW j \in Job, NoCancelPaid(j)
  PROVE  /\ NoCancelPaid(Update(j, MarkProcessing(j)))
         /\ NoCancelPaid(Update(j, PersistResult(j)))
         /\ NoCancelPaid(Update(j, FailJob(j)))
         /\ NoCancelPaid(Update(j, ReleasePaid(j)))
         /\ NoCancelPaid(Update(j, ReleaseFree(j)))
         /\ NoCancelPaid(Update(j, AwaitPayment(j)))
         /\ NoCancelPaid(Update(j, CancelJob(j)))
<1> USE DEF NoCancelPaid, Update
<1>1. /\ NoCancelPaid(Update(j, MarkProcessing(j)))
      /\ NoCancelPaid(Update(j, PersistResult(j)))
      /\ NoCancelPaid(Update(j, FailJob(j)))
  BY DEF Job, MarkProcessing, PersistResult, FailJob
<1>2. /\ NoCancelPaid(Update(j, ReleasePaid(j)))
      /\ NoCancelPaid(Update(j, ReleaseFree(j)))
      /\ NoCancelPaid(Update(j, AwaitPayment(j)))
      /\ NoCancelPaid(Update(j, CancelJob(j)))
  BY DEF Job, ReleasePaid, ReleaseFree, AwaitPayment, CancelJob
<1> QED
  BY <1>1, <1>2

LEMMA FreeInvInit == Init => FreeInv
<1> SUFFICES ASSUME Init PROVE FreeInv
  OBVIOUS
<1>1. \A w \in PW : pw[w].pc = "idle"
  BY DEF Init, Idle
<1> QED
  BY <1>1, TypeInit DEF Init, FreeInv, CancelledNeverPaid, NoJob, Absent

LEMMA FreeInvNext ==
  ASSUME Fee = 0
  PROVE  FreeInv /\ [Next]_vars => FreeInv'
<1> SUFFICES ASSUME FreeInv, [Next]_vars PROVE FreeInv'
  OBVIOUS
<1>0. TypeOK'
  BY TypeNext DEF FreeInv
<1>a. /\ job \in Job /\ pw \in [PW -> Handler] /\ NoCancelPaid(job)
      /\ order = "none" /\ ntf.pc = "idle"
      /\ \A w \in PW : pw[w].pc \notin {"order", "apply", "fail"}
  BY DEF FreeInv, TypeOK, CancelledNeverPaid, NoCancelPaid
\* A step that keeps the record part, the order and the notify handler,
\* and moves no payment worker onto the order path.
<1>b. ASSUME NoCancelPaid(job'), order' = "none", ntf'.pc = "idle",
             \A w \in PW : pw'[w].pc \notin {"order", "apply", "fail"}
      PROVE  FreeInv'
  BY <1>b, <1>0 DEF FreeInv, CancelledNeverPaid, NoCancelPaid
<1>1. CASE IntakeStep
  <2>1. NoCancelPaid(job')
    BY <1>1, <1>a, MutatorsNoCancelPaid, IntakeFrame
       DEF NoCancelPaid, NewJob, NoJob
  <2> QED
    BY <1>1, <2>1, <1>a, <1>b, IntakeFrame
<1>2. ASSUME NEW w \in CW, ComputeStep(w) PROVE FreeInv'
  <2>1. pw' = pw /\ order' = order /\ ntf' = ntf
    BY <1>2 DEF ComputeStep, CDeliver, CClaim, CLockAcquired, CLockBusy, CGet,
                CMark, CWorkOk, CWorkFail, CPersist, CReget, CEnqueueOk,
                CEnqueueErr, CReturn
  <2>2. \/ job' = job
        \/ job' = Update(job, MarkProcessing(job))
        \/ job' = Update(job, FailJob(job))
        \/ job' = Update(job, PersistResult(job))
    BY <1>2 DEF ComputeStep, CDeliver, CClaim, CLockAcquired, CLockBusy, CGet,
                CMark, CWorkOk, CWorkFail, CPersist, CReget, CEnqueueOk,
                CEnqueueErr, CReturn
  <2>3. NoCancelPaid(job')
    BY <2>2, <1>a, MutatorsNoCancelPaid
  <2> QED
    BY <2>1, <2>3, <1>a, <1>b
<1>3. ASSUME NEW w \in PW, PaygateStep(w) PROVE FreeInv'
  <2>0. order' = order /\ ntf' = ntf
    BY <1>3, <1>a DEF PaygateStep, PDeliver, PClaim, PLockAcquired, PLockBusy,
                PGet, PRelease, PFree, POrderOk, POrderErr, PApply, PFail,
                PReturn
  <2>1. CASE PDeliver(w) \/ PClaim(w)
    <3>1. job' = job /\ \E i \in Nat : pw' = [pw EXCEPT ![w] = Start(i)]
      BY <2>1, StreamOpsType DEF PDeliver, PClaim, Deliver1, Claim1, FreeInv,
                                 TypeOK
    <3> QED
      BY <3>1, <2>0, <1>a, <1>b DEF Start
  <2>2. CASE PLockAcquired(w) \/ PLockBusy(w) \/ PReturn(w)
    <3>1. /\ job' = job
          /\ \/ pw' = [pw EXCEPT ![w].pc = "get", ![w].held = TRUE]
             \/ pw' = [pw EXCEPT ![w].pc = "ret", ![w].ret = "ack"]
             \/ pw' = [pw EXCEPT ![w] = Idle]
      BY <2>2 DEF PLockAcquired, PLockBusy, LockAcquired, LockBusy, PReturn,
                  Return1
    <3> QED
      BY <3>1, <2>0, <1>a, <1>b DEF Handler, Idle
  <2>3. CASE PGet(w)
    \* With a zero fee the Get branches to the free path before the order.
    <3>1. /\ job' = job
          /\ \/ \E x \in {"release", "free"} : pw' = [pw EXCEPT ![w].pc = x]
             \/ \E r \in {"ack", "keep"} :
                  pw' = [pw EXCEPT ![w].pc = "ret", ![w].ret = r]
      BY <2>3 DEF PGet, PGo, PRet
    <3> QED
      BY <3>1, <2>0, <1>a, <1>b DEF Handler
  <2>4. CASE PRelease(w) \/ PFree(w)
    <3>1. /\ pw' = [pw EXCEPT ![w].pc = "ret", ![w].ret = "ack"]
          /\ \/ job' = Update(job, ReleasePaid(job))
             \/ job' = Update(job, ReleaseFree(job))
      BY <2>4 DEF PRelease, PFree, PRet
    <3>2. NoCancelPaid(job')
      BY <3>1, <1>a, MutatorsNoCancelPaid
    <3> QED
      BY <3>1, <3>2, <2>0, <1>a, <1>b DEF Handler
  <2>5. CASE POrderOk(w) \/ POrderErr(w) \/ PApply(w) \/ PFail(w)
    BY <2>5, <1>a DEF POrderOk, POrderErr, PApply, PFail
  <2> QED
    BY <1>3, <2>1, <2>2, <2>3, <2>4, <2>5 DEF PaygateStep
<1>4. ASSUME NEW w \in Workers, Crash(w) PROVE FreeInv'
  <2>1. job' = job /\ order' = order /\ ntf' = ntf
    BY <1>4 DEF Crash
  <2>2. pw' = pw \/ (w \in PW /\ pw' = [pw EXCEPT ![w] = Idle])
    BY <1>4 DEF Crash
  <2> QED
    BY <2>1, <2>2, <1>a, <1>b DEF Idle
<1>5. CASE \/ \E k \in LeaseKeys : LeaseExpire(k)
           \/ KStart \/ KCloseOk \/ KCloseErr \/ UNCHANGED vars
  <2>1. job' = job /\ pw' = pw /\ order' = order /\ ntf' = ntf
    BY <1>5, <1>a DEF LeaseExpire, KStart, KCloseOk, KCloseErr, vars
  <2> QED
    BY <2>1, <1>a, <1>b
\* No order is ever created, so nothing is paid or notified.
<1>6. CASE Pay \/ NDeliver \/ NReject \/ NAccept \/ NUpdate
  BY <1>6, <1>a DEF Pay, NDeliver, NReject, NAccept, NUpdate
<1>7. CASE KUpdate
  <2>1. /\ pw' = pw /\ order' = order /\ ntf' = ntf
        /\ job' = Update(job, CancelJob(job))
    BY <1>7 DEF KUpdate
  <2>2. NoCancelPaid(job')
    BY <2>1, <1>a, MutatorsNoCancelPaid
  <2> QED
    BY <2>1, <2>2, <1>a, <1>b
<1> QED
  BY <1>1, <1>2, <1>3, <1>4, <1>5, <1>6, <1>7 DEF Next

\* Spec 4.9 on the free path (COMPARE_JOB_FEE_FEN unset or zero): no job
\* ends cancelled and paid.  The release closures return early on a
\* cancelled record and the cancel closure on a paid one, and with no
\* order there is no notification to mark a cancelled job paid; with a
\* positive fee the notify path breaks this (run cancelled_paid).
THEOREM FreeNeverCancelledPaid ==
  ASSUME Fee = 0
  PROVE  Spec => []CancelledNeverPaid
<1>1. Init => FreeInv
  BY FreeInvInit
<1>2. FreeInv /\ [Next]_vars => FreeInv'
  BY FreeInvNext
<1>3. FreeInv => CancelledNeverPaid
  BY DEF FreeInv
<1> QED
  BY <1>1, <1>2, <1>3, PTL DEF Spec
-----------------------------------------------------------------------------
(* The per-job leases. *)

\* The inductive invariant behind LeaseExclusion.
LInv == TypeOK /\ HoldsLease

\* Acquire on an absent key: the new owner is the only armed handler.
LEMMA OwnedAcquire ==
  ASSUME NEW S \in SUBSET Workers, NEW h \in [S -> Handler], NEW l, NEW i,
         NEW w \in S, OwnedBy(h, S, l, i), CanAcquire(l)
  PROVE  OwnedBy([h EXCEPT ![w].pc = "get", ![w].held = TRUE], S,
                 [w |-> w, inc |-> i[w]], i)
<1>1. \A v \in S : ~h[v].held
  BY NoOwnerAssumption DEF OwnedBy, CanAcquire, NoToken, Workers
<1> QED
  BY <1>1 DEF OwnedBy, Handler

\* The deferred Release of a returning handler deletes only its own token.
LEMMA OwnedRelease ==
  ASSUME NEW S, NEW h \in [S -> Handler], NEW l, NEW i, NEW w \in S,
         OwnedBy(h, S, l, i)
  PROVE  OwnedBy([h EXCEPT ![w] = Idle], S,
                 IF h[w].held THEN ReleaseIfOwner(l, [w |-> w, inc |-> i[w]])
                              ELSE l, i)
BY DEF OwnedBy, ReleaseIfOwner, Idle

\* Disarming handlers, or bumping the incarnation of a worker none of whose
\* handlers stays armed, keeps every armed handler an owner.
LEMMA OwnedKeep ==
  ASSUME NEW S, NEW h, NEW h2, NEW l, NEW i, NEW i2, OwnedBy(h, S, l, i),
         \A v \in S : h2[v].held => h[v].held /\ i2[v] = i[v]
  PROVE  OwnedBy(h2, S, l, i2)
BY DEF OwnedBy

\* A key whose token belongs to an earlier incarnation has no armed owner,
\* so the TTL running out takes nothing from a live handler.
LEMMA OwnedExpire ==
  ASSUME NEW S \in SUBSET Workers, NEW h, NEW l, NEW i \in [Workers -> Nat],
         OwnedBy(h, S, l, i), l # NoToken, l.w \in Workers, l.inc \in Nat,
         l.inc < i[l.w]
  PROVE  OwnedBy(h, S, NoToken, i)
BY DEF OwnedBy

\* Two armed handlers of one group own the same token, so they are one.
LEMMA OwnedExclusive ==
  ASSUME NEW S, NEW h, NEW l, NEW i, OwnedBy(h, S, l, i),
         NEW v \in S, NEW w \in S, h[v].held, h[w].held
  PROVE  v = w
BY DEF OwnedBy

LEMMA LInvInit == Init => LInv
<1> SUFFICES ASSUME Init PROVE LInv
  OBVIOUS
<1> QED
  BY TypeInit DEF Init, LInv, HoldsLease, OwnedBy, Idle

\* Every step keeps each armed handler an owner of its key, provided the
\* TTL runs out only under dead owners.
LEMMA LInvNext ==
  ASSUME ~RefreshFaults
  PROVE  LInv /\ [Next]_vars => LInv'
<1> SUFFICES ASSUME LInv, [Next]_vars PROVE LInv'
  OBVIOUS
<1>0. TypeOK'
  BY TypeNext DEF LInv
<1>a. /\ cw \in [CW -> Handler] /\ pw \in [PW -> Handler]
      /\ lease \in [LeaseKeys -> Tokens] /\ inc \in [Workers -> Nat]
      /\ CW \in SUBSET Workers /\ PW \in SUBSET Workers
      /\ OwnedBy(cw, CW, lease["compute"], inc)
      /\ OwnedBy(pw, PW, lease["paygate"], inc)
  BY DEF LInv, TypeOK, HoldsLease, Workers
<1>b. ASSUME OwnedBy(cw', CW, lease'["compute"], inc'),
             OwnedBy(pw', PW, lease'["paygate"], inc')
      PROVE  LInv'
  BY <1>0, <1>b DEF LInv, HoldsLease
\* Steps that leave the leases, the handlers and the incarnations alone.
<1>1. CASE UNCHANGED <<lease, cw, pw, inc>>
  BY <1>1, <1>a, <1>b
<1>2. ASSUME NEW w \in CW, ComputeStep(w) PROVE LInv'
  <2>1. CASE CLockAcquired(w)
    <3>1. /\ CanAcquire(lease["compute"])
          /\ lease' = [lease EXCEPT !["compute"] = Token(w)]
          /\ cw' = [cw EXCEPT ![w].pc = "get", ![w].held = TRUE]
          /\ pw' = pw /\ inc' = inc
      BY <2>1 DEF CLockAcquired, LockAcquired
    <3>2. OwnedBy([cw EXCEPT ![w].pc = "get", ![w].held = TRUE], CW,
                  [w |-> w, inc |-> inc[w]], inc)
      BY <3>1, <1>a, OwnedAcquire
    <3>3. /\ lease'["compute"] = [w |-> w, inc |-> inc[w]]
          /\ lease'["paygate"] = lease["paygate"]
      BY <3>1, <1>a DEF Token, LeaseKeys
    <3> QED
      BY <3>1, <3>2, <3>3, <1>a, <1>b
  <2>2. CASE CReturn(w)
    <3>1. /\ lease' = IF cw[w].held
                      THEN [lease EXCEPT !["compute"] = ReleaseIfOwner(@, Token(w))]
                      ELSE lease
          /\ cw' = [cw EXCEPT ![w] = Idle]
          /\ pw' = pw /\ inc' = inc
      BY <2>2 DEF CReturn, Return1
    <3>2. OwnedBy([cw EXCEPT ![w] = Idle], CW,
                  IF cw[w].held
                  THEN ReleaseIfOwner(lease["compute"], [w |-> w, inc |-> inc[w]])
                  ELSE lease["compute"], inc)
      BY <1>a, OwnedRelease
    <3>3. /\ lease'["compute"] =
               IF cw[w].held
               THEN ReleaseIfOwner(lease["compute"], [w |-> w, inc |-> inc[w]])
               ELSE lease["compute"]
          /\ lease'["paygate"] = lease["paygate"]
      BY <3>1, <1>a DEF Token, LeaseKeys
    <3> QED
      BY <3>1, <3>2, <3>3, <1>a, <1>b
  <2>3. CASE CDeliver(w) \/ CClaim(w)
    <3>1. /\ \E i \in Nat : cw' = [cw EXCEPT ![w] = Start(i)]
          /\ UNCHANGED <<lease, pw, inc>>
      BY <2>3, <1>a, StreamOpsType
      DEF CDeliver, CClaim, Deliver1, Claim1, TypeOK, LInv
    <3>2. \A v \in CW : cw'[v].held => cw[v].held /\ inc'[v] = inc[v]
      BY <3>1, <1>a DEF Start
    <3> QED
      BY <3>1, <3>2, <1>a, <1>b, OwnedKeep
  <2>4. CASE CLockBusy(w) \/ CGet(w) \/ CMark(w) \/ CWorkOk(w) \/ CWorkFail(w)
           \/ CPersist(w) \/ CReget(w) \/ CEnqueueOk(w) \/ CEnqueueErr(w)
    <3>1. UNCHANGED <<lease, pw, inc>>
      BY <2>4 DEF CLockBusy, LockBusy, CGet, CMark, CWorkOk, CWorkFail,
                CPersist, CReget, CEnqueueOk, CEnqueueErr
    <3>2. \/ \E x : cw' = [cw EXCEPT ![w].pc = x]
          \/ \E r : cw' = [cw EXCEPT ![w].pc = "ret", ![w].ret = r]
      BY <2>4 DEF CLockBusy, LockBusy, CGet, CMark, CWorkOk, CWorkFail,
                CPersist, CReget, CEnqueueOk, CEnqueueErr, CGo, CRet
    <3>3. \A v \in CW : cw'[v].held => cw[v].held /\ inc'[v] = inc[v]
      <4>1. CASE \E x : cw' = [cw EXCEPT ![w].pc = x]
        BY <4>1, <3>1, <1>a DEF Handler
      <4>2. CASE \E r : cw' = [cw EXCEPT ![w].pc = "ret", ![w].ret = r]
        BY <4>2, <3>1, <1>a DEF Handler
      <4> QED
        BY <3>2, <4>1, <4>2
    <3> QED
      BY <3>1, <3>3, <1>a, <1>b, OwnedKeep
  <2> QED
    BY <1>2, <2>1, <2>2, <2>3, <2>4 DEF ComputeStep
<1>3. ASSUME NEW w \in PW, PaygateStep(w) PROVE LInv'
  <2>1. CASE PLockAcquired(w)
    <3>1. /\ CanAcquire(lease["paygate"])
          /\ lease' = [lease EXCEPT !["paygate"] = Token(w)]
          /\ pw' = [pw EXCEPT ![w].pc = "get", ![w].held = TRUE]
          /\ cw' = cw /\ inc' = inc
      BY <2>1 DEF PLockAcquired, LockAcquired
    <3>2. OwnedBy([pw EXCEPT ![w].pc = "get", ![w].held = TRUE], PW,
                  [w |-> w, inc |-> inc[w]], inc)
      BY <3>1, <1>a, OwnedAcquire
    <3>3. /\ lease'["paygate"] = [w |-> w, inc |-> inc[w]]
          /\ lease'["compute"] = lease["compute"]
      BY <3>1, <1>a DEF Token, LeaseKeys
    <3> QED
      BY <3>1, <3>2, <3>3, <1>a, <1>b
  <2>2. CASE PReturn(w)
    <3>1. /\ lease' = IF pw[w].held
                      THEN [lease EXCEPT !["paygate"] = ReleaseIfOwner(@, Token(w))]
                      ELSE lease
          /\ pw' = [pw EXCEPT ![w] = Idle]
          /\ cw' = cw /\ inc' = inc
      BY <2>2 DEF PReturn, Return1
    <3>2. OwnedBy([pw EXCEPT ![w] = Idle], PW,
                  IF pw[w].held
                  THEN ReleaseIfOwner(lease["paygate"], [w |-> w, inc |-> inc[w]])
                  ELSE lease["paygate"], inc)
      BY <1>a, OwnedRelease
    <3>3. /\ lease'["paygate"] =
               IF pw[w].held
               THEN ReleaseIfOwner(lease["paygate"], [w |-> w, inc |-> inc[w]])
               ELSE lease["paygate"]
          /\ lease'["compute"] = lease["compute"]
      BY <3>1, <1>a DEF Token, LeaseKeys
    <3> QED
      BY <3>1, <3>2, <3>3, <1>a, <1>b
  <2>3. CASE PDeliver(w) \/ PClaim(w)
    <3>1. /\ \E i \in Nat : pw' = [pw EXCEPT ![w] = Start(i)]
          /\ UNCHANGED <<lease, cw, inc>>
      BY <2>3, <1>a, StreamOpsType
      DEF PDeliver, PClaim, Deliver1, Claim1, TypeOK, LInv
    <3>2. \A v \in PW : pw'[v].held => pw[v].held /\ inc'[v] = inc[v]
      BY <3>1, <1>a DEF Start
    <3> QED
      BY <3>1, <3>2, <1>a, <1>b, OwnedKeep
  <2>4. CASE PLockBusy(w) \/ PGet(w) \/ PRelease(w) \/ PFree(w) \/ POrderOk(w)
           \/ POrderErr(w) \/ PApply(w) \/ PFail(w)
    <3>1. UNCHANGED <<lease, cw, inc>>
      BY <2>4 DEF PLockBusy, LockBusy, PGet, PRelease, PFree, POrderOk,
                POrderErr, PApply, PFail
    <3>2. \/ \E x : pw' = [pw EXCEPT ![w].pc = x]
          \/ \E r : pw' = [pw EXCEPT ![w].pc = "ret", ![w].ret = r]
      BY <2>4 DEF PLockBusy, LockBusy, PGet, PRelease, PFree, POrderOk,
                POrderErr, PApply, PFail, PGo, PRet
    <3>3. \A v \in PW : pw'[v].held => pw[v].held /\ inc'[v] = inc[v]
      <4>1. CASE \E x : pw' = [pw EXCEPT ![w].pc = x]
        BY <4>1, <3>1, <1>a DEF Handler
      <4>2. CASE \E r : pw' = [pw EXCEPT ![w].pc = "ret", ![w].ret = r]
        BY <4>2, <3>1, <1>a DEF Handler
      <4> QED
        BY <3>2, <4>1, <4>2
    <3> QED
      BY <3>1, <3>3, <1>a, <1>b, OwnedKeep
  <2> QED
    BY <1>3, <2>1, <2>2, <2>3, <2>4 DEF PaygateStep
\* A crash disarms the dead handler before its incarnation changes.
<1>4. ASSUME NEW w \in Workers, Crash(w) PROVE LInv'
  <2>1. lease' = lease /\ inc' = [inc EXCEPT ![w] = @ + 1]
    BY <1>4 DEF Crash
  <2>2. \/ w \in CW /\ cw' = [cw EXCEPT ![w] = Idle] /\ pw' = pw
        \/ w \in PW /\ pw' = [pw EXCEPT ![w] = Idle] /\ cw' = cw
    BY <1>4 DEF Crash
  <2>3. /\ \A v \in CW : cw'[v].held => cw[v].held /\ inc'[v] = inc[v]
        /\ \A v \in PW : pw'[v].held => pw[v].held /\ inc'[v] = inc[v]
    BY <2>1, <2>2, <1>a, ConstAssumption DEF Idle, Workers
  <2> QED
    BY <2>1, <2>3, <1>a, <1>b, OwnedKeep
\* The TTL runs out only under a dead owner when the refresher works.
<1>5. ASSUME NEW k \in LeaseKeys, LeaseExpire(k) PROVE LInv'
  <2>1. /\ lease[k] # NoToken
        /\ lease[k].w \in Workers /\ lease[k].inc \in Nat
        /\ lease[k].inc < inc[lease[k].w]
        /\ lease' = [lease EXCEPT ![k] = NoToken]
        /\ UNCHANGED <<cw, pw, inc>>
    BY <1>5, <1>a DEF LeaseExpire, Tokens
  <2>2. CASE k = "compute"
    <3>1. OwnedBy(cw, CW, NoToken, inc)
      BY <2>1, <2>2, <1>a, OwnedExpire
    <3> QED
      BY <3>1, <2>1, <2>2, <1>a, <1>b DEF LeaseKeys
  <2>3. CASE k = "paygate"
    <3>1. OwnedBy(pw, PW, NoToken, inc)
      BY <2>1, <2>3, <1>a, OwnedExpire
    <3> QED
      BY <3>1, <2>1, <2>3, <1>a, <1>b DEF LeaseKeys
  <2> QED
    BY <2>2, <2>3 DEF LeaseKeys
<1>6. CASE \/ IntakeStep \/ Pay \/ NDeliver \/ NReject \/ NAccept \/ NUpdate
           \/ KStart \/ KCloseOk \/ KCloseErr \/ KUpdate \/ UNCHANGED vars
  <2>1. UNCHANGED <<lease, cw, pw, inc>>
    BY <1>6, IntakeFrame DEF Pay, NDeliver, NReject, NAccept, NUpdate, KStart,
                KCloseOk, KCloseErr, KUpdate, vars
  <2> QED
    BY <2>1, <1>1
<1> QED
  BY <1>2, <1>3, <1>4, <1>5, <1>6 DEF Next

\* The per-job leases, when the refresher keeps them alive (every Refresh
\* of a live owner succeeds): for any number of replicas, crashes and
\* redeliveries, at most one compare-worker and at most one payment-worker
\* is between its Acquire and its deferred Release.  A crashed replica's
\* token has an old incarnation, so its key's TTL may run out, and its
\* successor can never release a token that is not its own.
THEOREM LeaseSafe ==
  ASSUME ~RefreshFaults
  PROVE  Spec => []LeaseExclusion
<1>1. Init => LInv
  BY LInvInit
<1>2. LInv /\ [Next]_vars => LInv'
  BY LInvNext
<1>3. LInv => LeaseExclusion
  BY OwnedExclusive DEF LInv, HoldsLease, LeaseExclusion
<1> QED
  BY <1>1, <1>2, <1>3, PTL DEF Spec
-----------------------------------------------------------------------------
(* The finality of "ready". *)

\* Each move of one handler keeps the busy handlers of its group armed:
\* a busy handler moving on, a return, an Acquire, a reset.
LEMMA ArmedMoves ==
  ASSUME NEW S, NEW h \in [S -> Handler], NEW w \in S, BusyArmed(h, S),
         NEW h2,
         \/ \E x : h2 = [h EXCEPT ![w].pc = x] /\ Busy(h, w)
         \/ \E r : h2 = [h EXCEPT ![w].pc = "ret", ![w].ret = r]
         \/ h2 = [h EXCEPT ![w].pc = "get", ![w].held = TRUE]
         \/ h2 = [h EXCEPT ![w] = Idle]
         \/ \E i : h2 = [h EXCEPT ![w] = Start(i)]
  PROVE  BusyArmed(h2, S)
<1>0. ASSUME NEW f \in Handler, NEW x PROVE /\ [f EXCEPT !.pc = x].held = f.held
                                           /\ [f EXCEPT !.pc = x].pc = x
  BY DEF Handler
<1>1. CASE \E x : h2 = [h EXCEPT ![w].pc = x] /\ Busy(h, w)
  <2>1. PICK x : h2 = [h EXCEPT ![w].pc = x] /\ Busy(h, w)
    BY <1>1
  <2>2. h2[w] = [h[w] EXCEPT !.pc = x] /\ \A v \in S \ {w} : h2[v] = h[v]
    BY <2>1
  <2>3. h2[w].held = h[w].held /\ h[w].held
    BY <2>1, <2>2, <1>0 DEF BusyArmed
  <2> QED
    BY <2>2, <2>3 DEF BusyArmed, Busy
<1>2. CASE \E r : h2 = [h EXCEPT ![w].pc = "ret", ![w].ret = r]
  <2>1. PICK r : h2 = [h EXCEPT ![w].pc = "ret", ![w].ret = r]
    BY <1>2
  <2>2. /\ h2[w] = [[h[w] EXCEPT !.pc = "ret"] EXCEPT !.ret = r]
        /\ \A v \in S \ {w} : h2[v] = h[v]
    BY <2>1
  <2>3. h2[w].pc = "ret"
    BY <2>2
  <2> QED
    BY <2>2, <2>3 DEF BusyArmed, Busy
<1>3. CASE h2 = [h EXCEPT ![w].pc = "get", ![w].held = TRUE]
  BY <1>3 DEF BusyArmed, Busy, Handler
<1>4. CASE h2 = [h EXCEPT ![w] = Idle]
  BY <1>4 DEF BusyArmed, Busy, Idle
<1>5. CASE \E i : h2 = [h EXCEPT ![w] = Start(i)]
  <2>1. PICK i : h2 = [h EXCEPT ![w] = Start(i)]
    BY <1>5
  <2>2. h2[w].pc = "lock" /\ \A v \in S \ {w} : h2[v] = h[v]
    BY <2>1 DEF Start
  <2> QED
    BY <2>2 DEF BusyArmed, Busy
<1> QED
  BY <1>1, <1>2, <1>3, <1>4, <1>5

\* Two busy handlers of one group are one: busy handlers are armed, and
\* armed handlers own the key.
LEMMA BusyExclusive ==
  ASSUME RInv
  PROVE  /\ \A v, w \in CW : Busy(cw, v) /\ Busy(cw, w) => v = w
         /\ \A v, w \in PW : Busy(pw, v) /\ Busy(pw, w) => v = w
BY OwnedExclusive DEF RInv, Stages, BusyArmed, HoldsLease

\* A step that changes neither the record, the shown code, the order nor
\* the notify handler, and puts no handler into a stage it was not in
\* (a compare-worker only while the record has no result), keeps the
\* stage and code invariants.
LEMMA QuietStep ==
  ASSUME RInv,
         job' = job, codeShown' = codeShown, order' = order, ntf' = ntf,
         \A v \in CW : cw'[v].pc \in ComputePcs =>
                         cw[v].pc \in ComputePcs \/ ~job.result,
         \A v \in PW : pw'[v].pc \in PaidPcs => pw[v].pc \in PaidPcs,
         \A v \in PW : pw'[v].pc \in OrderPcs => pw[v].pc \in OrderPcs
  PROVE  ComputeStage' /\ PayStage' /\ CodeInv'
BY DEF RInv, Stages, ComputeStage, PayStage, CodeInv, Terminal

\* The compare-worker's steps.
LEMMA RInvCompute ==
  ASSUME RInv, NEW w \in CW, ComputeStep(w)
  PROVE  BusyArmed(cw', CW) /\ BusyArmed(pw', PW)
         /\ ComputeStage' /\ PayStage' /\ CodeInv'
<1>a. /\ cw \in [CW -> Handler] /\ job \in Job
      /\ BusyArmed(cw, CW) /\ BusyArmed(pw, PW)
      /\ ComputeStage /\ PayStage /\ CodeInv
  BY DEF RInv, IInv, TypeOK, Stages
<1>b. /\ pw' = pw /\ codeShown' = codeShown /\ order' = order /\ ntf' = ntf
  BY DEF ComputeStep, CDeliver, CClaim, CLockAcquired, CLockBusy, CGet,
         CMark, CWorkOk, CWorkFail, CPersist, CReget, CEnqueueOk,
         CEnqueueErr, CReturn
<1>x. \A v \in CW : Busy(cw, v) /\ Busy(cw, w) => v = w
  BY BusyExclusive
<1>1. CASE CDeliver(w) \/ CClaim(w)
  <2>1. job' = job /\ \E i : cw' = [cw EXCEPT ![w] = Start(i)]
    BY <1>1 DEF CDeliver, CClaim, Deliver1, Claim1
  <2>2. BusyArmed(cw', CW)
    BY <2>1, <1>a, ArmedMoves
  <2>3. \A v \in CW : cw'[v].pc \in ComputePcs => cw[v].pc \in ComputePcs
    BY <2>1, <1>a DEF Start, ComputePcs
  <2> QED
    BY <2>1, <2>2, <2>3, <1>a, <1>b, QuietStep
<1>2. CASE CLockAcquired(w) \/ CLockBusy(w) \/ CReturn(w)
  <2>1. /\ job' = job
        /\ \/ cw' = [cw EXCEPT ![w].pc = "get", ![w].held = TRUE]
           \/ cw' = [cw EXCEPT ![w].pc = "ret", ![w].ret = "ack"]
           \/ cw' = [cw EXCEPT ![w] = Idle]
    BY <1>2 DEF CLockAcquired, LockAcquired, CLockBusy, LockBusy, CReturn,
                Return1
  <2>2. BusyArmed(cw', CW)
    BY <2>1, <1>a, ArmedMoves
  <2>3. \A v \in CW : cw'[v].pc \in ComputePcs => cw[v].pc \in ComputePcs
    BY <2>1, <1>a DEF Idle, Handler, ComputePcs
  <2> QED
    BY <2>1, <2>2, <2>3, <1>a, <1>b, QuietStep
\* Get enters "mark" only on a record without a result.
<1>3. CASE CGet(w)
  <2>1. /\ job' = job /\ cw[w].pc = "get"
        /\ \/ cw' = [cw EXCEPT ![w].pc = "ret", ![w].ret = "ack"]
           \/ cw' = [cw EXCEPT ![w].pc = "enqueue"]
           \/ cw' = [cw EXCEPT ![w].pc = "mark"] /\ ~job.result
    BY <1>3 DEF CGet, CGo, CRet
  <2>2. BusyArmed(cw', CW)
    BY <2>1, <1>a, ArmedMoves DEF Busy
  <2>3. \A v \in CW : cw'[v].pc \in ComputePcs =>
                        cw[v].pc \in ComputePcs \/ ~job.result
    BY <2>1, <1>a DEF Handler, ComputePcs
  <2> QED
    BY <2>1, <2>2, <2>3, <1>a, <1>b, QuietStep
<1>4. CASE CWorkOk(w) \/ CReget(w) \/ CEnqueueOk(w) \/ CEnqueueErr(w)
  <2>1. /\ job' = job
        /\ \/ cw' = [cw EXCEPT ![w].pc = "persist"] /\ cw[w].pc = "work"
           \/ cw' = [cw EXCEPT ![w].pc = "enqueue"] /\ cw[w].pc = "reget"
           \/ \E r \in {"ack", "keep"} :
                cw' = [cw EXCEPT ![w].pc = "ret", ![w].ret = r]
    BY <1>4 DEF CWorkOk, CReget, CEnqueueOk, CEnqueueErr, CGo, CRet
  <2>2. BusyArmed(cw', CW)
    BY <2>1, <1>a, ArmedMoves DEF Busy
  <2>3. \A v \in CW : cw'[v].pc \in ComputePcs => cw[v].pc \in ComputePcs
    BY <2>1, <1>a DEF Handler, ComputePcs
  <2> QED
    BY <2>1, <2>2, <2>3, <1>a, <1>b, QuietStep
\* Mark keeps the (absent) result; the record shows no code.
<1>5. CASE CMark(w)
  <2>1. /\ cw[w].pc = "mark" /\ cw' = [cw EXCEPT ![w].pc = "work"]
        /\ job' = Update(job, MarkProcessing(job))
    BY <1>5 DEF CMark, CGo
  <2>2. ~job.result /\ ~codeShown
    BY <2>1, <1>a DEF ComputeStage, CodeInv, ComputePcs
  <2>3. /\ job'.result = job.result
        /\ job'.status \in {job.status, "processing"}
        /\ (job'.status = Absent <=> job.status = Absent)
    BY <2>1, <1>a DEF Update, MarkProcessing, Job, Absent
  <2>4. BusyArmed(cw', CW)
    BY <2>1, <1>a, ArmedMoves DEF Busy
  <2>5. ComputeStage' /\ PayStage' /\ CodeInv'
    BY <2>1, <2>2, <2>3, <1>a, <1>b
    DEF ComputeStage, PayStage, CodeInv, Handler, ComputePcs, PaidPcs,
        OrderPcs
  <2> QED
    BY <2>4, <2>5, <1>a, <1>b
\* A failed download, conversion, diff or upload: the record shows no code.
<1>6. CASE CWorkFail(w)
  <2>1. /\ cw[w].pc = "work"
        /\ cw' = [cw EXCEPT ![w].pc = "ret", ![w].ret = "ack"]
        /\ job' = Update(job, FailJob(job))
    BY <1>6 DEF CWorkFail, CRet
  <2>2. ~job.result /\ ~codeShown
    BY <2>1, <1>a DEF ComputeStage, CodeInv, ComputePcs
  <2>3. /\ job'.result = job.result
        /\ job'.status \in {job.status, "failed"}
        /\ (job'.status = Absent <=> job.status = Absent)
    BY <2>1, <1>a DEF Update, FailJob, Job, Absent
  <2>4. BusyArmed(cw', CW)
    BY <2>1, <1>a, ArmedMoves
  <2>5. ComputeStage' /\ PayStage' /\ CodeInv'
    BY <2>1, <2>2, <2>3, <1>a, <1>b
    DEF ComputeStage, PayStage, CodeInv, Handler, ComputePcs, PaidPcs,
        OrderPcs
  <2> QED
    BY <2>4, <2>5, <1>a, <1>b
\* Persist stores the result; the lease keeps every other compare-worker
\* out of the computing stages.
<1>7. CASE CPersist(w)
  <2>1. /\ cw[w].pc = "persist" /\ cw' = [cw EXCEPT ![w].pc = "reget"]
        /\ job' = Update(job, PersistResult(job))
    BY <1>7 DEF CPersist, CGo
  <2>2. ~job.result /\ ~codeShown
    BY <2>1, <1>a DEF ComputeStage, CodeInv, ComputePcs
  <2>3. /\ job.result => job'.result
        /\ job'.status = job.status
        /\ job.status = Absent => job' = job
    BY <2>1, <1>a DEF Update, PersistResult, Job, Absent
  <2>4. \A v \in CW : cw'[v].pc \notin ComputePcs
    <3>1. \A v \in CW : v # w => cw[v].pc \notin ComputePcs
      BY <2>1, <1>x DEF Busy, ComputePcs
    <3> QED
      BY <3>1, <2>1, <1>a DEF ComputePcs
  <2>5. \A v \in PW : pw[v].pc \notin PaidPcs
    BY <2>2, <1>a DEF PayStage, PaidPcs, OrderPcs
  <2>6. BusyArmed(cw', CW)
    BY <2>1, <1>a, ArmedMoves DEF Busy
  <2>7. ComputeStage' /\ PayStage' /\ CodeInv'
    BY <2>2, <2>3, <2>4, <2>5, <1>a, <1>b
    DEF ComputeStage, PayStage, CodeInv, OrderPcs, PaidPcs
  <2> QED
    BY <2>6, <2>7, <1>a, <1>b
<1> QED
  BY <1>1, <1>2, <1>3, <1>4, <1>5, <1>6, <1>7 DEF ComputeStep

\* The payment-worker's steps.
LEMMA RInvPaygate ==
  ASSUME RInv, NEW w \in PW, PaygateStep(w)
  PROVE  BusyArmed(cw', CW) /\ BusyArmed(pw', PW)
         /\ ComputeStage' /\ PayStage' /\ CodeInv'
<1>a. /\ pw \in [PW -> Handler] /\ job \in Job
      /\ BusyArmed(cw, CW) /\ BusyArmed(pw, PW)
      /\ ComputeStage /\ PayStage /\ CodeInv
  BY DEF RInv, IInv, TypeOK, Stages
<1>b. cw' = cw /\ ntf' = ntf
  BY DEF PaygateStep, PDeliver, PClaim, PLockAcquired, PLockBusy, PGet,
         PRelease, PFree, POrderOk, POrderErr, PApply, PFail, PReturn
<1>x. \A v \in PW : Busy(pw, v) /\ Busy(pw, w) => v = w
  BY BusyExclusive
\* A payment-worker in a stage after its Get is the only busy one, so the
\* others are in none of the stages.
<1>y. Busy(pw, w) => \A v \in PW \ {w} : pw[v].pc \notin PaidPcs
  BY <1>x DEF Busy, PaidPcs
<1>1. CASE PDeliver(w) \/ PClaim(w)
  <2>1. /\ job' = job /\ codeShown' = codeShown /\ order' = order
        /\ \E i : pw' = [pw EXCEPT ![w] = Start(i)]
    BY <1>1 DEF PDeliver, PClaim, Deliver1, Claim1
  <2>2. BusyArmed(pw', PW)
    BY <2>1, <1>a, ArmedMoves
  <2>3. /\ \A v \in PW : pw'[v].pc \in PaidPcs => pw[v].pc \in PaidPcs
        /\ \A v \in PW : pw'[v].pc \in OrderPcs => pw[v].pc \in OrderPcs
    BY <2>1, <1>a DEF Start, PaidPcs, OrderPcs
  <2>4. \A v \in CW : cw'[v].pc \in ComputePcs => cw[v].pc \in ComputePcs
    BY <1>b
  <2> QED
    BY <2>1, <2>2, <2>3, <2>4, <1>a, <1>b, QuietStep
<1>2. CASE PLockAcquired(w) \/ PLockBusy(w) \/ PReturn(w)
  <2>1. /\ job' = job /\ codeShown' = codeShown /\ order' = order
        /\ \/ pw' = [pw EXCEPT ![w].pc = "get", ![w].held = TRUE]
           \/ pw' = [pw EXCEPT ![w].pc = "ret", ![w].ret = "ack"]
           \/ pw' = [pw EXCEPT ![w] = Idle]
    BY <1>2 DEF PLockAcquired, LockAcquired, PLockBusy, LockBusy, PReturn,
                Return1
  <2>2. BusyArmed(pw', PW)
    BY <2>1, <1>a, ArmedMoves
  <2>3. /\ \A v \in PW : pw'[v].pc \in PaidPcs => pw[v].pc \in PaidPcs
        /\ \A v \in PW : pw'[v].pc \in OrderPcs => pw[v].pc \in OrderPcs
    BY <2>1, <1>a DEF Idle, Handler, PaidPcs, OrderPcs
  <2>4. \A v \in CW : cw'[v].pc \in ComputePcs => cw[v].pc \in ComputePcs
    BY <1>b
  <2> QED
    BY <2>1, <2>2, <2>3, <2>4, <1>a, <1>b, QuietStep
\* Get takes the order path only on a record that is not released, shows
\* no code and is unpaid, so no code has been shown.
<1>3. CASE PGet(w)
  <2>1. /\ job' = job /\ codeShown' = codeShown /\ order' = order
        /\ pw[w].pc = "get"
        /\ \/ \E r \in {"ack", "keep"} :
                pw' = [pw EXCEPT ![w].pc = "ret", ![w].ret = r]
           \/ \E x \in {"release", "free"} :
                pw' = [pw EXCEPT ![w].pc = x] /\ job.result
           \/ /\ pw' = [pw EXCEPT ![w].pc = "order"]
              /\ job.result /\ ~Terminal(job) /\ ~job.paid
              /\ ~(job.status = "awaiting_payment" /\ job.code)
    BY <1>3 DEF PGet, PGo, PRet
  <2>2. BusyArmed(pw', PW)
    BY <2>1, <1>a, ArmedMoves DEF Busy
  <2>3. pw'[w].pc \in OrderPcs => ~codeShown /\ job.status # "ready"
    BY <2>1, <1>a DEF CodeInv, Terminal, Handler, OrderPcs
  <2>4. pw'[w].pc \in PaidPcs => job.result
    BY <2>1, <1>a DEF Handler, PaidPcs
  <2>5. \A v \in PW \ {w} : pw'[v] = pw[v]
    BY <2>1, <1>a
  <2>6. PayStage'
    BY <2>1, <2>3, <2>4, <2>5, <1>a DEF PayStage
  <2> QED
    BY <2>1, <2>2, <2>6, <1>a, <1>b DEF ComputeStage, CodeInv
\* The release closures write "ready" on a record with a result.
<1>4. CASE PRelease(w) \/ PFree(w)
  <2>1. /\ pw[w].pc \in {"release", "free"}
        /\ pw' = [pw EXCEPT ![w].pc = "ret", ![w].ret = "ack"]
        /\ \/ job' = Update(job, ReleasePaid(job))
           \/ job' = Update(job, ReleaseFree(job))
        /\ codeShown' = codeShown /\ order' = order
    BY <1>4 DEF PRelease, PFree, PRet
  <2>2. job.result /\ job.status # Absent
    BY <2>1, <1>a DEF PayStage, PaidPcs, CodeInv
  <2>3. job'.result /\ Terminal(job') /\ job'.status # Absent
    BY <2>1, <2>2, <1>a DEF Update, ReleasePaid, ReleaseFree, Job, Terminal,
                            Absent
  <2>4. \A v \in PW : pw'[v].pc \notin PaidPcs
    BY <2>1, <1>a, <1>y DEF Busy, PaidPcs
  <2>5. \A v \in CW : cw[v].pc \notin ComputePcs
    BY <2>2, <1>a DEF ComputeStage
  <2>6. BusyArmed(pw', PW)
    BY <2>1, <1>a, ArmedMoves
  <2> QED
    BY <2>1, <2>3, <2>4, <2>5, <2>6, <1>a, <1>b
    DEF ComputeStage, PayStage, CodeInv, OrderPcs, PaidPcs, Terminal
\* The order call changes only the order; the provider refuses a paid
\* order, so a notification in flight still finds it paid.
<1>5. CASE POrderOk(w) \/ POrderErr(w)
  <2>1. /\ pw[w].pc = "order"
        /\ \/ pw' = [pw EXCEPT ![w].pc = "apply"] /\ order \in {"none", "open"}
                                                  /\ order' = "open"
           \/ pw' = [pw EXCEPT ![w].pc = "fail"]
              /\ order' \in {order, IF order = "none" THEN "open" ELSE order}
        /\ job' = job /\ codeShown' = codeShown
    BY <1>5 DEF POrderOk, POrderErr, PGo
  <2>2. BusyArmed(pw', PW)
    BY <2>1, <1>a, ArmedMoves DEF Busy
  <2>3. /\ \A v \in PW : pw'[v].pc \in PaidPcs => pw[v].pc \in PaidPcs
        /\ \A v \in PW : pw'[v].pc \in OrderPcs => pw[v].pc \in OrderPcs
    BY <2>1, <1>a DEF Handler, PaidPcs, OrderPcs
  <2>4. /\ ntf'.pc # "idle" => order' = "paid"
        /\ order' = "paid" => codeShown'
    BY <2>1, <1>a, <1>b DEF CodeInv
  <2> QED
    BY <2>1, <2>2, <2>3, <2>4, <1>a, <1>b
    DEF ComputeStage, PayStage, CodeInv, PaidPcs, OrderPcs
\* The code is persisted on a record with a result; it shows as
\* awaiting payment unless the record was cancelled or paid meanwhile.
<1>6. CASE PApply(w)
  <2>1. /\ pw[w].pc = "apply"
        /\ pw' = [pw EXCEPT ![w].pc = "ret", ![w].ret = "ack"]
        /\ job' = Update(job, AwaitPayment(job))
        /\ codeShown' = (codeShown \/ job'.code)
        /\ order' = order
    BY <1>6 DEF PApply, PRet
  <2>2. job.result /\ job.status # Absent /\ ~codeShown
    BY <2>1, <1>a DEF PayStage, PaidPcs, OrderPcs, CodeInv
  <2>3. /\ job'.result /\ job'.status # Absent
        /\ \/ job'.status = "awaiting_payment" /\ job'.code
           \/ job'.paid
           \/ job' = job /\ job.status = "cancelled"
    BY <2>1, <2>2, <1>a DEF Update, AwaitPayment, Job, Absent
  <2>4. \A v \in PW : pw'[v].pc \notin PaidPcs
    BY <2>1, <1>a, <1>y DEF Busy, PaidPcs
  <2>5. \A v \in CW : cw[v].pc \notin ComputePcs
    BY <2>2, <1>a DEF ComputeStage
  <2>6. BusyArmed(pw', PW)
    BY <2>1, <1>a, ArmedMoves
  <2>7. CodeInv'
    BY <2>1, <2>2, <2>3, <1>a, <1>b DEF CodeInv, Terminal
  <2> QED
    BY <2>4, <2>5, <2>6, <2>7, <1>a, <1>b DEF ComputeStage, PayStage, OrderPcs,
                                        PaidPcs
\* The order failed: the record is marked failed and shows no code.
<1>7. CASE PFail(w)
  <2>1. /\ pw[w].pc = "fail"
        /\ pw' = [pw EXCEPT ![w].pc = "ret", ![w].ret = "ack"]
        /\ job' = Update(job, FailJob(job))
        /\ codeShown' = codeShown /\ order' = order
    BY <1>7 DEF PFail, PRet
  <2>2. job.result /\ job.status # Absent /\ ~codeShown
    BY <2>1, <1>a DEF PayStage, PaidPcs, OrderPcs, CodeInv
  <2>3. job'.status # Absent
    BY <2>1, <2>2, <1>a DEF Update, FailJob, Job, Absent
  <2>4. \A v \in PW : pw'[v].pc \notin PaidPcs
    BY <2>1, <1>a, <1>y DEF Busy, PaidPcs
  <2>5. \A v \in CW : cw[v].pc \notin ComputePcs
    BY <2>2, <1>a DEF ComputeStage
  <2>6. BusyArmed(pw', PW)
    BY <2>1, <1>a, ArmedMoves
  <2> QED
    BY <2>1, <2>2, <2>3, <2>4, <2>5, <2>6, <1>a, <1>b
    DEF ComputeStage, PayStage, CodeInv, OrderPcs, PaidPcs
<1> QED
  BY <1>1, <1>2, <1>3, <1>4, <1>5, <1>6, <1>7 DEF PaygateStep

\* The intake, crashes, lease expiry, the user and the payment provider.
LEMMA RInvEnv ==
  ASSUME RInv,
         \/ IntakeStep
         \/ \E w \in Workers : Crash(w)
         \/ \E k \in LeaseKeys : LeaseExpire(k)
         \/ Pay \/ NDeliver \/ NReject \/ NAccept \/ NUpdate
         \/ KStart \/ KCloseOk \/ KCloseErr \/ KUpdate
         \/ UNCHANGED vars
  PROVE  BusyArmed(cw', CW) /\ BusyArmed(pw', PW)
         /\ ComputeStage' /\ PayStage' /\ CodeInv'
<1>a. /\ cw \in [CW -> Handler] /\ pw \in [PW -> Handler] /\ job \in Job
      /\ BusyArmed(cw, CW) /\ BusyArmed(pw, PW)
      /\ ComputeStage /\ PayStage /\ CodeInv
  BY DEF RInv, IInv, TypeOK, Stages
\* Steps that change neither handler nor anything the stages read.
<1>b. ASSUME UNCHANGED <<cw, pw, job, codeShown, order, ntf>>
      PROVE  BusyArmed(cw', CW) /\ BusyArmed(pw', PW)
             /\ ComputeStage' /\ PayStage' /\ CodeInv'
  BY <1>a, <1>b, QuietStep
\* The intake creates the record with no result, before anything was shown
\* for it, or fails it: "failed" is terminal for a shown code.
<1>1. CASE IntakeStep
  <2>0. UNCHANGED <<cw, pw, codeShown, order, ntf>>
    BY <1>1, IntakeFrame
  <2>1. CASE job' = job
    BY <2>0, <2>1, <1>b
  <2>2. CASE job.status = Absent /\ job' = NewJob
    <3>1. ~job.result /\ ~codeShown
      BY <2>2, <1>a DEF CodeInv
    <3>2. \A v \in PW : pw[v].pc \notin PaidPcs
      BY <3>1, <1>a DEF PayStage
    <3>3. job'.status = "processing" /\ ~job'.result
      BY <2>2 DEF NewJob, NoJob
    <3> QED
      BY <2>0, <3>1, <3>2, <3>3, <1>a
      DEF ComputeStage, PayStage, CodeInv, PaidPcs, OrderPcs, Absent
  <2>3. CASE job' = Update(job, FailJob(job))
    <3>1. /\ job'.result = job.result /\ job'.paid = job.paid
          /\ job'.code = job.code
          /\ job'.status \in {job.status, "failed"}
          /\ job.status = Absent => job' = job
      BY <2>3, <1>a DEF Update, FailJob, Job
    <3> QED
      BY <2>0, <3>1, <1>a DEF ComputeStage, PayStage, CodeInv, Terminal, Absent
  <2> QED
    BY <1>1, <2>1, <2>2, <2>3, IntakeFrame
\* A crash resets one handler.
<1>2. ASSUME NEW w \in Workers, Crash(w)
      PROVE  BusyArmed(cw', CW) /\ BusyArmed(pw', PW)
             /\ ComputeStage' /\ PayStage' /\ CodeInv'
  <2>1. /\ UNCHANGED <<job, codeShown, order, ntf>>
        /\ \/ w \in CW /\ cw' = [cw EXCEPT ![w] = Idle] /\ pw' = pw
           \/ w \in PW /\ pw' = [pw EXCEPT ![w] = Idle] /\ cw' = cw
    BY <1>2 DEF Crash
  <2>2. BusyArmed(cw', CW) /\ BusyArmed(pw', PW)
    BY <2>1, <1>a, ArmedMoves
  <2>3. /\ \A v \in CW : cw'[v].pc \in ComputePcs => cw[v].pc \in ComputePcs
        /\ \A v \in PW : pw'[v].pc \in PaidPcs => pw[v].pc \in PaidPcs
        /\ \A v \in PW : pw'[v].pc \in OrderPcs => pw[v].pc \in OrderPcs
    BY <2>1, <1>a DEF Idle, ComputePcs, PaidPcs, OrderPcs
  <2> QED
    BY <2>1, <2>2, <2>3, QuietStep
<1>3. CASE \/ \E k \in LeaseKeys : LeaseExpire(k)
           \/ KStart \/ KCloseErr \/ NReject \/ UNCHANGED vars
  <2>1. UNCHANGED <<cw, pw, job, codeShown, order>>
        /\ (ntf'.pc # "idle" => ntf.pc # "idle")
    BY <1>3 DEF LeaseExpire, KStart, KCloseErr, NReject, vars
  <2> QED
    BY <2>1, <1>a DEF ComputeStage, PayStage, CodeInv
\* The user pays an open order only once its code is shown.
<1>4. CASE Pay
  BY <1>4, <1>a DEF Pay, ComputeStage, PayStage, CodeInv
\* The provider notifies only a paid order.
<1>5. CASE NDeliver \/ NAccept
  <2>1. /\ UNCHANGED <<cw, pw, job, codeShown, order>>
        /\ (ntf.pc = "idle" => order = "paid")
    BY <1>5 DEF NDeliver, NAccept
  <2> QED
    BY <2>1, <1>a DEF ComputeStage, PayStage, CodeInv
\* The provider refuses to close a paid order.
<1>6. CASE KCloseOk
  <2>1. /\ UNCHANGED <<cw, pw, job, codeShown, ntf>>
        /\ order # "paid" /\ order' # "paid"
    BY <1>6 DEF KCloseOk
  <2> QED
    BY <2>1, <1>a DEF ComputeStage, PayStage, CodeInv
\* The notify closure records the payment; a notification in flight means
\* a code was shown, so no payment-worker is on the order path.
<1>7. CASE NUpdate
  <2>1. /\ UNCHANGED <<cw, pw, codeShown, order>>
        /\ ntf.pc = "update" /\ ntf'.pc = "idle"
        /\ job' \in {job, Update(job, NotifyPaid(job))}
    BY <1>7 DEF NUpdate
  <2>2. codeShown
    BY <2>1, <1>a DEF CodeInv
  <2>3. \A v \in PW : pw[v].pc \notin OrderPcs
    BY <2>2, <1>a DEF PayStage
  <2>4. /\ job'.result = job.result
        /\ (job'.status = Absent <=> job.status = Absent)
        /\ job' = job \/ (job.status # Absent => job'.paid)
    <3>1. CASE job' = job
      BY <3>1
    <3>2. CASE job' = Update(job, NotifyPaid(job))
      BY <3>2, <1>a DEF Update, NotifyPaid, Job, Absent
    <3> QED
      BY <2>1, <3>1, <3>2
  <2>5. ComputeStage' /\ PayStage'
    BY <2>1, <2>3, <2>4, <1>a DEF ComputeStage, PayStage, OrderPcs
  <2>6. CodeInv'
    BY <2>1, <2>2, <2>4, <1>a DEF CodeInv
  <2> QED
    BY <2>1, <2>5, <2>6, <1>a
\* The cancel closure writes "cancelled" or leaves a paid record alone.
<1>8. CASE KUpdate
  <2>1. /\ UNCHANGED <<cw, pw, codeShown, order, ntf>>
        /\ job' = Update(job, CancelJob(job))
    BY <1>8 DEF KUpdate
  <2>2. /\ job'.result = job.result
        /\ job'.status \in {job.status, "cancelled"}
        /\ (job'.status = Absent <=> job.status = Absent)
        /\ job'.status # job.status => Terminal(job')
        /\ job'.paid = job.paid /\ job'.code = job.code
    BY <2>1, <1>a DEF Update, CancelJob, Job, Absent, Terminal
  <2> QED
    BY <2>1, <2>2, <1>a DEF ComputeStage, PayStage, CodeInv, Terminal
<1> QED
  BY <1>1, <1>2, <1>3, <1>4, <1>5, <1>6, <1>7, <1>8

LEMMA RInvInit == Init => RInv
<1> SUFFICES ASSUME Init PROVE RInv
  OBVIOUS
<1>1. /\ \A w \in CW : cw[w] = Idle
      /\ \A w \in PW : pw[w] = Idle
      /\ job = NoJob /\ ~codeShown /\ order = "none" /\ ntf.pc = "idle"
  BY DEF Init
<1> QED
  BY <1>1, IInvInit, LInvInit
  DEF RInv, LInv, Stages, BusyArmed, Busy, ComputeStage, PayStage, CodeInv,
      Idle, NoJob, ComputePcs, PaidPcs, OrderPcs

LEMMA RInvNext ==
  ASSUME ~RefreshFaults
  PROVE  RInv /\ [Next]_vars => RInv'
<1> SUFFICES ASSUME RInv, [Next]_vars PROVE RInv'
  OBVIOUS
<1>1. IInv'
  BY IInvNext DEF RInv
<1>2. HoldsLease'
  BY LInvNext DEF RInv, IInv, LInv
<1>3. BusyArmed(cw', CW) /\ BusyArmed(pw', PW)
      /\ ComputeStage' /\ PayStage' /\ CodeInv'
  BY RInvCompute, RInvPaygate, RInvEnv DEF Next
<1> QED
  BY <1>1, <1>2, <1>3 DEF RInv, Stages

\* Every closure but the two release-and-record ones leaves Paid as it was.
LEMMA MutatorsPaid ==
  ASSUME NEW j \in Job
  PROVE  /\ Update(j, MarkProcessing(j)).paid = j.paid
         /\ Update(j, PersistResult(j)).paid = j.paid
         /\ Update(j, FailJob(j)).paid = j.paid
         /\ Update(j, ReleasePaid(j)).paid = j.paid
         /\ Update(j, AwaitPayment(j)).paid = j.paid
         /\ Update(j, CancelJob(j)).paid = j.paid
BY DEF Update, Job, MarkProcessing, PersistResult, FailJob, ReleasePaid,
       AwaitPayment, CancelJob

LEMMA PayInvInit == Init => PayInv
<1> SUFFICES ASSUME Init PROVE PayInv
  OBVIOUS
<1>1. \A w \in PW : pw[w] = Idle
  BY DEF Init
<1> QED
  BY <1>1, TypeInit DEF Init, PayInv, NoJob, Idle, OrderPcs, Absent

\* No closure makes a record missing: Update leaves a missing key alone.
LEMMA MutatorsKeepAbsent ==
  ASSUME NEW j \in Job
  PROVE  \A n \in {Update(j, MarkProcessing(j)), Update(j, PersistResult(j)),
                   Update(j, FailJob(j)), Update(j, ReleasePaid(j)),
                   Update(j, ReleaseFree(j)), Update(j, AwaitPayment(j)),
                   Update(j, NotifyPaid(j)), Update(j, CancelJob(j))} :
           n.status = Absent => n = j
BY DEF Update, Job, MarkProcessing, PersistResult, FailJob, ReleasePaid,
       ReleaseFree, AwaitPayment, NotifyPaid, CancelJob, Absent

LEMMA PayInvNext == PayInv /\ [Next]_vars => PayInv'
<1> SUFFICES ASSUME PayInv, [Next]_vars PROVE PayInv'
  OBVIOUS
<1>0. TypeOK'
  BY TypeNext DEF PayInv
<1>a. job \in Job /\ pw \in [PW -> Handler]
  BY DEF PayInv, TypeOK
\* A step that records no payment, empties no record and moves nobody onto
\* the free or the order path, the order, the intake and the notify
\* handler left alone.
<1>b. ASSUME job'.paid => job.paid, job'.status = Absent => job' = job,
             UNCHANGED <<order, itk, ntf>>,
             \A v \in PW : pw'[v].pc = "free" => pw[v].pc = "free",
             \A v \in PW : pw'[v].pc \in OrderPcs => pw[v].pc \in OrderPcs
      PROVE  PayInv'
  BY <1>b, <1>0 DEF PayInv
\* The intake runs only before its reply, so before any order is paid.
<1>1. CASE IntakeStep
  <2>1. order # "paid"
    BY <1>1, IntakeFrame DEF PayInv
  <2>2. /\ job'.paid => job.paid
        /\ job'.status = Absent => job' = job
    BY <1>1, <1>a, IntakeFrame, MutatorsPaid, MutatorsKeepAbsent
    DEF NewJob, NoJob, Absent
  <2> QED
    BY <1>1, <2>1, <2>2, <1>0, IntakeFrame DEF PayInv
<1>2. ASSUME NEW w \in CW, ComputeStep(w) PROVE PayInv'
  <2>1. UNCHANGED <<pw, order, itk, ntf>>
    BY <1>2 DEF ComputeStep, CDeliver, CClaim, CLockAcquired, CLockBusy, CGet,
                CMark, CWorkOk, CWorkFail, CPersist, CReget, CEnqueueOk,
                CEnqueueErr, CReturn
  <2>2. \/ job' = job
        \/ job' = Update(job, MarkProcessing(job))
        \/ job' = Update(job, FailJob(job))
        \/ job' = Update(job, PersistResult(job))
    BY <1>2 DEF ComputeStep, CDeliver, CClaim, CLockAcquired, CLockBusy, CGet,
                CMark, CWorkOk, CWorkFail, CPersist, CReget, CEnqueueOk,
                CEnqueueErr, CReturn
  <2> QED
    BY <2>1, <2>2, <1>a, <1>b, MutatorsPaid, MutatorsKeepAbsent
<1>3. ASSUME NEW w \in PW, PaygateStep(w) PROVE PayInv'
  \* Only worker w moves, onto the free path only at a zero fee and onto
  \* the order path only at a non-zero one.
  <2>1. /\ UNCHANGED <<ntf, itk>>
        /\ \A v \in PW \ {w} : pw'[v] = pw[v]
        /\ pw'[w].pc = "free" => Fee = 0
        /\ pw'[w].pc \in OrderPcs => Fee # 0 \/ pw[w].pc \in OrderPcs
    <3>1. CASE PDeliver(w) \/ PClaim(w)
      BY <3>1, <1>a DEF PDeliver, PClaim, Deliver1, Claim1, Start, Handler,
                        OrderPcs
    <3>2. CASE PLockAcquired(w) \/ PLockBusy(w) \/ PReturn(w)
      BY <3>2, <1>a DEF PLockAcquired, PLockBusy, LockAcquired, LockBusy,
                        PReturn, Return1, Idle, Handler, OrderPcs
    <3>3. CASE PGet(w)
      BY <3>3, <1>a DEF PGet, PGo, PRet, Handler, OrderPcs
    <3>4. CASE PRelease(w) \/ PFree(w) \/ POrderOk(w) \/ POrderErr(w)
               \/ PApply(w) \/ PFail(w)
      BY <3>4, <1>a DEF PRelease, PFree, POrderOk, POrderErr, PApply, PFail,
                        PGo, PRet, Handler, OrderPcs
    <3> QED
      BY <1>3, <3>1, <3>2, <3>3, <3>4 DEF PaygateStep
  <2>2. /\ \A v \in PW : pw'[v].pc = "free" => Fee = 0
        /\ \A v \in PW : pw'[v].pc \in OrderPcs => Fee # 0
    BY <2>1, <1>a DEF PayInv
  \* Creating or failing to create an order reopens no paid one, and
  \* happens on the order path, at a non-zero fee.
  <2>3. CASE POrderOk(w) \/ POrderErr(w)
    <3>1. /\ job' = job /\ pw[w].pc = "order"
          /\ (order' = order \/ (order # "paid" /\ order' = "open"))
      BY <2>3 DEF POrderOk, POrderErr
    <3>2. Fee # 0
      BY <3>1 DEF PayInv, OrderPcs
    <3> QED
      BY <3>1, <3>2, <2>1, <2>2, <1>0 DEF PayInv
  \* The free release records the payment, at a zero fee.
  <2>4. CASE PFree(w)
    <3>1. order' = order /\ Fee = 0 /\ job' = Update(job, ReleaseFree(job))
      BY <2>4, <1>a DEF PFree, PayInv
    <3>2. job'.status = Absent => job' = job
      BY <3>1, <1>a, MutatorsKeepAbsent
    <3> QED
      BY <3>1, <3>2, <2>1, <2>2, <1>0 DEF PayInv
  <2>5. CASE ~POrderOk(w) /\ ~POrderErr(w) /\ ~PFree(w)
    <3>1. order' = order
      BY <1>3, <2>5 DEF PaygateStep, PDeliver, PClaim, PLockAcquired, PLockBusy,
                        PGet, PRelease, PApply, PFail, PReturn
    <3>2. \/ job' = job
          \/ job' = Update(job, ReleasePaid(job))
          \/ job' = Update(job, AwaitPayment(job))
          \/ job' = Update(job, FailJob(job))
      BY <1>3, <2>5 DEF PaygateStep, PDeliver, PClaim, PLockAcquired, PLockBusy,
                        PGet, PRelease, PApply, PFail, PReturn
    <3>3. job'.paid => job.paid
      BY <3>2, <1>a, MutatorsPaid
    <3>4. job'.status = Absent => job' = job
      BY <3>2, <1>a, MutatorsKeepAbsent
    <3> QED
      BY <3>1, <3>3, <3>4, <2>1, <2>2, <1>0 DEF PayInv
  <2> QED
    BY <2>3, <2>4, <2>5
<1>4. ASSUME NEW w \in Workers, Crash(w) PROVE PayInv'
  <2>1. pw' = pw \/ pw' = [pw EXCEPT ![w] = Idle]
    BY <1>4 DEF Crash
  <2>2. UNCHANGED <<job, order, itk, ntf>>
    BY <1>4 DEF Crash
  <2>3. /\ \A v \in PW : pw'[v].pc = "free" => pw[v].pc = "free"
        /\ \A v \in PW : pw'[v].pc \in OrderPcs => pw[v].pc \in OrderPcs
    BY <2>1, <1>a DEF Idle, OrderPcs
  <2> QED
    BY <2>2, <2>3, <1>b
<1>5. CASE \/ \E k \in LeaseKeys : LeaseExpire(k)
           \/ KStart \/ KCloseErr \/ UNCHANGED vars
  <2>1. UNCHANGED <<job, order, itk, ntf, pw>>
    <3>1. CASE \E k \in LeaseKeys : LeaseExpire(k)
      BY <3>1 DEF LeaseExpire
    <3>2. CASE KStart \/ KCloseErr
      BY <3>2 DEF KStart, KCloseErr
    <3>3. CASE UNCHANGED vars
      BY <3>3 DEF vars
    <3> QED
      BY <1>5, <3>1, <3>2, <3>3
  <2> QED
    BY <2>1, <1>b
\* The user pays only after the intake's 200.
<1>6. CASE Pay
  BY <1>6, <1>0 DEF Pay, PayInv
<1>7. CASE NDeliver \/ NAccept \/ NReject
  BY <1>7, <1>0 DEF NDeliver, NAccept, NReject, PayInv
\* The notify handler records the payment of a paid order.
<1>8. CASE NUpdate
  <2>1. job'.status = Absent => job' = job
    BY <1>8, <1>a, MutatorsKeepAbsent DEF NUpdate
  <2> QED
    BY <1>8, <2>1, <1>0 DEF NUpdate, PayInv
\* Closing an unpaid order: no payment was notified.
<1>9. CASE KCloseOk
  BY <1>9, <1>0 DEF KCloseOk, PayInv
<1>10. CASE KUpdate
  <2>1. job'.paid => job.paid
    BY <1>10, <1>a, MutatorsPaid DEF KUpdate
  <2>2. job'.status = Absent => job' = job
    BY <1>10, <1>a, MutatorsKeepAbsent DEF KUpdate
  <2> QED
    BY <1>10, <2>1, <2>2, <1>b DEF KUpdate
<1> QED
  BY <1>1, <1>2, <1>3, <1>4, <1>5, <1>6, <1>7, <1>8, <1>9, <1>10 DEF Next

\* Spec invariant 3 for "ready", when the refresher keeps the leases and
\* the fee is not zero: no step of any worker, handler or failure path
\* takes a released job out of "ready".  A compare-worker that could still
\* mark or fail the job read it without a result and holds the compute
\* lease, so no result was stored since; a payment-worker that could still
\* fail it is on the order path, which no code was shown for, so no release
\* happened since; and the intake, whose failure Update overwrites any
\* status, has answered 200, since a released job at a non-zero fee was
\* paid for with the id of that answer.  With failing refreshes, or with
\* no fee, this breaks (configuration ready_lapse, run ready_reopened).
THEOREM ReadyFinal ==
  ASSUME ~RefreshFaults, Fee # 0
  PROVE  Spec => ReadyIsFinal
<1>1. Spec => [](RInv /\ PayInv)
  BY RInvInit, RInvNext, PayInvInit, PayInvNext, PTL DEF Spec
<1>2. RInv /\ PayInv /\ [Next]_vars
        => [job.status = "ready" => job'.status = "ready"]_vars
  <2> SUFFICES ASSUME RInv, PayInv, [Next]_vars, job.status = "ready"
               PROVE  job'.status = "ready"
    OBVIOUS
  <2>a. /\ job \in Job /\ job.paid /\ job.result
        /\ \A w \in CW : cw[w].pc \notin ComputePcs
        /\ \A w \in PW : pw[w].pc \notin OrderPcs
    BY DEF RInv, IInv, TypeOK, ReadyImpliesPaidAndResult, Stages,
           ComputeStage, PayStage
  <2>c. itk = "ok"
    BY <2>a DEF PayInv
  \* Every closure keeps a paid record with a result "ready"; the ones
  \* that would not (mark, fail) are run by nobody.
  <2>b. /\ Update(job, PersistResult(job)).status = "ready"
        /\ Update(job, ReleasePaid(job)).status = "ready"
        /\ Update(job, ReleaseFree(job)).status = "ready"
        /\ Update(job, AwaitPayment(job)).status = "ready"
        /\ Update(job, NotifyPaid(job)).status = "ready"
        /\ Update(job, CancelJob(job)).status = "ready"
    BY <2>a DEF Update, PersistResult, ReleasePaid, ReleaseFree,
                AwaitPayment, NotifyPaid, CancelJob, Absent
  <2>1. CASE \E w \in CW : ComputeStep(w)
    BY <2>1, <2>a, <2>b
    DEF ComputeStep, CDeliver, CClaim, CLockAcquired, CLockBusy, CGet,
        CMark, CWorkOk, CWorkFail, CPersist, CReget, CEnqueueOk,
        CEnqueueErr, CReturn, ComputePcs
  <2>2. CASE \E w \in PW : PaygateStep(w)
    BY <2>2, <2>a, <2>b
    DEF PaygateStep, PDeliver, PClaim, PLockAcquired, PLockBusy, PGet,
        PRelease, PFree, POrderOk, POrderErr, PApply, PFail, PReturn,
        OrderPcs
  <2>3. ~IntakeStep
    BY <2>c, IntakeFrame
  <2>4. CASE ~(\E w \in CW : ComputeStep(w)) /\ ~(\E w \in PW : PaygateStep(w))
    BY <2>4, <2>3, <2>b
    DEF Next, vars, Crash, LeaseExpire, Pay, NDeliver, NReject,
        NAccept, NUpdate, KStart, KCloseOk, KCloseErr, KUpdate, Absent
  <2> QED
    BY <2>1, <2>2, <2>4
<1> QED
  BY <1>1, <1>2, PTL DEF ReadyIsFinal, Spec
=============================================================================
