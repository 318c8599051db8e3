-------------------------- MODULE JobPipelineProofs --------------------------
(***************************************************************************)
(* Machine-checked proofs about JobPipeline, for every value of the        *)
(* constants: type correctness, and the download gate (a "ready" job is    *)
(* paid and has its result) through an inductive strengthening.            *)
(***************************************************************************)
EXTENDS JobPipeline, SequenceTheorems, TLAPS

\* A payment worker about to write "ready" on the release path read, in
\* its Get, a record that exists and has Paid = true; neither fact is
\* undone by any later write, since no closure clears Paid and none
\* deletes the record.
ReleaseSeesPaid ==
  \A w \in PW : pw[w].pc = "release" => job.paid /\ job.status # Absent

\* The inductive invariant behind ReadyImpliesPaidAndResult.
IInv ==
  /\ TypeOK
  /\ ReadyImpliesPaidAndResult
  /\ ReleaseSeesPaid

\* A store write from record j to record n keeps what the download gate
\* relies on: Paid and the result are never cleared and the record is
\* never deleted.
Grows(j, n) ==
  /\ j.paid => n.paid
  /\ j.result => n.result
  /\ j.status # Absent => n.status # Absent

\* A store write from j to n writes "ready" only with Paid and a result.
KeepsGate(j, n) ==
  (j.status = "ready" => j.paid /\ j.result) =>
    (n.status = "ready" => n.paid /\ n.result)

\* One step's effect on what the download gate relies on.
JobOK == Grows(job, job') /\ KeepsGate(job, job')

\* One step puts a payment worker at "release" only from a Get that read
\* an existing, paid record.
ReleaseStep ==
  \A v \in PW : pw'[v].pc = "release" =>
                  \/ pw[v].pc = "release"
                  \/ job.paid /\ job.status # Absent /\ job' = job

-----------------------------------------------------------------------------
(* Lemmas on the operators of the component modules. *)

\* Writing one entry of a stream keeps it a sequence of entry states
\* (an index outside the log leaves it unchanged).
LEMMA StreamExceptType ==
  ASSUME NEW s \in Seq(EntryStates), NEW i, NEW e \in EntryStates
  PROVE  [s EXCEPT ![i] = e] \in Seq(EntryStates)
<1>1. CASE i \in 1..Len(s)
  BY <1>1, ExceptSeq
<1>2. CASE i \notin 1..Len(s)
  <2>1. DOMAIN s = 1..Len(s)
    OBVIOUS
  <2>2. [s EXCEPT ![i] = e] = s
    BY <1>2, <2>1
  <2> QED
    BY <2>2
<1> QED
  BY <1>1, <1>2

\* The stream operations keep a stream a sequence of entry states, and the
\* entries a read can pick are log positions.
LEMMA StreamOpsType ==
  ASSUME NEW s \in Seq(EntryStates), NEW i
  PROVE  /\ XAdd(s) \in Seq(EntryStates)
         /\ Deliver(s, i) \in Seq(EntryStates)
         /\ XAck(s, i) \in Seq(EntryStates)
         /\ OldestNew(s) \subseteq Nat
         /\ PendingEntries(s) \subseteq Nat
<1>1. XAdd(s) \in Seq(EntryStates)
  BY DEF XAdd, EntryStates
<1>2. Deliver(s, i) \in Seq(EntryStates) /\ XAck(s, i) \in Seq(EntryStates)
  BY StreamExceptType DEF Deliver, XAck, EntryStates
<1>3. OldestNew(s) \subseteq Nat /\ PendingEntries(s) \subseteq Nat
  BY DEF OldestNew, Undelivered, PendingEntries
<1> QED
  BY <1>1, <1>2, <1>3

\* Every closure passed to the store's Update maps a job record to a job
\* record, and so does Update itself.
LEMMA MutatorsType ==
  ASSUME NEW j \in Job
  PROVE  /\ NewJob \in Job /\ FailJob(j) \in Job /\ FailJob(NewJob) \in Job
         /\ CreateNX(j) \in Job
         /\ MarkProcessing(j) \in Job /\ PersistResult(j) \in Job
         /\ ReleasePaid(j) \in Job /\ ReleaseFree(j) \in Job
         /\ AwaitPayment(j) \in Job /\ NotifyPaid(j) \in Job
         /\ CancelJob(j) \in Job
         /\ \A n \in Job : Update(j, n) \in Job
<1>0. 0 \in 0..Fee /\ Fee \in 0..Fee
  BY FeeAssumption
<1>1. NewJob \in Job /\ \A p \in Job : FailJob(p) \in Job
  BY <1>0 DEF Job, Statuses, Absent, NoJob, NewJob, FailJob
<1>1a. CreateNX(j) \in Job
  BY <1>1 DEF CreateNX
<1>2. /\ MarkProcessing(j) \in Job /\ PersistResult(j) \in Job
      /\ CancelJob(j) \in Job
  BY DEF Job, Statuses, MarkProcessing, PersistResult, CancelJob
<1>3. ReleasePaid(j) \in Job /\ ReleaseFree(j) \in Job
  BY <1>0 DEF Job, Statuses, ReleasePaid, ReleaseFree
<1>4. AwaitPayment(j) \in Job
  BY <1>0 DEF Job, Statuses, AwaitPayment
<1>5. NotifyPaid(j) \in Job
  <2>1. [j EXCEPT !.paid = TRUE] \in Job
    BY DEF Job
  <2>2. \A p \in Job :
          /\ [p EXCEPT !.status = "ready", !.amount = 0, !.code = FALSE] \in Job
          /\ [p EXCEPT !.status = "processing"] \in Job
    BY <1>0 DEF Job, Statuses
  <2> QED
    BY <2>1, <2>2 DEF NotifyPaid
<1>6. \A n \in Job : Update(j, n) \in Job
  BY DEF Update
<1> QED
  BY <1>1, <1>1a, <1>2, <1>3, <1>4, <1>5, <1>6

\* Every store write the handlers make keeps Paid, the result and the
\* record, and writes "ready" only with Paid and a result; the paygate's
\* release closure does so only on a record read as paid.
LEMMA MutatorsGrow ==
  ASSUME NEW j \in Job
  PROVE  /\ Grows(j, j) /\ KeepsGate(j, j)
         /\ Grows(j, Update(j, MarkProcessing(j)))
         /\ KeepsGate(j, Update(j, MarkProcessing(j)))
         /\ Grows(j, Update(j, PersistResult(j)))
         /\ KeepsGate(j, Update(j, PersistResult(j)))
         /\ Grows(j, Update(j, FailJob(j)))
         /\ KeepsGate(j, Update(j, FailJob(j)))
         /\ Grows(j, Update(j, ReleasePaid(j)))
         /\ j.paid => KeepsGate(j, Update(j, ReleasePaid(j)))
         /\ Grows(j, Update(j, ReleaseFree(j)))
         /\ KeepsGate(j, Update(j, ReleaseFree(j)))
         /\ Grows(j, Update(j, AwaitPayment(j)))
         /\ KeepsGate(j, Update(j, AwaitPayment(j)))
         /\ Grows(j, Update(j, NotifyPaid(j)))
         /\ KeepsGate(j, Update(j, NotifyPaid(j)))
         /\ Grows(j, Update(j, CancelJob(j)))
         /\ KeepsGate(j, Update(j, CancelJob(j)))
<1> USE DEF Grows, KeepsGate, Update, Absent
<1>1. Grows(j, j) /\ KeepsGate(j, j)
  OBVIOUS
<1>2. /\ Grows(j, Update(j, MarkProcessing(j)))
      /\ KeepsGate(j, Update(j, MarkProcessing(j)))
  BY DEF Job, MarkProcessing
<1>3. /\ Grows(j, Update(j, PersistResult(j)))
      /\ KeepsGate(j, Update(j, PersistResult(j)))
  BY DEF Job, PersistResult
<1>4. /\ Grows(j, Update(j, FailJob(j)))
      /\ KeepsGate(j, Update(j, FailJob(j)))
  BY DEF Job, FailJob
<1>5. /\ Grows(j, Update(j, ReleasePaid(j)))
      /\ j.paid => KeepsGate(j, Update(j, ReleasePaid(j)))
  BY DEF Job, ReleasePaid
<1>6. /\ Grows(j, Update(j, ReleaseFree(j)))
      /\ KeepsGate(j, Update(j, ReleaseFree(j)))
  BY DEF Job, ReleaseFree
<1>7. /\ Grows(j, Update(j, AwaitPayment(j)))
      /\ KeepsGate(j, Update(j, AwaitPayment(j)))
  BY DEF Job, AwaitPayment
<1>8. /\ Grows(j, Update(j, NotifyPaid(j)))
      /\ KeepsGate(j, Update(j, NotifyPaid(j)))
  BY DEF Job, NotifyPaid
<1>9. /\ Grows(j, Update(j, CancelJob(j)))
      /\ KeepsGate(j, Update(j, CancelJob(j)))
  BY DEF Job, CancelJob
<1> QED
  BY <1>1, <1>2, <1>3, <1>4, <1>5, <1>6, <1>7, <1>8, <1>9

\* The intake writes the record only by SETNX on a missing key or by its
\* failure closure, and touches nothing a worker, the user or the
\* provider owns.
LEMMA IntakeFrame ==
  ASSUME IntakeStep
  PROVE  /\ \/ job' = job
            \/ job.status = Absent /\ job' = NewJob
            \/ job' = Update(job, FailJob(job))
         /\ UNCHANGED <<order, codeShown, pq, lease, cw, pw, inc, crashes,
                        ntf, ccl>>
         /\ itk # "ok"
BY DEF IntakeStep, ICreate, IEnqueueOk, IEnqueueErr, IFail, CreateNX

-----------------------------------------------------------------------------
(* Type correctness. *)

LEMMA TypeInit == Init => TypeOK
<1> SUFFICES ASSUME Init PROVE TypeOK
  OBVIOUS
<1>1. 0 \in 0..Fee
  BY FeeAssumption
<1>2. NoJob \in Job
  BY <1>1 DEF NoJob, Job, Statuses, Absent
<1>3. Idle \in Handler /\ NoToken \in Tokens
  BY DEF Idle, Handler, Tokens
<1>4. << >> \in Seq(EntryStates)
  BY EmptySeq
<1>5. /\ cw \in [CW -> Handler] /\ pw \in [PW -> Handler]
      /\ lease \in [LeaseKeys -> Tokens] /\ inc \in [Workers -> Nat]
  BY <1>3 DEF Init
<1> QED
  BY <1>2, <1>4, <1>5 DEF Init, TypeOK, OrderStates, IntakePcs

\* A handler that returns, or that took its lease, is still a handler.
LEMMA HandlerRet ==
  ASSUME NEW S, NEW h \in [S -> Handler], NEW v \in S,
         NEW r \in {"ack", "keep"}
  PROVE  [h EXCEPT ![v].pc = "ret", ![v].ret = r] \in [S -> Handler]
BY DEF Handler

LEMMA HandlerHeld ==
  ASSUME NEW S, NEW h \in [S -> Handler], NEW v \in S
  PROVE  [h EXCEPT ![v].pc = "get", ![v].held = TRUE] \in [S -> Handler]
BY DEF Handler

LEMMA TypeNext == TypeOK /\ [Next]_vars => TypeOK'
<1> SUFFICES ASSUME TypeOK, [Next]_vars PROVE TypeOK'
  OBVIOUS
<1> USE ConstAssumption
<1>a. cw \in [CW -> Handler] /\ pw \in [PW -> Handler]
  BY DEF TypeOK
<1>b. job \in Job
  BY DEF TypeOK
<1>c. cq \in Seq(EntryStates) /\ pq \in Seq(EntryStates)
  BY DEF TypeOK
<1>d. lease \in [LeaseKeys -> Tokens]
  BY DEF TypeOK
<1>e. inc \in [Workers -> Nat]
  BY DEF TypeOK
<1>f. order \in OrderStates
  BY DEF TypeOK
<1>g. /\ ntf \in [pc : {"idle", "check", "update"}, sent : Nat,
                  reply : {"none", "SUCCESS", "FAIL"}]
     /\ ccl \in [pc : {"idle", "close", "update"}, n : Nat]
  BY DEF TypeOK
<1>1. ASSUME IntakeStep PROVE TypeOK'
  <2>1. CreateNX(job) \in Job /\ Update(job, FailJob(job)) \in Job
    BY <1>b, MutatorsType
  <2>2. XAdd(cq) \in Seq(EntryStates)
    BY <1>c, StreamOpsType
  <2>3. CASE ICreate
    BY <2>3, <2>1 DEF ICreate, TypeOK, IntakePcs
  <2>4. CASE IEnqueueOk \/ IEnqueueErr
    BY <2>4, <2>2 DEF IEnqueueOk, IEnqueueErr, TypeOK, IntakePcs
  <2>5. CASE IFail
    BY <2>5, <2>1 DEF IFail, TypeOK, IntakePcs
  <2> QED
    BY <1>1, <2>3, <2>4, <2>5 DEF IntakeStep
<1>2. ASSUME NEW w \in CW, ComputeStep(w) PROVE TypeOK'
  <2>0. Token(w) \in Tokens
    BY <1>e DEF Token, Tokens, Workers
  <2>1. CASE CDeliver(w)
    <3>1. PICK i \in OldestNew(cq) :
            /\ cw' = [cw EXCEPT ![w] = Start(i)]
            /\ cq' = Deliver(cq, i)
      BY <2>1 DEF CDeliver, Deliver1
    <3>2. i \in Nat /\ cq' \in Seq(EntryStates)
      BY <3>1, <1>c, StreamOpsType
    <3>3. cw' \in [CW -> Handler]
      BY <3>1, <3>2, <1>a DEF Handler, Start
    <3> QED
      BY <3>2, <3>3, <2>1 DEF CDeliver, TypeOK
  <2>2. CASE CClaim(w)
    <3>1. PICK i \in PendingEntries(cq) : cw' = [cw EXCEPT ![w] = Start(i)]
      BY <2>2 DEF CClaim, Claim1
    <3>2. i \in Nat
      BY <1>c, StreamOpsType
    <3>3. cw' \in [CW -> Handler]
      BY <3>1, <3>2, <1>a DEF Handler, Start
    <3> QED
      BY <3>2, <3>3, <2>2 DEF CClaim, TypeOK
  <2>3. CASE CLockAcquired(w)
    <3>1. cw' \in [CW -> Handler]
      <4>1. cw' = [cw EXCEPT ![w].pc = "get", ![w].held = TRUE]
        BY <2>3 DEF CLockAcquired, LockAcquired
      <4> QED
        BY <4>1, <1>a, HandlerHeld
    <3>2. lease' \in [LeaseKeys -> Tokens]
      BY <2>3, <1>d, <2>0 DEF CLockAcquired, LockAcquired, LeaseKeys
    <3> QED
      BY <3>1, <3>2, <2>3 DEF CLockAcquired, TypeOK
  <2>4. CASE CLockBusy(w)
    <3>1. cw' \in [CW -> Handler]
      <4>1. cw' = [cw EXCEPT ![w].pc = "ret", ![w].ret = "ack"]
        BY <2>4 DEF CLockBusy, LockBusy
      <4> QED
        BY <4>1, <1>a, HandlerRet
    <3> QED
      BY <3>1, <2>4 DEF CLockBusy, LockBusy, TypeOK
  <2>5. CASE CGet(w)
    <3>1. cw' \in [CW -> Handler]
      BY <2>5, <1>a DEF CGet, CGo, CRet, Handler
    <3> QED
      BY <3>1, <2>5 DEF CGet, TypeOK
  <2>6. CASE CMark(w)
    <3>1. cw' \in [CW -> Handler]
      BY <2>6, <1>a DEF CMark, CGo, CRet, Handler
    <3>2. job' \in Job
      BY <2>6, <1>b, MutatorsType DEF CMark
    <3> QED
      BY <3>1, <3>2, <2>6 DEF CMark, TypeOK
  <2>7. CASE CWorkOk(w)
    <3>1. cw' \in [CW -> Handler]
      BY <2>7, <1>a DEF CWorkOk, CGo, CRet, Handler
    <3> QED
      BY <3>1, <2>7 DEF CWorkOk, TypeOK
  <2>8. CASE CWorkFail(w)
    <3>1. cw' \in [CW -> Handler]
      <4>1. cw' = [cw EXCEPT ![w].pc = "ret", ![w].ret = "ack"]
        BY <2>8 DEF CWorkFail, CRet
      <4> QED
        BY <4>1, <1>a, HandlerRet
    <3>2. job' \in Job
      BY <2>8, <1>b, MutatorsType DEF CWorkFail
    <3> QED
      BY <3>1, <3>2, <2>8 DEF CWorkFail, TypeOK
  <2>9. CASE CPersist(w)
    <3>1. cw' \in [CW -> Handler]
      BY <2>9, <1>a DEF CPersist, CGo, CRet, Handler
    <3>2. job' \in Job
      BY <2>9, <1>b, MutatorsType DEF CPersist
    <3> QED
      BY <3>1, <3>2, <2>9 DEF CPersist, TypeOK
  <2>10. CASE CReget(w)
    <3>1. cw' \in [CW -> Handler]
      BY <2>10, <1>a DEF CReget, CGo, CRet, Handler
    <3> QED
      BY <3>1, <2>10 DEF CReget, TypeOK
  <2>11. CASE CEnqueueOk(w)
    <3>1. cw' \in [CW -> Handler]
      <4>1. cw' = [cw EXCEPT ![w].pc = "ret", ![w].ret = "ack"]
        BY <2>11 DEF CEnqueueOk, CRet
      <4> QED
        BY <4>1, <1>a, HandlerRet
    <3>2. pq' \in Seq(EntryStates)
      BY <2>11, <1>c, StreamOpsType DEF CEnqueueOk
    <3> QED
      BY <3>1, <3>2, <2>11 DEF CEnqueueOk, TypeOK
  <2>12. CASE CEnqueueErr(w)
    <3>1. cw' \in [CW -> Handler]
      <4>1. cw' = [cw EXCEPT ![w].pc = "ret", ![w].ret = "keep"]
        BY <2>12 DEF CEnqueueErr, CRet
      <4> QED
        BY <4>1, <1>a, HandlerRet
    <3>2. pq' \in Seq(EntryStates)
      BY <2>12, <1>c, StreamOpsType DEF CEnqueueErr
    <3> QED
      BY <3>1, <3>2, <2>12 DEF CEnqueueErr, TypeOK
  <2>13. CASE CReturn(w)
    <3>1. cw' \in [CW -> Handler]
      BY <2>13, <1>a DEF CReturn, Return1, Handler, Idle
    <3>2. cq' \in Seq(EntryStates)
      BY <2>13, <1>a, <1>c, StreamOpsType DEF CReturn, Return1, Handler
    <3>3. lease' \in [LeaseKeys -> Tokens]
      <4>1. ReleaseIfOwner(lease["compute"], Token(w)) \in Tokens
        BY <1>d, <2>0 DEF ReleaseIfOwner, LeaseKeys, Tokens
      <4>2. lease' = [lease EXCEPT !["compute"] = ReleaseIfOwner(lease["compute"], Token(w))]
            \/ lease' = lease
        BY <2>13 DEF CReturn, Return1
      <4> QED
        BY <4>1, <4>2, <1>d DEF LeaseKeys
    <3> QED
      BY <3>1, <3>2, <3>3, <2>13 DEF CReturn, TypeOK
  <2> QED
    BY <1>2, <2>1, <2>2, <2>3, <2>4, <2>5, <2>6, <2>7, <2>8, <2>9, <2>10, <2>11, <2>12, <2>13
    DEF ComputeStep
<1>3. ASSUME NEW w \in PW, PaygateStep(w) PROVE TypeOK'
  <2>0. Token(w) \in Tokens
    BY <1>e DEF Token, Tokens, Workers
  <2>1. CASE PDeliver(w)
    <3>1. PICK i \in OldestNew(pq) :
            /\ pw' = [pw EXCEPT ![w] = Start(i)]
            /\ pq' = Deliver(pq, i)
      BY <2>1 DEF PDeliver, Deliver1
    <3>2. i \in Nat /\ pq' \in Seq(EntryStates)
      BY <3>1, <1>c, StreamOpsType
    <3>3. pw' \in [PW -> Handler]
      BY <3>1, <3>2, <1>a DEF Handler, Start
    <3> QED
      BY <3>2, <3>3, <2>1 DEF PDeliver, TypeOK
  <2>2. CASE PClaim(w)
    <3>1. PICK i \in PendingEntries(pq) : pw' = [pw EXCEPT ![w] = Start(i)]
      BY <2>2 DEF PClaim, Claim1
    <3>2. i \in Nat
      BY <1>c, StreamOpsType
    <3>3. pw' \in [PW -> Handler]
      BY <3>1, <3>2, <1>a DEF Handler, Start
    <3> QED
      BY <3>2, <3>3, <2>2 DEF PClaim, TypeOK
  <2>3. CASE PLockAcquired(w)
    <3>1. pw' \in [PW -> Handler]
      <4>1. pw' = [pw EXCEPT ![w].pc = "get", ![w].held = TRUE]
        BY <2>3 DEF PLockAcquired, LockAcquired
      <4> QED
        BY <4>1, <1>a, HandlerHeld
    <3>2. lease' \in [LeaseKeys -> Tokens]
      BY <2>3, <1>d, <2>0 DEF PLockAcquired, LockAcquired, LeaseKeys
    <3> QED
      BY <3>1, <3>2, <2>3 DEF PLockAcquired, TypeOK
  <2>4. CASE PLockBusy(w)
    <3>1. pw' \in [PW -> Handler]
      <4>1. pw' = [pw EXCEPT ![w].pc = "ret", ![w].ret = "ack"]
        BY <2>4 DEF PLockBusy, LockBusy
      <4> QED
        BY <4>1, <1>a, HandlerRet
    <3> QED
      BY <3>1, <2>4 DEF PLockBusy, LockBusy, TypeOK
  <2>5. CASE PGet(w)
    <3>1. pw' \in [PW -> Handler]
      BY <2>5, <1>a DEF PGet, PGo, PRet, Handler
    <3> QED
      BY <3>1, <2>5 DEF PGet, TypeOK
  <2>6. CASE PRelease(w)
    <3>1. pw' \in [PW -> Handler]
      BY <2>6, <1>a DEF PRelease, PGo, PRet, Handler
    <3>2. job' \in Job
      BY <2>6, <1>b, MutatorsType DEF PRelease
    <3> QED
      BY <3>1, <3>2, <2>6 DEF PRelease, TypeOK
  <2>7. CASE PFree(w)
    <3>1. pw' \in [PW -> Handler]
      BY <2>7, <1>a DEF PFree, PGo, PRet, Handler
    <3>2. job' \in Job
      BY <2>7, <1>b, MutatorsType DEF PFree
    <3> QED
      BY <3>1, <3>2, <2>7 DEF PFree, TypeOK
  <2>8. CASE POrderOk(w)
    <3>1. pw' \in [PW -> Handler]
      BY <2>8, <1>a DEF POrderOk, PGo, PRet, Handler
    <3>2. order' \in OrderStates
      BY <2>8, <1>f DEF POrderOk, OrderStates
    <3> QED
      BY <3>1, <3>2, <2>8 DEF POrderOk, TypeOK
  <2>9. CASE POrderErr(w)
    <3>1. pw' \in [PW -> Handler]
      BY <2>9, <1>a DEF POrderErr, PGo, PRet, Handler
    <3>2. order' \in OrderStates
      BY <2>9, <1>f DEF POrderErr, OrderStates
    <3> QED
      BY <3>1, <3>2, <2>9 DEF POrderErr, TypeOK
  <2>10. CASE PApply(w)
    <3>1. pw' \in [PW -> Handler]
      BY <2>10, <1>a DEF PApply, PGo, PRet, Handler
    <3>2. job' \in Job
      BY <2>10, <1>b, MutatorsType DEF PApply
    <3>3. codeShown' \in BOOLEAN
      BY <2>10, <1>b, MutatorsType DEF PApply, Job
    <3> QED
      BY <3>1, <3>2, <3>3, <2>10 DEF PApply, TypeOK
  <2>11. CASE PFail(w)
    <3>1. pw' \in [PW -> Handler]
      BY <2>11, <1>a DEF PFail, PGo, PRet, Handler
    <3>2. job' \in Job
      BY <2>11, <1>b, MutatorsType DEF PFail
    <3> QED
      BY <3>1, <3>2, <2>11 DEF PFail, TypeOK
  <2>12. CASE PReturn(w)
    <3>1. pw' \in [PW -> Handler]
      BY <2>12, <1>a DEF PReturn, Return1, Handler, Idle
    <3>2. pq' \in Seq(EntryStates)
      BY <2>12, <1>a, <1>c, StreamOpsType DEF PReturn, Return1, Handler
    <3>3. lease' \in [LeaseKeys -> Tokens]
      <4>1. ReleaseIfOwner(lease["paygate"], Token(w)) \in Tokens
        BY <1>d, <2>0 DEF ReleaseIfOwner, LeaseKeys, Tokens
      <4>2. lease' = [lease EXCEPT !["paygate"] = ReleaseIfOwner(lease["paygate"], Token(w))]
            \/ lease' = lease
        BY <2>12 DEF PReturn, Return1
      <4> QED
        BY <4>1, <4>2, <1>d DEF LeaseKeys
    <3> QED
      BY <3>1, <3>2, <3>3, <2>12 DEF PReturn, TypeOK
  <2> QED
    BY <1>3, <2>1, <2>2, <2>3, <2>4, <2>5, <2>6, <2>7, <2>8, <2>9, <2>10, <2>11, <2>12
    DEF PaygateStep
<1>4. ASSUME NEW w \in Workers, Crash(w) PROVE TypeOK'
  <2>1. cw' \in [CW -> Handler] /\ pw' \in [PW -> Handler]
    <3>1. Idle \in Handler
      BY DEF Idle, Handler
    <3>2. \/ cw' = [cw EXCEPT ![w] = Idle] /\ pw' = pw
          \/ pw' = [pw EXCEPT ![w] = Idle] /\ cw' = cw
      BY <1>4 DEF Crash
    <3> QED
      BY <3>1, <3>2, <1>a
  <2>2. inc' \in [Workers -> Nat]
    BY <1>4, <1>e DEF Crash
  <2> QED
    BY <1>4, <2>1, <2>2 DEF Crash, TypeOK
<1>5. ASSUME NEW k \in LeaseKeys, LeaseExpire(k) PROVE TypeOK'
  <2>1. lease' \in [LeaseKeys -> Tokens]
    BY <1>5, <1>d DEF LeaseExpire, Tokens
  <2> QED
    BY <1>5, <2>1 DEF LeaseExpire, TypeOK
<1>6. CASE Pay \/ NDeliver \/ NReject \/ NAccept
  <2>1. CASE Pay
    BY <2>1 DEF Pay, TypeOK, OrderStates
  <2>2. CASE NDeliver
    <3>1. ntf' = [ntf EXCEPT !.pc = "check", !.sent = ntf.sent + 1]
      BY <2>2 DEF NDeliver
    <3>2. ntf' \in [pc : {"idle", "check", "update"}, sent : Nat,
                    reply : {"none", "SUCCESS", "FAIL"}]
      <4>1. ntf.sent + 1 \in Nat
        BY <1>g
      <4> QED
        BY <3>1, <4>1, <1>g
    <3> QED
      BY <3>2, <2>2 DEF NDeliver, TypeOK
  <2>3. CASE NReject \/ NAccept
    BY <2>3 DEF NReject, NAccept, TypeOK
  <2> QED
    BY <1>6, <2>1, <2>2, <2>3
<1>7. CASE NUpdate
  <2>1. job' \in Job
    BY <1>7, <1>b, MutatorsType DEF NUpdate
  <2> QED
    BY <1>7, <2>1 DEF NUpdate, TypeOK
<1>8. CASE KStart \/ KCloseOk \/ KCloseErr
  <2>1. CASE KStart
    <3>1. ccl' \in [pc : {"idle", "close", "update"}, n : Nat]
      <4>1. PICK x \in {"idle", "close", "update"} :
              ccl' = [ccl EXCEPT !.n = ccl.n + 1, !.pc = x]
        BY <2>1 DEF KStart
      <4>2. ccl.n + 1 \in Nat
        BY <1>g
      <4> QED
        BY <4>1, <4>2, <1>g
    <3> QED
      BY <3>1, <2>1 DEF KStart, TypeOK
  <2>2. CASE KCloseOk \/ KCloseErr
    BY <2>2 DEF KCloseOk, KCloseErr, TypeOK, OrderStates
  <2> QED
    BY <1>8, <2>1, <2>2
<1>9. CASE KUpdate
  <2>1. job' \in Job
    BY <1>9, <1>b, MutatorsType DEF KUpdate
  <2> QED
    BY <1>9, <2>1 DEF KUpdate, TypeOK
<1>10. CASE UNCHANGED vars
  BY <1>10 DEF vars, TypeOK
<1> QED
  BY <1>1, <1>2, <1>3, <1>4, <1>5, <1>6, <1>7, <1>8, <1>9, <1>10 DEF Next

\* Every reachable state is well typed: every handler, stream, lease and
\* job record value the code can produce is one the model accounts for.
THEOREM TypeCorrect == Spec => []TypeOK
BY TypeInit, TypeNext, PTL DEF Spec
-----------------------------------------------------------------------------
(* The download gate. *)

LEMMA IInvInit == Init => IInv
<1> SUFFICES ASSUME Init PROVE IInv
  OBVIOUS
<1>1. job.status = Absent
  BY DEF Init, NoJob, Absent
<1>2. \A w \in PW : pw[w].pc = "idle"
  BY DEF Init, Idle
<1> QED
  BY <1>1, <1>2, TypeInit DEF IInv, ReadyImpliesPaidAndResult, ReleaseSeesPaid, Absent

\* A step that keeps Paid, the result and the record, writes "ready" only
\* with Paid and a result, and moves no payment worker to "release"
\* without a paid record, preserves the invariant.
LEMMA GateStep ==
  ASSUME IInv, TypeOK', JobOK, ReleaseStep
  PROVE  IInv'
BY DEF IInv, ReadyImpliesPaidAndResult, ReleaseSeesPaid, JobOK, Grows,
       KeepsGate, ReleaseStep

LEMMA IInvNext == IInv /\ [Next]_vars => IInv'
<1> SUFFICES ASSUME IInv, [Next]_vars PROVE IInv'
  OBVIOUS
<1>0. TypeOK'
  BY TypeNext DEF IInv
<1>a. job \in Job /\ pw \in [PW -> Handler]
  BY DEF IInv, TypeOK
<1>b. ReleaseSeesPaid
  BY DEF IInv
<1>c. ASSUME job' = job PROVE JobOK
  BY <1>a, <1>c, MutatorsGrow DEF JobOK
<1>d. ASSUME pw' = pw PROVE ReleaseStep
  BY <1>d DEF ReleaseStep
\* A payment worker moved to a pc other than "release", or reset.
<1>e. ASSUME NEW w \in PW,
             NEW x \in {"idle", "lock", "get", "free", "order", "apply",
                        "fail", "ret"},
             \/ pw' = [pw EXCEPT ![w].pc = x]
             \/ \E r \in {"ack", "keep"} :
                  pw' = [pw EXCEPT ![w].pc = "ret", ![w].ret = r]
             \/ pw' = [pw EXCEPT ![w].pc = "get", ![w].held = TRUE]
             \/ pw' = [pw EXCEPT ![w] = Idle]
             \/ \E i \in Nat : pw' = [pw EXCEPT ![w] = Start(i)]
      PROVE  ReleaseStep
  <2>1. CASE pw' = [pw EXCEPT ![w].pc = x]
    BY <2>1, <1>a DEF ReleaseStep
  <2>2. CASE \E r \in {"ack", "keep"} :
               pw' = [pw EXCEPT ![w].pc = "ret", ![w].ret = r]
    BY <2>2, <1>a DEF ReleaseStep
  <2>3. CASE pw' = [pw EXCEPT ![w].pc = "get", ![w].held = TRUE]
    BY <2>3, <1>a DEF ReleaseStep
  <2>4. CASE pw' = [pw EXCEPT ![w] = Idle]
    BY <2>4, <1>a DEF ReleaseStep, Idle
  <2>5. CASE \E i \in Nat : pw' = [pw EXCEPT ![w] = Start(i)]
    BY <2>5, <1>a DEF ReleaseStep, Start
  <2> QED
    BY <1>e, <2>1, <2>2, <2>3, <2>4, <2>5
<1>1. ASSUME IntakeStep PROVE IInv'
  <2>1. pw' = pw
    BY <1>1 DEF IntakeStep, ICreate, IEnqueueOk, IEnqueueErr, IFail
  \* SETNX on a missing key: no payment worker can be at "release".
  <2>2. CASE job.status = Absent /\ job' = CreateNX(job)
    <3>1. \A w \in PW : pw[w].pc # "release"
      BY <2>2, <1>b DEF ReleaseSeesPaid
    <3>2. job'.status = "processing"
      BY <2>2 DEF CreateNX, NewJob, NoJob
    <3> QED
      BY <1>0, <2>1, <3>1, <3>2 DEF IInv, ReadyImpliesPaidAndResult,
                                    ReleaseSeesPaid
  <2>3. CASE ~(job.status = Absent /\ job' = CreateNX(job))
    <3>1. job' = job \/ job' = Update(job, FailJob(job))
      BY <1>1, <2>3 DEF IntakeStep, ICreate, IEnqueueOk, IEnqueueErr, IFail,
                        CreateNX
    <3>2. JobOK
      BY <3>1, <1>a, <1>c, MutatorsGrow DEF JobOK
    <3> QED
      BY <1>0, <2>1, <3>2, <1>d, GateStep
  <2> QED
    BY <2>2, <2>3
<1>2. ASSUME NEW w \in CW, ComputeStep(w) PROVE IInv'
  <2>1. pw' = pw
    BY <1>2 DEF ComputeStep, CDeliver, CClaim, CLockAcquired, CLockBusy, CGet,
                CMark, CWorkOk, CWorkFail, CPersist, CReget, CEnqueueOk,
                CEnqueueErr, CReturn
  <2>2. \/ job' = job
        \/ job' = Update(job, MarkProcessing(job))
        \/ job' = Update(job, FailJob(job))
        \/ job' = Update(job, PersistResult(job))
    BY <1>2 DEF ComputeStep, CDeliver, CClaim, CLockAcquired, CLockBusy, CGet,
                CMark, CWorkOk, CWorkFail, CPersist, CReget, CEnqueueOk,
                CEnqueueErr, CReturn
  <2>3. JobOK
    BY <2>2, <1>a, <1>c, MutatorsGrow DEF JobOK
  <2> QED
    BY <1>0, <2>1, <2>3, <1>d, GateStep
<1>3. ASSUME NEW w \in PW, PaygateStep(w) PROVE IInv'
  <2>1. CASE PDeliver(w) \/ PClaim(w)
    <3>1. job' = job /\ \E i \in Nat : pw' = [pw EXCEPT ![w] = Start(i)]
      BY <2>1, StreamOpsType DEF PDeliver, PClaim, Deliver1, Claim1, IInv,
                                 TypeOK
    <3> QED
      BY <3>1, <1>0, <1>c, <1>e, GateStep
  <2>2. CASE PLockAcquired(w) \/ PLockBusy(w)
    <3>1. /\ job' = job
          /\ \/ pw' = [pw EXCEPT ![w].pc = "get", ![w].held = TRUE]
             \/ pw' = [pw EXCEPT ![w].pc = "ret", ![w].ret = "ack"]
      BY <2>2 DEF PLockAcquired, PLockBusy, LockAcquired, LockBusy
    <3> QED
      BY <3>1, <1>0, <1>c, <1>e, GateStep
  <2>3. CASE PGet(w)
    <3>1. job' = job
      BY <2>3 DEF PGet
    <3>2. ReleaseStep
      <4>1. \/ pw' = [pw EXCEPT ![w].pc = "release"] /\ job.paid
                                                    /\ ~Terminal(job)
            \/ \E x \in {"free", "order"} : pw' = [pw EXCEPT ![w].pc = x]
            \/ \E r \in {"ack", "keep"} :
                 pw' = [pw EXCEPT ![w].pc = "ret", ![w].ret = r]
        BY <2>3 DEF PGet, PGo, PRet
      <4>2. ~Terminal(job) => job.status # Absent
        BY DEF Terminal
      <4> QED
        BY <4>1, <4>2, <3>1, <1>a, <1>e DEF ReleaseStep
    <3> QED
      BY <3>1, <3>2, <1>0, <1>c, GateStep
  <2>4. CASE PRelease(w)
    <3>1. job.paid
      BY <2>4, <1>b DEF PRelease, ReleaseSeesPaid
    <3>2. JobOK
      BY <2>4, <3>1, <1>a, MutatorsGrow DEF PRelease, JobOK
    <3>3. pw' = [pw EXCEPT ![w].pc = "ret", ![w].ret = "ack"]
      BY <2>4 DEF PRelease, PRet
    <3> QED
      BY <3>2, <3>3, <1>0, <1>e, GateStep
  <2>5. CASE PFree(w) \/ PApply(w) \/ PFail(w)
    <3>1. \/ job' = Update(job, ReleaseFree(job))
          \/ job' = Update(job, AwaitPayment(job))
          \/ job' = Update(job, FailJob(job))
      BY <2>5 DEF PFree, PApply, PFail
    <3>2. JobOK
      BY <3>1, <1>a, MutatorsGrow DEF JobOK
    <3>3. pw' = [pw EXCEPT ![w].pc = "ret", ![w].ret = "ack"]
      BY <2>5 DEF PFree, PApply, PFail, PRet
    <3> QED
      BY <3>2, <3>3, <1>0, <1>e, GateStep
  <2>6. CASE POrderOk(w) \/ POrderErr(w)
    <3>1. /\ job' = job
          /\ \E x \in {"apply", "fail"} : pw' = [pw EXCEPT ![w].pc = x]
      BY <2>6 DEF POrderOk, POrderErr, PGo
    <3> QED
      BY <3>1, <1>0, <1>c, <1>e, GateStep
  <2>7. CASE PReturn(w)
    <3>1. job' = job /\ pw' = [pw EXCEPT ![w] = Idle]
      BY <2>7 DEF PReturn, Return1
    <3> QED
      BY <3>1, <1>0, <1>c, <1>e, GateStep
  <2> QED
    BY <1>3, <2>1, <2>2, <2>3, <2>4, <2>5, <2>6, <2>7 DEF PaygateStep
<1>4. ASSUME NEW w \in Workers, Crash(w) PROVE IInv'
  <2>1. job' = job
    BY <1>4 DEF Crash
  <2>2. ReleaseStep
    <3>1. CASE w \in PW
      <4>1. pw' = pw \/ pw' = [pw EXCEPT ![w] = Idle]
        BY <1>4 DEF Crash
      <4> QED
        BY <3>1, <4>1, <1>d, <1>e
    <3>2. CASE w \notin PW
      BY <3>2, <1>4, <1>d DEF Crash
    <3> QED
      BY <3>1, <3>2
  <2> QED
    BY <2>1, <2>2, <1>0, <1>c, GateStep
<1>5. CASE \/ \E k \in LeaseKeys : LeaseExpire(k)
           \/ Pay \/ NDeliver \/ NReject \/ NAccept
           \/ KStart \/ KCloseOk \/ KCloseErr \/ UNCHANGED vars
  <2>1. job' = job /\ pw' = pw
    BY <1>5 DEF LeaseExpire, Pay, NDeliver, NReject, NAccept, KStart,
                KCloseOk, KCloseErr, vars
  <2> QED
    BY <2>1, <1>0, <1>c, <1>d, GateStep
<1>6. CASE NUpdate \/ KUpdate
  <2>1. \/ job' = job
        \/ job' = Update(job, NotifyPaid(job))
        \/ job' = Update(job, CancelJob(job))
    BY <1>6 DEF NUpdate, KUpdate
  <2>2. JobOK
    BY <2>1, <1>a, MutatorsGrow DEF JobOK
  <2>3. pw' = pw
    BY <1>6 DEF NUpdate, KUpdate
  <2> QED
    BY <2>2, <2>3, <1>0, <1>d, GateStep
<1> QED
  BY <1>1, <1>2, <1>3, <1>4, <1>5, <1>6 DEF Next

\* The download gate (spec invariant 1): in every reachable state a job
\* the export handler would serve as "ready" is paid and has its result,
\* whatever the interleaving of compare-workers, payment-workers (whose
\* release path writes "ready" on the strength of an earlier Get), the
\* notify handler, the cancel handler and crashes.
THEOREM ReadyGate == Spec => []ReadyImpliesPaidAndResult
<1>1. Init => IInv
  BY IInvInit
<1>2. IInv /\ [Next]_vars => IInv'
  BY IInvNext
<1>3. IInv => ReadyImpliesPaidAndResult
  BY DEF IInv
<1> QED
  BY <1>1, <1>2, <1>3, PTL DEF Spec
=============================================================================
