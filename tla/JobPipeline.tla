----------------------------- MODULE JobPipeline -----------------------------
(***************************************************************************)
(* The compare-job pipeline for one job: the intake handler, the compute   *)
(* stream and its compare-worker consumers, the paygate stream and its     *)
(* payment-worker consumers, the two per-job leases, the WeChat order and  *)
(* its notify callback, and the user's cancel request.                     *)
(*                                                                         *)
(* Every store, stream, lease and WeChat call is one atomic step; a        *)
(* handler is a process whose pc names the next such call.  Each worker    *)
(* stands for one consumer replica running with STREAM_CONCURRENCY = 1;    *)
(* several replicas give the same interleavings as several slots.          *)
(***************************************************************************)
EXTENDS Naturals, Sequences, JobStore, StreamQueue, KeyedLease

CONSTANTS
  CW,           \* compare-worker consumers of the compute stream
  PW,           \* payment-worker consumers of the paygate stream
  MaxMsgs,      \* bound on the entries appended to each stream
  MaxCrashes,   \* bound on worker crashes (pod kill / restart)
  MaxNotify,    \* bound on notify deliveries by the payment provider
  MaxCancels,   \* bound on the user's cancel requests
  StoreFaults,  \* whether a store write whose error is ignored may fail
  RefreshFaults \* whether lease Refresh calls may keep failing

ASSUME ConstAssumption ==
  /\ CW # {} /\ PW # {} /\ CW \cap PW = {}
  /\ MaxMsgs \in Nat /\ MaxCrashes \in Nat
  /\ MaxNotify \in Nat /\ MaxCancels \in Nat
  /\ StoreFaults \in BOOLEAN /\ RefreshFaults \in BOOLEAN

\* A consumer name is never the owner field of the absent key: a minted
\* token is never mistaken for "no lease".
ASSUME NoOwnerAssumption == NoToken.w \notin CW \cup PW

VARIABLES
  job,        \* the job record in the store
  order,      \* the WeChat order whose out_trade_no is the job id
  codeShown,  \* a code_url has been persisted, so the user can scan it
  cq,         \* compute stream entries (see StreamQueue)
  pq,         \* paygate stream entries
  lease,      \* lease key -> owner token
  cw,         \* compare-worker handler state
  pw,         \* payment-worker handler state
  inc,        \* worker incarnation, bumped by a crash
  crashes,    \* crashes so far
  ntf,        \* notify handler and the provider's deliveries
  ccl,        \* the user's cancel request
  itk         \* the intake handler's next call

vars == <<job, order, codeShown, cq, pq, lease, cw, pw, inc, crashes, ntf, ccl, itk>>

Workers == CW \cup PW
OrderStates == {"none", "open", "closed", "paid"}
LeaseKeys == {"compute", "paygate"}
Token(w) == [w |-> w, inc |-> inc[w]]
Tokens == {NoToken} \cup [w : Workers, inc : Nat]

\* A handler: next call (pc), its stream entry, whether it returns nil or
\* Terminal (ret = "ack") or a transient error (ret = "keep"), and whether
\* it holds its lease (the deferred Release is armed).
Handler == [pc : {"idle", "lock", "get", "mark", "work", "persist", "reget",
                  "enqueue", "release", "free", "order", "apply", "fail",
                  "ret"},
            msg : Nat, ret : {"ack", "keep"}, held : BOOLEAN]
Idle == [pc |-> "idle", msg |-> 0, ret |-> "keep", held |-> FALSE]
Start(i) == [pc |-> "lock", msg |-> i, ret |-> "keep", held |-> FALSE]

-----------------------------------------------------------------------------
(* Intake: handleCreateJob, three remote calls.  The compare-workers learn
   the job id from the stream entry as soon as the XADD takes effect, so
   they run between these calls; the user learns it only from the 200
   response ("ok").  "err" is the 502 reply. *)
IntakePcs == {"create", "enqueue", "fail", "ok", "err"}

\* store.Create; its error (a timeout, the SETNX done or not) is ignored.
ICreate ==
  /\ itk = "create"
  /\ \/ job' = CreateNX(job)
     \/ StoreFaults /\ job' = job
  /\ itk' = "enqueue"
  /\ UNCHANGED <<order, codeShown, cq, pq, lease, cw, pw, inc, crashes, ntf, ccl>>

\* queue.Enqueue with a 2-second timeout answers nil: reply 200.
IEnqueueOk ==
  /\ itk = "enqueue"
  /\ cq' = XAdd(cq)
  /\ itk' = "ok"
  /\ UNCHANGED <<job, order, codeShown, pq, lease, cw, pw, inc, crashes, ntf, ccl>>

\* It answers an error, whether or not the XADD took effect.
IEnqueueErr ==
  /\ itk = "enqueue"
  /\ cq' \in {cq, XAdd(cq)}
  /\ itk' = "fail"
  /\ UNCHANGED <<job, order, codeShown, pq, lease, cw, pw, inc, crashes, ntf, ccl>>

\* The failure Update on the current record (its error ignored), then 502.
IFail ==
  /\ itk = "fail"
  /\ \/ job' = Update(job, FailJob(job))
     \/ StoreFaults /\ job' = job
  /\ itk' = "err"
  /\ UNCHANGED <<order, codeShown, cq, pq, lease, cw, pw, inc, crashes, ntf, ccl>>

IntakeStep == ICreate \/ IEnqueueOk \/ IEnqueueErr \/ IFail

-----------------------------------------------------------------------------
(* Consumer loop (Consumer.ConsumeLoop / maybeAutoClaim / handleOne). *)

\* XREADGROUP ">" hands the oldest undelivered entry to an idle consumer.
Deliver1(h, s, w) ==
  /\ h[w].pc = "idle"
  /\ \E i \in OldestNew(s) :
       /\ h' = [h EXCEPT ![w] = Start(i)]
       /\ s' = Deliver(s, i)

\* XAUTOCLAIM hands a pending entry idle for claimMinIdle to a consumer.
\* The idle time runs from the last delivery, so the entry may still be
\* in the hands of a slow handler.
Claim1(h, s, w) ==
  /\ h[w].pc = "idle"
  /\ \E i \in PendingEntries(s) : h' = [h EXCEPT ![w] = Start(i)]

CDeliver(w) ==
  /\ Deliver1(cw, cq, w)
  /\ UNCHANGED <<job, order, codeShown, pq, lease, pw, inc, crashes, ntf, ccl, itk>>

CClaim(w) ==
  /\ Claim1(cw, cq, w)
  /\ UNCHANGED <<job, order, codeShown, cq, pq, lease, pw, inc, crashes, ntf, ccl, itk>>

PDeliver(w) ==
  /\ Deliver1(pw, pq, w)
  /\ UNCHANGED <<job, order, codeShown, cq, lease, cw, inc, crashes, ntf, ccl, itk>>

PClaim(w) ==
  /\ Claim1(pw, pq, w)
  /\ UNCHANGED <<job, order, codeShown, cq, pq, lease, cw, inc, crashes, ntf, ccl, itk>>

\* Lease acquisition at the top of both Process methods: on a busy key the
\* handler returns Terminal, so the entry is acknowledged.
LockAcquired(h, k, w) ==
  /\ h[w].pc = "lock"
  /\ CanAcquire(lease[k])
  /\ lease' = [lease EXCEPT ![k] = Token(w)]
  /\ h' = [h EXCEPT ![w].pc = "get", ![w].held = TRUE]

LockBusy(h, k, w) ==
  /\ h[w].pc = "lock"
  /\ ~CanAcquire(lease[k])
  /\ h' = [h EXCEPT ![w].pc = "ret", ![w].ret = "ack"]
  /\ UNCHANGED lease

\* Mutant: handleOne acknowledges on every return.
Return1AckAll(h, s, k, w) ==
  /\ h[w].pc = "ret"
  /\ lease' = IF h[w].held THEN [lease EXCEPT ![k] = ReleaseIfOwner(@, Token(w))]
                           ELSE lease
  /\ s' = XAck(s, h[w].msg)
  /\ h' = [h EXCEPT ![w] = Idle]

\* Process returns: the deferred Release runs, then handleOne ACKs on nil
\* or Terminal and leaves the entry pending otherwise.
Return1(h, s, k, w) ==
  /\ h[w].pc = "ret"
  /\ lease' = IF h[w].held THEN [lease EXCEPT ![k] = ReleaseIfOwner(@, Token(w))]
                           ELSE lease
  /\ s' = IF h[w].ret = "ack" THEN XAck(s, h[w].msg) ELSE s
  /\ h' = [h EXCEPT ![w] = Idle]

\* The handler goes on to pc, or returns with ret.
CGo(w, pc) == cw' = [cw EXCEPT ![w].pc = pc]
CRet(w, r) == cw' = [cw EXCEPT ![w].pc = "ret", ![w].ret = r]
PGo(w, pc) == pw' = [pw EXCEPT ![w].pc = pc]
PRet(w, r) == pw' = [pw EXCEPT ![w].pc = "ret", ![w].ret = r]

-----------------------------------------------------------------------------
(* compare Worker.Process *)

CLockAcquired(w) ==
  /\ LockAcquired(cw, "compute", w)
  /\ UNCHANGED <<job, order, codeShown, cq, pq, pw, inc, crashes, ntf, ccl, itk>>

CLockBusy(w) ==
  /\ LockBusy(cw, "compute", w)
  /\ UNCHANGED <<job, order, codeShown, cq, pq, pw, inc, crashes, ntf, ccl, itk>>

\* Get: stop on a missing or finished job; a stored result only needs the
\* paygate enqueue; otherwise compute.
CGet(w) ==
  /\ cw[w].pc = "get"
  /\ IF Terminal(job) THEN CRet(w, "ack")
     ELSE IF job.result THEN CGo(w, "enqueue")
     ELSE CGo(w, "mark")
  /\ UNCHANGED <<job, order, codeShown, cq, pq, lease, pw, inc, crashes, ntf, ccl, itk>>

CMark(w) ==
  /\ cw[w].pc = "mark"
  /\ job' = Update(job, MarkProcessing(job))
  /\ CGo(w, "work")
  /\ UNCHANGED <<order, codeShown, cq, pq, lease, pw, inc, crashes, ntf, ccl, itk>>

\* Download, xls conversion, diff and result upload all succeed.
CWorkOk(w) ==
  /\ cw[w].pc = "work"
  /\ CGo(w, "persist")
  /\ UNCHANGED <<job, order, codeShown, cq, pq, lease, pw, inc, crashes, ntf, ccl, itk>>

\* One of them fails: w.fail marks the job failed; Terminal.
CWorkFail(w) ==
  /\ cw[w].pc = "work"
  /\ job' = Update(job, FailJob(job))
  /\ CRet(w, "ack")
  /\ UNCHANGED <<order, codeShown, cq, pq, lease, pw, inc, crashes, ntf, ccl, itk>>

CPersist(w) ==
  /\ cw[w].pc = "persist"
  /\ job' = Update(job, PersistResult(job))
  /\ CGo(w, "reget")
  /\ UNCHANGED <<order, codeShown, cq, pq, lease, pw, inc, crashes, ntf, ccl, itk>>

\* Re-load: a missing job returns nil, a cancelled one Terminal.
CReget(w) ==
  /\ cw[w].pc = "reget"
  /\ IF job.status \in {Absent, "cancelled"} THEN CRet(w, "ack")
     ELSE CGo(w, "enqueue")
  /\ UNCHANGED <<job, order, codeShown, cq, pq, lease, pw, inc, crashes, ntf, ccl, itk>>

\* payq.Enqueue with a 2-second timeout: success is Terminal(nil); an error
\* keeps the entry pending, whether or not the XADD took effect.
CEnqueueOk(w) ==
  /\ cw[w].pc = "enqueue"
  /\ Len(pq) < MaxMsgs
  /\ pq' = XAdd(pq)
  /\ CRet(w, "ack")
  /\ UNCHANGED <<job, order, codeShown, cq, lease, pw, inc, crashes, ntf, ccl, itk>>

CEnqueueErr(w) ==
  /\ cw[w].pc = "enqueue"
  /\ \/ pq' = pq
     \/ Len(pq) < MaxMsgs /\ pq' = XAdd(pq)
  /\ CRet(w, "keep")
  /\ UNCHANGED <<job, order, codeShown, cq, lease, pw, inc, crashes, ntf, ccl, itk>>

CReturn(w) ==
  /\ Return1(cw, cq, "compute", w)
  /\ UNCHANGED <<job, order, codeShown, pq, pw, inc, crashes, ntf, ccl, itk>>

-----------------------------------------------------------------------------
(* paygate Worker.Process *)

PLockAcquired(w) ==
  /\ LockAcquired(pw, "paygate", w)
  /\ UNCHANGED <<job, order, codeShown, cq, pq, cw, inc, crashes, ntf, ccl, itk>>

PLockBusy(w) ==
  /\ LockBusy(pw, "paygate", w)
  /\ UNCHANGED <<job, order, codeShown, cq, pq, cw, inc, crashes, ntf, ccl, itk>>

\* Mutant: no "already awaiting with a code" short-circuit.
PGetNoCodeCheck(w) ==
  /\ pw[w].pc = "get"
  /\ IF Terminal(job) THEN PRet(w, "ack")
     ELSE IF ~job.result THEN PRet(w, "keep")
     ELSE IF job.paid THEN PGo(w, "release")
     ELSE IF Fee = 0 THEN PGo(w, "free")
     ELSE PGo(w, "order")
  /\ UNCHANGED <<job, order, codeShown, cq, pq, lease, cw, inc, crashes, ntf, ccl, itk>>

\* Get and the branches taken on what it read.
PGet(w) ==
  /\ pw[w].pc = "get"
  /\ IF Terminal(job) THEN PRet(w, "ack")
     ELSE IF ~job.result THEN PRet(w, "keep")
     ELSE IF job.paid THEN PGo(w, "release")
     ELSE IF Fee = 0 THEN PGo(w, "free")
     ELSE IF job.status = "awaiting_payment" /\ job.code THEN PRet(w, "ack")
     ELSE PGo(w, "order")
  /\ UNCHANGED <<job, order, codeShown, cq, pq, lease, cw, inc, crashes, ntf, ccl, itk>>

PRelease(w) ==
  /\ pw[w].pc = "release"
  /\ job' = Update(job, ReleasePaid(job))
  /\ PRet(w, "ack")
  /\ UNCHANGED <<order, codeShown, cq, pq, lease, cw, inc, crashes, ntf, ccl, itk>>

PFree(w) ==
  /\ pw[w].pc = "free"
  /\ job' = Update(job, ReleaseFree(job))
  /\ PRet(w, "ack")
  /\ UNCHANGED <<order, codeShown, cq, pq, lease, cw, inc, crashes, ntf, ccl, itk>>

\* wechat.CreateNativeOrder with out_trade_no = job id.  The provider
\* answers with the code of an open order of that number and refuses a
\* closed or paid one; a transport error may come after it created it.
POrderOk(w) ==
  /\ pw[w].pc = "order"
  /\ order \in {"none", "open"}
  /\ order' = "open"
  /\ PGo(w, "apply")
  /\ UNCHANGED <<job, codeShown, cq, pq, lease, cw, inc, crashes, ntf, ccl, itk>>

POrderErr(w) ==
  /\ pw[w].pc = "order"
  /\ order' \in {order, IF order = "none" THEN "open" ELSE order}
  /\ PGo(w, "fail")
  /\ UNCHANGED <<job, codeShown, cq, pq, lease, cw, inc, crashes, ntf, ccl, itk>>

PApply(w) ==
  /\ pw[w].pc = "apply"
  /\ job' = Update(job, AwaitPayment(job))
  /\ codeShown' = (codeShown \/ job'.code)
  /\ PRet(w, "ack")
  /\ UNCHANGED <<order, cq, pq, lease, cw, inc, crashes, ntf, ccl, itk>>

PFail(w) ==
  /\ pw[w].pc = "fail"
  /\ job' = Update(job, FailJob(job))
  /\ PRet(w, "ack")
  /\ UNCHANGED <<order, codeShown, cq, pq, lease, cw, inc, crashes, ntf, ccl, itk>>

PReturn(w) ==
  /\ Return1(pw, pq, "paygate", w)
  /\ UNCHANGED <<job, order, codeShown, cq, cw, inc, crashes, ntf, ccl, itk>>

-----------------------------------------------------------------------------
(* Crashes: a replica dies with its handler mid-way.  Its entry stays in the
   PEL, its lease stays until the TTL runs out; the restarted replica has
   a new incarnation, so the old token is never its own again. *)
Crash(w) ==
  /\ crashes < MaxCrashes
  /\ \/ w \in CW /\ cw[w].pc # "idle" /\ cw' = [cw EXCEPT ![w] = Idle] /\ UNCHANGED pw
     \/ w \in PW /\ pw[w].pc # "idle" /\ pw' = [pw EXCEPT ![w] = Idle] /\ UNCHANGED cw
  /\ inc' = [inc EXCEPT ![w] = @ + 1]
  /\ crashes' = crashes + 1
  /\ UNCHANGED <<job, order, codeShown, cq, pq, lease, ntf, ccl, itk>>

\* Mutant: no refresher, so the TTL also runs out under a live owner.
LeaseExpireLive(k) ==
  /\ lease[k] # NoToken
  /\ lease' = [lease EXCEPT ![k] = NoToken]
  /\ UNCHANGED <<job, order, codeShown, cq, pq, cw, pw, inc, crashes, ntf, ccl, itk>>

\* The TTL of a lease runs out: its owner died (the refresher died too), or
\* every Refresh of the live owner failed, which the kick loop only logs.
LeaseExpire(k) ==
  /\ lease[k] # NoToken
  /\ RefreshFaults \/ lease[k].inc < inc[lease[k].w]
  /\ lease' = [lease EXCEPT ![k] = NoToken]
  /\ UNCHANGED <<job, order, codeShown, cq, pq, cw, pw, inc, crashes, ntf, ccl, itk>>

-----------------------------------------------------------------------------
(* The user and the payment provider. *)

\* The user, who has the job id from the intake's reply, scans a code_url
\* shown by GET /compare/jobs/{id} and pays.
Pay ==
  /\ itk = "ok" /\ order = "open" /\ codeShown
  /\ order' = "paid"
  /\ UNCHANGED <<job, codeShown, cq, pq, lease, cw, pw, inc, crashes, ntf, ccl, itk>>

\* The provider posts a SUCCESS notification for a paid order, retrying
\* until it is acknowledged and occasionally sending it again.
NDeliver ==
  /\ order = "paid" /\ ntf.pc = "idle" /\ ntf.sent < MaxNotify
  /\ ntf' = [ntf EXCEPT !.pc = "check", !.sent = @ + 1]
  /\ UNCHANGED <<job, order, codeShown, cq, pq, lease, cw, pw, inc, crashes, ccl, itk>>

\* Amount check against the job's AmountYuan (skipped if Get finds nothing).
NReject ==
  /\ ntf.pc = "check"
  /\ job.status # Absent /\ ExpectedFen(job) # Fee
  /\ ntf' = [ntf EXCEPT !.pc = "idle", !.reply = "FAIL"]
  /\ UNCHANGED <<job, order, codeShown, cq, pq, lease, cw, pw, inc, crashes, ccl, itk>>

NAccept ==
  /\ ntf.pc = "check"
  /\ job.status = Absent \/ ExpectedFen(job) = Fee
  /\ ntf' = [ntf EXCEPT !.pc = "update"]
  /\ UNCHANGED <<job, order, codeShown, cq, pq, lease, cw, pw, inc, crashes, ccl, itk>>

\* The Update; its error is ignored and SUCCESS is replied either way.
NUpdate ==
  /\ ntf.pc = "update"
  /\ \/ job' = Update(job, NotifyPaid(job))
     \/ StoreFaults /\ job' = job
  /\ ntf' = [ntf EXCEPT !.pc = "idle", !.reply = "SUCCESS"]
  /\ UNCHANGED <<order, codeShown, cq, pq, lease, cw, pw, inc, crashes, ccl, itk>>

\* handleCancelJob, asked by the user with the id from the intake's reply:
\* Get and the early returns.
KStart ==
  /\ itk = "ok" /\ ccl.pc = "idle" /\ ccl.n < MaxCancels
  /\ job.status # Absent
  /\ ccl' = [ccl EXCEPT !.n = @ + 1, !.pc =
              IF job.status = "cancelled" \/ job.paid \/ job.status = "ready"
              THEN "idle"
              ELSE IF job.status = "awaiting_payment" THEN "close"
              ELSE "update"]
  /\ UNCHANGED <<job, order, codeShown, cq, pq, lease, cw, pw, inc, crashes, ntf, itk>>

\* wechat.CloseNativeOrder; an error (a paid order, or transport) ends the
\* request with 502.
KCloseOk ==
  /\ ccl.pc = "close" /\ order # "paid"
  /\ order' = IF order = "open" THEN "closed" ELSE order
  /\ ccl' = [ccl EXCEPT !.pc = "update"]
  /\ UNCHANGED <<job, codeShown, cq, pq, lease, cw, pw, inc, crashes, ntf, itk>>

KCloseErr ==
  /\ ccl.pc = "close"
  /\ ccl' = [ccl EXCEPT !.pc = "idle"]
  /\ UNCHANGED <<job, order, codeShown, cq, pq, lease, cw, pw, inc, crashes, ntf, itk>>

KUpdate ==
  /\ ccl.pc = "update"
  /\ job' = Update(job, CancelJob(job))
  /\ ccl' = [ccl EXCEPT !.pc = "idle"]
  /\ UNCHANGED <<order, codeShown, cq, pq, lease, cw, pw, inc, crashes, ntf, itk>>

-----------------------------------------------------------------------------
Init ==
  /\ job = NoJob
  /\ order = "none"
  /\ codeShown = FALSE
  /\ cq = << >> /\ pq = << >>
  /\ lease = [k \in LeaseKeys |-> NoToken]
  /\ cw = [w \in CW |-> Idle]
  /\ pw = [w \in PW |-> Idle]
  /\ inc = [w \in Workers |-> 0]
  /\ crashes = 0
  /\ ntf = [pc |-> "idle", sent |-> 0, reply |-> "none"]
  /\ ccl = [pc |-> "idle", n |-> 0]
  /\ itk = "create"

ComputeStep(w) ==
  \/ CDeliver(w) \/ CClaim(w) \/ CLockAcquired(w) \/ CLockBusy(w) \/ CGet(w)
  \/ CMark(w) \/ CWorkOk(w) \/ CWorkFail(w) \/ CPersist(w) \/ CReget(w)
  \/ CEnqueueOk(w) \/ CEnqueueErr(w) \/ CReturn(w)

PaygateStep(w) ==
  \/ PDeliver(w) \/ PClaim(w) \/ PLockAcquired(w) \/ PLockBusy(w) \/ PGet(w)
  \/ PRelease(w) \/ PFree(w) \/ POrderOk(w) \/ POrderErr(w) \/ PApply(w)
  \/ PFail(w) \/ PReturn(w)

Next ==
  \/ IntakeStep
  \/ \E w \in CW : ComputeStep(w)
  \/ \E w \in PW : PaygateStep(w)
  \/ \E w \in Workers : Crash(w)
  \/ \E k \in LeaseKeys : LeaseExpire(k)
  \/ Pay \/ NDeliver \/ NReject \/ NAccept \/ NUpdate
  \/ KStart \/ KCloseOk \/ KCloseErr \/ KUpdate

Spec == Init /\ [][Next]_vars

(* Fairness.  The intake request runs to its reply.  Every consumer loop runs forever and every handler that has
   started runs to its return (Go schedules all goroutines); the work step
   and each remote call end one way or the other.  A remote call that is
   retried succeeds eventually (strong fairness on the success outcome of
   the paygate enqueue).  The provider retries its notification.  A cancel
   request, once received, runs to its reply.  The user's own actions
   (paying, asking to cancel) and crashes get no fairness. *)
Fairness ==
  /\ WF_vars(ICreate) /\ WF_vars(IEnqueueOk \/ IEnqueueErr) /\ WF_vars(IFail)
  /\ \A w \in CW :
       /\ WF_vars(CDeliver(w)) /\ WF_vars(CClaim(w))
       /\ WF_vars(CLockAcquired(w)) /\ WF_vars(CLockBusy(w)) /\ WF_vars(CGet(w))
       /\ WF_vars(CMark(w)) /\ WF_vars(CWorkOk(w) \/ CWorkFail(w))
       /\ WF_vars(CPersist(w)) /\ WF_vars(CReget(w))
       /\ WF_vars(CEnqueueOk(w) \/ CEnqueueErr(w)) /\ SF_vars(CEnqueueOk(w))
       /\ WF_vars(CReturn(w))
  /\ \A w \in PW :
       /\ WF_vars(PDeliver(w)) /\ WF_vars(PClaim(w))
       /\ WF_vars(PLockAcquired(w)) /\ WF_vars(PLockBusy(w)) /\ WF_vars(PGet(w))
       /\ WF_vars(PRelease(w)) /\ WF_vars(PFree(w))
       /\ WF_vars(POrderOk(w) \/ POrderErr(w)) /\ WF_vars(PApply(w))
       /\ WF_vars(PFail(w)) /\ WF_vars(PReturn(w))
  /\ \A k \in LeaseKeys : WF_vars(LeaseExpire(k))
  /\ WF_vars(NDeliver) /\ WF_vars(NReject) /\ WF_vars(NAccept) /\ WF_vars(NUpdate)
  /\ WF_vars(KCloseOk \/ KCloseErr) /\ WF_vars(KUpdate)

FairSpec == Spec /\ Fairness
-----------------------------------------------------------------------------
(* Properties *)

TypeOK ==
  /\ job \in Job
  /\ order \in OrderStates
  /\ codeShown \in BOOLEAN
  /\ cq \in Seq(EntryStates) /\ pq \in Seq(EntryStates)
  /\ lease \in [LeaseKeys -> Tokens]
  /\ cw \in [CW -> Handler] /\ pw \in [PW -> Handler]
  /\ inc \in [Workers -> Nat] /\ crashes \in Nat
  /\ ntf \in [pc : {"idle", "check", "update"}, sent : Nat,
              reply : {"none", "SUCCESS", "FAIL"}]
  /\ ccl \in [pc : {"idle", "close", "update"}, n : Nat]
  /\ itk \in IntakePcs

\* Spec invariant 1 (download gate): a job is ready only once it is paid
\* and its result is stored.  The paygate release path writes "ready"
\* without re-reading Paid, trusting the Get made before it.
ReadyImpliesPaidAndResult ==
  job.status = "ready" => job.paid /\ job.result

\* Spec invariant 2: a job awaiting payment has its result, is unpaid,
\* shows a code for an order the provider knows, at the configured fee.
\* The notify handler and the paygate worker race on this record.
AwaitingImpliesOrder ==
  job.status = "awaiting_payment" =>
    /\ job.result /\ ~job.paid /\ job.code /\ job.amount = Fee
    /\ order # "none"

\* The per-job leases: at most one compare-worker and at most one
\* payment-worker is between its Acquire and its deferred Release.
LeaseExclusion ==
  /\ \A v, w \in CW : cw[v].held /\ cw[w].held => v = w
  /\ \A v, w \in PW : pw[v].held /\ pw[w].held => v = w

\* Spec invariant 3 for "ready": once released, no worker, handler or
\* failure path takes the job out of "ready".
ReadyIsFinal == [][job.status = "ready" => job'.status = "ready"]_vars

\* Spec invariant 3 for "cancelled": a cancelled job stays cancelled
\* whatever a compare-worker or payment-worker still running does.
CancelledIsFinal ==
  [][job.status = "cancelled" => job'.status = "cancelled"]_vars

\* Spec 4.8: the provider only notifies the paid order, with the order's
\* amount, so the notify handler never answers FAIL to it (a FAIL makes
\* the provider retry the same notification).
NotifyNeverRejected == ntf.reply # "FAIL"

\* Spec 4.8: once the notify handler answers SUCCESS the payment is on
\* the job record (the provider will not tell again).
NotifyAckedImpliesPaid == ntf.reply = "SUCCESS" => job.paid

\* Spec 4.9 ("paid concurrently wins"): the user is never charged for a
\* job that ends cancelled.
CancelledNeverPaid == ~(job.status = "cancelled" /\ job.paid)

\* The pipeline seen from the job record and the WeChat order: every step
\* is a step of the job life cycle of spec §3 or one of the four
\* departures JobLifecycle names (a failure written over "cancelled", a
\* cancelled job charged and its payment recorded, and at a zero fee a
\* failure written over "ready"), although its handlers decide on records
\* read steps earlier, race each other and crash.
Lifecycle == INSTANCE JobLifecycle
               WITH status <- job.status, paid <- job.paid,
                    result <- job.result, charged <- (order = "paid")

LifecycleSpec == Lifecycle!Spec

\* Spec 4.1/4.6: pending-entry reclaim recovers a job from crashed or
\* failed handlers, so a submitted job does not stay "processing" forever.
JobEventuallySettles ==
  job.status = "processing" ~> job.status # "processing"
=============================================================================
