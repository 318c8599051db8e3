# Formal model of the compare-job pipeline and the diff export

This directory holds TLA+ models of the job pipeline in the Go backend of
this repository. The pipeline covers intake, the compute stream, the paygate
stream, the leases, WeChat Pay and the notify and cancel handlers. It also
holds the TLC configurations that check the models, and TLAPS proofs of the
two central safety properties. The model follows the code's control flow,
branch by branch. It does not follow the prose of `spec.md`, which was used
only to say what the code is meant to guarantee.

## The system and how its parts interact

One compare job passes through these parts:

1. **Intake.** `handleCreateJob` (`src/gobackend/compare/service.go` 69-202)
   makes three remote calls, one after the other:
   - `store.Create` (170-182) writes the record with status `processing`.
     It is a SETNX (`store/compare_job_store.go` 202-213), and its error is
     ignored.
   - It appends an entry to the compute stream within 2 s (184-186).
   - If the enqueue answers an error, a failure Update sets `failed`
     (187-190), its error ignored, and the handler answers 502. The error may
     be a timeout after the XADD already took effect, so the job can be
     computed, and even released, before that Update lands.

   The user learns the job id only from the 200 reply (197-200).
2. **Compute stream.** This is a Redis Stream with a consumer group
   (`src/unnamed/part_009`).
   - `ConsumeLoop` (154-205) reads new entries with `XREADGROUP >`.
   - `maybeAutoClaim` (248-291) takes over entries that have been pending
     for 30 s.
   - `handleOne` (214-246) acks an entry when the handler returns nil or a
     `Terminal` error. Otherwise the entry stays in the pending list (PEL).
3. **Compare worker.** `Worker.Process` (`src/unnamed/part_001` 72-230) runs
   these steps in order:
   - takes the per-job lease `lock:compare:<id>` (redislock, `part_005`);
   - reads the job and short-circuits a terminal job or a job that already
     has a result;
   - marks it `processing`;
   - runs the diff, which can fail through `fail()` (232-245, writes
     `failed`);
   - persists the result key;
   - re-reads the job;
   - appends it to the paygate stream.

   An error from the paygate enqueue is returned as transient, so the entry
   is redelivered.
4. **Paygate worker.** `Worker.Process` (`src/unnamed/part_006` 38-162) takes
   the lease `lock:paygate:<id>` and reads the job. Then:
   - with no result yet, it returns a transient error;
   - if the job is paid, it releases it (`ready`, 104-117);
   - if the fee is 0, it marks the job paid and releases it (119-138);
   - if the job is already awaiting payment with a code, it stops;
   - otherwise it calls `CreateNativeOrder` (`part_002` 24-103). On success
     it stores `awaiting_payment` with the code URL and the amount in fen
     (150-161). On failure it calls `fail()` (164-177).
5. **Payment.** The user pays the WeChat order whose `out_trade_no` is the job
   id. The provider posts notifications until one is acknowledged, and
   sometimes posts again after that. The notify handler
   (`src/gobackend/wechat/notify.go` 46-158) proceeds in three steps:
   - It checks the amount against the job's `AmountYuan`, replacing a
     non-positive value with 1 fen (116-127).
   - It runs `Update` with an idempotent closure (129-155). The closure sets
     `Paid`. If the result exists, it releases the job (`ready`, amount and
     code cleared). Otherwise it moves the job from `awaiting_payment` to
     `processing`.
   - It replies SUCCESS whatever the Update returned (157).
6. **Cancel.** `handleCancelJob` (`service.go` 302-352) reads the job. It
   returns early for cancelled, paid or ready jobs (314-327). It closes the
   WeChat order if the job is awaiting payment (329-335). Finally it runs an
   Update that cancels only if the job is not paid and not ready (337-345).

The store's `Update` (`store/compare_job_store.go` 236-294) applies a closure
under WATCH/MULTI and retries up to 8 times. A missing record is left alone.
Every handler, every stream consumer slot, and the provider all run
concurrently. Every remote call is atomic in Redis, but consecutive calls of
one handler are not.

## Modules

| Module | Models | State / actions |
|---|---|---|
| `JobStore` | the job record and every closure handed to `Update` | `Job` records (status, paid, result, code, amount in fen). The closures are `MarkProcessing`, `PersistResult`, `FailJob`, `ReleasePaid`, `ReleaseFree`, `AwaitPayment`, `NotifyPaid` and `CancelJob`. `Update(j, new)` leaves a missing record alone. |
| `StreamQueue` | one stream plus its consumer-group PEL | A sequence of entry states (`new`, `pending`, `acked`). `XAdd`, `Deliver` (oldest new entry), `XAck`, `PendingEntries` (what XAUTOCLAIM may take). |
| `KeyedLease` | redislock | A lease value is an owner token. `CanAcquire` is SET NX. `ReleaseIfOwner` is the owner-checked Lua release. |
| `JobPipeline` | the whole pipeline for one job | Variables: `job`, `order`, `codeShown`, the two streams `cq` and `pq`, `lease`, the handler states `cw` and `pw` (pc, entry, return value, lease held), the worker incarnations `inc`, `crashes`, the notify handler `ntf` and the cancel request `ccl`. One action per remote call of each handler, listed below. |
| `MCJobPipeline` | TLC instance | Worker symmetry. |
| `JobPipelineProofs` | TLAPS | Type correctness, the download gate, and their lemmas. |
| `JobPipelineSafetyProofs` | TLAPS | The awaiting-order link, the free path, lease exclusion and the finality of `ready`, each with its inductive invariant. |
| `JobLifecycle` | the abstract job life cycle of spec §3 and §4.5-§4.9 (a specification, not a model of code) | Variables `status`, `paid`, `result`, `charged`. `DesignNext` is the spec's life cycle: `Create`, `Produce`, `Mark`, `Fail`, `RequestPayment`, `Charge`, `Release`, `Cancel`. `Departure` names the four steps the code takes against it: `FailCancelled`, `ChargeCancelled`, `PayCancelled`, `FailReady`. `JobPipeline` instantiates it as `Lifecycle` and states `LifecycleSpec`. |
| `JobPipelineRefinementProofs` | TLAPS | The proof that `JobPipeline` implements `JobLifecycle`. |
| `CellText` | the diff engine's text helpers (`excelcmp/normalize.go`, `readxlsx.go` `normalizeHeaders`, `keyedread.go` sheet naming, `part_007` key guessing) | Pure operators over character sequences: `NormalizeScalarForCompare`, `NormalizeHeaders`, `GuessPrimaryKeyColumn`, `SheetNames`. |
| `DiffExport` | `GenerateCompareExportXLSX` (`excelcmp/export.go`) and what it calls | Variables: the two input sheets, `phase`, `err`, the keyed sheets `s1`/`s2`, the artifacts `art`, the output sheets `inc`/`red`/`chg`, and the Changed-sheet loop state (`ki`, `mask`, `dirty`, `first`, `cache`). Actions `Load1`, `Load2`, `Artifacts`, `WriteInc`, `WriteRed`, `DiffStart`, `DiffSkip`, `DiffEmit`, `DiffEnd`, `Save`, `IOFail`. |
| `CellSpec` | reference definitions | The rules of `spec.md` 4.4 stated declaratively (`SpecNormalize`, `SpecGuess`), independent of the code's scans. |
| `MCCellText`, `MCDiffExport` | TLC instances | Every small input of a helper; every pair of small workbooks. |

These are the actions of `JobPipeline`:

- **Compare worker:** `CLockAcquired`/`CLockBusy`, `CGet`, `CMark`,
  `CWorkOk`/`CWorkFail`, `CPersist`, `CReget`, `CEnqueueOk`/`CEnqueueErr`,
  `CReturn`.
- **Paygate worker:** `PLockAcquired`/`PLockBusy`, `PGet`,
  `PRelease`/`PFree`, `POrderOk`/`POrderErr`, `PApply`, `PFail`, `PReturn`.
- **Consumers and intake:** `CDeliver`/`PDeliver` are XREADGROUP.
  `CClaim`/`PClaim` are XAUTOCLAIM. The intake is `ICreate` (SETNX),
  `IEnqueueOk`/`IEnqueueErr` (the error leaves the XADD done or not) and
  `IFail` (the failure Update). Its program counter is `itk`.
- **Crashes and leases:** `Crash(w)` kills a replica mid-handler. Its entry
  stays pending, and its restarted incarnation owns a new token.
  `LeaseExpire(k)` expires a lease whose owner is dead. When the constant
  `RefreshFaults` holds, it can also expire the lease of a live owner. That
  happens when every `Refresh` fails: the kick loop (`part_001` 104-122) only
  logs the error. Otherwise the refresher keeps a live owner's lease alive.
- **Store faults:** when the constant `StoreFaults` holds, each store write
  whose error the code ignores or only reports may leave the record
  unchanged: the intake's Create and failure Update, and the notify Update.
- **User and provider:** `Pay` (only after the intake answered 200), `NDeliver`/`NReject`/`NAccept`/`NUpdate`, and
  `KStart`/`KCloseOk`/`KCloseErr`/`KUpdate`.

`PROJECT.json` → `map` gives the source lines behind each definition.

**Abstractions.** A job id, a result key, a code URL and a token's random part
are each one value. The diff itself is one step that succeeds or fails. The
fee is kept in fen; the float conversion of `AmountYuan` is not modelled,
except for its `<= 0 → 1` fallback.

### The diff export

`GenerateCompareExportXLSX` loads file 1 with key guessing
(`loadKeyedSheetXLSX`: first sheet, `normalizeHeaders`, `GuessPrimaryKeyColumn`
over up to 5 sample rows, then one `AddRow` per row that pads or cuts the row
to the header width, normalises the key and records duplicates). It then loads
file 2 with file 1's key, fails on duplicates, builds the artifacts
(`compareArtifactsFromMaps`: the added, removed and common key sets sorted
with `sort.Strings`, the ordered union of the columns and the aligned column
indices), and writes three sheets. The Changed sheet is a loop over the common
keys (`DiffSkip`/`DiffEmit`, one step per key). Each key's cells are compared
by an FNV-1a fingerprint of the normalised value, with a string comparison
when the fingerprints are equal. A normalisation cache holds at most 80000
raw values, and a bitmask marks the differing columns. Only the words on the
dirty list are cleared before the next key. The header row is written
before the first changed row. Each I/O step (opening a file, iterating rows,
writing, saving) can fail with `IOFail`.

**Abstractions of the diff export.** The xlsx bytes are abstracted: a sheet is
a sequence of rows of cell strings. A string is a sequence of one-character
strings. The CJK characters of the keywords and sheet names are single tokens
(`ZI`, `CHAN`, `BIAN`, `HAO`...). `ParseFloat` is modelled on the decimal
forms only; exponent, hex and underscore forms are not in the inputs. FNV-1a
is computed modulo 2^8, not 2^64, so that collisions occur on small values
(`x6` and `6x` collide). The code's fallback makes the result independent of
the width. Mask words are `WordBits` bits wide (64 in the code, 1 in the run)
and the cache holds `CacheMax` values (80000 in the code, 2 in the run), so
that the word index, the dirty list and a full cache all occur on two
columns. `normalizeScalarForCompare` and the fingerprint are pure, so
`NormFP` computes them once for every cell text of the inputs. The cache is
still modelled as in the code, including which values it holds.

## Runs

The pipeline runs use `MCJobPipeline`.

| Run | Expect | Checks | What it shows |
|---|---|---|---|
| `safety` | pass | `TypeOK`, `ReadyImpliesPaidAndResult`, `AwaitingImpliesOrder`, `LeaseExclusion`, `[]ReadyIsFinal`, `LifecycleSpec` | Two consumers per stream, one crash, two stream entries each, two notifies, one cancel and store faults in the intake and in notify never open the download gate early. They never leave `awaiting_payment` without a code and an open or paid order. They never let two live handlers hold one lease, and at a non-zero fee never take a job out of `ready`. Seen through the refinement mapping, every step of the pipeline is a step of `JobLifecycle`'s design, one of its four named departures, or a stutter. About 1.0 M distinct states. |
| `free` | pass | `ReadyImpliesPaidAndResult`, `CancelledNeverPaid`, `LifecycleSpec` | With fee 0, the free path releases only with `Paid` set, and a racing cancel never yields a paid, cancelled job. The free path also implements `JobLifecycle` (its `Release` by a zero fee, and the `FailReady` departure). |
| `lapse` | pass | `ReadyImpliesPaidAndResult`, `AwaitingImpliesOrder` | With failing lease refreshes, two compare workers can run the same job. The download gate still holds, and so does the awaiting-payment record. This is the only setting where the paygate's "already paid" release branch is reached: a stale compare worker re-marks a released job `processing`. |
| `liveness` | pass | `JobEventuallySettles` (under `FairSpec`) | With one consumer per stream and no crash, PEL retries take every job out of `processing`/`awaiting_payment` unless the user never pays. |
| `cancel_overwritten` | violation | `CancelledIsFinal` | `fail()` overwrites `cancelled` with `failed` (finding). |
| `notify_retry` | violation | `NotifyNeverRejected` | A duplicate SUCCESS notify after release is answered FAIL, amount mismatch (finding). |
| `cancelled_paid` | violation | `CancelledNeverPaid` | A cancel that read `processing` and a payment end in a paid, cancelled job (finding). |
| `notify_lost` | violation | `NotifyAckedImpliesPaid` | An Update error in notify is acknowledged, so the payment is lost (finding). |
| `ready_reopened` | violation | `ReadyIsFinal` | At fee 0, with every lease refreshed, the intake's enqueue times out after the XADD. The workers compute the job and release it for free. Then the intake's failure Update (`service.go` 187-190, unconditional) writes `failed` over `ready` (finding). |
| `stuck` | violation | `JobEventuallySettles` | An entry reclaimed while its handler runs is acked on the busy lease. The handler then dies and the job is stuck (finding). |

One more configuration, `MCJobPipeline_ready_lapse.cfg` (`MCJobPipeline`,
fee 2, `RefreshFaults`), reproduces a second way out of `ready`, with
`ReadyIsFinal` violated in a few seconds: under a lapsed lease, the
mark-processing Update of a stale compare worker (`part_001` 156-162 guards
only `cancelled`) takes a paid, released job out of `ready` (finding).

The diff-engine runs:

| Run | Expect | Checks | What it shows |
|---|---|---|---|
| `cell_text` | pass | `NormalizeIdempotent`, `NormalizeMatchesSpec`, `SheetNamesValid` | Every cell of up to 4 characters over digits, sign, point, space and null-word letters is checked: normalisation is idempotent and agrees with the spec's rules. For 64 pairs of upload names, the three sheet names are distinct, non-empty, at most 31 runes and free of forbidden characters. The upload names include a blank name, paths, forbidden characters, a hidden file, and names that reach 31 runes. About 45 k states. |
| `export` | pass | `ExportMatchesSpec` | For every pair of small workbooks, the export fails exactly when the spec says and otherwise writes exactly the spec's three sheets. The workbooks have one or two rows, keys `2`/`10`/`10.0` that sort differently as strings and normalise alike, values with colliding fingerprints, and two column layouts for file 2. About 130 k states. |

Four more configurations reproduce the diff-engine findings. Each takes a
few seconds: `tlc -config <cfg> <module>`.

| Configuration | Property violated | What it shows |
|---|---|---|
| `MCCellText_headers.cfg` (`MCCellText`) | `HeadersUnique` | `[a, a, a.1]` is normalised to `[a, a.1, a.1]`. |
| `MCDiffExport_collide.cfg` (`MCDiffExport`) | `ExportMatchesSpec` | With those headers in both files, an edit in the second `a` column is never reported. |
| `MCCellText_guess.cfg` (`MCCellText`) | `GuessMatchesSpec` | A header with two keywords scores 20 and beats an earlier column, against the spec's "+10 if it contains any". |
| `MCDiffExport_empty_file2.cfg` (`MCDiffExport`) | `ExportMatchesSpec` | An empty file 2 is accepted rather than failing, and all of file 1 is reported as removed. |

The eleven findings (six from the pipeline runs, five from the extra
configurations), with the source line of each, are in `PROJECT.json` →
`findings`. Every property of a passing run is shown to depend on the code by
a mutant (`PROJECT.json` → `mutants`). Dropping the stale-owner guard on lease
expiry breaks `LeaseExclusion`. Dropping the awaiting-with-code short-circuit
of the paygate breaks `ReadyIsFinal`. Acking transient errors breaks
liveness. In the diff engine, a dirty-word list that misses the words it
should clear breaks `ExportMatchesSpec`. So do a null-word test before
trimming (`NormalizeIdempotent`), accepting an empty fraction `1.`
(`NormalizeMatchesSpec`), and a `_2` suffix added without trimming
(`SheetNamesValid`).

**Bounds.** The bounds are chosen so that each hazard occurs:

- Two consumers per stream allow a reclaim while a handler still runs.
- Two stream entries allow a duplicate entry from an enqueue timeout after
  XADD.
- One crash allows a dead lease owner and an orphaned PEL entry.
- Two notifies allow a provider retry after release.
- One cancel suffices, because a second cancel always hits an early return.

Larger bounds repeat these patterns.

For the diff export, two data rows per file give a common key, an added and
a removed key, and a duplicate. Three key spellings (`2`, `10`, `10.0`) cover
string order against numeric order and key normalisation. Two values per side
cover the fingerprint collision and the normalisation equality. Two header
layouts for file 2 cover a column missing from one side. With 1-bit words and
a 2-entry cache, the mask, the dirty list and a full cache are all exercised.

**Fairness.** The consumer loops never stop, and Go schedules every goroutine.
So each handler step is weakly fair, and so are the provider's retries. A
retried paygate enqueue eventually succeeds, which is strong fairness on its
success outcome, because Redis is assumed to come back. The user's actions
(paying, cancelling) and crashes get no fairness: the code cannot make a user
pay.

## Proofs (`JobPipelineProofs`, checked by `tlapm`)

- `TypeCorrect: Spec => []TypeOK`. It rests on these lemmas:
  - the stream operations stay in `Seq(EntryStates)`, with the out-of-domain
    case of `EXCEPT` handled;
  - every closure returns a `Job`;
  - `TypeInit` and `TypeNext`, the second with one case per action.
- `ReadyGate: Spec => []ReadyImpliesPaidAndResult`. This is spec invariant 1,
  the download gate, and it holds for every set of workers and every bound.

  The invariant is not inductive by itself. `PRelease` writes `ready` from a
  `Paid` value read by an earlier `PGet`, outside the Update closure. The
  strengthening is therefore
  `IInv == TypeOK /\ ReadyImpliesPaidAndResult /\ ReleaseSeesPaid`, where
  `ReleaseSeesPaid` says that every paygate handler at the release step read
  a paid, existing record.

  It stays true for two reasons. No closure ever clears `paid` or the result,
  or deletes the record (lemma `MutatorsGrow`). And entering the release step
  requires reading `paid`. TLC also checked `IInv` as an invariant of the
  `safety` instance.

## Proofs (`JobPipelineSafetyProofs`, checked by `tlapm`)

Every inductive invariant below was first checked by TLC as an invariant of
the `safety` instance (and of the free and lapse instances where it applies)
before it was proved.

- `AwaitingOrder: Spec => []AwaitingImpliesOrder`, for every value of the
  constants. `PApply` writes `awaiting_payment` after the order was created in
  an earlier step, so the strengthening adds `ApplySeesOrder`: a paygate
  handler at the apply step has seen an order. No closure moves a record back
  to `awaiting_payment` (lemma `MutatorsAwait`).
- `FreeNeverCancelledPaid: Fee = 0 => (Spec => []CancelledNeverPaid)`. With a
  zero fee the paygate handler takes the free branch (`ReleaseFree`), so no
  order is ever created and no notification arrives. The invariant `FreeInv`
  says exactly that: `order = "none"`, the notify handler idle, and no paygate
  handler on the order path. The hypothesis is needed: the `cancelled_paid`
  run (fee 2) shows the property failing on the paid path.
- `LeaseSafe: ~RefreshFaults => (Spec => []LeaseExclusion)`. The strengthening
  `HoldsLease` says that a handler that believes it holds the lease is named
  in the lease value with its current incarnation (`OwnedBy`). Acquisition
  (SET NX) needs the key absent, the owner-checked release only clears the
  caller's own token, and a crash bumps the incarnation so the old token no
  longer matches. Two holders would then both be the lease owner, which
  forces them to be the same worker (lemma `OwnedExclusive`). This rests on
  `NoOwnerAssumption` (declared in `JobPipeline`): the "no lease" token names
  no worker. The hypothesis `~RefreshFaults` is needed: the `lapse` run shows
  a lease expiring under its holder.
- `ReadyFinal: ~RefreshFaults /\ Fee # 0 => (Spec => ReadyIsFinal)`, the
  action property that no step leaves `ready`. The invariant `RInv` conjoins
  `IInv`, `HoldsLease` and two more pieces:
  - `Stages`: a handler past its lock step holds the lease
    (`BusyArmed`), a compute handler in progress sees no result yet, and a
    paygate handler past the release decision sees a result and, on the order
    path, a job that is neither ready nor shown. With the lease exclusive,
    this rules out a second handler overwriting a `ready` record with
    `processing` or `awaiting_payment`;
  - `CodeInv`: the code is shown only with a result and only while awaiting
    or once paid or terminal; a pending notification implies a paid order,
    and a paid order implies the code was shown. This rules out `NUpdate`
    acting on a record it should not.

  A second invariant, `PayInv`, handles the intake, whose failure Update
  overwrites any status. It says that orders and the paygate's order path
  exist only at a non-zero fee, that a recorded payment comes from a paid
  order or a zero fee, that a missing record is unpaid, and that a paid
  order implies the intake answered 200 (`itk = "ok"`): the user pays with
  the id of that answer. So at a non-zero fee a ready job was paid through
  an order, the intake is done, and `IFail` cannot follow (lemma
  `IntakeFrame` lists what an intake step may change).

  Both hypotheses are needed. The `ready_lapse` configuration shows a lapsed lease
  letting a second compute handler reopen a ready job. The `ready_reopened`
  run shows, at fee 0, the intake's failure Update landing after the free
  release.

## The abstract life cycle and the refinement (`JobPipelineRefinementProofs`)

`JobLifecycle` says what a client polling the record and the payment
provider may see, with no workers, streams, leases or handlers. Spec
invariants 1 and 2 become guards: `Release` needs the result and a payment
(recorded, charged or waived by a zero fee) and records it in the same step;
`RequestPayment` needs the result, no payment and a non-zero fee. `Cancel`
needs an unpaid job. `ready` has no outgoing step.

Those guards are the design (`DesignNext`). The code takes four steps
against it, each the finding of a run, and `JobLifecycle` names them one by
one in `Departure`, so that the refinement says exactly where the code
leaves the design and nowhere else:

- `FailCancelled`: `failed` written over `cancelled` (`cancel_overwritten`);
- `ChargeCancelled` and `PayCancelled`: the user pays a code read before the
  cancel, and the notification records the payment on the cancelled job
  (`cancelled_paid`);
- `FailReady`: at a zero fee, `failed` written over `ready` by the intake's
  late failure Update (`ready_reopened`).

The mapping (`Lifecycle` in `JobPipeline`) is `status`, `paid` and `result`
of the record, and `charged <- order = "paid"`. Everything else (streams,
leases, handler states, incarnations, the notify and cancel requests) is
hidden. TLC checks `LifecycleSpec` on the `safety` and `free` runs.

`Refinement: ~RefreshFaults => (Spec => LifecycleSpec)` is proved for every
value of the constants, in three steps:

1. `Init` maps to `Lifecycle!Init`.
2. `Spec => []LcInv`, where `LcInv` is `RInv` and `PayInv` (from
   `ReadyFinal`), `AInv` (from `AwaitingOrder`) and two more pieces:
   - `BeforeEnqueue`: until the intake has enqueued, both streams are empty,
     every handler is idle and no code was shown. So `ICreate` on an absent
     record is the abstract `Create`.
   - `FailedShown`: the workers fail only jobs that showed no code, so a
     failed job with a shown code was failed by the intake, which answered
     502. Since a paid order needs the id of a 200 reply, a notification
     never records a payment on a failed job.

   These are needed because the handlers write on the strength of records
   read steps earlier: each conjunct is an abstract guard that the closure
   passed to `Update` does not re-check.
3. Every `Next` step under `LcInv` is a `Lifecycle!Next` step or a stutter
   (`LcMovesStep`, with one lemma per group of actions: `RefCompute`,
   `RefPaygate`, `RefEnv`, and `FailMoves`, which shows that a failure
   Update is `Fail`, `FailCancelled` or, only at a zero fee, `FailReady`).

TLC checked `LcInv` as an invariant of the `safety` (1.0 M states) and
`free` instances before it was proved. The hypothesis `~RefreshFaults` is
needed: under a lapsed lease the `ready_lapse` configuration takes a job out of
`ready` into `processing`, which neither the design nor a departure allows.

Out of the provers' reach, and checked only by TLC:

- the liveness property `JobEventuallySettles`,
  because of fairness and ENABLED;
- the properties of the violation runs (`CancelledNeverPaid` with a fee,
  the notify properties, and the lease properties and `LifecycleSpec` under
  `RefreshFaults`),
  which are findings rather than theorems;
- every diff-engine property. `CellText` declares the RECURSIVE `Decimal`,
  and `DiffExport` and both MC modules reach it through EXTENDS, so none of
  them can be used from a proof module. Their statements are also about what
  recursive scans compute over all inputs, which is induction over data.

## Not modelled

- In the diff engine: `readXLSXFirstSheetTable`, `CompareArtifacts`,
  `buildKeyRowMap`, `buildSubTable(FromMap)` and
  `writeSimpleTableSheetStream`, which only the tests call. Also the xlsx
  encoding itself, and excelize's styles (the `redStyle` error is taken as
  never happening).
- `Service.runCompareTask` (`service.go` 454-624): it is never called.
- xls conversion, OSS and metrics: I/O that changes no state the properties
  read.
- Signature verification and decryption in notify: cryptography.
- The billing demo in `part_000`.
- The store TTL.
- Stream trimming.
- Errors from the store `Get` and from lease acquisition in the workers,
  which are transient returns.
- Store faults in the worker steps (the ignored errors at `part_001` 156/204).

## Plan for later work

1. Store-Update faults in the worker steps (the ignored errors at
   `part_001` 156/204).
2. A refinement of `DiffExport` onto a one-step abstract export, and the
   compare worker calling it in `JobPipeline`.
