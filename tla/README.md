# TLA+ verification of bee-tron

This directory holds TLA+ models of parts of the bee-tron node (a Swarm `bee`
fork), TLC configurations that model-check them on small instances, and TLAPS
proofs of their main safety properties for all values of the constants.

## The system and what is under `src/`

`src/` holds a fragment of the repository. The components, and whether they are modelled:

| component | source | module | status |
|---|---|---|---|
| swap settlement service: `ReceiveCheque`, `Pay`, `Handshake` | `src/unnamed/part_005` | `Swap`, `SwapProofs`, `SwapCreditProofs` | partly |
| swap collaborators: addressbook, cheque store, chequebook, accounting | interfaces used by `part_005`; rules from `chequebook/chequestore_test.go` | `Swap` (as state) | partly |
| replicas putter (`Put` with one goroutine per replica) | `src/pkg/replicas/putter.go` | `ReplicasPutter`, `ReplicasPutterProofs`, `ReplicasPutterResultProofs` | modelled |
| steward (`Reupload`, `IsRetrievable`) | `src/pkg/steward/steward.go` | `Steward`, `UploadSession` (its contract), `StewardProofs` | modelled |
| HTTP test helper `jsonhttptest.Request` and its options | `src/pkg/jsonhttp/jsonhttptest/jsonhttptest.go` | `JsonHttpTest`, `JsonHttpTestProofs` | modelled |
| storer migration `step_02` | `src/unnamed/part_001` | none | planned |
| libp2p header exchange (`sendHeaders`, `handleHeaders`) | `src/unnamed/part_004` | none | planned |
| topology mock driver (peer list under a mutex, `ClosestPeer`, iteration) | `src/pkg/topology/mock/mock.go` | none | planned |
| feeds lookup factory, metrics, interfaces, postage mock stamper | various | none | no state |
| storage core named in `spec.md` (blob store, index store, chunk store, cache, reserve, transactions) | not under `src/` | none | candidates for spec-modelled modules |

### How the swap service interacts

Swap settlement connects four collaborators:

- The **swap protocol** calls `Handshake(peer, beneficiary)` when a peer connects.
- The swap protocol calls `ReceiveCheque(peer, cheque, rate, deduction)` when a cheque arrives. Each incoming stream is handled in its own goroutine.
- The **accounting** calls `Pay(peer, amount)` when a debt must be settled. It expects exactly one `NotifyPaymentSent` for each call.

The service has no lock of its own. Each handler works in this order:

1. It reads the **swap addressbook**:
   - the peer's beneficiary;
   - the peer for a beneficiary;
   - the peer's chequebook.
2. It calls one of:
   - the **cheque store**, which validates and stores the last cheque received for each chequebook;
   - the **chequebook**, which issues cheques.
3. It writes the addressbook.
4. It notifies the accounting.

## The model: `Swap.tla`

Each handler is split at the calls it makes. Those calls are the points where another goroutine can run in between.

There is a set `Workers` of goroutines. Each worker has:

- a program counter `pc[w]`;
- the handler's local variables `loc[w]`;
- the handler it is running, `op[w]`.

| code | model |
|---|---|
| `addressbook.Chequebook`, the `ErrWrongChequebook` check (lines 85-93) | `RCBegin` |
| `chequeStore.ReceiveCheque`, the rejection path (95-99) | `RCStore` |
| `AddDeductionFor` when the deduction is positive (101-106) | `RCDeduct` |
| `(received - deduction) / rate` (108-109) | `CreditAmount` |
| `PutChequebook` for an unknown peer (111-116) | `RCPutChequebook` |
| `NotifyPaymentReceived` (118-122) | `RCNotify` |
| `Pay`: no chequebook, read error, unknown beneficiary, deferred notify (126-144) | `PayBegin` |
| `EmitCheque` and `NotifyPaymentSent(nil)` (146-157) | `PayEmit` |
| `Handshake`: `BeneficiaryPeer`, the migration branch (253-263) | `HSBegin`, `HSMigrate` |
| `Handshake`: `Beneficiary`, `PutBeneficiary` (265-274) | `HSReadPeer`, `HSPut` |

How the collaborators are modelled:

- **Failures.** Every call into a collaborator may fail. The error path is modelled as its own disjunct, and that disjunct returns from the call.
- **Addressbook.** The addressbook is four index functions:
  - `peerBeneficiary`, `beneficiaryPeer`;
  - `peerChequebook`, `chequebookPeer`.

  A put writes both directions of an index in one step.
- **`MigratePeer`.** Its code is not under `src/`. The model moves the old peer's beneficiary and chequebook to the new peer.
- **Cheque store.** It keeps the last cumulative payout received on each chequebook. It accepts a cheque whose increment covers `rate + deduction`, as `chequestore_test.go` requires (`ErrChequeNotIncreasing`, `ErrChequeValueTooLow`). The on-chain checks are the nondeterministic rejection.
- **Amounts.** Cheque values and amounts are small natural numbers. `big.Int` cannot overflow, so no width is modelled.

The history variables `paidIn`, `deducted`, `accepted` and `creditNotices` record what the store accepted and what the accounting was told. The properties compare them.

`MaxCalls` bounds the number of calls. When every call has returned, `Terminating` stutters, so deadlock checking stays on.


## The replicas putter: `ReplicasPutter.tla`

`putter.Put` stores a chunk and, at a redundancy level above 0, one
single-owner-chunk replica per address the replicator sends. The calling
goroutine starts one goroutine per address. Each replica goroutine signs,
puts, and sends its error on `errc`, a buffered channel of capacity
`GetReplicaCount()`. The caller drains `errc` only after `wg.Wait()`.

| code (`putter.go`) | model |
|---|---|
| `rLevel == 0` return, replicator, `make(chan error, ...)` (36-44) | `Start`, `ErrcCapacity` |
| `for r := range rr.c { wg.Add(1); go ... }` (45-47) | `Receive`, `LoopEnd` |
| `soc.New(r.id, ch).Sign` (49) | `Sign(g)` |
| `p.putter.Put` when signing succeeded (50-52) | `PutReplica(g)` |
| `errc <- err`, deferred `wg.Done()` (48, 53) | `Send(g)`: enabled only while `errc` has room |
| `wg.Wait(); close(errc)` (57-58) | `Wait` |
| drain and `errors.Join` (59-62) | `Drain` |

The replicator (`newReplicator`) is not under `src/`. `ReplicatorSends`
models it as sending `GetReplicaCount()` addresses, numbered in the order sent.
The constant `LoopVarPerIteration` selects what the goroutine's read of `r`
means:

- TRUE: each iteration has its own `r` (Go 1.22 and later).
- FALSE: all iterations share one `r`, read whenever the goroutine runs.

**Fairness.** Each replica goroutine and the caller are weakly fair
(`WF_vars` per goroutine). The Go scheduler keeps running a goroutine that can
run. Only `PutTerminates` depends on this.

## The steward: `Steward.tla` and `UploadSession.tla`

One call of `Reupload` or `IsRetrievable` traverses a root whose content is
the chunks `1..N`. The traverser is in `pkg/traversal`, which is not under
`src/`. It is modelled from how the steward uses it: it visits the chunks in
order, stops at the first error `fn` returns, and may fail on its own
(`TraversalFails`, `TraverseDone`).

| code (`steward.go`) | model |
|---|---|
| `DirectUpload`, `Download` (56-57) | `RUStart` |
| `fn`: `getter.Get` (60-63), `stamper.Stamp` (65-68), `uploaderSession.Put` (70) | `RUGet`, `RUStamp`, `RUPut` |
| traversal error: `errors.Join(..., Cleanup())`; else `Done(root)` (73-80) | `RUEnd` |
| `fn`: `RetrieveChunk` (85-88) | `IRVisit` |
| the `switch` on `errors.Is` (89-98) | `IREnd` |

`UploadSession.tla` is the abstract contract that `Reupload` promises its
caller:

- a session is opened once;
- chunks are put only while the session is open;
- the session is closed once, either with `Done`, and only once every chunk
  of the root was put, or with `Cleanup`, which is reported as an error.

`Steward` instantiates it with the identity mapping on `put` and `session`.
The result is mapped to `"none"` for an `IsRetrievable` call. The property
`ReuploadImplementsSession` is `Abs!Spec`.

## The HTTP test helper: `JsonHttpTest.tla`

`jsonhttptest.Request` is the helper the API tests call. The model's steps
follow the code:

1. It applies its options in order. `Apply` dispatches to one operator per
   option function, and `ApplyFails` gives the two options whose `apply`
   returns an error.
2. It sends one request (`Send`). The transport may fail, and always fails
   on a canceled context.
3. It checks the response in the code's order:
   - the status;
   - the non-empty headers;
   - the expected header values, compared in order. The code wraps both
     slices in `sort.StringSlice` but never calls `Sort`, so
     `reflect.DeepEqual` compares them as sent;
   - the body. An expected body, an expected JSON body or an unmarshal target
     each returns early. Otherwise `WithPutResponseBody` reads the body, and
     the `WithNoResponseBody` check comes last.

`tb.Errorf` adds the check to `failed` and the call goes on. `tb.Fatal`
ends the call in `"fatal"`.

How the data is abstracted:

- **Bodies** are a text of `Texts`, with or without surrounding white space
  (`pad`). `bytes.TrimSpace` clears `pad`.
- **The body stream.** `unread` is what is left of `resp.Body`. A read
  consumes it.
- **Multipart boundaries.** A multipart body is known by the boundary of the
  writer that made it, which is the option's position.
- **Left out.** The `Content-Length` comparison (lines 72-79) is not modelled,
  since the model's headers have no `Content-Length`.

## Runs

### Swap

All swap runs use `MC_Swap.tla` with these settings:

- 2 peers, 2 beneficiaries, 2 chequebooks and 2 workers, as model values under symmetry;
- exchange rate 2;
- deductions {0, 1};
- cumulative payouts up to 4;
- 4 calls;
- `HasChequebook = TRUE`.

No run sets `HasChequebook = FALSE`. In `PayBegin`, the `ErrNoChequebook` return and
the `Beneficiary` read-error return leave the same state, so they are one disjunct.
Without a chequebook, that return is the only way Pay can go. The behaviours without a
chequebook are therefore a subset of the behaviours with one.

These bounds allow:

- two concurrent calls on one peer;
- a rejected cheque, and a second cheque on the same chequebook;
- a deduction that changes the credit (a payout of 4 with deduction 1 credits 1 unit, not 2).

| run | cfg | expect | shows |
|---|---|---|---|
| swap | `MC_Swap.cfg` | pass (466,565 states) | `TypeOK`; `NoOverCredit`: credit × rate + deductions ≤ increments accepted, per peer; `CreditCoversCheque`: every credit notice credits ≥ 1 unit; `PayNotifiedOnce`: each returned Pay notified exactly once |
| swap_chequebook_race | `MC_Swap_ChequebookIndexConsistent.cfg` | violation | two concurrent `ReceiveCheque` for a new peer on two chequebooks leave the chequebook index inconsistent |
| swap_beneficiary_race | `MC_Swap_BeneficiaryIndexConsistent.cfg` | violation | two concurrent handshakes announcing one beneficiary leave the beneficiary index inconsistent |
| swap_lost_credit | `MC_Swap_AcceptedChequesCredited.cfg` | violation | a cheque the store accepted is never credited if a later addressbook write fails |

The three violations are listed under `findings` in `PROJECT.json`. Each passing property has a mutant in `Swap.tla`, defined just before the definition it replaces:

- `RCStoreNotIncreasing`;
- `RCStoreValueIgnoresDeduction`;
- `CreditAmountNoDeduction`;
- `PayBeginShadowedErr`.

TLC finds each mutant's property violated.

**Fairness (swap).** None is assumed and no liveness property is checked. The handlers run when the protocol or the accounting calls them, and nothing in the code guarantees that a call is ever made.

### Replicas putter, steward, HTTP test helper

| run | cfg | expect | shows |
|---|---|---|---|
| replicas_putter | `MC_ReplicasPutter.cfg` | pass (2,093 states) | `SendNeverBlocks`: no replica goroutine finds `errc` full; `PutTerminates`: every Put returns; `PutResultFaithful`: Put returns nil exactly when every replica goroutine stored its replica, with one error per goroutine; `DistinctReplicasStored`: a nil result means `GetReplicaCount()` distinct addresses were stored; `PutReturnsLast`: once Put has returned, no replica goroutine takes another step |
| replicas_putter_shared_loopvar | `MC_ReplicasPutter_SharedLoopVar.cfg` | violation | with one `r` shared by all iterations, two goroutines sign one address and Put still returns nil |
| steward | `MC_Steward.cfg` | pass | `ReuploadImplementsSession`: Reupload refines `UploadSession`; `RetrievableFaithful`: retrievable exactly when every chunk was retrieved, and every error other than not-found is returned |
| jsonhttptest | `MC_JsonHttpTest.cfg` | pass (about 1.2M states) | `ValidationSound`: a call that reports no error has checked the status, headers and body; `MultipartHeaderKept`: the first Content-Type of a multipart request has the body's boundary, whatever headers came before or after; `PutBodyDelivered`: `WithPutResponseBody` receives the whole body |
| jsonhttptest_no_body | `MC_JsonHttpTest_NoBody.cfg` | violation | `WithPutResponseBody` consumes the body before the `WithNoResponseBody` check, so a non-empty body passes |

Bounds:

- **Putter:** levels 0, 1 and 2, with 0, 2 and 3 replicas. This covers:
  - the early return;
  - two goroutines racing on `errc`;
  - three goroutines, where one may sign before and one after the next
    receive.
- **Steward:** 10 chunks. The number of chunks changes only how long the
  traversal runs. Each of the three per-chunk failures can happen at any
  chunk, and one chunk would already show every path.
- **HTTP helper:** every list of up to 3 options taken from 15, each option
  kind with the arguments that reach its cases. The server may send any of
  2 statuses, any of up to 2 values per header, and any of 4 bodies. Three
  options are enough for every case these properties distinguish:
  - two multipart options;
  - a header before and after a multipart option;
  - two expected header values;
  - put-body with no-body.

The steward, putter and helper runs have `CHECK_DEADLOCK FALSE`, because one
call returns and the system stops. Each mutant is defined just before the
definition it replaces, and TLC finds its property violated:

- `SendDoneTwice`, `ErrcCapacityOffByOne`, `PutReplicaShadowedErr`, `SignSharedLoopVar`, `WaitNoJoin` (`wg.Wait` without the join, against `PutReturnsLast`);
- `IRVisitPastEnd`, `IREndAllNotFound`, `RUEndAlwaysDone`;
- `SendErrorf`, `CheckExpectedHeadersFirstOnly`, `WithMultipartRequestAdd`, `PutBodyTrimmed`.

## Proofs

Six modules hold proofs. `tlapm` checks every one of them to the last leaf.

### `SwapProofs.tla`

The proofs assume only the module's `ASSUME`s:

- the exchange rate is a positive natural;
- deductions, payouts and amounts are naturals;
- `None` is distinct from every address.

`TypeOK` is not inductive on its own, for two reasons:

- An in-flight call indexes the state with the peer, chequebook or beneficiary held in its locals.
- `RCNotify` credits `(received - ded) \div rate`. That is a natural number only because the store accepted the cheque.

The inductive invariant `IInv` is `TypeOK` plus three more parts:

- `LocalsOK`: the locals of in-flight calls are real addresses.
- `CreditInv`: a `ReceiveCheque` past the store holds `received >= rate + ded`.
- `PayInv`: a Pay that is waiting to emit has made no notification yet, and a worker in another handler is not running Pay.

TLC checked `IInv` on the `swap` instance before the proof was written.

The proof has these parts:

- `InitIInv`.
- One lemma for each action: `RCBeginIInv` … `HSPutIInv`.
- `ReturnIInv`, shared by the actions that return from a call.
- `NextIInv` and `AlwaysIInv`.
- On top of these:
  - `TypeCorrect`: `Spec => []TypeOK`.
  - `PayNotifiedOnceHolds`: `Spec => []PayNotifiedOnce`.
  - `CreditCoversChequeHolds`: `Spec => CreditCoversCheque`. It uses `StepCreditCovers` and the arithmetic lemma `DivAtLeastOne`.

What stays with TLC: **liveness**, which is out of the prover's reach.
`NoOverCredit` is proved in `SwapCreditProofs.tla`.

### `SwapCreditProofs.tla`

`NoOverCreditHolds` proves `Spec => []NoOverCredit` for every value of the
constants. `NoOverCredit` says that for every peer, credited × rate +
deducted ≤ paidIn.

`NoOverCredit` is not inductive. Between `RCStore` and `RCNotify`, a call has
added its increment to `paidIn` but has not yet credited anything. Other calls
for the same peer may be in the same window. The invariant must therefore
count what all of those calls still owe.

The strengthening `CInv` has two parts:

- `ReceivedBound`: a call's `received` never exceeds its cheque value.
- `Covered`: for every peer, credited × rate + deducted + the units still
  owed by in-flight calls ≤ paidIn.

The owed units of a call are `received - ded`. It owes them from its
successful store until its notification or its failure return.

A sum over workers would need a recursive operator or a fold, and the provers
cannot reason about either for every input. So the sum is written as a
cardinality instead: the size of the set of pairs `<<w, k>>` where worker `w`
is crediting the peer and `k` is in `1..received - ded`.

The proof rests on these lemmas:

- `SplitCard`, from `FS_Product`, `FS_Union` and `FS_Interval`: that size is
  one worker's share plus the size of the others' pairs.
- `WorkerStep`: a step of one worker keeps `Covered` when two things hold.
  - The step leaves the others' pairs alone (`OthersKeep`).
  - Its change to credited × rate + deducted + own share is at most its
    change to `paidIn` (`StepPaid`).
- One lemma per kind of step discharges `StepPaid`:
  - Entry, Pay and Handshake steps owe nothing (`LocalQuiet`, `PayHSQuiet`).
  - `RCStore` adds the increment to `paidIn`, the deduction to `deducted`,
    and the difference to the share.
  - `RCDeduct` and `RCPutChequebook` keep the share, or drop it on failure.
  - `RCNotify` replaces the share by `((received - ded) \div rate) × rate`,
    which is no larger (`DivMul`).

It uses `IInv` from `SwapProofs`, and one more assumption,
`WorkersAssumption`: the set of workers is finite. The service runs
finitely many goroutines at once.

TLC checked `IInv /\ CInv` before the proof was written, with no violation:

- on the `swap` instance (466,565 states);
- on a variant with rate 1 and a deduction of 2.

### `StewardProofs.tla`

The proofs hold for every number `N` of chunks. They assume only `ChunksAssumption`, which says that `N` is a positive natural number.

`RetrievableFaithful` talks only about a call that has returned, so on its own it is not inductive. The inductive invariant `IInv` is `TypeOK /\ IRInv /\ RUInv`:

- `IRInv` covers an `IsRetrievable` call and records how far its traversal got:
  - with no traversal error, the call has `next = N + 1` at its end;
  - a traversal error leaves `next <= N`, so some chunk was not visited;
  - once the call returns, `retrievable` equals `travErr = "none"`.
- `RUInv` covers a `Reupload` call:
  - the session is open exactly while the traversal runs;
  - while no error has occurred, `put = 1..(next - 1)`.

  This last equality is what lets `Done` commit with every chunk put.

The proof has these parts:

- `InitIInv`, `NextIInv` (one case per action) and `AlwaysIInv`.
- `TypeCorrect`: `Spec => []TypeOK`, from the same `IInv`.
- `RetrievableFaithfulHolds`: `Spec => []RetrievableFaithful`.
- `ReuploadRefinesSession`: `Spec => ReuploadImplementsSession`, which is `Abs!Spec` under the refinement mapping. It is shown in two steps:
  - the initial state maps to `Abs!Init`;
  - under `IInv`, every step is an `Open`, `Upload`, `Commit` or `Abort` of `UploadSession`, or a stutter of its variables.

### `ReplicasPutterProofs.tla`

The proofs hold for every set of levels, every `ReplicaCount` bounded by `MaxReplicas`, and both semantics of the loop variable.

`SendNeverBlocks` is not inductive: it needs a count of what is in the channel. The inductive invariant `IInv` is `TypeOK /\ Started /\ Count`:

- `Started`:
  - the goroutines started are exactly `1..spawned`;
  - `spawned` is at most the replica count;
  - a goroutine past signing holds a real replica address.
- `Count`: with `DoneOf(gpc)` the goroutines that have sent,
  - `Len(errc) + Len(errs) = Cardinality(DoneOf(gpc))`;
  - `wg + Cardinality(DoneOf(gpc)) = spawned`.

A goroutine about to send is started and not done. So fewer than `spawned <= ReplicaCount[level]` goroutines are done, and errc has a free slot. The same count keeps `wg` a natural number, which `TypeCorrect` needs.

The proof rests on these lemmas:

- `IntervalSubset` and `DoneCount`, about cardinalities, built on `FiniteSetTheorems`;
- `WgStep`, `CountStep`, `SameDone` and `DoneUnchanged`, the arithmetic of one step;
- `CallerStep`, for the steps of the calling goroutine;
- `NextIInv`, one step per action.

TLC checked both invariants named `IInv` before the proofs were written:

- the steward one on `N = 6`;
- the putter one on the `replicas_putter` instance, with both loop-variable semantics.

### `ReplicasPutterResultProofs.tla`

This module extends `ReplicasPutterProofs` and reuses its `IInv`. It proves
what `Put` returns. `PutResultFaithful` talks only about a returned call, so
the proof adds `RInv == Phases /\ Errs /\ OwnAddress`:

- `Phases`, the caller's phases:
  - nothing has started before the loop;
  - the loop ends with `ReplicaCount[level]` goroutines started;
  - `wg = 0` from `Wait` on;
  - a returned call has an empty `errc` and returns nil exactly when every
    drained error is nil.
- `Errs`: errors move from goroutines through `errc` into `errs` in an order
  nobody controls, so the link is kept as sets of values.
  - The errors in `errs` and `errc` are exactly the errors of the goroutines
    that are done.
  - A goroutine that sent nil has stored its replica.
- `OwnAddress`: with a per-iteration loop variable, goroutine `g` works on
  address `g`, and only addresses `1..spawned` are stored.

The argument goes through two lemmas:

- `AllJoined`: at `wg = 0` every started goroutine is done. This is where
  `IInv`'s count `wg + |DoneOf(gpc)| = spawned` is needed.
- `SeqValsShift`: moving an error from `errc` to `errs` keeps their values.

It proves these theorems:

- `PutResultFaithfulHolds`: `Spec => []PutResultFaithful`.
- `DistinctReplicasStoredHolds`: under `LoopVarPerIteration`,
  `Spec => []DistinctReplicasStored`. With a shared loop variable the
  property is false, as the `replicas_putter_shared_loopvar` run shows.
- `PutReturnsLastHolds`: `Spec => PutReturnsLast`. After `Drain` returns,
  `AllJoined` leaves no goroutine that can step.

TLC checked `IInv /\ RInv` with both loop-variable semantics before the
proof was written.

### `JsonHttpTestProofs.tla`

The proofs hold for every set of statuses, header keys and values, bodies
and options. They use two assumptions of `JsonHttpTest`:

- `ConstantsAssumption`;
- `OptionsAssumption`: every option is one of the twelve constructors, and a
  header option carries a key of `HKeys` and a value of `HVals`.

There are three inductive invariants, one per question. TLC checked each on
the `jsonhttptest` instance before its proof was written.

- **`VInv == Checked /\ BodyChecked`**, for `ValidationSoundHolds` and
  `PutBodyDeliveredHolds`. A check that is not in `failed` has passed on the
  response, which no later step changes. Up to the body checks, `unread` is
  the whole `resp.Body`. The call reaches `noBody` only through the plain
  body path. That last conjunct is what makes `VInv` inductive: without it a
  state at `noBody` with an expected body would break it.
- **`MInv`**, for `MultipartHeaderKeptHolds`. It holds from option to option:
  - the options value stays a record whose request headers are sequences;
  - a multipart body comes with a Content-Type whose first value is that
    writer's type (`MultipartFirst`);
  - after `Send` the request is the options' body and headers.

  `ApplyMInv` takes one option at a time. A later `WithRequestHeader` only
  appends, and a later `WithMultipartRequest` replaces body and header
  together.
- **`TInv`**, for `TypeCorrect`. It adds that the options form a sequence of
  at most `MaxOpts` choices, which bounds the option index.

The empty string `""` cannot be encoded by tlapm 1.4.5's SMT backend. For
this reason `"" \in Texts` is an assumption of its own
(`EmptyTextAssumption`), and the facts that mention it are proved with Zenon.

## What stays with TLC

- **Liveness.** `PutTerminates` needs fairness and `ENABLED`, which are out
  of the prover's reach.
- **`NoResponseBodyEnforced`**. It is false, and its run is a violation run.

## Not modelled, and why

- **Getters.** `TotalSent`, `TotalReceived`, `Settlements*`, `LastSentCheque(s)`, `LastReceivedCheque(s)`, `CashoutStatus` and the deduction getters only read state. They would add no behaviour.
- **`CashCheque`** hands the cheque to the cashout service, whose code is not under `src/`.
- **Other components.** The components marked planned above are the next modules:
  - **topology mock:**
    - the callback runs under the lock;
    - the `stop` result is ignored;
    - `ClosestPeer` is checked against a reference XOR-distance definition;
  - **`step_02`:** a spec-modelled transaction with commit and rollback;
  - **header exchange.**
- **Storage core.** The storage core described in `spec.md` has no code under `src/`. It can only be modelled from the spec.
