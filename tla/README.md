# A TLA+ model of pqctoday-tpm

pqctoday-tpm is a software TPM 2.0: a fork of libtpms (the TPM itself,
`src/libtpms`) and swtpm (the process around it, `src/swtpm`) with the
post-quantum commands of version 1.85 of the TPM library specification, and a
WebAssembly build (`src/wasm`). This directory holds TLA+ models of its stateful
parts, configurations for TLC, and proofs for TLAPS. `PROJECT.json` maps every
definition to the lines it models and lists runs, mutants, hazards and theorems.

    tlc -workers 2 -config SessionCycles.cfg MCSession     # one of the runs
    tlapm NVStoreProofs.tla                                # the proofs of one module

## Inventory

The TPM core executes one command at a time, so what is hard about it is not
parallelism inside a command. It is the sequences of legal commands that
nobody tests, power loss between them, counters and tables at their limits, and
state that outlives what it refers to. swtpm adds real concurrency: a control
channel beside the data channel, a worker thread (CUSE), and two processes that
share one state directory during a migration.

| Part | State | Operations | What makes it correct |
|---|---|---|---|
| Session contexts (`Session.c`, sessions in `ContextCommands.c`) | `gr.contextArray`, `gr.contextCounter`, `s_sessions`, `s_freeSessionSlots`, `s_oldestSavedSession`, slot mask | create, save, load, flush, end, startup | truncated contextIDs never confuse two contexts; the resource manager is never stuck; no contextID is reused |
| Object slots (`Object.c`, `Entity.c`, `ObjectCommands.c`) | `s_objects` | load, create primary, load external, context save/load, flush | working copies never outlive a command; no object of a disabled or cleared hierarchy stays |
| Command path (`ExecCommand.c`, `RunCommand.c`, `TpmFail.c`) | `COMMAND`, failure mode | resolve handles, authorize, dispatch, respond, clean up, commit NV | all or nothing for the slots; a successful command never ends in failure mode |
| Sequences (`HashCommands.c`, `PqcSequence*.c`, `IntegrityCommands.c`) | sequence objects, `g_DRTMHandle` | start, update, complete; `_TPM_Hash_*` | completed with the key it was started with; flushed exactly once, after its last use |
| Hierarchies (`Hierarchy*.c`) | enables, seeds, proofs | HierarchyControl, Clear, ChangePPS, ChangeEPS | nothing survives its proof |
| Persistent objects (`NVDynamic.c`) | evict objects in NV | EvictControl | only keys; the range of a handle tells the hierarchy; deletable again |
| Startup and shutdown (`StartupCommands.c`) | `gp.orderlyState`, reset, restart and clear counts | `_TPM_Init`, Startup, Shutdown | Resume restores exactly what is still valid |
| NV storage, NV indices (`NVReserved.c`, `NVDynamic.c`, `NVCommands.c`) | NV image, RAM image, `g_updateNV`, orderly RAM | define, write, increment, lock, commit | a counter never goes back, whatever crash; commit is atomic |
| Dictionary attack protection, time (`DA.c`, `Time.c`) | `failedTries`, `lockOutAuthEnabled`, timers, `g_daUsed` | failure, lockout check, self-heal, reset | no failure is forgotten by a power cycle; lockout ends |
| PCR and policy (`PCR.c`, `EACommands.c`) | banks, `gr.pcrCounter`, policy sessions | extend, reset, PolicyPCR and the others | a policy that succeeded is refused when what it proved has changed |
| Authorization sessions, audit (`SessionProcess.c`, `CommandAudit.c`) | nonces, binding, audit digests | check, response, audit | nonces roll in step with the caller; exclusive audit ends when it should |
| Library state (`tpm_library.c`, `tpm_tpm2_interface.c`) | cached blobs, power state | MainInit, Process, GetState, SetState, Terminate | a refused blob is never used; a blob is used once |
| swtpm main loop, control channel (`mainloop.c`, `ctrlchannel.c`, `tpmlib.c`) | running, locality, last command, storage lock | INIT, STOP, SHUTDOWN, GET/SET_STATEBLOB, LOCK_STORAGE | at most one writer of the state; nobody waits for ever for the lock |
| swtpm storage (`swtpm_nvstore*.c`) | state file, lock file | load, store, delete, lock | old or new state after a crash, never a mix |
| CUSE worker (`cuse_tpm.c`, `threadpool.c`) | `thread_busy`, request and response | write, read, ioctl, worker | no state change under a running command; every waiter goes on |
| WebAssembly platform (`wasm_platform.c`) | `s_NV`, `s_NeedsManufacture` | startup, process, get/set NV | an NV image set before startup is the one used |
| Self-test (`CryptSelfTest.c`) | vector of algorithms to test | self-test, incremental | no algorithm is used untested |

Interactions. A command names objects and sessions by handle; `EntityGetLoadStatus`
brings persistent objects into slots, the session code authorizes and later
computes the response from the same objects, and everything a command wrote to
NV is committed at its end. Startup decides from the last Shutdown what each
component restores. Hash indications arrive between commands. swtpm feeds
commands to `TPMLIB_Process`, and loads and stores the NV image by callback.

## Modules

| Part | Specification | TLC instance | Proofs |
|---|---|---|---|
| Session contexts | `Session`; `SavedContexts` is what it promises | `MCSession`, `SessionCycles.cfg` | `SessionProofs` |
| Objects, sequences, hierarchies, command path | `ObjectStore` | `MCObjectStore`, `Object*.cfg` | `ObjectProofs` |
| NV indices, commit, power loss | `NVStore`; `NVCounters` is what it promises | `MCNVStore`, `NV*.cfg` | `NVStoreProofs`, `NVCounterProofs` |
| Dictionary attack protection, time | `Lockout` | `MCLockout`, `Lockout*.cfg` | `LockoutProofs` |
| swtpm process, libtpms state blobs, storage lock | `Swtpm` | with `Migration` | with `Migration` |
| Migration between two hosts | `Migration`, which composes processes of `Swtpm` and their clients | `MCMigration`, `MigrationHandover.cfg` | `MigrationProofs`, `HandoverProofs` |
| CUSE interface and worker thread | `Cuse` | `MCCuse`, `CuseRequests.cfg` | `CuseProofs` |

The runs:

| Run | Distinct states | Expected | Kind of question |
|---|---|---|---|
| session_cycles | 520,599 | pass | wraps of truncated numbers, power cycles; refinement of `SavedContexts` |
| object_hosts | 1,319,645 | pass | sequences of legal commands |
| nv_power_loss | 1,696,100 | pass | crash at any step; refinement of `NVCounters` |
| lockout_healing | 152,891 | pass | crash at any step; liveness |
| migration_handover | 453,812 | pass | two processes; kills; liveness |
| cuse_requests | 380,651 | pass | threads; liveness |
| object_key_continuity, object_pqc_response, object_pqc_evict, object_stclear, nv_cleared_counter, lockout_after_shutdown | | violation | disagreements of code and comments |

## Session

### Correspondence

`contextArray`, `contextCounter`, `oldestSavedSession`, `occupied`,
`freeSessionSlots` are the variables of the code; `slotMod` is `s_ContextSlotMask`
plus one. A session is its index in the array. `orderlyState` and `nvStateReset`
are what NV holds of the last Shutdown. `contextID` (full number of each saved
session) and `kept` (one arbitrary context the caller has kept, possibly long
outdated) are history: they decide which contexts a caller can present and
nothing else.

| Action | Code |
|---|---|
| `SessionCreate` | `TPM2_StartAuthSession`: `SessionCreate`, `ContextIdSessionCreate` |
| `ContextSave`, `ContextSaveGap`, `ContextSaveTooMany` | `TPM2_ContextSave`, sessions: `SessionContextSave` and its two error returns |
| `ContextLoad`, `ContextLoadRefused` | `TPM2_ContextLoad`, sessions: integrity, `SequenceNumberForSavedContextIsValid`, `SessionContextLoad` |
| `FlushContext`, `EndOfSession` | `SessionFlush` from `TPM2_FlushContext` and from `BuildResponseSession` |
| `Shutdown`, `TPMInit`, `StartupKeep`, `StartupReset` | `TPM2_Shutdown`, `_TPM_Init`, `TPM2_Startup` with `SessionStartup` |

Errors without an effect are stuttering. Two things the code does on error are
kept: a refused save or load still ends the validity of the image that
Shutdown(STATE) wrote, and at `TPM_RC_TOO_MANY_CONTEXTS` the array entry has been
overwritten although the save fails. In the second case the session is lost and
its slot stays taken until the next startup; properties that this breaks are
conditioned on `CounterHasRoom`. It takes 2^64 saves.

TPM2_FlushContext does not invalidate the saved image: a session flushed
after Shutdown(STATE) is back, as a saved session, after a Resume. The model
has this behaviour; none of the properties excludes it.

`SavedContexts` is the manager as a resource manager sees it, without truncated
numbers, slots or gap: a session is loaded, or saved under one full contextID, or
not there; contextIDs only grow in a reset cycle; and a loss of power brings back
either all sessions as Shutdown(STATE) recorded them, if none was saved or loaded
since, or none. `KeepsSavedContexts` says that `Session` implements it. The
mapping is at the end of `Session`: loaded sessions are those with a slot number in the
array, the record is the image in NV while a Startup would take it, and losing power
is where the abstract Resume or Reset happens: from then on until Startup the
mapping shows what Startup is going to find. Once the counter has reached its end
(`UsedUp`) nothing is promised but that numbers are not given out. That a context
which was kept while its session was saved again is refused is below the level of
this specification, where a session has one context; it is `ContextLoadableIffLive`.

### Run

**session_cycles** (2 slots, 3 sessions, old window 6, new window 4, counter up
to 24, one Reset). All eight properties: `TypeOK`, `SlotAccounting`,
`OldestIsOldest`, `CollisionIsOldest`, `RecycleAlwaysPossible`,
`ContextLoadableIffLive`, `RecycleUnblocks`, `KeepsSavedContexts`. The counter
passes several windows of either size, so the low bits wrap; the gap both
is and is not reached, and long-lived sessions stay behind across a wrap. A Reset
changes from the old to the new window, and Resumes are not bounded. In the code the
new window is the larger one; here it is the old one, in which all three sessions
can be saved at once, because a run without a Reset behind it has fewer outdated
contexts to distinguish. Nothing in the module compares the two sizes, and a Reset
empties the table.

The windows are not powers of two: the code's truncation is a remainder, and
all that is used is that the window divides the range of the counter
(`RangeAssumption`). The proofs need no more, so nothing hangs on these sizes.
There is no fairness: no property of the module is a liveness property.

### Proofs

`SessionProofs` proves every property of the run for all values of the
constants allowed by `SizeAssumption` and `RangeAssumption` (positive sizes;
windows larger than the slot numbers plus one; windows divide the range of the
counter).

None of the properties is inductive. `OldestIsOldest` depends on an order of
residues agreeing with the order of numbers, which it does only inside a window.
The inductive invariant `IInv` therefore says:

* `WindowInv`: every entry of a saved session is the residue of its full
  contextID, all contextIDs are distinct and in the window of `slotMod` numbers
  below the counter, and the counter's own residue is never a slot number;
* `ImageInv`: the same of the image in NV while it can be resumed, and the
  kept context is older than the counter in it (otherwise a Resume could issue a
  number twice);
* `KeptInv`: the kept context is older than the counter;
* `RoomInv`: when the gap is at its maximum a slot is free. It is preserved
  because the gap is reached by a save, which frees a slot, and creation and
  loading leave the last slot alone;
* `SlotAccounting`, `OldestIsOldest`, `TypeOK`, and `PowerInv` for the time
  between power-up and Startup.

A few lemmas on residues (`SameResidue`, `AgeIsDistance`, `WrapJump`...) carry
the arithmetic: two numbers of one window with equal residue are equal, the
masked difference of `ContextIdSetOldest` is the distance from the end of the
window, and skipping the slot numbers at a wrap stays inside it. Then there is
one lemma per operation (`SaveKeeps`, `LoadKeeps`, `FlushKeeps`, ...), combined
in `NextKeeps`.

`PromiseKept`, the refinement, has one lemma per kind of step (`CreatePromised`,
`SavePromised`, ..., `StartupPromised`) that shows which step of `SavedContexts`, or
none, it is. Two facts beside `IInv` carry it. A session that is accepted for
loading is saved and has a contextID (`SavedHasID`), for the array and the history
agree in `WindowInv`. And the image in NV has the counter of now as long as it can
be resumed (`RecordInv`), so that numbering goes on after a Resume where it was: it
holds because every save clears `orderlyState` with `g_clearOrderly`. `NeverReissued`, that no
context of the cycle has a number the counter has still to reach, follows from
`KeptInv`.

## ObjectStore

### Correspondence

`s_objects` are the slots, `nv` the persistent objects, `contexts` the saved
object contexts that the host has, `enabled` and `proof` the hierarchies, `cmd`
and `phase` the command in progress. The fields `born` and `keyName` of an object
and the variable `boot` are history.

A command runs in steps: `IssueCommand`, one `EntityGetLoadStatus` per handle,
`CheckAuthSession`, the handler, `BuildResponseSession`, `Cleanup`. The handlers
are the actions named after the commands (`TPM2_Load`, ..., `TPM2_ChangePPS`).
Refusals without an effect, of a handler or of an authorization, are one
action, `CommandRefused`. A failed assertion in `HandleToObject` leads to phase
`"failed"`, which only a power cycle leaves. `TPM_Hash_Start` and `TPM_Hash_End`
happen between commands, also before Startup. An orderly Shutdown(STATE) right
before a power cycle is the choice of `resumable` in `TPM_Init`.

A key is a name of one of three types (storage parent, ML-DSA, HMAC). Its
authorization is by password or by an HMAC session that is not bound to it; the
second reads the authValue again for the response. The ML-DSA sequences live in
ordinary slots (`HASH_OBJECT.state.pqcState`). Their hierarchy is `TPM_RH_NULL`,
as `FindEmptyObjectSlot` leaves it, since a `HASH_OBJECT` is smaller than an
`OBJECT` and the zeroing of it does not reach the field.

### Run

**object_hosts** (2 slots, one persistent handle in each range, one kept
context, one change of each proof, a buffer of one block). A host is the set of
commands it issues, the keys it has, the hierarchies it uses and the power cycles
it makes; `Init` chooses one, and it stays. `KeyHost` loads, saves and persists
keys of the endorsement and platform hierarchies while hierarchies are disabled,
cleared and reseeded. `SequenceHost` runs every kind of sequence with an ML-DSA
and an HMAC key, across one power cycle that is not a Resume.

`TypeOK`, `NoEvictBetweenCommands`, `DRTMSequenceIntact`,
`OtherResponsesFindObjects`, `DisabledHierarchyUnloaded`,
`NoObjectOutlivesItsProof`, `PersistentRange`, `CommandFrame`. The endorsement
hierarchy is the interesting one for the first host, as its persistent objects are
in the owner's range; the owner hierarchy is enabled, disabled and cleared all the
same. Two slots are enough for a completion (sequence and key) and few enough
that running out of them, also in the middle of a command, is common.

The code has 3 slots (`MAX_LOADED_OBJECTS`). Slots are only distinguished by
first fit, and no command uses more than two and creates in a third; with two
slots the third is the case of none left.

One host that issues all commands is beyond TLC. Other than through the slots,
which both hosts use, keys under changing hierarchies and sequences do not
interact; TPM2_EvictControl of an ML-DSA sequence is the one exception and has a
run of its own.

### What the model and the repository's own words disagree on

Each of these is a run that expects a violation.

* **object_key_continuity** (`SameKeyCompletes`). `TPM2_SignSequenceComplete`
  compares key handles (`PqcSequenceCommands.c:162`). Start a sequence with a key,
  flush the key, load another one into the same slot, complete: the handle
  agrees and the key does not. The comment at line 158 asks for the same key. The
  verification sequence has the same test.
* **object_pqc_response** (`ResponseFindsObjects`). The ML-DSA completions flush
  the sequence themselves (`:191`, `:266`); the response HMAC of an unbound session
  then looks for its authValue and `HandleToObject` fails its assertion. The
  classic sequences are only marked, to be "flushed on the way out"
  (`HashCommands.c:339`), and for these the property holds
  (`OtherResponsesFindObjects` in object_hosts).
* **object_pqc_evict** (`EvictControlNeverFails`). `PqcSequenceAllocate` does not
  set `temporary`, which `Object.c:503` gives as the means to keep sequences from
  being made persistent, and TPM2_EvictControl lets the sequence pass.
  `NvObjectToBuffer` then finds a type that is none of an NV object's
  (`NVDynamic.c:623`: "must never happen") and puts the TPM into failure mode. Nothing
  is persisted: `PersistentRange` holds.
* **object_stclear** (`StClearContextEndsAtRestart`). `clearCount` ties the
  context of an stClear object to its boot cycle (`Context_spt.c:213`), and
  `TPM2_Clear` sets it back to 0 (`HierarchyCommands.c:454`).

### Proofs

`ObjectProofs` proves the seven invariants and `CommandFrame` for any number of
slots, persistent handles, keys, contexts and proof values, and for any host
(`ObjectAssumption`, `HostAssumption`); so nothing hangs on two slots, or on the
division of the commands among two hosts.

Most of the invariants speak of the time between commands, and a command takes many
steps to break one. The inductive invariant `Inv` speaks of every step:

* `SlotsSound`: an empty slot is zeroed; a slot taken for a persistent object that
  was not found is marked for the clean-up; an object was made under the current
  proof of its hierarchy; and one that the clean-up will leave alone belongs to an
  enabled hierarchy. The last is `DisabledHierarchyUnloaded` without "between
  commands": TPM2_EvictControl may bring an endorsement key into a slot while
  ehEnable is clear, but only as a working copy;
* `StoreSound`: a persistent object is a key, is marked evict, has its own handle, is
  in the range of its hierarchy, and is of the current proof;
* `ContextsSound`: a saved context carries the proof that its object was made
  under. The object may be outdated; the integrity check of TPM2_ContextLoad then
  refuses it, which is why loading keeps `SlotsSound`;
* `CommandTypes`, `ResolvedHandles`, `AuthorizedHandles`: the handles resolved so
  far refer to occupied slots, and, until the handler runs, to objects of enabled
  hierarchies; after it, the authorized ones are still there, except for the ML-DSA
  completions (object_pqc_response);
* `Frame`: the slots, as the clean-up would leave them now, are those that the
  command found, except one slot of a handler that has run. It turns `CommandFrame`,
  a property of the clean-up step alone, into something every step keeps;
* `DrtmSound`, `NoEvictBetweenCommands` and `PowerTypes`.

There is a lemma for each way a handler changes the slots (creates an object,
changes one, empties one, flushes a hierarchy), and each handler is an instance of
one of them.

## NVStore and NVCounters

### Correspondence

There are four copies of what an NV index holds: `s_indexOrderlyRam` (the
orderly indices), `gp` (of which `orderlyState` is kept), the image `s_NV` of the
NV memory, and `disk`, what permanent storage has. A command changes the first
three. `Cleanup` is the end of `ExecuteCommand`: it makes the state non-orderly
if `g_clearOrderly` is set, copies orderly RAM into the image if `g_updateNV` asks
for it, and commits the whole image if `g_updateNV` asks for anything or the
orderly state changed (`MustCommit`).
`PowerCycle` can come between any two steps and leaves `disk`. `CommitFails` is
the failure mode after a commit that the storage refused.

| Action | Code |
|---|---|
| `NV_DefineSpace`, `NV_UndefineSpace`, `TPM2_Clear` | `NvDefineIndex` with `NvAdd`, `NvAddRAM`; `NvDeleteIndex`; `NvFlushHierarchy` |
| `NV_Write`, `NV_Increment` | `NvWriteIndexData`, `NvWriteUINT64Data`; Write stands for SetBits and Extend, which differ in how they compute the data |
| `NV_WriteLock`, `NV_ReadLock`, `NV_GlobalWriteLock` | `NvWriteIndexAttributes`, `NvSetGlobalLock` |
| `CheckLockedOut`, `NvClearOrderly` | the two other ways a command changes the orderly state |
| `TPM2_Shutdown`, `PowerCycle`, `StartupRefused`, `TPM2_Startup` | `NvUpdateIndexOrderlyData`; `NvPowerOn`; `NvEntityStartup` with `NvSetStartupAttributes` and `NvGetMaxCount` |

An image is a record of the list of indices, the maximal count at its end marker,
the stored RAM area and the stored orderly state. An index is its public area (the
seven attributes of `TPMA_NV` that decide anything here), its flags and its data.
`shown` (the counters as the last response left them) and `deletedMax` are
history: they are set by `Cleanup` and read by nothing.

`NVCounters` is the promise to users of counters: a counter that has been shown
never goes back, and a new one starts above every deleted one. It has three
actions: `Create`, `Raise`, `Delete`. The refinement mapping is `count <- shown`,
`floor <- deletedMax`: what a user can know is what responses have shown.

### Runs

* **nv_power_loss** (2 indices; templates: an orderly counter of the platform, a
  counter of the owner that can be locked for good, orderly data and data cleared
  at startup; counts up to 3, low-order part of one bit). `TypeOK`,
  `CommittedAfterCommand`, `OrderlyLayoutMatches`, `OrderlyImageIsCurrent`,
  `MaxCountCoversDeleted`, `DefinedLockIsPermanent` and the refinement
  `CountersNeverGoBack` (`NVCounters!Spec` under the mapping). With `RollOver` 2 a
  counter of 3 has rolled over, has been ahead of its stored value, and has been
  moved up at a startup; two indices are enough to delete one and define another.
* **nv_cleared_counter** (violation of `MaxCountCoversDeleted`; templates: the
  owner's counters, orderly or not). `NvFlushHierarchy`
  describes an index by its attributes in the NV list (`NVDynamic.c:1413`).
  WRITTEN of an orderly index is only set in RAM, so that TPM2_Clear takes a
  written orderly counter for one that was never written and does not record its
  value. The comment at line 1354 says that the maximal count is updated
  "Whenever a counter is deleted".

No property is a liveness property, and no fairness is assumed.

### Proofs

`NVStoreProofs` proves `CommittedAfterCommand`, `OrderlyLayoutMatches` and
`OrderlyImageIsCurrent` for every set of indices, templates and values allowed by
`NVAssumption`. The invariants are not inductive, as they say nothing of the
middle of a command or of the time before a startup. `Storage` does:

* `Types`, the types of all variables that are not history;
* `Copies`: list and RAM have the same orderly indices, in the image, in storage,
  and in the image as it *will be* when the command in progress ends (`FinalRam`
  is the RAM area after the copying that `g_updateNV` asks for, `StaysOrderly`
  whether the state will still be orderly). If the state stays orderly, that RAM
  area has the data of RAM. If nothing asks for a commit, the image is what
  storage holds.

`NVCounterProofs` adds `Numbers`, for the counters:

* `Recoverable`: every value that was shown can be recovered from storage. An
  ordinary counter is stored as it is; an orderly one is at or above the stored
  value, and within its low-order bits (equal to it after an orderly shutdown).
  So setting the low-order bits at a startup never shows a smaller value;
* while a command is in progress, the counters in memory are those shown, some
  raised, or with one created above `deletedMax`, or with some deleted that are
  covered by the new maximal count; and the image as it will be is `Recoverable`
  again;
* `deletedMax` is at most the maximal count, in memory and in storage.

It proves `MaxCountCoversDeleted` and that `NVStore` implements `NVCounters`
(`CountersForAnyIndices`): `Cleanup` is `Raise`, `Create` or `Delete`, and
everything else a stuttering step. Both need the hypothesis `OwnerCountersInNV`:
an orderly counter is the platform's. It cannot be dropped: nv_cleared_counter is
the counterexample. The templates of nv_power_loss satisfy it. `RollOver` is one
of the powers of two up to 256 in the proofs (`MAX_ORDERLY_COUNT` is 255). `TypeOK`
(`TypesForAnyIndices`) needs `Storage` but not the hypothesis.

`NVStoreProofs` also proves `DefinedLockIsPermanent`, with one more invariant on top
of `Storage`: `Permanent`, that while a command runs every index locked for good in
storage is still so, with the same data, in the image that the command will commit.
A startup keeps such a lock because CLEAR_STCLEAR and WRITEDEFINE exclude each other
(TPM2_NV_DefineSpace refuses both together; `NVAssumption`).

## Lockout

### Correspondence

`gp` has the fields of `PERSISTENT_DATA` that the dictionary-attack logic uses,
`go` the times of `ORDERLY_DATA`, as ages: the code only uses differences of
times. `s_NV` and `disk` are image and storage as in `NVStore`. `Tick` is a unit
of powered time (`elapsed`, until the next command takes notice of it).

| Action | Code |
|---|---|
| `TimeUpdate` | `TimeUpdate` at the start of `ExecuteCommand`, with `DASelfHeal` |
| `SessionCheck` | `CheckAuthSession`, `CheckLockedOut`, `IncrementLockout`: one session, of any kind, for any entity |
| `Handler` | TPM2_DictionaryAttackLockReset, TPM2_DictionaryAttackParameters, TPM2_Clear, TPM2_Shutdown, or any other command |
| `Cleanup` | the commit at the end of `ExecuteCommand` |
| `PowerCycle`, `StartupRefused`, `TPM2_Startup` | `_TPM_Init`; the early returns of TPM2_Startup; `TimeStartup`, `DAStartup` |

History: `owed` counts failures that must still show; `earned` and
`lockEarned` are an account of powered ticks, from which healing is paid. `late`
is set by a command after TPM2_Shutdown.

Three details matter. `CheckLockedOut` (`SessionProcess.c:1370`) lets an
authorization go on before the DA mark is in storage; a failure counts as owed
only once it was answered, or the mark was stored. A refused
TPM2_Startup consumes the mark (`StartupCommands.c:161`). The mark is not written
again in a power cycle that starts locked out.

### Runs

* **lockout_healing** (2 tries; either recovery after 2 ticks and lockoutAuth after
  1, or recovery time 0, which disables the protection, with a lockoutAuth that comes
  back at the next startup; at most one tick between commands). `TypeOK`,
  `LockoutAssertionHolds` (the `pAssert` of `IncrementLockout`),
  `FailuresAreCounted`, `HealingIsEarned`, and the liveness property
  `LockoutEnds`. `Cap` and `LockCap` bound the ages that are told apart;
  `LockoutAssumption` says that they exceed every recovery time by `MaxIdle`. Two
  tries are the least for which there is a state between none and locked.
* **lockout_after_shutdown** (violation of `HealingIsAlwaysEarned`). `DAStartup`
  subtracts `go.time`, of the moment of TPM2_Shutdown, from timers that a
  command after it may have written to NV. The difference counts time twice, or
  underflows and heals everything. In lockout_healing `HealingIsEarned` excludes
  just this (`late`).

Fairness (`FairSpec`): strong for `Tick`, since time goes on whatever commands do,
and weak for `TimeUpdate` (commands keep arriving), for the refusal that any
command can end with, and for `Cleanup` (a command that was started ends). There is
none for power cycles or successful commands; `LockoutEnds` speaks of behaviours in
which power stays on in the end, as powered time is all that heals and power could
be lost before every tick.

### Proofs

`LockoutProofs` proves `TypeOK`, `FailuresAreCounted`, `LockoutAssertionHolds` and
`HealingIsEarned` for all parameters and bounds of `LockoutAssumption`. For the
failures, `Inv` has the types, `Copies` (image
follows `gp`, storage the image, and no command in progress has fewer failures in
storage than in memory before it commits), and `Covered`: what is owed is at most
`failedTries` in memory, and at most what `disk` and the correction that
`DAStartup` makes for the mark would give after a power loss at this moment. The
last conjunct is what makes it inductive.

For the healing, `Account` adds `Bounds` (ages within their caps), `Synced` (when the
marks in memory, image and storage agree) and, until a command comes after
TPM2_Shutdown (`late`), `Funded`: a timer that counts claims no more than the ticks
of power that the account has (`Paid`). `HealingIsEarned` only compares the account
with 0 and says nothing of timers; the invariant needs them in two places, in memory
as the next command or startup will take them (`Base`: after an unorderly power loss
that is zero, not what storage holds) and in storage as a power loss would bring them
back, against the account as it was before the command in progress (`before`). While
the command that does TPM2_Shutdown is ending, the image about to be committed is
`Paid` as well. `LockoutEnds` is model-checked only.

## Swtpm and Migration

### Correspondence

`Swtpm` is any number of swtpm processes around one state directory. `mlp[p]` is
`struct mainLoopParams`, `lib[p]` what libtpms and the NVRAM store of the process
hold (NV, volatile state, cached blobs), `dir` the directory (permanent state,
volatile state, the lock), `pc[p]` where the process is. A handler is one step
except where another process can come in between: each attempt to lock
(`mainloop_ensure_locked_storage`, a retry every 10 ms), the time between reading
the state files and locking in `tpmlib_start`, and the time between writing and
removing the volatile state file.

The actions are the commands of the control channel, the data channel, and the two
ways a process ends:

| Action | Code |
|---|---|
| `CMD_INIT`, `InitLocked`, `InitRefused` | CMD_INIT: `tpmlib_start`, before and after it has the lock |
| `CMD_STOP`, `StoreVolatile` | CMD_STOP; CMD_STORE_VOLATILE |
| `ReturnPermanent`, `ReturnVolatile`, `ReturnSavestate` | CMD_GET_STATEBLOB, one for each blob |
| `CMD_SET_STATEBLOB`, `SetState` | CMD_SET_STATEBLOB; `TPMLIB_SetState` |
| `CMD_LOCK_STORAGE` | CMD_LOCK_STORAGE, with its retries |
| `DataCommand`, `Process` | a command on the data channel; `TPMLIB_Process` |
| `Exit`, `Kill` | CMD_SHUTDOWN or the end of the main loop, with the automatic TPM2_Shutdown; a process that is killed |

A TPM command is a number: the permanent state has in it
the number of the last command that changed it, and likewise the volatile state.

`Migration` adds the clients: the virtual machine monitor and the tool that manages
it. They are not in the repository; they follow the protocol of `swtpm.pod`,
`swtpm_ioctls.pod` and the locking test. Its header lists what they are trusted
with. These assumptions are needed: the code has no defence of its own, for
example, against a client that ends the destination while the source still holds
the state it gave away. Nor may that client move the machine on to a third host
before the source has gone (`Alone` in `MigrateOut`): the first source could fall
back while the lock is free between the second and the third, and go on from the
state it gave away. With two processes there is no third host, and the case cannot
arise; the proof for any number brought it up, and TLC shows it with three
processes if the guard is dropped.

### Run

**migration_handover** (two processes, one retry in place of 300, two commands that
change the TPM, one process started again): migrations in both directions,
fall-backs, orderly ends, resets, kills, restarts. `TypeOK`,
`CommandsUnderLock`, `LinearHistory`, `StorageIsCurrent`, `HandoverIsComplete`,
`OrderlyStop`, `HandoverEnds`. A blob may be refused, before or after libtpms has
tried to load it, and the answer that would release the lock may get lost. Two commands tell a lost or repeated one from the
last; the number of retries only matters in being 0 or not. `CHECK_DEADLOCK
FALSE`: a machine that was ended may stay so.

Fairness: weak for the attempts to lock, which the process itself makes, and for the
client of a source that has given its state away, which decides whether to fall
back or end. Nothing else need happen.

`LinearHistory` and `StorageIsCurrent` hold with `--flags disable-auto-shutdown`.
Without the flag the automatic shutdown of a source writes its image although it
no longer has the lock; `OrderlyStop` is what the flag's absence is good for. It
makes an exception for a TPM2_Shutdown that the TPM refused, after which swtpm sends
none of its own (`tpmlib.c:695`).

`HandoverEnds` is about the source; that the destination gets the lock is not
claimed, for the source may fall back and keep it. What a blob that is refused in
the middle of its loading leaves in the globals of libtpms is not modelled
(`tpm_tpm2_interface.c:823`): TPM2_MainInit loads or manufactures a state before they
are used, and the client of a destination that refused a blob can only end it.

### Proofs

`MigrationProofs` proves `TypeOK`, `CommandsUnderLock` and that no two processes
operate at once, for any number of processes, retries, commands and restarts. The
invariant `Inv` adds to the types why the lock is held (`LockSafe`): a running TPM
with `storage_locked` has the lock; a running TPM is only about to process a
command with `storage_locked`; and a TPM runs, or is about to, only with an open
NVRAM store. It is needed since `storage_locked` stays set after a CMD_INIT that
failed, when the lock is gone.

The second part of `MigrationProofs`, and `HandoverProofs`, prove the properties on
the history of commands, `LinearHistory`, `StorageIsCurrent`, `HandoverIsComplete`
and `OrderlyStop`, again for any number of processes, retries, commands and restarts.
`SwtpmAssumption`, `MigrationAssumption` and `NoneAssumption` (the mark for "no file,
no blob" is none of the values) are all they assume of the constants.

The properties speak of the process that operates with the lock. They are not
inductive, for the state with which some process operates next may now be in the
blobs of the stream, in the cache of a destination, in the volatile state file, or in
the memory of a source that has released the lock and may fall back; and once one of
these has gone on, the others are out of date and must not be used. The invariant
`Safe` has:

* `Owns` and `Taken`: a machine has the lock as its own. `Entitled(p)` is a process
  with a state from which no other has gone on, `Intact` a stream from which nobody
  has;
* `Current`: the files, the memory of every entitled process and an intact stream
  have all commands of the history. It is under the condition that the automatic
  shutdown is disabled, as are the two properties;
* `Tidy`: what TPM2_Shutdown left orderly is so in the file and in the stream
  (`OrderlyStop`);
* `Local(p)`: what the client's stage says of the process: where it is
  (`Place`), what it believes of the lock (`Holding`), which blobs a destination has
  (`Blobbed`), that a source that is still sending is alone (`Sends`), and which
  files it relies on (`Filed`). `NoFile`: a volatile state file is there only for a
  machine that is paused or gone;
* `Complete`: a stream that nobody is filling has both blobs.

A step of one process keeps what `Safe` says of the others if it takes its `Turn`:
it changes the stream only when alone or as its destination, and the volatile state
file only while no other has the lock, and it gives up a lock that it owns only when
alone. `MigrationProofs` has this argument, a lemma on the effect of each operation of
swtpm field by field, and the many steps that change no TPM (`Quiet`).
`HandoverProofs` has the commands of the guest, the storing and sending of the
state, its arrival, and the theorems. TLC checked `Safe` first, for two processes in
the bounds of the run, and for three without retries and restarts (3,658,123 states).

## Cuse

### Correspondence

The threads of `fuse_session_loop_mt` (`pc`) handle requests under
`file_ops_lock`; the worker thread (`worker`) processes commands that can be
canceled, without it. `thread_busy` and `pool` are those of `threadpool.c`. A request
is in steps: before the lock (`ptm_write_cmd` sets both sizes there,
`cuse_tpm.c:963`), `Acquire`, `WaitDone`, the work, the call into libtpms, the
reply. One ioctl stands for those that call libtpms on a running TPM and one for
those that change nothing here; `Ops` says which. `ResetNotAnswered` is
PTM_RESET_TPMESTABLISHED with a locality above 4, which sends no reply
(`cuse_tpm.c:1266`). `expected`, `polite`, `freed` and `asked` are history.

### Run

**cuse_requests** (2 threads, a command that can be canceled and one that cannot).
`OneInLibrary`, `PushFindsPool`, `ResponseIsWhole`, `CanceledWasAsked`,
`RequestsEnd`. Two threads and the worker thread are every kind of pair; the
proofs are for any number. `CHECK_DEADLOCK FALSE`: PTM_SHUTDOWN ends the loop.

Fairness: weak for the steps of a thread that has the lock and for the worker thread
(threads run and calls into libtpms return), strong for `Acquire` (a mutex that
becomes free again and again is obtained). None for requests.

`ResponseIsWhole` is about a client that reads each response before it writes the
next command. For others it does not hold: a write that is refused with EBUSY has
already changed the sizes, and a write while the worker finishes may be skipped
(line 989) though it was answered as a success. And it says what such a client
finds after a PTM_STOP or PTM_SHUTDOWN: these free `ptm_response` and keep
`ptm_res_len` (line 1217), so that the read replies with that many bytes from a
NULL pointer (line 643); what the FUSE library makes of that is not modelled.

`RequestsEnd` has the exception of `ResetNotAnswered`; the lock is released there as
everywhere. `OneInLibrary` counts the calls that process a command, store or set
state, hash, start or stop the TPM. Not counted are those made while the worker
thread may be in libtpms: PTM_CANCEL_TPM_CMD sets a flag, and PTM_GET_INFO and
PTM_SET_BUFFERSIZE, which do not wait for the worker thread either, have libtpms
describe itself.

### Proofs

`CuseProofs` proves the four invariants for any number of threads and commands.
`Inv` says who holds the lock (`Locking`), what `thread_busy` says of the worker
thread and of those that waited for it (`Busy`), when there is a TPM without a pool
(`Pool`), what a polite client has under way (`Client`), and where the response that
is owed to it is (`Owed`): with the worker, with the thread that processes the
command, in the buffer, or freed.

## What is proved and what is only model-checked

Proved for all values of the constants: every invariant and every action property of
the passing runs, that is, all that they check except liveness; and the refinements of
`SavedContexts` and of `NVCounters`. `MaxCountCoversDeleted` and the latter have the hypothesis
`OwnerCountersInNV`, without which they are false. The assumptions are the named
`ASSUME`s of the modules, which TLC evaluates in the runs.

Only model-checked: liveness (`LockoutEnds`, `HandoverEnds`, `RequestsEnd`), as TLAPS
proves neither liveness under fairness nor ENABLED. The violation runs are
counterexamples and need no proof.

The prover does no induction over data and no RECURSIVE operators; no module has
either.

## Not modelled

* Policy and PCR, nonces, binding and audit of sessions. They compute digests over
  what they record; what matters about them (a policy refused once the PCRs have
  changed) would need the contents of sessions, which `Session` abstracts.
* Objects: sessions bound to the object they authorize; `phEnableNV` and the
  commit of NV for objects, so that a power loss in the middle of a command is only
  modelled for NV indices and lockout; firmware- and SVN-limited hierarchies; the
  overflow of `objectContextID`, `totalResetCount` and `clearCount`; changes of
  authorization values; TPM2_Create, Import and duplication, which leave no object
  loaded, and TPM2_CreateLoaded, which loads as CreatePrimary and Load do.
* NV: PIN indices, NV_Certify, NV_ChangeAuth, and the layout of and space in the NV
  memory. TPM2_ClockSet and ClockRateAdjust.
* swtpm: locality, hashing and reports of the control channel; encryption, backup
  files and the linear backend of the store; a crash of the host, for what a file
  system keeps of a rename without fsync (`swtpm_nvstore_dir.c:446`) is not decided
  by the code. CUSE: blobs in several pieces, open and release, `--startup`.
* The WebAssembly platform and the self-test keep next to no state of their own.
* The cryptographic library, single-call ML-KEM and ML-DSA commands, marshalling
  and dispatch tables, TPM 1.2 and the setup, certificate and BIOS tools: stateless,
  generated, unchanged by this fork, or programs that send fixed commands.

Most of the repository's lines are of this last kind. `PROJECT.json` gives the status
of every part, and lists the hazards that no property covers, with the reason.

## Mutants

Operators marked `Mutant:` in the modules are plausible errors (a check on
low bits alone, a dropped test of ehEnable, a flush that is one step early).
`PROJECT.json` says which definition each replaces and which property then
fails; every property of every passing run has one.
