------------------------------ MODULE NVStore ------------------------------
(***************************************************************************)
(* The NV indices of the TPM 2.0 core and the way their contents reach     *)
(* permanent storage (NVDynamic.c, NVReserved.c, NVCommands.c, NVMem.c,    *)
(* with the parts of ExecCommand.c, StartupCommands.c, SessionProcess.c    *)
(* and HierarchyCommands.c that write NV).                                 *)
(*                                                                         *)
(* There are four copies of the state.  Commands change the RAM of the     *)
(* orderly indices, the RAM copy gp of the persistent data, and an image   *)
(* s_NV of the NV memory; ExecuteCommand writes the whole image to storage *)
(* as its last act, and only when something asked for it.  The data and    *)
(* attributes of an orderly index live in RAM and enter the image when the *)
(* layout changes, at a shutdown, and when a counter rolls over its        *)
(* low-order bits.  A power loss, at any moment, leaves what was stored.   *)
(*                                                                         *)
(* Index data other than a counter is a member of a small set: TPM2_NV_    *)
(* Write, SetBits and Extend differ only in how they compute it.  A        *)
(* command that is refused changes nothing, so authorization roles and     *)
(* sizes are left out.                                                     *)
(***************************************************************************)
EXTENDS Integers, Functions

CONSTANTS Indices,     \* handles of NV indices
          Templates,   \* public areas an index may be defined with
          Values,      \* data of an index that is not a counter
          RollOver,    \* 2^ORDERLY_BITS: MAX_ORDERLY_COUNT + 1
          CountBound   \* bound: largest counter value that is incremented

\* The attributes of TPMA_NV that decide what the module does.
PublicAreas == [counter : BOOLEAN, orderly : BOOLEAN, platformCreate : BOOLEAN,
                writeDefine : BOOLEAN, stClear : BOOLEAN,
                clearStClear : BOOLEAN, globalLock : BOOLEAN]

\* What TPM2_NV_DefineSpace accepts: a counter is not cleared at startup, and
\* an index that is cleared at startup cannot be locked for good.
ASSUME NVAssumption ==
    /\ Templates \subseteq PublicAreas
    /\ \A t \in Templates : t.clearStClear => ~t.counter /\ ~t.writeDefine
    /\ Values \subseteq Nat
    /\ RollOver \in {2, 4, 8, 16, 32, 64, 128, 256}
    /\ CountBound \in Nat

VARIABLES s_NV,              \* the image of NV memory
          disk,              \* the image in permanent storage
          s_indexOrderlyRam, \* data and attributes of the orderly indices
          s_maxCounter,      \* the largest value of a deleted counter
          orderlyState,      \* gp.orderlyState
          g_daUsed,          \* a DA-protected entity was authorized
          g_updateNV,        \* what the end of the command has to store
          g_clearOrderly,    \* the command makes the state non-orderly
          phase,             \* where the TPM is
          shown,             \* history: the counters, as the last response left them
          deletedMax         \* history: the largest value of a deleted counter

ram == <<s_indexOrderlyRam, s_maxCounter, g_daUsed>>
flags == <<g_updateNV, g_clearOrderly>>
history == <<shown, deletedMax>>
vars == <<s_NV, disk, ram, orderlyState, flags, phase, history>>

-----------------------------------------------------------------------------
(***************************************************************************)
(* Images, entries and update flags                                        *)
(***************************************************************************)

\* g_updateNV is combined with |=, and the bits of UT_ORDERLY include UT_NV.
UT_NONE == 0
UT_NV == 1
UT_ORDERLY == 3

Shutdowns == {"CLEAR", "STATE"}
OrderlyStates == Shutdowns \cup {"DA_USED", "NONE"}
IS_ORDERLY(state) == state \in Shutdowns

\* An NV_INDEX with its data, or an entry of the orderly RAM.  The entry of an
\* orderly index in the list keeps the attributes it was defined with.
Entries == [public : Templates, written : BOOLEAN, writeLocked : BOOLEAN,
            readLocked : BOOLEAN, data : Nat]

Fresh(t) == [public |-> t, written |-> FALSE, writeLocked |-> FALSE,
             readLocked |-> FALSE, data |-> 0]

Empty == [i \in {} |-> 0]

Without(f, gone) == Restrict(f, DOMAIN f \ gone)
With(f, i, e) == [j \in DOMAIN f \cup {i} |-> IF j = i THEN e ELSE f[j]]

\* The greatest member of a set, as a set.
Greatest(S) == {m \in S : \A n \in S : n <= m}

Defined == DOMAIN s_NV.list
Orderly(i) == s_NV.list[i].public.orderly

\* The index as NvGetIndexInfo caches it: an orderly index has the attributes,
\* and NvGetIndexData gives it the data, that are in RAM.
NvGetIndexInfo(i) == IF Orderly(i) THEN s_indexOrderlyRam[i] ELSE s_NV.list[i]

\* counter | MAX_ORDERLY_COUNT
SetLowerBits(c) == c + (RollOver - 1 - (c % RollOver))

TypeOK ==
    /\ \A image \in {s_NV, disk} :
          /\ DOMAIN image.list \subseteq Indices
          /\ \A i \in DOMAIN image.list : image.list[i] \in Entries
          /\ DOMAIN image.ram \subseteq Indices
          /\ \A i \in DOMAIN image.ram : image.ram[i] \in Entries
          /\ image.maxCount \in Nat
          /\ image.orderlyState \in OrderlyStates
    /\ DOMAIN s_indexOrderlyRam \subseteq Indices
    /\ \A i \in DOMAIN s_indexOrderlyRam : s_indexOrderlyRam[i] \in Entries
    /\ s_maxCounter \in Nat
    /\ orderlyState \in OrderlyStates
    /\ g_daUsed \in BOOLEAN
    /\ g_updateNV \in {UT_NONE, UT_NV, UT_ORDERLY}
    /\ g_clearOrderly \in BOOLEAN
    /\ phase \in {"init", "ready", "busy", "failure"}
    /\ DOMAIN shown \subseteq Indices
    /\ \A i \in DOMAIN shown : shown[i] \in Nat
    /\ deletedMax \in Nat

\* NvManufacture and the first _TPM_Init: no index, and not orderly.
Init ==
    /\ s_NV = [list |-> Empty, maxCount |-> 0, ram |-> Empty, orderlyState |-> "NONE"]
    /\ disk = s_NV
    /\ s_indexOrderlyRam = Empty
    /\ s_maxCounter = 0
    /\ orderlyState = "NONE"
    /\ g_daUsed = FALSE
    /\ g_updateNV = UT_NONE
    /\ g_clearOrderly = FALSE
    /\ phase = "init"
    /\ shown = Empty
    /\ deletedMax = 0

-----------------------------------------------------------------------------
(***************************************************************************)
(* One command: the handler runs, then ExecuteCommand's clean-up stores    *)
(* the image if asked to and the response goes out.                        *)
(***************************************************************************)

\* A handler starts with the flags cleared and leaves the rest to Cleanup.
Handle(update, clearOrderly) ==
    /\ phase = "ready"
    /\ phase' = "busy"
    /\ g_updateNV' = update
    /\ g_clearOrderly' = clearOrderly
    /\ UNCHANGED <<disk, history>>

\* EntityGetLoadStatus finds the index a command names.
Accepts(i) == phase = "ready" /\ i \in Defined

\* NvAdd rewrites the end marker, with s_maxCounter in it.
NvDefineIndex(i, t) ==
    /\ i \notin Defined
    /\ s_NV' = [s_NV EXCEPT !.list = With(@, i, Fresh(t)), !.maxCount = s_maxCounter]
    /\ s_indexOrderlyRam' = IF t.orderly THEN With(s_indexOrderlyRam, i, Fresh(t))
                                         ELSE s_indexOrderlyRam
    /\ UNCHANGED <<s_maxCounter, g_daUsed, orderlyState>>

\* Mutant: NvAddRAM asks for the image alone to be stored.
DefineKeepsRamCopy(i, t) ==
    /\ Handle(UT_NV, FALSE)
    /\ NvDefineIndex(i, t)

NV_DefineSpace(i, t) ==
    /\ Handle(IF t.orderly THEN UT_ORDERLY ELSE UT_NV, FALSE)
    /\ NvDefineIndex(i, t)

\* Mutant: a deleted counter is not remembered.
DeleteForgetsCount(gone, info) == UNCHANGED s_maxCounter

\* NvUpdateMaxCount for the written counters of gone, as info describes them.
NvUpdateMaxCount(gone, info) ==
    LET counters == {i \in gone : info[i].public.counter /\ info[i].written}
    IN  s_maxCounter' \in Greatest({s_maxCounter} \cup {info[i].data : i \in counters})

\* NvDeleteIndex for each index of gone, with the descriptions info.
NvDeleteIndices(gone, info) ==
    /\ NvUpdateMaxCount(gone, info)
    /\ s_NV' = [s_NV EXCEPT !.list = Without(@, gone),
                            !.maxCount = IF gone = {} THEN @ ELSE s_maxCounter']
    /\ s_indexOrderlyRam' = Without(s_indexOrderlyRam, gone)

\* TPM2_NV_UndefineSpace, or UndefineSpaceSpecial if a policy must agree.
NV_UndefineSpace(i) ==
    /\ Accepts(i)
    /\ Handle(IF Orderly(i) THEN UT_ORDERLY ELSE UT_NV, FALSE)
    /\ NvDeleteIndices({i}, [j \in {i} |-> NvGetIndexInfo(j)])
    /\ UNCHANGED <<g_daUsed, orderlyState>>

\* NvFlushHierarchy(TPM_RH_OWNER) deletes the owner's indices.  It describes
\* them by what is in the list, even those whose attributes are in RAM.
TPM2_Clear ==
    LET gone == {i \in Defined : ~s_NV.list[i].public.platformCreate}
    IN  /\ Handle(IF \E i \in gone : Orderly(i) THEN UT_ORDERLY ELSE UT_NV, TRUE)
        /\ NvDeleteIndices(gone, s_NV.list)
        /\ UNCHANGED <<g_daUsed, orderlyState>>

\* NvWriteIndexData: the first write sets WRITTEN where the attributes are.
\* Orderly data goes to RAM, and makes the state non-orderly.
NvWriteIndexData(i, v) ==
    LET e == [NvGetIndexInfo(i) EXCEPT !.written = TRUE, !.data = v]
    IN  /\ IF Orderly(i)
           THEN /\ s_indexOrderlyRam' = [s_indexOrderlyRam EXCEPT ![i] = e]
                /\ UNCHANGED s_NV
           ELSE /\ s_NV' = [s_NV EXCEPT !.list[i] = e]
                /\ UNCHANGED s_indexOrderlyRam
        /\ UNCHANGED <<s_maxCounter, g_daUsed, orderlyState>>

\* Mutant: a write of orderly data leaves the orderly state alone.
WriteStaysOrderly(i, v) ==
    /\ Accepts(i)
    /\ ~NvGetIndexInfo(i).writeLocked
    /\ ~NvGetIndexInfo(i).public.counter
    /\ Handle(IF Orderly(i) THEN UT_NONE ELSE UT_NV, FALSE)
    /\ NvWriteIndexData(i, v)

\* TPM2_NV_Write, TPM2_NV_SetBits and TPM2_NV_Extend.
NV_Write(i, v) ==
    /\ Accepts(i)
    /\ ~NvGetIndexInfo(i).writeLocked
    /\ ~NvGetIndexInfo(i).public.counter
    /\ Handle(IF Orderly(i) THEN UT_NONE ELSE UT_NV, Orderly(i))
    /\ NvWriteIndexData(i, v)

\* A counter that was never written starts from the maximal count.
NextCount(i) ==
    1 + (IF NvGetIndexInfo(i).written THEN NvGetIndexInfo(i).data ELSE s_maxCounter)

\* Mutant: the bits of UT_ORDERLY do not include UT_NV.
UpdateIsOneBit(i) ==
    IF ~Orderly(i) THEN UT_NV
    ELSE IF NextCount(i) % RollOver = 0 THEN UT_ORDERLY - UT_NV ELSE UT_NONE

\* RAM is stored when WRITTEN is first set and when the low bits roll over.
IncrementUpdate(i) ==
    IF ~Orderly(i) THEN UT_NV
    ELSE IF ~NvGetIndexInfo(i).written \/ NextCount(i) % RollOver = 0
         THEN UT_ORDERLY ELSE UT_NONE

NV_Increment(i) ==
    /\ Accepts(i)
    /\ ~NvGetIndexInfo(i).writeLocked
    /\ NvGetIndexInfo(i).public.counter
    /\ NextCount(i) <= CountBound
    /\ Handle(IncrementUpdate(i), Orderly(i))
    /\ NvWriteIndexData(i, NextCount(i))

\* NvWriteIndexAttributes: to RAM, with no update asked for, or to the list.
NvWriteIndexAttributes(i, e) ==
    /\ Handle(IF Orderly(i) THEN UT_NONE ELSE UT_NV, FALSE)
    /\ IF Orderly(i)
       THEN /\ s_indexOrderlyRam' = [s_indexOrderlyRam EXCEPT ![i] = e]
            /\ UNCHANGED s_NV
       ELSE /\ s_NV' = [s_NV EXCEPT !.list[i] = e]
            /\ UNCHANGED s_indexOrderlyRam
    /\ UNCHANGED <<s_maxCounter, g_daUsed, orderlyState>>

NV_WriteLock(i) ==
    /\ Accepts(i)
    /\ ~NvGetIndexInfo(i).writeLocked
    /\ NvGetIndexInfo(i).public.writeDefine \/ NvGetIndexInfo(i).public.stClear
    /\ NvWriteIndexAttributes(i, [NvGetIndexInfo(i) EXCEPT !.writeLocked = TRUE])

NV_ReadLock(i) ==
    /\ Accepts(i)
    /\ ~NvGetIndexInfo(i).readLocked
    /\ NvGetIndexInfo(i).public.stClear
    /\ NvWriteIndexAttributes(i, [NvGetIndexInfo(i) EXCEPT !.readLocked = TRUE])

\* NvSetGlobalLock: the list first, then the orderly RAM.
Lock(f, local) ==
    [i \in DOMAIN f |-> IF f[i].public.globalLock /\ (local => ~f[i].public.orderly)
                        THEN [f[i] EXCEPT !.writeLocked = TRUE] ELSE f[i]]

NV_GlobalWriteLock ==
    /\ s_NV' = [s_NV EXCEPT !.list = Lock(@, TRUE)]
    /\ s_indexOrderlyRam' = Lock(s_indexOrderlyRam, FALSE)
    /\ Handle(IF s_NV' # s_NV THEN UT_NV ELSE UT_NONE, FALSE)
    /\ UNCHANGED <<s_maxCounter, g_daUsed, orderlyState>>

\* CheckLockedOut marks the first use of a DA-protected entity in a cycle.
CheckLockedOut ==
    /\ ~g_daUsed
    /\ Handle(UT_NV, FALSE)
    /\ g_daUsed' = TRUE
    /\ orderlyState' = "DA_USED"
    /\ s_NV' = [s_NV EXCEPT !.orderlyState = "DA_USED"]
    /\ UNCHANGED <<s_indexOrderlyRam, s_maxCounter>>

\* Any command that changes state which a Shutdown had saved.
NvClearOrderly ==
    /\ Handle(UT_NONE, TRUE)
    /\ UNCHANGED <<s_NV, ram, orderlyState>>

TPM2_Shutdown(type) ==
    /\ Handle(UT_NV, FALSE)
    /\ orderlyState' = type
    /\ g_daUsed' = FALSE
    /\ s_NV' = [s_NV EXCEPT !.ram = s_indexOrderlyRam, !.orderlyState = type]
    /\ UNCHANGED <<s_indexOrderlyRam, s_maxCounter>>

-----------------------------------------------------------------------------
(***************************************************************************)
(* The end of a command, power, and startup                                *)
(***************************************************************************)

\* ExecuteCommand from Cleanup on: the orderly state as the command leaves it,
\* whether anything is stored, and the image that would be.
FinalOrderlyState ==
    IF g_clearOrderly /\ IS_ORDERLY(orderlyState)
    THEN IF g_daUsed THEN "DA_USED" ELSE "NONE"
    ELSE orderlyState

\* Mutant: the decision to store is made before the orderly state is cleared.
CommitDecidedEarly == g_updateNV # UT_NONE

MustCommit == g_updateNV # UT_NONE \/ FinalOrderlyState # orderlyState

FinalImage ==
    [s_NV EXCEPT !.orderlyState = IF FinalOrderlyState # orderlyState
                                  THEN FinalOrderlyState ELSE @,
                 !.ram = IF g_updateNV = UT_ORDERLY THEN s_indexOrderlyRam ELSE @]

\* The values a user can read once the response is out.
Counters(image) ==
    LET info(i) == IF image.list[i].public.orderly THEN s_indexOrderlyRam[i]
                                                    ELSE image.list[i]
        written == {i \in DOMAIN image.list : info(i).public.counter /\ info(i).written}
    IN  [i \in written |-> info(i).data]

Cleanup ==
    /\ phase = "busy"
    /\ phase' = "ready"
    /\ s_NV' = FinalImage
    /\ disk' = IF MustCommit THEN FinalImage ELSE disk
    /\ orderlyState' = FinalOrderlyState
    /\ g_updateNV' = UT_NONE /\ g_clearOrderly' = FALSE
    /\ shown' = Counters(FinalImage)
    /\ deletedMax' \in Greatest({deletedMax} \cup
                                {shown[i] : i \in DOMAIN shown \ DOMAIN s_NV.list})
    /\ UNCHANGED ram

\* The commit fails: storage keeps the old image, and only a new _TPM_Init
\* ends the failure mode.
CommitFails ==
    /\ phase = "busy"
    /\ MustCommit
    /\ phase' = "failure"
    /\ UNCHANGED <<s_NV, disk, ram, orderlyState, flags, history>>

\* Power is lost, at any moment, and comes back: _TPM_Init reads the image.
PowerCycle ==
    /\ phase' = "init"
    /\ s_NV' = disk
    /\ orderlyState' = disk.orderlyState
    /\ s_indexOrderlyRam' = Empty
    /\ s_maxCounter' = 0
    /\ g_daUsed' = FALSE
    /\ g_updateNV' = UT_NONE
    /\ g_clearOrderly' = FALSE
    /\ UNCHANGED <<disk, history>>

\* Mutant: the previous state is copied before DA_USED is folded.
PrevKeepsDaUsed == orderlyState

\* TPM2_Startup folds DA_USED into NONE before anything looks at it.
prevOrderlyState == IF orderlyState = "DA_USED" THEN "NONE" ELSE orderlyState

\* A Startup(STATE) without a Shutdown(STATE) fails, after that change.
StartupRefused ==
    /\ phase = "init"
    /\ prevOrderlyState # "STATE"
    /\ orderlyState' = prevOrderlyState
    /\ g_daUsed' = (orderlyState = "DA_USED")
    /\ UNCHANGED <<s_NV, disk, s_indexOrderlyRam, s_maxCounter, flags, phase, history>>

\* Mutant: a startup unlocks what WRITEDEFINE locked.
StartupUnlocksAll(e, reset) ==
    [e EXCEPT !.readLocked = FALSE, !.writeLocked = FALSE]

NvSetStartupAttributes(e, reset) ==
    LET cleared == /\ ~e.public.counter
                   /\ e.public.clearStClear \/ (e.public.orderly /\ reset)
        written == e.written /\ ~cleared
    IN  [e EXCEPT !.readLocked = FALSE,
                  !.written = written,
                  !.writeLocked = @ /\ written /\ e.public.writeDefine]

\* The entries of the list; those of orderly indices are left alone.
StartupList(reset) ==
    [i \in DOMAIN s_NV.list |->
        IF Orderly(i) THEN s_NV.list[i] ELSE NvSetStartupAttributes(s_NV.list[i], reset)]

\* The orderly entries, restored.  A counter may have lost increments when
\* there was no shutdown, so it moves to the end of its block.
StartupRam(reset) ==
    [i \in DOMAIN s_NV.ram |->
        LET e == NvSetStartupAttributes(s_NV.ram[i], reset)
        IN  IF e.public.counter /\ prevOrderlyState = "NONE"
            THEN [e EXCEPT !.data = SetLowerBits(@)] ELSE e]

\* NvEntityStartup, within TPM2_Startup.  DAStartup may clear g_daUsed.
NvEntityStartup(type) ==
    LET resume == type = "STATE"
        reset == prevOrderlyState # "STATE"
    IN  /\ s_indexOrderlyRam' = IF resume THEN s_NV.ram ELSE StartupRam(reset)
        /\ s_maxCounter' = s_NV.maxCount
        /\ s_NV' = [s_NV EXCEPT !.list = IF resume THEN @ ELSE StartupList(reset),
                                !.orderlyState = "NONE"]

TPM2_Startup(type) ==
    /\ phase = "init"
    /\ type = "STATE" => prevOrderlyState = "STATE"
    /\ phase' = "busy"
    /\ NvEntityStartup(type)
    /\ orderlyState' = "NONE"
    /\ g_daUsed' \in {FALSE, orderlyState = "DA_USED"}
    /\ g_updateNV' = UT_NV
    /\ g_clearOrderly' = FALSE
    /\ UNCHANGED <<disk, history>>

Next ==
    \/ \E i \in Indices, t \in Templates : NV_DefineSpace(i, t)
    \/ \E i \in Indices : NV_UndefineSpace(i)
    \/ TPM2_Clear
    \/ \E i \in Indices, v \in Values : NV_Write(i, v)
    \/ \E i \in Indices : NV_Increment(i)
    \/ \E i \in Indices : NV_WriteLock(i)
    \/ \E i \in Indices : NV_ReadLock(i)
    \/ NV_GlobalWriteLock
    \/ CheckLockedOut
    \/ NvClearOrderly
    \/ \E type \in Shutdowns : TPM2_Shutdown(type)
    \/ Cleanup
    \/ CommitFails
    \/ PowerCycle
    \/ StartupRefused
    \/ \E type \in Shutdowns : TPM2_Startup(type)

Spec == Init /\ [][Next]_vars

-----------------------------------------------------------------------------
(***************************************************************************)
(* Properties                                                              *)
(***************************************************************************)

\* Nothing a command wrote to the image waits for a later command: between
\* commands, storage holds the image and the orderly state gp has
\* (ExecCommand.c:289-320, the only place that commits).
CommittedAfterCommand ==
    phase = "ready" => disk = s_NV /\ disk.orderlyState = orderlyState

\* The stored copy of the orderly RAM has an entry for exactly the orderly
\* indices of the stored list, whenever power is lost, so that NvRamGetIndex
\* finds every orderly index after a restart (NVDynamic.c, NvAddRAM and
\* NvDeleteRAM, against NvAdd and NvDelete).
OrderlyLayoutMatches ==
    DOMAIN disk.ram = {i \in DOMAIN disk.list : disk.list[i].public.orderly}

\* While storage says that the TPM was shut down, the orderly data it has is
\* the data in RAM: writes after a Shutdown take the mark away before their
\* response (NvWriteIndexData sets g_clearOrderly).
OrderlyImageIsCurrent ==
    phase = "ready" /\ IS_ORDERLY(disk.orderlyState)
        => \A i \in DOMAIN s_indexOrderlyRam :
              /\ disk.ram[i].data = s_indexOrderlyRam[i].data
              /\ disk.ram[i].written = s_indexOrderlyRam[i].written

\* An index in NV that is locked with WRITEDEFINE keeps its data and its lock
\* until it is deleted, across commands, power losses and startups
\* (NvWriteAccessChecks, NvSetStartupAttributes).
LockedForGood(image, i) ==
    /\ i \in DOMAIN image.list
    /\ image.list[i].public.writeDefine
    /\ image.list[i].written
    /\ image.list[i].writeLocked

DefinedLockIsPermanent ==
    [][\A i \in Indices :
          LockedForGood(disk, i) /\ i \in DOMAIN disk'.list
              => LockedForGood(disk, i)' /\ disk'.list[i].data = disk.list[i].data]_vars

\* The counters, as the responses show them, are those of NVCounters: none goes
\* back, and none starts at or below a deleted one (TPM2_NV_Increment,
\* NvEntityStartup, NvUpdateMaxCount).
Counts == INSTANCE NVCounters WITH count <- shown, floor <- deletedMax

CountersNeverGoBack == Counts!Spec

\* "The TPM keeps track of the highest value of a deleted counter index"
\* (NVDynamic.c:1903): after every command s_maxCounter is at least that.
MaxCountCoversDeleted == phase = "ready" => s_maxCounter >= deletedMax

=============================================================================
