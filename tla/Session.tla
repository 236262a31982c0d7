------------------------------ MODULE Session ------------------------------
(***************************************************************************)
(* The session context manager of the TPM 2.0 core: Session.c, with the    *)
(* session halves of TPM2_StartAuthSession, TPM2_ContextSave,              *)
(* TPM2_ContextLoad and TPM2_FlushContext, and the parts of _TPM_Init,     *)
(* TPM2_Startup and TPM2_Shutdown that save, lose and restore its state.   *)
(*                                                                         *)
(* A session is named by its index in gr.contextArray.  An entry is 0      *)
(* (free), 1..MaxLoaded (loaded in that slot) or the low-order bits of the *)
(* 64-bit contextID under which the session was saved.  Everything hard    *)
(* about the component comes from that truncation: the counter wraps its   *)
(* low bits, skips the slot numbers, and must never make two saved         *)
(* contexts indistinguishable or leave the resource manager stuck.         *)
(*                                                                         *)
(* What a session contains (keys, nonces, policy digest) is left out: a    *)
(* context is its handle, its sequence number and the reset cycle that its *)
(* integrity value binds it to.  Commands that only return an error are    *)
(* stuttering steps, except where the code changes state on the way out.   *)
(***************************************************************************)
EXTENDS Integers, FiniteSets

CONSTANTS
    MaxLoaded,   \* MAX_LOADED_SESSIONS
    MaxActive,   \* MAX_ACTIVE_SESSIONS
    OldSlots,    \* s_ContextSlotMask + 1 of state written when CONTEXT_SLOT was UINT8
    NewSlots,    \* s_ContextSlotMask + 1 otherwise
    CounterMod,  \* 2^64: the range of gr.contextCounter
    MaxResets    \* bound: TPM Resets explored

ASSUME SizeAssumption ==
    /\ MaxLoaded \in Nat \ {0}
    /\ MaxActive \in Nat \ {0}
    /\ MaxResets \in Nat

\* The masks are of the form 2^n - 1, so each range divides the next one.
ASSUME RangeAssumption ==
    /\ OldSlots \in Nat /\ OldSlots > MaxLoaded + 1
    /\ NewSlots \in Nat /\ NewSlots > MaxLoaded + 1
    /\ CounterMod \in Nat /\ CounterMod > MaxLoaded + 1
    /\ \E k \in 1 .. CounterMod : CounterMod = OldSlots * k
    /\ \E k \in 1 .. CounterMod : CounterMod = NewSlots * k

VARIABLES
    contextArray,        \* gr.contextArray
    contextCounter,      \* gr.contextCounter
    oldestSavedSession,  \* s_oldestSavedSession
    occupied,            \* s_sessions[].occupied
    freeSessionSlots,    \* s_freeSessionSlots
    slotMod,             \* s_ContextSlotMask + 1
    started,             \* TPMIsStarted()
    orderlyState,        \* gp.orderlyState
    nvStateReset,        \* NV_STATE_RESET_DATA: what Shutdown(STATE) saved of gr
    totalResetCount,     \* gp.totalResetCount
    \* History variables: they only determine which contexts a caller can present.
    contextID,           \* the full contextID a saved session was last saved under, else 0
    kept                 \* a context that the caller keeps after it was used or flushed

gr == <<contextArray, contextCounter>>
table == <<oldestSavedSession, occupied, freeSessionSlots>>
power == <<started, orderlyState, nvStateReset, totalResetCount>>
history == <<contextID, kept>>
vars == <<gr, table, slotMod, power, history>>

Handles == 0 .. MaxActive - 1
Slots == 0 .. MaxLoaded - 1
NoOldest == MaxActive + 1

\* CONTEXT_SLOT_MASKED(val)
Masked(val) == val % slotMod

SessionIsLoaded(h) == contextArray[h] \in 1 .. MaxLoaded
SessionIsSaved(h) == contextArray[h] > MaxLoaded

\* A saved context, as TPM2_ContextSave returns it.
Context == [handle : Handles, sequence : 0 .. CounterMod - 1, reset : 0 .. MaxResets]
NoContext == [handle |-> 0, sequence |-> 0, reset |-> 0]

EmptyArray == [h \in Handles |-> 0]
NoImage == [contextArray |-> EmptyArray, contextCounter |-> 0, contextID |-> EmptyArray]
-----------------------------------------------------------------------------
\* The saved contexts of an array, and how far each is from the counter: the
\* masked difference (entry - lowBits) of ContextIdSetOldest.
SavedIn(array) == {h \in Handles : array[h] > MaxLoaded}
Age(array, counter, h) == (array[h] - (counter % slotMod)) % slotMod

\* Mutant: the entries are compared without regard to the counter.
IsOldestByValue(o, array, counter) ==
    \/ o = NoOldest /\ SavedIn(array) = {}
    \/ o \in SavedIn(array) /\ \A h \in SavedIn(array) : array[o] <= array[h]

\* The result of ContextIdSetOldest: the last index, in the order of the scan,
\* whose age is the smallest (the code compares with <=).
IsOldest(o, array, counter) ==
    \/ o = NoOldest /\ SavedIn(array) = {}
    \/ /\ o \in SavedIn(array)
       /\ \A h \in SavedIn(array) :
             \/ Age(array, counter, o) < Age(array, counter, h)
             \/ Age(array, counter, o) = Age(array, counter, h) /\ h <= o

ContextIdSetOldest(array, counter) ==
    \E o \in Handles \cup {NoOldest} :
        /\ IsOldest(o, array, counter)
        /\ oldestSavedSession' = o

\* Mutant: the gap is never found to be at its maximum.
GapIgnored == FALSE

\* The gap is at its maximum: the next contextID would repeat the low-order
\* bits of the oldest saved context.
GapAtMaximum ==
    /\ oldestSavedSession < MaxActive
    /\ contextArray[oldestSavedSession] = Masked(contextCounter)

\* Mutant: the last slot is given out to anyone.
LastSlotForAll == FALSE

\* The last slot is kept for recycling the oldest context.
LastSlotIsReserved == freeSessionSlots = 1 /\ GapAtMaximum

\* First-fit searches of the code.
FirstFreeSlot(s) ==
    /\ s \in Slots /\ ~occupied[s]
    /\ \A t \in Slots : t < s => occupied[t]
FirstFreeHandle(h) ==
    /\ h \in Handles /\ contextArray[h] = 0
    /\ \A g \in Handles : g < h => contextArray[g] # 0

\* Mutant: the count of free slots is not adjusted.
OccupySlotUncounted(s) ==
    /\ occupied' = [occupied EXCEPT ![s] = TRUE]
    /\ UNCHANGED freeSessionSlots

OccupySlot(s) ==
    /\ occupied' = [occupied EXCEPT ![s] = TRUE]
    /\ freeSessionSlots' = freeSessionSlots - 1
FreeSlot(s) ==
    /\ occupied' = [occupied EXCEPT ![s] = FALSE]
    /\ freeSessionSlots' = freeSessionSlots + 1

\* Mutant: the image of Shutdown(STATE) stays valid.
OrderlyKept == UNCHANGED power

\* g_clearOrderly: the state saved by Shutdown(STATE) can no longer be resumed.
ClearOrderly ==
    /\ orderlyState' = "SU_NONE"
    /\ nvStateReset' = NoImage
    /\ UNCHANGED <<started, totalResetCount>>
-----------------------------------------------------------------------------
Init ==
    /\ contextArray = EmptyArray
    /\ contextCounter = MaxLoaded + 1
    /\ oldestSavedSession = NoOldest
    /\ occupied = [s \in Slots |-> FALSE]
    /\ freeSessionSlots = MaxLoaded
    /\ slotMod \in {OldSlots, NewSlots}
    /\ started = TRUE
    /\ orderlyState = "SU_NONE"
    /\ nvStateReset = NoImage
    /\ totalResetCount = 0
    /\ contextID = EmptyArray
    /\ kept = NoContext

\* TPM2_StartAuthSession: SessionCreate and ContextIdSessionCreate.
SessionCreate ==
    /\ started
    /\ freeSessionSlots > 0
    /\ ~LastSlotIsReserved
    /\ \E s \in Slots, h \in Handles :
          /\ FirstFreeSlot(s)
          /\ FirstFreeHandle(h)
          /\ contextArray' = [contextArray EXCEPT ![h] = s + 1]
          /\ OccupySlot(s)
    /\ UNCHANGED <<contextCounter, oldestSavedSession, slotMod, power, history>>

\* The counter after a save: past the slot numbers when the low bits wrap.
NextCounter ==
    IF Masked(contextCounter + 1) = 0
    THEN contextCounter + 1 + MaxLoaded + 1
    ELSE contextCounter + 1

\* TPM2_ContextSave of a session, successful.  The caller may keep the context.
ContextSave(h) ==
    /\ started
    /\ SessionIsLoaded(h)
    /\ ~GapAtMaximum
    /\ contextCounter + 1 < CounterMod
    /\ contextArray' = [contextArray EXCEPT ![h] = Masked(contextCounter)]
    /\ contextCounter' = NextCounter
    /\ oldestSavedSession' =
          IF oldestSavedSession >= MaxActive THEN h ELSE oldestSavedSession
    /\ FreeSlot(contextArray[h] - 1)
    /\ ClearOrderly
    /\ contextID' = [contextID EXCEPT ![h] = contextCounter]
    /\ \/ kept' = [handle |-> h, sequence |-> contextCounter, reset |-> totalResetCount]
       \/ UNCHANGED kept
    /\ UNCHANGED slotMod

\* TPM2_ContextSave of a session that fails: RETURN_IF_ORDERLY has already
\* marked the orderly state for clearing.
ContextSaveGap(h) ==
    /\ started
    /\ SessionIsLoaded(h)
    /\ GapAtMaximum
    /\ ClearOrderly
    /\ UNCHANGED <<gr, table, slotMod, history>>

\* The counter is at its last value: the array entry has been overwritten when
\* the increment is found to wrap and is taken back.
ContextSaveTooMany(h) ==
    /\ started
    /\ SessionIsLoaded(h)
    /\ ~GapAtMaximum
    /\ contextCounter + 1 = CounterMod
    /\ contextArray' = [contextArray EXCEPT ![h] = Masked(contextCounter)]
    /\ ClearOrderly
    /\ UNCHANGED <<contextCounter, table, slotMod, history>>

\* Mutant: only the low-order bits of the sequence number are checked.
LowBitsAgree(c) ==
    contextArray[c.handle] > MaxLoaded /\ contextArray[c.handle] = Masked(c.sequence)

\* MAX_CONTEXT_GAP and the checks of SequenceNumberForSavedContextIsValid.
SequenceNumberIsValid(c) ==
    /\ c.handle < MaxActive
    /\ contextArray[c.handle] > MaxLoaded
    /\ contextArray[c.handle] = Masked(c.sequence)
    /\ c.sequence <= contextCounter
    /\ contextCounter - c.sequence <= slotMod

\* ComputeContextIntegrity covers totalResetCount.
IntegrityHolds(c) == c.reset = totalResetCount

ContextIsAccepted(c) == IntegrityHolds(c) /\ SequenceNumberIsValid(c)

\* SessionContextLoad would return TPM_RC_SESSION_MEMORY or TPM_RC_CONTEXT_GAP.
LoadIsRefused(h) ==
    \/ freeSessionSlots = 0
    \/ LastSlotIsReserved /\ h # oldestSavedSession

\* The contexts the caller can present: the last one of every saved session,
\* and the one it kept.
PresentableContexts ==
    {[handle |-> h, sequence |-> contextID[h], reset |-> totalResetCount] :
        h \in {g \in Handles : contextID[g] # 0}}
    \cup {c \in {kept} : c # NoContext}

\* TPM2_ContextLoad of a session context.
ContextLoad(c) ==
    /\ started
    /\ ContextIsAccepted(c)
    /\ ~LoadIsRefused(c.handle)
    /\ \E s \in Slots :
          /\ FirstFreeSlot(s)
          /\ contextArray' = [contextArray EXCEPT ![c.handle] = s + 1]
          /\ OccupySlot(s)
    /\ IF c.handle = oldestSavedSession
       THEN ContextIdSetOldest(contextArray', contextCounter)
       ELSE UNCHANGED oldestSavedSession
    /\ ClearOrderly
    /\ contextID' = [contextID EXCEPT ![c.handle] = 0]
    /\ UNCHANGED <<contextCounter, slotMod, kept>>

\* A context that passes the integrity check but is refused later: only the
\* orderly state is cleared.
ContextLoadRefused(c) ==
    /\ started
    /\ IntegrityHolds(c)
    /\ ~SequenceNumberIsValid(c) \/ LoadIsRefused(c.handle)
    /\ ClearOrderly
    /\ UNCHANGED <<gr, table, slotMod, history>>

\* Mutant: a slot is freed for a saved session too.
SessionFlushAlwaysFrees(h) ==
    /\ contextArray' = [contextArray EXCEPT ![h] = 0]
    /\ IF h = oldestSavedSession
       THEN ContextIdSetOldest(contextArray', contextCounter)
       ELSE UNCHANGED oldestSavedSession
    /\ freeSessionSlots' = freeSessionSlots + 1
    /\ occupied' = [s \in Slots |-> occupied[s] /\ s # contextArray[h] - 1]

SessionFlush(h) ==
    /\ contextArray' = [contextArray EXCEPT ![h] = 0]
    /\ IF contextArray[h] > MaxLoaded
       THEN /\ IF h = oldestSavedSession
               THEN ContextIdSetOldest(contextArray', contextCounter)
               ELSE UNCHANGED oldestSavedSession
            /\ UNCHANGED <<occupied, freeSessionSlots>>
       ELSE FreeSlot(contextArray[h] - 1) /\ UNCHANGED oldestSavedSession

\* TPM2_FlushContext of a session.  It does not clear the orderly state.
FlushContext(h) ==
    /\ started
    /\ SessionIsLoaded(h) \/ SessionIsSaved(h)
    /\ SessionFlush(h)
    /\ contextID' = [contextID EXCEPT ![h] = 0]
    /\ UNCHANGED <<contextCounter, slotMod, power, kept>>

\* The end of a command authorized by a session whose continueSession is CLEAR.
\* The command itself may be one that clears the orderly state.
EndOfSession(h) ==
    /\ started
    /\ SessionIsLoaded(h)
    /\ SessionFlush(h)
    /\ ClearOrderly \/ UNCHANGED power
    /\ UNCHANGED <<contextCounter, slotMod, history>>

\* TPM2_Shutdown.  The TPM keeps accepting commands afterwards.
Shutdown(type) ==
    /\ started
    /\ orderlyState' = type
    /\ nvStateReset' =
          IF type = "SU_STATE"
          THEN [contextArray |-> contextArray, contextCounter |-> contextCounter,
                contextID |-> contextID]
          ELSE NoImage
    /\ UNCHANGED <<gr, table, slotMod, started, totalResetCount, history>>

\* _TPM_Init: RAM is lost at any moment.  Startup rewrites all of it, so its
\* content in between is given fixed values.  (The guard keeps to MaxResets.)
TPMInit ==
    /\ started
    /\ orderlyState = "SU_STATE" \/ totalResetCount < MaxResets
    /\ started' = FALSE
    /\ contextArray' = EmptyArray
    /\ contextCounter' = 0
    /\ oldestSavedSession' = NoOldest
    /\ occupied' = [s \in Slots |-> FALSE]
    /\ freeSessionSlots' = MaxLoaded
    /\ contextID' = EmptyArray
    /\ UNCHANGED <<slotMod, orderlyState, nvStateReset, totalResetCount, kept>>

\* TPM2_Startup after Shutdown(STATE): TPM Resume or TPM Restart, which are the
\* same to sessions.  Sessions that were loaded are lost.
StartupKeep ==
    LET array == [h \in Handles |->
                     IF nvStateReset.contextArray[h] <= MaxLoaded
                     THEN 0 ELSE nvStateReset.contextArray[h]]
    IN  /\ ~started
        /\ orderlyState = "SU_STATE"
        /\ contextArray' = array
        /\ contextCounter' = nvStateReset.contextCounter
        /\ occupied' = [s \in Slots |-> FALSE]
        /\ freeSessionSlots' = MaxLoaded
        /\ ContextIdSetOldest(array, nvStateReset.contextCounter)
        /\ started' = TRUE
        /\ orderlyState' = "SU_NONE"
        /\ nvStateReset' = NoImage
        /\ contextID' = nvStateReset.contextID
        /\ UNCHANGED <<slotMod, totalResetCount, kept>>

\* TPM2_Startup after Shutdown(CLEAR) or without a shutdown: TPM Reset.
StartupReset ==
    /\ ~started
    /\ orderlyState # "SU_STATE"
    /\ contextArray' = EmptyArray
    /\ contextCounter' = MaxLoaded + 1
    /\ oldestSavedSession' = NoOldest
    /\ occupied' = [s \in Slots |-> FALSE]
    /\ freeSessionSlots' = MaxLoaded
    /\ slotMod' = NewSlots
    /\ started' = TRUE
    /\ orderlyState' = "SU_NONE"
    /\ nvStateReset' = NoImage
    /\ totalResetCount' = totalResetCount + 1
    /\ contextID' = EmptyArray
    /\ UNCHANGED kept

Next ==
    \/ SessionCreate
    \/ \E h \in Handles :
          \/ ContextSave(h) \/ ContextSaveGap(h) \/ ContextSaveTooMany(h)
          \/ FlushContext(h) \/ EndOfSession(h)
    \/ \E c \in PresentableContexts : ContextLoad(c) \/ ContextLoadRefused(c)
    \/ \E type \in {"SU_CLEAR", "SU_STATE"} : Shutdown(type)
    \/ TPMInit
    \/ StartupKeep
    \/ StartupReset

Spec == Init /\ [][Next]_vars
-----------------------------------------------------------------------------
\* The type invariant: an array entry fits the mask (CONTEXT_SLOT), the counter
\* stays in its 64 bits, and s_freeSessionSlots neither underflows nor exceeds
\* MAX_LOADED_SESSIONS, through every save, load, flush and startup.
TypeOK ==
    /\ slotMod \in {OldSlots, NewSlots}
    /\ contextArray \in [Handles -> 0 .. slotMod - 1]
    /\ contextCounter \in 0 .. CounterMod - 1
    /\ oldestSavedSession \in Handles \cup {NoOldest}
    /\ occupied \in [Slots -> BOOLEAN]
    /\ freeSessionSlots \in 0 .. MaxLoaded
    /\ started \in BOOLEAN
    /\ orderlyState \in {"SU_NONE", "SU_CLEAR", "SU_STATE"}
    /\ nvStateReset \in [contextArray : [Handles -> 0 .. slotMod - 1],
                         contextCounter : 0 .. CounterMod - 1,
                         contextID : [Handles -> 0 .. CounterMod - 1]]
    /\ totalResetCount \in 0 .. MaxResets
    /\ contextID \in [Handles -> 0 .. CounterMod - 1]
    /\ kept \in Context

\* The counter has room: TPM_RC_TOO_MANY_CONTEXTS was not returned yet.
CounterHasRoom == contextCounter + 1 < CounterMod

\* freeSessionSlots counts the unoccupied slots, every loaded session has an
\* occupied slot of its own, and no occupied slot is without a session.
SlotAccounting ==
    /\ freeSessionSlots = Cardinality({s \in Slots : ~occupied[s]})
    /\ \A h \in Handles : SessionIsLoaded(h) => occupied[contextArray[h] - 1]
    /\ \A g, h \in Handles :
          SessionIsLoaded(g) /\ contextArray[g] = contextArray[h] => g = h
    /\ CounterHasRoom =>
          \A s \in Slots : occupied[s] => \E h \in Handles : contextArray[h] = s + 1

\* s_oldestSavedSession, found by comparing truncated numbers or kept by default
\* since the first save, is the session with the smallest full contextID.
OldestIsOldest ==
    started /\ CounterHasRoom =>
        IF oldestSavedSession = NoOldest
        THEN SavedIn(contextArray) = {}
        ELSE /\ SessionIsSaved(oldestSavedSession)
             /\ \A h \in SavedIn(contextArray) :
                   contextID[oldestSavedSession] <= contextID[h]

\* "by construction, the entry that contains the matching value is the oldest
\* context": comparing with the oldest is enough, no other saved session has the
\* low-order bits that the next save would store.
CollisionIsOldest ==
    started /\ CounterHasRoom =>
        \A h \in SavedIn(contextArray) :
            contextArray[h] = Masked(contextCounter) => h = oldestSavedSession

\* "the TPM will always be able to load and save the oldest existing context":
\* when the gap blocks every save, a slot is free and the oldest context loads.
RecycleAlwaysPossible ==
    started /\ CounterHasRoom /\ GapAtMaximum =>
        LET o == oldestSavedSession
        IN  /\ ContextIsAccepted([handle |-> o, sequence |-> contextID[o],
                                  reset |-> totalResetCount])
            /\ ~LoadIsRefused(o)

\* Once the oldest context is out of the way, saving works again.
RecycleUnblocks ==
    [][oldestSavedSession' # oldestSavedSession /\ GapAtMaximum /\ CounterHasRoom
       => ~GapAtMaximum']_vars

\* The test on truncated numbers is exact: the TPM accepts a context just when
\* it is the last one saved for a session that is still saved.
ContextLoadableIffLive ==
    started /\ CounterHasRoom /\ kept # NoContext =>
        (ContextIsAccepted(kept) <=>
            kept.reset = totalResetCount /\ contextID[kept.handle] = kept.sequence)

\* No contextID is given out twice under one totalResetCount, whatever state
\* the power cycles in between restored.
ContextIDNeverReissued ==
    started /\ kept.reset = totalResetCount => kept.sequence < contextCounter

\* The sessions as a resource manager knows them, in a TPM without power as the
\* coming TPM2_Startup will find them.
LoadedSessions == {h \in Handles : SessionIsLoaded(h)}

SavedIDs == IF started THEN contextID ELSE nvStateReset.contextID

NextID ==
    IF started THEN contextCounter
    ELSE IF orderlyState = "SU_STATE" THEN nvStateReset.contextCounter
    ELSE MaxLoaded + 1

RecordedIDs ==
    IF started /\ orderlyState = "SU_STATE" THEN {nvStateReset.contextID} ELSE {}

ResetCycle ==
    IF started \/ orderlyState = "SU_STATE" THEN totalResetCount ELSE totalResetCount + 1

Promise == INSTANCE SavedContexts WITH
    Last <- CounterMod - 1, loaded <- LoadedSessions, id <- SavedIDs, next <- NextID,
    record <- RecordedIDs, cycle <- ResetCycle

\* The table of truncated numbers, the image of Shutdown(STATE) and g_clearOrderly
\* together keep the promise of SavedContexts: each session is where its owner
\* left it, no contextID is given out twice under one totalResetCount, and after
\* a loss of power either every session that was recorded comes back or none
\* does, so that a context that was used is never good again.
KeepsSavedContexts == Promise!Spec
=============================================================================
