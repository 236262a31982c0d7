---------------------------- MODULE ObjectStore ----------------------------
(***************************************************************************)
(* The object slots of the TPM 2.0 core and the way one command passes     *)
(* through them (ExecCommand.c, Entity.c, Object.c, ContextCommands.c,     *)
(* HashCommands.c, PqcSequence.c, PqcSequenceCommands.c,                   *)
(* HierarchyCommands.c, and the evict objects of NVDynamic.c).             *)
(*                                                                         *)
(* A slot holds a key or a sequence (hash, HMAC, event, and the ML-DSA     *)
(* sign and verify sequences).  A transient handle is the index of a slot. *)
(* A persistent object has no slot of its own: EntityGetLoadStatus copies  *)
(* it into a free slot when a command names it, the command uses the copy, *)
(* and ObjectCleanupEvict frees the slot when the command ends, however it *)
(* ends.  Between commands a _TPM_Hash_Start indication may take a slot    *)
(* for the DRTM sequence, flushing an object when all of them are in use.  *)
(*                                                                         *)
(* A command is modelled step by step: its handles are resolved one by     *)
(* one, it is authorized, its handler runs, its response is built, and its *)
(* working copies are cleaned up.                                          *)
(***************************************************************************)
EXTENDS Integers, Sequences, FiniteSets

CONSTANTS MaxLoadedObjects,  \* MAX_LOADED_OBJECTS, the number of slots
          PersistentHandles, \* persistent handles in each of the two ranges
          ParentKeys,        \* names of storage keys, which have children
          MlDsaKeys,         \* names of ML-DSA signing keys
          HmacKeys,          \* names of HMAC keys
          NoName,            \* the name of an object that is not a key
          StClearValues,     \* values of the stClear attribute of new keys
          Hosts,             \* what the host of a TPM may be up to, see Host
          MaxContexts,       \* bound: contexts the host keeps
          MaxProof,          \* bound: changes of each hierarchy proof
          MaxBuffer          \* MAX_PQC_SEQ_BUFFER, in blocks

\* A TPM has at least one slot, and a name belongs to one type of key.
ASSUME ObjectAssumption ==
    /\ MaxLoadedObjects \in Nat \ {0}
    /\ PersistentHandles \in Nat
    /\ StClearValues \subseteq BOOLEAN
    /\ MaxContexts \in Nat /\ MaxProof \in Nat /\ MaxBuffer \in Nat
    /\ ParentKeys \cap MlDsaKeys = {}
    /\ ParentKeys \cap HmacKeys = {}
    /\ MlDsaKeys \cap HmacKeys = {}
    /\ NoName \notin ParentKeys \cup MlDsaKeys \cup HmacKeys

VARIABLES s_objects,        \* the slots
          nv,               \* the persistent objects, by handle
          contexts,         \* the saved object contexts the host keeps
          enabled,          \* phEnable, shEnable and ehEnable
          proof,            \* a number for each value a proof has had
          totalResetCount,  \* gp.totalResetCount
          clearCount,       \* gr.clearCount
          g_DRTMHandle,     \* slot of the DRTM sequence, or NoHandle
          phase,            \* where ExecuteCommand is
          cmd,              \* the COMMAND structure while a command runs
          resumable,        \* an orderly Shutdown(STATE) preceded this power-up
          boot,             \* history: number of Resets and Restarts so far
          host              \* what this TPM's host does, from first to last

store == <<s_objects, nv, contexts, enabled, proof>>
power == <<totalResetCount, clearCount, resumable, boot, host>>
vars == <<store, power, g_DRTMHandle, phase, cmd>>

-----------------------------------------------------------------------------
(***************************************************************************)
(* Handles, objects and commands                                           *)
(***************************************************************************)

NoHandle == -1
Slots == 0..(MaxLoadedObjects - 1)
OwnerRange == MaxLoadedObjects..(MaxLoadedObjects + PersistentHandles - 1)
PlatformRange == (MaxLoadedObjects + PersistentHandles)
                     ..(MaxLoadedObjects + 2 * PersistentHandles - 1)
Persistent == OwnerRange \cup PlatformRange

Names == ParentKeys \cup MlDsaKeys \cup HmacKeys
ProofHolders == {"OWNER", "ENDORSEMENT", "PLATFORM", "NULL"}

\* "unread" is a slot taken for a persistent object that was not found.
ClassicSequences == {"hash", "hmac", "event"}
PqcSequences == {"sign", "verify"}
SequenceKinds == ClassicSequences \cup PqcSequences
Kinds == {"none", "unread", "key"} \cup SequenceKinds

\* The part of OBJECT and HASH_OBJECT that the control flow looks at.  "born"
\* (the proof its hierarchy had) and "keyName" (the key a sequence was started
\* with) are history; the code keeps keyHandle alone.
Objects == [kind : Kinds, name : Names \cup {NoName}, hierarchy : ProofHolders,
            born : Nat, stClear : BOOLEAN, temporary : BOOLEAN,
            publicOnly : BOOLEAN, evict : BOOLEAN,
            evictHandle : Persistent \cup {NoHandle},
            keyHandle : Slots \cup {NoHandle}, keyName : Names \cup {NoName},
            used : 0..MaxBuffer]

\* A slot that is not occupied, or one that was just zeroed.
Blank == [kind |-> "none", name |-> NoName, hierarchy |-> "NULL", born |-> 0,
          stClear |-> FALSE, temporary |-> FALSE, publicOnly |-> FALSE,
          evict |-> FALSE, evictHandle |-> NoHandle,
          keyHandle |-> NoHandle, keyName |-> NoName, used |-> 0]

Occupied(o) == o.kind # "none"
ObjectIsSequence(o) == o.kind \in SequenceKinds
IsKey(o, names) == o.kind = "key" /\ o.name \in names

HandleCount(code) ==
    CASE code \in {"SignSequenceComplete", "VerifySequenceComplete"} -> 2
      [] code \in {"Load", "ContextSave", "EvictControl", "HMAC_Start",
                   "SequenceUpdate", "SequenceComplete", "EventSequenceComplete",
                   "SignSequenceStart", "VerifySequenceStart"} -> 1
      [] OTHER -> 0

\* The object handles of a command that need an authorization.
Authorized(code) ==
    CASE code = "SignSequenceComplete" -> {1, 2}
      [] code \in {"Load", "HMAC_Start", "SequenceUpdate", "SequenceComplete",
                   "EventSequenceComplete", "VerifySequenceComplete"} -> {1}
      [] OTHER -> {}

PqcCompletes == {"SignSequenceComplete", "VerifySequenceComplete"}
Commands == {"Load", "CreatePrimary", "LoadExternal", "ContextSave",
             "ContextLoad", "FlushContext", "EvictControl", "HMAC_Start",
             "HashSequenceStart", "SequenceUpdate", "SequenceComplete",
             "EventSequenceComplete", "SignSequenceStart",
             "VerifySequenceStart", "HierarchyControl", "Clear", "ChangePPS",
             "ChangeEPS"} \cup PqcCompletes

\* A host: the commands it issues, the keys it has, the hierarchies it creates
\* them in, and a bound on the startups that are not a resume.
Host == [issues : SUBSET Commands, keys : SUBSET Names,
         hierarchies : SUBSET ProofHolders, boots : Nat]

ASSUME HostAssumption == Hosts \subseteq Host

\* ContextSave takes transient handles alone; the others take both sorts.
HandleChoices(code) == IF code = "ContextSave" THEN Slots ELSE Slots \cup Persistent

NoCommand == [code |-> "none", handles |-> << >>, session |-> "password",
              next |-> 1, before |-> [s \in Slots |-> Blank], ok |-> TRUE]

\* What the host holds of a saved object: the object, the values that entered
\* the integrity HMAC, and (history) the boot it was saved in.
SavedContexts == [object : Objects, proof : Nat, reset : Nat,
                  clear : Nat, boot : Nat]

-----------------------------------------------------------------------------
(***************************************************************************)
(* Operations on the slots (Object.c), as functions of the slots           *)
(***************************************************************************)

IsObjectPresent(h) == h \in Slots /\ Occupied(s_objects[h])

EmptySlots(objects) == {s \in Slots : ~Occupied(objects[s])}

FindEmptyObjectSlot(objects) ==
    CHOOSE s \in EmptySlots(objects) : \A t \in EmptySlots(objects) : s <= t

FlushObject(objects, s) == [objects EXCEPT ![s] = Blank]

\* Mutant: the slots are left as they are.
NothingToClean(objects) == objects

ObjectCleanupEvict(objects) ==
    [s \in Slots |-> IF objects[s].evict THEN Blank ELSE objects[s]]

ObjectFlushHierarchy(objects, hierarchies) ==
    [s \in Slots |-> IF objects[s].hierarchy \in hierarchies THEN Blank ELSE objects[s]]

NvFlushHierarchy(hierarchies) ==
    [p \in Persistent |-> IF nv[p].hierarchy \in hierarchies THEN Blank ELSE nv[p]]

\* A key below a parent: hierarchy, temporary and stClear come from the parent.
ObjectSetLoadedAttributes(name, stClear, parent) ==
    [Blank EXCEPT !.kind = "key", !.name = name,
                  !.hierarchy = parent.hierarchy, !.born = parent.born,
                  !.temporary = parent.temporary,
                  !.stClear = stClear \/ parent.stClear]

\* A key whose parent is a hierarchy.  The NULL hierarchy makes it temporary.
PrimaryAttributes(name, stClear, hierarchy) ==
    [Blank EXCEPT !.kind = "key", !.name = name,
                  !.hierarchy = hierarchy, !.born = proof[hierarchy],
                  !.temporary = (hierarchy = "NULL"), !.stClear = stClear]

\* Hash, HMAC and event sequences are temporary, "so that it can't be persisted".
AllocateSequenceSlot(kind) == [Blank EXCEPT !.kind = kind, !.temporary = TRUE]

\* The ML-DSA sequences do not go through AllocateSequenceSlot.
PqcSequenceAllocate(kind) == [Blank EXCEPT !.kind = kind]

-----------------------------------------------------------------------------
(***************************************************************************)
(* The path of a command through ExecuteCommand                            *)
(***************************************************************************)

Fails == /\ phase' = "cleanup"
         /\ cmd' = [cmd EXCEPT !.ok = FALSE]

\* Every command first ends a DRTM sequence that was left open.
ObjectTerminateEvent(objects) ==
    IF g_DRTMHandle # NoHandle /\ objects[g_DRTMHandle].kind = "event"
    THEN FlushObject(objects, g_DRTMHandle)
    ELSE objects

IssueCommand ==
    /\ phase = "idle"
    /\ \E code \in host.issues, session \in {"password", "hmac"} :
         \E handles \in [1..HandleCount(code) -> HandleChoices(code)] :
            /\ Authorized(code) = {} => session = "password"
            /\ s_objects' = ObjectTerminateEvent(s_objects)
            /\ cmd' = [code |-> code, handles |-> handles, session |-> session,
                       next |-> 1, before |-> ObjectTerminateEvent(s_objects),
                       ok |-> TRUE]
    /\ g_DRTMHandle' = NoHandle
    /\ phase' = "handles"
    /\ UNCHANGED <<nv, contexts, enabled, proof, power>>

\* Mutant: a slot taken for an object that was not found is not marked.
EvictOnlyIfFound(p) ==
    IF Occupied(nv[p]) THEN nv[p] ELSE [Blank EXCEPT !.kind = "unread"]

\* The slot of a persistent object that was not found is marked as well, so
\* that it is freed on exit.
NvGetEvictObject(p) ==
    IF Occupied(nv[p]) THEN nv[p] ELSE [Blank EXCEPT !.kind = "unread", !.evict = TRUE]

RangeIsEnabled(p) ==
    IF p \in PlatformRange THEN enabled["PLATFORM"] ELSE enabled["OWNER"]

\* Mutant: ehEnable does not hide anything.
EndorsementOpenToAll(o) == TRUE

\* An endorsement key is hidden while ehEnable is CLEAR, but for EvictControl.
EndorsementIsVisible(o) ==
    o.hierarchy = "ENDORSEMENT" => enabled["ENDORSEMENT"] \/ cmd.code = "EvictControl"

ObjectLoadEvict(p) ==
    \/ /\ ~RangeIsEnabled(p) \/ EmptySlots(s_objects) = {}
       /\ Fails
       /\ UNCHANGED s_objects
    \/ /\ RangeIsEnabled(p)
       /\ EmptySlots(s_objects) # {}
       /\ LET slot == FindEmptyObjectSlot(s_objects)
              copy == NvGetEvictObject(p)
          IN  /\ s_objects' = [s_objects EXCEPT ![slot] = copy]
              /\ IF Occupied(nv[p]) /\ EndorsementIsVisible(copy)
                 THEN /\ cmd' = [cmd EXCEPT !.handles[cmd.next] = slot,
                                            !.next = @ + 1]
                      /\ UNCHANGED phase
                 ELSE Fails

EntityGetLoadStatus ==
    /\ phase = "handles"
    /\ cmd.next <= Len(cmd.handles)
    /\ LET h == cmd.handles[cmd.next]
       IN  \/ h \in Persistent /\ ObjectLoadEvict(h)
           \/ /\ h \in Slots
              /\ IF IsObjectPresent(h)
                 THEN cmd' = [cmd EXCEPT !.next = @ + 1] /\ UNCHANGED phase
                 ELSE Fails
              /\ UNCHANGED s_objects
    /\ UNCHANGED <<nv, contexts, enabled, proof, power, g_DRTMHandle>>

\* The authValue of an authorized object is at hand unless only its public
\* part is loaded.
CheckAuthSession ==
    /\ phase = "handles"
    /\ cmd.next > Len(cmd.handles)
    /\ \A i \in Authorized(cmd.code) : ~s_objects[cmd.handles[i]].publicOnly
    /\ phase' = "dispatch"
    /\ UNCHANGED <<store, power, g_DRTMHandle, cmd>>

\* Any command may be refused without an effect: a wrong authorization, a
\* parameter that does not unmarshal, an input check of its handler.
CommandRefused ==
    /\ \/ phase = "handles" /\ cmd.next > Len(cmd.handles)
       \/ phase = "dispatch"
    /\ Fails
    /\ UNCHANGED <<store, power, g_DRTMHandle>>

\* The response HMAC of a session that is not bound to the object reads the
\* authValue of the object again (ComputeResponseHMAC, EntityGetAuthValue).
ReadsAuthValue == {cmd.handles[i] : i \in {j \in Authorized(cmd.code) :
                                             cmd.session = "hmac"}}

\* HandleToObject asserts that the slot is occupied; a failed assertion ends
\* in failure mode, past the clean-up.
BuildResponseSession ==
    /\ phase = "response"
    /\ phase' = IF \A h \in ReadsAuthValue : IsObjectPresent(h)
                THEN "cleanup" ELSE "failed"
    /\ UNCHANGED <<store, power, g_DRTMHandle, cmd>>

Cleanup ==
    /\ phase = "cleanup"
    /\ s_objects' = ObjectCleanupEvict(s_objects)
    /\ phase' = "idle"
    /\ cmd' = NoCommand
    /\ UNCHANGED <<nv, contexts, enabled, proof, power, g_DRTMHandle>>

\* In failure mode commands are answered and change nothing.
TpmFailureMode ==
    /\ phase = "failed"
    /\ UNCHANGED vars

-----------------------------------------------------------------------------
(***************************************************************************)
(* The handlers.  Each action is the successful path of one; the refusals  *)
(* that change nothing are CommandRefused.                                 *)
(***************************************************************************)

Dispatch(code) == phase = "dispatch" /\ cmd.code = code

Responds == /\ phase' = "response"
            /\ UNCHANGED <<cmd, power, g_DRTMHandle>>

\* The handler's new object goes into the first empty slot.
Creates(object) ==
    /\ EmptySlots(s_objects) # {}
    /\ s_objects' = [s_objects EXCEPT ![FindEmptyObjectSlot(s_objects)] = object]
    /\ Responds

TPM2_Load ==
    /\ Dispatch("Load")
    /\ LET parent == s_objects[cmd.handles[1]]
       IN  /\ IsKey(parent, ParentKeys)
           /\ \E name \in host.keys, stClear \in StClearValues :
                 Creates(ObjectSetLoadedAttributes(name, stClear, parent))
    /\ UNCHANGED <<nv, contexts, enabled, proof>>

TPM2_CreatePrimary ==
    /\ Dispatch("CreatePrimary")
    /\ \E hierarchy \in host.hierarchies, name \in host.keys, stClear \in StClearValues :
          /\ enabled[hierarchy]
          /\ Creates(PrimaryAttributes(name, stClear, hierarchy))
    /\ UNCHANGED <<nv, contexts, enabled, proof>>

HierarchyIsEnabled(hierarchy) == enabled[hierarchy]

\* With a private part only in the NULL hierarchy, else public only.
TPM2_LoadExternal ==
    /\ Dispatch("LoadExternal")
    /\ \E hierarchy \in host.hierarchies, name \in host.keys, publicOnly \in BOOLEAN :
          /\ HierarchyIsEnabled(hierarchy)
          /\ publicOnly \/ hierarchy = "NULL"
          /\ Creates([PrimaryAttributes(name, FALSE, hierarchy)
                         EXCEPT !.publicOnly = publicOnly])
    /\ UNCHANGED <<nv, contexts, enabled, proof>>

\* The object stays loaded; the host gets a copy it may load any number of times.
TPM2_ContextSave ==
    /\ Dispatch("ContextSave")
    /\ LET o == s_objects[cmd.handles[1]]
           context == [object |-> o, proof |-> proof[o.hierarchy],
                       reset |-> totalResetCount,
                       clear |-> IF o.stClear THEN clearCount ELSE 0, boot |-> boot]
       IN  contexts' = contexts \cup {context}
    /\ Cardinality(contexts') <= MaxContexts
    /\ Responds
    /\ UNCHANGED <<s_objects, nv, enabled, proof>>

\* Mutant: the context is not tied to the proof of its hierarchy.
ProofIsIgnored(c) ==
    /\ c.reset = totalResetCount
    /\ c.object.stClear => c.clear = clearCount

\* The HMAC over the context is keyed with the proof of its hierarchy and takes
\* in totalResetCount and, for an stClear object, clearCount.
ContextIntegrityHolds(c) ==
    /\ c.proof = proof[c.object.hierarchy]
    /\ c.reset = totalResetCount
    /\ c.object.stClear => c.clear = clearCount

TPM2_ContextLoad ==
    /\ Dispatch("ContextLoad")
    /\ \E c \in contexts :
          /\ ContextIntegrityHolds(c)
          /\ HierarchyIsEnabled(c.object.hierarchy)
          /\ Creates(c.object)
    /\ UNCHANGED <<nv, contexts, enabled, proof>>

TPM2_FlushContext ==
    /\ Dispatch("FlushContext")
    /\ \E h \in Slots : /\ IsObjectPresent(h)
                        /\ s_objects' = FlushObject(s_objects, h)
    /\ Responds
    /\ UNCHANGED <<nv, contexts, enabled, proof>>

\* Mutant: the owner may persist an object of the platform hierarchy.
OwnerPersistsAnything(o, auth, p) ==
    IF auth = "PLATFORM"
    THEN ~o.evict => o.hierarchy = "PLATFORM" /\ p \in PlatformRange
    ELSE ~o.evict => p \in OwnerRange

\* Who may make which object persistent where, and who may delete it.
EvictIsAllowed(o, auth, p) ==
    IF auth = "PLATFORM"
    THEN ~o.evict => o.hierarchy = "PLATFORM" /\ p \in PlatformRange
    ELSE /\ o.hierarchy # "PLATFORM"
         /\ ~o.evict => p \in OwnerRange

\* NvObjectToBuffer has a case for every type of key, and none for TPM_ALG_NULL,
\* the type of a sequence.
NvObjectToBufferHandles(o) == o.kind = "key"

\* The object in slot h is marked as evict, with its handle, and the copy that is
\* stored is made of that. The default case of NvObjectToBuffer ends in failure
\* mode before anything is written, and before the marks are taken back.
NvAddEvictObject(p, h) ==
    LET o == [s_objects[h] EXCEPT !.evict = TRUE, !.evictHandle = p]
    IN  \/ /\ NvObjectToBufferHandles(o)
           /\ nv' = [nv EXCEPT ![p] = o]
           /\ phase' = "response"
           /\ UNCHANGED s_objects
        \/ /\ ~NvObjectToBufferHandles(o)
           /\ s_objects' = [s_objects EXCEPT ![h] = o]
           /\ phase' = "failed"
           /\ UNCHANGED nv

NvDeleteEvict(p) ==
    /\ nv' = [nv EXCEPT ![p] = Blank]
    /\ phase' = "response"
    /\ UNCHANGED s_objects

TPM2_EvictControl ==
    /\ Dispatch("EvictControl")
    /\ LET h == cmd.handles[1]
           o == s_objects[h]
       IN  /\ ~o.temporary /\ ~o.stClear /\ ~o.publicOnly
           /\ \E auth \in {"PLATFORM", "OWNER"}, p \in Persistent :
                 /\ enabled[auth]
                 /\ o.evict => o.evictHandle = p
                 /\ EvictIsAllowed(o, auth, p)
                 /\ \/ ~o.evict /\ ~Occupied(nv[p]) /\ NvAddEvictObject(p, h)
                    \/ o.evict /\ NvDeleteEvict(p)
    /\ UNCHANGED <<cmd, power, g_DRTMHandle, contexts, enabled, proof>>

-----------------------------------------------------------------------------
(***************************************************************************)
(* Sequences                                                               *)
(***************************************************************************)

TPM2_HashSequenceStart ==
    /\ Dispatch("HashSequenceStart")
    /\ \E kind \in {"hash", "event"} : Creates(AllocateSequenceSlot(kind))
    /\ UNCHANGED <<nv, contexts, enabled, proof>>

TPM2_HMAC_Start ==
    /\ Dispatch("HMAC_Start")
    /\ IsKey(s_objects[cmd.handles[1]], HmacKeys)
    /\ Creates(AllocateSequenceSlot("hmac"))
    /\ UNCHANGED <<nv, contexts, enabled, proof>>

\* Mutant: off by one.
RoomOverrun(o) == o.used <= MaxBuffer

\* PqcSequenceUpdate: the block fits into MAX_PQC_SEQ_BUFFER.
HasRoom(o) == o.used < MaxBuffer

\* A verify sequence buffers the block if there is room; a sign sequence takes
\* none (TPM_RC_ONE_SHOT_SIGNATURE).  What the other sequences digest, and an
\* empty block, do not show in the state.
TPM2_SequenceUpdate ==
    /\ Dispatch("SequenceUpdate")
    /\ LET h == cmd.handles[1]
           o == s_objects[h]
       IN  \/ /\ o.kind = "verify"
              /\ HasRoom(o)
              /\ s_objects' = [s_objects EXCEPT ![h].used = @ + 1]
           \/ /\ ObjectIsSequence(o)
              /\ o.kind # "sign"
              /\ UNCHANGED s_objects
    /\ Responds
    /\ UNCHANGED <<nv, contexts, enabled, proof>>

\* Mutant: the sequence is flushed at once.
CompletedIsFlushed(h) == FlushObject(s_objects, h)

\* A completed sequence is marked as evict, to be flushed on the way out.
CompletedIsEvict(h) == [s_objects EXCEPT ![h].evict = TRUE]

TPM2_SequenceComplete ==
    /\ Dispatch("SequenceComplete")
    /\ s_objects[cmd.handles[1]].kind \in {"hash", "hmac"}
    /\ s_objects' = CompletedIsEvict(cmd.handles[1])
    /\ Responds
    /\ UNCHANGED <<nv, contexts, enabled, proof>>

TPM2_EventSequenceComplete ==
    /\ Dispatch("EventSequenceComplete")
    /\ s_objects[cmd.handles[1]].kind = "event"
    /\ s_objects' = CompletedIsEvict(cmd.handles[1])
    /\ Responds
    /\ UNCHANGED <<nv, contexts, enabled, proof>>

\* The sequence remembers the handle of its key.  The handle of a persistent
\* key is by now that of its working copy.
PqcSequenceStart(code, kind) ==
    /\ Dispatch(code)
    /\ LET key == cmd.handles[1]
       IN  /\ IsKey(s_objects[key], MlDsaKeys)
           /\ Creates([PqcSequenceAllocate(kind)
                          EXCEPT !.keyHandle = key, !.keyName = s_objects[key].name])
    /\ UNCHANGED <<nv, contexts, enabled, proof>>

TPM2_SignSequenceStart == PqcSequenceStart("SignSequenceStart", "sign")
TPM2_VerifySequenceStart == PqcSequenceStart("VerifySequenceStart", "verify")

\* Past the check of its kind the sequence is flushed, whatever the outcome: a
\* key handle other than the one recorded, an error of the crypto library or of
\* the signature check, or success.
PqcSequenceComplete(code, kind) ==
    /\ Dispatch(code)
    /\ LET seq == s_objects[cmd.handles[1]]
           key == s_objects[cmd.handles[2]]
       IN  /\ seq.kind = kind
           /\ s_objects' = FlushObject(s_objects, cmd.handles[1])
           /\ \/ Fails /\ UNCHANGED <<power, g_DRTMHandle>>
              \/ /\ cmd.handles[2] = seq.keyHandle
                 /\ kind = "sign" => seq.used = 0
                 /\ IsKey(key, MlDsaKeys)
                 /\ Responds
    /\ UNCHANGED <<nv, contexts, enabled, proof>>

TPM2_SignSequenceComplete == PqcSequenceComplete("SignSequenceComplete", "sign")
TPM2_VerifySequenceComplete == PqcSequenceComplete("VerifySequenceComplete", "verify")

-----------------------------------------------------------------------------
(***************************************************************************)
(* Hierarchies                                                             *)
(***************************************************************************)

\* Disabling a hierarchy flushes its transient objects.  Its own authorization
\* disables one, only the platform's enables it again.
TPM2_HierarchyControl ==
    /\ Dispatch("HierarchyControl")
    /\ \E h \in ProofHolders \ {"NULL"}, state \in BOOLEAN :
          /\ \E auth \in {"PLATFORM", h} : enabled[auth] /\ (state => auth = "PLATFORM")
          /\ enabled[h] # state
          /\ enabled' = [enabled EXCEPT ![h] = state]
          /\ s_objects' = IF state THEN s_objects
                          ELSE ObjectFlushHierarchy(s_objects, {h})
    /\ Responds
    /\ UNCHANGED <<nv, contexts, proof>>

\* New proofs for the hierarchies hs, and nothing left of their objects.
RenewHierarchies(hs) ==
    /\ \A h \in hs : proof[h] < MaxProof
    /\ proof' = [h \in ProofHolders |-> IF h \in hs THEN proof[h] + 1 ELSE proof[h]]
    /\ s_objects' = ObjectFlushHierarchy(s_objects, hs)
    /\ nv' = NvFlushHierarchy(hs)
    /\ phase' = "response"
    /\ UNCHANGED <<cmd, g_DRTMHandle, contexts, totalResetCount, resumable, boot,
                   host>>

TPM2_Clear ==
    /\ Dispatch("Clear")
    /\ RenewHierarchies({"OWNER", "ENDORSEMENT"})
    /\ enabled' = [enabled EXCEPT !["OWNER"] = TRUE, !["ENDORSEMENT"] = TRUE]
    /\ clearCount' = 0

TPM2_ChangeEPS ==
    /\ Dispatch("ChangeEPS")
    /\ enabled["PLATFORM"]
    /\ RenewHierarchies({"ENDORSEMENT"})
    /\ enabled' = [enabled EXCEPT !["ENDORSEMENT"] = TRUE]
    /\ UNCHANGED clearCount

TPM2_ChangePPS ==
    /\ Dispatch("ChangePPS")
    /\ enabled["PLATFORM"]
    /\ RenewHierarchies({"PLATFORM"})
    /\ UNCHANGED <<enabled, clearCount>>

-----------------------------------------------------------------------------
(***************************************************************************)
(* Indications and power                                                   *)
(***************************************************************************)

\* _TPM_Hash_Start frees the previous DRTM sequence, then takes the first empty
\* slot, or flushes the object in the first slot to make one.
TPM_Hash_Start ==
    /\ phase \in {"off", "idle"}
    /\ LET freed == IF g_DRTMHandle = NoHandle THEN s_objects
                    ELSE FlushObject(s_objects, g_DRTMHandle)
           slot == IF EmptySlots(freed) = {} THEN 0 ELSE FindEmptyObjectSlot(freed)
       IN  /\ s_objects' = [freed EXCEPT ![slot] = AllocateSequenceSlot("event")]
           /\ g_DRTMHandle' = slot
    /\ UNCHANGED <<nv, contexts, enabled, proof, power, phase, cmd>>

\* Mutant: g_DRTMHandle is not reset.
TPM_Hash_EndKeepsHandle ==
    /\ phase \in {"off", "idle"}
    /\ g_DRTMHandle # NoHandle
    /\ s_objects' = FlushObject(s_objects, g_DRTMHandle)
    /\ UNCHANGED <<nv, contexts, enabled, proof, power, phase, cmd, g_DRTMHandle>>

\* _TPM_Hash_End extends the PCR and frees the sequence.
TPM_Hash_End ==
    /\ phase \in {"off", "idle"}
    /\ g_DRTMHandle # NoHandle
    /\ s_objects' = FlushObject(s_objects, g_DRTMHandle)
    /\ g_DRTMHandle' = NoHandle
    /\ UNCHANGED <<nv, contexts, enabled, proof, power, phase, cmd>>

\* _TPM_Init leaves the slots to Startup.  Whether an orderly Shutdown(STATE)
\* came right before is the host's choice; it cannot in failure mode.
TPM_Init ==
    /\ phase \in {"idle", "failed"}
    /\ boot < host.boots
    /\ resumable' \in {FALSE} \cup {phase = "idle"}
    /\ phase' = "off"
    /\ cmd' = NoCommand
    /\ g_DRTMHandle' = NoHandle
    /\ UNCHANGED <<store, totalResetCount, clearCount, boot, host>>

Startup ==
    /\ phase = "off"
    /\ s_objects' = [s \in Slots |-> Blank]
    /\ g_DRTMHandle' = NoHandle
    /\ phase' = "idle"
    /\ resumable' = FALSE
    /\ UNCHANGED <<nv, contexts, cmd, host>>

AllEnabled == [h \in ProofHolders |-> TRUE]

StartupResume ==
    /\ resumable
    /\ Startup
    /\ enabled' = [enabled EXCEPT !["PLATFORM"] = TRUE]
    /\ UNCHANGED <<proof, totalResetCount, clearCount, boot>>

StartupRestart ==
    /\ resumable
    /\ Startup
    /\ enabled' = AllEnabled
    /\ clearCount' = clearCount + 1
    /\ boot' = boot + 1
    /\ UNCHANGED <<proof, totalResetCount>>

StartupReset ==
    /\ ~resumable
    /\ Startup
    /\ enabled' = AllEnabled
    /\ proof' = [proof EXCEPT !["NULL"] = @ + 1]
    /\ totalResetCount' = totalResetCount + 1
    /\ clearCount' = 0
    /\ boot' = boot + 1

-----------------------------------------------------------------------------

Init ==
    /\ s_objects = [s \in Slots |-> Blank]
    /\ nv = [p \in Persistent |-> Blank]
    /\ contexts = {}
    /\ enabled = AllEnabled
    /\ proof = [h \in ProofHolders |-> 0]
    /\ totalResetCount = 0
    /\ clearCount = 0
    /\ g_DRTMHandle = NoHandle
    /\ phase = "idle"
    /\ cmd = NoCommand
    /\ resumable = FALSE
    /\ boot = 0
    /\ host \in Hosts

KeyCommand == TPM2_Load \/ TPM2_CreatePrimary \/ TPM2_LoadExternal
ContextCommand == TPM2_ContextSave \/ TPM2_ContextLoad \/ TPM2_FlushContext
                     \/ TPM2_EvictControl
SequenceCommand ==
    \/ TPM2_HashSequenceStart \/ TPM2_HMAC_Start \/ TPM2_SequenceUpdate
    \/ TPM2_SequenceComplete \/ TPM2_EventSequenceComplete
    \/ TPM2_SignSequenceStart \/ TPM2_VerifySequenceStart
    \/ TPM2_SignSequenceComplete \/ TPM2_VerifySequenceComplete
HierarchyCommand == TPM2_HierarchyControl \/ TPM2_Clear \/ TPM2_ChangeEPS
                       \/ TPM2_ChangePPS

Next ==
    \/ IssueCommand \/ EntityGetLoadStatus \/ CheckAuthSession \/ CommandRefused
    \/ KeyCommand \/ ContextCommand \/ SequenceCommand \/ HierarchyCommand
    \/ BuildResponseSession \/ Cleanup \/ TpmFailureMode
    \/ TPM_Hash_Start \/ TPM_Hash_End
    \/ TPM_Init \/ StartupResume \/ StartupRestart \/ StartupReset

Spec == Init /\ [][Next]_vars

-----------------------------------------------------------------------------
(***************************************************************************)
(* Properties                                                              *)
(***************************************************************************)

\* The type invariant: slots and NV hold OBJECT structures, and a command that
\* runs has a slot for every handle it has resolved.
TypeOK ==
    /\ s_objects \in [Slots -> Objects]
    /\ nv \in [Persistent -> Objects]
    /\ contexts \subseteq SavedContexts
    /\ enabled \in [ProofHolders -> BOOLEAN]
    /\ proof \in [ProofHolders -> Nat]
    /\ totalResetCount \in Nat /\ clearCount \in Nat /\ boot \in Nat
    /\ resumable \in BOOLEAN
    /\ g_DRTMHandle \in Slots \cup {NoHandle}
    /\ phase \in {"off", "idle", "handles", "dispatch", "response", "cleanup", "failed"}
    /\ cmd.handles \in Seq(Slots \cup Persistent)
    /\ \A i \in 1..Len(cmd.handles) : i < cmd.next => cmd.handles[i] \in Slots

\* ObjectCleanupEvict: between commands no slot holds the working copy of a
\* persistent object, a slot taken for one that was not found, or a completed
\* sequence, whichever way the last command ended.
NoEvictBetweenCommands ==
    phase = "idle" => \A s \in Slots : /\ ~s_objects[s].evict
                                       /\ s_objects[s].kind # "unread"

HierarchyCodes == {"HierarchyControl", "Clear", "ChangePPS", "ChangeEPS"}

\* A command is all or nothing for the slots: one that fails leaves them as it
\* found them (ML-DSA completions excepted, which flush their sequence), and one
\* that succeeds changes at most one slot, unless it flushes a hierarchy.
CommandFrame ==
    [][phase = "cleanup" =>
         LET changed == {s \in Slots : s_objects'[s] # cmd.before[s]}
         IN  /\ ~cmd.ok /\ cmd.code \notin PqcCompletes => changed = {}
             /\ cmd.code \notin HierarchyCodes => Cardinality(changed) <= 1]_vars

\* ObjectFlushHierarchy and the checks of every way to load an object: between
\* commands no transient object belongs to a disabled hierarchy.
DisabledHierarchyUnloaded ==
    phase = "idle" =>
        \A s \in Slots : Occupied(s_objects[s]) => enabled[s_objects[s].hierarchy]

\* TPM2_Clear, ChangePPS and ChangeEPS: no object loaded or persistent was made
\* under a proof that its hierarchy no longer has, not even through a context.
NoObjectOutlivesItsProof ==
    phase # "off" =>
        LET current(o) == Occupied(o) /\ o.hierarchy # "NULL" => o.born = proof[o.hierarchy]
        IN  /\ \A s \in Slots : current(s_objects[s])
            /\ \A p \in Persistent : current(nv[p])

\* TPM2_EvictControl: a persistent object knows its own handle, so it can be
\* deleted again, it is a key and never a sequence, and the platform range holds
\* exactly the objects of the platform hierarchy, so that phEnable and shEnable
\* hide the right ones.
PersistentRange ==
    \A p \in Persistent :
        Occupied(nv[p]) => /\ nv[p].kind = "key"
                           /\ nv[p].evict /\ nv[p].evictHandle = p
                           /\ ~nv[p].temporary /\ ~nv[p].publicOnly
                           /\ p \in PlatformRange <=> nv[p].hierarchy = "PLATFORM"

\* g_DRTMHandle: an open DRTM sequence is an event sequence in its slot, and no
\* command ever runs beside it.
DRTMSequenceIntact ==
    g_DRTMHandle # NoHandle => /\ phase \in {"off", "idle"}
                               /\ s_objects[g_DRTMHandle].kind = "event"

\* HandleToObject: "requires that 'handle' references a loaded object"; the
\* objects whose authValue enters the response HMAC are still loaded when the
\* response is built.
ResponseFindsObjects ==
    phase = "response" => \A h \in ReadsAuthValue : IsObjectPresent(h)

\* HandleToObject, for every command but the ML-DSA completions: a hash, HMAC or
\* event sequence is completed without pulling the object from under the
\* response, because it is flushed "on the way out".
OtherResponsesFindObjects ==
    cmd.code \notin PqcCompletes => ResponseFindsObjects

\* TPM2_SignSequenceComplete: a sequence is completed with the key it was
\* started with ("not the same as the key that was used to start the signature
\* context").
SameKeyCompletes ==
    [][phase = "dispatch" /\ phase' = "response" /\ cmd.code \in PqcCompletes =>
         s_objects[cmd.handles[2]].name = s_objects[cmd.handles[1]].keyName]_vars

\* NvObjectToBuffer: an object of a type it has no case for "must never happen";
\* TPM2_EvictControl refuses such an object before it gets there, and does not
\* put the TPM into failure mode.
EvictControlNeverFails == phase = "failed" => cmd.code # "EvictControl"

\* ComputeContextIntegrity: the context of an stClear object "cannot be loaded
\* after a TPM Restart".
StClearContextEndsAtRestart ==
    \A c \in contexts :
        phase # "off" /\ c.object.stClear /\ ContextIntegrityHolds(c) => c.boot = boot

=============================================================================
