---------------------------- MODULE ObjectProofs ----------------------------
(***************************************************************************)
(* Proofs about ObjectStore, for any number of slots, persistent handles,  *)
(* keys, contexts, hosts and proof values.                                 *)
(***************************************************************************)
EXTENDS ObjectStore, FiniteSetTheorems, SequenceTheorems,
        WellFoundedInduction, TLAPS

-----------------------------------------------------------------------------
(***************************************************************************)
(* The inductive invariant                                                 *)
(***************************************************************************)

\* An object of a hierarchy with a proof was made under the current proof.
Current(o, proofs) ==
    Occupied(o) /\ o.hierarchy # "NULL" => o.born = proofs[o.hierarchy]

\* What is true of every slot at every step: an empty one is zeroed, one taken
\* for an object that was not found is marked for the clean-up, and an object
\* the clean-up leaves alone belongs to an enabled hierarchy.
Sound(o, proofs, enables) ==
    /\ o \in Objects
    /\ ~Occupied(o) => o = Blank
    /\ o.kind = "unread" => o.evict
    /\ Current(o, proofs)
    /\ Occupied(o) /\ ~o.evict => enables[o.hierarchy]

SlotsSound ==
    /\ s_objects \in [Slots -> Objects]
    /\ \A s \in Slots : Sound(s_objects[s], proof, enabled)

\* A persistent object, with the handle it is kept under.
Stored(o, p, proofs) ==
    Occupied(o) => /\ o.kind = "key"
                   /\ o.evict /\ o.evictHandle = p
                   /\ ~o.temporary /\ ~o.publicOnly
                   /\ p \in PlatformRange <=> o.hierarchy = "PLATFORM"
                   /\ Current(o, proofs)

StoreSound ==
    /\ nv \in [Persistent -> Objects]
    /\ \A p \in Persistent : Stored(nv[p], p, proof)

\* A saved context names the proof its object was made under, so the integrity
\* check of TPM2_ContextLoad rejects it once the proof has changed.
SavedSound(c) ==
    /\ c \in SavedContexts
    /\ Occupied(c.object)
    /\ c.object.kind = "unread" => c.object.evict
    /\ c.object.hierarchy # "NULL" => c.object.born = c.proof

ContextsSound == \A c \in contexts : SavedSound(c)

PowerTypes ==
    /\ enabled \in [ProofHolders -> BOOLEAN]
    /\ enabled["NULL"]
    /\ proof \in [ProofHolders -> Nat]
    /\ totalResetCount \in Nat /\ clearCount \in Nat /\ boot \in Nat
    /\ resumable \in BOOLEAN
    /\ host \in Host

CommandRecords ==
    [code : Commands \cup {"none"}, handles : Seq(Slots \cup Persistent),
     session : {"password", "hmac"}, next : Nat \ {0}, before : [Slots -> Objects],
     ok : BOOLEAN]

\* The command that runs: its handles, those it has resolved, and what they
\* refer to.
CommandTypes ==
    /\ phase \in {"off", "idle", "handles", "dispatch", "response", "cleanup", "failed"}
    /\ cmd \in CommandRecords
    /\ phase \notin {"off", "idle"} => Len(cmd.handles) = HandleCount(cmd.code)
    /\ \A i \in 1..Len(cmd.handles) : i < cmd.next => cmd.handles[i] \in Slots
    /\ phase \in {"dispatch", "response"} => cmd.next > Len(cmd.handles)
    /\ phase \in {"handles", "dispatch", "response"} => cmd.ok

\* A resolved handle refers to an object, and every object a command may refer
\* to belongs to an enabled hierarchy; EvictControl alone sees the endorsement
\* keys that ehEnable hides.
Usable(o, enables, code) ==
    Occupied(o) /\ code # "EvictControl" => enables[o.hierarchy]

ResolvedHandles ==
    phase \in {"handles", "dispatch"} =>
        /\ \A i \in 1..Len(cmd.handles) :
              i < cmd.next => Occupied(s_objects[cmd.handles[i]])
        /\ \A s \in Slots : Usable(s_objects[s], enabled, cmd.code)

AuthorizedHandles ==
    phase = "response" /\ cmd.code \notin PqcCompletes =>
        \A i \in Authorized(cmd.code) : Occupied(s_objects[cmd.handles[i]])

DrtmSound ==
    /\ g_DRTMHandle \in Slots \cup {NoHandle}
    /\ DRTMSequenceIntact

\* What the clean-up makes of a slot.
Cleaned(o) == IF o.evict THEN Blank ELSE o

\* The slots, once cleaned up, are those the command found, but for one slot of
\* a handler that ran.
Frame ==
    /\ phase \in {"handles", "dispatch"} =>
         \A s \in Slots : Cleaned(s_objects[s]) = cmd.before[s]
    /\ phase = "cleanup" /\ ~cmd.ok /\ cmd.code \notin PqcCompletes =>
         \A s \in Slots : Cleaned(s_objects[s]) = cmd.before[s]
    /\ phase \in {"response", "cleanup"} /\ cmd.code \notin HierarchyCodes =>
         \E t \in Slots : \A s \in Slots \ {t} :
            Cleaned(s_objects[s]) = cmd.before[s]

Inv ==
    /\ SlotsSound /\ StoreSound /\ ContextsSound
    /\ PowerTypes /\ CommandTypes
    /\ ResolvedHandles /\ AuthorizedHandles
    /\ DrtmSound /\ NoEvictBetweenCommands /\ Frame

-----------------------------------------------------------------------------
(***************************************************************************)
(* Objects                                                                 *)
(***************************************************************************)

\* FindEmptyObjectSlot returns an empty slot when there is one.
LEMMA EmptySlotFound ==
    ASSUME NEW objects, EmptySlots(objects) # {}
    PROVE  /\ FindEmptyObjectSlot(objects) \in Slots
           /\ ~Occupied(objects[FindEmptyObjectSlot(objects)])
<1> DEFINE E == EmptySlots(objects)
<1>1. E \subseteq Nat
    BY ObjectAssumption DEF EmptySlots, Slots
<1> DEFINE R == OpToRel(<, Nat)
<1>2. PICK s \in E : \A t \in E : ~(<<t, s>> \in R)
    BY <1>1, NatLessThanWellFounded, WFMin, Zenon
<1>3. \E m \in E : \A t \in E : m <= t
  <2>1. \A m, t \in Nat : t < m => <<t, m>> \in R
      BY DEF OpToRel
  <2> HIDE DEF R, E
  <2>2. ASSUME NEW t \in E  PROVE s <= t
    <3>1. s \in Nat /\ t \in Nat
        BY <1>1, <1>2
    <3>2. ~(t < s)
        BY <1>2, <2>1, <3>1, Zenon
    <3> QED  BY <3>1, <3>2
  <2> QED  BY <1>2, <2>2
<1>4. FindEmptyObjectSlot(objects) \in E
    BY <1>3 DEF FindEmptyObjectSlot
<1> QED  BY <1>4 DEF EmptySlots

\* Every object handle that needs an authorization is a handle of the command.
LEMMA AuthorizedInRange ==
    ASSUME NEW code
    PROVE  /\ Authorized(code) \subseteq 1..HandleCount(code)
           /\ HandleCount(code) \in {0, 1, 2}
BY DEF Authorized, HandleCount

\* The zeroed slot is an OBJECT, and sound.
LEMMA BlankSound ==
    ASSUME NEW proofs, NEW enables
    PROVE  /\ Blank \in Objects
           /\ Sound(Blank, proofs, enables)
           /\ ~Occupied(Blank) /\ Cleaned(Blank) = Blank
<1>1. Blank \in Objects
    BY ObjectAssumption DEF Blank, Objects, Kinds, ProofHolders
<1> QED  BY <1>1 DEF Blank, Sound, Occupied, Current, Cleaned

\* ObjectSetLoadedAttributes: a child of a usable parent.
LEMMA LoadedSound ==
    ASSUME NEW proofs, NEW enables, NEW parent, Sound(parent, proofs, enables),
           Occupied(parent), enables[parent.hierarchy],
           NEW name \in Names, NEW stClear \in BOOLEAN
    PROVE  LET o == ObjectSetLoadedAttributes(name, stClear, parent)
           IN  Sound(o, proofs, enables) /\ Occupied(o)
<1> DEFINE o == ObjectSetLoadedAttributes(name, stClear, parent)
<1> SUFFICES Sound(o, proofs, enables) /\ Occupied(o)
    OBVIOUS
<1>1. parent \in Objects
    BY DEF Sound
<1>2. /\ o.kind = "key" /\ o.name = name /\ o.hierarchy = parent.hierarchy
      /\ o.born = parent.born /\ o.temporary = parent.temporary /\ ~o.evict
    BY DEF ObjectSetLoadedAttributes, Blank
<1>3. o \in Objects
  <2>1. "key" \in Kinds /\ (stClear \/ parent.stClear) \in BOOLEAN
      BY DEF Kinds
  <2>2. /\ parent.hierarchy \in ProofHolders /\ parent.born \in Nat
        /\ parent.temporary \in BOOLEAN
      BY <1>1 DEF Objects
  <2>3. name \in Names \cup {NoName}
      OBVIOUS
  <2> QED  BY <2>1, <2>2, <2>3, BlankSound, ZenonT(60) DEF Objects, ObjectSetLoadedAttributes
<1> HIDE DEF o
<1> QED  BY <1>2, <1>3 DEF Sound, Occupied, Current

\* PrimaryAttributes, with or without a private part.
LEMMA PrimarySound ==
    ASSUME proof \in [ProofHolders -> Nat],
           NEW hierarchy \in ProofHolders, enabled[hierarchy],
           NEW name \in Names, NEW stClear \in BOOLEAN, NEW publicOnly \in BOOLEAN
    PROVE  LET o == PrimaryAttributes(name, stClear, hierarchy)
               e == [o EXCEPT !.publicOnly = publicOnly]
           IN  /\ Sound(o, proof, enabled) /\ Occupied(o)
               /\ Sound(e, proof, enabled) /\ Occupied(e)
<1> DEFINE o == PrimaryAttributes(name, stClear, hierarchy)
<1> DEFINE e == [o EXCEPT !.publicOnly = publicOnly]
<1> SUFFICES /\ Sound(o, proof, enabled) /\ Occupied(o)
             /\ Sound(e, proof, enabled) /\ Occupied(e)
    OBVIOUS
<1>1. /\ o.kind = "key" /\ o.hierarchy = hierarchy /\ o.born = proof[hierarchy]
      /\ ~o.evict
    BY DEF PrimaryAttributes, Blank
<1>2. o \in Objects
  <2>1. "key" \in Kinds /\ (hierarchy = "NULL") \in BOOLEAN /\ proof[hierarchy] \in Nat
      BY DEF Kinds
  <2>2. name \in Names \cup {NoName}
      OBVIOUS
  <2> QED  BY <2>1, <2>2, BlankSound, ZenonT(60) DEF Objects, PrimaryAttributes
<1> HIDE DEF o
<1>3. e \in Objects
    BY <1>2, Zenon DEF Objects
<1>4. /\ e.kind = o.kind /\ e.hierarchy = o.hierarchy /\ e.born = o.born
      /\ e.evict = o.evict
    BY <1>2 DEF Objects
<1> HIDE DEF e
<1> QED  BY <1>1, <1>2, <1>3, <1>4 DEF Sound, Occupied, Current

\* AllocateSequenceSlot: the hash, HMAC and event sequences.
LEMMA SequenceSound ==
    ASSUME NEW proofs, NEW enables, enables["NULL"], NEW kind \in ClassicSequences
    PROVE  LET o == AllocateSequenceSlot(kind)
           IN  Sound(o, proofs, enables) /\ Occupied(o) /\ ~o.evict /\ o.kind = kind
<1> DEFINE o == AllocateSequenceSlot(kind)
<1> SUFFICES Sound(o, proofs, enables) /\ Occupied(o) /\ ~o.evict /\ o.kind = kind
    OBVIOUS
<1>1. o.kind = kind /\ o.hierarchy = "NULL" /\ ~o.evict
    BY DEF AllocateSequenceSlot, Blank
<1>2. kind \in Kinds
    BY DEF Kinds, SequenceKinds
<1>3. o \in Objects
    BY <1>2, BlankSound, Zenon DEF Objects, AllocateSequenceSlot
<1> HIDE DEF o
<1> QED  BY <1>1, <1>3 DEF Sound, Occupied, Current, ClassicSequences

\* PqcSequenceAllocate: the sign and verify sequences, with their key.
LEMMA PqcSound ==
    ASSUME NEW proofs, NEW enables, enables["NULL"], NEW kind \in PqcSequences,
           NEW key \in Slots, NEW name \in Names
    PROVE  LET o == [PqcSequenceAllocate(kind)
                        EXCEPT !.keyHandle = key, !.keyName = name]
           IN  Sound(o, proofs, enables) /\ Occupied(o)
<1> DEFINE a == PqcSequenceAllocate(kind)
<1> DEFINE o == [a EXCEPT !.keyHandle = key, !.keyName = name]
<1> SUFFICES Sound(o, proofs, enables) /\ Occupied(o)
    OBVIOUS
<1>1. a.kind = kind /\ a.hierarchy = "NULL" /\ ~a.evict
    BY DEF PqcSequenceAllocate, Blank
<1>2. kind \in Kinds
    BY DEF Kinds, SequenceKinds
<1>3. a \in Objects
    BY <1>2, BlankSound, Zenon DEF Objects, PqcSequenceAllocate
<1> HIDE DEF a
<1>4. key \in Slots \cup {NoHandle} /\ name \in Names \cup {NoName}
    OBVIOUS
<1>5. o \in Objects
    BY <1>3, <1>4, Zenon DEF Objects
<1>6. o.kind = kind /\ o.hierarchy = "NULL" /\ ~o.evict
    BY <1>1, <1>3 DEF Objects
<1> HIDE DEF o
<1> QED  BY <1>5, <1>6 DEF Sound, Occupied, Current, PqcSequences

\* A block more in a verify sequence, and the evict mark of a completed one.
LEMMA UpdatedSound ==
    ASSUME NEW proofs, NEW enables, NEW o, Sound(o, proofs, enables), Occupied(o)
    PROVE  /\ LET u == [o EXCEPT !.used = @ + 1]
              IN  HasRoom(o) => Sound(u, proofs, enables) /\ Occupied(u)
           /\ LET e == [o EXCEPT !.evict = TRUE]
              IN  Sound(e, proofs, enables) /\ Occupied(e)
<1> DEFINE u == [o EXCEPT !.used = @ + 1]
<1> DEFINE e == [o EXCEPT !.evict = TRUE]
<1> SUFFICES /\ HasRoom(o) => Sound(u, proofs, enables) /\ Occupied(u)
             /\ Sound(e, proofs, enables) /\ Occupied(e)
    OBVIOUS
<1>1. o \in Objects
    BY DEF Sound
<1>2. /\ u.kind = o.kind /\ u.hierarchy = o.hierarchy /\ u.born = o.born
      /\ u.evict = o.evict
    BY <1>1 DEF Objects
<1>3. /\ e.kind = o.kind /\ e.hierarchy = o.hierarchy /\ e.born = o.born
      /\ e.evict
    BY <1>1 DEF Objects
<1>4. ASSUME HasRoom(o)  PROVE u \in Objects
  <2>1. o.used + 1 \in 0..MaxBuffer
      BY <1>1, <1>4, ObjectAssumption DEF Objects, HasRoom
  <2> QED  BY <1>1, <2>1, Zenon DEF Objects
<1>5. e \in Objects
    BY <1>1, Zenon DEF Objects
<1> HIDE DEF u, e
<1> QED  BY <1>2, <1>3, <1>4, <1>5, ZenonT(60) DEF Sound, Occupied, Current

\* NvGetEvictObject: the working copy of a persistent object, or a slot marked
\* for the clean-up.
LEMMA EvictCopySound ==
    ASSUME StoreSound, NEW p \in Persistent
    PROVE  LET o == NvGetEvictObject(p)
           IN  /\ Sound(o, proof, enabled) /\ Occupied(o) /\ o.evict
               /\ Cleaned(o) = Blank
<1> DEFINE o == NvGetEvictObject(p)
<1> DEFINE unread == [Blank EXCEPT !.kind = "unread", !.evict = TRUE]
<1> SUFFICES /\ Sound(o, proof, enabled) /\ Occupied(o) /\ o.evict
             /\ Cleaned(o) = Blank
    OBVIOUS
<1>1. nv[p] \in Objects /\ Stored(nv[p], p, proof)
    BY DEF StoreSound
<1>2. CASE Occupied(nv[p])
  <2>1. o = nv[p]
      BY <1>2 DEF NvGetEvictObject
  <2> HIDE DEF o
  <2> QED  BY <1>1, <1>2, <2>1 DEF Stored, Sound, Cleaned
<1>3. CASE ~Occupied(nv[p])
  <2>1. o = unread
      BY <1>3 DEF NvGetEvictObject
  <2>2. unread.kind = "unread" /\ unread.hierarchy = "NULL" /\ unread.evict
      BY DEF Blank
  <2>3. "unread" \in Kinds
      BY DEF Kinds
  <2>4. unread \in Objects
      BY <2>3, BlankSound, ZenonT(60) DEF Objects
  <2> HIDE DEF o, unread
  <2> QED  BY <2>1, <2>2, <2>4 DEF Sound, Cleaned, Occupied, Current
<1> QED  BY <1>2, <1>3

-----------------------------------------------------------------------------
(***************************************************************************)
(* Steps: the handlers                                                     *)
(***************************************************************************)

\* When a handler runs, its handles are slots with usable objects.
LEMMA HandlesAtDispatch ==
    ASSUME CommandTypes, ResolvedHandles, phase = "dispatch"
    PROVE  /\ Len(cmd.handles) = HandleCount(cmd.code)
           /\ \A i \in 1..HandleCount(cmd.code) :
                 /\ cmd.handles[i] \in Slots
                 /\ Occupied(s_objects[cmd.handles[i]])
                 /\ Usable(s_objects[cmd.handles[i]], enabled, cmd.code)
<1>1. cmd.next > Len(cmd.handles) /\ Len(cmd.handles) = HandleCount(cmd.code)
    BY DEF CommandTypes
<1>2. cmd.next \in Nat /\ HandleCount(cmd.code) \in Nat
    BY AuthorizedInRange DEF CommandTypes, CommandRecords
<1>3. \A i \in 1..HandleCount(cmd.code) : i < cmd.next
    BY <1>1, <1>2
<1> QED  BY <1>1, <1>3 DEF CommandTypes, ResolvedHandles

\* A handler that changes one slot, and leaves an object in it if the response
\* needs one.
LEMMA HandlerKeeps ==
    ASSUME Inv, phase = "dispatch", Responds, UNCHANGED <<enabled, proof>>,
           StoreSound', ContextsSound',
           NEW t \in Slots, NEW o, Sound(o, proof, enabled),
           s_objects' = [s_objects EXCEPT ![t] = o],
           Occupied(o) \/ Authorized(cmd.code) = {} \/ cmd.code \in PqcCompletes
    PROVE  Inv'
<1>1. SlotsSound'
  <2>1. s_objects' \in [Slots -> Objects]
      BY DEF Inv, SlotsSound, Sound
  <2>2. \A s \in Slots : Sound(s_objects'[s], proof, enabled)
      BY DEF Inv, SlotsSound
  <2> QED  BY <2>1, <2>2, ZenonT(60) DEF SlotsSound
<1>2. PowerTypes'
    BY ZenonT(60) DEF Inv, PowerTypes, Responds, power
<1>3. CommandTypes'
    BY DEF Inv, CommandTypes, Responds
<1>4. ResolvedHandles'
    BY DEF ResolvedHandles, Responds
<1>5. AuthorizedHandles'
  <2> SUFFICES ASSUME cmd.code \notin PqcCompletes, NEW i \in Authorized(cmd.code)
               PROVE  Occupied(s_objects'[cmd.handles[i]])
      BY DEF AuthorizedHandles, Responds
  <2>1. i \in 1..HandleCount(cmd.code)
      BY AuthorizedInRange, ZenonT(60)
  <2>2. cmd.handles[i] \in Slots /\ Occupied(s_objects[cmd.handles[i]])
      BY <2>1, HandlesAtDispatch, ZenonT(60) DEF Inv, Usable
  <2>3. Occupied(o)
      OBVIOUS
  <2> QED  BY <2>2, <2>3, ZenonT(60) DEF Inv, SlotsSound
<1>6. DrtmSound'
    BY DEF Inv, DrtmSound, DRTMSequenceIntact, Responds
<1>7. NoEvictBetweenCommands'
    BY ZenonT(60) DEF NoEvictBetweenCommands, Responds
<1>8. Frame'
  <2>1. cmd.ok /\ cmd' = cmd /\ phase' = "response"
      BY ZenonT(60) DEF Inv, CommandTypes, Responds
  <2>2. \A s \in Slots \ {t} : Cleaned(s_objects'[s]) = cmd.before[s]
      BY DEF Inv, Frame, SlotsSound
  <2> QED  BY <2>1, <2>2, ZenonT(60) DEF Frame
<1> QED  BY <1>1, <1>2, <1>3, <1>4, <1>5, <1>6, <1>7, <1>8, ZenonT(60) DEF Inv

\* The persistent objects and the contexts, left alone.
LEMMA KeptSound ==
    ASSUME Inv, proof' = proof
    PROVE  /\ nv' = nv => StoreSound'
           /\ contexts' = contexts => ContextsSound'
BY DEF Inv, StoreSound, ContextsSound

\* A handler that creates an object.
LEMMA CreatesKeeps ==
    ASSUME Inv, phase = "dispatch", UNCHANGED <<nv, contexts, enabled, proof>>,
           NEW o, Sound(o, proof, enabled), Occupied(o), Creates(o)
    PROVE  Inv'
<1>1. FindEmptyObjectSlot(s_objects) \in Slots
    BY EmptySlotFound DEF Creates
<1>2. /\ Responds
      /\ s_objects' = [s_objects EXCEPT ![FindEmptyObjectSlot(s_objects)] = o]
    BY DEF Creates
<1>3. StoreSound' /\ ContextsSound'
    BY KeptSound
<1> QED  BY <1>1, <1>2, <1>3, HandlerKeeps, ZenonT(60)

\* TPM2_Load, TPM2_CreatePrimary and TPM2_LoadExternal.  The hierarchy of a
\* parent is enabled even if the parent is a working copy.
LEMMA KeyCommandKeeps ==
    ASSUME Inv, KeyCommand
    PROVE  Inv'
<1>1. CASE TPM2_Load
  <2> DEFINE parent == s_objects[cmd.handles[1]]
  <2>1. /\ phase = "dispatch" /\ cmd.code = "Load"
        /\ UNCHANGED <<nv, contexts, enabled, proof>>
      BY <1>1, ZenonT(60) DEF TPM2_Load, Dispatch
  <2>2. PICK name \in host.keys, stClear \in StClearValues :
           Creates(ObjectSetLoadedAttributes(name, stClear, parent))
      BY <1>1 DEF TPM2_Load
  <2>3. name \in Names /\ stClear \in BOOLEAN
      BY ObjectAssumption DEF Inv, PowerTypes, Host
  <2>4. HandleCount("Load") = 1
      BY ZenonT(60) DEF HandleCount
  <2>5. cmd.handles[1] \in Slots /\ Occupied(parent) /\ enabled[parent.hierarchy]
      BY <2>1, <2>4, HandlesAtDispatch, SMTT(60), Z3T(60) DEF Inv, Usable
  <2>6. Sound(parent, proof, enabled)
      BY <2>5, ZenonT(60) DEF Inv, SlotsSound
  <2> DEFINE o == ObjectSetLoadedAttributes(name, stClear, parent)
  <2>7. Sound(o, proof, enabled) /\ Occupied(o)
      BY <2>3, <2>5, <2>6, LoadedSound, ZenonT(60)
  <2> HIDE DEF o
  <2> QED  BY <2>1, <2>2, <2>7, CreatesKeeps, ZenonT(60) DEF o
<1>2. CASE TPM2_CreatePrimary
  <2>1. phase = "dispatch" /\ UNCHANGED <<nv, contexts, enabled, proof>>
      BY <1>2 DEF TPM2_CreatePrimary, Dispatch
  <2>2. PICK hierarchy \in host.hierarchies, name \in host.keys,
             stClear \in StClearValues :
                /\ enabled[hierarchy]
                /\ Creates(PrimaryAttributes(name, stClear, hierarchy))
      BY <1>2 DEF TPM2_CreatePrimary
  <2>3. hierarchy \in ProofHolders /\ name \in Names /\ stClear \in BOOLEAN
      BY ObjectAssumption DEF Inv, PowerTypes, Host
  <2> DEFINE o == PrimaryAttributes(name, stClear, hierarchy)
  <2>4. Sound(o, proof, enabled) /\ Occupied(o)
      BY <2>2, <2>3, PrimarySound, Zenon DEF Inv, PowerTypes
  <2> HIDE DEF o
  <2> QED  BY <2>1, <2>2, <2>4, CreatesKeeps, ZenonT(60) DEF o
<1>3. CASE TPM2_LoadExternal
  <2>1. phase = "dispatch" /\ UNCHANGED <<nv, contexts, enabled, proof>>
      BY <1>3 DEF TPM2_LoadExternal, Dispatch
  <2>2. PICK hierarchy \in host.hierarchies, name \in host.keys,
             publicOnly \in BOOLEAN :
                /\ enabled[hierarchy]
                /\ Creates([PrimaryAttributes(name, FALSE, hierarchy)
                               EXCEPT !.publicOnly = publicOnly])
      BY <1>3, Zenon DEF TPM2_LoadExternal, HierarchyIsEnabled
  <2>3. hierarchy \in ProofHolders /\ name \in Names /\ FALSE \in BOOLEAN
      BY DEF Inv, PowerTypes, Host
  <2> DEFINE o == [PrimaryAttributes(name, FALSE, hierarchy)
                      EXCEPT !.publicOnly = publicOnly]
  <2>4. Sound(o, proof, enabled) /\ Occupied(o)
      BY <2>2, <2>3, PrimarySound, ZenonT(60) DEF Inv, PowerTypes
  <2> HIDE DEF o
  <2> QED  BY <2>1, <2>2, <2>4, CreatesKeeps, ZenonT(60) DEF o
<1> QED  BY <1>1, <1>2, <1>3, ZenonT(60) DEF KeyCommand

\* TPM2_ContextSave keeps the proof beside the object.
LEMMA ContextSaveKeeps ==
    ASSUME Inv, TPM2_ContextSave
    PROVE  Inv'
<1> DEFINE h == cmd.handles[1]
<1> DEFINE o == s_objects[h]
<1> DEFINE context == [object |-> o, proof |-> proof[o.hierarchy],
                       reset |-> totalResetCount,
                       clear |-> IF o.stClear THEN clearCount ELSE 0, boot |-> boot]
<1>1. /\ phase = "dispatch" /\ cmd.code = "ContextSave" /\ Responds
      /\ UNCHANGED <<s_objects, nv, enabled, proof>>
      /\ contexts' = contexts \cup {context}
    BY DEF TPM2_ContextSave, Dispatch
<1>2. HandleCount("ContextSave") = 1 /\ Authorized("ContextSave") = {}
    BY ZenonT(60) DEF HandleCount, Authorized
<1>3. h \in Slots /\ Occupied(o)
    BY <1>1, <1>2, HandlesAtDispatch, SMTT(60), Z3T(60) DEF Inv, Usable
<1>4. Sound(o, proof, enabled)
    BY <1>3, ZenonT(60) DEF Inv, SlotsSound
<1>5. SavedSound(context)
  <2>1. o \in Objects /\ o.hierarchy \in ProofHolders
      BY <1>4 DEF Sound, Objects
  <2> HIDE DEF o
  <2>2. context \in SavedContexts
      BY <2>1 DEF Inv, PowerTypes, SavedContexts
  <2>3. context.object = o /\ context.proof = proof[o.hierarchy]
      BY ZenonT(60)
  <2> HIDE DEF context
  <2> QED  BY <1>3, <1>4, <2>2, <2>3, ZenonT(60) DEF SavedSound, Sound, Current, o
<1>6. ContextsSound'
    BY <1>1, <1>5, ZenonT(60) DEF Inv, ContextsSound
<1>7. StoreSound'
    BY <1>1, KeptSound, ZenonT(60)
<1>8. s_objects' = [s_objects EXCEPT ![h] = o]
    BY <1>1, <1>3, ZenonT(60) DEF Inv, SlotsSound
<1> HIDE DEF h, o
<1> QED  BY <1>1, <1>2, <1>3, <1>4, <1>6, <1>7, <1>8, HandlerKeeps, ZenonT(60)

\* TPM2_ContextLoad: the integrity check and the hierarchy check.
LEMMA ContextLoadKeeps ==
    ASSUME Inv, TPM2_ContextLoad
    PROVE  Inv'
<1>1. phase = "dispatch" /\ UNCHANGED <<nv, contexts, enabled, proof>>
    BY DEF TPM2_ContextLoad, Dispatch
<1>2. PICK c \in contexts : /\ c.proof = proof[c.object.hierarchy]
                            /\ enabled[c.object.hierarchy]
                            /\ Creates(c.object)
    BY DEF TPM2_ContextLoad, ContextIntegrityHolds, HierarchyIsEnabled
<1>3. SavedSound(c)
    BY DEF Inv, ContextsSound
<1>4. c.object \in Objects
    BY <1>3, ZenonT(60) DEF SavedSound, SavedContexts
<1>5. Sound(c.object, proof, enabled) /\ Occupied(c.object)
    BY <1>2, <1>3, <1>4 DEF SavedSound, Sound, Current
<1> QED  BY <1>1, <1>2, <1>5, CreatesKeeps, ZenonT(60)

\* TPM2_FlushContext empties one slot.
LEMMA FlushContextKeeps ==
    ASSUME Inv, TPM2_FlushContext
    PROVE  Inv'
<1>1. /\ phase = "dispatch" /\ cmd.code = "FlushContext" /\ Responds
      /\ UNCHANGED <<nv, contexts, enabled, proof>>
    BY DEF TPM2_FlushContext, Dispatch
<1>2. PICK h \in Slots : s_objects' = [s_objects EXCEPT ![h] = Blank]
    BY Zenon DEF TPM2_FlushContext, FlushObject
<1>3. Authorized(cmd.code) = {}
    BY <1>1, ZenonT(60) DEF Authorized
<1>4. StoreSound' /\ ContextsSound' /\ Sound(Blank, proof, enabled)
    BY <1>1, KeptSound, BlankSound, ZenonT(60)
<1> QED  BY <1>1, <1>2, <1>3, <1>4, HandlerKeeps, ZenonT(60)

\* NvAddEvictObject with a key: the object is stored where it belongs.
LEMMA StoresKey ==
    ASSUME Inv, proof' = proof,
           NEW o, Sound(o, proof, enabled), Occupied(o), ~o.evict,
           ~o.temporary, ~o.publicOnly,
           NEW auth, NEW p \in Persistent, EvictIsAllowed(o, auth, p)
    PROVE  LET e == [o EXCEPT !.evict = TRUE, !.evictHandle = p]
           IN  /\ e.evict /\ Sound(e, proof, enabled)
               /\ e.kind = "key" /\ nv' = [nv EXCEPT ![p] = e] => StoreSound'
<1> DEFINE e == [o EXCEPT !.evict = TRUE, !.evictHandle = p]
<1> SUFFICES /\ e.evict /\ Sound(e, proof, enabled)
             /\ e.kind = "key" /\ nv' = [nv EXCEPT ![p] = e] => StoreSound'
    OBVIOUS
<1>1. o \in Objects
    BY DEF Sound
<1>2. p \in Persistent \cup {NoHandle}
    OBVIOUS
<1>3. e \in Objects
    BY <1>1, <1>2, Zenon DEF Objects
<1>4. /\ e.kind = o.kind /\ e.hierarchy = o.hierarchy /\ e.born = o.born
      /\ e.temporary = o.temporary /\ e.publicOnly = o.publicOnly
      /\ e.evict /\ e.evictHandle = p
    BY <1>1 DEF Objects
<1>5. p \in PlatformRange <=> o.hierarchy = "PLATFORM"
  <2>1. OwnerRange \cap PlatformRange = {}
      BY ObjectAssumption DEF OwnerRange, PlatformRange
  <2> QED  BY <2>1, ZenonT(60) DEF EvictIsAllowed
<1> HIDE DEF e
<1>6. Sound(e, proof, enabled)
    BY <1>3, <1>4, ZenonT(60) DEF Sound, Current, Occupied
<1>7. ASSUME e.kind = "key", nv' = [nv EXCEPT ![p] = e]  PROVE StoreSound'
  <2>1. Stored(e, p, proof)
      BY <1>4, <1>5, <1>7, ZenonT(60) DEF Stored, Sound, Current, Occupied
  <2> QED  BY <1>3, <1>7, <2>1, ZenonT(60) DEF Inv, StoreSound
<1> QED  BY <1>4, <1>6, <1>7, ZenonT(60)

\* NvObjectToBuffer fails: the marked object stays in its slot, and nothing is
\* left of the command.
LEMMA StoreFails ==
    ASSUME Inv, phase = "dispatch", phase' = "failed",
           NEW h \in Slots, NEW e, Sound(e, proof, enabled),
           s_objects' = [s_objects EXCEPT ![h] = e],
           UNCHANGED <<nv, cmd, power, g_DRTMHandle, contexts, enabled, proof>>
    PROVE  Inv'
<1>1. SlotsSound'
    BY ZenonT(60) DEF Inv, SlotsSound, Sound
<1>2. StoreSound' /\ ContextsSound'
    BY KeptSound, ZenonT(60)
<1>3. PowerTypes'
    BY ZenonT(60) DEF Inv, PowerTypes, power
<1>4. CommandTypes'
    BY DEF Inv, CommandTypes
<1>5. ResolvedHandles' /\ AuthorizedHandles' /\ Frame' /\ NoEvictBetweenCommands'
    BY ZenonT(60) DEF ResolvedHandles, AuthorizedHandles, Frame, NoEvictBetweenCommands
<1>6. DrtmSound'
    BY DEF Inv, DrtmSound, DRTMSequenceIntact
<1> QED  BY <1>1, <1>2, <1>3, <1>4, <1>5, <1>6, ZenonT(60) DEF Inv

\* TPM2_EvictControl: a key goes to the range of its hierarchy or is deleted, and
\* a sequence ends in failure mode.
LEMMA EvictControlKeeps ==
    ASSUME Inv, TPM2_EvictControl
    PROVE  Inv'
<1> DEFINE h == cmd.handles[1]
<1> DEFINE o == s_objects[h]
<1>1. /\ phase = "dispatch" /\ cmd.code = "EvictControl"
      /\ UNCHANGED <<cmd, power, g_DRTMHandle, contexts, enabled, proof>>
      /\ ~o.temporary /\ ~o.publicOnly
    BY DEF TPM2_EvictControl, Dispatch
<1>2. HandleCount("EvictControl") = 1 /\ Authorized("EvictControl") = {}
    BY ZenonT(60) DEF HandleCount, Authorized
<1>3. h \in Slots /\ Occupied(o)
    BY <1>1, <1>2, HandlesAtDispatch, SMTT(60), Z3T(60) DEF Inv, Usable
<1>4. Sound(o, proof, enabled)
    BY <1>3, ZenonT(60) DEF Inv, SlotsSound
<1>5. PICK auth \in {"PLATFORM", "OWNER"}, p \in Persistent :
          /\ EvictIsAllowed(o, auth, p)
          /\ \/ ~o.evict /\ NvAddEvictObject(p, h)
             \/ o.evict /\ NvDeleteEvict(p)
    BY ZenonT(60) DEF TPM2_EvictControl
<1>6. ContextsSound'
    BY <1>1, KeptSound, ZenonT(60)
<1>7. ASSUME phase' = "response", UNCHANGED s_objects, StoreSound'  PROVE Inv'
  <2>1. s_objects' = [s_objects EXCEPT ![h] = o]
      BY <1>3, <1>7 DEF Inv, SlotsSound
  <2>2. Responds
      BY <1>1, <1>7, ZenonT(60) DEF Responds
  <2> HIDE DEF h, o
  <2> QED  BY <1>1, <1>2, <1>3, <1>4, <1>6, <1>7, <2>1, <2>2, HandlerKeeps, ZenonT(60)
<1>8. CASE ~o.evict /\ NvAddEvictObject(p, h)
  <2> DEFINE e == [o EXCEPT !.evict = TRUE, !.evictHandle = p]
  <2>1. /\ e.evict /\ Sound(e, proof, enabled)
        /\ e.kind = "key" /\ nv' = [nv EXCEPT ![p] = e] => StoreSound'
      BY <1>1, <1>3, <1>4, <1>5, <1>8, StoresKey, ZenonT(60)
  <2>2. \/ e.kind = "key" /\ nv' = [nv EXCEPT ![p] = e] /\ phase' = "response"
                          /\ UNCHANGED s_objects
        \/ s_objects' = [s_objects EXCEPT ![h] = e] /\ phase' = "failed" /\ UNCHANGED nv
      BY <1>8, ZenonT(60) DEF NvAddEvictObject, NvObjectToBufferHandles
  <2> HIDE DEF e, h, o
  <2> QED  BY <1>1, <1>3, <1>7, <2>1, <2>2, StoreFails, ZenonT(60)
<1>9. CASE o.evict /\ NvDeleteEvict(p)
  <2>1. nv' = [nv EXCEPT ![p] = Blank] /\ phase' = "response" /\ UNCHANGED s_objects
      BY <1>9, ZenonT(60) DEF NvDeleteEvict
  <2>2. Blank \in Objects /\ Stored(Blank, p, proof)
      BY BlankSound DEF Stored
  <2>3. StoreSound'
      BY <1>1, <2>1, <2>2, ZenonT(60) DEF Inv, StoreSound
  <2> HIDE DEF h, o
  <2> QED  BY <1>7, <2>1, <2>3, ZenonT(60)
<1> QED  BY <1>5, <1>8, <1>9, ZenonT(60)

\* TPM2_ContextSave, TPM2_ContextLoad, TPM2_FlushContext and TPM2_EvictControl.
LEMMA ContextCommandKeeps ==
    ASSUME Inv, ContextCommand
    PROVE  Inv'
BY ContextSaveKeeps, ContextLoadKeeps, FlushContextKeeps, EvictControlKeeps, ZenonT(60)
   DEF ContextCommand

\* The handlers that start a sequence.
LEMMA SequenceStartKeeps ==
    ASSUME Inv, \/ TPM2_HashSequenceStart \/ TPM2_HMAC_Start
                \/ TPM2_SignSequenceStart \/ TPM2_VerifySequenceStart
    PROVE  Inv'
<1>0. enabled["NULL"]
    BY DEF Inv, PowerTypes
<1>1. CASE TPM2_HashSequenceStart \/ TPM2_HMAC_Start
  <2>1. phase = "dispatch" /\ UNCHANGED <<nv, contexts, enabled, proof>>
      BY <1>1 DEF TPM2_HashSequenceStart, TPM2_HMAC_Start, Dispatch
  <2>2. PICK kind \in ClassicSequences : Creates(AllocateSequenceSlot(kind))
      BY <1>1, Zenon DEF TPM2_HashSequenceStart, TPM2_HMAC_Start, ClassicSequences
  <2> DEFINE o == AllocateSequenceSlot(kind)
  <2>3. Sound(o, proof, enabled) /\ Occupied(o)
      BY <1>0, SequenceSound
  <2> HIDE DEF o
  <2> QED  BY <2>1, <2>2, <2>3, CreatesKeeps, ZenonT(60) DEF o
<1>2. ASSUME NEW code \in {"SignSequenceStart", "VerifySequenceStart"},
             NEW kind \in PqcSequences, PqcSequenceStart(code, kind)
      PROVE  Inv'
  <2> DEFINE key == cmd.handles[1]
  <2> DEFINE o == [PqcSequenceAllocate(kind)
                      EXCEPT !.keyHandle = key, !.keyName = s_objects[key].name]
  <2>1. /\ phase = "dispatch" /\ cmd.code = code
        /\ UNCHANGED <<nv, contexts, enabled, proof>>
        /\ s_objects[key].name \in MlDsaKeys
        /\ Creates(o)
      BY <1>2 DEF PqcSequenceStart, Dispatch, IsKey
  <2>2. HandleCount(code) = 1
      BY DEF HandleCount
  <2>3. key \in Slots
      BY <2>1, <2>2, HandlesAtDispatch, SMTT(60), Z3T(60) DEF Inv
  <2>4. s_objects[key].name \in Names
      BY <2>1 DEF Names
  <2> HIDE DEF key
  <2>5. Sound(o, proof, enabled) /\ Occupied(o)
      BY <1>0, <2>3, <2>4, PqcSound, ZenonT(60)
  <2> HIDE DEF o
  <2> QED  BY <2>1, <2>5, CreatesKeeps, ZenonT(60)
<1>3. CASE TPM2_SignSequenceStart \/ TPM2_VerifySequenceStart
    BY <1>2, <1>3 DEF TPM2_SignSequenceStart, TPM2_VerifySequenceStart, PqcSequences
<1> QED  BY <1>1, <1>3, ZenonT(60)

\* A block added to a sequence, and the end of a hash, HMAC or event sequence.
LEMMA SequenceChangeKeeps ==
    ASSUME Inv, \/ TPM2_SequenceUpdate \/ TPM2_SequenceComplete
                \/ TPM2_EventSequenceComplete
    PROVE  Inv'
<1> DEFINE h == cmd.handles[1]
<1> DEFINE o == s_objects[h]
<1>1. /\ phase = "dispatch" /\ Responds /\ UNCHANGED <<nv, contexts, enabled, proof>>
      /\ cmd.code \in {"SequenceUpdate", "SequenceComplete", "EventSequenceComplete"}
    BY DEF TPM2_SequenceUpdate, TPM2_SequenceComplete, TPM2_EventSequenceComplete,
           Dispatch
<1>2. HandleCount(cmd.code) = 1
    BY <1>1, ZenonT(60) DEF HandleCount
<1>3. h \in Slots /\ Occupied(o)
    BY <1>1, <1>2, HandlesAtDispatch, SMTT(60), Z3T(60) DEF Inv, Usable
<1>4. Sound(o, proof, enabled)
    BY <1>3 DEF Inv, SlotsSound
<1>5. StoreSound' /\ ContextsSound'
    BY <1>1, KeptSound, ZenonT(60)
<1>6. PICK e : /\ s_objects' = [s_objects EXCEPT ![h] = e]
               /\ Sound(e, proof, enabled) /\ Occupied(e)
  <2>1. CASE s_objects' = s_objects
    <3>1. s_objects' = [s_objects EXCEPT ![h] = o]
        BY <1>3, <2>1 DEF Inv, SlotsSound
    <3> QED  BY <1>3, <1>4, <3>1, ZenonT(60)
  <2>2. CASE HasRoom(o) /\ s_objects' = [s_objects EXCEPT ![h].used = @ + 1]
    <3> DEFINE u == [o EXCEPT !.used = @ + 1]
    <3>1. s_objects' = [s_objects EXCEPT ![h] = u]
        BY <2>2
    <3>2. Sound(u, proof, enabled) /\ Occupied(u)
        BY <1>3, <1>4, <2>2, UpdatedSound, ZenonT(60)
    <3> QED  BY <3>1, <3>2, ZenonT(60)
  <2>3. CASE s_objects' = CompletedIsEvict(h)
    <3> DEFINE u == [o EXCEPT !.evict = TRUE]
    <3>1. s_objects' = [s_objects EXCEPT ![h] = u]
        BY <2>3 DEF CompletedIsEvict
    <3>2. Sound(u, proof, enabled) /\ Occupied(u)
        BY <1>3, <1>4, UpdatedSound, ZenonT(60)
    <3> QED  BY <3>1, <3>2, ZenonT(60)
  <2> QED  BY <2>1, <2>2, <2>3
           DEF TPM2_SequenceUpdate, TPM2_SequenceComplete, TPM2_EventSequenceComplete
<1> HIDE DEF h, o
<1> QED  BY <1>1, <1>3, <1>5, <1>6, HandlerKeeps, ZenonT(60)

\* The end of an ML-DSA sequence flushes it, in success and in failure.
LEMMA PqcCompleteKeeps ==
    ASSUME Inv, TPM2_SignSequenceComplete \/ TPM2_VerifySequenceComplete
    PROVE  Inv'
<1> DEFINE h == cmd.handles[1]
<1>1. /\ phase = "dispatch" /\ UNCHANGED <<nv, contexts, enabled, proof>>
      /\ cmd.code \in PqcCompletes
      /\ s_objects' = [s_objects EXCEPT ![h] = Blank]
      /\ Responds \/ (Fails /\ UNCHANGED <<power, g_DRTMHandle>>)
    BY DEF TPM2_SignSequenceComplete, TPM2_VerifySequenceComplete,
           PqcSequenceComplete, Dispatch, FlushObject, PqcCompletes
<1>2. HandleCount(cmd.code) = 2
    BY <1>1, ZenonT(60) DEF HandleCount, PqcCompletes
<1>3. h \in Slots
    BY <1>1, <1>2, HandlesAtDispatch DEF Inv
<1>4. Sound(Blank, proof, enabled) /\ Blank \in Objects
    BY BlankSound, ZenonT(60)
<1>5. StoreSound' /\ ContextsSound'
    BY <1>1, KeptSound
<1> HIDE DEF h
<1>6. CASE Responds
    BY <1>1, <1>3, <1>4, <1>5, <1>6, HandlerKeeps, ZenonT(60)
<1>7. CASE Fails /\ UNCHANGED <<power, g_DRTMHandle>>
  <2>1. cmd' = [cmd EXCEPT !.ok = FALSE] /\ phase' = "cleanup"
      BY <1>7, ZenonT(60) DEF Fails
  <2>2. SlotsSound'
      BY <1>1, <1>3, <1>4, ZenonT(60) DEF Inv, SlotsSound
  <2>3. PowerTypes'
      BY <1>1, <1>7 DEF Inv, PowerTypes, power
  <2>4. /\ cmd' \in CommandRecords
        /\ cmd'.handles = cmd.handles /\ cmd'.next = cmd.next
        /\ cmd'.code = cmd.code /\ cmd'.before = cmd.before
      BY <2>1, ZenonT(60) DEF Inv, CommandTypes, CommandRecords
  <2>5. CommandTypes'
      BY <1>1, <2>1, <2>4, ZenonT(60) DEF Inv, CommandTypes
  <2>6. ResolvedHandles' /\ AuthorizedHandles' /\ NoEvictBetweenCommands'
      BY <2>1 DEF ResolvedHandles, AuthorizedHandles, NoEvictBetweenCommands
  <2>7. DrtmSound'
      BY <1>1, <1>7, <2>1, ZenonT(60) DEF Inv, DrtmSound, DRTMSequenceIntact
  <2>8. \A s \in Slots \ {h} : Cleaned(s_objects'[s]) = cmd.before[s]
      BY <1>1 DEF Inv, Frame, SlotsSound
  <2>9. Frame'
      BY <1>1, <1>3, <2>1, <2>4, <2>8, ZenonT(60) DEF Frame
  <2> QED  BY <1>5, <2>2, <2>3, <2>5, <2>6, <2>7, <2>9, ZenonT(60) DEF Inv
<1> QED  BY <1>1, <1>6, <1>7, ZenonT(60)

\* The commands of hash, HMAC and ML-DSA sequences.
LEMMA SequenceCommandKeeps ==
    ASSUME Inv, SequenceCommand
    PROVE  Inv'
BY SequenceStartKeeps, SequenceChangeKeeps, PqcCompleteKeeps, Zenon
   DEF SequenceCommand

\* The handlers that flush a hierarchy: what they leave belongs to a hierarchy
\* with the same proof, and an enabled one.
LEMMA HierarchyCommandKeeps ==
    ASSUME Inv, HierarchyCommand
    PROVE  Inv'
<1>0. /\ phase = "dispatch" /\ phase' = "response"
      /\ cmd.code \in HierarchyCodes
      /\ UNCHANGED <<cmd, g_DRTMHandle, contexts, totalResetCount, resumable, boot, host>>
      /\ clearCount' \in {clearCount, 0}
    BY DEF HierarchyCommand, TPM2_HierarchyControl, TPM2_Clear, TPM2_ChangeEPS,
           TPM2_ChangePPS, Dispatch, RenewHierarchies, Responds, power, HierarchyCodes
<1>1. ContextsSound'
    BY <1>0, ZenonT(60) DEF Inv, ContextsSound
<1>2. CommandTypes'
    BY <1>0, ZenonT(60) DEF Inv, CommandTypes
<1>3. ResolvedHandles' /\ NoEvictBetweenCommands'
    BY <1>0, ZenonT(60) DEF ResolvedHandles, NoEvictBetweenCommands
<1>4. AuthorizedHandles'
  <2>1. Authorized(cmd.code) = {}
      BY <1>0, ZenonT(60) DEF Authorized, HierarchyCodes
  <2> QED  BY <1>0, <2>1, ZenonT(60) DEF AuthorizedHandles
<1>5. DrtmSound'
    BY <1>0, ZenonT(60) DEF Inv, DrtmSound, DRTMSequenceIntact
<1>6. Frame'
    BY <1>0, ZenonT(60) DEF Inv, CommandTypes, Frame
<1>7. SUFFICES SlotsSound' /\ StoreSound' /\ PowerTypes'
    BY <1>1, <1>2, <1>3, <1>4, <1>5, <1>6, ZenonT(60) DEF Inv
<1>8. CASE TPM2_HierarchyControl
  <2>1. PICK h \in ProofHolders \ {"NULL"}, state \in BOOLEAN :
            /\ enabled' = [enabled EXCEPT ![h] = state]
            /\ s_objects' = IF state THEN s_objects
                            ELSE ObjectFlushHierarchy(s_objects, {h})
      BY <1>8, Zenon DEF TPM2_HierarchyControl
  <2>2. nv' = nv /\ proof' = proof
      BY <1>8, ZenonT(60) DEF TPM2_HierarchyControl
  <2>3. PowerTypes'
      BY <1>0, <2>1, <2>2, SMTT(60), Z3T(60) DEF Inv, PowerTypes
  <2>4. StoreSound'
      BY <2>2, KeptSound, ZenonT(60)
  <2>5. ASSUME NEW s \in Slots
        PROVE  s_objects'[s] \in Objects /\ Sound(s_objects'[s], proof, enabled')
    <3>1. s_objects[s] \in Objects /\ Sound(s_objects[s], proof, enabled)
        BY ZenonT(60) DEF Inv, SlotsSound
    <3>2. CASE state
        BY <2>1, <3>1, <3>2, ZenonT(60) DEF Inv, PowerTypes, Sound, Objects
    <3>3. CASE ~state /\ s_objects[s].hierarchy = h
      <4>1. s_objects'[s] = Blank
          BY <2>1, <3>3, ZenonT(60) DEF ObjectFlushHierarchy
      <4> QED  BY <4>1, BlankSound, ZenonT(60)
    <3>4. CASE ~state /\ s_objects[s].hierarchy # h
      <4>1. s_objects'[s] = s_objects[s]
          BY <2>1, <3>4, ZenonT(60) DEF ObjectFlushHierarchy
      <4> QED  BY <2>1, <3>1, <3>4, <4>1, ZenonT(60) DEF Inv, PowerTypes, Sound, Objects
    <3> QED  BY <3>2, <3>3, <3>4, ZenonT(60)
  <2>6. s_objects' \in [Slots -> Objects]
      BY <2>1, <2>5, ZenonT(60) DEF ObjectFlushHierarchy, Inv, SlotsSound
  <2> QED  BY <2>2, <2>3, <2>4, <2>5, <2>6, ZenonT(60) DEF SlotsSound
<1>9. ASSUME NEW hs \in SUBSET (ProofHolders \ {"NULL"}), RenewHierarchies(hs),
             enabled' \in [ProofHolders -> BOOLEAN],
             \A h \in ProofHolders : enabled[h] => enabled'[h]
      PROVE  SlotsSound' /\ StoreSound' /\ PowerTypes'
  <2>1. /\ proof' = [h \in ProofHolders |-> IF h \in hs THEN proof[h] + 1 ELSE proof[h]]
        /\ s_objects' = ObjectFlushHierarchy(s_objects, hs)
        /\ nv' = NvFlushHierarchy(hs)
      BY <1>9, ZenonT(60) DEF RenewHierarchies
  <2>2. PowerTypes'
    <3>1. proof' \in [ProofHolders -> Nat]
        BY <2>1 DEF Inv, PowerTypes
    <3>2. enabled'["NULL"]
        BY <1>9, ZenonT(60) DEF Inv, PowerTypes, ProofHolders
    <3> QED  BY <1>0, <1>9, <3>1, <3>2, SMTT(60), Z3T(60) DEF Inv, PowerTypes
  <2>3. ASSUME NEW s \in Slots
        PROVE  s_objects'[s] \in Objects /\ Sound(s_objects'[s], proof', enabled')
    <3>1. s_objects[s] \in Objects /\ Sound(s_objects[s], proof, enabled)
        BY DEF Inv, SlotsSound
    <3>2. CASE s_objects[s].hierarchy \in hs
      <4>1. s_objects'[s] = Blank
          BY <2>1, <3>2, ZenonT(60) DEF ObjectFlushHierarchy
      <4> QED  BY <4>1, BlankSound, ZenonT(60)
    <3>3. CASE s_objects[s].hierarchy \notin hs
      <4>1. s_objects'[s] = s_objects[s]
          BY <2>1, <3>3, ZenonT(60) DEF ObjectFlushHierarchy
      <4>2. s_objects[s].hierarchy \in ProofHolders
          BY <3>1, ZenonT(60) DEF Objects
      <4>3. proof'[s_objects[s].hierarchy] = proof[s_objects[s].hierarchy]
          BY <2>1, <3>3, <4>2, ZenonT(60)
      <4> QED  BY <1>9, <3>1, <4>1, <4>2, <4>3, ZenonT(60) DEF Sound, Current
    <3> QED  BY <3>2, <3>3
  <2>4. s_objects' \in [Slots -> Objects]
      BY <2>1, <2>3, ZenonT(60) DEF ObjectFlushHierarchy
  <2>5. ASSUME NEW p \in Persistent
        PROVE  nv'[p] \in Objects /\ Stored(nv'[p], p, proof')
    <3>1. nv[p] \in Objects /\ Stored(nv[p], p, proof)
        BY ZenonT(60) DEF Inv, StoreSound
    <3>2. CASE nv[p].hierarchy \in hs
      <4>1. nv'[p] = Blank
          BY <2>1, <3>2, ZenonT(60) DEF NvFlushHierarchy
      <4> QED  BY <4>1, BlankSound, ZenonT(60) DEF Stored
    <3>3. CASE nv[p].hierarchy \notin hs
      <4>1. nv'[p] = nv[p]
          BY <2>1, <3>3, ZenonT(60) DEF NvFlushHierarchy
      <4>2. nv[p].hierarchy \in ProofHolders
          BY <3>1, ZenonT(60) DEF Objects
      <4>3. proof'[nv[p].hierarchy] = proof[nv[p].hierarchy]
          BY <2>1, <3>3, <4>2, ZenonT(60)
      <4> QED  BY <3>1, <4>1, <4>3, ZenonT(60) DEF Stored, Current
    <3> QED  BY <3>2, <3>3, ZenonT(60)
  <2>6. nv' \in [Persistent -> Objects]
      BY <2>1, <2>5, ZenonT(60) DEF NvFlushHierarchy
  <2> QED  BY <2>2, <2>3, <2>4, <2>5, <2>6, ZenonT(60) DEF SlotsSound, StoreSound
<1>10. enabled \in [ProofHolders -> BOOLEAN]
    BY DEF Inv, PowerTypes
<1>11. CASE TPM2_Clear
    BY <1>9, <1>10, <1>11, Zenon DEF TPM2_Clear, ProofHolders
<1>12. CASE TPM2_ChangeEPS
    BY <1>9, <1>10, <1>12, ZenonT(60) DEF TPM2_ChangeEPS, ProofHolders
<1>13. CASE TPM2_ChangePPS
    BY <1>9, <1>10, <1>13, ZenonT(60) DEF TPM2_ChangePPS, ProofHolders
<1> QED  BY <1>8, <1>11, <1>12, <1>13, ZenonT(60) DEF HierarchyCommand

-----------------------------------------------------------------------------
(***************************************************************************)
(* Steps: the path of a command                                            *)
(***************************************************************************)

\* A new command starts with the slots of the last one, less the DRTM sequence.
LEMMA IssueCommandKeeps ==
    ASSUME Inv, IssueCommand
    PROVE  Inv'
<1>0. PICK code \in host.issues, session \in {"password", "hmac"} :
         \E handles \in [1..HandleCount(code) -> HandleChoices(code)] :
            /\ s_objects' = ObjectTerminateEvent(s_objects)
            /\ cmd' = [code |-> code, handles |-> handles, session |-> session,
                       next |-> 1, before |-> ObjectTerminateEvent(s_objects),
                       ok |-> TRUE]
    BY Zenon DEF IssueCommand
<1>1. PICK handles \in [1..HandleCount(code) -> HandleChoices(code)] :
          /\ s_objects' = ObjectTerminateEvent(s_objects)
          /\ cmd' = [code |-> code, handles |-> handles, session |-> session,
                     next |-> 1, before |-> ObjectTerminateEvent(s_objects),
                     ok |-> TRUE]
    BY <1>0, ZenonT(60)
<1>2. /\ phase = "idle" /\ phase' = "handles" /\ g_DRTMHandle' = NoHandle
      /\ UNCHANGED <<nv, contexts, enabled, proof, power>>
    BY ZenonT(60) DEF IssueCommand
<1>3. SlotsSound' /\ s_objects' \in [Slots -> Objects]
  <2>1. CASE s_objects' = s_objects
      BY <1>2, <2>1, ZenonT(60) DEF Inv, SlotsSound
  <2>2. CASE /\ g_DRTMHandle \in Slots
             /\ s_objects' = [s_objects EXCEPT ![g_DRTMHandle] = Blank]
    <3>1. Sound(Blank, proof, enabled) /\ Blank \in Objects
        BY BlankSound, ZenonT(60)
    <3> QED  BY <1>2, <2>2, <3>1, ZenonT(60) DEF Inv, SlotsSound
  <2> QED  BY <1>1, <2>1, <2>2, ZenonT(60) DEF Inv, DrtmSound, ObjectTerminateEvent, FlushObject
<1>4. \A s \in Slots : ~s_objects'[s].evict
    BY ZenonT(60), <1>1, <1>2, BlankSound
       DEF Inv, SlotsSound, NoEvictBetweenCommands, DrtmSound, ObjectTerminateEvent,
           FlushObject, Blank
<1>5. PowerTypes'
    BY <1>2, ZenonT(60) DEF Inv, PowerTypes, power
<1>6. StoreSound' /\ ContextsSound'
    BY <1>2, KeptSound, ZenonT(60)
<1>7. handles \in Seq(Slots \cup Persistent) /\ Len(handles) = HandleCount(code)
  <2>1. HandleCount(code) \in Nat
      BY AuthorizedInRange, SMTT(60), Z3T(60)
  <2>2. handles \in [1..HandleCount(code) -> Slots \cup Persistent]
      BY ZenonT(60) DEF HandleChoices
  <2> QED  BY <2>1, <2>2, SMTT(60), Z3T(60)
<1>8. code \in Commands \cup {"none"}
    BY ZenonT(60) DEF Inv, PowerTypes, Host
<1>9. /\ cmd'.code = code /\ cmd'.handles = handles /\ cmd'.next = 1 /\ cmd'.ok
      /\ cmd'.before = s_objects'
      /\ cmd' \in CommandRecords
    BY <1>1, <1>3, <1>7, <1>8, SMTT(60), Z3T(60) DEF CommandRecords
<1>10. CommandTypes'
    BY <1>2, <1>7, <1>9, SMTT(60), Z3T(60) DEF CommandTypes
<1>11. ResolvedHandles' /\ AuthorizedHandles' /\ NoEvictBetweenCommands'
  <2>1. \A s \in Slots : Usable(s_objects'[s], enabled', cmd'.code)
      BY <1>3, <1>4, ZenonT(60) DEF SlotsSound, Sound, Usable
  <2> QED  BY SMTT(60), Z3T(60), <1>2, <1>7, <1>9, <2>1
           DEF ResolvedHandles, AuthorizedHandles, NoEvictBetweenCommands
<1>12. DrtmSound'
    BY <1>2, ZenonT(60) DEF DrtmSound, DRTMSequenceIntact
<1>13. Frame'
    BY <1>2, <1>4, <1>9, ZenonT(60) DEF Frame, Cleaned
<1> QED  BY <1>3, <1>5, <1>6, <1>10, <1>11, <1>12, <1>13, ZenonT(60) DEF Inv

\* A command that fails while its handles are resolved or before its handler
\* has an effect: there may be one more working copy, which is cleaned up.
LEMMA FailureKeeps ==
    ASSUME Inv, phase \in {"handles", "dispatch"}, Fails,
           UNCHANGED <<nv, contexts, enabled, proof, power, g_DRTMHandle>>,
           SlotsSound',
           \A s \in Slots : Cleaned(s_objects'[s]) = Cleaned(s_objects[s])
    PROVE  Inv'
<1>1. cmd' = [cmd EXCEPT !.ok = FALSE] /\ phase' = "cleanup"
    BY ZenonT(60) DEF Fails
<1>2. PowerTypes'
    BY DEF Inv, PowerTypes, power
<1>3. cmd' \in CommandRecords
    BY <1>1, Zenon DEF Inv, CommandTypes, CommandRecords
<1>4. /\ cmd'.handles = cmd.handles /\ cmd'.next = cmd.next
      /\ cmd'.code = cmd.code /\ cmd'.before = cmd.before
    BY <1>1 DEF Inv, CommandTypes, CommandRecords
<1>5. CommandTypes'
    BY <1>1, <1>3, <1>4, ZenonT(60) DEF Inv, CommandTypes
<1>6. ResolvedHandles' /\ AuthorizedHandles' /\ NoEvictBetweenCommands'
    BY <1>1 DEF ResolvedHandles, AuthorizedHandles, NoEvictBetweenCommands
<1>7. DrtmSound'
    BY <1>1, ZenonT(60) DEF Inv, DrtmSound, DRTMSequenceIntact
<1>8. \A s \in Slots : Cleaned(s_objects'[s]) = cmd.before[s]
    BY ZenonT(60) DEF Inv, Frame
<1>9. 0 \in Slots
    BY ObjectAssumption DEF Slots
<1>10. Frame'
    BY <1>1, <1>4, <1>8, <1>9, ZenonT(60) DEF Frame
<1>11. StoreSound' /\ ContextsSound'
    BY KeptSound, ZenonT(60)
<1> QED  BY <1>2, <1>5, <1>6, <1>7, <1>10, <1>11, ZenonT(60) DEF Inv

\* One more handle is resolved: it names a slot with a usable object, and the
\* slots with an object that are resolved already keep theirs.
LEMMA ResolvedKeeps ==
    ASSUME Inv, phase = "handles", phase' = phase, cmd.next <= Len(cmd.handles),
           UNCHANGED <<nv, contexts, enabled, proof, power, g_DRTMHandle>>,
           SlotsSound',
           \A s \in Slots : Cleaned(s_objects'[s]) = Cleaned(s_objects[s]),
           \A s \in Slots : Occupied(s_objects[s]) => s_objects'[s] = s_objects[s],
           NEW slot \in Slots,
           cmd' = [cmd EXCEPT !.handles[cmd.next] = slot, !.next = @ + 1],
           Occupied(s_objects'[slot]),
           \A s \in Slots : Usable(s_objects'[s], enabled, cmd.code)
    PROVE  Inv'
<1> DEFINE handles == [cmd.handles EXCEPT ![cmd.next] = slot]
<1>1. /\ cmd \in CommandRecords /\ cmd.handles \in Seq(Slots \cup Persistent)
      /\ cmd.next \in Nat \ {0} /\ Len(cmd.handles) \in Nat
    BY DEF Inv, CommandTypes, CommandRecords
<1>2. cmd.next \in 1..Len(cmd.handles) /\ cmd.next + 1 \in Nat \ {0}
    BY <1>1
<1>3. /\ handles \in Seq(Slots \cup Persistent)
      /\ Len(handles) = Len(cmd.handles)
      /\ \A j \in 1..Len(cmd.handles) :
            handles[j] = IF j = cmd.next THEN slot ELSE cmd.handles[j]
  <2>1. slot \in Slots \cup Persistent
      OBVIOUS
  <2> QED  BY <1>1, <1>2, <2>1, ExceptSeq, SMTT(60), Z3T(60)
<1>4. /\ cmd'.handles = handles /\ cmd'.next = cmd.next + 1 /\ cmd'.code = cmd.code
      /\ cmd'.before = cmd.before /\ cmd'.ok = cmd.ok
    BY <1>1 DEF CommandRecords
<1>5. cmd' \in CommandRecords
    BY <1>1, <1>2, <1>3, ZenonT(60) DEF CommandRecords
<1> HIDE DEF handles
<1>6. \A j \in 1..Len(handles) :
         j < cmd.next + 1 => handles[j] = slot \/ (j < cmd.next /\ handles[j] = cmd.handles[j])
    BY <1>1, <1>2, <1>3, SMTT(60), Z3T(60)
<1>7. CommandTypes'
    BY <1>3, <1>4, <1>5, <1>6, ZenonT(60) DEF Inv, CommandTypes
<1>8. ResolvedHandles'
  <2> SUFFICES ASSUME NEW j \in 1..Len(handles), j < cmd.next + 1
               PROVE  Occupied(s_objects'[handles[j]])
      BY <1>4 DEF ResolvedHandles
  <2>1. CASE handles[j] = slot
      BY <2>1
  <2>2. CASE j < cmd.next /\ handles[j] = cmd.handles[j]
    <3>1. cmd.handles[j] \in Slots /\ Occupied(s_objects[cmd.handles[j]])
        BY <1>3, <2>2, ZenonT(60) DEF Inv, CommandTypes, ResolvedHandles
    <3> QED  BY <2>2, <3>1, ZenonT(60)
  <2> QED  BY <1>6, <2>1, <2>2, ZenonT(60)
<1>9. PowerTypes'
    BY DEF Inv, PowerTypes, power
<1>10. AuthorizedHandles' /\ NoEvictBetweenCommands'
    BY DEF AuthorizedHandles, NoEvictBetweenCommands
<1>11. DrtmSound'
    BY DEF Inv, DrtmSound, DRTMSequenceIntact
<1>12. Frame'
    BY <1>4 DEF Inv, Frame
<1>13. StoreSound' /\ ContextsSound'
    BY KeptSound
<1> QED  BY <1>7, <1>8, <1>9, <1>10, <1>11, <1>12, <1>13, ZenonT(60) DEF Inv

\* EntityGetLoadStatus, for a transient and for a persistent handle.
LEMMA EntityGetLoadStatusKeeps ==
    ASSUME Inv, EntityGetLoadStatus
    PROVE  Inv'
<1> DEFINE h == cmd.handles[cmd.next]
<1>1. /\ phase = "handles" /\ cmd.next <= Len(cmd.handles)
      /\ UNCHANGED <<nv, contexts, enabled, proof, power, g_DRTMHandle>>
    BY ZenonT(60) DEF EntityGetLoadStatus
<1>2. ASSUME s_objects' = s_objects
      PROVE  /\ SlotsSound'
             /\ \A s \in Slots : Cleaned(s_objects'[s]) = Cleaned(s_objects[s])
             /\ \A s \in Slots : Occupied(s_objects[s]) => s_objects'[s] = s_objects[s]
    BY <1>1, <1>2, ZenonT(60) DEF Inv, SlotsSound
<1>3. CASE Fails /\ UNCHANGED s_objects
    BY <1>1, <1>2, <1>3, FailureKeeps, ZenonT(60)
<1>4. CASE /\ h \in Slots /\ Occupied(s_objects[h]) /\ UNCHANGED <<phase, s_objects>>
           /\ cmd' = [cmd EXCEPT !.next = @ + 1]
  <2>1. cmd \in CommandRecords /\ cmd.next \in 1..Len(cmd.handles)
      BY <1>1 DEF Inv, CommandTypes, CommandRecords
  <2>2. [cmd.handles EXCEPT ![cmd.next] = h] = cmd.handles
      BY <2>1 DEF CommandRecords
  <2>3. cmd' = [cmd EXCEPT !.handles[cmd.next] = h, !.next = @ + 1]
      BY <1>4, <2>1, <2>2, ZenonT(60) DEF CommandRecords
  <2>4. \A s \in Slots : Usable(s_objects'[s], enabled, cmd.code)
      BY <1>1, <1>4, ZenonT(60) DEF Inv, ResolvedHandles
  <2> QED  BY <1>1, <1>2, <1>4, <2>3, <2>4, ResolvedKeeps, ZenonT(60)
<1> DEFINE slot == FindEmptyObjectSlot(s_objects)
<1> DEFINE copy == NvGetEvictObject(h)
<1>5. ASSUME h \in Persistent, RangeIsEnabled(h), EmptySlots(s_objects) # {},
             s_objects' = [s_objects EXCEPT ![slot] = copy]
      PROVE  /\ Fails => Inv'
             /\ /\ Occupied(nv[h]) /\ EndorsementIsVisible(copy) /\ UNCHANGED phase
                /\ cmd' = [cmd EXCEPT !.handles[cmd.next] = slot, !.next = @ + 1]
                => Inv'
  <2>1. slot \in Slots /\ ~Occupied(s_objects[slot])
      BY <1>5, EmptySlotFound, ZenonT(60)
  <2>2. Sound(copy, proof, enabled) /\ Occupied(copy) /\ Cleaned(copy) = Blank
      BY <1>5, EvictCopySound, ZenonT(60) DEF Inv
  <2> HIDE DEF slot, copy, h
  <2>3. copy \in Objects /\ s_objects[slot] = Blank
      BY <2>1, <2>2, ZenonT(60) DEF Inv, SlotsSound, Sound
  <2>4. \A s \in Slots : s_objects'[s] = IF s = slot THEN copy ELSE s_objects[s]
      BY <1>5, <2>1, ZenonT(60) DEF Inv, SlotsSound
  <2>5. SlotsSound'
      BY <1>1, <1>5, <2>1, <2>2, <2>3, <2>4, ZenonT(60) DEF Inv, SlotsSound
  <2>6. \A s \in Slots : Cleaned(s_objects'[s]) = Cleaned(s_objects[s])
      BY <2>2, <2>3, <2>4, BlankSound, ZenonT(60)
  <2>7. \A s \in Slots : Occupied(s_objects[s]) => s_objects'[s] = s_objects[s]
      BY <2>1, <2>4, ZenonT(60)
  <2>8. ASSUME Fails  PROVE Inv'
      BY <1>1, <2>5, <2>6, <2>8, FailureKeeps, ZenonT(60)
  <2>9. ASSUME Occupied(nv[h]), EndorsementIsVisible(copy), UNCHANGED phase,
               cmd' = [cmd EXCEPT !.handles[cmd.next] = slot, !.next = @ + 1]
        PROVE  Inv'
    <3>1. Usable(copy, enabled, cmd.code)
      <4>1. copy = nv[h] /\ nv[h] \in Objects /\ Stored(nv[h], h, proof)
          BY <1>5, <2>9, ZenonT(60) DEF NvGetEvictObject, Inv, StoreSound, copy
      <4>2. h \in PlatformRange <=> copy.hierarchy = "PLATFORM"
          BY <2>9, <4>1, ZenonT(60) DEF Stored
      <4>3. copy.hierarchy \in ProofHolders
          BY <4>1, ZenonT(60) DEF Objects
      <4> QED  BY <1>5, <2>9, <4>2, <4>3, ZenonT(60)
               DEF RangeIsEnabled, EndorsementIsVisible, Usable, ProofHolders, Inv,
                   PowerTypes
    <3>2. \A s \in Slots : Usable(s_objects'[s], enabled, cmd.code)
        BY <1>1, <2>4, <3>1, ZenonT(60) DEF Inv, ResolvedHandles
    <3>3. Occupied(s_objects'[slot])
        BY <2>1, <2>2, <2>4, ZenonT(60)
    <3> QED  BY <1>1, <2>1, <2>5, <2>6, <2>7, <2>9, <3>2, <3>3, ResolvedKeeps, ZenonT(60)
  <2> QED  BY <2>8, <2>9, ZenonT(60)
<1>6. CASE h \in Persistent /\ ObjectLoadEvict(h)
  <2> HIDE DEF h
  <2> QED  BY <1>3, <1>5, <1>6, ZenonT(60) DEF ObjectLoadEvict
<1>7. CASE /\ h \in Slots
           /\ IF IsObjectPresent(h)
              THEN cmd' = [cmd EXCEPT !.next = @ + 1] /\ UNCHANGED phase
              ELSE Fails
           /\ UNCHANGED s_objects
    BY <1>3, <1>4, <1>7, ZenonT(60) DEF IsObjectPresent
<1> QED  BY <1>6, <1>7, Zenon DEF EntityGetLoadStatus

\* The steps that leave the slots and the rest of the store alone.
LEMMA PassingKeeps ==
    ASSUME Inv, CheckAuthSession \/ CommandRefused \/ BuildResponseSession
    PROVE  Inv'
<1>1. UNCHANGED <<store, power, g_DRTMHandle>>
    BY ZenonT(60) DEF CheckAuthSession, CommandRefused, BuildResponseSession
<1>2. SlotsSound' /\ StoreSound' /\ ContextsSound' /\ PowerTypes'
    BY <1>1, ZenonT(60) DEF Inv, SlotsSound, StoreSound, ContextsSound, PowerTypes, store, power
<1>3. CASE CheckAuthSession
  <2>1. /\ phase = "handles" /\ phase' = "dispatch" /\ cmd' = cmd
        /\ cmd.next > Len(cmd.handles)
      BY <1>3, ZenonT(60) DEF CheckAuthSession
  <2>2. CommandTypes'
      BY <2>1, ZenonT(60) DEF Inv, CommandTypes
  <2>3. ResolvedHandles' /\ AuthorizedHandles' /\ NoEvictBetweenCommands'
      BY ZenonT(60), <1>1, <2>1
         DEF Inv, ResolvedHandles, AuthorizedHandles, NoEvictBetweenCommands, store
  <2>4. DrtmSound' /\ Frame'
      BY <1>1, <2>1, ZenonT(60) DEF Inv, DrtmSound, DRTMSequenceIntact, Frame, store
  <2> QED  BY <1>2, <2>2, <2>3, <2>4, ZenonT(60) DEF Inv
<1>4. CASE CommandRefused
  <2>1. phase \in {"handles", "dispatch"} /\ Fails
      BY <1>4, ZenonT(60) DEF CommandRefused
  <2>2. UNCHANGED <<s_objects, nv, contexts, enabled, proof, power, g_DRTMHandle>>
      BY <1>1, ZenonT(60) DEF store
  <2> QED  BY <1>2, <2>1, <2>2, FailureKeeps, ZenonT(60)
<1>5. CASE BuildResponseSession
  <2>1. phase = "response" /\ phase' \in {"cleanup", "failed"} /\ cmd' = cmd
      BY <1>5, ZenonT(60) DEF BuildResponseSession
  <2>2. CommandTypes'
      BY <2>1, ZenonT(60) DEF Inv, CommandTypes
  <2>3. ResolvedHandles' /\ AuthorizedHandles' /\ NoEvictBetweenCommands'
      BY <2>1, ZenonT(60) DEF ResolvedHandles, AuthorizedHandles, NoEvictBetweenCommands
  <2>4. DrtmSound'
      BY <1>1, <2>1, ZenonT(60) DEF Inv, DrtmSound, DRTMSequenceIntact
  <2>5. Frame'
      BY <1>1, <2>1, ZenonT(60) DEF Inv, CommandTypes, Frame, store
  <2> QED  BY <1>2, <2>2, <2>3, <2>4, <2>5, ZenonT(60) DEF Inv
<1> QED  BY <1>3, <1>4, <1>5, ZenonT(60)

\* The state between commands, and with the power off.
LEMMA NoCommandSound ==
    ASSUME cmd' = NoCommand, phase' \in {"off", "idle"}
    PROVE  /\ CommandTypes' /\ ResolvedHandles' /\ AuthorizedHandles' /\ Frame'
<1>1. NoCommand \in CommandRecords /\ Len(NoCommand.handles) = 0 /\ NoCommand.ok
    BY BlankSound, SMTT(60), Z3T(60) DEF NoCommand, CommandRecords
<1>2. CommandTypes'
    BY <1>1, SMTT(60), Z3T(60) DEF CommandTypes
<1>3. ResolvedHandles' /\ AuthorizedHandles' /\ Frame'
    BY ZenonT(60) DEF ResolvedHandles, AuthorizedHandles, Frame
<1> QED  BY <1>2, <1>3, ZenonT(60)

\* The clean-up at the end of a command empties the slots marked evict.
LEMMA CleanupKeeps ==
    ASSUME Inv, Cleanup
    PROVE  Inv'
<1>1. /\ phase = "cleanup" /\ phase' = "idle" /\ cmd' = NoCommand
      /\ s_objects' = ObjectCleanupEvict(s_objects)
      /\ UNCHANGED <<nv, contexts, enabled, proof, power, g_DRTMHandle>>
    BY ZenonT(60) DEF Cleanup
<1>2. ASSUME NEW s \in Slots
      PROVE  /\ s_objects'[s] \in Objects /\ Sound(s_objects'[s], proof, enabled)
             /\ ~s_objects'[s].evict /\ s_objects'[s].kind # "unread"
  <2>1. s_objects[s] \in Objects /\ Sound(s_objects[s], proof, enabled)
      BY ZenonT(60) DEF Inv, SlotsSound
  <2>2. CASE s_objects[s].evict
    <3>1. s_objects'[s] = Blank
        BY <1>1, <2>2, ZenonT(60) DEF ObjectCleanupEvict
    <3>2. ~Blank.evict /\ Blank.kind # "unread"
        BY ZenonT(60) DEF Blank
    <3> QED  BY <3>1, <3>2, BlankSound, ZenonT(60)
  <2>3. CASE ~s_objects[s].evict
    <3>1. s_objects'[s] = s_objects[s]
        BY <1>1, <2>3, ZenonT(60) DEF ObjectCleanupEvict
    <3> QED  BY <2>1, <2>3, <3>1, ZenonT(60) DEF Sound
  <2> QED  BY <2>2, <2>3, ZenonT(60)
<1>3. s_objects' \in [Slots -> Objects]
    BY <1>1, <1>2, ZenonT(60) DEF ObjectCleanupEvict
<1>4. SlotsSound' /\ NoEvictBetweenCommands'
    BY <1>1, <1>2, <1>3, ZenonT(60) DEF SlotsSound, NoEvictBetweenCommands
<1>5. StoreSound' /\ ContextsSound'
    BY <1>1, KeptSound, ZenonT(60)
<1>6. PowerTypes'
    BY <1>1, ZenonT(60) DEF Inv, PowerTypes, power
<1>7. DrtmSound'
    BY <1>1, ZenonT(60) DEF Inv, DrtmSound, DRTMSequenceIntact
<1>8. CommandTypes' /\ ResolvedHandles' /\ AuthorizedHandles' /\ Frame'
    BY <1>1, NoCommandSound, ZenonT(60)
<1> QED  BY <1>4, <1>5, <1>6, <1>7, <1>8, ZenonT(60) DEF Inv

-----------------------------------------------------------------------------
(***************************************************************************)
(* Steps: indications and power                                            *)
(***************************************************************************)

\* _TPM_Hash_Start and _TPM_Hash_End change one or two slots between commands.
LEMMA IndicationKeeps ==
    ASSUME Inv, TPM_Hash_Start \/ TPM_Hash_End
    PROVE  Inv'
<1>1. /\ phase \in {"off", "idle"} /\ phase' = phase /\ cmd' = cmd
      /\ UNCHANGED <<nv, contexts, enabled, proof, power>>
    BY ZenonT(60) DEF TPM_Hash_Start, TPM_Hash_End
<1>2. CommandTypes' /\ ResolvedHandles' /\ AuthorizedHandles' /\ Frame'
    BY <1>1, Zenon DEF Inv, CommandTypes, ResolvedHandles, AuthorizedHandles, Frame
<1>3. StoreSound' /\ ContextsSound'
    BY <1>1, KeptSound, ZenonT(60)
<1>4. PowerTypes'
    BY <1>1, ZenonT(60) DEF Inv, PowerTypes, power
<1> DEFINE Good(o) == Sound(o, proof, enabled) /\ o \in Objects
                      /\ (phase = "idle" => ~o.evict /\ o.kind # "unread")
<1>5. s_objects \in [Slots -> Objects] /\ \A s \in Slots : Good(s_objects[s])
    BY DEF Inv, SlotsSound, NoEvictBetweenCommands
<1>6. Good(Blank)
    BY BlankSound, Zenon DEF Blank
<1>7. ASSUME s_objects' \in [Slots -> Objects], \A s \in Slots : Good(s_objects'[s])
      PROVE  SlotsSound' /\ NoEvictBetweenCommands'
    BY <1>1, <1>7, ZenonT(60) DEF SlotsSound, NoEvictBetweenCommands
<1>8. g_DRTMHandle \in Slots \cup {NoHandle}
    BY ZenonT(60) DEF Inv, DrtmSound
<1>9. CASE TPM_Hash_Start
  <2> DEFINE freed == IF g_DRTMHandle = NoHandle THEN s_objects
                      ELSE FlushObject(s_objects, g_DRTMHandle)
  <2> DEFINE slot == IF EmptySlots(freed) = {} THEN 0 ELSE FindEmptyObjectSlot(freed)
  <2> DEFINE e == AllocateSequenceSlot("event")
  <2>1. s_objects' = [freed EXCEPT ![slot] = e] /\ g_DRTMHandle' = slot
      BY <1>9 DEF TPM_Hash_Start
  <2>2. slot \in Slots
    <3> HIDE DEF freed
    <3>1. 0 \in Slots
        BY ObjectAssumption DEF Slots
    <3> QED  BY <3>1, EmptySlotFound, ZenonT(60)
  <2> HIDE DEF slot
  <2>3. freed \in [Slots -> Objects] /\ \A s \in Slots : Good(freed[s])
    <3> HIDE DEF Good
    <3>1. Blank \in Objects
        BY BlankSound, ZenonT(60)
    <3> QED  BY <1>5, <1>6, <1>8, <3>1, ZenonT(60) DEF FlushObject
  <2>4. Good(e) /\ e \in Objects /\ e.kind = "event"
    <3>1. "event" \in ClassicSequences /\ enabled["NULL"]
        BY ZenonT(60) DEF ClassicSequences, Inv, PowerTypes
    <3>2. Sound(e, proof, enabled) /\ ~e.evict /\ e.kind = "event"
        BY <3>1, SequenceSound, ZenonT(60)
    <3> HIDE DEF e
    <3> QED  BY <3>2, ZenonT(60) DEF Sound
  <2> HIDE DEF freed, e, Good
  <2>5. s_objects' \in [Slots -> Objects] /\ \A s \in Slots : Good(s_objects'[s])
      BY <2>1, <2>2, <2>3, <2>4, ZenonT(60)
  <2>6. DrtmSound'
      BY <1>1, <2>1, <2>2, <2>3, <2>4, ZenonT(60) DEF DrtmSound, DRTMSequenceIntact
  <2> QED  BY <1>2, <1>3, <1>4, <1>7, <2>5, <2>6, ZenonT(60) DEF Inv
<1>10. CASE TPM_Hash_End
  <2>1. /\ g_DRTMHandle \in Slots /\ g_DRTMHandle' = NoHandle
        /\ s_objects' = [s_objects EXCEPT ![g_DRTMHandle] = Blank]
      BY <1>8, <1>10, ZenonT(60) DEF TPM_Hash_End, FlushObject
  <2>2. Blank \in Objects
      BY BlankSound
  <2>3. DrtmSound'
      BY <2>1, ZenonT(60) DEF DrtmSound, DRTMSequenceIntact
  <2> HIDE DEF Good
  <2>4. s_objects' \in [Slots -> Objects] /\ \A s \in Slots : Good(s_objects'[s])
      BY <1>5, <1>6, <2>1, <2>2, ZenonT(60)
  <2> QED  BY <1>2, <1>3, <1>4, <1>7, <2>3, <2>4, ZenonT(60) DEF Inv
<1> QED  BY <1>9, <1>10, ZenonT(60)

\* _TPM_Init forgets the command and the DRTM sequence; the slots stay.
LEMMA InitCommandKeeps ==
    ASSUME Inv, TPM_Init
    PROVE  Inv'
<1>1. /\ phase' = "off" /\ cmd' = NoCommand /\ g_DRTMHandle' = NoHandle
      /\ UNCHANGED <<store, totalResetCount, clearCount, boot, host>>
      /\ resumable' \in BOOLEAN
    BY ZenonT(60) DEF TPM_Init
<1>2. SlotsSound' /\ StoreSound' /\ ContextsSound' /\ PowerTypes'
    BY <1>1, ZenonT(60) DEF Inv, SlotsSound, StoreSound, ContextsSound, PowerTypes, store
<1>3. CommandTypes' /\ ResolvedHandles' /\ AuthorizedHandles' /\ Frame'
    BY <1>1, NoCommandSound, ZenonT(60)
<1>4. DrtmSound' /\ NoEvictBetweenCommands'
    BY <1>1, ZenonT(60) DEF DrtmSound, DRTMSequenceIntact, NoEvictBetweenCommands
<1> QED  BY <1>2, <1>3, <1>4, ZenonT(60) DEF Inv

\* Startup clears the slots.  Only the proof of the NULL hierarchy changes, and
\* nothing persistent depends on that one.
LEMMA StartupKeeps ==
    ASSUME Inv, StartupResume \/ StartupRestart \/ StartupReset
    PROVE  Inv'
<1>1. /\ phase = "off" /\ phase' = "idle" /\ g_DRTMHandle' = NoHandle
      /\ s_objects' = [s \in Slots |-> Blank]
      /\ UNCHANGED <<nv, contexts, cmd, host>> /\ resumable' = FALSE
    BY ZenonT(60) DEF StartupResume, StartupRestart, StartupReset, Startup
<1>2. /\ enabled' \in [ProofHolders -> BOOLEAN] /\ enabled'["NULL"]
      /\ proof' \in [ProofHolders -> Nat]
      /\ \A h \in ProofHolders \ {"NULL"} : proof'[h] = proof[h]
      /\ totalResetCount' \in Nat /\ clearCount' \in Nat /\ boot' \in Nat
  <2>1. PowerTypes
      BY DEF Inv
  <2>2. \A h \in ProofHolders : AllEnabled[h]
      BY DEF AllEnabled
  <2>3. AllEnabled \in [ProofHolders -> BOOLEAN] /\ "NULL" \in ProofHolders
      BY ZenonT(60) DEF AllEnabled, ProofHolders
  <2>4. CASE StartupResume
    <3>1. /\ enabled' = [enabled EXCEPT !["PLATFORM"] = TRUE]
          /\ UNCHANGED <<proof, totalResetCount, clearCount, boot>>
        BY <2>4 DEF StartupResume
    <3>2. enabled' \in [ProofHolders -> BOOLEAN] /\ enabled'["NULL"]
        BY <2>1, <2>3, <3>1, ZenonT(60) DEF PowerTypes
    <3> QED  BY <2>1, <3>1, <3>2, ZenonT(60) DEF PowerTypes
  <2>5. CASE StartupRestart
    <3>1. /\ enabled' = AllEnabled /\ clearCount' = clearCount + 1
          /\ boot' = boot + 1 /\ UNCHANGED <<proof, totalResetCount>>
        BY <2>5, ZenonT(60) DEF StartupRestart
    <3> QED  BY <2>1, <2>2, <2>3, <3>1, SMTT(60), Z3T(60) DEF PowerTypes
  <2>6. CASE StartupReset
    <3>1. /\ enabled' = AllEnabled /\ proof' = [proof EXCEPT !["NULL"] = @ + 1]
          /\ totalResetCount' = totalResetCount + 1 /\ clearCount' = 0
          /\ boot' = boot + 1
        BY <2>6, ZenonT(60) DEF StartupReset
    <3> QED  BY <2>1, <2>2, <2>3, <3>1, SMTT(60), Z3T(60) DEF PowerTypes
  <2> QED  BY <2>4, <2>5, <2>6, ZenonT(60)
<1>3. SlotsSound' /\ NoEvictBetweenCommands'
  <2>1. ~Blank.evict /\ Blank.kind # "unread"
      BY DEF Blank
  <2> QED  BY <1>1, <2>1, BlankSound, ZenonT(60) DEF SlotsSound, NoEvictBetweenCommands
<1>4. PowerTypes'
    BY <1>1, <1>2, Zenon DEF Inv, PowerTypes
<1>5. StoreSound'
  <2>1. ASSUME NEW p \in Persistent  PROVE Stored(nv[p], p, proof')
    <3>1. nv[p] \in Objects /\ Stored(nv[p], p, proof)
        BY ZenonT(60) DEF Inv, StoreSound
    <3>2. nv[p].hierarchy \in ProofHolders
        BY <3>1, ZenonT(60) DEF Objects
    <3> QED  BY <1>2, <3>1, <3>2, ZenonT(60) DEF Stored, Current
  <2> QED  BY <1>1, <2>1, ZenonT(60) DEF Inv, StoreSound
<1>6. ContextsSound'
    BY <1>1, ZenonT(60) DEF Inv, ContextsSound
<1>7. CommandTypes' /\ ResolvedHandles' /\ AuthorizedHandles' /\ Frame'
    BY <1>1, Zenon DEF Inv, CommandTypes, ResolvedHandles, AuthorizedHandles, Frame
<1>8. DrtmSound'
    BY <1>1, ZenonT(60) DEF DrtmSound, DRTMSequenceIntact
<1> QED  BY <1>3, <1>4, <1>5, <1>6, <1>7, <1>8, ZenonT(60) DEF Inv

\* A step that changes nothing.
LEMMA StutterKeeps ==
    ASSUME Inv, UNCHANGED vars
    PROVE  Inv'
<1>1. UNCHANGED <<s_objects, nv, contexts, enabled, proof, totalResetCount, clearCount,
                  resumable, boot, host, g_DRTMHandle, phase, cmd>>
    BY ZenonT(60) DEF vars, store, power
<1>2. SlotsSound' /\ StoreSound' /\ ContextsSound' /\ PowerTypes'
    BY <1>1, ZenonT(60) DEF Inv, SlotsSound, StoreSound, ContextsSound, PowerTypes
<1>3. CommandTypes' /\ ResolvedHandles' /\ AuthorizedHandles' /\ Frame'
    BY <1>1, ZenonT(60) DEF Inv, CommandTypes, ResolvedHandles, AuthorizedHandles, Frame
<1>4. DrtmSound' /\ NoEvictBetweenCommands'
    BY <1>1 DEF Inv, DrtmSound, DRTMSequenceIntact, NoEvictBetweenCommands
<1> QED  BY <1>2, <1>3, <1>4, ZenonT(60) DEF Inv

-----------------------------------------------------------------------------
(***************************************************************************)
(* The theorems                                                            *)
(***************************************************************************)

\* The TPM starts with empty slots.
LEMMA InitSound == Init => Inv
<1> SUFFICES ASSUME Init  PROVE Inv
    BY ZenonT(60)
<1>1. ~Blank.evict /\ Blank.kind # "unread" /\ Blank \in Objects
    BY BlankSound, Zenon DEF Blank
<1>2. SlotsSound /\ NoEvictBetweenCommands
    BY <1>1, BlankSound, ZenonT(60) DEF Init, SlotsSound, NoEvictBetweenCommands
<1>3. StoreSound /\ ContextsSound
    BY <1>1, BlankSound, ZenonT(60) DEF Init, StoreSound, ContextsSound, Stored
<1>4. PowerTypes
    BY HostAssumption, ZenonT(60) DEF Init, PowerTypes, AllEnabled, ProofHolders
<1>5. CommandTypes
  <2>1. NoCommand \in CommandRecords /\ Len(NoCommand.handles) = 0 /\ NoCommand.ok
      BY <1>1, SMTT(60), Z3T(60) DEF NoCommand, CommandRecords
  <2> QED  BY <2>1, SMTT(60), Z3T(60) DEF Init, CommandTypes
<1>6. ResolvedHandles /\ AuthorizedHandles /\ Frame
    BY ZenonT(60) DEF Init, ResolvedHandles, AuthorizedHandles, Frame
<1>7. DrtmSound
    BY DEF Init, DrtmSound, DRTMSequenceIntact
<1> QED  BY <1>2, <1>3, <1>4, <1>5, <1>6, <1>7, ZenonT(60) DEF Inv

\* Every step keeps the invariant,
LEMMA NextKeeps == Inv /\ [Next]_vars => Inv'
<1> SUFFICES ASSUME Inv, [Next]_vars  PROVE Inv'
    OBVIOUS
<1>1. CASE TpmFailureMode
    BY <1>1, StutterKeeps DEF TpmFailureMode
<1> QED  BY <1>1, IssueCommandKeeps, EntityGetLoadStatusKeeps, PassingKeeps,
            KeyCommandKeeps, ContextCommandKeeps, SequenceCommandKeeps,
            HierarchyCommandKeeps, CleanupKeeps, IndicationKeeps, InitCommandKeeps,
            StartupKeeps, StutterKeeps, ZenonT(60)
         DEF Next

\* which therefore always holds.
LEMMA Invariance == Spec => []Inv
BY InitSound, NextKeeps, PTL DEF Spec

\* The safety properties of the object slots follow from the invariant.
LEMMA InvImplies ==
    Inv => /\ TypeOK /\ NoEvictBetweenCommands /\ DRTMSequenceIntact
           /\ OtherResponsesFindObjects /\ DisabledHierarchyUnloaded
           /\ NoObjectOutlivesItsProof /\ PersistentRange
<1> SUFFICES ASSUME Inv
             PROVE  /\ TypeOK /\ NoEvictBetweenCommands /\ DRTMSequenceIntact
                    /\ OtherResponsesFindObjects /\ DisabledHierarchyUnloaded
                    /\ NoObjectOutlivesItsProof /\ PersistentRange
    BY ZenonT(60)
<1>1. TypeOK
  <2>1. s_objects \in [Slots -> Objects] /\ nv \in [Persistent -> Objects]
      BY ZenonT(60) DEF Inv, SlotsSound, StoreSound
  <2>2. contexts \subseteq SavedContexts
      BY ZenonT(60) DEF Inv, ContextsSound, SavedSound
  <2>3. cmd.handles \in Seq(Slots \cup Persistent)
      BY DEF Inv, CommandTypes, CommandRecords
  <2> QED  BY <2>1, <2>2, <2>3, ZenonT(60) DEF Inv, PowerTypes, CommandTypes, DrtmSound, TypeOK
<1>2. NoEvictBetweenCommands /\ DRTMSequenceIntact
    BY ZenonT(60) DEF Inv, DrtmSound
<1>3. OtherResponsesFindObjects
  <2> SUFFICES ASSUME phase = "response", cmd.code \notin PqcCompletes,
                      NEW i \in Authorized(cmd.code)
               PROVE  IsObjectPresent(cmd.handles[i])
      BY ZenonT(60) DEF OtherResponsesFindObjects, ResponseFindsObjects, ReadsAuthValue
  <2>1. /\ cmd.next > Len(cmd.handles) /\ Len(cmd.handles) = HandleCount(cmd.code)
        /\ cmd.next \in Nat
      BY DEF Inv, CommandTypes, CommandRecords
  <2>2. i \in 1..Len(cmd.handles) /\ i < cmd.next
      BY <2>1, AuthorizedInRange, SMTT(60), Z3T(60)
  <2> QED  BY <2>2, ZenonT(60) DEF Inv, CommandTypes, AuthorizedHandles, IsObjectPresent
<1>4. DisabledHierarchyUnloaded
    BY ZenonT(60) DEF Inv, SlotsSound, Sound, NoEvictBetweenCommands, DisabledHierarchyUnloaded
<1>5. NoObjectOutlivesItsProof
    BY ZenonT(60) DEF Inv, SlotsSound, Sound, StoreSound, Stored, Current, NoObjectOutlivesItsProof
<1>6. PersistentRange
    BY DEF Inv, StoreSound, Stored, PersistentRange
<1> QED  BY <1>1, <1>2, <1>3, <1>4, <1>5, <1>6, ZenonT(60)

\* TypeOK for any constants: slots and NV hold OBJECT structures, and a command
\* that runs has a slot for every handle it has resolved.
THEOREM TypesForAnySlots == Spec => []TypeOK
BY Invariance, InvImplies, PTL

\* ObjectCleanupEvict, for any number of slots: no working copy, unread slot or
\* completed sequence is left between commands.
THEOREM CleanForAnySlots == Spec => []NoEvictBetweenCommands
BY Invariance, InvImplies, PTL

\* g_DRTMHandle, for any number of slots: an open DRTM sequence is in its slot,
\* and no command runs beside it.
THEOREM DRTMForAnySlots == Spec => []DRTMSequenceIntact
BY Invariance, InvImplies, PTL

\* HandleToObject in the response, for every command but the ML-DSA completions
\* and any number of slots: the authorized objects are still loaded.
THEOREM ResponsesForAnySlots == Spec => []OtherResponsesFindObjects
BY Invariance, InvImplies, PTL

\* ObjectFlushHierarchy and the checks of every way to load an object, for any
\* number of slots and persistent objects: nothing of a disabled hierarchy is
\* loaded between commands.
THEOREM DisabledForAnySlots == Spec => []DisabledHierarchyUnloaded
BY Invariance, InvImplies, PTL

\* TPM2_Clear, ChangePPS and ChangeEPS, for any number of slots, persistent
\* objects and saved contexts: no object outlives the proof it was made under.
THEOREM ProofsForAnySlots == Spec => []NoObjectOutlivesItsProof
BY Invariance, InvImplies, PTL

\* TPM2_EvictControl, for any number of persistent handles: only keys become
\* persistent, and the platform range holds exactly the persistent objects of the
\* platform hierarchy.
THEOREM RangesForAnyHandles == Spec => []PersistentRange
BY Invariance, InvImplies, PTL

\* The frame of a command, for any number of slots: one that fails leaves the
\* slots as it found them, one that succeeds changes at most one of them.
THEOREM FrameForAnySlots == Spec => CommandFrame
<1> DEFINE changed == {s \in Slots : s_objects'[s] # cmd.before[s]}
<1> DEFINE Step ==
        phase = "cleanup" =>
            /\ ~cmd.ok /\ cmd.code \notin PqcCompletes => changed = {}
            /\ cmd.code \notin HierarchyCodes => Cardinality(changed) <= 1
<1>1. Inv /\ [Next]_vars => [Step]_vars
  <2> SUFFICES ASSUME Inv, Next, phase = "cleanup"
               PROVE  /\ ~cmd.ok /\ cmd.code \notin PqcCompletes => changed = {}
                      /\ cmd.code \notin HierarchyCodes => Cardinality(changed) <= 1
      BY ZenonT(60)
  <2>1. Cleanup
      BY Zenon DEF Next, IssueCommand, EntityGetLoadStatus, CheckAuthSession, CommandRefused,
             KeyCommand, ContextCommand, SequenceCommand, HierarchyCommand,
             BuildResponseSession, TpmFailureMode, TPM_Hash_Start, TPM_Hash_End,
             TPM_Init, StartupResume, StartupRestart, StartupReset, Startup, Dispatch,
             TPM2_Load, TPM2_CreatePrimary, TPM2_LoadExternal, TPM2_ContextSave,
             TPM2_ContextLoad, TPM2_FlushContext, TPM2_EvictControl,
             TPM2_HashSequenceStart, TPM2_HMAC_Start, TPM2_SequenceUpdate,
             TPM2_SequenceComplete, TPM2_EventSequenceComplete,
             TPM2_SignSequenceStart, TPM2_VerifySequenceStart, PqcSequenceStart,
             TPM2_SignSequenceComplete, TPM2_VerifySequenceComplete,
             PqcSequenceComplete, TPM2_HierarchyControl, TPM2_Clear, TPM2_ChangeEPS,
             TPM2_ChangePPS
  <2>2. \A s \in Slots : s_objects'[s] = Cleaned(s_objects[s])
      BY <2>1, ZenonT(60) DEF Cleanup, ObjectCleanupEvict, Cleaned
  <2>3. ASSUME ~cmd.ok, cmd.code \notin PqcCompletes  PROVE changed = {}
      BY <2>2, <2>3, ZenonT(60) DEF Inv, Frame
  <2>4. ASSUME cmd.code \notin HierarchyCodes  PROVE Cardinality(changed) <= 1
    <3>1. PICK t \in Slots : \A s \in Slots \ {t} : Cleaned(s_objects[s]) = cmd.before[s]
        BY <2>4, ZenonT(60) DEF Inv, Frame
    <3>2. changed \in SUBSET {t}
        BY <2>2, <3>1, ZenonT(60)
    <3> HIDE DEF changed
    <3>3. IsFiniteSet({t}) /\ Cardinality({t}) = 1
        BY FS_Singleton
    <3> QED  BY <3>2, <3>3, FS_Subset, ZenonT(60)
  <2> QED  BY <2>3, <2>4, ZenonT(60)
<1>2. Spec => [][Step]_vars
    BY <1>1, Invariance, PTL DEF Spec
<1> QED  BY <1>2, PTL DEF CommandFrame

=============================================================================
