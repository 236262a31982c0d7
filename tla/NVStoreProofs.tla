--------------------------- MODULE NVStoreProofs ---------------------------
(***************************************************************************)
(* What NVStore promises, for any set of indices and templates.            *)
(*                                                                         *)
(* Storage relates the three copies of an index: orderly RAM, the NV image *)
(* in memory, and the storage behind it. While a command is being executed *)
(* it speaks of what the image will be when the command ends (FinalRam,    *)
(* StaysOrderly), as the commit is what makes the copies agree.            *)
(*                                                                         *)
(* Permanent, at the end, adds to it that every index locked under         *)
(* WRITEDEFINE in storage is still locked, with the same data, in the      *)
(* image that the running command will commit; the commit is the only step *)
(* that changes storage, so it cannot lift such a lock.                    *)
(*                                                                         *)
(* What follows for the counters is in NVCounterProofs.                    *)
(***************************************************************************)
EXTENDS NVStore, TLAPS

-----------------------------------------------------------------------------
(* Tables of indices, and images.                                          *)

Tables == UNION {[D -> Entries] : D \in SUBSET Indices}

Images == [list : Tables, maxCount : Nat, ram : Tables, orderlyState : OrderlyStates]

\* What a table is.
LEMMA TableElim ==
    ASSUME NEW f \in Tables
    PROVE  /\ DOMAIN f \subseteq Indices
           /\ f = [i \in DOMAIN f |-> f[i]]
           /\ \A i \in DOMAIN f : f[i] \in Entries
BY DEF Tables

\* How a table is made.
LEMMA TableIntro ==
    ASSUME NEW D \in SUBSET Indices, NEW f \in [D -> Entries]
    PROVE  f \in Tables
BY DEF Tables

\* The tables that the operations make: one more index, fewer, one changed.
LEMMA EmptyTable == Empty \in Tables
<1>1. Empty \in [{} -> Entries]
  BY DEF Empty
<1>2. QED
  BY <1>1 DEF Tables

\* A table with one more index, or with one replaced.
LEMMA WithTable ==
    ASSUME NEW f \in Tables, NEW i \in Indices, NEW e \in Entries
    PROVE  /\ With(f, i, e) \in Tables
           /\ DOMAIN With(f, i, e) = DOMAIN f \cup {i}
           /\ With(f, i, e)[i] = e
           /\ \A j \in DOMAIN f \ {i} : With(f, i, e)[j] = f[j]
<1>1. With(f, i, e) \in [DOMAIN f \cup {i} -> Entries]
  BY TableElim DEF With
<1>2. DOMAIN f \cup {i} \in SUBSET Indices
  BY TableElim
<1>3. With(f, i, e) \in Tables
  BY <1>1, <1>2, TableIntro
<1>4. QED
  BY <1>3 DEF With

\* A table with some indices removed.
LEMMA WithoutTable ==
    ASSUME NEW f \in Tables, NEW gone
    PROVE  /\ Without(f, gone) \in Tables
           /\ DOMAIN Without(f, gone) = DOMAIN f \ gone
           /\ \A j \in DOMAIN f \ gone : Without(f, gone)[j] = f[j]
<1>1. Without(f, gone) \in [DOMAIN f \ gone -> Entries]
  BY TableElim DEF Without, Restrict
<1>2. DOMAIN f \ gone \in SUBSET Indices
  BY TableElim
<1>3. Without(f, gone) \in Tables
  BY <1>1, <1>2, TableIntro
<1>4. QED
  BY <1>3 DEF Without, Restrict

\* A table with one index changed.
LEMMA ExceptTable ==
    ASSUME NEW f \in Tables, NEW i \in DOMAIN f, NEW e \in Entries
    PROVE  /\ [f EXCEPT ![i] = e] \in Tables
           /\ DOMAIN [f EXCEPT ![i] = e] = DOMAIN f
           /\ [f EXCEPT ![i] = e][i] = e
           /\ \A j \in DOMAIN f \ {i} : [f EXCEPT ![i] = e][j] = f[j]
<1>1. [f EXCEPT ![i] = e] \in [DOMAIN f -> Entries]
  BY TableElim
<1>2. DOMAIN f \in SUBSET Indices
  BY TableElim
<1>3. QED
  BY <1>1, <1>2, TableIntro

\* A table made entry by entry from another.
LEMMA MapTable ==
    ASSUME NEW f \in Tables, NEW g \in [DOMAIN f -> Entries]
    PROVE  g \in Tables
<1>1. DOMAIN f \in SUBSET Indices
  BY TableElim
<1>2. QED
  BY <1>1, TableIntro

\* An image and its parts.
Parts(im, l, n, r, o) ==
    im \in Images /\ im.list = l /\ im.maxCount = n /\ im.ram = r /\ im.orderlyState = o

\* A copy of an image with some of its parts replaced.
LEMMA ImageList ==
    ASSUME NEW im \in Images, NEW l \in Tables
    PROVE  Parts([im EXCEPT !.list = l], l, im.maxCount, im.ram, im.orderlyState)
BY DEF Images, Parts

\* An image with a new list and a new end marker.
LEMMA ImageListCount ==
    ASSUME NEW im \in Images, NEW l \in Tables, NEW n \in Nat
    PROVE  Parts([im EXCEPT !.list = l, !.maxCount = n], l, n, im.ram, im.orderlyState)
BY Zenon DEF Images, Parts

\* An image with a new orderly state.
LEMMA ImageState ==
    ASSUME NEW im \in Images, NEW o \in OrderlyStates
    PROVE  Parts([im EXCEPT !.orderlyState = o], im.list, im.maxCount, im.ram, o)
BY DEF Images, Parts

\* An image into which the RAM area is copied at a shutdown.
LEMMA ImageRamState ==
    ASSUME NEW im \in Images, NEW r \in Tables, NEW o \in OrderlyStates
    PROVE  /\ Parts([im EXCEPT !.orderlyState = o, !.ram = r], im.list, im.maxCount, r, o)
           /\ Parts([im EXCEPT !.ram = r, !.orderlyState = o], im.list, im.maxCount, r, o)
BY Zenon DEF Images, Parts

\* An image with a new list and a new orderly state, as at a startup.
LEMMA ImageListState ==
    ASSUME NEW im \in Images, NEW l \in Tables, NEW o \in OrderlyStates
    PROVE  Parts([im EXCEPT !.list = l, !.orderlyState = o], l, im.maxCount, im.ram, o)
BY Zenon DEF Images, Parts

\* The parts of an image have their types, and make the image.
LEMMA ImageTypes ==
    ASSUME NEW im \in Images
    PROVE  /\ im.list \in Tables /\ im.ram \in Tables
           /\ im.maxCount \in Nat /\ im.orderlyState \in OrderlyStates
BY DEF Images

\* A copy of an image with one entry of its list replaced.
LEMMA ImageEntry ==
    ASSUME NEW im \in Images, NEW i \in DOMAIN im.list, NEW e \in Entries
    PROVE  Parts([im EXCEPT !.list[i] = e],
                 [im.list EXCEPT ![i] = e], im.maxCount, im.ram, im.orderlyState)
<1>1. [im.list EXCEPT ![i] = e] \in Tables
  BY ImageTypes, ExceptTable
<1>2. QED
  BY <1>1 DEF Images, Parts

\* Images are equal when their four parts are.
LEMMA ImageEqual ==
    ASSUME NEW im \in Images, NEW other \in Images,
           Parts(im, other.list, other.maxCount, other.ram, other.orderlyState)
    PROVE  im = other
BY DEF Images, Parts

-----------------------------------------------------------------------------
(* The copies of the state.                                                *)

CounterTables == UNION {[D -> Nat] : D \in SUBSET Indices}

Types ==
    /\ s_NV \in Images /\ disk \in Images
    /\ s_indexOrderlyRam \in Tables
    /\ s_maxCounter \in Nat
    /\ orderlyState \in OrderlyStates
    /\ g_updateNV \in {UT_NONE, UT_NV, UT_ORDERLY}
    /\ g_clearOrderly \in BOOLEAN /\ g_daUsed \in BOOLEAN
    /\ phase \in {"init", "ready", "busy", "failure"}

\* The orderly RAM tab belongs to the list l.
Layout(l, tab) ==
    /\ DOMAIN tab = {i \in DOMAIN l : l[i].public.orderly}
    /\ \A i \in DOMAIN tab : tab[i].public = l[i].public

\* The copy of the orderly RAM that the end of the command would store, and
\* whether the state would still be orderly.
FinalRam == IF g_updateNV = UT_ORDERLY THEN s_indexOrderlyRam ELSE s_NV.ram
StaysOrderly == IS_ORDERLY(orderlyState) /\ ~g_clearOrderly
Unsaved == g_updateNV # UT_NONE \/ (g_clearOrderly /\ IS_ORDERLY(orderlyState))

SameData(tab, other) ==
    \A i \in DOMAIN other : tab[i].data = other[i].data /\ tab[i].written = other[i].written

Copies ==
    /\ Layout(disk.list, disk.ram)
    /\ phase = "init" =>
          /\ s_NV = disk
          /\ IS_ORDERLY(orderlyState) \/ IS_ORDERLY(disk.orderlyState)
                => orderlyState = disk.orderlyState
    /\ phase \in {"ready", "busy"} =>
          /\ Layout(s_NV.list, s_indexOrderlyRam)
          /\ s_maxCounter = s_NV.maxCount
          /\ s_NV.orderlyState = orderlyState
    /\ phase = "ready" =>
          /\ s_NV = disk
          /\ IS_ORDERLY(orderlyState) => SameData(s_NV.ram, s_indexOrderlyRam)
    /\ phase = "busy" =>
          /\ Layout(s_NV.list, FinalRam)
          /\ ~Unsaved => s_NV = disk
          /\ StaysOrderly => SameData(FinalRam, s_indexOrderlyRam)

Storage == Types /\ Copies

\* Index i, with list l and orderly RAM tab.
Info(l, tab, i) == IF l[i].public.orderly THEN tab[i] ELSE l[i]

-----------------------------------------------------------------------------
(* Entries and counter values.                                             *)

\* counter | MAX_ORDERLY_COUNT is the last number of the counter's block.
LEMMA LowerBits ==
    ASSUME NEW c \in Nat
    PROVE  SetLowerBits(c) \in Nat /\ SetLowerBits(c) >= c
BY NVAssumption DEF SetLowerBits

\* An increment that does not roll over stays in the block.
LEMMA SameBlock ==
    ASSUME NEW c \in Nat, NEW n \in Nat, c <= n, n <= SetLowerBits(c),
           (n + 1) % RollOver # 0
    PROVE  n + 1 <= SetLowerBits(c)
<1> SUFFICES ASSUME n = SetLowerBits(c) PROVE (n + 1) % RollOver = 0
  BY LowerBits
<1>1. n + 1 = c + (RollOver - (c % RollOver))
  BY NVAssumption DEF SetLowerBits
<1>2. QED
  BY <1>1, NVAssumption

\* The entries that the operations make.
LEMMA FreshEntry ==
    ASSUME NEW t \in Templates
    PROVE  Fresh(t) \in Entries /\ Fresh(t).public = t /\ ~Fresh(t).written
BY DEF Fresh, Entries

\* An entry after a write or an increment.
LEMMA WrittenEntry ==
    ASSUME NEW e \in Entries, NEW v \in Nat
    PROVE  LET w == [e EXCEPT !.written = TRUE, !.data = v]
           IN  w \in Entries /\ w.public = e.public /\ w.written /\ w.data = v
BY Zenon DEF Entries

\* An entry after a read or write lock.
LEMMA LockedEntry ==
    ASSUME NEW e \in Entries
    PROVE  /\ [e EXCEPT !.writeLocked = TRUE] \in Entries
           /\ [e EXCEPT !.readLocked = TRUE] \in Entries
           /\ \A w \in {[e EXCEPT !.writeLocked = TRUE], [e EXCEPT !.readLocked = TRUE]} :
                 w.public = e.public /\ w.written = e.written /\ w.data = e.data
BY Zenon DEF Entries

\* An entry after the clean-up of a startup (NvSetStartupAttributes).
LEMMA StartupEntry ==
    ASSUME NEW e \in Entries, NEW reset \in BOOLEAN
    PROVE  LET w == NvSetStartupAttributes(e, reset)
           IN  /\ w \in Entries /\ w.public = e.public /\ w.data = e.data
               /\ e.public.counter => w.written = e.written
<1> DEFINE cleared == /\ ~e.public.counter
                      /\ e.public.clearStClear \/ (e.public.orderly /\ reset)
           b == e.written /\ ~cleared
           k == e.writeLocked /\ b /\ e.public.writeDefine
           w == NvSetStartupAttributes(e, reset)
<1>1. b \in BOOLEAN /\ k \in BOOLEAN
  OBVIOUS
<1>2. e.public.counter => b = e.written
  BY Zenon DEF Entries
<1>3. w = [e EXCEPT !.readLocked = FALSE, !.written = b, !.writeLocked = k]
  BY Zenon DEF NvSetStartupAttributes
<1> HIDE DEF w, b, k
<1>4. /\ w \in Entries /\ w.public = e.public /\ w.data = e.data
      /\ w.written = b
  BY <1>1, <1>3, Zenon DEF Entries
<1>5. QED
  BY <1>2, <1>4 DEF w

\* An orderly counter after a startup: moved up, unless there was a shutdown.
LEMMA MovedEntry ==
    ASSUME NEW e \in Entries
    PROVE  LET w == [e EXCEPT !.data = SetLowerBits(@)]
           IN  /\ w \in Entries /\ w.public = e.public /\ w.written = e.written
               /\ w.data = SetLowerBits(e.data)
<1>1. SetLowerBits(e.data) \in Nat
  BY LowerBits DEF Entries
<1>2. QED
  BY <1>1 DEF Entries

-----------------------------------------------------------------------------
(* What the steps of a command do to the tables.                           *)

\* NvGetIndexInfo finds an entry, in the list or in RAM.
LEMMA InfoType ==
    ASSUME Storage, phase = "ready", NEW i \in Defined
    PROVE  /\ s_NV.list \in Tables
           /\ i \in DOMAIN s_NV.list
           /\ Orderly(i) => i \in DOMAIN s_indexOrderlyRam
           /\ NvGetIndexInfo(i) \in Entries
           /\ NvGetIndexInfo(i).public = s_NV.list[i].public
           /\ NvGetIndexInfo(i) = Info(s_NV.list, s_indexOrderlyRam, i)
<1>1. s_NV.list \in Tables /\ s_indexOrderlyRam \in Tables
  BY ImageTypes DEF Storage, Types
<1>2. i \in DOMAIN s_NV.list
  BY DEF Defined
<1>3. Orderly(i) => /\ i \in DOMAIN s_indexOrderlyRam
                    /\ s_indexOrderlyRam[i].public = s_NV.list[i].public
  BY <1>2 DEF Storage, Copies, Layout, Orderly
<1>4. s_NV.list[i] \in Entries /\ (Orderly(i) => s_indexOrderlyRam[i] \in Entries)
  BY <1>1, <1>2, <1>3, TableElim
<1>5. QED
  BY <1>1, <1>2, <1>3, <1>4 DEF NvGetIndexInfo, Info, Orderly

\* A new entry for one index, where its attributes are.
Put(i, e) ==
    IF Orderly(i)
    THEN /\ s_indexOrderlyRam' = [s_indexOrderlyRam EXCEPT ![i] = e]
         /\ UNCHANGED s_NV
    ELSE /\ s_NV' = [s_NV EXCEPT !.list[i] = e]
         /\ UNCHANGED s_indexOrderlyRam

\* Put replaces one entry in the list or in RAM and keeps both tables.
LEMMA PutTables ==
    ASSUME Storage, phase = "ready", NEW i \in Defined, NEW e \in Entries,
           e.public = s_NV.list[i].public, Put(i, e)
    PROVE  /\ s_NV' \in Images /\ s_indexOrderlyRam' \in Tables
           /\ s_NV'.ram = s_NV.ram /\ s_NV'.maxCount = s_NV.maxCount
           /\ s_NV'.orderlyState = s_NV.orderlyState
           /\ DOMAIN s_NV'.list = DOMAIN s_NV.list
           /\ DOMAIN s_indexOrderlyRam' = DOMAIN s_indexOrderlyRam
           /\ \A j \in DOMAIN s_NV.list :
                 /\ s_NV'.list[j].public = s_NV.list[j].public
                 /\ j # i => s_NV'.list[j] = s_NV.list[j]
           /\ \A j \in DOMAIN s_indexOrderlyRam :
                 /\ s_indexOrderlyRam'[j].public = s_indexOrderlyRam[j].public
                 /\ j # i => s_indexOrderlyRam'[j] = s_indexOrderlyRam[j]
           /\ IF Orderly(i) THEN s_indexOrderlyRam'[i] = e ELSE s_NV'.list[i] = e
           /\ Orderly(i) => s_NV' = s_NV
<1> USE InfoType
<1>1. s_NV \in Images /\ s_indexOrderlyRam \in Tables
  BY DEF Storage, Types
<1>2. CASE Orderly(i)
  <2>1. s_NV' = s_NV /\ s_indexOrderlyRam' = [s_indexOrderlyRam EXCEPT ![i] = e]
    BY <1>2 DEF Put
  <2>2. s_indexOrderlyRam[i].public = e.public
    BY <1>2 DEF NvGetIndexInfo
  <2>3. QED
    BY <1>1, <1>2, <2>1, <2>2, ExceptTable, Zenon
<1>3. CASE ~Orderly(i)
  <2>1. /\ s_NV' = [s_NV EXCEPT !.list[i] = e]
        /\ s_indexOrderlyRam' = s_indexOrderlyRam
    BY <1>3 DEF Put
  <2>2. Parts(s_NV', [s_NV.list EXCEPT ![i] = e], s_NV.maxCount, s_NV.ram, s_NV.orderlyState)
    BY <1>1, <2>1, ImageEntry
  <2>3. QED
    BY <1>1, <1>3, <2>1, <2>2, ExceptTable DEF Parts
<1>4. QED
  BY <1>2, <1>3

-----------------------------------------------------------------------------
(* Every step keeps Storage.                                               *)

Updates == {UT_NONE, UT_NV, UT_ORDERLY}

\* Between commands everything is stored.
LEMMA ReadyFacts ==
    ASSUME Storage, phase = "ready"
    PROVE  /\ s_NV = disk /\ s_NV \in Images /\ s_indexOrderlyRam \in Tables
           /\ s_NV.list \in Tables /\ s_NV.ram \in Tables
           /\ Layout(s_NV.list, s_NV.ram)
           /\ Layout(s_NV.list, s_indexOrderlyRam)
           /\ s_maxCounter = s_NV.maxCount /\ s_NV.maxCount \in Nat
           /\ s_NV.orderlyState = orderlyState
           /\ IS_ORDERLY(orderlyState) => SameData(s_NV.ram, s_indexOrderlyRam)
BY ImageTypes DEF Storage, Types, Copies

\* A layout depends on the public areas alone.
LEMMA LayoutKept ==
    ASSUME NEW l, NEW tab, NEW l2, NEW tab2, Layout(l, tab),
           DOMAIN l2 = DOMAIN l, \A j \in DOMAIN l : l2[j].public = l[j].public,
           DOMAIN tab2 = DOMAIN tab, \A j \in DOMAIN tab : tab2[j].public = tab[j].public
    PROVE  Layout(l2, tab2)
<1>1. {i \in DOMAIN l2 : l2[i].public.orderly} = {i \in DOMAIN l : l[i].public.orderly}
  OBVIOUS
<1>2. \A j \in DOMAIN tab2 : tab2[j].public = l2[j].public
  BY DEF Layout
<1>3. QED
  BY <1>1, <1>2 DEF Layout

\* What a handler has to show.
LEMMA HandlerStorage ==
    ASSUME Storage, NEW u \in Updates, NEW c \in BOOLEAN, Handle(u, c),
           s_NV' \in Images, s_indexOrderlyRam' \in Tables,
           s_maxCounter' = s_NV'.maxCount,
           g_daUsed' \in BOOLEAN,
           orderlyState' = s_NV'.orderlyState,
           Layout(s_NV'.list, s_indexOrderlyRam'),
           u # UT_ORDERLY => Layout(s_NV'.list, s_NV'.ram),
           u = UT_NONE => s_NV' = s_NV,
           IS_ORDERLY(orderlyState') /\ ~c /\ u # UT_ORDERLY =>
               SameData(s_NV'.ram, s_indexOrderlyRam')
    PROVE  Storage'
<1>1. /\ phase = "ready" /\ phase' = "busy" /\ g_updateNV' = u /\ g_clearOrderly' = c
      /\ disk' = disk
  BY DEF Handle
<1>2. Types'
  <2>1. s_maxCounter' \in Nat /\ orderlyState' \in OrderlyStates
    BY ImageTypes
  <2>2. g_clearOrderly' \in BOOLEAN
    BY <1>1, Zenon
  <2>3. g_updateNV' \in {UT_NONE, UT_NV, UT_ORDERLY}
    BY <1>1 DEF Updates
  <2>4. QED
    BY <1>1, <2>1, <2>2, <2>3 DEF Types, Storage
<1>3. FinalRam' = IF u = UT_ORDERLY THEN s_indexOrderlyRam' ELSE s_NV'.ram
  BY <1>1 DEF FinalRam
<1>4. Layout(s_NV'.list, FinalRam')
  BY <1>3
<1>5. StaysOrderly' => SameData(FinalRam', s_indexOrderlyRam')
  <2>1. StaysOrderly' => IS_ORDERLY(orderlyState') /\ ~c
    BY <1>1, Zenon DEF StaysOrderly, IS_ORDERLY
  <2>2. u = UT_ORDERLY => SameData(FinalRam', s_indexOrderlyRam')
    BY <1>3 DEF SameData
  <2>3. QED
    BY <1>3, <2>1, <2>2
<1>6. ~Unsaved' => s_NV' = disk'
  <2>1. ~Unsaved' => u = UT_NONE
    BY <1>1 DEF Unsaved
  <2>2. QED
    BY <1>1, <2>1, ReadyFacts
<1>7. Copies'
  BY <1>1, <1>4, <1>5, <1>6 DEF Copies, Storage
<1>8. QED
  BY <1>2, <1>7 DEF Storage

\* A new entry for one index: a write, an increment, or a lock.
LEMMA PutStorage ==
    ASSUME Storage, NEW u \in Updates, NEW c \in BOOLEAN, Handle(u, c),
           NEW i \in Defined, NEW e \in Entries,
           e.public = s_NV.list[i].public, Put(i, e),
           UNCHANGED <<s_maxCounter, g_daUsed, orderlyState>>,
           ~Orderly(i) => u # UT_NONE,
           Orderly(i) /\ ~c /\ u # UT_ORDERLY =>
               e.data = NvGetIndexInfo(i).data /\ e.written = NvGetIndexInfo(i).written
    PROVE  Storage'
<1>0. phase = "ready"
  BY DEF Handle
<1>1. /\ s_NV' \in Images /\ s_indexOrderlyRam' \in Tables
      /\ Layout(s_NV'.list, s_indexOrderlyRam')
      /\ Layout(s_NV'.list, s_NV'.ram)
  <2>1. Layout(s_NV.list, s_indexOrderlyRam) /\ Layout(s_NV.list, s_NV.ram)
    BY <1>0, ReadyFacts
  <2>2. /\ s_NV' \in Images /\ s_indexOrderlyRam' \in Tables /\ s_NV'.ram = s_NV.ram
        /\ DOMAIN s_NV'.list = DOMAIN s_NV.list
        /\ DOMAIN s_indexOrderlyRam' = DOMAIN s_indexOrderlyRam
        /\ \A j \in DOMAIN s_NV.list : s_NV'.list[j].public = s_NV.list[j].public
        /\ \A j \in DOMAIN s_indexOrderlyRam :
              s_indexOrderlyRam'[j].public = s_indexOrderlyRam[j].public
    BY <1>0, PutTables
  <2>3. QED
    BY <2>1, <2>2, LayoutKept
<1>2. s_maxCounter' = s_NV'.maxCount /\ orderlyState' = s_NV'.orderlyState
  BY <1>0, PutTables, ReadyFacts
<1>3. u = UT_NONE => s_NV' = s_NV
  BY <1>0, PutTables
<1>4. g_daUsed' \in BOOLEAN
  BY Zenon DEF Storage, Types
<1>5. ASSUME IS_ORDERLY(orderlyState'), ~c, u # UT_ORDERLY
      PROVE  SameData(s_NV'.ram, s_indexOrderlyRam')
  <2>1. SameData(s_NV.ram, s_indexOrderlyRam)
    BY <1>0, <1>5, ReadyFacts, ZenonT(60)
  <2>2. CASE Orderly(i)
    BY <1>0, <1>5, <2>1, <2>2, PutTables, InfoType DEF SameData, NvGetIndexInfo
  <2>3. CASE ~Orderly(i)
    <3>1. s_indexOrderlyRam' = s_indexOrderlyRam /\ s_NV'.ram = s_NV.ram
      BY <1>0, <2>3, PutTables DEF Put
    <3>2. QED
      BY <2>1, <3>1
  <2>4. QED
    BY <2>2, <2>3
<1>6. QED
  BY <1>1, <1>2, <1>3, <1>4, <1>5, HandlerStorage

\* The image and the RAM area after TPM2_NV_DefineSpace.
LEMMA DefineTables ==
    ASSUME Storage, NEW i \in Indices, NEW t \in Templates, NV_DefineSpace(i, t)
    PROVE  /\ phase = "ready" /\ i \notin DOMAIN s_NV.list
           /\ Parts(s_NV', With(s_NV.list, i, Fresh(t)), s_maxCounter, s_NV.ram,
                    s_NV.orderlyState)
           /\ s_indexOrderlyRam' = IF t.orderly THEN With(s_indexOrderlyRam, i, Fresh(t))
                                                 ELSE s_indexOrderlyRam
           /\ s_indexOrderlyRam' \in Tables
<1>1. phase = "ready" /\ i \notin DOMAIN s_NV.list
  BY DEF NV_DefineSpace, Handle, NvDefineIndex, Defined
<1>2. Fresh(t) \in Entries
  BY FreshEntry
<1>3. With(s_NV.list, i, Fresh(t)) \in Tables /\ With(s_indexOrderlyRam, i, Fresh(t)) \in Tables
  BY <1>1, <1>2, ReadyFacts, WithTable, Zenon
<1>4. s_NV' = [s_NV EXCEPT !.list = With(s_NV.list, i, Fresh(t)), !.maxCount = s_maxCounter]
  BY DEF NV_DefineSpace, NvDefineIndex
<1>5. Parts(s_NV', With(s_NV.list, i, Fresh(t)), s_maxCounter, s_NV.ram, s_NV.orderlyState)
  BY <1>1, <1>3, <1>4, ReadyFacts, ImageListCount, Zenon
<1>6. QED
  BY <1>1, <1>3, <1>5, ReadyFacts DEF NV_DefineSpace, NvDefineIndex

\* TPM2_NV_DefineSpace keeps Storage.
LEMMA DefineStorage ==
    ASSUME Storage, NEW i \in Indices, NEW t \in Templates, NV_DefineSpace(i, t)
    PROVE  Storage'
<1> DEFINE u == IF t.orderly THEN UT_ORDERLY ELSE UT_NV
           l == With(s_NV.list, i, Fresh(t))
<1>1. phase = "ready" /\ i \notin DOMAIN s_NV.list
  BY DefineTables
<1>2. Handle(u, FALSE) /\ u \in Updates /\ u # UT_NONE /\ (t.orderly <=> u = UT_ORDERLY)
  <2>1. Handle(u, FALSE)
    BY Zenon DEF NV_DefineSpace
  <2>2. u \in Updates /\ u # UT_NONE /\ (t.orderly <=> u = UT_ORDERLY)
    BY DEF Updates, UT_NONE, UT_NV, UT_ORDERLY
  <2>3. QED
    BY <2>1, <2>2, Zenon
<1>3. /\ s_NV' \in Images /\ s_NV'.list = l /\ s_NV'.maxCount = s_maxCounter
      /\ s_NV'.ram = s_NV.ram /\ s_NV'.orderlyState = s_NV.orderlyState
      /\ s_indexOrderlyRam' \in Tables
  BY DefineTables DEF Parts
<1>4. UNCHANGED <<s_maxCounter, g_daUsed, orderlyState>>
  BY DEF NV_DefineSpace, NvDefineIndex
<1>5. g_daUsed' \in BOOLEAN
  BY <1>4, Zenon DEF Storage, Types
<1>6. /\ DOMAIN l = DOMAIN s_NV.list \cup {i} /\ l[i].public = t
      /\ \A j \in DOMAIN s_NV.list : l[j] = s_NV.list[j]
  BY <1>1, FreshEntry DEF With
<1> HIDE DEF l, u
<1>7. CASE t.orderly
  <2>1. s_indexOrderlyRam' = With(s_indexOrderlyRam, i, Fresh(t))
    BY <1>7, DefineTables
  <2>2. /\ DOMAIN s_indexOrderlyRam' = DOMAIN s_indexOrderlyRam \cup {i}
        /\ s_indexOrderlyRam'[i].public = t
        /\ \A j \in DOMAIN s_indexOrderlyRam \ {i} :
              s_indexOrderlyRam'[j] = s_indexOrderlyRam[j]
    BY <1>1, <2>1, ReadyFacts, FreshEntry, WithTable, SMTT(60), Z3T(60)
  <2>3. Layout(s_NV'.list, s_indexOrderlyRam')
    <3>1. Layout(s_NV.list, s_indexOrderlyRam)
      BY <1>1, ReadyFacts
    <3>2. QED
      BY <1>1, <1>3, <1>6, <1>7, <2>2, <3>1 DEF Layout
  <2>4. QED
    BY <1>1, <1>2, <1>3, <1>4, <1>5, <1>7, <2>3, ReadyFacts, HandlerStorage, Zenon
<1>8. CASE ~t.orderly
  <2>1. s_indexOrderlyRam' = s_indexOrderlyRam
    BY <1>8, DefineTables
  <2>2. ASSUME NEW tab, Layout(s_NV.list, tab) PROVE Layout(s_NV'.list, tab)
    BY <1>1, <1>3, <1>6, <1>8, <2>2 DEF Layout
  <2>3. QED
    BY <1>1, <1>2, <1>3, <1>4, <1>5, <1>8, <2>1, <2>2, ReadyFacts, HandlerStorage, Zenon
<1>9. QED
  BY <1>7, <1>8

\* The maximal count after a deletion.
LEMMA DeleteCount ==
    ASSUME NEW gone, NEW info, s_maxCounter \in Nat,
           \A i \in gone : info[i] \in Entries,
           NvUpdateMaxCount(gone, info)
    PROVE  /\ s_maxCounter' \in Nat /\ s_maxCounter' >= s_maxCounter
           /\ gone = {} => s_maxCounter' = s_maxCounter
           /\ \A i \in gone : info[i].public.counter /\ info[i].written
                 => s_maxCounter' >= info[i].data
<1> DEFINE counters == {i \in gone : info[i].public.counter /\ info[i].written}
           S == {s_maxCounter} \cup {info[i].data : i \in counters}
<1>1. s_maxCounter' \in S /\ \A n \in S : n <= s_maxCounter'
  BY DEF NvUpdateMaxCount, Greatest
<1>2. \A i \in counters : info[i].data \in Nat
  BY DEF Entries
<1>3. s_maxCounter' \in Nat
  BY <1>1, <1>2
<1>4. \A i \in gone : info[i].public.counter /\ info[i].written => info[i].data \in S
  OBVIOUS
<1>5. gone = {} => S = {s_maxCounter}
  OBVIOUS
<1> HIDE DEF S
<1>6. QED
  BY <1>1, <1>2, <1>3, <1>4, <1>5 DEF S

\* The image and the RAM area after a deletion.
LEMMA DeleteTables ==
    ASSUME Storage, phase = "ready", NEW gone, NEW info,
           \A i \in gone : info[i] \in Entries,
           NvDeleteIndices(gone, info)
    PROVE  /\ Parts(s_NV', Without(s_NV.list, gone), s_maxCounter', s_NV.ram,
                    s_NV.orderlyState)
           /\ s_indexOrderlyRam' = Without(s_indexOrderlyRam, gone)
           /\ s_indexOrderlyRam' \in Tables
           /\ s_maxCounter' \in Nat
<1>1. /\ s_maxCounter' \in Nat
      /\ (IF gone = {} THEN s_NV.maxCount ELSE s_maxCounter') = s_maxCounter'
  BY ReadyFacts, DeleteCount DEF NvDeleteIndices
<1>2. Without(s_NV.list, gone) \in Tables /\ Without(s_indexOrderlyRam, gone) \in Tables
  BY ReadyFacts, WithoutTable, Zenon
<1>3. s_NV' = [s_NV EXCEPT !.list = Without(s_NV.list, gone), !.maxCount = s_maxCounter']
  BY <1>1, Zenon DEF NvDeleteIndices
<1>4. Parts(s_NV', Without(s_NV.list, gone), s_maxCounter', s_NV.ram, s_NV.orderlyState)
  BY <1>1, <1>2, <1>3, ReadyFacts, ImageListCount, Zenon
<1>5. QED
  BY <1>1, <1>2, <1>4 DEF NvDeleteIndices

\* A deletion keeps Storage if it asks for RAM to be stored whenever RAM changes.
LEMMA DeleteStorage ==
    ASSUME Storage, NEW u \in Updates, NEW c \in BOOLEAN, Handle(u, c),
           NEW gone, NEW info,
           \A i \in gone : info[i] \in Entries,
           NvDeleteIndices(gone, info),
           UNCHANGED <<g_daUsed, orderlyState>>,
           u # UT_NONE,
           u # UT_ORDERLY => \A i \in gone \cap DOMAIN s_NV.list : ~Orderly(i)
    PROVE  Storage'
<1>0. phase = "ready"
  BY DEF Handle
<1> DEFINE l == Without(s_NV.list, gone)
           tab == Without(s_indexOrderlyRam, gone)
<1>1. /\ s_NV' \in Images /\ s_NV'.list = l /\ s_NV'.maxCount = s_maxCounter'
      /\ s_NV'.ram = s_NV.ram /\ s_NV'.orderlyState = s_NV.orderlyState
      /\ s_indexOrderlyRam' = tab /\ tab \in Tables
  BY <1>0, DeleteTables DEF Parts
<1>2. /\ DOMAIN l = DOMAIN s_NV.list \ gone
      /\ \A j \in DOMAIN l : l[j] = s_NV.list[j]
      /\ DOMAIN tab = DOMAIN s_indexOrderlyRam \ gone
      /\ \A j \in DOMAIN tab : tab[j] = s_indexOrderlyRam[j]
  <2>1. s_NV.list \in Tables /\ s_indexOrderlyRam \in Tables
    BY <1>0, ReadyFacts
  <2>2. /\ DOMAIN l = DOMAIN s_NV.list \ gone
        /\ \A j \in DOMAIN s_NV.list \ gone : l[j] = s_NV.list[j]
    BY <2>1, WithoutTable, Zenon
  <2>3. /\ DOMAIN tab = DOMAIN s_indexOrderlyRam \ gone
        /\ \A j \in DOMAIN s_indexOrderlyRam \ gone : tab[j] = s_indexOrderlyRam[j]
    BY <2>1, WithoutTable, Zenon
  <2> HIDE DEF l, tab
  <2>4. QED
    BY <2>2, <2>3
<1> HIDE DEF l, tab
<1>3. g_daUsed' \in BOOLEAN
  BY ZenonT(60) DEF Storage, Types
<1>4. Layout(l, tab)
  <2>1. Layout(s_NV.list, s_indexOrderlyRam)
    BY <1>0, ReadyFacts
  <2>2. QED
    BY <1>2, <2>1 DEF Layout
<1>5. u # UT_ORDERLY => Layout(l, s_NV.ram)
  <2>1. Layout(s_NV.list, s_NV.ram)
    BY <1>0, ReadyFacts
  <2>2. QED
    BY <1>2, <2>1 DEF Layout, Orderly
<1>6. IS_ORDERLY(orderlyState') => SameData(s_NV.ram, tab)
  <2>1. IS_ORDERLY(orderlyState) => SameData(s_NV.ram, s_indexOrderlyRam)
    BY <1>0, ReadyFacts
  <2>2. QED
    BY <1>2, <2>1 DEF SameData
<1>7. QED
  BY <1>0, <1>1, <1>3, <1>4, <1>5, <1>6, ReadyFacts, HandlerStorage

\* What deleting one index, and TPM2_Clear, delete.
LEMMA UndefineInfo ==
    ASSUME Storage, NEW i \in Indices, NV_UndefineSpace(i)
    PROVE  LET info == [j \in {i} |-> NvGetIndexInfo(j)]
               u == IF Orderly(i) THEN UT_ORDERLY ELSE UT_NV
           IN  /\ phase = "ready" /\ i \in Defined
               /\ \A j \in {i} : info[j] \in Entries
               /\ u \in Updates /\ u # UT_NONE /\ (u # UT_ORDERLY => ~Orderly(i))
<1>1. phase = "ready" /\ i \in Defined
  BY DEF NV_UndefineSpace, Accepts
<1>2. NvGetIndexInfo(i) \in Entries
  BY <1>1, InfoType
<1>3. QED
  BY <1>1, <1>2 DEF Updates, UT_NONE, UT_NV, UT_ORDERLY

\* TPM2_NV_UndefineSpace keeps Storage.
LEMMA UndefineStorage ==
    ASSUME Storage, NEW i \in Indices, NV_UndefineSpace(i)
    PROVE  Storage'
<1> DEFINE info == [j \in {i} |-> NvGetIndexInfo(j)]
           u == IF Orderly(i) THEN UT_ORDERLY ELSE UT_NV
<1>1. /\ \A j \in {i} : info[j] \in Entries
      /\ u \in Updates /\ u # UT_NONE /\ (u # UT_ORDERLY => ~Orderly(i))
  BY UndefineInfo
<1>2. /\ Handle(u, FALSE) /\ NvDeleteIndices({i}, info)
      /\ UNCHANGED <<g_daUsed, orderlyState>>
  BY Zenon DEF NV_UndefineSpace
<1> HIDE DEF info, u
<1>3. QED
  BY <1>1, <1>2, DeleteStorage, Zenon

Owned == {i \in Defined : ~s_NV.list[i].public.platformCreate}

\* TPM2_Clear, which deletes all the owner's indices, keeps Storage.
LEMMA ClearStorage == ASSUME Storage, TPM2_Clear PROVE Storage'
<1> DEFINE u == IF \E i \in Owned : Orderly(i) THEN UT_ORDERLY ELSE UT_NV
<1>1. /\ Handle(u, TRUE) /\ NvDeleteIndices(Owned, s_NV.list)
      /\ UNCHANGED <<g_daUsed, orderlyState>>
  BY Zenon DEF TPM2_Clear, Owned
<1>2. u \in Updates /\ u # UT_NONE
  BY DEF Updates, UT_NONE, UT_NV, UT_ORDERLY
<1>3. u # UT_ORDERLY => \A i \in Owned \cap DOMAIN s_NV.list : ~Orderly(i)
  OBVIOUS
<1>4. \A i \in Owned : s_NV.list[i] \in Entries
  BY <1>1, ReadyFacts, TableElim, ZenonT(60) DEF Handle, Owned, Defined
<1> HIDE DEF u
<1>5. QED
  BY <1>1, <1>2, <1>3, <1>4, DeleteStorage, Zenon

\* A write and an increment put a written entry.
LEMMA WriteStorage ==
    ASSUME Storage, NEW i \in Defined, NEW v \in Nat,
           NEW u \in Updates, NEW c \in BOOLEAN, Handle(u, c),
           NvWriteIndexData(i, v),
           Orderly(i) => c, ~Orderly(i) => u # UT_NONE
    PROVE  Storage'
<1> DEFINE e == [NvGetIndexInfo(i) EXCEPT !.written = TRUE, !.data = v]
<1>1. NvGetIndexInfo(i) \in Entries /\ NvGetIndexInfo(i).public = s_NV.list[i].public
  BY InfoType DEF Handle
<1>2. e \in Entries /\ e.public = s_NV.list[i].public
  BY <1>1, WrittenEntry, Zenon
<1>3. Put(i, e) /\ UNCHANGED <<s_maxCounter, g_daUsed, orderlyState>>
  BY DEF NvWriteIndexData, Put
<1> HIDE DEF e
<1>4. QED
  BY <1>2, <1>3, PutStorage

\* A lock changes neither data nor WRITTEN.
LEMMA LockStorage ==
    ASSUME Storage, NEW i \in Defined, NEW e \in Entries,
           phase = "ready",
           e.public = NvGetIndexInfo(i).public,
           e.data = NvGetIndexInfo(i).data, e.written = NvGetIndexInfo(i).written,
           NvWriteIndexAttributes(i, e)
    PROVE  Storage'
<1> DEFINE u == IF Orderly(i) THEN UT_NONE ELSE UT_NV
<1>1. u \in Updates /\ (~Orderly(i) => u # UT_NONE)
  BY DEF Updates, UT_NONE, UT_NV, UT_ORDERLY
<1>2. /\ Handle(u, FALSE) /\ Put(i, e)
      /\ UNCHANGED <<s_maxCounter, g_daUsed, orderlyState>>
  BY Zenon DEF NvWriteIndexAttributes, Put
<1>3. e.public = s_NV.list[i].public
  BY InfoType
<1> HIDE DEF u
<1>4. QED
  BY <1>1, <1>2, <1>3, PutStorage, Zenon

\* ORDERLY is a bit.
LEMMA OrderlyBoolean ==
    ASSUME Storage, phase = "ready", NEW i \in Defined
    PROVE  Orderly(i) \in BOOLEAN
<1>1. s_NV.list[i] \in Entries
  BY ReadyFacts, TableElim DEF Defined
<1>2. s_NV.list[i].public \in PublicAreas
  BY <1>1, NVAssumption DEF Entries
<1>3. QED
  BY <1>2 DEF Orderly, PublicAreas

\* The number a counter is given.
LEMMA NextCountType ==
    ASSUME Storage, phase = "ready", NEW i \in Defined
    PROVE  NextCount(i) \in Nat
<1>1. NvGetIndexInfo(i) \in Entries
  BY InfoType
<1>2. NvGetIndexInfo(i).data \in Nat
  BY <1>1 DEF Entries
<1>3. QED
  BY <1>2, ReadyFacts DEF NextCount

\* The image and the RAM area after TPM2_NV_GlobalWriteLock.
LEMMA GlobalLockTables ==
    ASSUME NEW f \in Tables, NEW local \in BOOLEAN
    PROVE  /\ Lock(f, local) \in Tables /\ DOMAIN Lock(f, local) = DOMAIN f
           /\ \A i \in DOMAIN f :
                 /\ Lock(f, local)[i].public = f[i].public
                 /\ Lock(f, local)[i].data = f[i].data
                 /\ Lock(f, local)[i].written = f[i].written
<1>1. \A i \in DOMAIN f : f[i] \in Entries /\ [f[i] EXCEPT !.writeLocked = TRUE] \in Entries
  BY TableElim, LockedEntry, Zenon
<1>2. Lock(f, local) \in [DOMAIN f -> Entries]
  BY <1>1 DEF Lock
<1>3. Lock(f, local) \in Tables
  BY <1>2, MapTable
<1>4. \A i \in DOMAIN f :
         Lock(f, local)[i] = f[i] \/ Lock(f, local)[i] = [f[i] EXCEPT !.writeLocked = TRUE]
  BY DEF Lock
<1>5. QED
  BY <1>1, <1>2, <1>3, <1>4, LockedEntry, Zenon

\* TPM2_NV_GlobalWriteLock keeps Storage.
LEMMA GlobalLockStorage == ASSUME Storage, NV_GlobalWriteLock PROVE Storage'
<1> DEFINE u == IF s_NV' # s_NV THEN UT_NV ELSE UT_NONE
           l == Lock(s_NV.list, TRUE)
<1>1. /\ s_NV' = [s_NV EXCEPT !.list = l] /\ s_indexOrderlyRam' = Lock(s_indexOrderlyRam, FALSE)
      /\ Handle(u, FALSE) /\ UNCHANGED <<s_maxCounter, g_daUsed, orderlyState>>
  BY Zenon DEF NV_GlobalWriteLock
<1>2. u \in Updates /\ (u = UT_NONE => s_NV' = s_NV)
  BY DEF Updates, UT_NONE, UT_NV, UT_ORDERLY
<1> HIDE DEF u
<1>3. phase = "ready"
  BY <1>1 DEF Handle
<1>4. /\ l \in Tables /\ DOMAIN l = DOMAIN s_NV.list
      /\ \A i \in DOMAIN s_NV.list : l[i].public = s_NV.list[i].public
  BY <1>3, ReadyFacts, GlobalLockTables, Zenon
<1>5. /\ s_indexOrderlyRam' \in Tables
      /\ DOMAIN s_indexOrderlyRam' = DOMAIN s_indexOrderlyRam
      /\ \A i \in DOMAIN s_indexOrderlyRam :
            /\ s_indexOrderlyRam'[i].public = s_indexOrderlyRam[i].public
            /\ s_indexOrderlyRam'[i].data = s_indexOrderlyRam[i].data
            /\ s_indexOrderlyRam'[i].written = s_indexOrderlyRam[i].written
  BY <1>1, <1>3, ReadyFacts, GlobalLockTables, Zenon
<1> HIDE DEF l
<1>6. Parts(s_NV', l, s_NV.maxCount, s_NV.ram, s_NV.orderlyState)
  BY <1>1, <1>3, <1>4, ReadyFacts, ImageList
<1>7. g_daUsed' \in BOOLEAN
  BY <1>1, Zenon DEF Storage, Types
<1>8. Layout(s_NV'.list, s_indexOrderlyRam') /\ Layout(s_NV'.list, s_NV'.ram)
  BY <1>3, <1>4, <1>5, <1>6, ReadyFacts, LayoutKept DEF Parts
<1>9. IS_ORDERLY(orderlyState') => SameData(s_NV'.ram, s_indexOrderlyRam')
  BY <1>1, <1>3, <1>5, <1>6, ReadyFacts, ZenonT(60) DEF SameData, Parts
<1>10. QED
  BY <1>1, <1>2, <1>3, <1>5, <1>6, <1>7, <1>8, <1>9, ReadyFacts, HandlerStorage, Zenon DEF Parts

\* The mark that CheckLockedOut leaves keeps Storage.
LEMMA LockedOutStorage == ASSUME Storage, CheckLockedOut PROVE Storage'
<1>1. /\ Handle(UT_NV, FALSE) /\ g_daUsed' = TRUE /\ orderlyState' = "DA_USED"
      /\ s_NV' = [s_NV EXCEPT !.orderlyState = "DA_USED"]
      /\ UNCHANGED <<s_indexOrderlyRam, s_maxCounter>>
  BY Zenon DEF CheckLockedOut
<1>2. phase = "ready" /\ UT_NV \in Updates /\ UT_NV # UT_NONE
  BY <1>1 DEF Handle, Updates, UT_NV, UT_NONE
<1>3. "DA_USED" \in OrderlyStates /\ ~IS_ORDERLY("DA_USED")
  BY DEF OrderlyStates, IS_ORDERLY, Shutdowns
<1>4. Parts(s_NV', s_NV.list, s_NV.maxCount, s_NV.ram, "DA_USED")
  BY <1>1, <1>2, <1>3, ReadyFacts, ImageState
<1>5. g_daUsed' \in BOOLEAN
  BY <1>1, Zenon
<1>6. QED
  BY <1>1, <1>2, <1>3, <1>4, <1>5, ReadyFacts, HandlerStorage, Zenon DEF Parts

\* A command that only ends the orderly state keeps Storage.
LEMMA ClearOrderlyStorage == ASSUME Storage, NvClearOrderly PROVE Storage'
<1>1. /\ Handle(UT_NONE, TRUE) /\ UT_NONE \in Updates
      /\ UNCHANGED <<s_NV, s_indexOrderlyRam, s_maxCounter, g_daUsed, orderlyState>>
  BY Zenon DEF NvClearOrderly, Updates, ram
<1>2. phase = "ready"
  BY <1>1 DEF Handle
<1>3. g_daUsed' \in BOOLEAN
  BY <1>1, Zenon DEF Storage, Types
<1>4. QED
  BY <1>1, <1>2, <1>3, ReadyFacts, HandlerStorage, Zenon

\* TPM2_Shutdown copies RAM into the image.
LEMMA ShutdownTables ==
    ASSUME Storage, NEW type \in Shutdowns, TPM2_Shutdown(type)
    PROVE  /\ phase = "ready"
           /\ Parts(s_NV', s_NV.list, s_NV.maxCount, s_indexOrderlyRam, type)
<1>1. phase = "ready"
  BY DEF TPM2_Shutdown, Handle
<1>2. s_NV' = [s_NV EXCEPT !.ram = s_indexOrderlyRam, !.orderlyState = type]
  BY DEF TPM2_Shutdown
<1>3. type \in OrderlyStates
  BY DEF OrderlyStates
<1>4. QED
  BY <1>1, <1>2, <1>3, ReadyFacts, ImageRamState, Zenon

\* TPM2_Shutdown keeps Storage.
LEMMA ShutdownStorage ==
    ASSUME Storage, NEW type \in Shutdowns, TPM2_Shutdown(type)
    PROVE  Storage'
<1>1. /\ Handle(UT_NV, FALSE) /\ g_daUsed' = FALSE /\ orderlyState' = type
      /\ UNCHANGED <<s_indexOrderlyRam, s_maxCounter>>
  BY Zenon DEF TPM2_Shutdown
<1>2. UT_NV \in Updates /\ UT_NV # UT_NONE
  BY DEF Updates, UT_NV, UT_NONE
<1>3. g_daUsed' \in BOOLEAN
  BY <1>1, Zenon
<1>4. SameData(s_indexOrderlyRam, s_indexOrderlyRam)
  BY DEF SameData
<1>5. QED
  BY <1>1, <1>2, <1>3, <1>4, ShutdownTables, ReadyFacts, HandlerStorage, Zenon DEF Parts

\* The end of a command in the terms of Copies.
LEMMA FinalFacts ==
    ASSUME Storage, phase = "busy"
    PROVE  /\ Parts(FinalImage, s_NV.list, s_NV.maxCount, FinalRam, FinalOrderlyState)
           /\ FinalRam \in Tables /\ FinalOrderlyState \in OrderlyStates
           /\ IS_ORDERLY(FinalOrderlyState) <=> StaysOrderly
           /\ MustCommit <=> Unsaved
           /\ ~Unsaved => FinalImage = s_NV /\ FinalRam = s_NV.ram
<1>1. s_NV \in Images /\ s_indexOrderlyRam \in Tables /\ s_NV.ram \in Tables
      /\ s_NV.orderlyState = orderlyState /\ orderlyState \in OrderlyStates
  BY ImageTypes DEF Storage, Types, Copies
<1>2. FinalRam \in Tables
  BY <1>1 DEF FinalRam
<1>3. FinalOrderlyState \in OrderlyStates
  BY <1>1 DEF FinalOrderlyState, OrderlyStates
<1>4. IS_ORDERLY(FinalOrderlyState) <=> StaysOrderly
  BY DEF FinalOrderlyState, StaysOrderly, IS_ORDERLY, Shutdowns
<1>5. FinalOrderlyState # orderlyState <=> g_clearOrderly /\ IS_ORDERLY(orderlyState)
  BY DEF FinalOrderlyState, IS_ORDERLY, Shutdowns
<1>6. MustCommit <=> Unsaved
  BY <1>5 DEF MustCommit, Unsaved
<1>7. FinalImage = [s_NV EXCEPT !.orderlyState = FinalOrderlyState, !.ram = FinalRam]
  BY <1>1, Zenon DEF FinalImage, FinalRam
<1>8. Parts(FinalImage, s_NV.list, s_NV.maxCount, FinalRam, FinalOrderlyState)
  BY <1>1, <1>2, <1>3, <1>7, ImageRamState, Zenon
<1>9. ~Unsaved => FinalRam = s_NV.ram /\ FinalOrderlyState = s_NV.orderlyState
  BY <1>1, <1>5 DEF Unsaved, FinalRam, UT_NONE, UT_ORDERLY
<1>10. ~Unsaved => FinalImage = s_NV
  <2>1. FinalImage \in Images
    BY <1>8 DEF Parts
  <2>2. QED
    BY <1>1, <1>8, <1>9, <2>1, ImageEqual
<1>11. QED
  BY <1>2, <1>3, <1>4, <1>6, <1>8, <1>9, <1>10

\* After the clean-up storage has the image, whether it was written or not.
LEMMA CleanupDisk ==
    ASSUME Storage, Cleanup
    PROVE  /\ phase = "busy" /\ phase' = "ready"
           /\ s_NV' = FinalImage /\ disk' = s_NV'
           /\ orderlyState' = FinalOrderlyState
           /\ UNCHANGED <<s_indexOrderlyRam, s_maxCounter, g_daUsed>>
<1>1. phase = "busy" /\ phase' = "ready" /\ s_NV' = FinalImage
      /\ disk' = (IF MustCommit THEN FinalImage ELSE disk)
      /\ orderlyState' = FinalOrderlyState
      /\ UNCHANGED <<s_indexOrderlyRam, s_maxCounter, g_daUsed>>
  BY DEF Cleanup, ram
<1>2. ~MustCommit => disk = FinalImage
  BY <1>1, FinalFacts DEF Storage, Copies
<1>3. QED
  BY <1>1, <1>2

\* The end of a command, with its commit, keeps Storage.
LEMMA CleanupStorage == ASSUME Storage, Cleanup PROVE Storage'
<1>1. /\ phase = "busy" /\ phase' = "ready" /\ s_NV' = FinalImage /\ disk' = s_NV'
      /\ orderlyState' = FinalOrderlyState
      /\ UNCHANGED <<s_indexOrderlyRam, s_maxCounter, g_daUsed>>
  BY CleanupDisk
<1>2. /\ s_NV' \in Images /\ s_NV'.list = s_NV.list /\ s_NV'.maxCount = s_NV.maxCount
      /\ s_NV'.ram = FinalRam /\ s_NV'.orderlyState = FinalOrderlyState
      /\ FinalOrderlyState \in OrderlyStates
      /\ IS_ORDERLY(FinalOrderlyState) <=> StaysOrderly
  BY <1>1, FinalFacts DEF Parts
<1>3. Types'
  <2>1. g_updateNV' = UT_NONE /\ g_clearOrderly' = FALSE
    BY DEF Cleanup
  <2>2. g_clearOrderly' \in BOOLEAN /\ g_daUsed' \in BOOLEAN
    BY <1>1, <2>1, Zenon DEF Storage, Types
  <2>3. QED
    BY <1>1, <1>2, <2>1, <2>2 DEF Storage, Types
<1>4. Copies'
  BY <1>1, <1>2 DEF Storage, Copies
<1>5. QED
  BY <1>3, <1>4 DEF Storage

\* A commit that fails leaves the storage alone.
LEMMA CommitFailsStorage == ASSUME Storage, CommitFails PROVE Storage'
BY DEF CommitFails, Storage, Types, Copies, ram, flags, history

\* A power loss leaves what was committed.
LEMMA PowerCycleStorage == ASSUME Storage, PowerCycle PROVE Storage'
<1>1. /\ phase' = "init" /\ s_NV' = disk /\ disk' = disk /\ orderlyState' = disk.orderlyState
      /\ s_indexOrderlyRam' = Empty /\ s_maxCounter' = 0 /\ g_updateNV' = UT_NONE
      /\ g_daUsed' = FALSE /\ g_clearOrderly' = FALSE
  BY DEF PowerCycle
<1>2. g_clearOrderly' \in BOOLEAN /\ g_daUsed' \in BOOLEAN
  BY <1>1, Zenon
<1>3. Types'
  BY <1>1, <1>2, EmptyTable, ImageTypes DEF Storage, Types
<1>4. Copies'
  BY <1>1 DEF Storage, Copies
<1>5. QED
  BY <1>3, <1>4 DEF Storage

\* A refused startup keeps Storage.
LEMMA StartupRefusedStorage == ASSUME Storage, StartupRefused PROVE Storage'
<1>1. /\ phase = "init" /\ phase' = "init"
      /\ orderlyState' = prevOrderlyState
      /\ UNCHANGED <<s_NV, disk, s_indexOrderlyRam, s_maxCounter, g_updateNV, g_clearOrderly>>
  BY DEF StartupRefused, flags
<1>2. g_daUsed' \in BOOLEAN
  BY Zenon DEF StartupRefused
<1>3. Types'
  BY <1>1, <1>2 DEF Storage, Types, prevOrderlyState, OrderlyStates
<1>4. Copies'
  BY <1>1 DEF Storage, Copies, prevOrderlyState, IS_ORDERLY, Shutdowns
<1>5. QED
  BY <1>3, <1>4 DEF Storage

\* The tables at a startup, as far as counters go.
LEMMA StartupRamTable ==
    ASSUME s_NV.ram \in Tables, NEW reset \in BOOLEAN
    PROVE  LET tab == StartupRam(reset)
           IN  /\ tab \in Tables /\ DOMAIN tab = DOMAIN s_NV.ram
               /\ \A i \in DOMAIN s_NV.ram :
                     /\ tab[i].public = s_NV.ram[i].public
                     /\ s_NV.ram[i].public.counter =>
                           /\ tab[i].written = s_NV.ram[i].written
                           /\ tab[i].data = IF prevOrderlyState = "NONE"
                                            THEN SetLowerBits(s_NV.ram[i].data)
                                            ELSE s_NV.ram[i].data
<1> DEFINE tab == StartupRam(reset)
           e(i) == NvSetStartupAttributes(s_NV.ram[i], reset)
<1>1. ASSUME NEW i \in DOMAIN s_NV.ram
      PROVE  /\ s_NV.ram[i] \in Entries /\ e(i) \in Entries
             /\ e(i).public = s_NV.ram[i].public /\ e(i).data = s_NV.ram[i].data
             /\ s_NV.ram[i].public.counter => e(i).written = s_NV.ram[i].written
  BY TableElim, StartupEntry
<1>2. ASSUME NEW i \in DOMAIN s_NV.ram
      PROVE  LET w == [e(i) EXCEPT !.data = SetLowerBits(@)]
             IN  /\ w \in Entries /\ w.public = e(i).public /\ w.written = e(i).written
                 /\ w.data = SetLowerBits(e(i).data)
  BY <1>1, MovedEntry
<1>3. /\ DOMAIN tab = DOMAIN s_NV.ram
      /\ tab = [i \in DOMAIN s_NV.ram |-> tab[i]]
      /\ \A i \in DOMAIN s_NV.ram :
            tab[i] = IF e(i).public.counter /\ prevOrderlyState = "NONE"
                     THEN [e(i) EXCEPT !.data = SetLowerBits(@)] ELSE e(i)
  BY DEF StartupRam
<1> HIDE DEF tab, e
<1>4. \A i \in DOMAIN s_NV.ram : tab[i] \in Entries
  BY <1>1, <1>2, <1>3, Zenon
<1>5. tab \in [DOMAIN s_NV.ram -> Entries]
  BY <1>3, <1>4
<1>6. tab \in Tables
  BY <1>5, MapTable
<1>7. \A i \in DOMAIN s_NV.ram :
         /\ tab[i].public = s_NV.ram[i].public
         /\ s_NV.ram[i].public.counter =>
               /\ tab[i].written = s_NV.ram[i].written
               /\ tab[i].data = IF prevOrderlyState = "NONE"
                                THEN SetLowerBits(s_NV.ram[i].data)
                                ELSE s_NV.ram[i].data
  <2> SUFFICES ASSUME NEW i \in DOMAIN s_NV.ram
               PROVE  /\ tab[i].public = s_NV.ram[i].public
                      /\ s_NV.ram[i].public.counter =>
                            /\ tab[i].written = s_NV.ram[i].written
                            /\ tab[i].data = IF prevOrderlyState = "NONE"
                                             THEN SetLowerBits(s_NV.ram[i].data)
                                             ELSE s_NV.ram[i].data
    OBVIOUS
  <2>1. CASE e(i).public.counter /\ prevOrderlyState = "NONE"
    <3>1. tab[i] = [e(i) EXCEPT !.data = SetLowerBits(@)]
      BY <1>3, <2>1
    <3>2. /\ tab[i].public = e(i).public /\ tab[i].written = e(i).written
          /\ tab[i].data = SetLowerBits(e(i).data)
      BY <1>2, <3>1
    <3>3. QED
      BY <1>1, <2>1, <3>2
  <2>2. CASE ~(e(i).public.counter /\ prevOrderlyState = "NONE")
    <3>1. tab[i] = e(i)
      BY <1>3, <2>2, Zenon
    <3>2. QED
      BY <1>1, <2>2, <3>1
  <2>3. QED
    BY <2>1, <2>2
<1>8. QED
  BY <1>3, <1>6, <1>7 DEF tab

\* The list after the clean-up of a startup.
LEMMA StartupListTable ==
    ASSUME s_NV.list \in Tables, NEW reset \in BOOLEAN
    PROVE  LET l == StartupList(reset)
           IN  /\ l \in Tables /\ DOMAIN l = DOMAIN s_NV.list
               /\ \A i \in DOMAIN s_NV.list :
                     /\ l[i].public = s_NV.list[i].public
                     /\ l[i].data = s_NV.list[i].data
                     /\ s_NV.list[i].public.counter => l[i].written = s_NV.list[i].written
<1> DEFINE l == StartupList(reset)
<1>1. ASSUME NEW i \in DOMAIN s_NV.list
      PROVE  LET w == NvSetStartupAttributes(s_NV.list[i], reset)
             IN  /\ s_NV.list[i] \in Entries /\ w \in Entries
                 /\ w.public = s_NV.list[i].public /\ w.data = s_NV.list[i].data
                 /\ s_NV.list[i].public.counter => w.written = s_NV.list[i].written
  BY TableElim, StartupEntry
<1>2. /\ DOMAIN l = DOMAIN s_NV.list
      /\ l = [i \in DOMAIN s_NV.list |-> l[i]]
      /\ \A i \in DOMAIN s_NV.list :
            \/ l[i] = s_NV.list[i]
            \/ l[i] = NvSetStartupAttributes(s_NV.list[i], reset)
  BY DEF StartupList
<1> HIDE DEF l
<1>3. \A i \in DOMAIN s_NV.list : l[i] \in Entries
  BY <1>1, <1>2, Zenon
<1>4. l \in [DOMAIN s_NV.list -> Entries]
  BY <1>2, <1>3
<1>5. l \in Tables
  BY <1>4, MapTable
<1>6. \A i \in DOMAIN s_NV.list :
         /\ l[i].public = s_NV.list[i].public
         /\ l[i].data = s_NV.list[i].data
         /\ s_NV.list[i].public.counter => l[i].written = s_NV.list[i].written
  BY <1>1, <1>2, Zenon
<1>7. QED
  BY <1>2, <1>5, <1>6 DEF l

\* The image and the RAM area after a startup.
LEMMA StartupTables ==
    ASSUME Storage, NEW type \in Shutdowns, TPM2_Startup(type)
    PROVE  /\ phase = "init" /\ phase' = "busy" /\ s_NV = disk /\ disk' = disk
           /\ s_NV' \in Images /\ s_indexOrderlyRam' \in Tables
           /\ DOMAIN s_NV'.list = DOMAIN s_NV.list
           /\ \A i \in DOMAIN s_NV.list :
                 /\ s_NV'.list[i].public = s_NV.list[i].public
                 /\ s_NV'.list[i].data = s_NV.list[i].data
                 /\ s_NV.list[i].public.counter =>
                       s_NV'.list[i].written = s_NV.list[i].written
           /\ DOMAIN s_indexOrderlyRam' = DOMAIN s_NV.ram
           /\ \A i \in DOMAIN s_NV.ram :
                 /\ s_indexOrderlyRam'[i].public = s_NV.ram[i].public
                 /\ s_NV.ram[i].public.counter =>
                       /\ s_indexOrderlyRam'[i].written = s_NV.ram[i].written
                       /\ s_indexOrderlyRam'[i].data = IF prevOrderlyState = "NONE"
                                                       THEN SetLowerBits(s_NV.ram[i].data)
                                                       ELSE s_NV.ram[i].data
           /\ s_NV'.ram = s_NV.ram
           /\ s_NV'.maxCount = s_NV.maxCount /\ s_maxCounter' = s_NV.maxCount
           /\ s_NV'.orderlyState = "NONE" /\ orderlyState' = "NONE"
           /\ g_updateNV' = UT_NV
<1>1. /\ phase = "init" /\ phase' = "busy" /\ s_NV = disk /\ disk' = disk
      /\ s_NV \in Images /\ s_NV.list \in Tables /\ s_NV.ram \in Tables
      /\ s_maxCounter' = s_NV.maxCount /\ orderlyState' = "NONE" /\ g_updateNV' = UT_NV
      /\ type = "STATE" => prevOrderlyState = "STATE"
  BY ImageTypes DEF TPM2_Startup, NvEntityStartup, Storage, Types, Copies
<1> DEFINE reset == prevOrderlyState # "STATE"
           l == IF type = "STATE" THEN s_NV.list ELSE StartupList(reset)
           tab == IF type = "STATE" THEN s_NV.ram ELSE StartupRam(reset)
<1>2. reset \in BOOLEAN
  OBVIOUS
<1>3. s_NV' = [s_NV EXCEPT !.list = l, !.orderlyState = "NONE"] /\ s_indexOrderlyRam' = tab
  BY DEF TPM2_Startup, NvEntityStartup
<1> HIDE DEF reset
<1>4. /\ l \in Tables /\ DOMAIN l = DOMAIN s_NV.list
      /\ \A i \in DOMAIN s_NV.list :
            /\ l[i].public = s_NV.list[i].public
            /\ l[i].data = s_NV.list[i].data
            /\ s_NV.list[i].public.counter => l[i].written = s_NV.list[i].written
  BY <1>1, <1>2, StartupListTable, ZenonT(60)
<1>5. /\ tab \in Tables /\ DOMAIN tab = DOMAIN s_NV.ram
      /\ \A i \in DOMAIN s_NV.ram :
            /\ tab[i].public = s_NV.ram[i].public
            /\ s_NV.ram[i].public.counter =>
                  /\ tab[i].written = s_NV.ram[i].written
                  /\ tab[i].data = IF prevOrderlyState = "NONE"
                                   THEN SetLowerBits(s_NV.ram[i].data)
                                   ELSE s_NV.ram[i].data
  <2>1. CASE type = "STATE"
    BY <1>1, <2>1
  <2>2. CASE type # "STATE"
    BY <1>1, <1>2, <2>2, StartupRamTable
  <2>3. QED
    BY <2>1, <2>2
<1>6. "NONE" \in OrderlyStates
  BY DEF OrderlyStates
<1> HIDE DEF l, tab
<1>7. Parts(s_NV', l, s_NV.maxCount, s_NV.ram, "NONE")
  BY <1>1, <1>3, <1>4, <1>6, ImageListState, Zenon
<1>8. QED
  BY <1>1, <1>3, <1>4, <1>5, <1>7 DEF Parts

\* TPM2_Startup keeps Storage.
LEMMA StartupStorage ==
    ASSUME Storage, NEW type \in Shutdowns, TPM2_Startup(type)
    PROVE  Storage'
<1>1. g_clearOrderly' = FALSE /\ g_daUsed' \in {FALSE, orderlyState = "DA_USED"}
  BY Zenon DEF TPM2_Startup
<1>2. g_clearOrderly' \in BOOLEAN /\ g_daUsed' \in BOOLEAN
  BY <1>1, Zenon
<1>3. Types'
  <2>1. s_maxCounter' \in Nat
    BY StartupTables, ImageTypes, ZenonT(60)
  <2>2. QED
    BY <1>2, <2>1, StartupTables, ZenonT(60) DEF Storage, Types, OrderlyStates
<1>4. Layout(s_NV'.list, s_indexOrderlyRam') /\ Layout(s_NV'.list, s_NV'.ram)
  <2>1. Layout(s_NV.list, s_NV.ram)
    BY StartupTables, ZenonT(60) DEF Storage, Copies
  <2>2. QED
    BY <2>1, StartupTables, LayoutKept, SMTT(60), Z3T(60)
<1>5. /\ FinalRam' = s_NV'.ram /\ ~StaysOrderly' /\ Unsaved'
  BY StartupTables, SMTT(60), Z3T(60)
     DEF FinalRam, StaysOrderly, Unsaved, IS_ORDERLY, Shutdowns, UT_NV,
                       UT_ORDERLY, UT_NONE
<1>6. Copies'
  BY <1>4, <1>5, StartupTables DEF Storage, Copies
<1>7. QED
  BY <1>3, <1>6 DEF Storage

\* A step of Next keeps Storage.
LEMMA StorageStep == Storage /\ [Next]_vars => Storage'
<1> SUFFICES ASSUME Storage, [Next]_vars PROVE Storage'
  OBVIOUS
<1>1. ASSUME NEW i \in Indices, NEW t \in Templates, NV_DefineSpace(i, t) PROVE Storage'
  BY <1>1, DefineStorage
<1>2. ASSUME NEW i \in Indices, NV_UndefineSpace(i) PROVE Storage'
  BY <1>2, UndefineStorage
<1>3. CASE TPM2_Clear
  BY <1>3, ClearStorage
<1>4. ASSUME NEW i \in Indices, NEW v \in Values, NV_Write(i, v) PROVE Storage'
  <2> DEFINE u == IF Orderly(i) THEN UT_NONE ELSE UT_NV
  <2>1. /\ i \in Defined /\ v \in Nat /\ NvWriteIndexData(i, v) /\ Handle(u, Orderly(i))
    BY <1>4, NVAssumption DEF NV_Write, Accepts
  <2>2. u \in Updates /\ (~Orderly(i) => u # UT_NONE)
    BY DEF Updates, UT_NONE, UT_NV, UT_ORDERLY
  <2>3. Orderly(i) \in BOOLEAN
    BY <1>4, OrderlyBoolean DEF NV_Write, Accepts
  <2> HIDE DEF u
  <2>4. QED
    BY <2>1, <2>2, <2>3, WriteStorage
<1>5. ASSUME NEW i \in Indices, NV_Increment(i) PROVE Storage'
  <2>1. /\ phase = "ready" /\ i \in Defined /\ NvWriteIndexData(i, NextCount(i))
        /\ Handle(IncrementUpdate(i), Orderly(i))
    BY <1>5 DEF NV_Increment, Accepts
  <2>2. IncrementUpdate(i) \in Updates /\ (~Orderly(i) => IncrementUpdate(i) # UT_NONE)
    BY DEF IncrementUpdate, Updates, UT_NONE, UT_NV, UT_ORDERLY
  <2>3. NextCount(i) \in Nat /\ Orderly(i) \in BOOLEAN
    BY <2>1, NextCountType, OrderlyBoolean
  <2>4. QED
    BY <2>1, <2>2, <2>3, WriteStorage
<1>6. ASSUME NEW i \in Indices, NV_WriteLock(i) \/ NV_ReadLock(i) PROVE Storage'
  <2>1. phase = "ready" /\ i \in Defined
    BY <1>6 DEF NV_WriteLock, NV_ReadLock, Accepts
  <2>2. PICK e \in {[NvGetIndexInfo(i) EXCEPT !.writeLocked = TRUE],
                    [NvGetIndexInfo(i) EXCEPT !.readLocked = TRUE]} :
                NvWriteIndexAttributes(i, e)
    BY <1>6 DEF NV_WriteLock, NV_ReadLock
  <2>3. /\ e \in Entries /\ e.public = NvGetIndexInfo(i).public
        /\ e.data = NvGetIndexInfo(i).data /\ e.written = NvGetIndexInfo(i).written
    <3>1. NvGetIndexInfo(i) \in Entries
      BY <2>1, InfoType
    <3>2. QED
      BY <3>1, LockedEntry, Zenon
  <2>4. QED
    BY <2>1, <2>2, <2>3, LockStorage
<1>7. CASE NV_GlobalWriteLock
  BY <1>7, GlobalLockStorage
<1>8. CASE CheckLockedOut
  BY <1>8, LockedOutStorage
<1>9. CASE NvClearOrderly
  BY <1>9, ClearOrderlyStorage
<1>10. ASSUME NEW type \in Shutdowns, TPM2_Shutdown(type) PROVE Storage'
  BY <1>10, ShutdownStorage
<1>11. CASE Cleanup
  BY <1>11, CleanupStorage
<1>12. CASE CommitFails
  BY <1>12, CommitFailsStorage
<1>13. CASE PowerCycle
  BY <1>13, PowerCycleStorage
<1>14. CASE StartupRefused
  BY <1>14, StartupRefusedStorage
<1>15. ASSUME NEW type \in Shutdowns, TPM2_Startup(type) PROVE Storage'
  BY <1>15, StartupStorage, ZenonT(60)
<1>16. CASE UNCHANGED vars
  BY <1>16 DEF vars, ram, flags, history, Storage, Types, Copies, FinalRam, StaysOrderly,
               Unsaved
<1>17. QED
  BY <1>1, <1>2, <1>3, <1>4, <1>5, <1>6, <1>7, <1>8, <1>9, <1>10, <1>11, <1>12, ZenonT(60),
     <1>13, <1>14, <1>15, <1>16 DEF Next

\* The state that manufacturing leaves has Storage.
LEMMA StorageInit == Init => Storage
<1> SUFFICES ASSUME Init PROVE Storage
  OBVIOUS
<1>1. s_NV \in Images /\ disk \in Images /\ s_indexOrderlyRam \in Tables
  BY EmptyTable DEF Init, Images, OrderlyStates
<1>2. g_clearOrderly \in BOOLEAN /\ g_daUsed \in BOOLEAN
  BY Zenon DEF Init
<1>3. Types
  BY <1>1, <1>2, ZenonT(60) DEF Init, Types, OrderlyStates
<1>4. Copies
  BY DEF Init, Copies, Layout, Empty
<1>5. QED
  BY <1>3, <1>4 DEF Storage

-----------------------------------------------------------------------------
(* Theorems about storage.                                                 *)

\* In every reachable state the image, the RAM area and the storage agree as
\* far as the command in progress has to leave them: the invariant from which
\* the next three theorems follow. It is inductive.
THEOREM StorageInvariance == Spec => []Storage
<1>1. Init => Storage
  BY StorageInit
<1>2. Storage /\ [Next]_vars => Storage'
  BY StorageStep
<1>3. QED
  BY <1>1, <1>2, PTL DEF Spec

\* Whatever the indices: after each command the storage holds the image
\* (NvCommit at the end of ExecuteCommand).
THEOREM CommittedForAnyIndices == Spec => []CommittedAfterCommand
<1>1. Storage => CommittedAfterCommand
  BY ReadyFacts, ZenonT(60) DEF CommittedAfterCommand
<1>2. QED
  BY <1>1, StorageInvariance, PTL

\* Whatever the indices: the orderly indices of the stored list are exactly
\* those in the stored copy of the orderly RAM (NvAddRAM and NvDeleteRAM follow
\* every definition and deletion).
THEOREM LayoutForAnyIndices == Spec => []OrderlyLayoutMatches
<1>1. Storage => OrderlyLayoutMatches
  BY DEF OrderlyLayoutMatches, Storage, Copies, Layout
<1>2. QED
  BY <1>1, StorageInvariance, PTL

\* Whatever the indices: while the TPM counts as shut down, the stored RAM
\* image has the data that RAM has (g_clearOrderly is set by every change).
THEOREM ImageForAnyIndices == Spec => []OrderlyImageIsCurrent
<1>1. Storage => OrderlyImageIsCurrent
  BY ReadyFacts DEF OrderlyImageIsCurrent, SameData
<1>2. QED
  BY <1>1, StorageInvariance, PTL

-----------------------------------------------------------------------------
(* Locks that TPM2_NV_WriteLock sets for good.                             *)

\* The entries of list m keep the locks of those of list l, and their data.
Good(e) == e.public.writeDefine /\ e.written /\ e.writeLocked
StillLocked(l, m) ==
    \A i \in DOMAIN l \cap DOMAIN m : Good(l[i]) => Good(m[i]) /\ m[i].data = l[i].data

\* The command in progress does.
Permanent == phase = "busy" => StillLocked(disk.list, s_NV.list)

\* A handler finds the image that is in storage.
LEMMA HandlerPermanent ==
    ASSUME Storage, NEW u, NEW c, Handle(u, c), StillLocked(s_NV.list, s_NV'.list)
    PROVE  Permanent'
<1>1. s_NV = disk /\ disk' = disk
  BY ReadyFacts DEF Handle
<1>2. QED
  BY <1>1 DEF Permanent

\* The same entries are locked as before.
LEMMA SameLocked ==
    ASSUME NEW l, NEW m, \A i \in DOMAIN l \cap DOMAIN m : m[i] = l[i]
    PROVE  StillLocked(l, m)
BY DEF StillLocked

\* A change of one index keeps its lock if the new entry does.
LEMMA PutLocked ==
    ASSUME Storage, phase = "ready", NEW i \in Defined, NEW e \in Entries,
           e.public = s_NV.list[i].public, Put(i, e),
           ~Orderly(i) /\ Good(s_NV.list[i]) => Good(e) /\ e.data = s_NV.list[i].data
    PROVE  StillLocked(s_NV.list, s_NV'.list)
<1>1. CASE Orderly(i)
  BY <1>1, PutTables, SameLocked
<1>2. CASE ~Orderly(i)
  <2>1. /\ s_NV'.list[i] = e
        /\ \A j \in DOMAIN s_NV.list : j # i => s_NV'.list[j] = s_NV.list[j]
    BY <1>2, PutTables
  <2>2. QED
    BY <1>2, <2>1, ZenonT(60) DEF StillLocked
<1>3. QED
  BY <1>1, <1>2, ZenonT(60)

\* A write is refused when the index is locked.
LEMMA WriteLocked ==
    ASSUME Storage, NEW i \in Indices, NEW v \in Nat, Accepts(i),
           ~NvGetIndexInfo(i).writeLocked, NvWriteIndexData(i, v)
    PROVE  StillLocked(s_NV.list, s_NV'.list)
<1> DEFINE e == [NvGetIndexInfo(i) EXCEPT !.written = TRUE, !.data = v]
<1>1. phase = "ready" /\ i \in Defined
  BY DEF Accepts
<1>2. NvGetIndexInfo(i) \in Entries /\ NvGetIndexInfo(i).public = s_NV.list[i].public
  BY <1>1, InfoType
<1>3. e \in Entries /\ e.public = s_NV.list[i].public
  BY <1>2, WrittenEntry, ZenonT(60)
<1>4. Put(i, e)
  BY DEF NvWriteIndexData, Put
<1>5. ~Orderly(i) => ~Good(s_NV.list[i])
  BY DEF NvGetIndexInfo, Good
<1> HIDE DEF e
<1>6. QED
  BY <1>1, <1>3, <1>4, <1>5, PutLocked

\* TPM2_NV_WriteLock and TPM2_NV_ReadLock unlock nothing.
LEMMA LockLocked ==
    ASSUME Storage, NEW i \in Indices, NV_WriteLock(i) \/ NV_ReadLock(i)
    PROVE  StillLocked(s_NV.list, s_NV'.list)
<1>1. phase = "ready" /\ i \in Defined
  BY DEF NV_WriteLock, NV_ReadLock, Accepts
<1>2. PICK e \in {[NvGetIndexInfo(i) EXCEPT !.writeLocked = TRUE],
                  [NvGetIndexInfo(i) EXCEPT !.readLocked = TRUE]} :
              NvWriteIndexAttributes(i, e)
  BY DEF NV_WriteLock, NV_ReadLock
<1>3. NvGetIndexInfo(i) \in Entries /\ NvGetIndexInfo(i).public = s_NV.list[i].public
  BY <1>1, InfoType
<1>4. /\ e \in Entries /\ e.public = NvGetIndexInfo(i).public
      /\ e.written = NvGetIndexInfo(i).written /\ e.data = NvGetIndexInfo(i).data
  BY <1>3, LockedEntry, Zenon
<1>5. NvGetIndexInfo(i).writeLocked => e.writeLocked
  BY <1>3 DEF Entries
<1>6. ~Orderly(i) /\ Good(s_NV.list[i]) => Good(e) /\ e.data = s_NV.list[i].data
  BY <1>4, <1>5 DEF NvGetIndexInfo, Good
<1>7. Put(i, e)
  BY <1>2, Zenon DEF NvWriteIndexAttributes, Put
<1>8. QED
  BY <1>1, <1>3, <1>4, <1>6, <1>7, PutLocked

\* TPM2_NV_GlobalWriteLock unlocks nothing.
LEMMA GlobalLockLocked ==
    ASSUME Storage, phase = "ready", NV_GlobalWriteLock
    PROVE  StillLocked(s_NV.list, s_NV'.list)
<1>1. s_NV \in Images /\ s_NV.list \in Tables
  BY ReadyFacts
<1>2. s_NV'.list = Lock(s_NV.list, TRUE)
  BY <1>1 DEF NV_GlobalWriteLock, Images
<1>3. ASSUME NEW i \in DOMAIN s_NV.list, Good(s_NV.list[i])
      PROVE  Good(Lock(s_NV.list, TRUE)[i]) /\ Lock(s_NV.list, TRUE)[i].data = s_NV.list[i].data
  <2>1. s_NV.list[i] \in Entries
    BY <1>1, TableElim
  <2>2. /\ Lock(s_NV.list, TRUE)[i].public = s_NV.list[i].public
        /\ Lock(s_NV.list, TRUE)[i].data = s_NV.list[i].data
        /\ Lock(s_NV.list, TRUE)[i].written = s_NV.list[i].written
    BY <1>1, GlobalLockTables, Zenon
  <2>3. Lock(s_NV.list, TRUE)[i] \in {s_NV.list[i], [s_NV.list[i] EXCEPT !.writeLocked = TRUE]}
    BY DEF Lock
  <2>4. Lock(s_NV.list, TRUE)[i].writeLocked
    BY <1>3, <2>1, <2>3, Zenon DEF Good, Entries
  <2>5. QED
    BY <1>3, <2>2, <2>4, Zenon DEF Good
<1>4. QED
  BY <1>2, <1>3, ZenonT(60) DEF StillLocked

\* A startup keeps the locks of WRITEDEFINE on written indices.
LEMMA StartupLocked ==
    ASSUME Storage, NEW type \in Shutdowns, TPM2_Startup(type)
    PROVE  StillLocked(s_NV.list, s_NV'.list)
<1> DEFINE reset == prevOrderlyState # "STATE"
           l == s_NV.list
<1>1. s_NV \in Images /\ l \in Tables
  BY ImageTypes DEF Storage, Types
<1>2. s_NV'.list = IF type = "STATE" THEN l ELSE StartupList(reset)
  BY <1>1, ZenonT(60) DEF TPM2_Startup, NvEntityStartup, Images
<1>3. ASSUME NEW i \in DOMAIN l, Good(l[i]), ~Orderly(i)
      PROVE  Good(NvSetStartupAttributes(l[i], reset))
  <2>1. l[i] \in Entries /\ l[i].public \in Templates
    BY <1>1, TableElim DEF Entries
  <2>2. ~l[i].public.clearStClear /\ ~l[i].public.orderly
    BY <1>3, <2>1, NVAssumption DEF Good, Orderly
  <2> DEFINE w == NvSetStartupAttributes(l[i], reset)
  <2>3. w.public = l[i].public
    BY <2>1, StartupEntry, Zenon
  <2>4. w.written /\ w.writeLocked
    BY <1>3, <2>1, <2>2, ZenonT(60) DEF NvSetStartupAttributes, Good, Entries
  <2>5. QED
    BY <1>3, <2>3, <2>4 DEF Good
<1>4. ASSUME NEW i \in DOMAIN l, Good(l[i])
      PROVE  Good(s_NV'.list[i])
  BY <1>2, <1>3, <1>4, ZenonT(60) DEF StartupList
<1>5. \A i \in DOMAIN l : s_NV'.list[i].data = l[i].data
  BY StartupTables
<1>6. QED
  BY <1>4, <1>5 DEF StillLocked

\* One case for each action.
LEMMA PermanentStep == ASSUME Storage, Permanent, [Next]_vars PROVE Permanent'
<1>1. ASSUME NEW i \in Indices, NEW t \in Templates, NV_DefineSpace(i, t) PROVE Permanent'
  <2>1. /\ i \notin DOMAIN s_NV.list
        /\ s_NV'.list = With(s_NV.list, i, Fresh(t))
    BY <1>1, DefineTables, ZenonT(60) DEF Parts
  <2>2. StillLocked(s_NV.list, s_NV'.list)
    BY <2>1 DEF With, StillLocked
  <2>3. QED
    BY <1>1, <2>2, HandlerPermanent, Zenon DEF NV_DefineSpace
<1>2. ASSUME NEW gone, NEW info, NvDeleteIndices(gone, info), phase = "ready"
      PROVE  StillLocked(s_NV.list, s_NV'.list)
  <2>1. s_NV'.list = Without(s_NV.list, gone)
    BY <1>2, ReadyFacts DEF NvDeleteIndices, Images
  <2>2. QED
    BY <2>1 DEF Without, Restrict, StillLocked
<1>3. ASSUME NEW i \in Indices, NV_UndefineSpace(i) PROVE Permanent'
  <2>1. phase = "ready" /\ NvDeleteIndices({i}, [j \in {i} |-> NvGetIndexInfo(j)])
    BY <1>3 DEF NV_UndefineSpace, Accepts
  <2>2. StillLocked(s_NV.list, s_NV'.list)
    BY <1>2, <2>1
  <2>3. QED
    BY <1>3, <2>2, HandlerPermanent, Zenon DEF NV_UndefineSpace
<1>4. CASE TPM2_Clear
  <2>1. phase = "ready" /\ NvDeleteIndices(Owned, s_NV.list)
    BY <1>4 DEF TPM2_Clear, Owned, Handle
  <2>2. StillLocked(s_NV.list, s_NV'.list)
    BY <1>2, <2>1
  <2>3. QED
    BY <1>4, <2>2, HandlerPermanent, Zenon DEF TPM2_Clear
<1>5. ASSUME NEW i \in Indices, NEW v \in Values, NV_Write(i, v) PROVE Permanent'
  <2>1. v \in Nat
    BY NVAssumption
  <2>2. StillLocked(s_NV.list, s_NV'.list)
    BY <1>5, <2>1, WriteLocked DEF NV_Write
  <2>3. QED
    BY <1>5, <2>2, HandlerPermanent DEF NV_Write
<1>6. ASSUME NEW i \in Indices, NV_Increment(i) PROVE Permanent'
  <2>1. phase = "ready" /\ i \in Defined
    BY <1>6 DEF NV_Increment, Accepts
  <2>2. NextCount(i) \in Nat
    BY <2>1, NextCountType
  <2>3. StillLocked(s_NV.list, s_NV'.list)
    BY <1>6, <2>2, WriteLocked DEF NV_Increment
  <2>4. QED
    BY <1>6, <2>3, HandlerPermanent DEF NV_Increment
<1>7. ASSUME NEW i \in Indices, NV_WriteLock(i) \/ NV_ReadLock(i) PROVE Permanent'
  <2>1. StillLocked(s_NV.list, s_NV'.list)
    BY <1>7, LockLocked
  <2>2. QED
    BY <1>7, <2>1, HandlerPermanent, Zenon DEF NV_WriteLock, NV_ReadLock, NvWriteIndexAttributes
<1>8. CASE NV_GlobalWriteLock
  <2>1. StillLocked(s_NV.list, s_NV'.list)
    <3>1. phase = "ready"
      BY <1>8, Zenon DEF NV_GlobalWriteLock, Handle
    <3>2. QED
      BY <1>8, <3>1, GlobalLockLocked, Zenon
  <2>2. QED
    BY <1>8, <2>1, HandlerPermanent, Zenon DEF NV_GlobalWriteLock
<1>9. CASE CheckLockedOut \/ NvClearOrderly \/ \E type \in Shutdowns : TPM2_Shutdown(type)
  <2>1. phase = "ready" /\ disk' = disk /\ s_NV = disk /\ s_NV \in Images
    BY <1>9, ReadyFacts, Zenon DEF CheckLockedOut, NvClearOrderly, TPM2_Shutdown, Handle
  <2>2. s_NV'.list = s_NV.list
    BY <1>9, <2>1, ZenonT(60) DEF CheckLockedOut, NvClearOrderly, TPM2_Shutdown, Images
  <2>3. QED
    BY <2>1, <2>2, ZenonT(60) DEF Permanent, StillLocked
<1>10. CASE Cleanup
  BY <1>10 DEF Cleanup, Permanent
<1>11. CASE CommitFails \/ PowerCycle \/ StartupRefused
  BY <1>11, ZenonT(60) DEF CommitFails, PowerCycle, StartupRefused, Permanent
<1>12. ASSUME NEW type \in Shutdowns, TPM2_Startup(type) PROVE Permanent'
  BY <1>12, StartupLocked, StartupTables DEF Permanent
<1>13. CASE UNCHANGED vars
  BY <1>13 DEF vars, Permanent
<1>14. QED
  BY <1>1, <1>3, <1>4, <1>5, <1>6, <1>7, <1>8, <1>9, <1>10, <1>11, <1>12, <1>13, ZenonT(60) DEF Next

\* Only the end of a command writes to storage.
LEMMA OnlyCleanupStores ==
    ASSUME [Next]_vars, ~Cleanup
    PROVE  disk' = disk
BY Zenon DEF Next, vars, Handle, NV_DefineSpace, NV_UndefineSpace, TPM2_Clear, NV_Write,
   NV_Increment,
       NV_WriteLock, NV_ReadLock, NvWriteIndexAttributes, NV_GlobalWriteLock, CheckLockedOut,
       NvClearOrderly, TPM2_Shutdown, CommitFails, PowerCycle, StartupRefused, TPM2_Startup

\* Whatever the indices and power losses: an index that was locked under
\* WRITEDEFINE keeps its lock and its data until it is deleted
\* (TPM2_NV_WriteLock, NvSetStartupAttributes).
THEOREM LockForAnyIndices == Spec => DefinedLockIsPermanent
<1> DEFINE A == \A i \in Indices :
                    LockedForGood(disk, i) /\ i \in DOMAIN disk'.list
                        => LockedForGood(disk, i)' /\ disk'.list[i].data = disk.list[i].data
<1>1. Init => Permanent
  BY DEF Init, Permanent
<1>2. Storage /\ Permanent /\ [Next]_vars => Permanent'
  BY PermanentStep
<1>3. Storage /\ Permanent /\ [Next]_vars => [A]_vars
  <2> SUFFICES ASSUME Storage, Permanent, [Next]_vars PROVE A
    BY ZenonT(60)
  <2>1. CASE Cleanup
    <3>1. phase = "busy" /\ disk'.list = s_NV.list
      BY <2>1, CleanupDisk, FinalFacts DEF Parts
    <3>2. StillLocked(disk.list, disk'.list)
      BY <3>1 DEF Permanent
    <3>3. QED
      BY <3>2 DEF StillLocked, Good, LockedForGood
  <2>2. CASE ~Cleanup
    BY <2>2, OnlyCleanupStores DEF LockedForGood
  <2>3. QED
    BY <2>1, <2>2
<1>4. QED
  BY <1>1, <1>2, <1>3, StorageInvariance, PTL DEF Spec, DefinedLockIsPermanent

=============================================================================
