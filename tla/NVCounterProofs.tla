-------------------------- MODULE NVCounterProofs --------------------------
(***************************************************************************)
(* NVStore implements NVCounters, for any set of indices and templates     *)
(* without an orderly counter of the owner.                                *)
(*                                                                         *)
(* Numbers relates the counters to what their users have seen: every value *)
(* shown can be recovered from storage (Recoverable), and the command in   *)
(* progress raises counters, creates one or deletes some. It needs         *)
(* OwnerCountersInNV, as TPM2_Clear forgets the counts of the owner's      *)
(* orderly counters.                                                       *)
(***************************************************************************)
EXTENDS NVStoreProofs

-----------------------------------------------------------------------------
(* The counters.                                                           *)

\* The written counters, with list l and orderly RAM tab, and their values.
Written(l, tab) == {i \in DOMAIN l : Info(l, tab, i).public.counter /\ Info(l, tab, i).written}
Live(l, tab) == [i \in Written(l, tab) |-> Info(l, tab, i).data]

\* What a stored value says of a counter: all of it after a shutdown, and all
\* but the low-order bits otherwise.
Near(stored, orderly, n) ==
    /\ stored <= n
    /\ n <= IF orderly THEN stored ELSE SetLowerBits(stored)

Recoverable(l, tab, orderly, values) ==
    /\ DOMAIN values = Written(l, tab)
    /\ \A i \in DOMAIN values :
          IF l[i].public.orderly THEN Near(tab[i].data, orderly, values[i])
                                 ELSE values[i] = l[i].data

\* The counters new, of list l, may follow old.
Raised(old, new) ==
    /\ DOMAIN new = DOMAIN old
    /\ \A i \in DOMAIN old : new[i] >= old[i]
Created(old, new, least) ==
    \E i \in Indices \ DOMAIN old :
        /\ DOMAIN new = DOMAIN old \cup {i}
        /\ new[i] > least
        /\ \A j \in DOMAIN old : new[j] = old[j]
Deleted(old, new, l, most) ==
    /\ DOMAIN new = DOMAIN old \cap DOMAIN l
    /\ \A i \in DOMAIN new : new[i] = old[i]
    /\ \A i \in DOMAIN old \ DOMAIN l : old[i] <= most

live == Live(s_NV.list, s_indexOrderlyRam)

Numbers ==
    /\ shown \in CounterTables /\ deletedMax \in Nat
    /\ deletedMax <= disk.maxCount
    /\ Recoverable(disk.list, disk.ram, IS_ORDERLY(disk.orderlyState), shown)
    /\ phase = "ready" => shown = live
    /\ phase = "busy" =>
          /\ deletedMax <= s_NV.maxCount
          /\ Recoverable(s_NV.list, FinalRam, StaysOrderly, live)
          /\ \/ Raised(shown, live)
             \/ Created(shown, live, deletedMax)
             \/ Deleted(shown, live, s_NV.list, s_NV.maxCount)

-----------------------------------------------------------------------------
(* Every step keeps Numbers, if no counter of the owner is orderly.        *)

\* The indices for which TPM2_Clear would forget the count are not defined.
OwnerCountersInNV == \A t \in Templates : t.counter /\ t.orderly => t.platformCreate

\* What Live is.
LEMMA LiveValues ==
    ASSUME NEW l, NEW tab
    PROVE  /\ DOMAIN Live(l, tab) = Written(l, tab)
           /\ \A i \in Written(l, tab) : Live(l, tab)[i] = Info(l, tab, i).data
           /\ \A i : i \in Written(l, tab) <=>
                 /\ i \in DOMAIN l
                 /\ Info(l, tab, i).public.counter
                 /\ Info(l, tab, i).written
BY DEF Live, Written

\* Counters have natural numbers.
LEMMA LiveTypes ==
    ASSUME NEW l \in Tables, NEW tab \in Tables, Layout(l, tab)
    PROVE  /\ \A i \in DOMAIN l : /\ Info(l, tab, i) \in Entries
                                  /\ Info(l, tab, i).public = l[i].public
           /\ Live(l, tab) \in CounterTables
<1>1. ASSUME NEW i \in DOMAIN l
      PROVE  Info(l, tab, i) \in Entries /\ Info(l, tab, i).public = l[i].public
  BY TableElim DEF Layout, Info
<1>2. Written(l, tab) \in SUBSET Indices
  BY TableElim DEF Written
<1>3. \A i \in Written(l, tab) : Info(l, tab, i).data \in Nat
  BY <1>1 DEF Written, Entries
<1>4. Live(l, tab) \in [Written(l, tab) -> Nat]
  BY <1>3 DEF Live
<1>5. Live(l, tab) \in CounterTables
  BY <1>2, <1>4 DEF CounterTables
<1>6. QED
  BY <1>1, <1>5

\* A copy of the orderly RAM as it is tells the counters.
LEMMA SelfRecoverable ==
    ASSUME NEW l \in Tables, NEW tab \in Tables, Layout(l, tab), NEW orderly
    PROVE  Recoverable(l, tab, orderly, Live(l, tab))
<1>1. ASSUME NEW i \in Written(l, tab)
      PROVE  IF l[i].public.orderly THEN Near(tab[i].data, orderly, Live(l, tab)[i])
                                    ELSE Live(l, tab)[i] = l[i].data
  <2>1. i \in DOMAIN l /\ Live(l, tab)[i] = Info(l, tab, i).data
    BY LiveValues
  <2>2. Info(l, tab, i) \in Entries
    BY <2>1, LiveTypes
  <2>3. Info(l, tab, i).data \in Nat
    BY <2>2 DEF Entries
  <2>4. Near(Info(l, tab, i).data, orderly, Info(l, tab, i).data)
    BY <2>3, LowerBits DEF Near
  <2>5. QED
    BY <2>1, <2>4 DEF Info
<1>2. QED
  BY <1>1, LiveValues DEF Recoverable

\* Between commands the counters that were shown are the ones there are.
LEMMA ReadyNumbers ==
    ASSUME Storage, Numbers, phase = "ready"
    PROVE  /\ shown = live /\ deletedMax \in Nat /\ deletedMax <= s_NV.maxCount
           /\ Recoverable(s_NV.list, s_NV.ram, IS_ORDERLY(orderlyState), live)
BY ReadyFacts DEF Numbers

\* What a handler has to show of the counters.
LEMMA HandlerNumbers ==
    ASSUME Storage, Numbers, Storage', NEW u \in Updates, NEW c \in BOOLEAN, Handle(u, c),
           s_NV'.maxCount >= s_NV.maxCount,
           \/ Raised(live, live')
           \/ Created(live, live', deletedMax)
           \/ Deleted(live, live', s_NV'.list, s_NV'.maxCount),
           u # UT_ORDERLY =>
               Recoverable(s_NV'.list, s_NV'.ram, IS_ORDERLY(orderlyState') /\ ~c, live')
    PROVE  Numbers'
<1>1. /\ phase = "ready" /\ phase' = "busy" /\ g_updateNV' = u /\ g_clearOrderly' = c
      /\ UNCHANGED <<disk, shown, deletedMax>>
  BY DEF Handle, history
<1>2. shown = live /\ deletedMax \in Nat /\ deletedMax <= s_NV.maxCount /\ s_NV.maxCount \in Nat
  BY <1>1, ReadyNumbers, ReadyFacts
<1>3. s_NV'.maxCount \in Nat
  BY ImageTypes DEF Storage, Types
<1>4. deletedMax' <= s_NV'.maxCount
  BY <1>1, <1>2, <1>3
<1>5. Recoverable(s_NV'.list, FinalRam', StaysOrderly', live')
  <2>1. StaysOrderly' = (IS_ORDERLY(orderlyState') /\ ~c)
    BY <1>1, Zenon DEF StaysOrderly, IS_ORDERLY
  <2>2. CASE u = UT_ORDERLY
    <3>1. FinalRam' = s_indexOrderlyRam'
      BY <1>1, <2>2, ZenonT(60) DEF FinalRam
    <3>2. /\ s_NV'.list \in Tables /\ s_indexOrderlyRam' \in Tables
          /\ Layout(s_NV'.list, s_indexOrderlyRam')
      BY <1>1, ImageTypes DEF Storage, Types, Copies
    <3>3. live' = Live(s_NV'.list, s_indexOrderlyRam')
      BY DEF live
    <3>4. QED
      BY <3>1, <3>2, <3>3, SelfRecoverable
  <2>3. CASE u # UT_ORDERLY
    <3>1. FinalRam' = s_NV'.ram
      BY <1>1, <2>3 DEF FinalRam
    <3>2. QED
      BY <2>1, <2>3, <3>1
  <2>4. QED
    BY <2>2, <2>3
<1>6. \/ Raised(shown', live')
      \/ Created(shown', live', deletedMax')
      \/ Deleted(shown', live', s_NV'.list, s_NV'.maxCount)
  BY <1>1, <1>2
<1>7. QED
  BY <1>1, <1>4, <1>5, <1>6 DEF Numbers

\* The counters are as they were.
SameCounters(l, tab, l2, tab2) ==
    /\ DOMAIN l2 = DOMAIN l
    /\ \A j \in DOMAIN l :
          /\ Info(l2, tab2, j).public = Info(l, tab, j).public
          /\ Info(l, tab, j).public.counter =>
                /\ Info(l2, tab2, j).written = Info(l, tab, j).written
                /\ Info(l2, tab2, j).data = Info(l, tab, j).data

\* The counters do not change if no counter index does.
LEMMA SameLive ==
    ASSUME NEW l, NEW tab, NEW l2, NEW tab2, SameCounters(l, tab, l2, tab2)
    PROVE  Live(l2, tab2) = Live(l, tab)
<1>1. Written(l2, tab2) = Written(l, tab)
  BY DEF Written, SameCounters
<1>2. \A i \in Written(l, tab) : Info(l2, tab2, i).data = Info(l, tab, i).data
  BY DEF Written, SameCounters
<1>3. QED
  BY <1>1, <1>2 DEF Live

\* Counters that do not change have not gone down.
LEMMA SameRaised ==
    ASSUME NEW f \in CounterTables PROVE Raised(f, f)
BY DEF CounterTables, Raised

\* The counters of the list are as they were.
SameListed(l, l2) ==
    /\ DOMAIN l2 = DOMAIN l
    /\ \A j \in DOMAIN l :
          /\ l2[j].public = l[j].public
          /\ ~l[j].public.orderly /\ l[j].public.counter =>
                l2[j].written = l[j].written /\ l2[j].data = l[j].data

\* A table r that told the counters still does.
LEMMA SameRecoverable ==
    ASSUME NEW l, NEW l2, NEW r, NEW orderly, NEW orderly2, NEW values \in CounterTables,
           l \in Tables, r \in Tables, Layout(l, r),
           Recoverable(l, r, orderly, values), orderly2 => orderly,
           SameListed(l, l2)
    PROVE  Recoverable(l2, r, orderly2, values)
<1> USE DEF SameListed
<1>1. Written(l2, r) = Written(l, r)
  BY DEF Written, Info
<1>2. ASSUME NEW i \in DOMAIN values
      PROVE  IF l2[i].public.orderly THEN Near(r[i].data, orderly2, values[i])
                                     ELSE values[i] = l2[i].data
  <2>1. i \in DOMAIN l /\ Info(l, r, i).public.counter
    BY LiveValues DEF Recoverable
  <2>2. CASE l[i].public.orderly
    <3>1. i \in DOMAIN r /\ r[i] \in Entries
      BY <2>1, <2>2, TableElim DEF Layout
    <3>2. r[i].data \in Nat /\ values[i] \in Nat
      BY <3>1 DEF Entries, CounterTables
    <3>3. Near(r[i].data, orderly, values[i])
      BY <2>2 DEF Recoverable
    <3>4. Near(r[i].data, orderly2, values[i])
      BY <3>2, <3>3, LowerBits DEF Near
    <3>5. QED
      BY <2>1, <2>2, <3>4
  <2>3. CASE ~l[i].public.orderly
    BY <2>1, <2>3, ZenonT(60) DEF Recoverable, Info
  <2>4. QED
    BY <2>2, <2>3
<1>3. QED
  BY <1>1, <1>2 DEF Recoverable

\* A handler that leaves the counters alone.
LEMMA QuietNumbers ==
    ASSUME Storage, Numbers, Storage', NEW u \in Updates, NEW c \in BOOLEAN, Handle(u, c),
           s_NV'.maxCount = s_NV.maxCount,
           SameListed(s_NV.list, s_NV'.list),
           \A j \in DOMAIN s_indexOrderlyRam :
              /\ s_indexOrderlyRam'[j].public = s_indexOrderlyRam[j].public
              /\ s_indexOrderlyRam[j].public.counter =>
                    /\ s_indexOrderlyRam'[j].written = s_indexOrderlyRam[j].written
                    /\ s_indexOrderlyRam'[j].data = s_indexOrderlyRam[j].data,
           \/ /\ s_NV'.ram = s_NV.ram
              /\ IS_ORDERLY(orderlyState') /\ ~c => IS_ORDERLY(orderlyState)
           \/ s_NV'.ram = s_indexOrderlyRam'
    PROVE  Numbers'
<1>1. /\ phase = "ready" /\ phase' = "busy"
      /\ s_NV.list \in Tables /\ s_indexOrderlyRam \in Tables /\ s_NV.ram \in Tables
      /\ Layout(s_NV.list, s_indexOrderlyRam) /\ Layout(s_NV.list, s_NV.ram)
      /\ s_NV.maxCount \in Nat
  BY ReadyFacts, ZenonT(60) DEF Handle
<1>2. /\ s_NV'.list \in Tables /\ s_indexOrderlyRam' \in Tables
      /\ Layout(s_NV'.list, s_indexOrderlyRam')
  BY <1>1, ImageTypes, ZenonT(60) DEF Storage, Types, Copies
<1>3. live = Live(s_NV.list, s_indexOrderlyRam) /\ live' = Live(s_NV'.list, s_indexOrderlyRam')
  BY DEF live
<1>4. live \in CounterTables
  BY <1>1, <1>3, LiveTypes
<1>5. SameCounters(s_NV.list, s_indexOrderlyRam, s_NV'.list, s_indexOrderlyRam')
  BY <1>1, Zenon DEF Layout, Info, SameCounters, SameListed
<1>6. live' = live
  BY <1>3, <1>5, SameLive
<1>7. Recoverable(s_NV'.list, s_NV'.ram, IS_ORDERLY(orderlyState') /\ ~c, live')
  <2>1. CASE /\ s_NV'.ram = s_NV.ram
             /\ IS_ORDERLY(orderlyState') /\ ~c => IS_ORDERLY(orderlyState)
    <3>1. Recoverable(s_NV.list, s_NV.ram, IS_ORDERLY(orderlyState), live)
      BY <1>1, ReadyNumbers
    <3>2. Recoverable(s_NV'.list, s_NV.ram, IS_ORDERLY(orderlyState') /\ ~c, live)
      BY <1>1, <1>4, <2>1, <3>1, SameRecoverable, Zenon
    <3>3. QED
      BY <1>6, <2>1, <3>2, ZenonT(60)
  <2>2. CASE s_NV'.ram = s_indexOrderlyRam'
    BY <1>2, <1>3, <2>2, SelfRecoverable, ZenonT(60)
  <2>3. QED
    BY <2>1, <2>2, ZenonT(60)
<1>8. Raised(live, live')
  BY <1>4, <1>6, SameRaised, ZenonT(60)
<1>9. s_NV'.maxCount >= s_NV.maxCount
  BY <1>1
<1>10. QED
  BY <1>7, <1>8, <1>9, HandlerNumbers, ZenonT(60)

\* A new index is not a written counter.
LEMMA DefineNumbers ==
    ASSUME Storage, Numbers, Storage', NEW i \in Indices, NEW t \in Templates,
           NV_DefineSpace(i, t)
    PROVE  Numbers'
<1> DEFINE u == IF t.orderly THEN UT_ORDERLY ELSE UT_NV
           l == With(s_NV.list, i, Fresh(t))
<1>1. phase = "ready" /\ i \notin DOMAIN s_NV.list
  BY DefineTables
<1>2. PICK c \in BOOLEAN : c = FALSE /\ Handle(u, c)
  BY Zenon DEF NV_DefineSpace
<1>3. u \in Updates /\ (u # UT_ORDERLY => ~t.orderly)
  BY DEF Updates, UT_NONE, UT_NV, UT_ORDERLY
<1>4. /\ s_NV'.list = l /\ s_NV'.maxCount = s_maxCounter
      /\ s_NV'.ram = s_NV.ram
      /\ s_maxCounter = s_NV.maxCount /\ s_NV.maxCount \in Nat
      /\ s_NV.list \in Tables /\ s_indexOrderlyRam \in Tables /\ s_NV.ram \in Tables
      /\ Layout(s_NV.list, s_indexOrderlyRam) /\ Layout(s_NV.list, s_NV.ram)
  BY <1>1, DefineTables, ReadyFacts DEF Parts
<1>5. /\ DOMAIN l = DOMAIN s_NV.list \cup {i}
      /\ l[i].public = t /\ ~l[i].written
      /\ \A j \in DOMAIN s_NV.list : l[j] = s_NV.list[j]
  BY <1>1, FreshEntry DEF With
<1>6. /\ \A j \in DOMAIN s_NV.list \cap DOMAIN s_indexOrderlyRam :
            s_indexOrderlyRam'[j] = s_indexOrderlyRam[j]
      /\ t.orderly => ~s_indexOrderlyRam'[i].written
  BY <1>1, DefineTables, FreshEntry, Zenon DEF With
<1> HIDE DEF l, u
<1>7. live = Live(s_NV.list, s_indexOrderlyRam) /\ live' = Live(l, s_indexOrderlyRam')
  BY <1>4, ZenonT(60) DEF live
<1>8. \A j \in DOMAIN s_NV.list :
         Info(l, s_indexOrderlyRam', j) = Info(s_NV.list, s_indexOrderlyRam, j)
  BY <1>4, <1>5, <1>6, ZenonT(60) DEF Layout, Info
<1>9. ~Info(l, s_indexOrderlyRam', i).written
  BY <1>5, <1>6, ZenonT(60) DEF Info
<1>10. Written(l, s_indexOrderlyRam') = Written(s_NV.list, s_indexOrderlyRam)
  BY <1>5, <1>8, <1>9, ZenonT(60) DEF Written
<1>11. live' = live
  <2>1. \A j \in Written(s_NV.list, s_indexOrderlyRam) :
           Info(l, s_indexOrderlyRam', j).data = Info(s_NV.list, s_indexOrderlyRam, j).data
    BY <1>8 DEF Written
  <2>2. QED
    BY <1>7, <1>10, <2>1, ZenonT(60) DEF Live
<1>12. live \in CounterTables
  BY <1>4, <1>7, LiveTypes
<1>13. Raised(live, live')
  BY <1>11, <1>12, SameRaised, ZenonT(60)
<1>14. ASSUME u # UT_ORDERLY
       PROVE  Recoverable(s_NV'.list, s_NV'.ram, IS_ORDERLY(orderlyState') /\ ~c, live')
  <2>1. Recoverable(s_NV.list, s_NV.ram, IS_ORDERLY(orderlyState), live)
    BY <1>1, ReadyNumbers
  <2>2. orderlyState' = orderlyState
    BY DEF NV_DefineSpace, NvDefineIndex
  <2>3. Written(l, s_NV.ram) = Written(s_NV.list, s_NV.ram)
    BY <1>3, <1>5, <1>14, ZenonT(60) DEF Written, Info
  <2>4. Recoverable(l, s_NV.ram, IS_ORDERLY(orderlyState), live)
    BY <1>5, <2>1, <2>3 DEF Recoverable, Written
  <2>5. QED
    BY <1>2, <1>4, <1>11, <2>2, <2>4 DEF Recoverable, Near
<1>15. u # UT_ORDERLY =>
           Recoverable(s_NV'.list, s_NV'.ram, IS_ORDERLY(orderlyState') /\ ~c, live')
  BY <1>14
<1>16. u \in Updates /\ Handle(u, c) /\ s_NV'.maxCount >= s_NV.maxCount
  BY <1>2, <1>3, <1>4, SMTT(60), Z3T(60)
<1>17. QED
  BY <1>13, <1>15, <1>16, HandlerNumbers

\* A deletion raises the maximal count to the counters that go.
LEMMA DeleteNumbers ==
    ASSUME Storage, Numbers, Storage', NEW u \in Updates, NEW c \in BOOLEAN, Handle(u, c),
           NEW gone, NEW info,
           \A i \in gone : info[i] \in Entries,
           NvDeleteIndices(gone, info),
           UNCHANGED orderlyState,
           u # UT_ORDERLY => \A i \in gone \cap DOMAIN s_NV.list : ~Orderly(i),
           \A i \in gone \cap Written(s_NV.list, s_indexOrderlyRam) :
              info[i] = Info(s_NV.list, s_indexOrderlyRam, i)
    PROVE  Numbers'
<1> DEFINE l == Without(s_NV.list, gone)
           tab == Without(s_indexOrderlyRam, gone)
<1>0. phase = "ready"
  BY DEF Handle
<1>1. /\ s_NV'.list = l /\ s_NV'.maxCount = s_maxCounter'
      /\ s_NV'.ram = s_NV.ram
      /\ s_indexOrderlyRam' = tab
  BY <1>0, DeleteTables, ZenonT(60) DEF Parts
<1>2. /\ s_maxCounter = s_NV.maxCount /\ s_NV.maxCount \in Nat
      /\ s_NV.list \in Tables /\ s_indexOrderlyRam \in Tables /\ s_NV.ram \in Tables
      /\ Layout(s_NV.list, s_indexOrderlyRam) /\ Layout(s_NV.list, s_NV.ram)
  BY <1>0, ReadyFacts, ZenonT(60)
<1>3. /\ DOMAIN l = DOMAIN s_NV.list \ gone
      /\ \A j \in DOMAIN l : l[j] = s_NV.list[j]
      /\ \A j \in DOMAIN s_indexOrderlyRam \ gone : tab[j] = s_indexOrderlyRam[j]
  BY DEF Without, Restrict
<1> HIDE DEF l, tab
<1>4. live = Live(s_NV.list, s_indexOrderlyRam) /\ live' = Live(l, tab)
  BY <1>1, ZenonT(60) DEF live
<1>5. \A j \in DOMAIN l : Info(l, tab, j) = Info(s_NV.list, s_indexOrderlyRam, j)
  BY <1>2, <1>3, ZenonT(60) DEF Layout, Info
<1>6. Written(l, tab) = Written(s_NV.list, s_indexOrderlyRam) \ gone
  BY <1>3, <1>5, ZenonT(60) DEF Written
<1>7. /\ DOMAIN live = Written(s_NV.list, s_indexOrderlyRam)
      /\ DOMAIN live' = DOMAIN live \cap DOMAIN l
      /\ \A j \in DOMAIN live' : live'[j] = live[j]
  <2>1. /\ DOMAIN live = Written(s_NV.list, s_indexOrderlyRam)
        /\ DOMAIN live' = Written(l, tab)
    BY <1>4, LiveValues, ZenonT(60)
  <2>2. Written(s_NV.list, s_indexOrderlyRam) \ gone =
            Written(s_NV.list, s_indexOrderlyRam) \cap DOMAIN l
    BY <1>3, ZenonT(60) DEF Written
  <2>3. \A j \in Written(l, tab) : live'[j] = live[j]
    <3>1. SUFFICES ASSUME NEW j \in Written(l, tab) PROVE live'[j] = live[j]
      BY ZenonT(60)
    <3>2. live'[j] = Info(l, tab, j).data /\ j \in DOMAIN l
      BY <1>4, LiveValues, ZenonT(60)
    <3>3. live[j] = Info(s_NV.list, s_indexOrderlyRam, j).data
      BY <1>4, <1>6, LiveValues, ZenonT(60)
    <3>4. QED
      BY <1>5, <3>2, <3>3, ZenonT(60)
  <2>4. QED
    BY <1>6, <2>1, <2>2, <2>3, ZenonT(60)
<1>8. /\ s_maxCounter' \in Nat /\ s_maxCounter' >= s_maxCounter
      /\ \A i \in gone : info[i].public.counter /\ info[i].written
            => s_maxCounter' >= info[i].data
  BY <1>2, DeleteCount, ZenonT(60) DEF NvDeleteIndices
<1>9. \A i \in DOMAIN live \ DOMAIN l : live[i] <= s_maxCounter'
  <2>1. SUFFICES ASSUME NEW i \in DOMAIN live \ DOMAIN l PROVE live[i] <= s_maxCounter'
    BY ZenonT(60)
  <2>2. i \in gone \cap Written(s_NV.list, s_indexOrderlyRam)
    BY <1>3, <1>7, ZenonT(60) DEF Written
  <2>3. /\ info[i].public.counter /\ info[i].written
        /\ live[i] = info[i].data
    BY <1>4, <2>2, LiveValues, SMTT(60), Z3T(60)
  <2>4. info[i].data \in Nat
    BY <2>2, ZenonT(60) DEF Entries
  <2>5. QED
    BY <1>8, <2>2, <2>3, <2>4, ZenonT(60)
<1>10. Deleted(live, live', s_NV'.list, s_NV'.maxCount)
  BY <1>1, <1>7, <1>9, ZenonT(60) DEF Deleted
<1>11. ASSUME u # UT_ORDERLY
       PROVE  Recoverable(s_NV'.list, s_NV'.ram, IS_ORDERLY(orderlyState') /\ ~c, live')
  <2>1. Recoverable(s_NV.list, s_NV.ram, IS_ORDERLY(orderlyState), live)
    BY <1>0, ReadyNumbers, ZenonT(60)
  <2>2. Written(l, s_NV.ram) = Written(s_NV.list, s_NV.ram) \cap DOMAIN l
    BY <1>3, ZenonT(60) DEF Written, Info
  <2>3. Recoverable(l, s_NV.ram, IS_ORDERLY(orderlyState), live')
    BY <1>3, <1>7, <2>1, <2>2, ZenonT(60) DEF Recoverable
  <2>4. live' \in CounterTables
    <3>1. /\ s_NV'.list \in Tables /\ s_indexOrderlyRam' \in Tables
          /\ Layout(s_NV'.list, s_indexOrderlyRam')
      BY ImageTypes, ZenonT(60) DEF Storage, Types, Copies, Handle
    <3>2. QED
      BY <1>1, <1>4, <3>1, LiveTypes, ZenonT(60)
  <2>5. l \in Tables /\ Layout(l, s_NV.ram)
    <3>1. Layout(s_NV'.list, FinalRam') /\ FinalRam' = s_NV'.ram /\ s_NV'.list \in Tables
      BY <1>11, ImageTypes DEF Storage, Types, Copies, Handle, FinalRam
    <3>2. QED
      BY <1>1, <3>1, ZenonT(60)
  <2>6. Recoverable(l, s_NV.ram, IS_ORDERLY(orderlyState') /\ ~c, live')
    BY <1>2, <2>3, <2>4, <2>5, SameRecoverable, Zenon DEF SameListed
  <2>7. QED
    BY <1>1, <2>6, ZenonT(60)
<1>12. QED
  BY <1>1, <1>2, <1>8, <1>10, <1>11, HandlerNumbers, ZenonT(60)

\* TPM2_NV_UndefineSpace keeps Numbers: the deleted count goes to s_maxCounter.
LEMMA UndefineNumbers ==
    ASSUME Storage, Numbers, Storage', NEW i \in Indices, NV_UndefineSpace(i)
    PROVE  Numbers'
<1> DEFINE info == [j \in {i} |-> NvGetIndexInfo(j)]
           u == IF Orderly(i) THEN UT_ORDERLY ELSE UT_NV
<1>1. /\ phase = "ready" /\ i \in Defined /\ \A j \in {i} : info[j] \in Entries
      /\ u \in Updates /\ (u # UT_ORDERLY => ~Orderly(i))
  BY UndefineInfo
<1>2. Handle(u, FALSE) /\ NvDeleteIndices({i}, info) /\ UNCHANGED orderlyState
  BY Zenon DEF NV_UndefineSpace
<1>3. info[i] = Info(s_NV.list, s_indexOrderlyRam, i)
  BY <1>1, InfoType
<1> HIDE DEF info, u
<1>4. QED
  BY <1>1, <1>2, <1>3, DeleteNumbers, Zenon

\* TPM2_Clear describes the indices by the list, which is right for counters
\* that are not orderly.
LEMMA ClearNumbers ==
    ASSUME OwnerCountersInNV, Storage, Numbers, Storage', TPM2_Clear
    PROVE  Numbers'
<1> DEFINE u == IF \E i \in Owned : Orderly(i) THEN UT_ORDERLY ELSE UT_NV
<1>1. Handle(u, TRUE) /\ NvDeleteIndices(Owned, s_NV.list) /\ UNCHANGED orderlyState
  BY Zenon DEF TPM2_Clear, Owned
<1>2. u \in Updates
  BY DEF Updates, UT_NONE, UT_NV, UT_ORDERLY
<1>3. u # UT_ORDERLY => \A i \in Owned \cap DOMAIN s_NV.list : ~Orderly(i)
  BY ZenonT(60)
<1>4. /\ s_NV.list \in Tables /\ s_indexOrderlyRam \in Tables
      /\ Layout(s_NV.list, s_indexOrderlyRam)
  BY <1>1, ReadyFacts DEF Handle
<1>5. \A i \in Owned : s_NV.list[i] \in Entries
  BY <1>4, TableElim DEF Owned, Defined
<1>6. ASSUME NEW i \in Owned \cap Written(s_NV.list, s_indexOrderlyRam)
      PROVE  s_NV.list[i] = Info(s_NV.list, s_indexOrderlyRam, i)
  <2>1. i \in DOMAIN s_NV.list /\ Info(s_NV.list, s_indexOrderlyRam, i).public.counter
    BY LiveValues, ZenonT(60)
  <2>2. s_NV.list[i].public.counter
    BY <1>4, <2>1, LiveTypes, ZenonT(60)
  <2>3. ~s_NV.list[i].public.platformCreate /\ s_NV.list[i].public \in Templates
    BY <1>5 DEF Owned, Entries
  <2>4. ~s_NV.list[i].public.orderly
    BY <2>2, <2>3, ZenonT(60) DEF OwnerCountersInNV
  <2>5. QED
    BY <2>4, ZenonT(60) DEF Info
<1> HIDE DEF u
<1>7. QED
  BY <1>1, <1>2, <1>3, <1>5, <1>6, DeleteNumbers, Zenon

\* A new entry that is not a counter's, or has the old count.
LEMMA PutNumbers ==
    ASSUME Storage, Numbers, Storage', NEW u \in Updates, NEW c \in BOOLEAN, Handle(u, c),
           NEW i \in Defined, NEW e \in Entries,
           e.public = s_NV.list[i].public, Put(i, e),
           UNCHANGED orderlyState,
           e.public.counter =>
               e.data = NvGetIndexInfo(i).data /\ e.written = NvGetIndexInfo(i).written
    PROVE  Numbers'
<1>0. phase = "ready"
  BY ZenonT(60) DEF Handle
<1>1. SameListed(s_NV.list, s_NV'.list)
  BY <1>0, PutTables, InfoType DEF SameListed, NvGetIndexInfo, Orderly
<1>2. \A j \in DOMAIN s_indexOrderlyRam :
         /\ s_indexOrderlyRam'[j].public = s_indexOrderlyRam[j].public
         /\ s_indexOrderlyRam[j].public.counter =>
               /\ s_indexOrderlyRam'[j].written = s_indexOrderlyRam[j].written
               /\ s_indexOrderlyRam'[j].data = s_indexOrderlyRam[j].data
  <2>1. CASE Orderly(i)
    BY <1>0, <2>1, PutTables, InfoType DEF NvGetIndexInfo
  <2>2. CASE ~Orderly(i)
    BY <2>2, ZenonT(60) DEF Put
  <2>3. QED
    BY <2>1, <2>2, ZenonT(60)
<1>3. s_NV'.ram = s_NV.ram /\ s_NV'.maxCount = s_NV.maxCount
  BY <1>0, PutTables, ZenonT(60)
<1>4. QED
  BY <1>1, <1>2, <1>3, QuietNumbers, ZenonT(60)

\* TPM2_NV_Write keeps Numbers: it does not write counters.
LEMMA WriteNumbers ==
    ASSUME Storage, Numbers, Storage', NEW i \in Indices, NEW v \in Values, NV_Write(i, v)
    PROVE  Numbers'
<1> DEFINE e == [NvGetIndexInfo(i) EXCEPT !.written = TRUE, !.data = v]
           u == IF Orderly(i) THEN UT_NONE ELSE UT_NV
<1>1. /\ phase = "ready" /\ i \in Defined /\ v \in Nat
      /\ ~NvGetIndexInfo(i).public.counter
      /\ Handle(u, Orderly(i)) /\ NvWriteIndexData(i, v)
  BY NVAssumption DEF NV_Write, Accepts
<1>2. u \in Updates /\ Orderly(i) \in BOOLEAN
  BY <1>1, OrderlyBoolean, ZenonT(60) DEF Updates, UT_NONE, UT_NV, UT_ORDERLY
<1>3. NvGetIndexInfo(i) \in Entries /\ NvGetIndexInfo(i).public = s_NV.list[i].public
  BY <1>1, InfoType
<1>4. e \in Entries /\ e.public = NvGetIndexInfo(i).public
  BY <1>1, <1>3, WrittenEntry, Zenon
<1>5. Put(i, e) /\ UNCHANGED orderlyState
  BY <1>1 DEF NvWriteIndexData, Put
<1> HIDE DEF e, u
<1>6. QED
  BY <1>1, <1>2, <1>3, <1>4, <1>5, PutNumbers, ZenonT(60)

\* The locks keep Numbers: they leave the data alone.
LEMMA LockNumbers ==
    ASSUME Storage, Numbers, Storage', NEW i \in Indices, NV_WriteLock(i) \/ NV_ReadLock(i)
    PROVE  Numbers'
<1> DEFINE u == IF Orderly(i) THEN UT_NONE ELSE UT_NV
<1>1. phase = "ready" /\ i \in Defined
  BY DEF NV_WriteLock, NV_ReadLock, Accepts
<1>2. PICK e \in {[NvGetIndexInfo(i) EXCEPT !.writeLocked = TRUE],
                  [NvGetIndexInfo(i) EXCEPT !.readLocked = TRUE]} :
              NvWriteIndexAttributes(i, e)
  BY DEF NV_WriteLock, NV_ReadLock
<1>3. NvGetIndexInfo(i) \in Entries /\ NvGetIndexInfo(i).public = s_NV.list[i].public
  BY <1>1, InfoType
<1>4. /\ e \in Entries /\ e.public = s_NV.list[i].public
      /\ e.data = NvGetIndexInfo(i).data /\ e.written = NvGetIndexInfo(i).written
  BY <1>3, LockedEntry, Zenon
<1>5. Handle(u, FALSE) /\ Put(i, e) /\ UNCHANGED orderlyState
  BY <1>2, Zenon DEF NvWriteIndexAttributes, Put
<1>6. u \in Updates
  BY DEF Updates, UT_NONE, UT_NV, UT_ORDERLY
<1> HIDE DEF u
<1>7. QED
  BY <1>1, <1>4, <1>5, <1>6, PutNumbers, Zenon

\* TPM2_NV_GlobalWriteLock keeps Numbers.
LEMMA GlobalLockNumbers ==
    ASSUME Storage, Numbers, Storage', NV_GlobalWriteLock
    PROVE  Numbers'
<1> DEFINE u == IF s_NV' # s_NV THEN UT_NV ELSE UT_NONE
           l == Lock(s_NV.list, TRUE)
<1>1. /\ s_NV' = [s_NV EXCEPT !.list = l] /\ s_indexOrderlyRam' = Lock(s_indexOrderlyRam, FALSE)
      /\ Handle(u, FALSE) /\ UNCHANGED orderlyState
  BY Zenon DEF NV_GlobalWriteLock
<1>2. u \in Updates
  BY DEF Updates, UT_NONE, UT_NV, UT_ORDERLY
<1> HIDE DEF u
<1>3. phase = "ready"
  BY <1>1 DEF Handle
<1>4. l \in Tables /\ SameListed(s_NV.list, l)
  BY <1>3, ReadyFacts, GlobalLockTables, Zenon DEF SameListed
<1>5. \A i \in DOMAIN s_indexOrderlyRam :
            /\ s_indexOrderlyRam'[i].public = s_indexOrderlyRam[i].public
            /\ s_indexOrderlyRam'[i].data = s_indexOrderlyRam[i].data
            /\ s_indexOrderlyRam'[i].written = s_indexOrderlyRam[i].written
  BY <1>1, <1>3, ReadyFacts, GlobalLockTables, Zenon
<1> HIDE DEF l
<1>6. Parts(s_NV', l, s_NV.maxCount, s_NV.ram, s_NV.orderlyState)
  BY <1>1, <1>3, <1>4, ReadyFacts, ImageList
<1>7. QED
  BY <1>1, <1>2, <1>4, <1>5, <1>6, QuietNumbers, Zenon DEF Parts

\* Steps that change the orderly state alone, and a shutdown.
LEMMA StateNumbers ==
    ASSUME Storage, Numbers, Storage',
           \/ CheckLockedOut
           \/ NvClearOrderly
           \/ \E type \in Shutdowns : TPM2_Shutdown(type)
    PROVE  Numbers'
<1>1. SameListed(s_NV.list, s_NV.list)
  BY DEF SameListed
<1>2. CASE CheckLockedOut
  <2>1. /\ Handle(UT_NV, FALSE) /\ orderlyState' = "DA_USED"
        /\ s_NV' = [s_NV EXCEPT !.orderlyState = "DA_USED"]
        /\ UNCHANGED s_indexOrderlyRam
    BY <1>2, Zenon DEF CheckLockedOut
  <2>2. UT_NV \in Updates /\ "DA_USED" \in OrderlyStates /\ ~IS_ORDERLY("DA_USED")
    BY DEF Updates, OrderlyStates, IS_ORDERLY, Shutdowns
  <2>3. Parts(s_NV', s_NV.list, s_NV.maxCount, s_NV.ram, "DA_USED")
    BY <2>1, <2>2, ReadyFacts, ImageState DEF Handle
  <2>4. QED
    BY <1>1, <2>1, <2>2, <2>3, QuietNumbers, Zenon DEF Parts
<1>3. CASE NvClearOrderly
  <2>1. /\ Handle(UT_NONE, TRUE) /\ UT_NONE \in Updates
        /\ UNCHANGED <<s_NV, s_indexOrderlyRam, orderlyState>>
    BY <1>3, Zenon DEF NvClearOrderly, Updates, ram
  <2>2. QED
    BY <1>1, <2>1, QuietNumbers, Zenon
<1>4. ASSUME NEW type \in Shutdowns, TPM2_Shutdown(type) PROVE Numbers'
  <2>1. Handle(UT_NV, FALSE) /\ UT_NV \in Updates /\ UNCHANGED s_indexOrderlyRam
    BY <1>4, ZenonT(60) DEF TPM2_Shutdown, Updates
  <2>2. Parts(s_NV', s_NV.list, s_NV.maxCount, s_indexOrderlyRam, type)
    BY <1>4, ShutdownTables
  <2>3. QED
    BY <1>1, <2>1, <2>2, QuietNumbers, ZenonT(60) DEF Parts
<1>5. QED
  BY <1>2, <1>3, <1>4

\* An increment: the counter grows or is created above the deleted ones, and
\* its block is stored before it leaves it.
LEMMA IncrementNumbers ==
    ASSUME Storage, Numbers, Storage', NEW i \in Indices, NV_Increment(i)
    PROVE  Numbers'
<1> DEFINE e == [NvGetIndexInfo(i) EXCEPT !.written = TRUE, !.data = NextCount(i)]
           u == IncrementUpdate(i)
           l == s_NV.list
           tab == s_indexOrderlyRam
<1>1. /\ phase = "ready" /\ i \in Defined
      /\ NvGetIndexInfo(i).public.counter
      /\ Handle(u, Orderly(i)) /\ NvWriteIndexData(i, NextCount(i))
  BY ZenonT(60) DEF NV_Increment, Accepts
<1>2. /\ NvGetIndexInfo(i) \in Entries /\ NvGetIndexInfo(i).public = l[i].public
      /\ NvGetIndexInfo(i) = Info(l, tab, i) /\ i \in DOMAIN l
      /\ Orderly(i) => i \in DOMAIN tab
      /\ Orderly(i) \in BOOLEAN
  BY <1>1, InfoType, OrderlyBoolean, ZenonT(60)
<1>3. /\ NextCount(i) \in Nat /\ NvGetIndexInfo(i).data \in Nat
      /\ NvGetIndexInfo(i).written => NextCount(i) = NvGetIndexInfo(i).data + 1
      /\ ~NvGetIndexInfo(i).written => NextCount(i) = s_maxCounter + 1
  <2>1. s_maxCounter \in Nat /\ NvGetIndexInfo(i).data \in Nat
    BY <1>1, <1>2, ReadyFacts DEF Entries
  <2>2. QED
    BY <2>1, SMTT(60), Z3T(60) DEF NextCount
<1>4. e \in Entries /\ e.public = l[i].public /\ e.written /\ e.data = NextCount(i)
  BY <1>2, <1>3, WrittenEntry, Zenon
<1>5. Put(i, e) /\ UNCHANGED orderlyState
  BY <1>1, ZenonT(60) DEF NvWriteIndexData, Put
<1> HIDE DEF e
<1>6. /\ DOMAIN s_NV'.list = DOMAIN l /\ s_NV'.ram = s_NV.ram
      /\ s_NV'.maxCount = s_NV.maxCount
      /\ DOMAIN s_indexOrderlyRam' = DOMAIN tab
      /\ \A j \in DOMAIN l : /\ s_NV'.list[j].public = l[j].public
                             /\ j # i => s_NV'.list[j] = l[j]
      /\ \A j \in DOMAIN tab : j # i => s_indexOrderlyRam'[j] = tab[j]
      /\ IF Orderly(i) THEN s_indexOrderlyRam'[i] = e ELSE s_NV'.list[i] = e
      /\ Orderly(i) => s_NV' = s_NV
  BY <1>1, <1>4, <1>5, PutTables, ZenonT(60)
<1>7. /\ l \in Tables /\ tab \in Tables /\ s_NV.ram \in Tables
      /\ Layout(l, tab) /\ Layout(l, s_NV.ram)
      /\ s_maxCounter = s_NV.maxCount /\ s_NV.maxCount \in Nat
  BY <1>1, ReadyFacts, ZenonT(60)
<1>8. /\ Info(s_NV'.list, s_indexOrderlyRam', i) = e
      /\ \A j \in DOMAIN l \ {i} : Info(s_NV'.list, s_indexOrderlyRam', j) = Info(l, tab, j)
  BY <1>2, <1>6, <1>7, ZenonT(60) DEF Info, Orderly, Layout
<1>9. live = Live(l, tab) /\ live' = Live(s_NV'.list, s_indexOrderlyRam')
  BY ZenonT(60) DEF live
<1>10. /\ live \in CounterTables
       /\ DOMAIN live = Written(l, tab)
       /\ \A j \in DOMAIN live : live[j] = Info(l, tab, j).data /\ live[j] \in Nat
  <2>1. live \in CounterTables
    BY <1>7, <1>9, LiveTypes, Zenon
  <2>2. \A j \in DOMAIN live : live[j] \in Nat
    BY <2>1, ZenonT(60) DEF CounterTables
  <2>3. QED
    BY <1>9, <2>1, <2>2, LiveValues
<1>11. /\ DOMAIN live' = Written(l, tab) \cup {i}
       /\ live'[i] = NextCount(i)
       /\ \A j \in DOMAIN live \ {i} : live'[j] = live[j]
  <2>1. Written(s_NV'.list, s_indexOrderlyRam') = Written(l, tab) \cup {i}
    BY <1>1, <1>2, <1>4, <1>6, <1>8, ZenonT(60) DEF Written
  <2>2. /\ DOMAIN live' = Written(s_NV'.list, s_indexOrderlyRam')
        /\ \A j \in DOMAIN live' : live'[j] = Info(s_NV'.list, s_indexOrderlyRam', j).data
    BY <1>9, LiveValues, SMTT(60), Z3T(60)
  <2>3. DOMAIN live \subseteq DOMAIN l
    BY <1>10, ZenonT(60) DEF Written
  <2>4. QED
    BY <1>4, <1>8, <1>10, <2>1, <2>2, <2>3, ZenonT(60)
<1>12. i \in DOMAIN live <=> NvGetIndexInfo(i).written
  BY <1>1, <1>2, <1>10, ZenonT(60) DEF Written
<1>13. Raised(live, live') \/ Created(live, live', deletedMax)
  <2>1. CASE NvGetIndexInfo(i).written
    <3>1. i \in DOMAIN live /\ DOMAIN live' = DOMAIN live
      BY <1>10, <1>11, <1>12, <2>1, ZenonT(60)
    <3>2. live'[i] = live[i] + 1
      BY <1>2, <1>3, <1>10, <1>11, <2>1, <3>1, ZenonT(60)
    <3>3. \A j \in DOMAIN live : live'[j] >= live[j]
      BY <1>10, <1>11, <3>1, <3>2, SMTT(60), Z3T(60)
    <3>4. QED
      BY <3>1, <3>3, ZenonT(60) DEF Raised
  <2>2. CASE ~NvGetIndexInfo(i).written
    <3>1. i \in Indices \ DOMAIN live
      BY <1>12, <2>2
    <3>2. deletedMax \in Nat /\ deletedMax <= s_NV.maxCount
      BY <1>1, ReadyNumbers, ZenonT(60)
    <3>3. live'[i] > deletedMax
      BY <1>3, <1>7, <1>11, <2>2, <3>2, SMTT(60), Z3T(60)
    <3>4. DOMAIN live' = DOMAIN live \cup {i}
      BY <1>10, <1>11, ZenonT(60)
    <3>5. \A j \in DOMAIN live : live'[j] = live[j]
      BY <1>11, <3>1, ZenonT(60)
    <3>6. QED
      BY <3>1, <3>3, <3>4, <3>5, ZenonT(60) DEF Created
  <2>3. QED
    BY <2>1, <2>2, ZenonT(60)
<1>14. ASSUME u # UT_ORDERLY
       PROVE  Recoverable(s_NV'.list, s_NV'.ram, IS_ORDERLY(orderlyState') /\ ~Orderly(i), live')
  <2>1. Recoverable(l, s_NV.ram, IS_ORDERLY(orderlyState), live)
    BY <1>1, ReadyNumbers
  <2>2. CASE Orderly(i)
    <3>1. NvGetIndexInfo(i).written /\ NextCount(i) % RollOver # 0
      BY <1>14, <2>2, ZenonT(60) DEF IncrementUpdate
    <3>2. i \in DOMAIN live /\ DOMAIN live' = DOMAIN live /\ live'[i] = live[i] + 1
      BY <1>2, <1>3, <1>10, <1>11, <1>12, <3>1, ZenonT(60)
    <3>3. s_NV'.list = l /\ s_NV'.ram = s_NV.ram
      BY <1>6, <2>2
    <3>4. ASSUME NEW j \in DOMAIN live, l[j].public.orderly
          PROVE  Near(s_NV.ram[j].data, FALSE, live'[j])
      <4>1. j \in DOMAIN l
        BY <1>10, ZenonT(60) DEF Written
      <4>2. s_NV.ram[j] \in Entries
        BY <1>7, <3>4, <4>1, TableElim, ZenonT(60) DEF Layout
      <4>3. s_NV.ram[j].data \in Nat /\ live[j] \in Nat
        BY <1>10, <4>2, ZenonT(60) DEF Entries
      <4>4. Near(s_NV.ram[j].data, IS_ORDERLY(orderlyState), live[j])
        BY <2>1, <3>4, ZenonT(60) DEF Recoverable
      <4>5. s_NV.ram[j].data <= live[j] /\ live[j] <= SetLowerBits(s_NV.ram[j].data)
        BY <4>3, <4>4, LowerBits, SMTT(60), Z3T(60) DEF Near
      <4>6. CASE j = i
        <5>1. (live[j] + 1) % RollOver # 0
          BY <1>11, <3>1, <3>2, <4>6, ZenonT(60)
        <5>2. live[j] + 1 <= SetLowerBits(s_NV.ram[j].data)
          BY <4>3, <4>5, <5>1, SameBlock, ZenonT(60)
        <5>3. QED
          BY <3>2, <4>3, <4>5, <4>6, <5>2, SMTT(60), Z3T(60) DEF Near
      <4>7. CASE j # i
        BY <1>11, <4>5, <4>7, ZenonT(60) DEF Near
      <4>8. QED
        BY <4>6, <4>7, Zenon
    <3>5. ASSUME NEW j \in DOMAIN live, ~l[j].public.orderly
          PROVE  live'[j] = l[j].data
      BY <1>11, <2>1, <2>2, <3>5, ZenonT(60) DEF Recoverable, Orderly
    <3>6. DOMAIN live = Written(l, s_NV.ram)
      BY <2>1 DEF Recoverable
    <3>7. Recoverable(l, s_NV.ram, FALSE, live')
      BY <3>2, <3>4, <3>5, <3>6, Zenon DEF Recoverable
    <3>8. (IS_ORDERLY(orderlyState') /\ ~Orderly(i)) = FALSE
      BY <2>2, ZenonT(60)
    <3>9. QED
      BY <3>3, <3>7, <3>8, Zenon
  <2>3. CASE ~Orderly(i)
    <3>1. s_NV'.list[i] = e /\ ~l[i].public.orderly /\ s_NV'.list[i].public = l[i].public
      BY <1>2, <1>6, <2>3 DEF Orderly
    <3>2. Written(s_NV'.list, s_NV.ram) = Written(l, s_NV.ram) \cup {i}
      <4>1. Info(s_NV'.list, s_NV.ram, i) = e
        BY <3>1, ZenonT(60) DEF Info
      <4>2. \A j \in DOMAIN l \ {i} : Info(s_NV'.list, s_NV.ram, j) = Info(l, s_NV.ram, j)
        BY <1>6, ZenonT(60) DEF Info
      <4>3. QED
        BY <1>1, <1>2, <1>4, <1>6, <4>1, <4>2, ZenonT(60) DEF Written
    <3>3. DOMAIN live' = Written(s_NV'.list, s_NV.ram)
      BY <1>10, <1>11, <2>1, <3>2, ZenonT(60) DEF Recoverable
    <3>4. ASSUME NEW j \in DOMAIN live'
          PROVE  IF s_NV'.list[j].public.orderly
                 THEN Near(s_NV.ram[j].data, IS_ORDERLY(orderlyState), live'[j])
                 ELSE live'[j] = s_NV'.list[j].data
      <4>1. CASE j = i
        BY <1>4, <1>11, <3>1, <4>1, ZenonT(60)
      <4>2. CASE j # i
        <5>1. j \in DOMAIN live /\ j \in DOMAIN l
          BY <1>10, <1>11, <4>2, ZenonT(60) DEF Written
        <5>2. s_NV'.list[j] = l[j] /\ live'[j] = live[j]
          BY <1>6, <1>11, <4>2, <5>1, ZenonT(60)
        <5>3. QED
          BY <2>1, <5>1, <5>2, ZenonT(60) DEF Recoverable
      <4>3. QED
        BY <4>1, <4>2, ZenonT(60)
    <3>5. Recoverable(s_NV'.list, s_NV.ram, IS_ORDERLY(orderlyState), live')
      BY <3>3, <3>4, ZenonT(60) DEF Recoverable
    <3>6. (IS_ORDERLY(orderlyState') /\ ~Orderly(i)) = IS_ORDERLY(orderlyState)
      BY <1>5, <2>3 DEF IS_ORDERLY
    <3>7. QED
      BY <1>6, <3>5, <3>6, ZenonT(60)
  <2>4. QED
    BY <2>2, <2>3, ZenonT(60)
<1>15. u \in Updates
  BY ZenonT(60) DEF IncrementUpdate, Updates
<1>16. s_NV'.maxCount >= s_NV.maxCount
  BY <1>6, <1>7, SMTT(60), Z3T(60)
<1> HIDE DEF u
<1>17. QED
  BY <1>1, <1>2, <1>13, <1>14, <1>15, <1>16, HandlerNumbers, ZenonT(60)

\* A startup: what was stored is enough to show no counter below what it was.
LEMMA StartupNumbers ==
    ASSUME Storage, Numbers, Storage', NEW type \in Shutdowns, TPM2_Startup(type)
    PROVE  Numbers'
<1> DEFINE l == s_NV.list
           r == s_NV.ram
<1>1. /\ phase = "init" /\ phase' = "busy" /\ s_NV = disk /\ disk' = disk
      /\ DOMAIN s_NV'.list = DOMAIN l /\ s_NV'.ram = r
      /\ s_NV'.maxCount = s_NV.maxCount /\ g_updateNV' = UT_NV
      /\ orderlyState' = "NONE"
      /\ UNCHANGED <<shown, deletedMax>>
  BY StartupTables, ZenonT(60) DEF TPM2_Startup, history
<1>2. /\ l \in Tables /\ r \in Tables /\ Layout(l, r)
      /\ s_NV'.list \in Tables /\ s_indexOrderlyRam' \in Tables
      /\ Layout(s_NV'.list, s_indexOrderlyRam')
  BY <1>1, ImageTypes, ZenonT(60) DEF Storage, Types, Copies
<1>3. \A i \in DOMAIN l :
         /\ s_NV'.list[i].public = l[i].public
         /\ s_NV'.list[i].data = l[i].data
         /\ l[i].public.counter => s_NV'.list[i].written = l[i].written
  BY StartupTables, ZenonT(60)
<1>4. \A i \in DOMAIN r :
         /\ s_indexOrderlyRam'[i].public = r[i].public
         /\ r[i].public.counter =>
               /\ s_indexOrderlyRam'[i].written = r[i].written
               /\ s_indexOrderlyRam'[i].data = IF prevOrderlyState = "NONE"
                                               THEN SetLowerBits(r[i].data)
                                               ELSE r[i].data
  BY StartupTables, ZenonT(60)
<1>5. Recoverable(l, r, IS_ORDERLY(disk.orderlyState), shown)
  BY <1>1, ZenonT(60) DEF Numbers
<1>6. prevOrderlyState = "NONE" <=> ~IS_ORDERLY(disk.orderlyState)
  BY <1>1 DEF Storage, Types, Copies, prevOrderlyState, IS_ORDERLY, Shutdowns, OrderlyStates
<1>7. live' = Live(s_NV'.list, s_indexOrderlyRam')
  BY DEF live
<1>8. /\ FinalRam' = r /\ StaysOrderly' = FALSE
  BY <1>1, SMTT(60), Z3T(60) DEF FinalRam, StaysOrderly, IS_ORDERLY, Shutdowns, UT_NV, UT_ORDERLY
<1>9. /\ Written(s_NV'.list, s_indexOrderlyRam') = Written(l, r)
      /\ Written(s_NV'.list, r) = Written(l, r)
  <2>1. DOMAIN s_NV'.list = DOMAIN l
    BY <1>1, ZenonT(60)
  <2>2. ASSUME NEW i \in DOMAIN l
        PROVE  /\ Info(s_NV'.list, s_indexOrderlyRam', i).public = Info(l, r, i).public
               /\ Info(s_NV'.list, r, i).public = Info(l, r, i).public
               /\ Info(l, r, i).public.counter =>
                     /\ Info(s_NV'.list, s_indexOrderlyRam', i).written = Info(l, r, i).written
                     /\ Info(s_NV'.list, r, i).written = Info(l, r, i).written
    <3>1. s_NV'.list[i].public = l[i].public
      BY <1>3, ZenonT(60)
    <3>2. CASE l[i].public.orderly
      <4>1. i \in DOMAIN r
        BY <1>2, <3>2, ZenonT(60) DEF Layout
      <4>2. QED
        BY <1>4, <3>1, <3>2, <4>1, ZenonT(60) DEF Info
    <3>3. CASE ~l[i].public.orderly
      BY <1>3, <3>1, <3>3 DEF Info
    <3>4. QED
      BY <3>2, <3>3, ZenonT(60)
  <2>3. QED
    BY <2>1, <2>2, ZenonT(60) DEF Written
<1> HIDE DEF l, r
<1>10. ASSUME NEW i \in Written(l, r)
       PROVE  /\ live'[i] >= shown[i]
              /\ IF s_NV'.list[i].public.orderly THEN Near(r[i].data, FALSE, live'[i])
                                                 ELSE live'[i] = s_NV'.list[i].data
  <2>1. /\ i \in DOMAIN l /\ Info(l, r, i).public.counter
        /\ live'[i] = Info(s_NV'.list, s_indexOrderlyRam', i).data
    BY <1>7, <1>9, LiveValues, SMTT(60), ZenonT(60)
  <2>2. i \in DOMAIN shown /\ shown[i] \in Nat
    BY <1>5 DEF Recoverable, Numbers, CounterTables
  <2>3. CASE l[i].public.orderly
    <3>1. i \in DOMAIN r /\ r[i] \in Entries /\ r[i].public.counter
      BY <1>2, <2>1, <2>3, TableElim, ZenonT(60) DEF Layout, Info
    <3>2. r[i].data \in Nat
      BY <3>1 DEF Entries
    <3>3. live'[i] = IF prevOrderlyState = "NONE" THEN SetLowerBits(r[i].data) ELSE r[i].data
      BY <1>3, <1>4, <2>1, <2>3, <3>1, Zenon DEF Info
    <3>4. Near(r[i].data, IS_ORDERLY(disk.orderlyState), shown[i])
      BY <1>5, <2>2, <2>3, ZenonT(60) DEF Recoverable
    <3>5. SetLowerBits(r[i].data) \in Nat /\ SetLowerBits(r[i].data) >= r[i].data
      BY <3>2, LowerBits, ZenonT(60)
    <3>6. live'[i] >= shown[i]
      BY <1>6, <2>2, <3>2, <3>3, <3>4, <3>5, ZenonT(60) DEF Near
    <3>7. Near(r[i].data, FALSE, live'[i])
      BY <3>2, <3>3, <3>5, SMTT(60), Z3T(60) DEF Near
    <3>8. QED
      BY <1>3, <2>1, <2>3, <3>6, <3>7, Zenon
  <2>4. CASE ~l[i].public.orderly
    <3>1. live'[i] = l[i].data /\ s_NV'.list[i].data = l[i].data
      BY <1>3, <2>1, <2>4, ZenonT(60) DEF Info
    <3>2. shown[i] = l[i].data
      BY <1>5, <2>2, <2>4, ZenonT(60) DEF Recoverable
    <3>3. live'[i] >= shown[i]
      BY <2>2, <3>1, <3>2, SMTT(60), Z3T(60)
    <3>4. ~s_NV'.list[i].public.orderly
      BY <1>3, <2>1, <2>4, ZenonT(60)
    <3>5. QED
      BY <3>1, <3>3, <3>4, ZenonT(60)
  <2>5. QED
    BY <2>3, <2>4, Zenon
<1>11. DOMAIN live' = Written(l, r) /\ DOMAIN shown = Written(l, r)
  BY <1>5, <1>7, <1>9, LiveValues, ZenonT(60) DEF Recoverable
<1>12. Raised(shown, live')
  BY <1>10, <1>11, Zenon DEF Raised
<1>13. Recoverable(s_NV'.list, FinalRam', StaysOrderly', live')
  BY <1>8, <1>9, <1>10, <1>11, Zenon DEF Recoverable
<1>14. QED
  BY <1>1, <1>12, <1>13, ZenonT(60) DEF Numbers

\* The end of a command: what the response shows, and the largest deleted count.
LEMMA CleanupCounts ==
    ASSUME Storage, Numbers, Cleanup
    PROVE  /\ shown' = live /\ live' = live
           /\ deletedMax' \in Nat /\ deletedMax' >= deletedMax
           /\ deletedMax' <= s_NV.maxCount
           /\ \A i \in DOMAIN shown \ DOMAIN s_NV.list : deletedMax' >= shown[i]
           /\ DOMAIN shown \subseteq DOMAIN s_NV.list => deletedMax' = deletedMax
           /\ DOMAIN live \subseteq DOMAIN s_NV.list
<1>1. /\ phase = "busy" /\ s_NV' = FinalImage
      /\ s_indexOrderlyRam' = s_indexOrderlyRam
  BY CleanupDisk, ZenonT(60)
<1>2. FinalImage.list = s_NV.list
  BY <1>1, FinalFacts, ZenonT(60) DEF Parts
<1>3. shown' = live /\ live' = live
  <2>1. shown' = Counters(FinalImage)
    BY ZenonT(60) DEF Cleanup
  <2>2. Counters(FinalImage) = Live(FinalImage.list, s_indexOrderlyRam)
    BY DEF Counters, Live, Written, Info
  <2>3. QED
    BY <1>1, <1>2, <2>1, <2>2, ZenonT(60) DEF live
<1>4. DOMAIN live \subseteq DOMAIN s_NV.list
  BY ZenonT(60) DEF live, Live, Written
<1>5. /\ \/ Raised(shown, live)
         \/ Created(shown, live, deletedMax)
         \/ Deleted(shown, live, s_NV.list, s_NV.maxCount)
      /\ deletedMax \in Nat /\ deletedMax <= s_NV.maxCount
      /\ shown \in CounterTables
      /\ s_NV.maxCount \in Nat
  BY <1>1, ImageTypes, ZenonT(60) DEF Numbers, Storage, Types
<1>6. \A i \in DOMAIN shown \ DOMAIN s_NV.list : shown[i] <= s_NV.maxCount /\ shown[i] \in Nat
  <2>1. \A i \in DOMAIN shown : shown[i] \in Nat
    BY <1>5, ZenonT(60) DEF CounterTables
  <2>2. CASE Raised(shown, live)
    BY <1>4, <2>1, <2>2, ZenonT(60) DEF Raised
  <2>3. CASE Created(shown, live, deletedMax)
    BY <1>4, <2>1, <2>3, ZenonT(60) DEF Created
  <2>4. CASE Deleted(shown, live, s_NV.list, s_NV.maxCount)
    BY <2>1, <2>4, ZenonT(60) DEF Deleted
  <2>5. QED
    BY <1>5, <2>2, <2>3, <2>4, ZenonT(60)
<1> DEFINE S == {deletedMax} \cup {shown[i] : i \in DOMAIN shown \ DOMAIN s_NV.list}
<1>7. deletedMax' \in S /\ \A n \in S : n <= deletedMax'
  BY ZenonT(60) DEF Cleanup, Greatest
<1>8. \A n \in S : n \in Nat /\ n <= s_NV.maxCount
  BY <1>5, <1>6, ZenonT(60)
<1>9. deletedMax \in S /\ \A i \in DOMAIN shown \ DOMAIN s_NV.list : shown[i] \in S
  OBVIOUS
<1>10. DOMAIN shown \subseteq DOMAIN s_NV.list => S = {deletedMax}
  BY ZenonT(60)
<1> HIDE DEF S
<1>11. /\ deletedMax' \in Nat /\ deletedMax' >= deletedMax
       /\ deletedMax' <= s_NV.maxCount
  BY <1>5, <1>7, <1>8, <1>9, ZenonT(60)
<1>12. \A i \in DOMAIN shown \ DOMAIN s_NV.list : deletedMax' >= shown[i]
  BY <1>6, <1>7, <1>9, <1>11, ZenonT(60)
<1>13. DOMAIN shown \subseteq DOMAIN s_NV.list => deletedMax' = deletedMax
  BY <1>7, <1>10, ZenonT(60)
<1>14. QED
  BY <1>3, <1>4, <1>11, <1>12, <1>13, ZenonT(60)

\* The end of a command keeps Numbers: what it commits is enough to recover
\* what its response shows.
LEMMA CleanupNumbers == ASSUME Storage, Numbers, Cleanup PROVE Numbers'
<1>1. /\ phase = "busy" /\ phase' = "ready" /\ s_NV' = FinalImage /\ disk' = s_NV'
  BY CleanupDisk, ZenonT(60)
<1>2. /\ s_NV'.list = s_NV.list /\ s_NV'.maxCount = s_NV.maxCount
      /\ s_NV'.ram = FinalRam /\ s_NV'.orderlyState = FinalOrderlyState
      /\ IS_ORDERLY(FinalOrderlyState) <=> StaysOrderly
  BY <1>1, FinalFacts, ZenonT(60) DEF Parts
<1>3. shown' = live /\ live' = live /\ deletedMax' \in Nat /\ deletedMax' <= s_NV.maxCount
  BY CleanupCounts, ZenonT(60)
<1>4. live \in CounterTables
  BY <1>1, ImageTypes, LiveTypes, ZenonT(60) DEF Storage, Types, Copies, live
<1>5. Recoverable(s_NV.list, FinalRam, StaysOrderly, live)
  BY <1>1, ZenonT(60) DEF Numbers
<1>6. Recoverable(disk'.list, disk'.ram, IS_ORDERLY(disk'.orderlyState), shown')
  BY <1>1, <1>2, <1>3, <1>5, ZenonT(60) DEF Recoverable, Near
<1>7. QED
  BY <1>1, <1>2, <1>3, <1>4, <1>6, ZenonT(60) DEF Numbers

\* A power loss, a refused startup and a failed commit show nothing.
LEMMA FaultNumbers ==
    ASSUME Numbers, CommitFails \/ PowerCycle \/ StartupRefused
    PROVE  Numbers'
BY ZenonT(60) DEF Numbers, CommitFails, PowerCycle, StartupRefused, history, ram, flags

\* A TPM just manufactured has no counters.
LEMMA NumbersInit == Init => Numbers
<1> SUFFICES ASSUME Init PROVE Numbers
  BY ZenonT(60)
<1>1. /\ phase = "init" /\ disk = s_NV /\ s_NV.list = Empty /\ s_NV.ram = Empty
      /\ s_NV.maxCount = 0 /\ deletedMax = 0 /\ shown = [i \in {} |-> 0]
      /\ s_indexOrderlyRam = Empty
  BY DEF Init, Empty
<1>2. DOMAIN Empty = {}
  BY DEF Empty
<1>3. Written(Empty, Empty) = {}
  BY <1>2, ZenonT(60) DEF Written
<1>4. live = shown
  BY <1>1, <1>3 DEF live, Live
<1>5. shown \in CounterTables
  <2>1. shown \in [{} -> Nat] /\ {} \in SUBSET Indices
    BY <1>1, ZenonT(60)
  <2>2. QED
    BY <2>1, Zenon DEF CounterTables
<1>6. Recoverable(disk.list, disk.ram, IS_ORDERLY(disk.orderlyState), shown)
  BY <1>1, <1>3, ZenonT(60) DEF Recoverable
<1>7. deletedMax \in Nat /\ deletedMax <= disk.maxCount
  BY <1>1
<1>8. phase # "busy"
  BY <1>1, ZenonT(60)
<1>9. QED
  BY <1>4, <1>5, <1>6, <1>7, <1>8, ZenonT(60) DEF Numbers

\* One case for each action, as in StorageStep.
LEMMA NumbersStep ==
    ASSUME OwnerCountersInNV, Storage, Numbers, Storage', [Next]_vars
    PROVE  Numbers'
<1>1. ASSUME NEW i \in Indices, NEW t \in Templates, NV_DefineSpace(i, t) PROVE Numbers'
  BY <1>1, DefineNumbers
<1>2. ASSUME NEW i \in Indices, NV_UndefineSpace(i) PROVE Numbers'
  BY <1>2, UndefineNumbers
<1>3. CASE TPM2_Clear
  BY <1>3, ClearNumbers, ZenonT(60)
<1>4. ASSUME NEW i \in Indices, NEW v \in Values, NV_Write(i, v) PROVE Numbers'
  BY <1>4, WriteNumbers
<1>5. ASSUME NEW i \in Indices, NV_Increment(i) PROVE Numbers'
  BY <1>5, IncrementNumbers
<1>6. ASSUME NEW i \in Indices, NV_WriteLock(i) \/ NV_ReadLock(i) PROVE Numbers'
  BY <1>6, LockNumbers
<1>7. CASE NV_GlobalWriteLock
  BY <1>7, GlobalLockNumbers
<1>8. CASE CheckLockedOut \/ NvClearOrderly \/ \E type \in Shutdowns : TPM2_Shutdown(type)
  BY <1>8, StateNumbers
<1>9. CASE Cleanup
  BY <1>9, CleanupNumbers
<1>10. CASE CommitFails \/ PowerCycle \/ StartupRefused
  BY <1>10, FaultNumbers, ZenonT(60)
<1>11. ASSUME NEW type \in Shutdowns, TPM2_Startup(type) PROVE Numbers'
  BY <1>11, StartupNumbers, ZenonT(60)
<1>12. CASE UNCHANGED vars
  BY <1>12, ZenonT(60) DEF Numbers, vars, ram, flags, history, live, FinalRam, StaysOrderly
<1>13. QED
  BY <1>1, <1>2, <1>3, <1>4, <1>5, <1>6, <1>7, <1>8, <1>9, <1>10, <1>11, <1>12, ZenonT(60) DEF Next

\* Only the end of a command changes what was shown or deleted.
LEMMA OnlyCleanupShows ==
    ASSUME [Next]_vars, ~Cleanup
    PROVE  UNCHANGED <<shown, deletedMax>>
BY Zenon DEF Next, vars, history, flags, ram, Handle, NV_DefineSpace, NV_UndefineSpace, TPM2_Clear,
       NV_Write, NV_Increment, NV_WriteLock, NV_ReadLock, NvWriteIndexAttributes,
       NV_GlobalWriteLock, CheckLockedOut, NvClearOrderly, TPM2_Shutdown, CommitFails,
       PowerCycle, StartupRefused, TPM2_Startup

\* The response of a command is one step of the abstract counters.
LEMMA CleanupIsAbstract ==
    ASSUME Storage, Numbers, Cleanup
    PROVE  Counts!Next
<1> DEFINE gone == DOMAIN shown \ DOMAIN s_NV.list
<1>1. /\ shown' = live /\ deletedMax' \in Nat /\ deletedMax' >= deletedMax
      /\ \A i \in gone : deletedMax' >= shown[i]
      /\ DOMAIN shown \subseteq DOMAIN s_NV.list => deletedMax' = deletedMax
      /\ DOMAIN live \subseteq DOMAIN s_NV.list
  BY CleanupCounts, ZenonT(60)
<1>2. \/ Raised(shown, live)
      \/ Created(shown, live, deletedMax)
      \/ Deleted(shown, live, s_NV.list, s_NV.maxCount)
  BY CleanupDisk DEF Numbers
<1>3. CASE Raised(shown, live)
  <2>1. Counts!Raise
    BY <1>1, <1>3, ZenonT(60) DEF Raised, Counts!Raise
  <2>2. QED
    BY <2>1, ZenonT(60) DEF Counts!Next
<1>4. CASE Created(shown, live, deletedMax)
  <2>1. PICK i \in Indices : Counts!Create(i)
    BY <1>1, <1>4, ZenonT(60) DEF Created, Counts!Create
  <2>2. QED
    BY <2>1, ZenonT(60) DEF Counts!Next
<1>5. CASE Deleted(shown, live, s_NV.list, s_NV.maxCount)
  <2>1. Counts!Delete(gone)
    BY <1>1, <1>5 DEF Deleted, Counts!Delete
  <2>2. QED
    BY <2>1, ZenonT(60) DEF Counts!Next
<1>6. QED
  BY <1>2, <1>3, <1>4, <1>5, ZenonT(60)

-----------------------------------------------------------------------------
(* The counters, for every set of indices without an orderly counter of the owner. *)

\* If no orderly counter is the owner's, what is stored is always enough to
\* recover every counter at or above the value last shown, and every new
\* counter above every deleted one. Inductive together with Storage.
THEOREM NumbersInvariance ==
    ASSUME OwnerCountersInNV PROVE Spec => [](Storage /\ Numbers)
<1>1. Init => Storage /\ Numbers
  BY StorageInit, NumbersInit
<1>2. Storage /\ Numbers /\ [Next]_vars => (Storage /\ Numbers)'
  BY StorageStep, NumbersStep
<1>3. QED
  BY <1>1, <1>2, PTL DEF Spec

\* If no orderly counter is the owner's, s_maxCounter covers every deleted
\* counter, whatever power losses came between (NvGetMaxCount at startup).
THEOREM MaxCountForAnyIndices ==
    ASSUME OwnerCountersInNV PROVE Spec => []MaxCountCoversDeleted
<1>1. Storage /\ Numbers => MaxCountCoversDeleted
  <2> SUFFICES ASSUME Storage, Numbers, phase = "ready" PROVE s_maxCounter >= deletedMax
    BY ZenonT(60) DEF MaxCountCoversDeleted
  <2>1. s_maxCounter \in Nat /\ s_maxCounter >= s_NV.maxCount /\ s_NV.maxCount \in Nat
    BY ReadyFacts, ImageTypes, SMTT(60), Z3T(60) DEF Storage, Types, Copies
  <2>2. QED
    BY <2>1, ReadyNumbers
<1>2. QED
  BY <1>1, NumbersInvariance, PTL

\* If no orderly counter is the owner's, NVStore implements NVCounters: across
\* power losses, failed commits and restarts no counter goes back, and no new
\* one starts at or below a deleted one (TPM2_NV_Increment, NvEntityStartup,
\* NvUpdateIndexOrderlyData). Each end of a command is one abstract step, and
\* everything else stutters.
THEOREM CountersForAnyIndices ==
    ASSUME OwnerCountersInNV PROVE Spec => CountersNeverGoBack
<1>1. Init => Counts!Init
  BY DEF Init, Empty, Counts!Init
<1>2. Storage /\ Numbers /\ [Next]_vars => [Counts!Next]_<<shown, deletedMax>>
  BY OnlyCleanupShows, CleanupIsAbstract
<1>3. QED
  BY <1>1, <1>2, NumbersInvariance, PTL DEF Spec, CountersNeverGoBack, Counts!Spec

-----------------------------------------------------------------------------
(* The types, for every set of indices and templates.                      *)

\* The counters that were shown are those of indices, and have numbers.
ShownTypes == shown \in CounterTables /\ deletedMax \in Nat

\* A response shows the counters that there are, and deletes some of them.
LEMMA CleanupTypes == ASSUME Storage, ShownTypes, Cleanup PROVE ShownTypes'
<1>1. phase = "busy" /\ s_NV' = FinalImage
  BY CleanupDisk
<1>2. FinalImage.list = s_NV.list
  BY <1>1, FinalFacts, ZenonT(60) DEF Parts
<1>3. shown' = Live(s_NV.list, s_indexOrderlyRam)
  <2>1. shown' = Counters(FinalImage)
    BY DEF Cleanup
  <2>2. Counters(FinalImage) = Live(FinalImage.list, s_indexOrderlyRam)
    BY DEF Counters, Live, Written, Info
  <2>3. QED
    BY <1>2, <2>1, <2>2, ZenonT(60)
<1>4. /\ s_NV.list \in Tables /\ s_indexOrderlyRam \in Tables
      /\ Layout(s_NV.list, s_indexOrderlyRam)
  BY <1>1, ImageTypes, ZenonT(60) DEF Storage, Types, Copies
<1>5. shown' \in CounterTables
  BY <1>3, <1>4, LiveTypes, ZenonT(60)
<1>6. \A i \in DOMAIN shown : shown[i] \in Nat
  BY ZenonT(60) DEF ShownTypes, CounterTables
<1>7. deletedMax' \in {deletedMax} \cup {shown[i] : i \in DOMAIN shown \ DOMAIN s_NV.list}
  BY DEF Cleanup, Greatest
<1>8. deletedMax' \in Nat
  BY <1>6, <1>7 DEF ShownTypes
<1>9. QED
  BY <1>5, <1>8 DEF ShownTypes

\* TypeOK in the form the proofs use.
LEMMA TypesImply == ASSUME Storage, ShownTypes PROVE TypeOK
<1>1. /\ s_NV \in Images /\ disk \in Images /\ s_indexOrderlyRam \in Tables
      /\ s_maxCounter \in Nat /\ orderlyState \in OrderlyStates
      /\ g_updateNV \in {UT_NONE, UT_NV, UT_ORDERLY}
      /\ g_clearOrderly \in BOOLEAN /\ g_daUsed \in BOOLEAN
      /\ phase \in {"init", "ready", "busy", "failure"}
  BY DEF Storage, Types
<1>2. ASSUME NEW image \in {s_NV, disk}
      PROVE  /\ DOMAIN image.list \subseteq Indices
             /\ \A i \in DOMAIN image.list : image.list[i] \in Entries
             /\ DOMAIN image.ram \subseteq Indices
             /\ \A i \in DOMAIN image.ram : image.ram[i] \in Entries
             /\ image.maxCount \in Nat
             /\ image.orderlyState \in OrderlyStates
  <2>1. image \in Images
    BY <1>1, ZenonT(60)
  <2>2. QED
    BY <2>1, ImageTypes, TableElim, ZenonT(60)
<1>3. /\ DOMAIN s_indexOrderlyRam \subseteq Indices
      /\ \A i \in DOMAIN s_indexOrderlyRam : s_indexOrderlyRam[i] \in Entries
  BY <1>1, TableElim, ZenonT(60)
<1>4. /\ DOMAIN shown \subseteq Indices
      /\ \A i \in DOMAIN shown : shown[i] \in Nat
      /\ deletedMax \in Nat
  BY DEF ShownTypes, CounterTables
<1>5. QED
  BY <1>1, <1>2, <1>3, <1>4, ZenonT(60) DEF TypeOK

\* The tables, the images and the history keep their types, whatever the indices
\* and templates are: no operation leaves an entry of another shape.
THEOREM TypesForAnyIndices == Spec => []TypeOK
<1>1. Init => Storage /\ ShownTypes
  <2>1. Init => ShownTypes
    <3> SUFFICES ASSUME Init PROVE ShownTypes
      OBVIOUS
    <3>1. shown = Empty /\ deletedMax = 0
      BY DEF Init
    <3>2. Empty \in [{} -> Nat] /\ {} \in SUBSET Indices
      BY DEF Empty
    <3>3. QED
      BY <3>1, <3>2, Zenon DEF ShownTypes, CounterTables
  <2>2. QED
    BY <2>1, StorageInit
<1>2. Storage /\ ShownTypes /\ [Next]_vars => (Storage /\ ShownTypes)'
  <2> SUFFICES ASSUME Storage, ShownTypes, [Next]_vars PROVE Storage' /\ ShownTypes'
    OBVIOUS
  <2>1. CASE Cleanup
    BY <2>1, StorageStep, CleanupTypes
  <2>2. CASE ~Cleanup
    BY <2>2, StorageStep, OnlyCleanupShows DEF ShownTypes
  <2>3. QED
    BY <2>1, <2>2
<1>3. Storage /\ ShownTypes => TypeOK
  BY TypesImply
<1>4. QED
  BY <1>1, <1>2, <1>3, PTL DEF Spec
=============================================================================
