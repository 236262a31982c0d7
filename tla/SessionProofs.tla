--------------------------- MODULE SessionProofs ---------------------------
(***************************************************************************)
(* Proofs about Session, for every number of sessions and slots and every  *)
(* width of the context counter.                                           *)
(***************************************************************************)
EXTENDS Session, FiniteSetTheorems, TLAPS

-----------------------------------------------------------------------------
(* Residues: what the truncation of contextCounter to slotMod values keeps. *)

\* Euclidean division.
LEMMA DivMod ==
    ASSUME NEW m \in Nat, m > 0, NEW a \in Int
    PROVE  /\ a % m \in 0 .. m - 1
           /\ a \div m \in Int
           /\ a = m * (a \div m) + (a % m)
  BY Z3

\* Multiples of m that differ, differ by m at least.
LEMMA MulGap ==
    ASSUME NEW m \in Nat, m > 0, NEW p \in Int, NEW q \in Int, p < q
    PROVE  m * p + m <= m * q
  <1>1. p + 1 <= q
    OBVIOUS
  <1>2. PICK d \in Nat : q = p + 1 + d
    <2>1. q - p - 1 \in Nat /\ q = p + 1 + (q - p - 1)
      BY <1>1
    <2> QED BY <2>1
  <1>3. m * d \in Nat
    OBVIOUS
  <1>4. m * q = m * p + m + m * d
    BY <1>2
  <1> QED BY <1>3, <1>4

\* Two different numbers with the same residue are at least m apart.
LEMMA SameResidue ==
    ASSUME NEW m \in Nat, m > 0, NEW a \in Int, NEW b \in Int,
           a % m = b % m, a < b
    PROVE  b - a >= m
  <1> DEFINE p == a \div m
             q == b \div m
  <1>1. p \in Int /\ q \in Int /\ a = m * p + (a % m) /\ b = m * q + (b % m)
    BY DivMod
  <1>2. a % m \in Int /\ b % m \in Int
    BY DivMod
  <1> HIDE DEF p, q
  <1>3. CASE p < q
    <2>1. m * p + m <= m * q
      BY <1>1, <1>3, MulGap
    <2>2. m * p \in Int /\ m * q \in Int
      BY <1>1
    <2> QED BY <1>1, <1>2, <2>1, <2>2
  <1>4. CASE p = q
    BY <1>1, <1>2, <1>4
  <1>5. CASE q < p
    <2>1. m * q + m <= m * p
      BY <1>1, <1>5, MulGap
    <2>2. m * p \in Int /\ m * q \in Int
      BY <1>1
    <2> QED BY <1>1, <1>2, <2>1, <2>2
  <1> QED BY <1>1, <1>3, <1>4, <1>5

\* A number between 0 and m - 1 is its own residue, also after adding a multiple.
LEMMA ResidueIs ==
    ASSUME NEW m \in Nat, m > 0, NEW a \in Int, NEW k \in Int, NEW r \in 0 .. m - 1,
           a = m * k + r
    PROVE  a % m = r
  <1> DEFINE q == a \div m
             s == a % m
  <1>1. q \in Int /\ s \in 0 .. m - 1 /\ a = m * q + s
    BY DivMod
  <1> HIDE DEF q, s
  <1>2. m * q \in Int /\ m * k \in Int
    BY <1>1
  <1>3. s = r
    <2>1. CASE q < k
      BY <1>1, <1>2, <2>1, MulGap
    <2>2. CASE k < q
      BY <1>1, <1>2, <2>2, MulGap
    <2>3. CASE q = k
      BY <1>1, <1>2, <2>3
    <2> QED BY <1>1, <2>1, <2>2, <2>3
  <1> QED BY <1>3 DEF s

\* A multiple of m has residue 0.
LEMMA MultipleResidue ==
    ASSUME NEW m \in Nat, m > 0, NEW a \in Int, NEW k \in Int, a = m * k
    PROVE  a % m = 0
  <1>1. 0 \in 0 .. m - 1 /\ a = m * k + 0
    OBVIOUS
  <1> QED BY <1>1, ResidueIs

\* Residues of small numbers, and of a number one window further.
LEMMA SmallResidue ==
    ASSUME NEW m \in Nat, NEW r \in 0 .. m - 1
    PROVE  r % m = r
  <1>1. \A k \in Int : r = m * k + r => r % m = r
    BY ResidueIs
  <1>2. r = m * 0 + r
    OBVIOUS
  <1> QED BY <1>1, <1>2

\* Residues one window further: the low-order bits before and after a wrap.
LEMMA ShiftResidue ==
    ASSUME NEW m \in Nat, m > 0, NEW a \in Int, NEW b \in Int, b = a + m
    PROVE  b % m = a % m
  <1> DEFINE p == a \div m
             q == p + 1
             r == a % m
  <1>1. p \in Int /\ r \in 0 .. m - 1 /\ a = m * p + r
    BY DivMod
  <1>2. q \in Int /\ m * q = m * p + m /\ m * p \in Int
    BY <1>1
  <1> HIDE DEF p, q, r
  <1>3. b = m * q + r
    BY <1>1, <1>2
  <1>4. \A x \in Int : x = m * q + r => x % m = r
    BY <1>1, <1>2, ResidueIs
  <1> QED BY <1>3, <1>4, ZenonT(60) DEF r

\* The masked difference that ContextIdSetOldest compares is the distance from
\* the far end of the window below the counter.
LEMMA AgeIsDistance ==
    ASSUME NEW m \in Nat, m > 0, NEW a \in Int, NEW c \in Int, a < c, c <= a + m
    PROVE  ((a % m) - (c % m)) % m = a + m - c
  <1> DEFINE p == a \div m
             q == c \div m
             r == a % m
             s == c % m
  <1>1. p \in Int /\ q \in Int /\ r \in Int /\ s \in Int
    BY DivMod
  <1>2. a = m * p + r /\ c = m * q + s
    BY DivMod
  <1> HIDE DEF p, q, r, s
  <1>3. m * p \in Int /\ m * q \in Int /\ m * (q - p - 1) = m * q - m * p - m
    BY <1>1
  <1>4. r - s = m * (q - p - 1) + (a + m - c)
    BY <1>1, <1>2, <1>3
  <1>5. a + m - c \in 0 .. m - 1 /\ r - s \in Int /\ q - p - 1 \in Int
    BY <1>1
  <1>6. (r - s) % m = a + m - c
    BY <1>4, <1>5, ResidueIs, Zenon
  <1>7. r = a % m /\ s = c % m
    BY DEF r, s
  <1> QED BY <1>1, <1>6, <1>7

\* Adding 1 either adds 1 to the residue or makes it 0.
LEMMA NextResidue ==
    ASSUME NEW m \in Nat, m > 0, NEW c \in Nat, NEW d \in Nat, d = c + 1, d % m # 0
    PROVE  d % m = (c % m) + 1
  <1> DEFINE q == c \div m
             k == q + 1
             s == c % m
  <1>1. q \in Int /\ s \in 0 .. m - 1 /\ c = m * q + s
    BY DivMod
  <1>2. k \in Int /\ m * k = m * q + m
    BY <1>1
  <1> HIDE DEF q, k, s
  <1>3. m * q \in Int
    BY <1>1
  <1>4. CASE s + 1 = m
    <2>1. d \in Int /\ d = m * k
      BY <1>1, <1>2, <1>3, <1>4
    <2>2. k \in Int
      BY <1>2
    <2>3. \A a \in Int : a = m * k => a % m = 0
      BY <2>2, MultipleResidue
    <2> QED BY <2>1, <2>3
  <1>5. CASE s + 1 # m
    <2>1. d = m * q + (s + 1) /\ s + 1 \in 0 .. m - 1
      BY <1>1, <1>3, <1>5
    <2>2. d % m = s + 1
      BY <1>1, <2>1, ResidueIs
    <2> QED BY <2>2 DEF s
  <1> QED BY <1>4, <1>5

\* The jump over the slot numbers stays inside every window that c + 1 is in,
\* and inside the range of the counter.
LEMMA WrapJump ==
    ASSUME NEW m \in Nat, NEW L \in Nat, m > L + 1, NEW c \in Nat, (c + 1) % m = 0
    PROVE  /\ (c + 1 + L + 1) % m = L + 1
           /\ \A a \in Nat : a % m > L /\ a <= c /\ c < a + m => c + 1 + L + 1 <= a + m
           /\ \A k \in Nat : c + 1 < m * k => c + 1 + L + 1 < m * k
  <1> DEFINE t == (c + 1) \div m
  <1>1. t \in Int /\ c + 1 = m * t
    BY DivMod
  <1> HIDE DEF t
  <1>2. m * t \in Int
    BY <1>1
  <1>3. (c + 1 + L + 1) % m = L + 1
    <2>1. c + 1 + L + 1 = m * t + (L + 1) /\ L + 1 \in 0 .. m - 1
      BY <1>1, <1>2
    <2> QED BY <1>1, <2>1, ResidueIs
  <1>4. ASSUME NEW a \in Nat, a % m > L, a <= c, c < a + m
        PROVE  c + 1 + L + 1 <= a + m
    <2> DEFINE p == a \div m
               r == a % m
    <2>1. p \in Int /\ r \in 0 .. m - 1 /\ r > L /\ a = m * p + r
      BY <1>4, DivMod
    <2> HIDE DEF p, r
    <2>2. m * p \in Int /\ m * (p + 1) = m * p + m
      BY <2>1
    <2>3. CASE p + 1 < t
      <3>1. m * (p + 1) + m <= m * t
        BY <1>1, <2>1, <2>3, MulGap
      <3> QED BY <1>1, <1>2, <1>4, <2>1, <2>2, <3>1
    <2>4. CASE p + 1 = t
      BY <1>1, <1>2, <1>4, <2>1, <2>2, <2>4
    <2>5. CASE t < p + 1
      <3>1. m * t + m <= m * (p + 1)
        BY <1>1, <2>1, <2>5, MulGap
      <3> QED BY <1>1, <1>2, <1>4, <2>1, <2>2, <3>1
    <2> QED BY <1>1, <2>1, <2>3, <2>4, <2>5
  <1>5. ASSUME NEW k \in Nat, c + 1 < m * k
        PROVE  c + 1 + L + 1 < m * k
    <2>1. m * k \in Int
      OBVIOUS
    <2>2. CASE t < k
      BY <1>1, <1>2, <2>1, <2>2, MulGap
    <2>3. CASE t = k
      BY <1>1, <1>5, <2>3
    <2>4. CASE k < t
      BY <1>1, <1>2, <1>5, <2>1, <2>4, MulGap
    <2> QED BY <1>1, <2>2, <2>3, <2>4
  <1> QED BY <1>3, <1>4, <1>5
-----------------------------------------------------------------------------
(***************************************************************************)
(* The inductive invariant.  The bookkeeping speaks of truncated numbers;  *)
(* the invariant relates them to the full contextIDs: every saved session  *)
(* lies in the window of slotMod numbers below the counter, where          *)
(* truncation loses nothing.  The same must hold of the image that a       *)
(* Shutdown(STATE) wrote, for as long as it can still be resumed.          *)
(***************************************************************************)

\* Saved sessions with distinct contextIDs inside the window.  An entry
\* without contextID is a session lost to TPM_RC_TOO_MANY_CONTEXTS.
Coherent(array, ids, counter) ==
    /\ counter % slotMod > MaxLoaded
    /\ \A h \in Handles : ids[h] # 0 =>
          /\ array[h] = ids[h] % slotMod
          /\ array[h] > MaxLoaded
          /\ ids[h] < counter
          /\ counter <= ids[h] + slotMod
    /\ \A h \in Handles : array[h] > MaxLoaded /\ ids[h] = 0 => counter + 1 = CounterMod
    /\ \A g, h \in Handles : ids[g] = ids[h] /\ ids[g] # 0 => g = h

\* The kept context is older than the counter that its reset cycle goes on with.
KeptIsOlder(counter) == kept.reset = totalResetCount => kept.sequence < counter

WindowInv == started => Coherent(contextArray, contextID, contextCounter)

ImageInv ==
    orderlyState = "SU_STATE" =>
        /\ Coherent(nvStateReset.contextArray, nvStateReset.contextID,
                    nvStateReset.contextCounter)
        /\ KeptIsOlder(nvStateReset.contextCounter)

KeptInv ==
    /\ started => KeptIsOlder(contextCounter)
    /\ kept.reset <= totalResetCount
    /\ kept = NoContext \/ kept.sequence # 0

\* A slot is left for recycling the oldest context when the gap is at maximum.
RoomInv == started /\ CounterHasRoom /\ GapAtMaximum => freeSessionSlots >= 1

PowerInv ==
    ~started => /\ oldestSavedSession = NoOldest
                /\ orderlyState # "SU_STATE" => totalResetCount < MaxResets

IInv ==
    /\ TypeOK
    /\ SlotAccounting
    /\ WindowInv
    /\ ImageInv
    /\ KeptInv
    /\ OldestIsOldest
    /\ RoomInv
    /\ PowerInv
-----------------------------------------------------------------------------
(* Facts about the operators. *)

\* The mask in force divides the range of gr.contextCounter, whichever of the two
\* slot sizes the state was written with.
LEMMA ModulusFacts ==
    ASSUME TypeOK
    PROVE  /\ slotMod \in Nat /\ slotMod > 0 /\ slotMod > MaxLoaded + 1
           /\ MaxLoaded \in Nat /\ MaxActive \in Nat /\ CounterMod \in Nat
           /\ \E k \in Nat : CounterMod = slotMod * k
  <1>1. slotMod = OldSlots \/ slotMod = NewSlots
    BY DEF TypeOK
  <1>2. /\ slotMod \in Nat /\ slotMod > 0 /\ slotMod > MaxLoaded + 1
        /\ MaxLoaded \in Nat /\ MaxActive \in Nat /\ CounterMod \in Nat
    BY <1>1, SizeAssumption, RangeAssumption
  <1>3. \A k \in 1 .. CounterMod : k \in Nat
    BY <1>2
  <1>4. \E k \in Nat : CounterMod = slotMod * k
    <2>1. CASE slotMod = OldSlots
      BY <1>3, <2>1, RangeAssumption
    <2>2. CASE slotMod = NewSlots
      BY <1>3, <2>2, RangeAssumption, ZenonT(60)
    <2> QED BY <1>1, <2>1, <2>2
  <1> QED BY <1>2, <1>4

\* The counter after a save is larger, in range and never low-order equal to a
\* slot number, and it does not leave a window that contextCounter + 1 is in.
LEMMA NextCounterFacts ==
    ASSUME TypeOK, contextCounter + 1 < CounterMod, contextCounter % slotMod > MaxLoaded
    PROVE  /\ NextCounter \in 0 .. CounterMod - 1
           /\ NextCounter > contextCounter
           /\ NextCounter <= contextCounter + slotMod
           /\ NextCounter % slotMod > MaxLoaded
           /\ \A a \in Nat : a % slotMod > MaxLoaded /\ a < contextCounter
                             /\ contextCounter < a + slotMod
                => NextCounter <= a + slotMod
  <1> DEFINE c == contextCounter
             d == contextCounter + 1
             m == slotMod
  <1>1. /\ c \in Nat /\ m \in Nat /\ m > 0 /\ m > MaxLoaded + 1 /\ d \in Nat
        /\ MaxLoaded \in Nat /\ CounterMod \in Nat
    BY ModulusFacts DEF TypeOK
  <1>2. PICK k \in Nat : CounterMod = m * k
    BY ModulusFacts
  <1>3. CASE d % m = 0
    <2>1. NextCounter = c + 1 + MaxLoaded + 1
      BY <1>3 DEF NextCounter, Masked
    <2>2. /\ NextCounter % m = MaxLoaded + 1
          /\ \A a \in Nat : a % m > MaxLoaded /\ a <= c /\ c < a + m
                => NextCounter <= a + m
          /\ \A n \in Nat : c + 1 < m * n => NextCounter < m * n
      BY <1>1, <1>3, <2>1, WrapJump, Zenon
    <2>3. NextCounter < CounterMod
      BY <1>2, <2>2
    <2> QED BY <1>1, <2>1, <2>2, <2>3
  <1>4. CASE d % m # 0
    <2>1. NextCounter = d
      BY <1>4 DEF NextCounter, Masked
    <2>2. \A e \in Nat : e = c + 1 /\ e % m # 0 => e % m = (c % m) + 1
      BY <1>1, NextResidue, Zenon
    <2>3. d % m = (c % m) + 1
      BY <1>1, <1>4, <2>2
    <2>4. c % m \in Int
      BY <1>1, DivMod
    <2> QED BY <1>1, <2>1, <2>3, <2>4
  <1> QED BY <1>3, <1>4

\* Two saved sessions never carry the same low-order bits, and the entry that
\* matches the counter is the one at the far end of the window.
LEMMA WindowFacts ==
    ASSUME TypeOK, NEW array, NEW ids \in [Handles -> 0 .. CounterMod - 1],
           NEW counter \in Nat, Coherent(array, ids, counter)
    PROVE  /\ \A h \in Handles : ids[h] # 0 /\ array[h] = Masked(counter)
                 => counter = ids[h] + slotMod
           /\ \A h \in Handles : ids[h] # 0
                 => Age(array, counter, h) = ids[h] + slotMod - counter
           /\ \A h \in Handles, a \in Nat :
                 /\ ids[h] # 0 /\ array[h] = Masked(a)
                 /\ a < counter /\ counter - a <= slotMod
                 => a = ids[h]
  <1>1. slotMod \in Nat /\ slotMod > 0 /\ \A h \in Handles : ids[h] \in Nat
    BY ModulusFacts
  <1>2. ASSUME NEW h \in Handles, ids[h] # 0
        PROVE  /\ array[h] = ids[h] % slotMod
               /\ ids[h] < counter /\ counter <= ids[h] + slotMod
    BY <1>2 DEF Coherent
  <1>3. ASSUME NEW h \in Handles, ids[h] # 0, array[h] = Masked(counter)
        PROVE  counter = ids[h] + slotMod
    <2>1. counter - ids[h] >= slotMod
      BY <1>1, <1>2, <1>3, SameResidue DEF Masked
    <2> QED BY <1>1, <1>2, <1>3, <2>1
  <1>4. ASSUME NEW h \in Handles, ids[h] # 0
        PROVE  Age(array, counter, h) = ids[h] + slotMod - counter
    BY <1>1, <1>2, <1>4, AgeIsDistance DEF Age
  <1>5. ASSUME NEW h \in Handles, NEW a \in Nat, ids[h] # 0, array[h] = Masked(a),
               a < counter, counter - a <= slotMod
        PROVE  a = ids[h]
    <2>1. ids[h] % slotMod = a % slotMod
      BY <1>2, <1>5 DEF Masked
    <2>2. CASE a < ids[h]
      BY <1>1, <1>2, <1>5, <2>1, <2>2, SameResidue
    <2>3. CASE ids[h] < a
      BY <1>1, <1>2, <1>5, <2>1, <2>3, SameResidue
    <2> QED BY <1>1, <2>2, <2>3
  <1> QED BY <1>3, <1>4, <1>5

\* ContextIdSetOldest finds the session with the smallest contextID.
LEMMA SetOldestFacts ==
    ASSUME TypeOK, NEW array \in [Handles -> Nat],
           NEW ids \in [Handles -> 0 .. CounterMod - 1],
           NEW counter \in Nat, Coherent(array, ids, counter), counter + 1 < CounterMod,
           NEW o \in Handles \cup {NoOldest}, IsOldest(o, array, counter)
    PROVE  IF o = NoOldest THEN SavedIn(array) = {}
           ELSE /\ o \in Handles /\ array[o] > MaxLoaded
                /\ \A h \in SavedIn(array) : ids[o] <= ids[h]
  <1>1. \A h \in SavedIn(array) : h \in Handles /\ ids[h] # 0 /\ ids[h] \in Nat
    BY DEF SavedIn, Coherent
  <1>2. \A h \in SavedIn(array) : Age(array, counter, h) = ids[h] + slotMod - counter
    BY <1>1, WindowFacts
  <1>3. slotMod \in Nat
    BY ModulusFacts
  <1>4. NoOldest \notin Handles
    BY SizeAssumption DEF NoOldest, Handles
  <1>5. CASE o = NoOldest
    BY <1>4, <1>5 DEF IsOldest, SavedIn
  <1>6. CASE o # NoOldest
    <2>1. o \in SavedIn(array)
      BY <1>6 DEF IsOldest
    <2>2. \A h \in SavedIn(array) : Age(array, counter, o) <= Age(array, counter, h)
      BY <1>2, <1>1, <1>3, <1>6 DEF IsOldest
    <2>3. \A h \in SavedIn(array) : ids[o] <= ids[h]
      BY <1>1, <1>2, <1>3, <2>1, <2>2
    <2> QED BY <1>6, <2>1, <2>3 DEF SavedIn
  <1> QED BY <1>5, <1>6

Unoccupied(occ) == {s \in Slots : ~occ[s]}

\* Counting unoccupied slots when one is taken or given back.
LEMMA SlotCount ==
    ASSUME NEW occ \in [Slots -> BOOLEAN]
    PROVE  /\ Cardinality(Unoccupied(occ)) \in 0 .. MaxLoaded
           /\ Cardinality(Unoccupied(occ)) > 0 => \E s \in Slots : ~occ[s]
           /\ \A s \in Slots : ~occ[s] =>
                 Cardinality(Unoccupied([occ EXCEPT ![s] = TRUE]))
                    = Cardinality(Unoccupied(occ)) - 1
           /\ \A s \in Slots : occ[s] =>
                 Cardinality(Unoccupied([occ EXCEPT ![s] = FALSE]))
                    = Cardinality(Unoccupied(occ)) + 1
  <1>1. IsFiniteSet(Slots) /\ Cardinality(Slots) = MaxLoaded
    BY FS_Interval, SizeAssumption DEF Slots
  <1>2. IsFiniteSet(Unoccupied(occ)) /\ Cardinality(Unoccupied(occ)) <= MaxLoaded
    BY <1>1, FS_Subset DEF Unoccupied
  <1>3. Cardinality(Unoccupied(occ)) \in Nat
    BY <1>2, FS_CardinalityType
  <1>4. Cardinality(Unoccupied(occ)) > 0 => \E s \in Slots : ~occ[s]
    BY <1>2, FS_EmptySet DEF Unoccupied
  <1>5. ASSUME NEW s \in Slots, ~occ[s]
        PROVE  Cardinality(Unoccupied([occ EXCEPT ![s] = TRUE]))
                  = Cardinality(Unoccupied(occ)) - 1
    <2>1. Unoccupied([occ EXCEPT ![s] = TRUE]) = Unoccupied(occ) \ {s}
      BY <1>5 DEF Unoccupied
    <2> QED BY <1>2, <1>5, <2>1, FS_RemoveElement DEF Unoccupied
  <1>6. ASSUME NEW s \in Slots, occ[s]
        PROVE  Cardinality(Unoccupied([occ EXCEPT ![s] = FALSE]))
                  = Cardinality(Unoccupied(occ)) + 1
    <2>1. Unoccupied([occ EXCEPT ![s] = FALSE]) = Unoccupied(occ) \cup {s}
      BY <1>6 DEF Unoccupied
    <2> QED BY <1>2, <1>6, <2>1, FS_AddElement DEF Unoccupied
  <1> QED BY <1>2, <1>3, <1>4, <1>5, <1>6, SizeAssumption
-----------------------------------------------------------------------------
(* The invariant is kept by every action. *)

\* The state after manufacture and the first TPM2_Startup satisfies the invariant.
LEMMA InitEstablishes == Init => IInv
  <1> SUFFICES ASSUME Init PROVE IInv
    OBVIOUS
  <1> USE DEF Init, NoImage, EmptyArray, NoContext
  <1>1. TypeOK
    BY SizeAssumption, RangeAssumption DEF TypeOK, Context, NoOldest, Handles
  <1>2. slotMod \in Nat /\ slotMod > MaxLoaded + 1 /\ MaxLoaded \in Nat
    BY <1>1, ModulusFacts
  <1>3. SlotAccounting
    <2>1. {s \in Slots : ~occupied[s]} = Slots
      OBVIOUS
    <2>2. Cardinality(Slots) = MaxLoaded
      BY FS_Interval, SizeAssumption DEF Slots
    <2>3. \A h \in Handles : ~SessionIsLoaded(h)
      BY <1>2 DEF SessionIsLoaded
    <2>4. \A s \in Slots : ~occupied[s]
      OBVIOUS
    <2>5. freeSessionSlots = Cardinality({s \in Slots : ~occupied[s]})
      BY <2>1, <2>2, Zenon
    <2> QED BY <2>3, <2>4, <2>5 DEF SlotAccounting
  <1>4. WindowInv
    <2>1. (MaxLoaded + 1) % slotMod = MaxLoaded + 1
      <3>1. MaxLoaded + 1 \in 0 .. slotMod - 1
        BY <1>2
      <3> QED BY <1>2, <3>1, SmallResidue
    <2> QED BY <1>2, <2>1 DEF WindowInv, Coherent
  <1>5. ImageInv /\ PowerInv
    BY DEF ImageInv, PowerInv
  <1>6. KeptInv
    BY <1>2 DEF KeptInv, KeptIsOlder
  <1>7. OldestIsOldest /\ RoomInv
    BY <1>2, SizeAssumption
       DEF OldestIsOldest, RoomInv, SavedIn, GapAtMaximum, NoOldest
  <1> QED BY <1>1, <1>3, <1>4, <1>5, <1>6, <1>7 DEF IInv

\* A command that only clears the orderly state.
LEMMA ClearingKeeps ==
    ASSUME IInv, started, ClearOrderly, UNCHANGED <<gr, table, slotMod, history>>
    PROVE  IInv'
  <1> USE DEF IInv, ClearOrderly, gr, table, history
  <1>1. TypeOK'
    BY ModulusFacts, RangeAssumption DEF TypeOK, NoImage, EmptyArray, Context
  <1>2. SlotAccounting'
    BY DEF SlotAccounting, SessionIsLoaded, CounterHasRoom
  <1>3. WindowInv' /\ KeptInv'
    BY DEF WindowInv, KeptInv, KeptIsOlder, Coherent
  <1>4. ImageInv'
    BY DEF ImageInv
  <1>5. OldestIsOldest' /\ RoomInv'
    BY DEF OldestIsOldest, RoomInv, SavedIn, GapAtMaximum, CounterHasRoom,
           SessionIsSaved, Masked
  <1>6. PowerInv'
    BY DEF PowerInv
  <1> QED BY <1>1, <1>2, <1>3, <1>4, <1>5, <1>6, ZenonT(60)

\* A session moves into a free slot.
LEMMA OccupyingKeeps ==
    ASSUME IInv, NEW s \in Slots, NEW h \in Handles, ~occupied[s], ~SessionIsLoaded(h),
           contextArray' = [contextArray EXCEPT ![h] = s + 1], OccupySlot(s),
           contextCounter' = contextCounter
    PROVE  /\ SlotAccounting'
           /\ freeSessionSlots' \in 0 .. MaxLoaded
           /\ occupied' \in [Slots -> BOOLEAN]
  <1> USE DEF IInv
  <1>1. occupied \in [Slots -> BOOLEAN] /\ contextArray \in [Handles -> Nat]
    BY ModulusFacts DEF TypeOK
  <1>2. MaxLoaded \in Nat /\ s \in Nat /\ s + 1 \in 1 .. MaxLoaded
    BY SizeAssumption DEF Slots
  <1>3. occupied' = [occupied EXCEPT ![s] = TRUE] /\ occupied' \in [Slots -> BOOLEAN]
    BY <1>1 DEF OccupySlot
  <1>4. freeSessionSlots' = Cardinality({t \in Slots : ~occupied'[t]})
    <2>1. freeSessionSlots = Cardinality(Unoccupied(occupied))
      BY DEF SlotAccounting, Unoccupied
    <2>2. freeSessionSlots' = Cardinality(Unoccupied(occupied'))
      BY <1>1, <1>3, <2>1, SlotCount, Zenon DEF OccupySlot
    <2> QED BY <2>2 DEF Unoccupied
  <1>5. freeSessionSlots' \in 0 .. MaxLoaded
    BY <1>3, <1>4, SlotCount, Zenon DEF Unoccupied
  <1>6. \A g \in Handles : SessionIsLoaded(g)' => occupied'[contextArray'[g] - 1]
    BY <1>1, <1>2, <1>3 DEF SlotAccounting, SessionIsLoaded, Slots
  <1>7. \A g, k \in Handles : SessionIsLoaded(g)' /\ contextArray'[g] = contextArray'[k] => g = k
    <2>1. \A g \in Handles : contextArray[g] # s + 1
      BY <1>1, <1>2 DEF SlotAccounting, SessionIsLoaded
    <2> QED BY <1>1, <1>2, <2>1 DEF SlotAccounting, SessionIsLoaded
  <1>8. CounterHasRoom' =>
          \A t \in Slots : occupied'[t] => \E g \in Handles : contextArray'[g] = t + 1
    <2> SUFFICES ASSUME CounterHasRoom', NEW t \in Slots, occupied'[t]
                 PROVE  \E g \in Handles : contextArray'[g] = t + 1
      OBVIOUS
    <2>1. CASE t = s
      BY <1>1, <2>1
    <2>2. CASE t # s
      <3>1. PICK g \in Handles : contextArray[g] = t + 1
        BY <1>1, <1>3, <2>2 DEF SlotAccounting, CounterHasRoom
      <3>2. g # h
        BY <1>2, <3>1 DEF SessionIsLoaded, Slots
      <3> QED BY <1>1, <3>1, <3>2
    <2> QED BY <2>1, <2>2
  <1> QED BY <1>3, <1>4, <1>5, <1>6, <1>7, <1>8, ZenonT(60) DEF SlotAccounting

\* A loaded session leaves its slot.
LEMMA FreeingKeeps ==
    ASSUME IInv, NEW h \in Handles, SessionIsLoaded(h), NEW v \in Nat, v \notin 1 .. MaxLoaded,
           contextArray' = [contextArray EXCEPT ![h] = v], FreeSlot(contextArray[h] - 1),
           CounterHasRoom' => CounterHasRoom
    PROVE  /\ SlotAccounting'
           /\ freeSessionSlots' \in 0 .. MaxLoaded
           /\ occupied' \in [Slots -> BOOLEAN]
           /\ freeSessionSlots' >= 1
  <1> USE DEF IInv
  <1> DEFINE s == contextArray[h] - 1
  <1>1. occupied \in [Slots -> BOOLEAN] /\ contextArray \in [Handles -> Nat]
    BY ModulusFacts DEF TypeOK
  <1>2. MaxLoaded \in Nat /\ s \in Slots /\ s + 1 = contextArray[h] /\ occupied[s]
    BY <1>1, SizeAssumption DEF Slots, SessionIsLoaded, SlotAccounting
  <1>3. occupied' = [occupied EXCEPT ![s] = FALSE] /\ occupied' \in [Slots -> BOOLEAN]
    BY <1>1, Zenon DEF FreeSlot
  <1>4. /\ freeSessionSlots' = Cardinality({t \in Slots : ~occupied'[t]})
        /\ freeSessionSlots' >= 1
    <2>1. /\ freeSessionSlots = Cardinality(Unoccupied(occupied))
          /\ freeSessionSlots \in 0 .. MaxLoaded
      BY DEF SlotAccounting, Unoccupied, TypeOK
    <2>2. freeSessionSlots' = freeSessionSlots + 1
      BY DEF FreeSlot
    <2>3. freeSessionSlots' = Cardinality(Unoccupied(occupied'))
      BY <1>1, <1>2, <1>3, <2>1, <2>2, SlotCount, Zenon
    <2> QED BY <1>2, <2>1, <2>2, <2>3 DEF Unoccupied
  <1>5. freeSessionSlots' \in 0 .. MaxLoaded
    BY <1>3, <1>4, SlotCount, Zenon DEF Unoccupied
  <1> HIDE DEF s
  <1>6. \A g \in Handles : SessionIsLoaded(g)' =>
            g # h /\ SessionIsLoaded(g) /\ contextArray'[g] = contextArray[g]
    BY <1>1 DEF SessionIsLoaded
  <1>7. \A g \in Handles : SessionIsLoaded(g)' => occupied'[contextArray'[g] - 1]
    <2> SUFFICES ASSUME NEW g \in Handles, SessionIsLoaded(g)'
                 PROVE  occupied'[contextArray'[g] - 1]
      OBVIOUS
    <2>1. g # h /\ SessionIsLoaded(g) /\ contextArray'[g] = contextArray[g]
      BY <1>6, ZenonT(60)
    <2>2. /\ occupied[contextArray[g] - 1]
          /\ contextArray[g] # contextArray[h]
          /\ contextArray[g] - 1 \in Slots
      BY <1>1, <1>2, <2>1 DEF SlotAccounting, SessionIsLoaded, Slots
    <2> QED BY <1>1, <1>2, <1>3, <2>1, <2>2
  <1>8. \A g, k \in Handles : SessionIsLoaded(g)' /\ contextArray'[g] = contextArray'[k] => g = k
    <2> SUFFICES ASSUME NEW g \in Handles, NEW k \in Handles, SessionIsLoaded(g)',
                        contextArray'[g] = contextArray'[k]
                 PROVE  g = k
      OBVIOUS
    <2>1. SessionIsLoaded(k)'
      BY DEF SessionIsLoaded
    <2> QED BY <1>6, <2>1 DEF SlotAccounting
  <1>9. CounterHasRoom' =>
          \A t \in Slots : occupied'[t] => \E g \in Handles : contextArray'[g] = t + 1
    <2> SUFFICES ASSUME CounterHasRoom', NEW t \in Slots, occupied'[t]
                 PROVE  \E g \in Handles : contextArray'[g] = t + 1
      OBVIOUS
    <2>1. t # s /\ occupied[t]
      BY <1>1, <1>2, <1>3, ZenonT(60)
    <2>2. PICK g \in Handles : contextArray[g] = t + 1
      BY <2>1 DEF SlotAccounting
    <2>3. g # h
      BY <1>1, <1>2, <2>1, <2>2 DEF Slots
    <2> QED BY <1>1, <2>2, <2>3
  <1> QED BY <1>3, <1>4, <1>5, <1>7, <1>8, <1>9, ZenonT(60) DEF SlotAccounting

\* TPM2_StartAuthSession takes a free slot and a free handle; saved sessions are
\* not touched.
LEMMA CreateKeeps ==
    ASSUME IInv, SessionCreate
    PROVE  IInv'
  <1> USE DEF IInv
  <1>1. PICK s \in Slots, h \in Handles :
           /\ FirstFreeSlot(s) /\ FirstFreeHandle(h)
           /\ contextArray' = [contextArray EXCEPT ![h] = s + 1]
           /\ OccupySlot(s)
    BY Zenon DEF SessionCreate
  <1>2. /\ UNCHANGED <<contextCounter, oldestSavedSession, slotMod, contextID, kept,
                       started, orderlyState, nvStateReset, totalResetCount>>
        /\ started /\ freeSessionSlots > 0 /\ ~(freeSessionSlots = 1 /\ GapAtMaximum)
    BY DEF SessionCreate, LastSlotIsReserved, power, history
  <1>3. ~occupied[s] /\ contextArray[h] = 0 /\ ~SessionIsLoaded(h)
    BY <1>1 DEF FirstFreeSlot, FirstFreeHandle, SessionIsLoaded
  <1>4. /\ SlotAccounting' /\ freeSessionSlots' \in 0 .. MaxLoaded
        /\ occupied' \in [Slots -> BOOLEAN]
    BY <1>1, <1>2, <1>3, OccupyingKeeps, Zenon
  <1>5. contextArray \in [Handles -> Nat] /\ MaxLoaded \in Nat /\ s + 1 \in 1 .. MaxLoaded
    BY ModulusFacts, SizeAssumption, SMTT(60), Z3T(60) DEF TypeOK, Slots
  <1>6. TypeOK'
    BY SMTT(60), Z3T(60), <1>1, <1>2, <1>4, <1>5, ModulusFacts DEF TypeOK
  <1>7. contextID[h] = 0
    BY <1>2, <1>3, <1>5, SMTT(60), Z3T(60) DEF WindowInv, Coherent
  <1>8. WindowInv'
    BY <1>1, <1>2, <1>3, <1>5, <1>7 DEF WindowInv, Coherent
  <1>9. SavedIn(contextArray') = SavedIn(contextArray)
    BY <1>1, <1>3, <1>5, SMTT(60), Z3T(60) DEF SavedIn
  <1>10. OldestIsOldest'
    BY <1>1, <1>2, <1>3, <1>5, <1>9, SMTT(60), Z3T(60)
       DEF OldestIsOldest, CounterHasRoom, SessionIsSaved, SavedIn
  <1>11. RoomInv'
    <2> SUFFICES ASSUME CounterHasRoom', GapAtMaximum'
                 PROVE  freeSessionSlots' >= 1
      BY ZenonT(60) DEF RoomInv
    <2>1. oldestSavedSession \in Handles /\ SessionIsSaved(oldestSavedSession)
      BY <1>2, SizeAssumption, SMTT(60), Z3T(60)
         DEF OldestIsOldest, GapAtMaximum, CounterHasRoom, TypeOK, NoOldest, SavedIn
    <2>2. GapAtMaximum
      BY <1>1, <1>2, <1>3, <1>5, <2>1, SMTT(60), Z3T(60) DEF GapAtMaximum, SessionIsSaved, Masked
    <2> QED BY <1>1, <1>2, <2>2 DEF OccupySlot, TypeOK
  <1>12. KeptInv' /\ ImageInv' /\ PowerInv'
    BY <1>2 DEF KeptInv, KeptIsOlder, ImageInv, PowerInv, Coherent
  <1> QED BY <1>4, <1>6, <1>8, <1>10, <1>11, <1>12, ZenonT(60)

\* Before a successful save no saved session is at the far end of the window:
\* the comparison with the oldest one is enough.
LEMMA SaveLeavesWindow ==
    ASSUME IInv, started, CounterHasRoom, ~GapAtMaximum
    PROVE  \A g \in Handles : contextID[g] # 0 => contextCounter < contextID[g] + slotMod
  <1> USE DEF IInv
  <1> SUFFICES ASSUME NEW g \in Handles, contextID[g] # 0,
                      contextCounter >= contextID[g] + slotMod
               PROVE  FALSE
    BY ModulusFacts DEF TypeOK
  <1> DEFINE o == oldestSavedSession
  <1>1. slotMod \in Nat /\ slotMod > 0 /\ MaxActive \in Nat /\ contextCounter \in Nat
        /\ \A h \in Handles : contextID[h] \in Nat
    BY ModulusFacts, SMTT(60), Z3T(60) DEF TypeOK
  <1>2. contextCounter = contextID[g] + slotMod /\ g \in SavedIn(contextArray)
    BY SMTT(60), Z3T(60), <1>1 DEF WindowInv, Coherent, SavedIn
  <1>3. o \in Handles /\ o \in SavedIn(contextArray) /\ contextID[o] <= contextID[g]
    BY <1>2, SizeAssumption, ZenonT(60) DEF OldestIsOldest, TypeOK, SavedIn, SessionIsSaved
  <1>4. contextID[o] # 0
    BY <1>1, <1>3, ModulusFacts DEF WindowInv, Coherent, SavedIn, CounterHasRoom
  <1>5. contextCounter <= contextID[o] + slotMod /\ contextArray[o] = contextID[o] % slotMod
    BY <1>3, <1>4, ZenonT(60) DEF WindowInv, Coherent
  <1>6. contextCounter = contextID[o] + slotMod
    BY <1>1, <1>2, <1>3, <1>5, SMTT(60), Z3T(60)
  <1>7. contextCounter % slotMod = contextID[o] % slotMod
    <2>1. \A a, b \in Int : b = a + slotMod => b % slotMod = a % slotMod
      BY <1>1, ShiftResidue, Zenon
    <2> QED BY <1>1, <1>3, <1>6, <2>1
  <1> QED BY <1>1, <1>3, <1>5, <1>7, SMTT(60), Z3T(60) DEF GapAtMaximum, Masked, Handles

\* TPM2_ContextSave: the saved session becomes the newest in the window, and the
\* counter moves past the slot numbers when its low-order bits wrap.
LEMMA SaveKeeps ==
    ASSUME IInv, NEW h \in Handles, ContextSave(h)
    PROVE  IInv'
  <1> USE DEF IInv
  <1> DEFINE c == contextCounter
             v == Masked(contextCounter)
  <1>1. /\ started /\ SessionIsLoaded(h) /\ ~GapAtMaximum /\ c + 1 < CounterMod
        /\ contextArray' = [contextArray EXCEPT ![h] = v]
        /\ contextCounter' = NextCounter
        /\ oldestSavedSession' =
              IF oldestSavedSession >= MaxActive THEN h ELSE oldestSavedSession
        /\ FreeSlot(contextArray[h] - 1)
        /\ contextID' = [contextID EXCEPT ![h] = c]
        /\ slotMod' = slotMod
        /\ started' = started /\ totalResetCount' = totalResetCount
        /\ orderlyState' = "SU_NONE" /\ nvStateReset' = NoImage
    BY DEF ContextSave, ClearOrderly
  <1>2. \/ kept' = [handle |-> h, sequence |-> c, reset |-> totalResetCount]
        \/ kept' = kept
    BY DEF ContextSave
  <1>3. /\ slotMod \in Nat /\ slotMod > 0 /\ slotMod > MaxLoaded + 1 /\ MaxLoaded \in Nat
        /\ MaxActive \in Nat /\ CounterMod \in Nat /\ c \in Nat
        /\ contextArray \in [Handles -> Nat]
        /\ contextID \in [Handles -> Nat]
    BY ModulusFacts DEF TypeOK
  <1>4. Coherent(contextArray, contextID, c)
    BY <1>1, ZenonT(60) DEF WindowInv
  <1>5. v = c % slotMod /\ v \in 0 .. slotMod - 1 /\ v > MaxLoaded
    BY <1>3, <1>4, DivMod DEF Masked, Coherent
  <1>6. c # 0
    <2>1. 0 % slotMod = 0
      BY <1>3, SmallResidue, SMTT(60), Z3T(60)
    <2> QED BY <1>3, <1>5, <2>1
  <1>7. /\ NextCounter \in 0 .. CounterMod - 1 /\ NextCounter > c
        /\ NextCounter <= c + slotMod /\ NextCounter % slotMod > MaxLoaded
        /\ \A a \in Nat : a % slotMod > MaxLoaded /\ a < c /\ c < a + slotMod
              => NextCounter <= a + slotMod
    BY <1>1, <1>4, NextCounterFacts DEF Coherent
  <1>8. /\ SlotAccounting' /\ freeSessionSlots' \in 0 .. MaxLoaded
        /\ occupied' \in [Slots -> BOOLEAN] /\ freeSessionSlots' >= 1
    <2>1. v \in Nat /\ v \notin 1 .. MaxLoaded /\ CounterHasRoom
      BY <1>1, <1>3, <1>5, SMTT(60), Z3T(60) DEF CounterHasRoom
    <2> HIDE DEF v
    <2> QED BY <1>1, <2>1, FreeingKeeps, Zenon
  <1>9. TypeOK'
    <2>1. /\ contextArray' \in [Handles -> 0 .. slotMod' - 1]
          /\ contextID' \in [Handles -> 0 .. CounterMod - 1]
          /\ slotMod' \in {OldSlots, NewSlots}
      BY <1>1, <1>5, ZenonT(60) DEF TypeOK
    <2>2. oldestSavedSession' \in Handles \cup {NoOldest}
      BY <1>1, ZenonT(60) DEF TypeOK
    <2>3. kept' \in Context
      BY <1>2, SMTT(60), Z3T(60) DEF TypeOK, Context
    <2>4. nvStateReset' \in [contextArray : [Handles -> 0 .. slotMod' - 1],
                             contextCounter : 0 .. CounterMod - 1,
                             contextID : [Handles -> 0 .. CounterMod - 1]]
      BY <1>1, <1>3, RangeAssumption DEF NoImage, EmptyArray
    <2> QED BY <1>1, <1>7, <1>8, <2>1, <2>2, <2>3, <2>4, ZenonT(60) DEF TypeOK
  <1> HIDE DEF c, v
  <1>10. \A g \in Handles : contextID[g] # 0 => c < contextID[g] + slotMod
    BY <1>1, SaveLeavesWindow, ZenonT(60) DEF CounterHasRoom, c
  <1>11. contextID[h] = 0
    BY <1>1, <1>3, <1>4, SMTT(60), Z3T(60) DEF Coherent, SessionIsLoaded
  <1>12. \A g \in Handles : contextArray[g] > MaxLoaded => contextID[g] # 0
    BY <1>1, <1>3, <1>4, SMTT(60), Z3T(60) DEF Coherent, c
  <1>13. WindowInv'
    <2>1. ASSUME NEW g \in Handles, contextID'[g] # 0
          PROVE  /\ contextArray'[g] = contextID'[g] % slotMod
                 /\ contextArray'[g] > MaxLoaded
                 /\ contextID'[g] < NextCounter
                 /\ NextCounter <= contextID'[g] + slotMod
      <3>1. CASE g = h
        BY <1>1, <1>3, <1>5, <1>7, <3>1, ZenonT(60)
      <3>2. CASE g # h
        <4>1. /\ contextID'[g] = contextID[g] /\ contextArray'[g] = contextArray[g]
              /\ contextID[g] # 0
          BY <1>1, <1>3, <2>1, <3>2, ZenonT(60)
        <4>2. /\ contextArray[g] = contextID[g] % slotMod
              /\ contextArray[g] > MaxLoaded /\ contextID[g] < c
          BY <1>4, <4>1, ZenonT(60) DEF Coherent
        <4>3. contextID[g] \in Nat /\ c < contextID[g] + slotMod
          BY <1>3, <1>10, <4>1, ZenonT(60)
        <4>4. NextCounter <= contextID[g] + slotMod
          BY <1>7, <4>2, <4>3, ZenonT(60)
        <4> QED BY <1>3, <1>7, <4>1, <4>2, <4>3, <4>4, SMTT(60), Z3T(60)
      <3> QED BY <3>1, <3>2, ZenonT(60)
    <2>2. \A g \in Handles : contextArray'[g] > MaxLoaded => contextID'[g] # 0
      BY <1>1, <1>3, <1>6, <1>12, ZenonT(60)
    <2>3. \A g, k \in Handles : contextID'[g] = contextID'[k] /\ contextID'[g] # 0 => g = k
      <3>1. \A g \in Handles : contextID[g] # c
        BY <1>3, <1>4, <1>6 DEF Coherent
      <3> QED BY <1>1, <1>3, <1>4, <3>1, ZenonT(60) DEF Coherent
    <2> QED BY <1>1, <1>7, <2>1, <2>2, <2>3, ZenonT(60) DEF WindowInv, Coherent
  <1>14. OldestIsOldest'
    <2> DEFINE o == oldestSavedSession
    <2>1. \A g \in Handles : contextID[g] < c \/ contextID[g] = 0
      BY <1>4, ZenonT(60) DEF Coherent
    <2>2. SavedIn(contextArray') = SavedIn(contextArray) \cup {h}
      BY <1>1, <1>3, <1>5, ZenonT(60) DEF SavedIn
    <2>3. CASE o = NoOldest
      <3>1. SavedIn(contextArray) = {}
        BY <1>1, <2>3, ZenonT(60) DEF OldestIsOldest, CounterHasRoom, c
      <3>2. oldestSavedSession' = h
        BY <1>1, <1>3, <2>3 DEF NoOldest
      <3>3. SessionIsSaved(h)' /\ SavedIn(contextArray') = {h}
        BY <1>1, <1>3, <1>5, <2>2, <3>1, ZenonT(60) DEF SessionIsSaved
      <3>4. h # NoOldest /\ contextID'[h] <= contextID'[h]
        BY <1>1, <1>3, SMTT(60), Z3T(60) DEF NoOldest, Handles
      <3> QED BY <3>2, <3>3, <3>4, ZenonT(60) DEF OldestIsOldest
    <2>4. CASE o # NoOldest
      <3>1. o \in Handles /\ o < MaxActive /\ contextArray[o] > MaxLoaded
        BY <1>1, <1>3, <2>4, SMTT(60), Z3T(60)
           DEF OldestIsOldest, CounterHasRoom, TypeOK, SessionIsSaved, Handles, c
      <3>2. oldestSavedSession' = o /\ o # h
        BY <1>1, <1>3, <3>1 DEF SessionIsLoaded, Handles
      <3>3. contextID[o] < c
        BY <1>12, <2>1, <3>1, ZenonT(60)
      <3>4. \A g \in SavedIn(contextArray) : g # h /\ contextID[o] <= contextID[g]
        BY <1>1, <1>3, <2>4, SMTT(60), Z3T(60)
           DEF OldestIsOldest, CounterHasRoom, SavedIn, SessionIsLoaded, c
      <3>5. \A g \in SavedIn(contextArray') : contextID'[o] <= contextID'[g]
        BY <1>1, <1>3, <2>2, <3>1, <3>2, <3>3, <3>4, SMTT(60), Z3T(60) DEF SavedIn
      <3>6. SessionIsSaved(o)'
        BY <1>1, <1>3, <3>1, <3>2, ZenonT(60) DEF SessionIsSaved
      <3> QED BY <2>4, <3>2, <3>5, <3>6, ZenonT(60) DEF OldestIsOldest
    <2> QED BY <2>3, <2>4, ZenonT(60)
  <1>15. RoomInv'
    BY <1>8, ZenonT(60) DEF RoomInv
  <1>16. KeptInv'
    <2>1. CASE kept' = kept
      BY <1>1, <1>3, <1>7, <2>1, SMTT(60), Z3T(60) DEF KeptInv, KeptIsOlder, TypeOK, Context, c
    <2>2. CASE kept' = [handle |-> h, sequence |-> c, reset |-> totalResetCount]
      BY <1>1, <1>3, <1>6, <1>7, <2>2, SMTT(60), Z3T(60) DEF KeptInv, KeptIsOlder, TypeOK
    <2> QED BY <1>2, <2>1, <2>2, ZenonT(60)
  <1>17. ImageInv' /\ PowerInv'
    BY <1>1 DEF ImageInv, PowerInv
  <1> QED BY <1>8, <1>9, <1>13, <1>14, <1>15, <1>16, <1>17, ZenonT(60)

\* TPM2_ContextSave at the last counter value: the entry is overwritten, which
\* leaves the parts of the invariant that require room in the counter.
LEMMA TooManyKeeps ==
    ASSUME IInv, NEW h \in Handles, ContextSaveTooMany(h)
    PROVE  IInv'
  <1> USE DEF IInv
  <1> DEFINE v == Masked(contextCounter)
  <1>1. /\ started /\ SessionIsLoaded(h) /\ contextCounter + 1 = CounterMod
        /\ contextArray' = [contextArray EXCEPT ![h] = v]
        /\ UNCHANGED <<contextCounter, oldestSavedSession, occupied, freeSessionSlots,
                       slotMod, contextID, kept, started, totalResetCount>>
        /\ orderlyState' = "SU_NONE" /\ nvStateReset' = NoImage
    BY ZenonT(60) DEF ContextSaveTooMany, ClearOrderly, table, history
  <1>2. /\ slotMod \in Nat /\ slotMod > 0 /\ MaxLoaded \in Nat /\ CounterMod \in Nat
        /\ contextCounter \in Nat /\ contextArray \in [Handles -> Nat]
    BY ModulusFacts, SMTT(60), Z3T(60) DEF TypeOK
  <1>3. v = contextCounter % slotMod /\ v \in 0 .. slotMod - 1 /\ v > MaxLoaded
    BY <1>1, <1>2, DivMod, SMTT(60), Z3T(60) DEF Masked, WindowInv, Coherent
  <1>4. ~CounterHasRoom'
    BY <1>1, <1>2, SMTT(60), Z3T(60) DEF CounterHasRoom
  <1> HIDE DEF v
  <1>5. TypeOK'
    BY <1>1, <1>2, <1>3, RangeAssumption, SMTT(60), Z3T(60) DEF TypeOK, NoImage, EmptyArray
  <1>6. SlotAccounting'
    BY <1>1, <1>2, <1>3, <1>4, SMTT(60), Z3T(60) DEF SlotAccounting, SessionIsLoaded
  <1>7. contextID[h] = 0
    BY <1>1, <1>2, SMTT(60), Z3T(60) DEF WindowInv, Coherent, SessionIsLoaded
  <1>8. WindowInv'
    BY <1>1, <1>2, <1>3, <1>7, ZenonT(60) DEF WindowInv, Coherent
  <1>9. OldestIsOldest' /\ RoomInv'
    BY <1>4, ZenonT(60) DEF OldestIsOldest, RoomInv
  <1>10. KeptInv' /\ ImageInv' /\ PowerInv'
    BY <1>1, ZenonT(60) DEF KeptInv, KeptIsOlder, ImageInv, PowerInv
  <1> QED BY <1>5, <1>6, <1>8, <1>9, <1>10, ZenonT(60)

\* A saved session is loaded or flushed: its entry becomes v, and when it was the
\* oldest one the next oldest is found.  The gap is then no longer at its maximum.
LEMMA UnsavingKeeps ==
    ASSUME IInv, started, NEW h \in Handles, SessionIsSaved(h), NEW v \in 0 .. MaxLoaded,
           contextArray' = [contextArray EXCEPT ![h] = v],
           contextID' = [contextID EXCEPT ![h] = 0],
           UNCHANGED <<contextCounter, slotMod, started>>,
           IF h = oldestSavedSession
           THEN ContextIdSetOldest(contextArray', contextCounter)
           ELSE UNCHANGED oldestSavedSession
    PROVE  /\ WindowInv' /\ OldestIsOldest'
           /\ contextArray' \in [Handles -> 0 .. slotMod - 1]
           /\ contextID' \in [Handles -> 0 .. CounterMod - 1]
           /\ oldestSavedSession' \in Handles \cup {NoOldest}
           /\ CounterHasRoom /\ h = oldestSavedSession => ~GapAtMaximum'
           /\ CounterHasRoom /\ h # oldestSavedSession /\ GapAtMaximum' => GapAtMaximum
  <1> USE DEF IInv
  <1> DEFINE c == contextCounter
             o == oldestSavedSession
  <1>1. /\ slotMod \in Nat /\ slotMod > MaxLoaded + 1 /\ MaxLoaded \in Nat
        /\ MaxActive \in Nat /\ CounterMod \in Nat /\ c \in Nat
        /\ contextArray \in [Handles -> Nat] /\ contextID \in [Handles -> Nat]
    BY ModulusFacts, SMTT(60), Z3T(60) DEF TypeOK
  <1>2. /\ contextArray' \in [Handles -> 0 .. slotMod - 1]
        /\ contextArray' \in [Handles -> Nat]
        /\ contextID' \in [Handles -> 0 .. CounterMod - 1]
    BY <1>1 DEF TypeOK
  <1>3. Coherent(contextArray, contextID, c)
    BY ZenonT(60) DEF WindowInv
  <1>4. Coherent(contextArray', contextID', c)
    BY <1>1, <1>3, SMTT(60), Z3T(60) DEF Coherent
  <1>5. WindowInv'
    BY <1>4, ZenonT(60) DEF WindowInv, Coherent
  <1>6. oldestSavedSession' \in Handles \cup {NoOldest}
    BY DEF TypeOK, ContextIdSetOldest
  <1>7. SavedIn(contextArray') = SavedIn(contextArray) \ {h}
    BY <1>1, SMTT(60), Z3T(60) DEF SavedIn
  <1>8. ASSUME CounterHasRoom
        PROVE  /\ o \in Handles /\ o < MaxActive /\ contextArray[o] > MaxLoaded
               /\ contextID[o] # 0
               /\ \A g \in SavedIn(contextArray) : contextID[o] <= contextID[g]
    <2>1. h \in SavedIn(contextArray)
      BY ZenonT(60) DEF SavedIn, SessionIsSaved
    <2>2. o \in Handles /\ contextArray[o] > MaxLoaded
      BY <1>8, <2>1, ZenonT(60) DEF OldestIsOldest, SessionIsSaved, TypeOK
    <2>3. o < MaxActive
      BY <1>1, <2>2, SMTT(60), Z3T(60) DEF Handles
    <2>4. contextID[o] # 0
      BY <1>1, <1>3, <1>8, <2>2, SMTT(60), Z3T(60) DEF Coherent, CounterHasRoom
    <2> QED BY <1>8, <2>1, <2>2, <2>3, <2>4, ZenonT(60) DEF OldestIsOldest
  <1>9. CASE h = o
    <2>1. PICK q \in Handles \cup {NoOldest} :
             IsOldest(q, contextArray', c) /\ oldestSavedSession' = q
      BY <1>9, Zenon DEF ContextIdSetOldest
    <2>2. ASSUME CounterHasRoom
          PROVE  IF q = NoOldest THEN SavedIn(contextArray') = {}
                 ELSE /\ q \in Handles /\ contextArray'[q] > MaxLoaded
                      /\ \A g \in SavedIn(contextArray') : contextID'[q] <= contextID'[g]
      BY <1>1, <1>2, <1>4, <2>1, <2>2, SetOldestFacts, ZenonT(60) DEF CounterHasRoom
    <2>3. OldestIsOldest'
      BY <2>1, <2>2, ZenonT(60) DEF OldestIsOldest, CounterHasRoom, SessionIsSaved
    <2>4. ASSUME CounterHasRoom, GapAtMaximum' PROVE FALSE
      <3>1. q \in Handles /\ contextArray'[q] = Masked(c)
        BY <1>1, <2>1, <2>4, SMTT(60), Z3T(60) DEF GapAtMaximum, NoOldest, Masked
      <3>2. q \in SavedIn(contextArray) /\ q # h
        BY <1>1, <1>7, <2>2, <2>4, <3>1, SizeAssumption, SMTT(60), Z3T(60)
           DEF SavedIn, NoOldest, Handles
      <3>3. contextArray'[q] = contextArray[q] /\ contextID[q] # 0
        BY <1>1, <1>3, <2>4, <3>1, <3>2, SMTT(60), Z3T(60) DEF Coherent, SavedIn, CounterHasRoom
      <3>4. c = contextID[q] + slotMod
        <4>1. contextID \in [Handles -> 0 .. CounterMod - 1]
          BY ZenonT(60) DEF TypeOK
        <4>2. \A g \in Handles : contextID[g] # 0 /\ contextArray[g] = Masked(c)
                                => c = contextID[g] + slotMod
          BY <1>1, <1>3, <4>1, WindowFacts, SMTT(60), Z3T(60)
        <4> QED BY <3>1, <3>3, <4>2, ZenonT(60)
      <3>5. contextID[o] <= contextID[q] /\ contextID[o] # contextID[q]
        BY <1>3, <1>8, <1>9, <2>4, <3>1, <3>2, ZenonT(60) DEF Coherent
      <3>6. c <= contextID[o] + slotMod
        BY <1>3, <1>8, <2>4, ZenonT(60) DEF Coherent
      <3> QED BY <1>1, <1>8, <2>4, <3>1, <3>4, <3>5, <3>6, SMTT(60), Z3T(60)
    <2> QED BY <1>2, <1>5, <1>6, <1>9, <2>3, <2>4, ZenonT(60)
  <1>10. CASE h # o
    <2>1. oldestSavedSession' = o
      BY <1>10
    <2>2. OldestIsOldest'
      <3> SUFFICES ASSUME CounterHasRoom' PROVE OldestIsOldest'
        BY Zenon DEF OldestIsOldest
      <3>1. CounterHasRoom
        BY ZenonT(60) DEF CounterHasRoom
      <3>2. SessionIsSaved(o)' /\ o # NoOldest
        BY <1>1, <1>8, <1>10, <3>1, SMTT(60), Z3T(60) DEF SessionIsSaved, NoOldest, Handles
      <3>3. \A g \in SavedIn(contextArray') : contextID'[o] <= contextID'[g]
        BY <1>1, <1>7, <1>8, <1>10, <3>1, ZenonT(60) DEF SavedIn
      <3> QED BY <2>1, <3>2, <3>3, Zenon DEF OldestIsOldest
    <2>3. CounterHasRoom /\ GapAtMaximum' => GapAtMaximum
      BY <1>1, <1>8, <1>10, <2>1, ZenonT(60) DEF GapAtMaximum, Masked
    <2> QED BY <1>2, <1>5, <1>6, <1>10, <2>2, <2>3, ZenonT(60)
  <1> QED BY <1>9, <1>10, ZenonT(60)

\* TPM2_ContextLoad: an accepted context is the one of a saved session, which
\* moves from the window into a slot.
LEMMA LoadKeeps ==
    ASSUME IInv, NEW x \in PresentableContexts, ContextLoad(x)
    PROVE  IInv'
  <1> USE DEF IInv
  <1> DEFINE h == x.handle
  <1>1. h \in Handles
    BY SMTT(60), Z3T(60) DEF PresentableContexts, TypeOK, Context
  <1>2. /\ started /\ SessionIsSaved(h) /\ ~LoadIsRefused(h)
        /\ contextID' = [contextID EXCEPT ![h] = 0]
        /\ UNCHANGED <<contextCounter, slotMod, kept, started, totalResetCount>>
        /\ orderlyState' = "SU_NONE" /\ nvStateReset' = NoImage
        /\ IF h = oldestSavedSession
           THEN ContextIdSetOldest(contextArray', contextCounter)
           ELSE UNCHANGED oldestSavedSession
    BY DEF ContextLoad, ClearOrderly, ContextIsAccepted, SequenceNumberIsValid, SessionIsSaved
  <1>3. PICK s \in Slots :
           /\ FirstFreeSlot(s) /\ OccupySlot(s)
           /\ contextArray' = [contextArray EXCEPT ![h] = s + 1]
    BY Zenon DEF ContextLoad
  <1> HIDE DEF h
  <1>4. ~occupied[s] /\ ~SessionIsLoaded(h) /\ MaxLoaded \in Nat /\ s + 1 \in 0 .. MaxLoaded
    BY <1>1, <1>2, <1>3, SizeAssumption
       DEF FirstFreeSlot, SessionIsSaved, SessionIsLoaded, Slots, TypeOK
  <1>5. /\ SlotAccounting' /\ freeSessionSlots' \in 0 .. MaxLoaded
        /\ occupied' \in [Slots -> BOOLEAN]
    BY <1>1, <1>2, <1>3, <1>4, OccupyingKeeps, Zenon
  <1>6. /\ WindowInv' /\ OldestIsOldest'
        /\ contextArray' \in [Handles -> 0 .. slotMod - 1]
        /\ contextID' \in [Handles -> 0 .. CounterMod - 1]
        /\ oldestSavedSession' \in Handles \cup {NoOldest}
        /\ CounterHasRoom /\ h = oldestSavedSession => ~GapAtMaximum'
        /\ CounterHasRoom /\ h # oldestSavedSession /\ GapAtMaximum' => GapAtMaximum
    BY <1>1, <1>2, <1>3, <1>4, UnsavingKeeps, ZenonT(60)
  <1>7. TypeOK'
    BY SMTT(60), Z3T(60), <1>2, <1>5, <1>6, ModulusFacts, RangeAssumption
       DEF TypeOK, NoImage, EmptyArray
  <1>8. RoomInv'
    <2> SUFFICES ASSUME CounterHasRoom', GapAtMaximum'
                 PROVE  freeSessionSlots' >= 1
      BY DEF RoomInv
    <2>1. CounterHasRoom
      BY <1>2 DEF CounterHasRoom
    <2>2. h # oldestSavedSession /\ GapAtMaximum
      BY <1>6, <2>1, ZenonT(60)
    <2>3. freeSessionSlots # 0 /\ freeSessionSlots # 1
      BY <1>2, <2>2, ZenonT(60) DEF LoadIsRefused, LastSlotIsReserved
    <2> QED BY <1>3, <2>3 DEF OccupySlot, TypeOK
  <1>9. KeptInv' /\ ImageInv' /\ PowerInv'
    BY <1>2, ZenonT(60) DEF KeptInv, KeptIsOlder, ImageInv, PowerInv
  <1> QED BY <1>5, <1>6, <1>7, <1>8, <1>9, ZenonT(60)

\* A step that may end with the orderly state cleared keeps what is said of it.
LEMMA PowerKeeps ==
    ASSUME IInv, started, ClearOrderly \/ UNCHANGED power, UNCHANGED <<slotMod, kept>>
    PROVE  /\ ImageInv' /\ PowerInv' /\ started' /\ totalResetCount' = totalResetCount
           /\ orderlyState' \in {"SU_NONE", "SU_CLEAR", "SU_STATE"}
           /\ nvStateReset' \in [contextArray : [Handles -> 0 .. slotMod - 1],
                                 contextCounter : 0 .. CounterMod - 1,
                                 contextID : [Handles -> 0 .. CounterMod - 1]]
  <1> USE DEF IInv
  <1>1. CASE ClearOrderly
    BY SMTT(60), Z3T(60), <1>1, ModulusFacts, RangeAssumption
       DEF ClearOrderly, ImageInv, PowerInv, NoImage, EmptyArray
  <1>2. CASE UNCHANGED power
    BY <1>2, ZenonT(60) DEF power, ImageInv, PowerInv, TypeOK, Coherent, KeptIsOlder
  <1> QED BY <1>1, <1>2, ZenonT(60)

\* SessionFlush of a loaded session, by TPM2_FlushContext or at the end of a
\* session, gives its slot back.
LEMMA FlushLoadedKeeps ==
    ASSUME IInv, started, NEW h \in Handles, SessionIsLoaded(h), SessionFlush(h),
           ClearOrderly \/ UNCHANGED power,
           UNCHANGED <<contextCounter, slotMod, contextID, kept>>
    PROVE  IInv'
  <1> USE DEF IInv
  <1>1. /\ MaxLoaded \in Nat /\ contextArray \in [Handles -> Nat] /\ slotMod \in Nat
        /\ slotMod > 0 /\ contextArray[h] \in 1 .. MaxLoaded
    BY SMTT(60), Z3T(60), ModulusFacts DEF TypeOK, SessionIsLoaded
  <1>2. /\ contextArray' = [contextArray EXCEPT ![h] = 0]
        /\ FreeSlot(contextArray[h] - 1)
        /\ oldestSavedSession' = oldestSavedSession
    BY <1>1 DEF SessionFlush
  <1>3. /\ SlotAccounting' /\ freeSessionSlots' \in 0 .. MaxLoaded
        /\ occupied' \in [Slots -> BOOLEAN] /\ freeSessionSlots' >= 1
    <2>1. CounterHasRoom' => CounterHasRoom
      BY DEF CounterHasRoom
    <2>2. 0 \in Nat /\ 0 \notin 1 .. MaxLoaded
      BY <1>1
    <2> QED BY <1>2, <2>1, <2>2, FreeingKeeps, ZenonT(60)
  <1>4. /\ ImageInv' /\ PowerInv' /\ started' /\ totalResetCount' = totalResetCount
        /\ orderlyState' \in {"SU_NONE", "SU_CLEAR", "SU_STATE"}
        /\ nvStateReset' \in [contextArray : [Handles -> 0 .. slotMod - 1],
                              contextCounter : 0 .. CounterMod - 1,
                              contextID : [Handles -> 0 .. CounterMod - 1]]
    BY PowerKeeps
  <1>5. started' \in BOOLEAN
    <2>1. CASE ClearOrderly
      BY <2>1, ZenonT(60) DEF ClearOrderly, TypeOK
    <2>2. CASE UNCHANGED power
      BY <2>2, ZenonT(60) DEF power, TypeOK
    <2> QED BY <2>1, <2>2, ZenonT(60)
  <1>6. TypeOK'
    BY SMTT(60), Z3T(60), <1>1, <1>2, <1>3, <1>4, <1>5 DEF TypeOK
  <1>7. WindowInv'
    BY <1>1, <1>2 DEF WindowInv, Coherent
  <1>8. SavedIn(contextArray') = SavedIn(contextArray)
    BY <1>1, <1>2 DEF SavedIn
  <1>9. OldestIsOldest'
    <2>1. SessionIsSaved(oldestSavedSession)
          => oldestSavedSession # h /\ contextArray'[oldestSavedSession] = contextArray[oldestSavedSession]
      BY <1>1, <1>2, SMTT(60), Z3T(60) DEF SessionIsSaved
    <2> QED BY <1>2, <1>8, <2>1, ZenonT(60) DEF OldestIsOldest, CounterHasRoom, SessionIsSaved
  <1>10. RoomInv' /\ KeptInv'
    BY <1>3, <1>4, ZenonT(60) DEF RoomInv, KeptInv, KeptIsOlder
  <1> QED BY <1>3, <1>4, <1>6, <1>7, <1>9, <1>10, ZenonT(60)

\* TPM2_FlushContext of a loaded or a saved session.
LEMMA FlushKeeps ==
    ASSUME IInv, NEW h \in Handles, FlushContext(h)
    PROVE  IInv'
  <1> USE DEF IInv
  <1>1. /\ started /\ SessionFlush(h) /\ UNCHANGED <<contextCounter, slotMod, kept>>
        /\ UNCHANGED power
        /\ contextID' = [contextID EXCEPT ![h] = 0]
    BY ZenonT(60) DEF FlushContext
  <1>2. CASE SessionIsLoaded(h)
    <2>1. contextID[h] = 0
      BY SMTT(60), Z3T(60), <1>1, <1>2, ModulusFacts DEF WindowInv, Coherent, SessionIsLoaded
    <2>2. contextID' = contextID
      BY <1>1, <2>1, ZenonT(60) DEF TypeOK
    <2> QED BY <1>1, <1>2, <2>2, FlushLoadedKeeps, ZenonT(60)
  <1>3. CASE SessionIsSaved(h)
    <2>1. MaxLoaded \in Nat /\ 0 \in 0 .. MaxLoaded
      BY SizeAssumption
    <2>2. /\ contextArray' = [contextArray EXCEPT ![h] = 0]
          /\ UNCHANGED <<occupied, freeSessionSlots>>
          /\ IF h = oldestSavedSession
             THEN ContextIdSetOldest(contextArray', contextCounter)
             ELSE UNCHANGED oldestSavedSession
      BY <1>1, <1>3, ZenonT(60) DEF SessionFlush, SessionIsSaved
    <2>3. started' = started
      BY <1>1 DEF power
    <2>4. /\ WindowInv' /\ OldestIsOldest'
          /\ contextArray' \in [Handles -> 0 .. slotMod - 1]
          /\ contextID' \in [Handles -> 0 .. CounterMod - 1]
          /\ oldestSavedSession' \in Handles \cup {NoOldest}
          /\ CounterHasRoom /\ h = oldestSavedSession => ~GapAtMaximum'
          /\ CounterHasRoom /\ h # oldestSavedSession /\ GapAtMaximum' => GapAtMaximum
      BY <1>1, <1>3, <2>1, <2>2, <2>3, UnsavingKeeps, Zenon
    <2>5. TypeOK'
      BY <1>1, <2>2, <2>4, ZenonT(60) DEF TypeOK, power
    <2>6. SlotAccounting'
      BY SMTT(60), Z3T(60), <1>1, <1>3, <2>1, <2>2
         DEF SlotAccounting, SessionIsLoaded, SessionIsSaved,
                                    CounterHasRoom, TypeOK, Slots
    <2>7. RoomInv'
      BY <1>1, <2>2, <2>3, <2>4 DEF RoomInv, CounterHasRoom
    <2>8. KeptInv' /\ ImageInv' /\ PowerInv'
      BY <1>1, ZenonT(60) DEF KeptInv, KeptIsOlder, ImageInv, PowerInv, power, Coherent
    <2> QED BY <2>4, <2>5, <2>6, <2>7, <2>8, ZenonT(60)
  <1> QED BY <1>2, <1>3 DEF FlushContext

\* TPM2_Shutdown: the image it writes satisfies what the invariant says of gr.
LEMMA ShutdownKeeps ==
    ASSUME IInv, NEW type \in {"SU_CLEAR", "SU_STATE"}, Shutdown(type)
    PROVE  IInv'
  <1> USE DEF IInv
  <1>1. /\ started /\ orderlyState' = type
        /\ UNCHANGED <<contextArray, contextCounter, oldestSavedSession, occupied,
                       freeSessionSlots, slotMod, started, totalResetCount, contextID, kept>>
    BY ZenonT(60) DEF Shutdown, gr, table, history
  <1>2. \/ nvStateReset' = NoImage /\ type # "SU_STATE"
        \/ nvStateReset' = [contextArray |-> contextArray, contextCounter |-> contextCounter,
                            contextID |-> contextID]
    BY ZenonT(60) DEF Shutdown
  <1>3. TypeOK'
    <2>1. nvStateReset' \in [contextArray : [Handles -> 0 .. slotMod' - 1],
                             contextCounter : 0 .. CounterMod - 1,
                             contextID : [Handles -> 0 .. CounterMod - 1]]
      BY SMTT(60), Z3T(60), <1>1, <1>2, ModulusFacts, RangeAssumption
         DEF TypeOK, NoImage, EmptyArray
    <2> QED BY <1>1, <2>1, ZenonT(60) DEF TypeOK
  <1>4. SlotAccounting'
    BY <1>1, ZenonT(60) DEF SlotAccounting, SessionIsLoaded, CounterHasRoom
  <1>5. WindowInv' /\ KeptInv'
    BY <1>1, Zenon DEF WindowInv, KeptInv, KeptIsOlder, Coherent
  <1>6. ImageInv'
    <2> SUFFICES ASSUME type = "SU_STATE" PROVE ImageInv'
      BY <1>1, ZenonT(60) DEF ImageInv
    <2>1. /\ nvStateReset'.contextArray = contextArray
          /\ nvStateReset'.contextCounter = contextCounter
          /\ nvStateReset'.contextID = contextID
      BY <1>2
    <2>2. Coherent(contextArray, contextID, contextCounter)
      BY <1>1, ZenonT(60) DEF WindowInv
    <2>3. Coherent(nvStateReset.contextArray, nvStateReset.contextID,
                   nvStateReset.contextCounter)'
      BY <1>1, <2>1, <2>2, ZenonT(60) DEF Coherent
    <2>4. KeptIsOlder(nvStateReset.contextCounter)'
      BY <1>1, <2>1, ZenonT(60) DEF KeptInv, KeptIsOlder
    <2> QED BY <2>3, <2>4, ZenonT(60) DEF ImageInv
  <1>7. OldestIsOldest' /\ RoomInv'
    BY <1>1 DEF OldestIsOldest, RoomInv, SavedIn, GapAtMaximum, CounterHasRoom,
                SessionIsSaved, Masked
  <1>8. PowerInv'
    BY <1>1 DEF PowerInv
  <1> QED BY <1>3, <1>4, <1>5, <1>6, <1>7, <1>8, ZenonT(60)

\* No session is loaded and every slot is free: what _TPM_Init and Startup leave.
LEMMA EmptySlots ==
    ASSUME IInv, occupied' = [s \in Slots |-> FALSE], freeSessionSlots' = MaxLoaded,
           \A h \in Handles : contextArray'[h] \notin 1 .. MaxLoaded
    PROVE  /\ SlotAccounting' /\ freeSessionSlots' \in 0 .. MaxLoaded
           /\ occupied' \in [Slots -> BOOLEAN] /\ freeSessionSlots' >= 1
  <1>1. {s \in Slots : ~occupied'[s]} = Slots
    OBVIOUS
  <1>2. Cardinality(Slots) = MaxLoaded
    BY FS_Interval, SizeAssumption DEF Slots
  <1>3. \A h \in Handles : ~SessionIsLoaded(h)'
    BY DEF SessionIsLoaded
  <1>4. \A s \in Slots : ~occupied'[s]
    OBVIOUS
  <1>5. freeSessionSlots' = Cardinality({s \in Slots : ~occupied'[s]})
    BY <1>1, <1>2, ZenonT(60)
  <1>6. SlotAccounting'
    BY <1>3, <1>4, <1>5, ZenonT(60) DEF SlotAccounting
  <1> QED BY <1>6, SizeAssumption

\* _TPM_Init loses RAM; what is said of NV does not depend on it.
LEMMA TPMInitKeeps ==
    ASSUME IInv, TPMInit
    PROVE  IInv'
  <1> USE DEF IInv
  <1>1. /\ UNCHANGED <<slotMod, orderlyState, nvStateReset, totalResetCount, kept>>
        /\ started' = FALSE /\ contextArray' = EmptyArray /\ contextCounter' = 0
        /\ oldestSavedSession' = NoOldest /\ contextID' = EmptyArray
        /\ occupied' = [s \in Slots |-> FALSE] /\ freeSessionSlots' = MaxLoaded
        /\ orderlyState = "SU_STATE" \/ totalResetCount < MaxResets
    BY DEF TPMInit
  <1>2. \A h \in Handles : contextArray'[h] \notin 1 .. MaxLoaded
    BY <1>1, SizeAssumption DEF EmptyArray
  <1>3. /\ SlotAccounting' /\ freeSessionSlots' \in 0 .. MaxLoaded
        /\ occupied' \in [Slots -> BOOLEAN]
    BY <1>1, <1>2, EmptySlots
  <1>4. TypeOK'
    <2>1. slotMod \in Nat /\ slotMod > 0 /\ CounterMod \in Nat /\ CounterMod > 0
      BY ModulusFacts, SizeAssumption, RangeAssumption
    <2>2. /\ EmptyArray \in [Handles -> 0 .. slotMod - 1]
          /\ EmptyArray \in [Handles -> 0 .. CounterMod - 1]
          /\ 0 \in 0 .. CounterMod - 1
      BY <2>1 DEF EmptyArray
    <2> QED BY <1>1, <1>3, <2>2, ZenonT(60) DEF TypeOK
  <1>5. WindowInv' /\ OldestIsOldest' /\ RoomInv' /\ PowerInv'
    BY <1>1, Zenon DEF WindowInv, OldestIsOldest, RoomInv, PowerInv
  <1>6. KeptInv' /\ ImageInv'
    BY <1>1, ZenonT(60) DEF KeptInv, ImageInv, KeptIsOlder, Coherent
  <1> QED BY <1>3, <1>4, <1>5, <1>6, ZenonT(60)

\* TPM Resume and TPM Restart: the saved sessions of the image come back with
\* their window, the loaded ones are dropped.
LEMMA StartupKeepKeeps ==
    ASSUME IInv, StartupKeep
    PROVE  IInv'
  <1> USE DEF IInv
  <1> DEFINE image == nvStateReset.contextArray
             array == [h \in Handles |-> IF image[h] <= MaxLoaded THEN 0 ELSE image[h]]
             ids == nvStateReset.contextID
             c == nvStateReset.contextCounter
  <1>1. /\ orderlyState = "SU_STATE" /\ contextArray' = array /\ contextCounter' = c
        /\ contextID' = ids
        /\ occupied' = [s \in Slots |-> FALSE] /\ freeSessionSlots' = MaxLoaded
        /\ started' = TRUE /\ orderlyState' = "SU_NONE" /\ nvStateReset' = NoImage
        /\ UNCHANGED <<slotMod, totalResetCount, kept>>
    BY DEF StartupKeep
  <1>2. PICK o \in Handles \cup {NoOldest} : IsOldest(o, array, c) /\ oldestSavedSession' = o
    BY Zenon DEF StartupKeep, ContextIdSetOldest
  <1>3. /\ slotMod \in Nat /\ slotMod > 0 /\ MaxLoaded \in Nat /\ CounterMod \in Nat
        /\ image \in [Handles -> 0 .. slotMod - 1] /\ c \in 0 .. CounterMod - 1
        /\ ids \in [Handles -> 0 .. CounterMod - 1]
    BY ModulusFacts, ZenonT(60) DEF TypeOK
  <1>4. array \in [Handles -> 0 .. slotMod - 1] /\ array \in [Handles -> Nat] /\ c \in Nat
    BY <1>3, SMTT(60), Z3T(60)
  <1>5. Coherent(image, ids, c) /\ KeptIsOlder(c)
    BY <1>1, ZenonT(60) DEF ImageInv
  <1> HIDE DEF image, ids, c
  <1>6. \A h \in Handles : /\ array[h] = image[h] \/ (array[h] = 0 /\ image[h] <= MaxLoaded)
                           /\ array[h] \notin 1 .. MaxLoaded
    BY <1>3, SMTT(60), Z3T(60)
  <1> HIDE DEF array
  <1>7. Coherent(array, ids, c)
    BY <1>3, <1>4, <1>5, <1>6, SMTT(60), Z3T(60) DEF Coherent
  <1>8. /\ SlotAccounting' /\ freeSessionSlots' \in 0 .. MaxLoaded
        /\ occupied' \in [Slots -> BOOLEAN] /\ freeSessionSlots' >= 1
    <2>1. \A h \in Handles : contextArray'[h] \notin 1 .. MaxLoaded
      BY <1>1, <1>6, ZenonT(60)
    <2> QED BY <1>1, <2>1, EmptySlots, ZenonT(60)
  <1>9. TypeOK'
    BY SMTT(60), Z3T(60), <1>1, <1>2, <1>3, <1>4, <1>8, RangeAssumption
       DEF TypeOK, NoImage, EmptyArray
  <1>10. WindowInv'
    BY <1>1, <1>7, ZenonT(60) DEF WindowInv, Coherent
  <1>11. OldestIsOldest'
    <2> SUFFICES ASSUME CounterHasRoom' PROVE OldestIsOldest'
      BY Zenon DEF OldestIsOldest
    <2>1. c + 1 < CounterMod
      BY <1>1, ZenonT(60) DEF CounterHasRoom
    <2>2. IF o = NoOldest THEN SavedIn(array) = {}
          ELSE /\ o \in Handles /\ array[o] > MaxLoaded
               /\ \A h \in SavedIn(array) : ids[o] <= ids[h]
      BY <1>2, <1>3, <1>4, <1>7, <2>1, SetOldestFacts, ZenonT(60)
    <2> QED BY <1>1, <1>2, <2>2, ZenonT(60) DEF OldestIsOldest, SessionIsSaved
  <1>12. RoomInv'
    BY <1>8, ZenonT(60) DEF RoomInv
  <1>13. KeptInv'
    BY <1>1, <1>5, ZenonT(60) DEF KeptInv, KeptIsOlder
  <1>14. ImageInv' /\ PowerInv'
    BY <1>1 DEF ImageInv, PowerInv
  <1> QED BY <1>8, <1>9, <1>10, <1>11, <1>12, <1>13, <1>14, ZenonT(60)

\* TPM Reset: an empty table, a new reset cycle, so no kept context is current.
LEMMA StartupResetKeeps ==
    ASSUME IInv, StartupReset
    PROVE  IInv'
  <1> USE DEF IInv
  <1>1. /\ ~started /\ orderlyState # "SU_STATE"
        /\ contextArray' = EmptyArray /\ contextCounter' = MaxLoaded + 1
        /\ oldestSavedSession' = NoOldest /\ contextID' = EmptyArray
        /\ occupied' = [s \in Slots |-> FALSE] /\ freeSessionSlots' = MaxLoaded
        /\ slotMod' = NewSlots /\ started' = TRUE /\ orderlyState' = "SU_NONE"
        /\ nvStateReset' = NoImage /\ totalResetCount' = totalResetCount + 1
        /\ kept' = kept
    BY DEF StartupReset
  <1>2. /\ MaxLoaded \in Nat /\ NewSlots \in Nat /\ NewSlots > MaxLoaded + 1
        /\ CounterMod \in Nat /\ CounterMod > MaxLoaded + 1 /\ MaxActive \in Nat
    BY SizeAssumption, RangeAssumption, ZenonT(60)
  <1>3. /\ SlotAccounting' /\ freeSessionSlots' \in 0 .. MaxLoaded
        /\ occupied' \in [Slots -> BOOLEAN]
    <2>1. \A h \in Handles : contextArray'[h] \notin 1 .. MaxLoaded
      BY <1>1, <1>2, SMTT(60), Z3T(60) DEF EmptyArray
    <2> QED BY <1>1, <2>1, EmptySlots, ZenonT(60)
  <1>4. TypeOK'
    BY SMTT(60), Z3T(60), <1>1, <1>2, <1>3, SizeAssumption DEF TypeOK, PowerInv, NoImage, EmptyArray
  <1>5. WindowInv'
    <2>1. MaxLoaded + 1 \in 0 .. NewSlots - 1
      BY <1>2
    <2>2. (MaxLoaded + 1) % NewSlots = MaxLoaded + 1
      BY <1>2, <2>1, SmallResidue, ZenonT(60)
    <2> QED BY SMTT(60), Z3T(60), <1>1, <1>2, <2>2 DEF WindowInv, Coherent, EmptyArray
  <1>6. OldestIsOldest' /\ RoomInv'
    BY <1>1, <1>2, SMTT(60), Z3T(60)
       DEF OldestIsOldest, RoomInv, SavedIn, GapAtMaximum, NoOldest, EmptyArray
  <1>7. KeptInv' /\ ImageInv' /\ PowerInv'
    BY SMTT(60), Z3T(60), <1>1 DEF KeptInv, KeptIsOlder, ImageInv, PowerInv, TypeOK, Context
  <1> QED BY <1>3, <1>4, <1>5, <1>6, <1>7, ZenonT(60)

\* Every step keeps the invariant.
LEMMA NextKeeps == IInv /\ [Next]_vars => IInv'
  <1> SUFFICES ASSUME IInv, [Next]_vars PROVE IInv'
    OBVIOUS
  <1>1. CASE SessionCreate
    BY <1>1, CreateKeeps
  <1>2. ASSUME NEW h \in Handles, ContextSave(h) PROVE IInv'
    BY <1>2, SaveKeeps
  <1>3. ASSUME NEW h \in Handles, ContextSaveGap(h) PROVE IInv'
    BY <1>3, ClearingKeeps, ZenonT(60) DEF ContextSaveGap
  <1>4. ASSUME NEW h \in Handles, ContextSaveTooMany(h) PROVE IInv'
    BY <1>4, TooManyKeeps
  <1>5. ASSUME NEW h \in Handles, FlushContext(h) PROVE IInv'
    BY <1>5, FlushKeeps
  <1>6. ASSUME NEW h \in Handles, EndOfSession(h) PROVE IInv'
    BY <1>6, FlushLoadedKeeps DEF EndOfSession, history
  <1>7. ASSUME NEW x \in PresentableContexts, ContextLoad(x) PROVE IInv'
    BY <1>7, LoadKeeps
  <1>8. ASSUME NEW x \in PresentableContexts, ContextLoadRefused(x) PROVE IInv'
    BY <1>8, ClearingKeeps DEF ContextLoadRefused
  <1>9. ASSUME NEW type \in {"SU_CLEAR", "SU_STATE"}, Shutdown(type) PROVE IInv'
    BY <1>9, ShutdownKeeps, ZenonT(60)
  <1>10. CASE TPMInit
    BY <1>10, TPMInitKeeps
  <1>11. CASE StartupKeep
    BY <1>11, StartupKeepKeeps
  <1>12. CASE StartupReset
    BY <1>12, StartupResetKeeps
  <1>13. CASE UNCHANGED vars
    <2>1. UNCHANGED <<contextArray, contextCounter, oldestSavedSession, occupied,
                      freeSessionSlots, slotMod, started, orderlyState, nvStateReset,
                      totalResetCount, contextID, kept>>
      BY <1>13, ZenonT(60) DEF vars, gr, table, power, history
    <2>2. TypeOK' /\ SlotAccounting' /\ KeptInv' /\ PowerInv'
      BY <2>1, ZenonT(60) DEF IInv, TypeOK, SlotAccounting, SessionIsLoaded, CounterHasRoom,
                  KeptInv, KeptIsOlder, PowerInv
    <2>3. WindowInv' /\ ImageInv'
      BY <2>1, ZenonT(60) DEF IInv, WindowInv, ImageInv, KeptIsOlder, Coherent
    <2>4. OldestIsOldest' /\ RoomInv'
      BY <2>1 DEF IInv, OldestIsOldest, RoomInv, SavedIn, GapAtMaximum, CounterHasRoom,
                  SessionIsSaved, Masked
    <2> QED BY <2>2, <2>3, <2>4, ZenonT(60) DEF IInv
  <1> QED BY <1>1, <1>2, <1>3, <1>4, <1>5, <1>6, <1>7, <1>8, <1>9, <1>10, <1>11, <1>12, <1>13,
             ZenonT(60)
          DEF Next
-----------------------------------------------------------------------------
(* What the invariant means for the callers of Session.c. *)

\* Every reachable state satisfies the invariant.
THEOREM Invariance == Spec => []IInv
  <1>1. IInv /\ [Next]_vars => IInv'
    BY NextKeeps
  <1> QED BY InitEstablishes, <1>1, PTL DEF Spec

\* The variables keep their types: in particular no entry of gr.contextArray
\* exceeds the mask and gr.contextCounter never wraps.
THEOREM TypeCorrect == Spec => []TypeOK
  <1>1. IInv => TypeOK
    BY DEF IInv
  <1> QED BY Invariance, <1>1, PTL

\* s_freeSessionSlots and the occupied flags agree with gr.contextArray, so the
\* search for a slot in SessionCreate and SessionContextLoad always succeeds.
THEOREM SlotsAccounted == Spec => []SlotAccounting
  <1>1. IInv => SlotAccounting
    BY DEF IInv
  <1> QED BY Invariance, <1>1, PTL

\* s_oldestSavedSession is the session saved with the smallest contextID.
THEOREM OldestCorrect == Spec => []OldestIsOldest
  <1>1. IInv => OldestIsOldest
    BY ZenonT(60) DEF IInv
  <1> QED BY Invariance, <1>1, PTL

\* When the low-order bits of the counter match a saved session, it is the
\* oldest: the one comparison made by SessionContextSave rules out a collision.
THEOREM CollisionsAreOldest == Spec => []CollisionIsOldest
  <1>1. IInv => CollisionIsOldest
    <2> SUFFICES ASSUME IInv, started, CounterHasRoom, NEW h \in SavedIn(contextArray),
                        contextArray[h] = Masked(contextCounter)
                 PROVE  h = oldestSavedSession
      BY ZenonT(60) DEF CollisionIsOldest
    <2> USE DEF IInv
    <2> DEFINE o == oldestSavedSession
               c == contextCounter
    <2>1. /\ slotMod \in Nat /\ CounterMod \in Nat /\ c \in Nat
          /\ contextID \in [Handles -> Nat] /\ h \in Handles
          /\ contextID \in [Handles -> 0 .. CounterMod - 1]
      BY SMTT(60), Z3T(60), ModulusFacts DEF TypeOK, SavedIn
    <2>2. Coherent(contextArray, contextID, c)
      BY ZenonT(60) DEF WindowInv
    <2>3. \A g \in SavedIn(contextArray) : contextID[g] # 0
      BY <2>1, <2>2, SMTT(60), Z3T(60) DEF Coherent, SavedIn, CounterHasRoom
    <2>4. c = contextID[h] + slotMod
      <3>1. \A g \in Handles : contextID[g] # 0 /\ contextArray[g] = Masked(c)
                               => c = contextID[g] + slotMod
        BY <2>1, <2>2, WindowFacts, SMTT(60), Z3T(60)
      <3> QED BY <2>1, <2>3, <3>1, ZenonT(60)
    <2>5. o \in SavedIn(contextArray) /\ o \in Handles /\ contextID[o] <= contextID[h]
      BY ZenonT(60) DEF OldestIsOldest, SavedIn, SessionIsSaved, TypeOK
    <2>6. c <= contextID[o] + slotMod
      BY <2>2, <2>3, <2>5, ZenonT(60) DEF Coherent
    <2>7. contextID[o] = contextID[h]
      BY <2>1, <2>4, <2>5, <2>6, SMTT(60), Z3T(60)
    <2> QED BY <2>1, <2>2, <2>3, <2>5, <2>7, ZenonT(60) DEF Coherent
  <1> QED BY Invariance, <1>1, PTL

\* With the gap at its maximum the oldest context can still be loaded.
THEOREM RecyclePossible == Spec => []RecycleAlwaysPossible
  <1>1. IInv => RecycleAlwaysPossible
    <2> DEFINE o == oldestSavedSession
               x == [handle |-> o, sequence |-> contextID[o], reset |-> totalResetCount]
    <2> SUFFICES ASSUME IInv, started, CounterHasRoom, GapAtMaximum
                 PROVE  ContextIsAccepted(x) /\ ~LoadIsRefused(o)
      BY ZenonT(60) DEF RecycleAlwaysPossible
    <2> USE DEF IInv
    <2>1. /\ slotMod \in Nat /\ CounterMod \in Nat /\ MaxActive \in Nat
          /\ contextCounter \in Nat /\ contextID \in [Handles -> Nat]
      BY SMTT(60), Z3T(60), ModulusFacts DEF TypeOK
    <2>2. o # NoOldest /\ o < MaxActive
      BY <2>1, SMTT(60), Z3T(60) DEF GapAtMaximum, NoOldest
    <2>3. o \in Handles /\ contextArray[o] > MaxLoaded
      BY <2>2, ZenonT(60) DEF OldestIsOldest, SessionIsSaved, TypeOK
    <2>4. contextID[o] # 0
      BY <2>1, <2>3, SMTT(60), Z3T(60) DEF WindowInv, Coherent, CounterHasRoom
    <2>5. /\ contextArray[o] = contextID[o] % slotMod
          /\ contextID[o] < contextCounter
          /\ contextCounter <= contextID[o] + slotMod
      BY <2>3, <2>4, ZenonT(60) DEF WindowInv, Coherent
    <2>6. ContextIsAccepted(x)
      BY <2>1, <2>2, <2>3, <2>5, SMTT(60), Z3T(60)
         DEF ContextIsAccepted, IntegrityHolds, SequenceNumberIsValid, Masked
    <2>7. freeSessionSlots >= 1 /\ freeSessionSlots \in Nat
      BY SMTT(60), Z3T(60) DEF RoomInv, TypeOK
    <2> QED BY <2>6, <2>7, SMTT(60), Z3T(60) DEF LoadIsRefused, LastSlotIsReserved
  <1> QED BY Invariance, <1>1, PTL

\* A context is accepted just when it is the last one of a session still saved.
THEOREM LoadableIffLive == Spec => []ContextLoadableIffLive
  <1>1. IInv => ContextLoadableIffLive
    <2> DEFINE h == kept.handle
               a == kept.sequence
               c == contextCounter
    <2> SUFFICES ASSUME IInv, started, CounterHasRoom, kept # NoContext,
                        kept.reset = totalResetCount
                 PROVE  SequenceNumberIsValid(kept) <=> contextID[h] = a
      BY ZenonT(60) DEF ContextLoadableIffLive, ContextIsAccepted, IntegrityHolds
    <2> USE DEF IInv
    <2>1. /\ slotMod \in Nat /\ CounterMod \in Nat /\ MaxActive \in Nat /\ c \in Nat
          /\ contextID \in [Handles -> Nat] /\ h \in Handles /\ a \in Nat
          /\ contextID \in [Handles -> 0 .. CounterMod - 1]
      BY SMTT(60), Z3T(60), ModulusFacts DEF TypeOK, Context
    <2>2. a < c /\ a # 0
      BY DEF KeptInv, KeptIsOlder
    <2>3. Coherent(contextArray, contextID, c)
      BY ZenonT(60) DEF WindowInv
    <2>4. ASSUME SequenceNumberIsValid(kept) PROVE contextID[h] = a
      <3>1. contextArray[h] > MaxLoaded /\ contextArray[h] = Masked(a) /\ c - a <= slotMod
        BY <2>4, ZenonT(60) DEF SequenceNumberIsValid
      <3>2. contextID[h] # 0
        BY SMTT(60), Z3T(60), <2>1, <2>3, <3>1 DEF Coherent, CounterHasRoom
      <3>3. \A g \in Handles, b \in Nat :
               /\ contextID[g] # 0 /\ contextArray[g] = Masked(b)
               /\ b < c /\ c - b <= slotMod
               => b = contextID[g]
        BY SMTT(60), Z3T(60), <2>1, <2>3, WindowFacts
      <3> QED BY <2>1, <2>2, <3>1, <3>2, <3>3, ZenonT(60)
    <2>5. ASSUME contextID[h] = a PROVE SequenceNumberIsValid(kept)
      <3>1. /\ contextArray[h] = a % slotMod /\ contextArray[h] > MaxLoaded
            /\ c <= a + slotMod
        BY <2>1, <2>2, <2>3, <2>5, ZenonT(60) DEF Coherent
      <3>2. h < MaxActive
        BY <2>1 DEF Handles
      <3> QED BY <2>1, <2>2, <3>1, <3>2, SMTT(60), Z3T(60) DEF SequenceNumberIsValid, Masked
    <2> QED BY <2>4, <2>5, ZenonT(60)
  <1> QED BY Invariance, <1>1, PTL

\* No contextID is issued twice in a reset cycle.
THEOREM NeverReissued == Spec => []ContextIDNeverReissued
  <1>1. IInv => ContextIDNeverReissued
    BY DEF IInv, KeptInv, KeptIsOlder, ContextIDNeverReissued
  <1> QED BY Invariance, <1>1, PTL

\* Loading or flushing the oldest context always ends the blockage of saves.
THEOREM Unblocks == Spec => RecycleUnblocks
  <1> DEFINE Unblocked == GapAtMaximum /\ CounterHasRoom
                          /\ oldestSavedSession' # oldestSavedSession => ~GapAtMaximum'
  <1>1. IInv /\ [Next]_vars => [Unblocked]_vars
    <2> SUFFICES ASSUME IInv, Next, GapAtMaximum, CounterHasRoom,
                        oldestSavedSession' # oldestSavedSession
                 PROVE  ~GapAtMaximum'
      OBVIOUS
    <2>1. started /\ MaxActive \in Nat /\ MaxLoaded \in Nat
      BY SizeAssumption DEF IInv, PowerInv, GapAtMaximum, NoOldest
    <2>2. oldestSavedSession' = NoOldest => ~GapAtMaximum'
      BY <2>1, SMTT(60), Z3T(60) DEF GapAtMaximum, NoOldest
    <2>3. ASSUME NEW h \in Handles, ContextSave(h) \/ ContextSaveGap(h) \/ ContextSaveTooMany(h)
          PROVE  ~GapAtMaximum'
      BY <2>3 DEF ContextSave, ContextSaveGap, ContextSaveTooMany, table
    <2>4. ASSUME NEW h \in Handles, FlushContext(h)
          PROVE  ~GapAtMaximum'
      <3>1. /\ SessionIsSaved(h) /\ h = oldestSavedSession
            /\ contextArray' = [contextArray EXCEPT ![h] = 0]
            /\ ContextIdSetOldest(contextArray', contextCounter)
        BY <2>4 DEF FlushContext, SessionFlush, SessionIsSaved
      <3>2. /\ UNCHANGED <<contextCounter, slotMod, started>>
            /\ contextID' = [contextID EXCEPT ![h] = 0]
            /\ 0 \in 0 .. MaxLoaded
        BY <2>1, <2>4 DEF FlushContext, power
      <3> QED BY <2>1, <3>1, <3>2, UnsavingKeeps, ZenonT(60)
    <2>5. ASSUME NEW h \in Handles, EndOfSession(h)
          PROVE  ~GapAtMaximum'
      BY <2>5, <2>1 DEF EndOfSession, SessionFlush, SessionIsLoaded
    <2>6. ASSUME NEW x \in PresentableContexts, ContextLoad(x)
          PROVE  ~GapAtMaximum'
      <3> DEFINE h == x.handle
      <3>1. h \in Handles
        BY SMTT(60), Z3T(60) DEF PresentableContexts, IInv, TypeOK, Context
      <3>2. /\ SessionIsSaved(h) /\ h = oldestSavedSession
            /\ ContextIdSetOldest(contextArray', contextCounter)
            /\ UNCHANGED <<contextCounter, slotMod, started>>
            /\ contextID' = [contextID EXCEPT ![h] = 0]
        BY <2>6 DEF ContextLoad, ContextIsAccepted, SequenceNumberIsValid, SessionIsSaved,
                    ClearOrderly
      <3>3. PICK s \in Slots : contextArray' = [contextArray EXCEPT ![h] = s + 1]
        BY <2>6, Zenon DEF ContextLoad
      <3>4. s + 1 \in 0 .. MaxLoaded
        BY <2>1 DEF Slots
      <3> HIDE DEF h
      <3> QED BY <2>1, <3>1, <3>2, <3>3, <3>4, UnsavingKeeps, ZenonT(60)
    <2>7. ASSUME NEW x \in PresentableContexts, ContextLoadRefused(x)
          PROVE  ~GapAtMaximum'
      BY <2>7, ZenonT(60) DEF ContextLoadRefused, table
    <2>8. CASE SessionCreate \/ \E type \in {"SU_CLEAR", "SU_STATE"} : Shutdown(type)
      BY <2>8, ZenonT(60) DEF SessionCreate, Shutdown, table
    <2>9. CASE TPMInit \/ StartupKeep \/ StartupReset
      BY <2>1, <2>2, <2>9 DEF TPMInit, StartupKeep, StartupReset
    <2> QED BY <2>3, <2>4, <2>5, <2>6, <2>7, <2>8, <2>9, ZenonT(60) DEF Next
  <1> QED BY Invariance, <1>1, PTL DEF Spec, RecycleUnblocks
-----------------------------------------------------------------------------
(***************************************************************************)
(* Session implements SavedContexts.  What SavedContexts calls the record  *)
(* is the image of Shutdown(STATE), which must agree with the counter for  *)
(* as long as it can be resumed.                                           *)
(***************************************************************************)

RecordInv ==
    /\ orderlyState # "SU_STATE" => nvStateReset = NoImage
    /\ started /\ orderlyState = "SU_STATE" =>
          nvStateReset.contextCounter = contextCounter
    /\ ~started => contextArray = EmptyArray

\* Every command that moves the counter voids the image.
LEMMA RecordStep ==
    ASSUME RecordInv, Next
    PROVE  RecordInv'
  <1>1. ASSUME started, ClearOrderly PROVE RecordInv'
    BY <1>1, Zenon DEF ClearOrderly, RecordInv
  <1>2. ASSUME started, UNCHANGED power, UNCHANGED contextCounter PROVE RecordInv'
    BY <1>2 DEF power, RecordInv
  <1>3. ASSUME SessionCreate PROVE RecordInv'
    BY <1>2, <1>3, Zenon DEF SessionCreate
  <1>4. ASSUME NEW h \in Handles,
               ContextSave(h) \/ ContextSaveGap(h) \/ ContextSaveTooMany(h)
        PROVE  RecordInv'
    BY <1>1, <1>4, Zenon DEF ContextSave, ContextSaveGap, ContextSaveTooMany
  <1>5. ASSUME NEW h \in Handles, FlushContext(h) \/ EndOfSession(h)
        PROVE  RecordInv'
    BY <1>1, <1>2, <1>5, Zenon DEF FlushContext, EndOfSession
  <1>6. ASSUME NEW x \in PresentableContexts, ContextLoad(x) \/ ContextLoadRefused(x)
        PROVE  RecordInv'
    BY <1>1, <1>6, ZenonT(60) DEF ContextLoad, ContextLoadRefused
  <1>7. ASSUME NEW type \in {"SU_CLEAR", "SU_STATE"}, Shutdown(type)
        PROVE  RecordInv'
    BY <1>7 DEF Shutdown, RecordInv, gr
  <1>8. ASSUME TPMInit PROVE RecordInv'
    BY <1>8, ZenonT(60) DEF TPMInit, RecordInv
  <1>9. ASSUME StartupKeep \/ StartupReset PROVE RecordInv'
    BY <1>9 DEF StartupKeep, StartupReset, RecordInv
  <1> QED BY <1>3, <1>4, <1>5, <1>6, <1>7, <1>8, <1>9, Zenon DEF Next

\* The mapped state of a TPM that runs, before and after a step.
LEMMA MappedFacts ==
    /\ started => /\ SavedIDs = contextID /\ NextID = contextCounter
                  /\ ResetCycle = totalResetCount
    /\ started' => /\ SavedIDs' = contextID' /\ NextID' = contextCounter'
                   /\ ResetCycle' = totalResetCount'
    /\ orderlyState' # "SU_STATE" => RecordedIDs' = {}
    /\ started' /\ orderlyState' = "SU_STATE" => RecordedIDs' = {nvStateReset'.contextID}
    /\ UNCHANGED power => UNCHANGED RecordedIDs
  <1>1. UNCHANGED power => UNCHANGED RecordedIDs
    BY DEF RecordedIDs, power
  <1>2. /\ orderlyState' # "SU_STATE" => RecordedIDs' = {}
        /\ started' /\ orderlyState' = "SU_STATE" => RecordedIDs' = {nvStateReset'.contextID}
    BY Zenon DEF RecordedIDs
  <1> QED BY <1>1, <1>2, Zenon DEF SavedIDs, NextID, ResetCycle

\* One entry of the array changes: its session becomes loaded or is so no more.
LEMMA LoadedChange ==
    ASSUME IInv, NEW h \in Handles, NEW v, contextArray' = [contextArray EXCEPT ![h] = v]
    PROVE  /\ v \in 1 .. MaxLoaded => LoadedSessions' = LoadedSessions \cup {h}
           /\ v \notin 1 .. MaxLoaded => LoadedSessions' = LoadedSessions \ {h}
  <1>1. \A g \in Handles : contextArray'[g] = IF g = h THEN v ELSE contextArray[g]
    BY Zenon DEF IInv, TypeOK
  <1> QED BY <1>1, Zenon DEF LoadedSessions, SessionIsLoaded

\* A session that is saved has a contextID, and one that has a contextID is saved,
\* until the numbers are used up.
LEMMA SavedHasID ==
    ASSUME IInv, started
    PROVE  /\ \A h \in Handles : contextID[h] # 0 => contextArray[h] > MaxLoaded
           /\ \A h \in Handles : contextArray[h] > MaxLoaded /\ contextID[h] = 0
                 => contextCounter = CounterMod - 1
  <1>1. Coherent(contextArray, contextID, contextCounter)
    BY Zenon DEF IInv, WindowInv
  <1>2. \A h \in Handles : contextArray[h] > MaxLoaded /\ contextID[h] = 0
           => contextCounter + 1 = CounterMod
    BY <1>1, Zenon DEF Coherent
  <1>3. contextCounter \in Nat /\ CounterMod \in Nat
    BY RangeAssumption DEF IInv, TypeOK
  <1>4. contextCounter + 1 = CounterMod => contextCounter = CounterMod - 1
    BY <1>3
  <1>5. \A h \in Handles : contextID[h] # 0 => contextArray[h] > MaxLoaded
    BY <1>1, Zenon DEF Coherent
  <1> QED BY <1>2, <1>4, <1>5, Zenon

\* TPM2_StartAuthSession.
LEMMA CreatePromised ==
    ASSUME IInv, SessionCreate
    PROVE  \E h \in Handles : Promise!Create(h)
  <1>1. PICK s \in Slots, h \in Handles :
           contextArray[h] = 0 /\ contextArray' = [contextArray EXCEPT ![h] = s + 1]
    BY Zenon DEF SessionCreate, FirstFreeHandle
  <1>2. s + 1 \in 1 .. MaxLoaded /\ ~(0 > MaxLoaded) /\ 0 \notin 1 .. MaxLoaded
    BY SizeAssumption DEF Slots
  <1>3. started /\ started' /\ UNCHANGED <<contextCounter, power, contextID, totalResetCount>>
    BY DEF SessionCreate, power, history
  <1>4. h \notin LoadedSessions /\ contextID[h] = 0
    BY <1>1, <1>2, <1>3, SavedHasID, Zenon DEF LoadedSessions, SessionIsLoaded
  <1>5. LoadedSessions' = LoadedSessions \cup {h}
    BY <1>1, <1>2, LoadedChange, Zenon
  <1> QED BY <1>3, <1>4, <1>5, MappedFacts, Zenon DEF Promise!Create

\* TPM2_ContextSave that succeeds.
LEMMA SavePromised ==
    ASSUME IInv, NEW h \in Handles, ContextSave(h)
    PROVE  Promise!Save(h)
  <1>1. /\ started /\ started' /\ totalResetCount' = totalResetCount
        /\ orderlyState' # "SU_STATE" /\ contextCounter + 1 < CounterMod
        /\ contextArray' = [contextArray EXCEPT ![h] = Masked(contextCounter)]
        /\ contextCounter' = NextCounter
        /\ contextID' = [contextID EXCEPT ![h] = contextCounter]
        /\ h \in LoadedSessions
    BY DEF ContextSave, ClearOrderly, LoadedSessions
  <1>2. TypeOK /\ contextCounter % slotMod > MaxLoaded
    BY <1>1, Zenon DEF IInv, WindowInv, Coherent
  <1>3. NextCounter \in 0 .. CounterMod - 1 /\ NextCounter > contextCounter
    BY <1>1, <1>2, NextCounterFacts
  <1>4. contextCounter \in Nat /\ CounterMod \in Nat
    BY <1>2, RangeAssumption DEF TypeOK
  <1>5. contextCounter < CounterMod - 1 /\ NextCounter \in contextCounter + 1 .. CounterMod - 1
    BY <1>1, <1>3, <1>4
  <1>6. Masked(contextCounter) \notin 1 .. MaxLoaded
    <2>1. Masked(contextCounter) > MaxLoaded
      BY <1>2 DEF Masked
    <2>2. Masked(contextCounter) \in Int /\ MaxLoaded \in Int
      BY <1>2, <1>4, ModulusFacts, DivMod DEF Masked
    <2> QED BY <2>1, <2>2
  <1>7. LoadedSessions' = LoadedSessions \ {h}
    BY <1>1, <1>6, LoadedChange, ZenonT(60)
  <1> QED BY <1>1, <1>5, <1>7, MappedFacts, ZenonT(60) DEF Promise!Save

\* TPM2_ContextLoad: the session was saved, whichever context was presented.
LEMMA LoadPromised ==
    ASSUME IInv, NEW x \in PresentableContexts, ContextLoad(x)
    PROVE  (\E h \in Handles : Promise!Load(h)) \/ Promise!UsedUp
  <1> DEFINE h == x.handle
  <1>1. h \in Handles
    BY DEF PresentableContexts, IInv, TypeOK, Context
  <1>2. /\ started /\ started' /\ totalResetCount' = totalResetCount
        /\ orderlyState' # "SU_STATE" /\ contextCounter' = contextCounter
        /\ contextID' = [contextID EXCEPT ![h] = 0]
        /\ contextArray[h] > MaxLoaded
    BY DEF ContextLoad, ClearOrderly, ContextIsAccepted, SequenceNumberIsValid
  <1>3. PICK s \in Slots : contextArray' = [contextArray EXCEPT ![h] = s + 1]
    BY Zenon DEF ContextLoad
  <1> HIDE DEF h
  <1>4. s + 1 \in 1 .. MaxLoaded
    BY SizeAssumption DEF Slots
  <1>5. LoadedSessions' = LoadedSessions \cup {h}
    BY <1>1, <1>3, <1>4, LoadedChange, Zenon
  <1>6. CASE contextID[h] # 0
    BY <1>1, <1>2, <1>5, <1>6, MappedFacts, Zenon DEF Promise!Load
  <1>7. CASE contextID[h] = 0
    BY <1>1, <1>2, <1>7, SavedHasID, MappedFacts, ZenonT(60) DEF Promise!UsedUp
  <1> QED BY <1>6, <1>7, ZenonT(60)

\* TPM2_FlushContext, and the end of a session with its last command.
LEMMA EndPromised ==
    ASSUME IInv, NEW h \in Handles, FlushContext(h) \/ EndOfSession(h)
    PROVE  Promise!End(h) \/ Promise!UsedUp
  <1>1. /\ started /\ started' /\ totalResetCount' = totalResetCount
        /\ contextCounter' = contextCounter
        /\ UNCHANGED power \/ orderlyState' # "SU_STATE"
        /\ SessionIsLoaded(h) \/ SessionIsSaved(h)
    BY DEF FlushContext, EndOfSession, power, ClearOrderly
  <1>2. RecordedIDs' \in {RecordedIDs, {}}
    BY <1>1, MappedFacts, Zenon
  <1>3. contextArray' = [contextArray EXCEPT ![h] = 0]
    BY Zenon DEF FlushContext, EndOfSession, SessionFlush
  <1>4. LoadedSessions' = LoadedSessions \ {h}
    <2>1. 0 \notin 1 .. MaxLoaded
      BY SizeAssumption
    <2> QED BY <1>3, <2>1, LoadedChange, Zenon
  <1>5. contextID' = [contextID EXCEPT ![h] = 0]
    <2>1. CASE FlushContext(h)
      BY <2>1, Zenon DEF FlushContext
    <2>2. CASE EndOfSession(h)
      <3>1. contextArray[h] \in 1 .. MaxLoaded /\ contextID' = contextID
        BY <2>2 DEF EndOfSession, SessionIsLoaded, history
      <3>2. ~(contextArray[h] > MaxLoaded)
        BY <3>1, SizeAssumption
      <3>3. contextID[h] = 0
        BY <1>1, <3>2, SavedHasID, Zenon
      <3> QED BY <3>1, <3>3, Zenon DEF IInv, TypeOK
    <2> QED BY <2>1, <2>2, Zenon
  <1>6. CASE SessionIsLoaded(h) \/ contextID[h] # 0
    BY <1>1, <1>2, <1>4, <1>5, <1>6, MappedFacts, Zenon DEF Promise!End, LoadedSessions
  <1>7. CASE SessionIsSaved(h) /\ contextID[h] = 0
    BY <1>1, <1>7, SavedHasID, MappedFacts, ZenonT(60) DEF Promise!UsedUp, SessionIsSaved
  <1> QED BY <1>1, <1>6, <1>7, ZenonT(60)

\* The commands that fail but void the image, and the save that finds the counter
\* at its end.
LEMMA FailedPromised ==
    ASSUME IInv,
           \/ \E h \in Handles : ContextSaveGap(h) \/ ContextSaveTooMany(h)
           \/ \E x \in PresentableContexts : ContextLoadRefused(x)
    PROVE  Promise!Forget \/ Promise!UsedUp
  <1>1. /\ started /\ started' /\ totalResetCount' = totalResetCount
        /\ contextCounter' = contextCounter /\ contextID' = contextID
        /\ orderlyState' # "SU_STATE"
    BY DEF ContextSaveGap, ContextSaveTooMany, ContextLoadRefused, ClearOrderly, gr, history
  <1>2. contextArray' = contextArray \/ contextCounter + 1 = CounterMod
    BY Zenon DEF ContextSaveGap, ContextSaveTooMany, ContextLoadRefused, gr
  <1>3. CASE contextArray' = contextArray
    <2>1. LoadedSessions' = LoadedSessions
      BY <1>3, Zenon DEF LoadedSessions, SessionIsLoaded
    <2> QED BY <1>1, <2>1, MappedFacts, Zenon DEF Promise!Forget
  <1>4. CASE contextCounter + 1 = CounterMod
    <2>1. contextCounter = CounterMod - 1
      BY <1>4, RangeAssumption DEF IInv, TypeOK
    <2> QED BY <1>1, <2>1, MappedFacts, ZenonT(60) DEF Promise!UsedUp
  <1> QED BY <1>2, <1>3, <1>4

\* TPM2_Shutdown records the saved sessions or voids the record.
LEMMA ShutdownPromised ==
    ASSUME NEW type \in {"SU_CLEAR", "SU_STATE"}, Shutdown(type)
    PROVE  Promise!Record \/ Promise!Forget
  <1>1. /\ started /\ started' /\ totalResetCount' = totalResetCount
        /\ contextCounter' = contextCounter /\ contextID' = contextID
        /\ contextArray' = contextArray /\ orderlyState' = type
    BY DEF Shutdown, gr, history
  <1>2. LoadedSessions' = LoadedSessions
    BY <1>1, Zenon DEF LoadedSessions, SessionIsLoaded
  <1>3. CASE type = "SU_STATE"
    <2>1. nvStateReset'.contextID = contextID
      BY <1>3 DEF Shutdown
    <2> QED BY <1>1, <1>2, <1>3, <2>1, MappedFacts, ZenonT(60) DEF Promise!Record
  <1>4. CASE type # "SU_STATE"
    BY <1>1, <1>2, <1>4, MappedFacts, Zenon DEF Promise!Forget
  <1> QED BY <1>3, <1>4

\* Power is lost: what TPM2_Startup will find is decided here.
LEMMA PowerLossPromised ==
    ASSUME IInv, RecordInv, TPMInit
    PROVE  Promise!Resume \/ Promise!Reset
  <1>1. /\ started /\ ~started' /\ contextArray' = EmptyArray
        /\ UNCHANGED <<orderlyState, nvStateReset, totalResetCount>>
    BY DEF TPMInit
  <1>2. LoadedSessions' = {}
    BY <1>1, SizeAssumption DEF LoadedSessions, SessionIsLoaded, EmptyArray
  <1>3. RecordedIDs' = {} /\ SavedIDs' = nvStateReset.contextID
    BY <1>1, Zenon DEF RecordedIDs, SavedIDs
  <1>4. CASE orderlyState = "SU_STATE"
    <2>1. NextID' = NextID /\ ResetCycle' = ResetCycle
      BY <1>1, <1>4, Zenon DEF NextID, ResetCycle, RecordInv
    <2>2. RecordedIDs = {nvStateReset.contextID}
      BY <1>1, <1>4, Zenon DEF RecordedIDs
    <2> QED BY <1>2, <1>3, <2>1, <2>2, Zenon DEF Promise!Resume
  <1>5. CASE orderlyState # "SU_STATE"
    <2>1. NextID' = MaxLoaded + 1 /\ ResetCycle' = ResetCycle + 1 /\ RecordedIDs = {}
      BY <1>1, <1>5, Zenon DEF NextID, ResetCycle, RecordedIDs
    <2>2. MaxLoaded + 1 \in 1 .. CounterMod - 1
      BY SizeAssumption, RangeAssumption
    <2>3. nvStateReset.contextID = EmptyArray
      BY <1>5 DEF RecordInv, NoImage
    <2> QED BY <1>2, <1>3, <2>1, <2>2, <2>3, Zenon DEF Promise!Reset, Promise!NoIds, EmptyArray
  <1> QED BY <1>4, <1>5

\* TPM2_Startup finds what was promised when power was lost.
LEMMA StartupPromised ==
    ASSUME IInv, RecordInv, StartupKeep \/ StartupReset
    PROVE  UNCHANGED Promise!vars
  <1>1. ~started /\ started' /\ orderlyState' = "SU_NONE"
    BY DEF StartupKeep, StartupReset
  <1>2. RecordedIDs = {} /\ RecordedIDs' = {}
    BY <1>1, Zenon DEF RecordedIDs
  <1>3. \A h \in Handles : contextArray[h] \notin 1 .. MaxLoaded
    BY <1>1, SizeAssumption DEF RecordInv, EmptyArray
  <1>4. LoadedSessions = {}
    BY <1>3, Zenon DEF LoadedSessions, SessionIsLoaded
  <1>5. LoadedSessions' = {}
    <2>1. \A h \in Handles : contextArray'[h] = 0 \/ ~(contextArray'[h] <= MaxLoaded)
      BY SizeAssumption DEF StartupKeep, StartupReset, EmptyArray
    <2>2. \A h \in Handles : contextArray'[h] \notin 1 .. MaxLoaded
      BY <2>1, SizeAssumption
    <2> QED BY <2>2, ZenonT(60) DEF LoadedSessions, SessionIsLoaded
  <1>6. CASE StartupKeep
    <2>1. /\ orderlyState = "SU_STATE" /\ contextID' = nvStateReset.contextID
          /\ contextCounter' = nvStateReset.contextCounter
          /\ totalResetCount' = totalResetCount
      BY <1>6 DEF StartupKeep
    <2>2. UNCHANGED <<SavedIDs, NextID, ResetCycle>>
      BY <1>1, <2>1, ZenonT(60) DEF SavedIDs, NextID, ResetCycle
    <2> QED BY <1>2, <1>4, <1>5, <2>2, ZenonT(60) DEF Promise!vars
  <1>7. CASE StartupReset
    <2>1. /\ orderlyState # "SU_STATE" /\ contextID' = EmptyArray
          /\ contextCounter' = MaxLoaded + 1 /\ totalResetCount' = totalResetCount + 1
      BY <1>7 DEF StartupReset
    <2>2. nvStateReset.contextID = EmptyArray
      BY <2>1 DEF RecordInv, NoImage
    <2>3. UNCHANGED <<SavedIDs, NextID, ResetCycle>>
      BY <1>1, <2>1, <2>2, Zenon DEF SavedIDs, NextID, ResetCycle
    <2> QED BY <1>2, <1>4, <1>5, <2>3, Zenon DEF Promise!vars
  <1> QED BY <1>6, <1>7

\* The session context manager implements SavedContexts: whatever is saved, loaded,
\* flushed, shut down and restarted, truncated numbers and all, a resource manager
\* sees sessions that stay where it left them under numbers that are not reused.
THEOREM PromiseKept == Spec => KeepsSavedContexts
  <1>1. Init => Promise!Init
    <2> SUFFICES ASSUME Init PROVE Promise!Init
      OBVIOUS
    <2>1. /\ started /\ orderlyState = "SU_NONE" /\ contextArray = EmptyArray
          /\ contextID = EmptyArray /\ contextCounter = MaxLoaded + 1
          /\ totalResetCount = 0
      BY DEF Init
    <2>2. LoadedSessions = {}
      BY <2>1, SizeAssumption DEF LoadedSessions, SessionIsLoaded, EmptyArray
    <2>3. /\ SavedIDs = EmptyArray /\ NextID = MaxLoaded + 1 /\ RecordedIDs = {}
          /\ ResetCycle = 0
      BY <2>1, Zenon DEF SavedIDs, NextID, RecordedIDs, ResetCycle
    <2>4. MaxLoaded + 1 \in 1 .. CounterMod - 1
      BY SizeAssumption, RangeAssumption
    <2> QED BY <2>2, <2>3, <2>4, ZenonT(60) DEF Promise!Init, Promise!NoIds, EmptyArray
  <1>2. Init => RecordInv
    BY DEF Init, RecordInv
  <1>3. RecordInv /\ [Next]_vars => RecordInv'
    <2>1. ASSUME RecordInv, UNCHANGED vars PROVE RecordInv'
      BY <2>1 DEF RecordInv, vars, gr, power
    <2> QED BY <2>1, RecordStep, Zenon
  <1>4. IInv /\ RecordInv /\ [Next]_vars => [Promise!Next]_(Promise!vars)
    <2> SUFFICES ASSUME IInv, RecordInv, [Next]_vars
                 PROVE  Promise!Next \/ UNCHANGED Promise!vars
      OBVIOUS
    <2>1. CASE UNCHANGED vars
      BY <2>1, Zenon DEF vars, gr, power, history, Promise!vars, LoadedSessions,
            SessionIsLoaded, SavedIDs, NextID, RecordedIDs, ResetCycle
    <2>2. CASE SessionCreate
      BY <2>2, CreatePromised, Zenon DEF Promise!Next
    <2>3. ASSUME NEW h \in Handles, ContextSave(h)
          PROVE  Promise!Next
      BY <2>3, SavePromised, Zenon DEF Promise!Next
    <2>4. ASSUME NEW h \in Handles, FlushContext(h) \/ EndOfSession(h)
          PROVE  Promise!Next
      BY <2>4, EndPromised, Zenon DEF Promise!Next
    <2>5. ASSUME NEW x \in PresentableContexts, ContextLoad(x)
          PROVE  Promise!Next
      BY <2>5, LoadPromised, Zenon DEF Promise!Next
    <2>6. CASE \/ \E h \in Handles : ContextSaveGap(h) \/ ContextSaveTooMany(h)
               \/ \E x \in PresentableContexts : ContextLoadRefused(x)
      BY <2>6, FailedPromised, Zenon DEF Promise!Next
    <2>7. ASSUME NEW type \in {"SU_CLEAR", "SU_STATE"}, Shutdown(type)
          PROVE  Promise!Next
      BY <2>7, ShutdownPromised, Zenon DEF Promise!Next
    <2>8. CASE TPMInit
      BY <2>8, PowerLossPromised, Zenon DEF Promise!Next
    <2>9. CASE StartupKeep \/ StartupReset
      BY <2>9, StartupPromised, ZenonT(60)
    <2> QED BY <2>1, <2>2, <2>3, <2>4, <2>5, <2>6, <2>7, <2>8, <2>9, ZenonT(60) DEF Next
  <1> QED BY Invariance, <1>1, <1>2, <1>3, <1>4, PTL DEF Spec, KeepsSavedContexts, Promise!Spec
=============================================================================
