--------------------------- MODULE LockoutProofs ---------------------------
(***************************************************************************)
(* The failure counter of the dictionary-attack logic and its healing, for *)
(* any parameters.                                                         *)
(*                                                                         *)
(* FailuresAreCounted speaks of the TPM between two commands.  It is kept  *)
(* by a relation that holds at every moment between the failures owed and  *)
(* the image in storage: what a power loss would leave, with the failure   *)
(* that the next startup makes up for, covers them.  HealingIsEarned is    *)
(* kept in the same way, by a relation between the timers, in memory and   *)
(* in storage, and the ticks that the TPM had power.                       *)
(***************************************************************************)
EXTENDS Lockout, TLAPS

\* The times of go, without their bounds.
Times == [selfHealTimer : Int, lockoutTimer : Int, time : Int]

Types ==
    /\ gp \in PersistentData
    /\ go \in Times
    /\ s_NV \in [gp : PersistentData, go : Times]
    /\ disk \in [gp : PersistentData, go : Times]
    /\ elapsed \in Nat
    /\ owed \in Nat
    /\ g_updateNV \in BOOLEAN
    /\ g_daUsed \in BOOLEAN
    /\ phase \in {"init", "ready", "entered", "authorized", "done"}

-----------------------------------------------------------------------------
(* The operators.                                                          *)

\* The times stay times.
LEMMA TimesClosed ==
    ASSUME NEW o \in Times, NEW ticks \in Nat
    PROVE  /\ Later(o, ticks) \in Times
           /\ Relative(o) \in Times
           /\ Zero \in Times
<1>1. Cap \in Int /\ LockCap \in Int
  BY LockoutAssumption
<1>2. Later(o, ticks) \in Times
  <2>1. /\ Age(o.selfHealTimer + ticks, Cap) \in Int
        /\ Age(o.lockoutTimer + ticks, LockCap) \in Int
        /\ AtMost(o.time + ticks, Cap) \in Int
    BY <1>1 DEF Times, Age, AtMost
  <2>2. QED
    BY <2>1 DEF Later, Times
<1>3. Relative(o) \in Times
  <2>1. /\ Age(o.selfHealTimer - o.time, Cap) \in Int
        /\ Age(o.lockoutTimer - o.time, LockCap) \in Int
    BY <1>1 DEF Times, Age, AtMost
  <2>2. QED
    BY <2>1 DEF Relative, Times
<1>4. QED
  BY <1>2, <1>3 DEF Zero, Times

\* DASelfHeal never raises failedTries.
LEMMA HealTriesBound ==
    ASSUME NEW p \in PersistentData, NEW o \in Times
    PROVE  /\ HealTries(p, o).tries \in 0 .. p.failedTries
           /\ HealTries(p, o).timer \in Int
           /\ ~HealTries(p, o).sync => HealTries(p, o).tries = p.failedTries
<1>1. /\ p.failedTries \in Nat /\ p.recoveryTime \in Nat
      /\ o.selfHealTimer \in Int
  BY DEF PersistentData, Times
<1>2. CASE p.failedTries = 0 \/ p.recoveryTime = 0 \/ o.selfHealTimer < 0
  BY <1>1, <1>2 DEF HealTries
<1>3. CASE ~(p.failedTries = 0 \/ p.recoveryTime = 0 \/ o.selfHealTimer < 0)
  <2> DEFINE d == o.selfHealTimer \div p.recoveryTime
             r == o.selfHealTimer % p.recoveryTime
  <2>1. d \in Nat /\ r \in Nat
    BY <1>1, <1>3
  <2>2. HealTries(p, o) = [tries |-> Less(p.failedTries, d), timer |-> r, sync |-> d # 0]
    BY <1>1, <1>3 DEF HealTries
  <2>3. /\ Less(p.failedTries, d) \in 0 .. p.failedTries
        /\ d = 0 => Less(p.failedTries, d) = p.failedTries
    BY <1>1, <2>1 DEF Less
  <2> HIDE DEF d, r
  <2>4. /\ HealTries(p, o).tries = Less(p.failedTries, d)
        /\ HealTries(p, o).timer = r
        /\ HealTries(p, o).sync = (d # 0)
    BY <2>2
  <2>5. ~HealTries(p, o).sync => d = 0
    BY <2>4, Zenon
  <2>6. /\ HealTries(p, o).tries \in 0 .. p.failedTries
        /\ HealTries(p, o).timer \in Int
    BY <2>1, <2>3, <2>4
  <2>7. QED
    BY <2>3, <2>4, <2>5, <2>6
<1>4. QED
  BY <1>2, <1>3

\* What NV_SYNC_PERSISTENT writes.
LEMMA SyncFields ==
    ASSUME gp \in PersistentData, gp' \in PersistentData,
           s_NV.gp \in PersistentData, NEW fields
    PROVE  /\ NV_SYNC_PERSISTENT(fields) \in PersistentData
           /\ \A f \in {"failedTries", "maxTries", "recoveryTime"} :
                 NV_SYNC_PERSISTENT(fields)[f] =
                     IF f \in fields THEN gp'[f] ELSE s_NV.gp[f]
BY DEF NV_SYNC_PERSISTENT, PersistentData

-----------------------------------------------------------------------------
(* The inductive invariant.                                                *)

One(b) == IF b THEN 1 ELSE 0

\* DAStartup adds a failure to the image p that it finds.
MakesUp(p) ==
    /\ p.orderlyState = "DA_USED"
    /\ p.recoveryTime # 0
    /\ p.failedTries < p.maxTries

CounterFields == {"failedTries", "maxTries", "recoveryTime"}

\* The three copies: the image follows gp, and storage the image.
Copies ==
    /\ \A f \in CounterFields : s_NV.gp[f] = gp[f]
    /\ ~g_updateNV => \A f \in CounterFields : disk.gp[f] = s_NV.gp[f]
    /\ phase \in {"init", "ready"} => ~g_updateNV
    /\ phase \in {"entered", "authorized"} =>
          /\ disk.gp.maxTries = gp.maxTries
          /\ disk.gp.recoveryTime = gp.recoveryTime
          /\ disk.gp.failedTries >= gp.failedTries
    /\ outcome = "counted" => phase = "done"

\* The failures that are owed are in memory, and in what a power loss leaves.
Covered ==
    /\ phase = "init" => owed <= gp.failedTries + One(MakesUp(gp))
    /\ phase # "init" => owed + One(outcome = "counted") <= gp.failedTries
    /\ owed + One(outcome = "counted" /\ disk.gp.orderlyState = "DA_USED")
          <= disk.gp.failedTries + One(MakesUp(disk.gp))

Inv == Types /\ Copies /\ Covered

\* A manufactured TPM owes nothing.
LEMMA InitEstablishes == Init => Inv
<1> SUFFICES ASSUME Init PROVE Inv
  OBVIOUS
<1>1. PreInstall \in [maxTries : Nat, recoveryTime : Nat, lockoutRecovery : Nat]
  BY LockoutAssumption
<1>2. gp \in PersistentData /\ go \in Times
  BY <1>1 DEF Init, PersistentData, OrderlyStates, Zero, Times
<1>3. Types
  BY <1>2, Zenon DEF Init, Types
<1>4. Copies
  BY <1>2 DEF Init, Copies, CounterFields
<1>5. Covered
  BY <1>2 DEF Init, Covered, One, MakesUp, PersistentData
<1>6. QED
  BY <1>3, <1>4, <1>5 DEF Inv

\* The clock changes nothing but ages.
LEMMA TickKeeps == Inv /\ Tick => Inv'
BY LockoutAssumption DEF Inv, Types, Copies, Covered, One, MakesUp, Tick, flags

\* A power loss: the image in storage, with the failure it makes up for, covers
\* what is owed.
LEMMA PowerCycleKeeps == Inv /\ PowerCycle => Inv'
<1> SUFFICES ASSUME Inv, PowerCycle PROVE Inv'
  OBVIOUS
<1>1. Types'
  <2>1. owed' \in Nat
    BY DEF Inv, Types, PowerCycle
  <2>2. gp' \in PersistentData /\ go' \in Times
    BY DEF Inv, Types, PowerCycle
  <2>3. QED
    BY <2>1, <2>2, Zenon DEF Inv, Types, PowerCycle
<1>2. Copies'
  BY DEF Inv, Types, Copies, PowerCycle
<1>3. Covered'
  BY DEF Inv, Types, Covered, One, MakesUp, PersistentData, PowerCycle
<1>4. QED
  BY <1>1, <1>2, <1>3 DEF Inv

\* A refused startup consumes the mark in memory, not the one in storage.
LEMMA StartupRefusedKeeps == Inv /\ StartupRefused => Inv'
<1> SUFFICES ASSUME Inv, StartupRefused PROVE Inv'
  OBVIOUS
<1>1. /\ gp \in PersistentData /\ gp' \in PersistentData
      /\ \A f \in CounterFields : gp'[f] = gp[f]
      /\ gp'.orderlyState = prevOrderlyState
  BY DEF Inv, Types, StartupRefused, PersistentData, OrderlyStates,
         prevOrderlyState, CounterFields
<1>2. owed' \in Nat /\ owed' <= owed
  BY <1>1 DEF Inv, Types, StartupRefused, AtMost, PersistentData
<1>3. Types'
  BY <1>1, <1>2 DEF Inv, Types, StartupRefused, flags
<1>4. Copies'
  BY <1>1 DEF Inv, Copies, CounterFields, StartupRefused, flags
<1>5. Covered'
  <2>1. phase' = "init" /\ phase = "init" /\ disk' = disk /\ outcome' = outcome
    BY DEF StartupRefused
  <2>2. owed' <= gp'.failedTries + One(MakesUp(gp)')
    <3>1. CASE gp.orderlyState = "DA_USED"
      <4>1. g_daUsed'
        BY <3>1, Zenon DEF StartupRefused
      <4>2. owed' = AtMost(owed, gp.failedTries)
        BY <4>1 DEF StartupRefused
      <4>3. owed' <= gp.failedTries /\ gp'.failedTries = gp.failedTries
        BY <1>1, <4>2 DEF Inv, Types, PersistentData, CounterFields, AtMost
      <4>4. QED
        BY <1>1, <1>2, <4>3 DEF PersistentData, One
    <3>2. CASE gp.orderlyState # "DA_USED"
      <4>1. owed' = owed /\ gp' = gp
        BY <1>1, <3>2, Zenon DEF StartupRefused, prevOrderlyState, PersistentData
      <4>2. QED
        BY <2>1, <4>1, Zenon DEF Inv, Covered, MakesUp
    <3>3. QED
      BY <3>1, <3>2
  <2>3. QED
    BY <1>2, <2>1, <2>2 DEF Inv, Types, Covered, PersistentData, One, MakesUp
<1>6. QED
  BY <1>3, <1>4, <1>5 DEF Inv

-----------------------------------------------------------------------------
(* Healing and startup.                                                    *)

\* What DASelfHeal makes of p, and what Spend takes off the debt.
LEMMA HealKeeps ==
    ASSUME NEW p \in PersistentData, NEW o \in Times, owed \in Nat,
           owed <= p.failedTries, NEW t, NEW lt, Spend(p, o, t, lt)
    PROVE  /\ DASelfHeal(p, o).gp \in PersistentData
           /\ DASelfHeal(p, o).go \in Times
           /\ DASelfHeal(p, o).gp.failedTries <= p.failedTries
           /\ DASelfHeal(p, o).gp.maxTries = p.maxTries
           /\ DASelfHeal(p, o).gp.recoveryTime = p.recoveryTime
           /\ "failedTries" \notin DASelfHeal(p, o).fields
                 => DASelfHeal(p, o).gp.failedTries = p.failedTries
           /\ owed' \in Nat /\ owed' <= owed
           /\ owed' <= DASelfHeal(p, o).gp.failedTries
<1> DEFINE h == HealTries(p, o)
<1>1. /\ h.tries \in 0 .. p.failedTries /\ h.timer \in Int
      /\ ~h.sync => h.tries = p.failedTries
  BY HealTriesBound
<1>2. /\ DASelfHeal(p, o).gp = HealedGp(p, o)
      /\ DASelfHeal(p, o).go = [o EXCEPT !.selfHealTimer = h.timer]
      /\ DASelfHeal(p, o).fields = HealedFields(p, o)
  BY DEF DASelfHeal
<1>3. owed' = Less(owed, p.failedTries - h.tries)
  BY DEF Spend
<1> HIDE DEF h
<1>4. /\ HealedGp(p, o) \in PersistentData
      /\ HealedGp(p, o).failedTries = h.tries
      /\ HealedGp(p, o).maxTries = p.maxTries
      /\ HealedGp(p, o).recoveryTime = p.recoveryTime
  <2> DEFINE enabled == p.lockOutAuthEnabled \/ HealsLockout(p, o)
  <2>1. enabled \in BOOLEAN
    OBVIOUS
  <2>2. HealedGp(p, o) = [p EXCEPT !.failedTries = h.tries,
                                   !.lockOutAuthEnabled = enabled]
    BY DEF HealedGp, h
  <2>3. h.tries \in Nat
    BY <1>1 DEF PersistentData
  <2> HIDE DEF enabled
  <2>4. QED
    BY <2>1, <2>2, <2>3, Zenon DEF PersistentData
<1>5. [o EXCEPT !.selfHealTimer = h.timer] \in Times
  BY <1>1 DEF Times
<1>6. "failedTries" \notin HealedFields(p, o) => ~h.sync
  BY DEF HealedFields, h
<1>7. p.failedTries \in Nat
  BY DEF PersistentData
<1>8. owed' \in Nat /\ owed' <= owed /\ owed' <= h.tries
  BY <1>1, <1>3, <1>7 DEF Less
<1>9. QED
  BY <1>1, <1>2, <1>4, <1>5, <1>6, <1>7, <1>8

\* A command heals first, in memory and in the image.
LEMMA TimeUpdateKeeps == Inv /\ TimeUpdate => Inv'
<1> SUFFICES ASSUME Inv, TimeUpdate PROVE Inv'
  OBVIOUS
<1> DEFINE o == Later(go, elapsed)
           h == DASelfHeal(gp, o)
<1>1. o \in Times /\ Relative(go) \in Times
  BY TimesClosed DEF Inv, Types
<1>2. /\ gp \in PersistentData /\ owed \in Nat /\ owed <= gp.failedTries
      /\ outcome # "counted"
  BY DEF Inv, Types, Covered, Copies, One, PersistentData, TimeUpdate
<1>3. /\ gp' = h.gp /\ go' = h.go /\ Spend(gp, o, earned, lockEarned)
      /\ disk' = disk /\ phase = "ready" /\ phase' = "entered" /\ elapsed' = 0
      /\ g_daUsed' = g_daUsed /\ outcome' = outcome
      /\ g_updateNV' = (h.fields # {})
  BY DEF TimeUpdate
<1>4. PICK times \in TimeClockUpdate :
         s_NV' = [gp |-> NV_SYNC_PERSISTENT(h.fields), go |-> times]
  BY DEF TimeUpdate
<1>5. times \in Times
  BY <1>1 DEF TimeClockUpdate, Inv, Types
<1> HIDE DEF o, h
<1>6. /\ h.gp \in PersistentData /\ h.go \in Times
      /\ h.gp.failedTries <= gp.failedTries
      /\ h.gp.maxTries = gp.maxTries /\ h.gp.recoveryTime = gp.recoveryTime
      /\ "failedTries" \notin h.fields => h.gp.failedTries = gp.failedTries
      /\ owed' \in Nat /\ owed' <= owed /\ owed' <= h.gp.failedTries
  BY <1>1, <1>2, <1>3, HealKeeps DEF h
<1>7. /\ NV_SYNC_PERSISTENT(h.fields) \in PersistentData
      /\ \A f \in CounterFields : NV_SYNC_PERSISTENT(h.fields)[f] = gp'[f]
  <2>1. s_NV.gp \in PersistentData /\ gp' \in PersistentData
    BY <1>3, <1>6 DEF Inv, Types
  <2>2. \A f \in CounterFields : s_NV.gp[f] = gp[f]
    BY DEF Inv, Copies
  <2>3. QED
    BY <1>2, <1>3, <1>6, <2>1, <2>2, SyncFields DEF CounterFields
<1>8. Types'
  <2>1. g_updateNV' \in BOOLEAN
    BY <1>3
  <2>2. QED
    BY <1>3, <1>4, <1>5, <1>6, <1>7, <2>1 DEF Inv, Types
<1>9. Copies'
  <2>1. \A f \in CounterFields : s_NV'.gp[f] = gp'[f]
    BY <1>4, <1>7
  <2>2. \A f \in CounterFields : disk.gp[f] = gp[f]
    BY <1>3 DEF Inv, Copies
  <2>3. ~g_updateNV' => h.gp.failedTries = gp.failedTries
    BY <1>3, <1>6, Zenon
  <2>4. QED
    BY <1>2, <1>3, <1>6, <2>1, <2>2, <2>3 DEF Copies, CounterFields, PersistentData
<1>10. Covered'
  BY <1>2, <1>3, <1>6 DEF Inv, Types, Covered, One, MakesUp, PersistentData
<1>11. QED
  BY <1>8, <1>9, <1>10 DEF Inv

\* A startup makes up for a failure that may have been lost, and heals.
LEMMA StartupKeeps == Inv /\ TPM2_Startup => Inv'
<1> SUFFICES ASSUME Inv, TPM2_Startup PROVE Inv'
  OBVIOUS
<1> DEFINE used == gp.orderlyState = "DA_USED"
           enabled == gp.lockOutAuthEnabled \/ gp.lockoutRecovery = 0
           tries == IF Compensates /\ used THEN gp.failedTries + 1 ELSE gp.failedTries
           p == [gp EXCEPT !.lockOutAuthEnabled = enabled, !.failedTries = tries,
                           !.orderlyState = "NONE"]
           h == DASelfHeal(p, StartupTimers)
           fields == h.fields \cup {"orderlyState"}
                         \cup (IF gp.lockoutRecovery = 0 THEN {"lockOutAuthEnabled"} ELSE {})
                         \cup (IF Compensates THEN {"failedTries"} ELSE {})
           t == IF Compensates /\ used THEN elapsed ELSE earned
<1>1. gp \in PersistentData /\ owed \in Nat /\ phase = "init" /\ outcome # "counted"
  BY DEF Inv, Types, Copies, TPM2_Startup
<1>2. StartupTimers \in Times
  <2>1. Later(go, elapsed) \in Times /\ elapsed \in Int
    BY TimesClosed DEF Inv, Types
  <2>2. QED
    BY <2>1 DEF StartupTimers, Times
<1>3. One(MakesUp(gp)) = One(Compensates /\ used)
  BY DEF MakesUp, Compensates, prevOrderlyState, IS_ORDERLY, One
<1>4. tries \in Nat /\ owed <= tries
  BY <1>1, <1>3 DEF Inv, Covered, One, PersistentData
<1>5. enabled \in BOOLEAN
  OBVIOUS
<1>6. /\ gp' = h.gp /\ go' = h.go /\ Spend(p, StartupTimers, t, lockEarned)
      /\ s_NV' = [gp |-> NV_SYNC_PERSISTENT(fields), go |-> Zero]
      /\ g_daUsed' = (used /\ ~Compensates)
  BY DEF TPM2_Startup, DAStartup
<1>7. /\ disk' = disk /\ phase' = "done" /\ elapsed' = 0 /\ outcome' = outcome
      /\ g_updateNV' = TRUE
  BY DEF TPM2_Startup
<1>8. tries # gp.failedTries => "failedTries" \in fields
  OBVIOUS
<1>9. "failedTries" \in h.fields => "failedTries" \in fields
  OBVIOUS
<1>10. Zero \in Times
  BY DEF Zero, Times
<1>11. g_daUsed' \in BOOLEAN
  BY <1>6
<1> HIDE DEF enabled, tries, fields, t
<1>12. /\ p \in PersistentData /\ p.failedTries = tries
       /\ p.maxTries = gp.maxTries /\ p.recoveryTime = gp.recoveryTime
  BY <1>1, <1>4, <1>5, Zenon DEF PersistentData, OrderlyStates
<1> HIDE DEF p, h
<1>13. /\ h.gp \in PersistentData /\ h.go \in Times
       /\ h.gp.failedTries <= tries
       /\ h.gp.maxTries = gp.maxTries /\ h.gp.recoveryTime = gp.recoveryTime
       /\ "failedTries" \notin h.fields => h.gp.failedTries = tries
       /\ owed' \in Nat /\ owed' <= owed /\ owed' <= h.gp.failedTries
  BY <1>1, <1>2, <1>4, <1>6, <1>12, HealKeeps, ZenonT(60) DEF h
<1>14. /\ NV_SYNC_PERSISTENT(fields) \in PersistentData
       /\ \A f \in CounterFields : NV_SYNC_PERSISTENT(fields)[f] = gp'[f]
  <2>1. s_NV.gp \in PersistentData /\ gp' \in PersistentData
    BY <1>6, <1>13 DEF Inv, Types
  <2>2. \A f \in CounterFields : s_NV.gp[f] = gp[f]
    BY DEF Inv, Copies
  <2>3. QED
    BY <1>1, <1>6, <1>8, <1>9, <1>13, <2>1, <2>2, SyncFields DEF CounterFields
<1>15. Types'
  BY <1>6, <1>7, <1>10, <1>11, <1>13, <1>14 DEF Inv, Types
<1>16. Copies'
  <2>1. \A f \in CounterFields : s_NV'.gp[f] = gp'[f]
    BY <1>6, <1>14, ZenonT(60)
  <2>2. QED
    BY <1>1, <1>7, <2>1 DEF Copies
<1>17. Covered'
  BY <1>1, <1>6, <1>7, <1>13 DEF Inv, Types, Covered, One, MakesUp, PersistentData
<1>18. QED
  BY <1>15, <1>16, <1>17 DEF Inv

-----------------------------------------------------------------------------
(* The session check.                                                      *)

\* The DA mark changes the orderly state alone.
LEMMA MarkedType ==
    ASSUME gp \in PersistentData, NEW s
    PROVE  /\ MarkedGp(s) \in PersistentData
           /\ \A f \in CounterFields : MarkedGp(s)[f] = gp[f]
BY DEF MarkedGp, PersistentData, OrderlyStates, CounterFields

\* The end of a session check that leaves the counter and what is owed alone.
LEMMA EndCheckKeeps ==
    ASSUME Inv, NEW s, NEW next \in {"authorized", "done"}, NEW fields,
           EndCheck(s, next, fields),
           gp' \in PersistentData, go' \in Times,
           \A f \in CounterFields : gp'[f] = gp[f],
           outcome' # "counted"
    PROVE  Inv'
<1>1. /\ phase = "entered" /\ phase' = next /\ disk' = disk /\ elapsed' = elapsed
      /\ owed' = owed /\ g_daUsed' = (g_daUsed \/ Marks(s))
      /\ g_updateNV' = (g_updateNV \/ fields # {})
      /\ s_NV' = [s_NV EXCEPT !.gp = NV_SYNC_PERSISTENT(fields)]
  BY DEF EndCheck
<1>2. gp \in PersistentData /\ s_NV.gp \in PersistentData
  BY DEF Inv, Types
<1>3. /\ NV_SYNC_PERSISTENT(fields) \in PersistentData
      /\ \A f \in CounterFields : NV_SYNC_PERSISTENT(fields)[f] = gp[f]
  BY <1>2, SyncFields DEF Inv, Copies, CounterFields
<1>4. g_daUsed' \in BOOLEAN /\ g_updateNV' \in BOOLEAN
  BY <1>1
<1>5. /\ s_NV' \in [gp : PersistentData, go : Times]
      /\ s_NV'.gp = NV_SYNC_PERSISTENT(fields)
  BY <1>1, <1>3 DEF Inv, Types
<1>6. Types'
  BY <1>1, <1>4, <1>5 DEF Inv, Types
<1>7. Copies'
  <2>1. \A f \in CounterFields : s_NV'.gp[f] = gp'[f] /\ s_NV'.gp[f] = s_NV.gp[f]
    BY <1>3, <1>5 DEF Inv, Copies
  <2>2. ~g_updateNV' => ~g_updateNV
    BY <1>1, Zenon
  <2>3. /\ disk.gp.maxTries = gp'.maxTries /\ disk.gp.recoveryTime = gp'.recoveryTime
        /\ disk.gp.failedTries >= gp'.failedTries
    BY <1>1 DEF Inv, Copies, CounterFields
  <2>4. QED
    BY <1>1, <2>1, <2>2, <2>3 DEF Inv, Copies
<1>8. Covered'
  BY <1>1, <1>2 DEF Inv, Types, Covered, CounterFields, One, MakesUp, PersistentData
<1>9. QED
  BY <1>6, <1>7, <1>8 DEF Inv

\* A failure is charged only after a check of what it is charged to: of
\* lockoutAuth, or of the counter.
LEMMA ChargedWasChecked ==
    ASSUME NEW s \in Sessions, Authorized(s)
    PROVE  /\ Charged(s) = "lockout" => gp.lockOutAuthEnabled
           /\ Charged(s) = "da" => ~(gp.failedTries >= gp.maxTries)
<1>1. /\ s.entity \in Entities /\ s.bound \in {"none", "da", "lockout"}
      /\ s.bound # "none" /\ ~s.includeAuth => s.entity = s.bound
  BY DEF Sessions, Entities
<1>2. QED
  BY <1>1 DEF Authorized, Charged, BoundRefused, EntityRefused, ChecksBound,
         ChecksEntity, LockedOut, Entities

\* The five ways a session check ends.
LEMMA SessionCheckKeeps == Inv /\ SessionCheck => Inv'
<1> SUFFICES ASSUME Inv, NEW s \in Sessions,
                    \/ CheckLockedOut(s)
                    \/ CheckAuthSession(s)
                    \/ BadAuth(s)
                    \/ IncrementLockoutAuth(s)
                    \/ IncrementLockout(s)
             PROVE  Inv'
  BY DEF SessionCheck
<1>1. /\ gp \in PersistentData /\ go \in Times
      /\ MarkedGp(s) \in PersistentData
      /\ \A f \in CounterFields : MarkedGp(s)[f] = gp[f]
  BY MarkedType DEF Inv, Types
<1>2. phase = "entered" => outcome # "counted"
  BY DEF Inv, Copies
<1>3. CASE CheckLockedOut(s)
  <2>1. phase = "entered" /\ outcome' = outcome /\ gp' = MarkedGp(s) /\ go' = go
    BY <1>3 DEF CheckLockedOut, EndCheck
  <2>2. EndCheck(s, "done", MarkedFields(s))
    BY <1>3 DEF CheckLockedOut
  <2>3. QED
    BY <1>1, <1>2, <2>1, <2>2, EndCheckKeeps
<1>4. CASE CheckAuthSession(s)
  <2>1. outcome' # "counted" /\ gp' = MarkedGp(s) /\ go' = go
    BY <1>4 DEF CheckAuthSession
  <2>2. EndCheck(s, "authorized", MarkedFields(s))
    BY <1>4 DEF CheckAuthSession
  <2>3. QED
    BY <1>1, <2>1, <2>2, EndCheckKeeps
<1>5. CASE BadAuth(s)
  <2>1. phase = "entered" /\ outcome' = outcome /\ gp' = MarkedGp(s) /\ go' = go
    BY <1>5 DEF BadAuth, EndCheck
  <2>2. EndCheck(s, "done", MarkedFields(s))
    BY <1>5 DEF BadAuth
  <2>3. QED
    BY <1>1, <1>2, <2>1, <2>2, EndCheckKeeps
<1>6. CASE IncrementLockoutAuth(s)
  <2> DEFINE fields == MarkedFields(s) \cup
                       IF gp.lockoutRecovery = 0 THEN {} ELSE {"lockOutAuthEnabled"}
  <2>1. gp.lockOutAuthEnabled
    BY <1>6, ChargedWasChecked DEF IncrementLockoutAuth
  <2>2. /\ EndCheck(s, "done", fields)
        /\ outcome' = outcome
        /\ gp' = [MarkedGp(s) EXCEPT !.lockOutAuthEnabled = FALSE]
        /\ go' = [go EXCEPT !.lockoutTimer = 0]
    BY <1>6, <2>1 DEF IncrementLockoutAuth
  <2>3. phase = "entered"
    BY <2>2 DEF EndCheck
  <2>4. gp' \in PersistentData /\ \A f \in CounterFields : gp'[f] = gp[f]
    BY <1>1, <2>2, Zenon DEF PersistentData, CounterFields
  <2>5. go' \in Times
    BY <1>1, <2>2 DEF Times
  <2> HIDE DEF fields
  <2>6. QED
    BY <1>2, <2>2, <2>3, <2>4, <2>5, EndCheckKeeps, Zenon
<1>7. CASE IncrementLockout(s) /\ gp.recoveryTime = 0
  <2> DEFINE fields == MarkedFields(s) \cup
                       IF gp.recoveryTime = 0 THEN {} ELSE {"failedTries"}
  <2>1. /\ EndCheck(s, "done", fields) /\ outcome' = "none"
        /\ go' = [go EXCEPT !.selfHealTimer = 0]
        /\ gp' = [MarkedGp(s) EXCEPT !.failedTries =
                      IF gp.recoveryTime = 0 THEN @ ELSE @ + 1]
    BY <1>7 DEF IncrementLockout
  <2>2. gp' \in PersistentData /\ \A f \in CounterFields : gp'[f] = gp[f]
    BY <1>1, <1>7, <2>1 DEF PersistentData, CounterFields
  <2>3. go' \in Times
    BY <1>1, <2>1 DEF Times
  <2> HIDE DEF fields
  <2>4. QED
    BY <2>1, <2>2, <2>3, EndCheckKeeps
<1>8. CASE IncrementLockout(s) /\ gp.recoveryTime # 0
  <2> DEFINE fields == MarkedFields(s) \cup
                       IF gp.recoveryTime = 0 THEN {} ELSE {"failedTries"}
  <2>1. gp.failedTries < gp.maxTries
    BY <1>1, <1>8, ChargedWasChecked DEF IncrementLockout, PersistentData
  <2>2. /\ outcome' = "counted"
        /\ go' = [go EXCEPT !.selfHealTimer = 0]
        /\ gp' = [MarkedGp(s) EXCEPT !.failedTries =
                      IF gp.recoveryTime = 0 THEN @ ELSE @ + 1]
        /\ EndCheck(s, "done", fields)
    BY <1>8 DEF IncrementLockout
  <2>3. /\ phase = "entered" /\ phase' = "done" /\ disk' = disk
        /\ elapsed' = elapsed /\ owed' = owed
        /\ g_daUsed' = (g_daUsed \/ Marks(s))
        /\ g_updateNV' = (g_updateNV \/ fields # {})
        /\ s_NV' = [s_NV EXCEPT !.gp = NV_SYNC_PERSISTENT(fields)]
    BY <2>2 DEF EndCheck
  <2>4. "failedTries" \in fields
    BY <1>8
  <2>5. /\ gp' \in PersistentData /\ gp'.failedTries = gp.failedTries + 1
        /\ gp'.maxTries = gp.maxTries /\ gp'.recoveryTime = gp.recoveryTime
    BY <1>1, <1>8, <2>2 DEF PersistentData, CounterFields
  <2> HIDE DEF fields
  <2>6. g_daUsed' \in BOOLEAN /\ g_updateNV' = TRUE
    BY <2>3, <2>4, Zenon
  <2>7. /\ NV_SYNC_PERSISTENT(fields) \in PersistentData
        /\ \A f \in CounterFields : NV_SYNC_PERSISTENT(fields)[f] = gp'[f]
    <3>1. s_NV.gp \in PersistentData
      BY DEF Inv, Types
    <3>2. \A f \in CounterFields : s_NV.gp[f] = gp[f]
      BY DEF Inv, Copies
    <3>3. QED
      BY <1>1, <2>4, <2>5, <3>1, <3>2, SyncFields DEF CounterFields
  <2>8. /\ s_NV' \in [gp : PersistentData, go : Times]
        /\ s_NV'.gp = NV_SYNC_PERSISTENT(fields)
    BY <2>3, <2>7 DEF Inv, Types
  <2>9. go' \in Times
    BY <1>1, <2>2 DEF Times
  <2>10. Types'
    BY <2>3, <2>5, <2>6, <2>8, <2>9 DEF Inv, Types
  <2>11. Copies'
    BY <2>2, <2>3, <2>6, <2>7, <2>8 DEF Copies
  <2>12. Covered'
    <3>1. /\ disk.gp.maxTries = gp.maxTries
          /\ disk.gp.recoveryTime = gp.recoveryTime
          /\ disk.gp.failedTries >= gp.failedTries
          /\ owed <= gp.failedTries
      BY <1>2, <2>3 DEF Inv, Copies, Covered, One, Types, PersistentData
    <3>2. /\ gp.failedTries \in Nat /\ gp.maxTries \in Nat /\ owed \in Nat
          /\ disk.gp.failedTries \in Nat /\ disk.gp.maxTries \in Nat
      BY ZenonT(60) DEF Inv, Types, PersistentData
    <3>3. disk.gp.orderlyState = "DA_USED"
             => owed + 1 <= disk.gp.failedTries + One(MakesUp(disk.gp))
      BY <1>8, <2>1, <3>1, <3>2 DEF One, MakesUp
    <3>4. disk.gp.orderlyState # "DA_USED"
             => owed <= disk.gp.failedTries + One(MakesUp(disk.gp))
      BY <3>1, <3>2 DEF One, MakesUp
    <3>5. owed' + One(outcome' = "counted") <= gp'.failedTries
      BY <2>2, <2>3, <2>5, <3>1, <3>2 DEF One
    <3>6. QED
      BY <2>2, <2>3, <3>2, <3>3, <3>4, <3>5 DEF Covered, One, MakesUp
  <2>13. QED
    BY <2>10, <2>11, <2>12 DEF Inv
<1>9. QED
  BY <1>3, <1>4, <1>5, <1>6, <1>7, <1>8

\* What a handler may do: the image follows gp, and nothing more is owed.
LEMMA HandledKeeps ==
    ASSUME Inv, phase \in {"entered", "authorized"}, NEW c, Handled(c),
           gp' \in PersistentData, go' \in Times,
           s_NV' \in [gp : PersistentData, go : Times],
           g_daUsed' \in BOOLEAN,
           \A f \in CounterFields : s_NV'.gp[f] = gp'[f],
           \/ g_updateNV' = TRUE
           \/ g_updateNV' = g_updateNV /\ s_NV' = s_NV,
           owed' \in Nat, owed' <= owed, owed' <= gp'.failedTries
    PROVE  Inv'
<1>1. phase' = "done" /\ outcome' = "none" /\ disk' = disk /\ elapsed' = elapsed
  BY DEF Handled
<1>2. outcome # "counted"
  BY DEF Inv, Copies
<1>3. g_updateNV' \in BOOLEAN
  BY Zenon DEF Inv, Types
<1>4. Types'
  BY <1>1, <1>3 DEF Inv, Types
<1>5. Copies'
  <2>1. CASE g_updateNV' = TRUE
    BY <1>1, <2>1, ZenonT(60) DEF Copies
  <2>2. CASE g_updateNV' = g_updateNV /\ s_NV' = s_NV
    BY <1>1, <2>2, ZenonT(60) DEF Inv, Copies
  <2>3. QED
    BY <2>1, <2>2, Zenon
<1>6. Covered'
  <2>1. /\ owed \in Nat /\ disk.gp.failedTries \in Nat /\ gp'.failedTries \in Nat
        /\ owed <= disk.gp.failedTries + One(MakesUp(disk.gp))
    BY <1>2 DEF Inv, Types, Covered, One, PersistentData
  <2>2. One(MakesUp(disk.gp)) \in Nat
    BY DEF One
  <2>3. One(outcome' = "counted") = 0
        /\ One(outcome' = "counted" /\ disk'.gp.orderlyState = "DA_USED") = 0
    BY <1>1, ZenonT(60) DEF One
  <2>4. owed' <= disk.gp.failedTries + One(MakesUp(disk.gp))
    BY <2>1, <2>2
  <2>5. QED
    BY <1>1, <2>1, <2>3, <2>4 DEF Covered
<1>7. QED
  BY <1>4, <1>5, <1>6 DEF Inv

\* The handlers of the model.
LEMMA HandlerKeeps == Inv /\ Handler => Inv'
<1> SUFFICES ASSUME Inv, Handler PROVE Inv'
  OBVIOUS
<1>1. /\ gp \in PersistentData /\ go \in Times /\ owed \in Nat
      /\ s_NV \in [gp : PersistentData, go : Times]
      /\ g_daUsed \in BOOLEAN
      /\ \A f \in CounterFields : s_NV.gp[f] = gp[f]
  BY DEF Inv, Types, Copies
<1>2. phase \in {"entered", "authorized"} => owed <= gp.failedTries
  BY <1>1 DEF Inv, Covered, Copies, One, PersistentData
<1>3. ASSUME NEW fields, gp' \in PersistentData,
             \A f \in CounterFields : f \in fields \/ gp'[f] = gp[f]
      PROVE  /\ [s_NV EXCEPT !.gp = NV_SYNC_PERSISTENT(fields)]
                   \in [gp : PersistentData, go : Times]
             /\ NV_SYNC_PERSISTENT(fields) \in PersistentData
             /\ \A f \in CounterFields :
                   [s_NV EXCEPT !.gp = NV_SYNC_PERSISTENT(fields)].gp[f] = gp'[f]
             /\ \A f \in CounterFields : NV_SYNC_PERSISTENT(fields)[f] = gp'[f]
  <2>1. /\ NV_SYNC_PERSISTENT(fields) \in PersistentData
        /\ \A f \in CounterFields : NV_SYNC_PERSISTENT(fields)[f] = gp'[f]
    BY <1>1, <1>3, SyncFields DEF CounterFields
  <2>2. QED
    BY <1>1, <2>1
<1>4. CASE TPM2_DictionaryAttackLockReset
  <2>1. /\ phase = "authorized" /\ Handled(FALSE) /\ g_updateNV' = TRUE
        /\ gp' = [gp EXCEPT !.failedTries = 0] /\ owed' = 0
        /\ go' = go /\ g_daUsed' = g_daUsed
        /\ s_NV' = [s_NV EXCEPT !.gp = NV_SYNC_PERSISTENT({"failedTries"})]
    BY <1>4, Zenon DEF TPM2_DictionaryAttackLockReset, LockoutCommand
  <2>2. /\ gp' \in PersistentData /\ gp'.failedTries = 0
        /\ \A f \in CounterFields : f \in {"failedTries"} \/ gp'[f] = gp[f]
    BY <1>1, <2>1 DEF PersistentData, CounterFields
  <2>3. /\ s_NV' \in [gp : PersistentData, go : Times]
        /\ \A f \in CounterFields : s_NV'.gp[f] = gp'[f]
    BY <1>3, <2>1, <2>2, SMTT(60), ZenonT(60)
  <2>4. /\ phase \in {"entered", "authorized"} /\ go' \in Times
        /\ owed' \in Nat /\ owed' <= owed /\ owed' <= gp'.failedTries
    BY <1>1, <2>1, <2>2
  <2>5. g_daUsed' \in BOOLEAN
    BY <1>1, <2>1, Zenon
  <2>6. QED
    BY <2>1, <2>2, <2>3, <2>4, <2>5, HandledKeeps, Zenon
<1>5. CASE TPM2_DictionaryAttackParameters
  <2> DEFINE fields == {"failedTries", "maxTries", "recoveryTime", "lockoutRecovery"}
  <2>1. PICK p \in Parameters : gp' = [gp EXCEPT !.maxTries = p.maxTries,
                                            !.recoveryTime = p.recoveryTime,
                                            !.lockoutRecovery = p.lockoutRecovery]
    BY <1>5, Zenon DEF TPM2_DictionaryAttackParameters
  <2>2. /\ phase = "authorized" /\ Handled(FALSE) /\ g_updateNV' = TRUE
        /\ owed' = owed /\ go' = go /\ g_daUsed' = g_daUsed
        /\ s_NV' = [s_NV EXCEPT !.gp = NV_SYNC_PERSISTENT(fields)]
    BY <1>5, Zenon DEF TPM2_DictionaryAttackParameters, LockoutCommand
  <2>3. p.maxTries \in Nat /\ p.recoveryTime \in Nat /\ p.lockoutRecovery \in Nat
    BY <2>1, LockoutAssumption
  <2>4. gp' \in PersistentData /\ gp'.failedTries = gp.failedTries
    BY <1>1, <2>1, <2>3, Zenon DEF PersistentData
  <2>5. \A f \in CounterFields : f \in fields
    BY DEF CounterFields
  <2> HIDE DEF fields
  <2>6. /\ s_NV' \in [gp : PersistentData, go : Times]
        /\ \A f \in CounterFields : s_NV'.gp[f] = gp'[f]
    BY <1>3, <2>2, <2>4, <2>5
  <2>7. /\ phase \in {"entered", "authorized"} /\ go' \in Times
        /\ owed' \in Nat /\ owed' <= owed /\ owed' <= gp'.failedTries
    BY <1>1, <1>2, <2>2, <2>4
  <2>8. g_daUsed' \in BOOLEAN
    BY <1>1, <2>2, Zenon
  <2>9. QED
    BY <2>2, <2>4, <2>6, <2>7, <2>8, HandledKeeps, Zenon
<1>6. CASE DAPreInstall_Init
  <2>1. /\ phase = "authorized" /\ Handled(TRUE) /\ g_updateNV' = TRUE
        /\ owed' = 0 /\ go' = go /\ g_daUsed' = g_daUsed
        /\ s_NV' = [gp |-> gp', go |-> Relative(go)]
        /\ gp' = [gp EXCEPT !.failedTries = 0,
                        !.maxTries = PreInstall.maxTries,
                        !.recoveryTime = PreInstall.recoveryTime,
                        !.lockoutRecovery = PreInstall.lockoutRecovery,
                        !.lockOutAuthEnabled = TRUE]
    BY <1>6, Zenon DEF DAPreInstall_Init
  <2>2. /\ PreInstall.maxTries \in Nat /\ PreInstall.recoveryTime \in Nat
        /\ PreInstall.lockoutRecovery \in Nat
    BY LockoutAssumption
  <2>3. gp' \in PersistentData /\ gp'.failedTries = 0
    BY <1>1, <2>1, <2>2, Zenon DEF PersistentData
  <2>4. Relative(go) \in Times
    BY <1>1, TimesClosed
  <2>5. /\ s_NV' \in [gp : PersistentData, go : Times]
        /\ \A f \in CounterFields : s_NV'.gp[f] = gp'[f]
    BY <2>1, <2>3, <2>4
  <2>6. /\ phase \in {"entered", "authorized"} /\ go' \in Times
        /\ owed' \in Nat /\ owed' <= owed /\ owed' <= gp'.failedTries
    BY <1>1, <2>1, <2>3
  <2>7. g_daUsed' \in BOOLEAN
    BY <1>1, <2>1, Zenon
  <2>8. QED
    BY <2>1, <2>3, <2>5, <2>6, <2>7, HandledKeeps, Zenon
<1>7. CASE OtherCommand
  <2>1. PICK c \in BOOLEAN : Handled(c)
    BY <1>7 DEF OtherCommand
  <2>2. /\ phase \in {"entered", "authorized"} /\ gp' = gp /\ go' = go
        /\ s_NV' = s_NV /\ g_updateNV' = g_updateNV /\ g_daUsed' = g_daUsed
        /\ owed' = owed
    BY <1>7 DEF OtherCommand
  <2>3. QED
    BY <1>1, <1>2, <2>1, <2>2, HandledKeeps
<1>8. CASE TPM2_Shutdown
  <2>1. /\ phase \in {"entered", "authorized"} /\ Handled(FALSE)
        /\ gp' = [gp EXCEPT !.orderlyState = "ORDERLY"] /\ g_daUsed' = FALSE
        /\ go' = [go EXCEPT !.time = 0] /\ g_updateNV' = TRUE /\ owed' = owed
        /\ s_NV' = [gp |-> NV_SYNC_PERSISTENT({"orderlyState"}), go |-> go']
    BY <1>8, Zenon DEF TPM2_Shutdown
  <2>2. gp' \in PersistentData /\ \A f \in CounterFields : gp'[f] = gp[f]
    BY <1>1, <2>1 DEF PersistentData, CounterFields, OrderlyStates
  <2>3. go' \in Times
    BY <1>1, <2>1 DEF Times
  <2>4. /\ NV_SYNC_PERSISTENT({"orderlyState"}) \in PersistentData
        /\ \A f \in CounterFields : NV_SYNC_PERSISTENT({"orderlyState"})[f] = gp'[f]
    BY <1>3, <2>2, Zenon
  <2>5. /\ s_NV' \in [gp : PersistentData, go : Times]
        /\ \A f \in CounterFields : s_NV'.gp[f] = gp'[f]
    BY <2>1, <2>3, <2>4
  <2>6. gp'.failedTries = gp.failedTries
    BY <2>2 DEF CounterFields
  <2>7. /\ phase \in {"entered", "authorized"} /\ go' \in Times
        /\ owed' \in Nat /\ owed' <= owed /\ owed' <= gp'.failedTries
    BY <1>1, <1>2, <2>1, <2>3, <2>6
  <2>8. g_daUsed' \in BOOLEAN
    BY <1>1, <2>1, Zenon
  <2>9. QED
    BY <2>1, <2>2, <2>5, <2>7, <2>8, HandledKeeps, Zenon
<1>9. QED
  BY <1>4, <1>5, <1>6, <1>7, <1>8 DEF Handler

\* The end of the command stores the counter whenever it changed.
LEMMA CleanupKeeps == Inv /\ Cleanup => Inv'
<1> SUFFICES ASSUME Inv, Cleanup PROVE Inv'
  OBVIOUS
<1> DEFINE clears == g_clearOrderly /\ IS_ORDERLY(gp.orderlyState)
           fields == IF clears THEN {"orderlyState"} ELSE {}
           p == NV_SYNC_PERSISTENT(fields)
           state == IF clears THEN IF g_daUsed THEN "DA_USED" ELSE "NONE"
                    ELSE gp.orderlyState
<1>1. /\ gp \in PersistentData /\ go \in Times /\ owed \in Nat
      /\ s_NV \in [gp : PersistentData, go : Times]
      /\ disk \in [gp : PersistentData, go : Times]
      /\ g_updateNV \in BOOLEAN /\ g_daUsed \in BOOLEAN /\ elapsed \in Nat
      /\ \A f \in CounterFields : s_NV.gp[f] = gp[f]
      /\ ~g_updateNV => \A f \in CounterFields : disk.gp[f] = s_NV.gp[f]
      /\ phase = "done"
  BY DEF Inv, Types, Copies, Cleanup
<1>2. /\ gp' = [gp EXCEPT !.orderlyState = state]
      /\ s_NV' = [gp |-> p, go |-> IF IS_ORDERLY(p.orderlyState) THEN s_NV.go ELSE Zero]
      /\ disk' = IF g_updateNV \/ clears THEN s_NV' ELSE disk
      /\ phase' = "ready" /\ outcome' = "none" /\ g_updateNV' = FALSE
      /\ owed' = owed + One(outcome = "counted")
      /\ go' = go /\ g_daUsed' = g_daUsed /\ elapsed' = elapsed
  BY <1>1 DEF Cleanup, One, PersistentData
<1>3. state \in OrderlyStates
  BY <1>1 DEF PersistentData, OrderlyStates
<1> HIDE DEF state
<1>4. gp' \in PersistentData /\ \A f \in CounterFields : gp'[f] = gp[f]
  BY <1>1, <1>2, <1>3 DEF PersistentData, CounterFields
<1> HIDE DEF fields
<1>5. /\ p \in PersistentData
      /\ \A f \in CounterFields : p[f] = gp[f]
  BY <1>1, <1>4, SyncFields DEF CounterFields
<1> HIDE DEF p
<1>6. /\ s_NV' \in [gp : PersistentData, go : Times]
      /\ \A f \in CounterFields : s_NV'.gp[f] = gp[f]
  BY <1>1, <1>2, <1>5, TimesClosed
<1>7. /\ disk' \in [gp : PersistentData, go : Times]
      /\ \A f \in CounterFields : disk'.gp[f] = gp[f]
  <2>1. CASE g_updateNV \/ clears
    BY <1>2, <1>6, <2>1
  <2>2. CASE ~(g_updateNV \/ clears)
    <3>1. disk' = disk /\ ~g_updateNV
      BY <1>2, <2>2, Zenon
    <3>2. QED
      BY <1>1, <3>1
  <2>3. QED
    BY <2>1, <2>2
<1>8. owed' \in Nat /\ owed' <= gp.failedTries
  <2>1. owed + One(outcome = "counted") <= gp.failedTries
    BY <1>1 DEF Inv, Covered
  <2>2. One(outcome = "counted") \in Nat
    BY DEF One
  <2>3. QED
    BY <1>1, <1>2, <2>1, <2>2
<1>9. Types'
  BY <1>1, <1>2, <1>4, <1>6, <1>7, <1>8, Zenon DEF Types
<1>10. Copies'
  BY <1>2, <1>4, <1>6, <1>7 DEF Copies
<1>11. Covered'
  <2>1. /\ gp'.failedTries = gp.failedTries /\ disk'.gp.failedTries = gp.failedTries
        /\ gp.failedTries \in Nat
    BY <1>1, <1>4, <1>7 DEF CounterFields, PersistentData
  <2>2. One(MakesUp(disk'.gp)) \in Nat
    BY DEF One
  <2>3. /\ One(outcome' = "counted") = 0
        /\ One(outcome' = "counted" /\ disk'.gp.orderlyState = "DA_USED") = 0
    BY <1>2 DEF One
  <2>4. QED
    BY <1>2, <1>8, <2>1, <2>2, <2>3 DEF Covered
<1>12. QED
  BY <1>9, <1>10, <1>11 DEF Inv

-----------------------------------------------------------------------------
(* The theorems.                                                           *)

\* The inductive invariant holds in every behaviour, whatever the parameters.
THEOREM Invariance == Spec => []Inv
<1>1. Init => Inv
  BY InitEstablishes
<1>2. Inv /\ [Next]_vars => Inv'
  <2> SUFFICES ASSUME Inv, [Next]_vars PROVE Inv'
    OBVIOUS
  <2>1. CASE Tick
    BY <2>1, TickKeeps
  <2>2. CASE PowerCycle
    BY <2>2, PowerCycleKeeps, ZenonT(60)
  <2>3. CASE StartupRefused
    BY <2>3, StartupRefusedKeeps
  <2>4. CASE TPM2_Startup
    BY <2>4, StartupKeeps
  <2>5. CASE TimeUpdate
    BY <2>5, TimeUpdateKeeps
  <2>6. CASE SessionCheck
    BY <2>6, SessionCheckKeeps
  <2>7. CASE Handler
    BY <2>7, HandlerKeeps
  <2>8. CASE Cleanup
    BY <2>8, CleanupKeeps
  <2>9. CASE UNCHANGED vars
    BY <2>9 DEF vars, flags, history, ledger, Inv, Types, Copies, Covered
  <2>10. QED
    BY <2>1, <2>2, <2>3, <2>4, <2>5, <2>6, <2>7, <2>8, <2>9 DEF Next
<1>3. QED
  BY <1>1, <1>2, PTL DEF Spec

\* For any parameters, any number of failures and any sequence of power losses:
\* a failure that was answered, or that the stored DA mark stands for, is in
\* failedTries until it is healed or reset.
THEOREM CountedForAnyParameters == Spec => []FailuresAreCounted
<1>1. Inv => FailuresAreCounted
  BY DEF Inv, Types, Covered, One, FailuresAreCounted, PersistentData
<1>2. QED
  BY <1>1, Invariance, PTL

\* The assertion of IncrementLockout (SessionProcess.c) never fails: a failure
\* is charged to lockoutAuth only after a check found it enabled.
THEOREM AssertionForAnyParameters == Spec => []LockoutAssertionHolds
<1>1. Inv => LockoutAssertionHolds
  BY DEF Inv, Types, LockoutAssertionHolds
<1>2. QED
  BY <1>1, Invariance, PTL

-----------------------------------------------------------------------------
(***************************************************************************)
(* The price of healing.                                                   *)
(*                                                                         *)
(* HealingIsEarned compares the timers of go with the ticks that the TPM   *)
(* really had power.  The comparison has to be carried through a power     *)
(* loss, so it is made for the timers in memory and for those that storage *)
(* would give back; it rests on the invariant above and on bounds for the  *)
(* ages, which give TypeOK.                                                *)
(***************************************************************************)

\* The ages and the ticks stay within their caps.
Bounds ==
    /\ go \in OrderlyData
    /\ s_NV.go \in OrderlyData
    /\ disk.go \in OrderlyData
    /\ elapsed \in 0 .. MaxIdle
    /\ earned \in -1 .. Cap
    /\ lockEarned \in -1 .. LockCap
    /\ before \in (-1 .. Cap) \X (-1 .. LockCap)
    /\ g_clearOrderly \in BOOLEAN
    /\ outcome \in Outcomes
    /\ late \in BOOLEAN

\* The marks that say whether a timer counts: the image follows gp, storage the
\* image, except that lockoutAuth may be disabled in memory alone.
Synced ==
    /\ phase # "init" => s_NV.gp.orderlyState = gp.orderlyState
    /\ gp.lockOutAuthEnabled => s_NV.gp.lockOutAuthEnabled
    /\ ~g_updateNV => /\ disk.gp.orderlyState = s_NV.gp.orderlyState
                      /\ s_NV.gp.lockOutAuthEnabled => disk.gp.lockOutAuthEnabled
    /\ phase \in {"init", "ready"} => before = ledger
    /\ phase \in {"entered", "authorized", "done"} => elapsed = 0

\* The timers that count, ticks after o was taken, claim no more than the powered
\* ticks e and l.
Paid(p, o, ticks, e, l) ==
    /\ p.failedTries # 0 =>
          o.selfHealTimer >= 0 /\ Age(o.selfHealTimer + ticks, Cap) <= e
    /\ ~p.lockOutAuthEnabled =>
          o.lockoutTimer >= 0 /\ Age(o.lockoutTimer + ticks, LockCap) <= l

\* The times that the next command or startup starts from.
Base == IF phase = "init" /\ ~IS_ORDERLY(gp.orderlyState) THEN Zero ELSE go

Funded ==
    /\ earned >= 0 /\ lockEarned >= 0 /\ before[1] >= 0 /\ before[2] >= 0
    /\ Paid(gp, Base, elapsed, earned, lockEarned)
    /\ IS_ORDERLY(disk.gp.orderlyState) =>
          Paid(disk.gp, disk.go, 0, before[1], before[2])
    /\ phase \in {"entered", "authorized"} => ~IS_ORDERLY(gp.orderlyState)
    /\ phase = "done" /\ IS_ORDERLY(gp.orderlyState) =>
          g_updateNV /\ Paid(gp, s_NV.go, 0, earned, lockEarned)

Account == Bounds /\ Synced /\ (late \/ Funded)

\* The ticks between two commands fit under the caps.
LEMMA Caps ==
    /\ MaxIdle \in Nat /\ Cap \in Nat /\ LockCap \in Nat
    /\ MaxIdle <= Cap /\ MaxIdle <= LockCap
<1>1. /\ PreInstall.recoveryTime \in Nat /\ PreInstall.lockoutRecovery \in Nat
      /\ PreInstall.recoveryTime + MaxIdle <= Cap
      /\ PreInstall.lockoutRecovery + MaxIdle <= LockCap
      /\ MaxIdle \in Nat /\ Cap \in Nat /\ LockCap \in Nat
  BY LockoutAssumption
<1>2. QED
  BY <1>1

\* The ages stay within their caps.
LEMMA OrderlyClosed ==
    ASSUME NEW o \in OrderlyData, NEW ticks \in 0 .. MaxIdle
    PROVE  /\ Later(o, ticks) \in OrderlyData
           /\ Relative(o) \in OrderlyData
           /\ Zero \in OrderlyData
<1>1. /\ o.selfHealTimer \in Int /\ o.lockoutTimer \in Int /\ o.time \in 0 .. Cap
      /\ ticks \in Nat /\ Cap \in Nat /\ LockCap \in Nat
  BY Caps DEF OrderlyData
<1>2. /\ Age(o.selfHealTimer + ticks, Cap) \in -Cap .. Cap
      /\ Age(o.lockoutTimer + ticks, LockCap) \in -LockCap .. LockCap
      /\ Age(o.selfHealTimer - o.time, Cap) \in -Cap .. Cap
      /\ Age(o.lockoutTimer - o.time, LockCap) \in -LockCap .. LockCap
      /\ AtMost(o.time + ticks, Cap) \in 0 .. Cap
  BY <1>1 DEF Age, AtMost
<1>3. 0 \in -Cap .. Cap /\ 0 \in -LockCap .. LockCap /\ 0 \in 0 .. Cap
  BY <1>1
<1>4. Later(o, ticks) \in OrderlyData
  BY <1>2, <1>3, ZenonT(60) DEF Later, OrderlyData
<1>5. Relative(o) \in OrderlyData
  BY <1>2, <1>3 DEF Relative, OrderlyData
<1>6. Zero \in OrderlyData
  BY <1>3 DEF Zero, OrderlyData
<1>7. QED
  BY <1>4, <1>5, <1>6

\* Division, with the product on the side of the sum that the provers want.
LEMMA Quotient ==
    ASSUME NEW t \in Nat, NEW r \in Nat, r > 0
    PROVE  /\ t \div r \in Nat /\ t % r \in Nat
           /\ t = (t \div r) * r + (t % r)
OBVIOUS

\* Fewer intervals take no more time.
LEMMA Fewer ==
    ASSUME NEW m \in Nat, NEW n \in Nat, NEW r \in Nat, m <= n
    PROVE  m * r \in Nat /\ n * r \in Nat /\ m * r <= n * r
<1>1. PICK k \in Nat : n = m + k
  <2>1. n - m \in Nat /\ n = m + (n - m)
    OBVIOUS
  <2>2. QED
    BY <2>1
<1>2. n * r = m * r + k * r
  BY <1>1
<1>3. m * r \in Nat /\ n * r \in Nat /\ k * r \in Nat
  BY SMTT(60), Z3T(60)
<1>4. QED
  BY <1>2, <1>3

\* A heal is worth the ticks of the timer it reads, and leaves the rest of them.
LEMMA HealWorth ==
    ASSUME NEW p \in PersistentData, NEW o \in OrderlyData
    PROVE  LET h == HealTries(p, o)
               price == (p.failedTries - h.tries) * p.recoveryTime
           IN /\ h.timer \in -Cap .. Cap
              /\ price \in Nat
              /\ p.failedTries = 0 => price = 0 /\ h.tries = 0
              /\ p.failedTries # 0 /\ o.selfHealTimer >= 0 =>
                    /\ price <= o.selfHealTimer
                    /\ h.tries # 0 => h.timer >= 0 /\ h.timer + price <= o.selfHealTimer
<1> DEFINE h == HealTries(p, o)
           n == p.failedTries
           r == p.recoveryTime
           t == o.selfHealTimer
           price == (n - h.tries) * r
<1> SUFFICES /\ h.timer \in -Cap .. Cap
             /\ price \in Nat
             /\ n = 0 => price = 0 /\ h.tries = 0
             /\ n # 0 /\ t >= 0 =>
                   /\ price <= t
                   /\ h.tries # 0 => h.timer >= 0 /\ h.timer + price <= t
  OBVIOUS
<1>1. n \in Nat /\ r \in Nat /\ t \in -Cap .. Cap /\ Cap \in Nat
  BY Caps DEF PersistentData, OrderlyData
<1>2. CASE n = 0
  <2>1. h.tries = 0 /\ h.timer = t
    BY <1>2 DEF HealTries
  <2> HIDE DEF h
  <2>2. n - h.tries = 0
    BY <1>1, <1>2, <2>1
  <2>3. price = 0
    BY <1>1, <2>2
  <2>4. QED
    BY <1>1, <1>2, <2>1, <2>3, ZenonT(60)
<1>3. CASE n # 0 /\ r = 0
  <2>1. h.tries = 0 /\ h.timer = t
    BY <1>3 DEF HealTries
  <2> HIDE DEF h
  <2>2. price = 0
    BY <1>1, <1>3, <2>1
  <2>3. QED
    BY <1>1, <1>3, <2>1, <2>2, Zenon
<1>4. CASE n # 0 /\ r # 0 /\ t < 0
  <2>1. h.tries = 0 /\ h.timer = 0
    BY <1>4 DEF HealTries
  <2> HIDE DEF h
  <2>2. price \in Nat
    BY <1>1, <2>1
  <2> HIDE DEF price
  <2>3. QED
    BY <1>1, <1>4, <2>1, <2>2, SMTT(60), Z3T(60)
<1>5. CASE n # 0 /\ r # 0 /\ ~(t < 0)
  <2> DEFINE d == t \div r
             m == t % r
  <2>1. d \in Nat /\ m \in Nat /\ t = d * r + m /\ t \in Nat
    <3>1. t \in Nat /\ r > 0
      BY <1>1, <1>5, SMTT(60), Z3T(60)
    <3>2. QED
      BY <1>1, <3>1, Quotient, Zenon
  <2>2. HealTries(p, o) = [tries |-> Less(n, d), timer |-> m, sync |-> d # 0]
    BY <1>1, <1>5 DEF HealTries
  <2> HIDE DEF d, m
  <2>3. h.tries = Less(n, d) /\ h.timer = m
    BY <2>2
  <2> HIDE DEF h
  <2>4. /\ n - h.tries \in Nat /\ n - h.tries <= d
        /\ h.tries # 0 => n - h.tries = d
    BY <1>1, <2>1, <2>3 DEF Less
  <2>5. price \in Nat /\ d * r \in Nat /\ price <= d * r
    BY <1>1, <2>1, <2>4, Fewer
  <2>6. h.tries # 0 => price = d * r
    BY <2>4
  <2> HIDE DEF price
  <2>7. QED
    BY <1>1, <1>5, <2>1, <2>3, <2>5, <2>6
<1>6. QED
  BY <1>2, <1>3, <1>4, <1>5, ZenonT(60)

\* What DASelfHeal does to the marks, and the image with it.
LEMMA HealMarks ==
    ASSUME NEW p \in PersistentData, NEW o \in OrderlyData
    PROVE  LET h == DASelfHeal(p, o)
           IN /\ h.gp.failedTries = HealTries(p, o).tries
              /\ h.gp.orderlyState = p.orderlyState
              /\ h.gp.lockOutAuthEnabled <=> (p.lockOutAuthEnabled \/ HealsLockout(p, o))
              /\ h.go.selfHealTimer = HealTries(p, o).timer
              /\ h.go.lockoutTimer = o.lockoutTimer
              /\ h.go \in OrderlyData
              /\ "orderlyState" \notin h.fields
              /\ "lockOutAuthEnabled" \in h.fields <=> HealsLockout(p, o)
<1> DEFINE heals == HealsLockout(p, o)
           tries == HealTries(p, o).tries
           timer == HealTries(p, o).timer
           sync == HealTries(p, o).sync
           h == DASelfHeal(p, o)
<1> SUFFICES /\ h.gp.failedTries = tries
             /\ h.gp.orderlyState = p.orderlyState
             /\ h.gp.lockOutAuthEnabled <=> (p.lockOutAuthEnabled \/ heals)
             /\ h.go.selfHealTimer = timer
             /\ h.go.lockoutTimer = o.lockoutTimer
             /\ h.go \in OrderlyData
             /\ "orderlyState" \notin h.fields
             /\ "lockOutAuthEnabled" \in h.fields <=> heals
  OBVIOUS
<1>1. timer \in -Cap .. Cap
  BY HealWorth
<1>2. /\ h.gp = [p EXCEPT !.failedTries = tries,
                          !.lockOutAuthEnabled = p.lockOutAuthEnabled \/ heals]
      /\ h.go = [o EXCEPT !.selfHealTimer = timer]
      /\ h.fields = (IF sync THEN {"failedTries"} ELSE {})
                    \cup (IF heals THEN {"lockOutAuthEnabled"} ELSE {})
  BY DEF DASelfHeal, HealedGp, HealedFields
<1> HIDE DEF heals, tries, timer, sync, h
<1>3. /\ h.gp.failedTries = tries
      /\ h.gp.orderlyState = p.orderlyState
      /\ h.gp.lockOutAuthEnabled <=> (p.lockOutAuthEnabled \/ heals)
  BY <1>2, Zenon DEF PersistentData
<1>4. /\ h.go.selfHealTimer = timer
      /\ h.go.lockoutTimer = o.lockoutTimer
      /\ h.go \in OrderlyData
  BY <1>1, <1>2, Zenon DEF OrderlyData
<1>5. /\ "orderlyState" \notin h.fields
      /\ "lockOutAuthEnabled" \in h.fields <=> heals
  BY <1>2
<1>6. QED
  BY <1>3, <1>4, <1>5, ZenonT(60)

\* Timers that are paid for heal no more than was paid for, and stay so.
LEMMA Payment ==
    ASSUME NEW p \in PersistentData, NEW o \in OrderlyData,
           NEW t \in -1 .. Cap, NEW l \in -1 .. LockCap, Spend(p, o, t, l)
    PROVE  /\ earned' \in -1 .. Cap /\ lockEarned' \in -1 .. LockCap
           /\ t >= 0 /\ l >= 0 /\ Paid(p, o, 0, t, l) =>
                 /\ earned' >= 0 /\ lockEarned' >= 0
                 /\ Paid(DASelfHeal(p, o).gp, DASelfHeal(p, o).go, 0,
                         earned', lockEarned')
<1> DEFINE h == HealTries(p, o)
           price == (p.failedTries - h.tries) * p.recoveryTime
           heals == HealsLockout(p, o)
           hgp == DASelfHeal(p, o).gp
           hgo == DASelfHeal(p, o).go
<1>1. /\ h.timer \in -Cap .. Cap
      /\ price \in Nat
      /\ p.failedTries = 0 => price = 0 /\ h.tries = 0
      /\ p.failedTries # 0 /\ o.selfHealTimer >= 0 =>
            /\ price <= o.selfHealTimer
            /\ h.tries # 0 => h.timer >= 0 /\ h.timer + price <= o.selfHealTimer
  BY HealWorth
<1>2. /\ earned' = Rest(t, price, h.tries = 0)
      /\ lockEarned' = IF heals THEN Rest(l, p.lockoutRecovery, TRUE) ELSE l
  BY ZenonT(60) DEF Spend
<1>3. /\ hgp.failedTries = h.tries
      /\ hgp.lockOutAuthEnabled <=> (p.lockOutAuthEnabled \/ heals)
      /\ hgo.selfHealTimer = h.timer
      /\ hgo.lockoutTimer = o.lockoutTimer
      /\ hgo \in OrderlyData
  BY HealMarks
<1>4. heals => /\ ~p.lockOutAuthEnabled
               /\ o.lockoutTimer < 0 \/ o.lockoutTimer >= p.lockoutRecovery
  BY DEF HealsLockout
<1>5. h.tries \in 0 .. p.failedTries
  BY HealTriesBound DEF OrderlyData, Times
<1>6. /\ o.selfHealTimer \in -Cap .. Cap /\ o.lockoutTimer \in -LockCap .. LockCap
      /\ p.lockoutRecovery \in Nat /\ p.failedTries \in Nat
      /\ Cap \in Nat /\ LockCap \in Nat
  BY Caps DEF OrderlyData, PersistentData
<1> HIDE DEF h, price, heals, hgp, hgo
<1>7. earned' \in -1 .. Cap
  BY <1>1, <1>2, <1>6 DEF Rest
<1>8. lockEarned' \in -1 .. LockCap
  BY <1>2, <1>6 DEF Rest
<1>9. ASSUME t >= 0, l >= 0, Paid(p, o, 0, t, l)
      PROVE  /\ earned' >= 0 /\ lockEarned' >= 0
             /\ Paid(hgp, hgo, 0, earned', lockEarned')
  <2>1. /\ p.failedTries # 0 => o.selfHealTimer >= 0 /\ o.selfHealTimer <= t
        /\ ~p.lockOutAuthEnabled => o.lockoutTimer >= 0 /\ o.lockoutTimer <= l
    BY <1>6, <1>9 DEF Paid, Age, AtMost
  <2>2. price <= t
    BY <1>1, <1>6, <1>9, <2>1
  <2>3. earned' = IF h.tries = 0 THEN 0 ELSE t - price
    BY <1>1, <1>2, <2>2 DEF Rest
  <2>4. heals => lockEarned' = 0
    BY <1>2, <1>4, <1>6, <2>1 DEF Rest
  <2>5. ~heals => lockEarned' = l
    BY <1>2
  <2>6. earned' >= 0 /\ lockEarned' >= 0
    BY <1>1, <1>9, <2>2, <2>3, <2>4, <2>5, SMTT(60), Z3T(60)
  <2>7. h.tries # 0 => h.timer >= 0 /\ h.timer <= earned'
    BY <1>1, <1>5, <1>6, <2>1, <2>3
  <2>8. hgp.failedTries # 0 =>
           hgo.selfHealTimer >= 0 /\ Age(hgo.selfHealTimer + 0, Cap) <= earned'
    BY <1>1, <1>3, <1>6, <2>7, SMTT(60), Z3T(60) DEF Age, AtMost
  <2>9. ~hgp.lockOutAuthEnabled =>
           hgo.lockoutTimer >= 0 /\ Age(hgo.lockoutTimer + 0, LockCap) <= lockEarned'
    <3>1. ~hgp.lockOutAuthEnabled => ~p.lockOutAuthEnabled /\ lockEarned' = l
      BY <1>3, <2>5, Zenon
    <3>2. QED
      BY <1>3, <1>6, <2>1, <3>1 DEF Age, AtMost
  <2>10. QED
    BY <2>6, <2>8, <2>9, Zenon DEF Paid
<1>10. QED
  BY <1>7, <1>8, <1>9, Zenon DEF hgp, hgo

\* Bringing the timers up to date claims nothing new.
LEMMA PaidLater ==
    ASSUME NEW o \in OrderlyData, NEW ticks \in 0 .. MaxIdle,
           NEW e \in Int, NEW l \in Int, Paid(gp, o, ticks, e, l)
    PROVE  Paid(gp, Later(o, ticks), 0, e, l)
<1>1. /\ o.selfHealTimer \in Int /\ o.lockoutTimer \in Int /\ ticks \in Nat
      /\ Cap \in Nat /\ LockCap \in Nat
  BY Caps DEF OrderlyData
<1>2. gp.failedTries # 0 => Later(o, ticks).selfHealTimer = Age(o.selfHealTimer + ticks, Cap)
  BY DEF Later
<1>3. ~gp.lockOutAuthEnabled =>
         Later(o, ticks).lockoutTimer = Age(o.lockoutTimer + ticks, LockCap)
  BY ZenonT(60) DEF Later
<1>4. gp.failedTries # 0 =>
         /\ Later(o, ticks).selfHealTimer >= 0
         /\ Age(Later(o, ticks).selfHealTimer + 0, Cap) <= e
  BY <1>1, <1>2 DEF Paid, Age, AtMost
<1>5. ~gp.lockOutAuthEnabled =>
         /\ Later(o, ticks).lockoutTimer >= 0
         /\ Age(Later(o, ticks).lockoutTimer + 0, LockCap) <= l
  BY <1>1, <1>3 DEF Paid, Age, AtMost
<1>6. QED
  BY <1>4, <1>5 DEF Paid

\* A manufactured TPM has nothing to heal.
LEMMA AccountInit == Init => Account
<1> SUFFICES ASSUME Init PROVE Account
  OBVIOUS
<1>1. Zero \in OrderlyData /\ Cap \in Nat /\ LockCap \in Nat /\ MaxIdle \in Nat
  BY Caps, OrderlyClosed, SMTT(60), Z3T(60) DEF Zero, OrderlyData
<1>2. /\ gp.failedTries = 0 /\ gp.lockOutAuthEnabled /\ gp.orderlyState = "NONE"
      /\ go = Zero /\ s_NV.gp = gp /\ s_NV.go = Zero
      /\ disk.gp = gp /\ disk.go = Zero
      /\ before = <<earned, lockEarned>> /\ earned = 0 /\ lockEarned = 0
      /\ elapsed = 0 /\ phase = "init"
  BY DEF Init, ledger
<1>3. before \in (-1 .. Cap) \X (-1 .. LockCap) /\ before[1] = 0 /\ before[2] = 0
  BY <1>1, <1>2
<1>4. Bounds
  <2>1. elapsed \in 0 .. MaxIdle /\ earned \in -1 .. Cap /\ lockEarned \in -1 .. LockCap
    BY <1>1, <1>2
  <2>2. g_clearOrderly \in BOOLEAN /\ outcome \in Outcomes /\ late \in BOOLEAN
    BY Zenon DEF Init, Outcomes
  <2>3. QED
    BY <1>1, <1>2, <1>3, <2>1, <2>2, Zenon DEF Bounds
<1>5. Synced
  BY <1>2, ZenonT(60) DEF Synced, ledger
<1>6. Funded
  BY <1>2, <1>3 DEF Funded, Paid, IS_ORDERLY
<1>7. QED
  BY <1>4, <1>5, <1>6, ZenonT(60) DEF Account

\* A tick ages the timers and adds to what was earned, up to the same cap.
LEMMA AccountTick == Inv /\ Account /\ Tick => Account'
<1> SUFFICES ASSUME Inv, Account, Tick PROVE Account'
  BY ZenonT(60)
<1>1. /\ Cap \in Nat /\ LockCap \in Nat /\ MaxIdle \in Nat
      /\ earned \in -1 .. Cap /\ lockEarned \in -1 .. LockCap
      /\ elapsed \in 0 .. MaxIdle /\ go \in OrderlyData
      /\ before = <<earned, lockEarned>>
  BY Caps, ZenonT(60) DEF Account, Bounds, Synced, ledger, Tick
<1>2. /\ earned' = IF gp.failedTries = 0 THEN earned ELSE AtMost(earned + 1, Cap)
      /\ lockEarned' = IF gp.lockOutAuthEnabled THEN lockEarned
                       ELSE AtMost(lockEarned + 1, LockCap)
      /\ before' = <<earned', lockEarned'>>
      /\ elapsed' = elapsed + 1 /\ elapsed' \in 0 .. MaxIdle
      /\ phase \in {"init", "ready"}
  BY <1>1 DEF Tick, ledger
<1>3. /\ gp' = gp /\ go' = go /\ s_NV' = s_NV /\ disk' = disk /\ phase' = phase
      /\ g_updateNV' = g_updateNV /\ g_clearOrderly' = g_clearOrderly
      /\ outcome' = outcome /\ late' = late
  BY DEF Tick, flags
<1>4. /\ earned' \in -1 .. Cap /\ lockEarned' \in -1 .. LockCap
      /\ earned' >= earned /\ lockEarned' >= lockEarned
  BY <1>1, <1>2 DEF AtMost
<1>5. /\ before' \in (-1 .. Cap) \X (-1 .. LockCap)
      /\ before'[1] = earned' /\ before'[2] = lockEarned'
      /\ before[1] = earned /\ before[2] = lockEarned
  BY <1>1, <1>2, <1>4, ZenonT(60)
<1>6. Bounds'
  BY <1>2, <1>3, <1>4, <1>5, ZenonT(60) DEF Account, Bounds
<1>7. Synced'
  BY <1>2, <1>3, ZenonT(60) DEF Account, Synced, ledger
<1>8. ASSUME Funded PROVE Funded'
  <2>1. Base' = Base /\ Base \in OrderlyData
    BY <1>1, <1>3, OrderlyClosed DEF Base
  <2>2. /\ Base.selfHealTimer \in Int /\ Base.lockoutTimer \in Int
    BY <1>1, <2>1, SMTT(60), Z3T(60) DEF OrderlyData
  <2>3. Paid(gp, Base, elapsed, earned, lockEarned)
    BY <1>8, ZenonT(60) DEF Funded
  <2> HIDE DEF Base
  <2>4. /\ gp.failedTries # 0 =>
              Base.selfHealTimer >= 0 /\ Age(Base.selfHealTimer + elapsed', Cap) <= earned'
        /\ ~gp.lockOutAuthEnabled =>
              Base.lockoutTimer >= 0 /\ Age(Base.lockoutTimer + elapsed', LockCap) <= lockEarned'
    BY <1>1, <1>2, <2>2, <2>3 DEF Paid, Age, AtMost
  <2>5. Paid(gp', Base', elapsed', earned', lockEarned')
    BY <1>3, <2>1, <2>4, ZenonT(60) DEF Paid
  <2>6. IS_ORDERLY(disk.gp.orderlyState) =>
           Paid(disk'.gp, disk'.go, 0, before'[1], before'[2])
    <3>1. disk.go.selfHealTimer \in Int /\ disk.go.lockoutTimer \in Int
      BY <1>1, SMTT(60), Z3T(60) DEF Account, Bounds, OrderlyData
    <3>2. IS_ORDERLY(disk.gp.orderlyState) => Paid(disk.gp, disk.go, 0, earned, lockEarned)
      BY <1>5, <1>8, ZenonT(60) DEF Funded
    <3>3. QED
      BY <1>1, <1>3, <1>4, <1>5, <3>1, <3>2 DEF Paid, Age, AtMost
  <2>7. earned' >= 0 /\ lockEarned' >= 0
    BY <1>1, <1>4, <1>8 DEF Funded
  <2>8. QED
    BY <1>2, <1>3, <1>5, <2>5, <2>6, <2>7, ZenonT(60) DEF Funded
<1>9. QED
  BY <1>3, <1>6, <1>7, <1>8 DEF Account

\* A power loss gives back the ticks as they were when storage was written.
LEMMA AccountPowerCycle == Inv /\ Account /\ PowerCycle => Account'
<1> SUFFICES ASSUME Inv, Account, PowerCycle PROVE Account'
  OBVIOUS
<1>1. /\ Cap \in Nat /\ LockCap \in Nat /\ MaxIdle \in Nat
      /\ before \in (-1 .. Cap) \X (-1 .. LockCap)
      /\ disk.go \in OrderlyData
  BY Caps DEF Account, Bounds
<1>2. /\ gp' = disk.gp /\ go' = disk.go /\ s_NV' = disk /\ disk' = disk
      /\ g_updateNV' = FALSE /\ g_clearOrderly' = FALSE /\ elapsed' = 0
      /\ phase' = "init" /\ outcome' = "none" /\ late' = late
      /\ earned' = before[1] /\ lockEarned' = before[2]
      /\ before' = <<earned', lockEarned'>>
  BY DEF PowerCycle, ledger
<1>3. before' = before /\ earned' \in -1 .. Cap /\ lockEarned' \in -1 .. LockCap
  BY <1>1, <1>2
<1>4. Bounds'
  <2>1. elapsed' \in 0 .. MaxIdle
    BY <1>1, <1>2
  <2>2. g_clearOrderly' \in BOOLEAN /\ outcome' \in Outcomes /\ late' \in BOOLEAN
    BY <1>2, Zenon DEF Account, Bounds, Outcomes
  <2>3. QED
    BY <1>1, <1>2, <1>3, <2>1, <2>2, Zenon DEF Bounds
<1>5. Synced'
  BY <1>2, ZenonT(60) DEF Synced, ledger
<1>6. ASSUME Funded PROVE Funded'
  <2>1. before[1] >= 0 /\ before[2] >= 0
    BY <1>6 DEF Funded
  <2>2. Paid(gp', Base', elapsed', earned', lockEarned')
    <3>1. CASE IS_ORDERLY(disk.gp.orderlyState)
      BY <1>2, <1>6, <3>1, ZenonT(60) DEF Funded, Base
    <3>2. CASE ~IS_ORDERLY(disk.gp.orderlyState)
      <4>1. Base' = Zero /\ Zero.selfHealTimer = 0 /\ Zero.lockoutTimer = 0
        BY <1>2, <3>2 DEF Base, Zero
      <4>2. /\ Age(0 + 0, Cap) = 0
            /\ Age(0 + 0, LockCap) = 0
        BY <1>1 DEF Age, AtMost
      <4>3. QED
        BY <1>2, <2>1, <4>1, <4>2, SMTT(60), Z3T(60) DEF Paid
    <3>3. QED
      BY <3>1, <3>2, ZenonT(60)
  <2>3. QED
    BY <1>2, <1>3, <1>6, <2>2, ZenonT(60) DEF Funded
<1>7. QED
  BY <1>2, <1>4, <1>5, <1>6 DEF Account

\* A refused startup takes the mark off, which does not make the state orderly.
LEMMA AccountStartupRefused == Inv /\ Account /\ StartupRefused => Account'
<1> SUFFICES ASSUME Inv, Account, StartupRefused PROVE Account'
  OBVIOUS
<1>1. /\ go' = go /\ s_NV' = s_NV /\ disk' = disk /\ phase = "init" /\ phase' = "init"
      /\ g_updateNV' = g_updateNV /\ g_clearOrderly' = g_clearOrderly
      /\ elapsed' = elapsed /\ outcome' = outcome /\ late' = late
      /\ earned' = earned /\ lockEarned' = lockEarned /\ before' = before
      /\ gp' = [gp EXCEPT !.orderlyState = prevOrderlyState]
  BY DEF StartupRefused, flags
<1>2. /\ gp'.failedTries = gp.failedTries
      /\ gp'.lockOutAuthEnabled <=> gp.lockOutAuthEnabled
      /\ gp'.orderlyState = prevOrderlyState
  BY <1>1, Zenon DEF Inv, Types, PersistentData
<1>3. IS_ORDERLY(gp'.orderlyState) <=> IS_ORDERLY(gp.orderlyState)
  BY <1>2 DEF IS_ORDERLY, prevOrderlyState
<1>4. Bounds'
  BY <1>1 DEF Account, Bounds
<1>5. Synced'
  BY <1>1, <1>2 DEF Account, Synced, ledger
<1>6. ASSUME Funded PROVE Funded'
  <2>1. Base' = Base
    BY <1>1, <1>3 DEF Base
  <2>2. Paid(gp', Base', elapsed', earned', lockEarned')
    BY <1>1, <1>2, <1>6, <2>1 DEF Funded, Paid
  <2>3. QED
    BY <1>1, <1>6, <2>2 DEF Funded
<1>7. QED
  BY <1>1, <1>4, <1>5, <1>6 DEF Account

\* What NV_SYNC_PERSISTENT writes of the marks.
LEMMA SyncMarks ==
    ASSUME gp \in PersistentData, gp' \in PersistentData,
           s_NV.gp \in PersistentData, NEW fields
    PROVE  LET p == NV_SYNC_PERSISTENT(fields)
           IN /\ p.orderlyState = IF "orderlyState" \in fields
                                  THEN gp'.orderlyState ELSE s_NV.gp.orderlyState
              /\ p.lockOutAuthEnabled <=> IF "lockOutAuthEnabled" \in fields
                                          THEN gp'.lockOutAuthEnabled
                                          ELSE s_NV.gp.lockOutAuthEnabled
<1>1. DOMAIN gp = {"failedTries", "maxTries", "recoveryTime", "lockoutRecovery",
                   "lockOutAuthEnabled", "orderlyState"}
  BY DEF PersistentData
<1>2. QED
  BY <1>1, Zenon DEF NV_SYNC_PERSISTENT

\* A command heals before it does anything else, and pays for it.
LEMMA AccountTimeUpdate == Inv /\ Inv' /\ Account /\ TimeUpdate => Account'
<1> SUFFICES ASSUME Inv, Inv', Account, TimeUpdate PROVE Account'
  BY ZenonT(60)
<1> DEFINE o == Later(go, elapsed)
           h == DASelfHeal(gp, o)
<1>1. /\ gp \in PersistentData /\ gp' \in PersistentData /\ s_NV.gp \in PersistentData
      /\ go \in OrderlyData /\ elapsed \in 0 .. MaxIdle
      /\ earned \in -1 .. Cap /\ lockEarned \in -1 .. LockCap
      /\ phase = "ready" /\ ~g_updateNV
  BY DEF Inv, Types, Copies, Account, Bounds, TimeUpdate
<1>2. o \in OrderlyData /\ Relative(go) \in OrderlyData
  BY <1>1, OrderlyClosed, ZenonT(60)
<1>3. /\ gp' = h.gp /\ go' = h.go /\ Spend(gp, o, earned, lockEarned)
      /\ disk' = disk /\ phase' = "entered" /\ elapsed' = 0
      /\ g_clearOrderly' = g_clearOrderly /\ outcome' = outcome /\ before' = before
      /\ g_updateNV' = (h.fields # {})
      /\ late' = (late \/ IS_ORDERLY(gp.orderlyState))
  BY ZenonT(60) DEF TimeUpdate
<1>4. PICK times \in TimeClockUpdate :
         s_NV' = [gp |-> NV_SYNC_PERSISTENT(h.fields), go |-> times]
  BY ZenonT(60) DEF TimeUpdate
<1>5. times \in OrderlyData
  BY <1>2, ZenonT(60) DEF TimeClockUpdate, Account, Bounds
<1>6. /\ h.gp.orderlyState = gp.orderlyState
      /\ h.gp.lockOutAuthEnabled <=> (gp.lockOutAuthEnabled \/ HealsLockout(gp, o))
      /\ h.go \in OrderlyData
      /\ "orderlyState" \notin h.fields
      /\ "lockOutAuthEnabled" \in h.fields <=> HealsLockout(gp, o)
  BY <1>1, <1>2, HealMarks, ZenonT(60)
<1>7. /\ earned' \in -1 .. Cap /\ lockEarned' \in -1 .. LockCap
      /\ earned >= 0 /\ lockEarned >= 0 /\ Paid(gp, o, 0, earned, lockEarned) =>
            /\ earned' >= 0 /\ lockEarned' >= 0
            /\ Paid(h.gp, h.go, 0, earned', lockEarned')
  BY <1>1, <1>2, <1>3, Payment, ZenonT(60)
<1> HIDE DEF o, h
<1>8. /\ s_NV'.go = times
      /\ s_NV'.gp.orderlyState = s_NV.gp.orderlyState
      /\ s_NV'.gp.lockOutAuthEnabled <=> IF "lockOutAuthEnabled" \in h.fields
                                         THEN gp'.lockOutAuthEnabled
                                         ELSE s_NV.gp.lockOutAuthEnabled
  BY <1>1, <1>4, <1>6, SyncMarks
<1>9. Bounds'
  <2>1. elapsed' \in 0 .. MaxIdle
    BY <1>3, Caps
  <2>2. late' \in BOOLEAN /\ outcome' \in Outcomes /\ g_clearOrderly' \in BOOLEAN
    BY <1>3, Zenon DEF Account, Bounds
  <2>3. disk'.go \in OrderlyData /\ before' \in (-1 .. Cap) \X (-1 .. LockCap)
    BY <1>3, ZenonT(60) DEF Account, Bounds
  <2>4. QED
    BY <1>3, <1>5, <1>6, <1>7, <1>8, <2>1, <2>2, <2>3, ZenonT(60) DEF Bounds
<1>10. Synced'
  <2>1. s_NV'.gp.orderlyState = gp'.orderlyState
    BY <1>1, <1>3, <1>6, <1>8 DEF Account, Synced
  <2>2. gp'.lockOutAuthEnabled => s_NV'.gp.lockOutAuthEnabled
    BY <1>3, <1>6, <1>8, Zenon DEF Account, Synced
  <2>3. ~g_updateNV' => "lockOutAuthEnabled" \notin h.fields
    BY <1>3, Zenon
  <2>4. ~g_updateNV' => /\ disk'.gp.orderlyState = s_NV'.gp.orderlyState
                        /\ s_NV'.gp.lockOutAuthEnabled => disk'.gp.lockOutAuthEnabled
    BY <1>1, <1>3, <1>8, <2>3, ZenonT(60) DEF Account, Synced
  <2>5. QED
    BY <1>3, <2>1, <2>2, <2>4, ZenonT(60) DEF Synced
<1>11. ASSUME ~late' PROVE Funded'
  <2>1. ~late /\ ~IS_ORDERLY(gp.orderlyState)
    BY <1>3, <1>11, Zenon
  <2>2. Funded
    BY <2>1, ZenonT(60) DEF Account
  <2>3. /\ earned >= 0 /\ lockEarned >= 0 /\ before[1] >= 0 /\ before[2] >= 0
        /\ Paid(gp, go, elapsed, earned, lockEarned)
    BY <1>1, <2>2, ZenonT(60) DEF Funded, Base
  <2>4. Paid(gp, o, 0, earned, lockEarned)
    BY <1>1, <2>3, PaidLater, SMTT(60), Z3T(60) DEF o
  <2>5. earned' >= 0 /\ lockEarned' >= 0 /\ Paid(gp', go', elapsed', earned', lockEarned')
    BY <1>3, <1>7, <2>3, <2>4, ZenonT(60)
  <2>6. Base' = go' /\ ~IS_ORDERLY(gp'.orderlyState)
    BY <1>3, <1>6, <2>1, ZenonT(60) DEF Base
  <2>7. IS_ORDERLY(disk'.gp.orderlyState) =>
           Paid(disk'.gp, disk'.go, 0, before'[1], before'[2])
    BY <1>3, <2>2, ZenonT(60) DEF Funded
  <2>8. QED
    BY <1>3, <2>3, <2>5, <2>6, <2>7 DEF Funded
<1>12. QED
  BY <1>9, <1>10, <1>11 DEF Account

\* The timers that a startup heals from: paid for by the ticks before an orderly
\* shutdown and since power came back, or by the latter alone.
LEMMA StartupPaid ==
    ASSUME Inv, Account, phase = "init",
           NEW p \in PersistentData,
           ~(Compensates /\ gp.orderlyState = "DA_USED") => p.failedTries = gp.failedTries,
           ~p.lockOutAuthEnabled => ~gp.lockOutAuthEnabled
    PROVE  LET t == IF Compensates /\ gp.orderlyState = "DA_USED" THEN elapsed ELSE earned
           IN /\ StartupTimers \in OrderlyData
              /\ t \in -1 .. Cap
              /\ Funded => t >= 0 /\ Paid(p, StartupTimers, 0, t, lockEarned)
<1> DEFINE t == IF Compensates /\ gp.orderlyState = "DA_USED" THEN elapsed ELSE earned
<1> SUFFICES /\ StartupTimers \in OrderlyData
             /\ t \in -1 .. Cap
             /\ Funded => t >= 0 /\ Paid(p, StartupTimers, 0, t, lockEarned)
  BY ZenonT(60)
<1>1. /\ go \in OrderlyData /\ elapsed \in 0 .. MaxIdle /\ earned \in -1 .. Cap
      /\ lockEarned \in -1 .. LockCap /\ gp \in PersistentData
      /\ Cap \in Nat /\ LockCap \in Nat /\ MaxIdle \in Nat
      /\ MaxIdle <= Cap /\ MaxIdle <= LockCap
  BY Caps, ZenonT(60) DEF Inv, Types, Account, Bounds
<1>2. elapsed \in -Cap .. Cap /\ elapsed \in -LockCap .. LockCap /\ elapsed \in -1 .. Cap
  BY <1>1
<1>3. t \in -1 .. Cap
  BY <1>1, <1>2, ZenonT(60)
<1>4. CASE IS_ORDERLY(gp.orderlyState)
  <2> DEFINE o == Later(go, elapsed)
  <2>1. o \in OrderlyData
    BY <1>1, OrderlyClosed
  <2>2. StartupTimers = [o EXCEPT !.time = 0]
    BY <1>4 DEF StartupTimers
  <2> HIDE DEF o
  <2>3. /\ StartupTimers \in OrderlyData
        /\ StartupTimers.selfHealTimer = o.selfHealTimer
        /\ StartupTimers.lockoutTimer = o.lockoutTimer
    BY <1>1, <2>1, <2>2 DEF OrderlyData
  <2>4. ~(Compensates /\ gp.orderlyState = "DA_USED")
    BY <1>4, ZenonT(60) DEF IS_ORDERLY
  <2>5. t = earned /\ p.failedTries = gp.failedTries
    BY <2>4
  <2>6. ASSUME Funded PROVE t >= 0 /\ Paid(p, StartupTimers, 0, t, lockEarned)
    <3>1. earned >= 0 /\ Paid(gp, go, elapsed, earned, lockEarned)
      BY <1>4, <2>6, ZenonT(60) DEF Funded, Base
    <3>2. Paid(gp, o, 0, earned, lockEarned)
      BY <1>1, <3>1, PaidLater, SMTT(60), Z3T(60) DEF o
    <3>3. QED
      BY <2>3, <2>5, <3>1, <3>2, Zenon DEF Paid
  <2>7. QED
    BY <1>3, <2>3, <2>6, ZenonT(60)
<1>5. CASE ~IS_ORDERLY(gp.orderlyState)
  <2>1. StartupTimers = [selfHealTimer |-> elapsed, lockoutTimer |-> elapsed, time |-> 0]
    BY <1>5, ZenonT(60) DEF StartupTimers
  <2>2. /\ StartupTimers \in OrderlyData
        /\ StartupTimers.selfHealTimer = elapsed
        /\ StartupTimers.lockoutTimer = elapsed
    BY <1>1, <1>2, <2>1 DEF OrderlyData
  <2>3. ASSUME Funded PROVE t >= 0 /\ Paid(p, StartupTimers, 0, t, lockEarned)
    <3>1. /\ earned >= 0 /\ Paid(gp, Zero, elapsed, earned, lockEarned)
          /\ Zero.selfHealTimer = 0 /\ Zero.lockoutTimer = 0
      BY <1>5, <2>3, ZenonT(60) DEF Funded, Base, Zero
    <3>2. /\ gp.failedTries # 0 => elapsed <= earned
          /\ ~gp.lockOutAuthEnabled => elapsed <= lockEarned
      BY <1>1, <3>1, SMTT(60), Z3T(60) DEF Paid, Age, AtMost
    <3>3. t >= 0 /\ (p.failedTries # 0 => elapsed <= t)
      BY <1>1, <3>1, <3>2
    <3>4. Age(elapsed + 0, Cap) = elapsed /\ Age(elapsed + 0, LockCap) = elapsed
      BY <1>1 DEF Age, AtMost
    <3>5. elapsed >= 0
      BY <1>1
    <3> HIDE DEF t
    <3>6. QED
      BY <2>2, <3>2, <3>3, <3>4, <3>5, Zenon DEF Paid
  <2>4. QED
    BY <1>3, <2>2, <2>3
<1>6. QED
  BY <1>4, <1>5, ZenonT(60)

\* A startup heals, and pays for it.
LEMMA AccountStartup == Inv /\ Inv' /\ Account /\ TPM2_Startup => Account'
<1> SUFFICES ASSUME Inv, Inv', Account, TPM2_Startup PROVE Account'
  OBVIOUS
<1> DEFINE lost == Compensates /\ gp.orderlyState = "DA_USED"
           enabled == gp.lockOutAuthEnabled \/ gp.lockoutRecovery = 0
           tries == IF lost THEN gp.failedTries + 1 ELSE gp.failedTries
           p == [gp EXCEPT !.lockOutAuthEnabled = enabled, !.failedTries = tries,
                           !.orderlyState = "NONE"]
           h == DASelfHeal(p, StartupTimers)
           fields == h.fields \cup {"orderlyState"}
                         \cup (IF gp.lockoutRecovery = 0 THEN {"lockOutAuthEnabled"} ELSE {})
                         \cup (IF Compensates THEN {"failedTries"} ELSE {})
           t == IF lost THEN elapsed ELSE earned
           heals == HealsLockout(p, StartupTimers)
<1>1. /\ gp \in PersistentData /\ gp' \in PersistentData /\ s_NV.gp \in PersistentData
      /\ lockEarned \in -1 .. LockCap /\ phase = "init"
  BY DEF Inv, Types, Account, Bounds, TPM2_Startup
<1>2. /\ gp' = h.gp /\ go' = h.go /\ Spend(p, StartupTimers, t, lockEarned)
      /\ s_NV' = [gp |-> NV_SYNC_PERSISTENT(fields), go |-> Zero]
  BY DEF TPM2_Startup, DAStartup
<1>3. /\ disk' = disk /\ phase' = "done" /\ elapsed' = 0 /\ outcome' = outcome
      /\ g_updateNV' = TRUE /\ before' = before /\ late' = late
      /\ g_clearOrderly' = g_clearOrderly
  BY DEF TPM2_Startup
<1>4. tries \in Nat /\ (~lost => tries = gp.failedTries)
  BY <1>1 DEF PersistentData
<1>5. enabled \in BOOLEAN
  OBVIOUS
<1>6. /\ "orderlyState" \in fields
      /\ "lockOutAuthEnabled" \in fields <=>
            ("lockOutAuthEnabled" \in h.fields \/ gp.lockoutRecovery = 0)
  OBVIOUS
<1>7. enabled <=> (gp.lockOutAuthEnabled \/ gp.lockoutRecovery = 0)
  OBVIOUS
<1> HIDE DEF enabled, tries, fields
<1>8. /\ p \in PersistentData /\ p.failedTries = tries /\ p.orderlyState = "NONE"
      /\ p.lockOutAuthEnabled <=> enabled
  BY <1>1, <1>4, <1>5, ZenonT(60) DEF PersistentData, OrderlyStates
<1> HIDE DEF p, h, heals
<1>9. /\ StartupTimers \in OrderlyData
      /\ t \in -1 .. Cap
      /\ Funded => t >= 0 /\ Paid(p, StartupTimers, 0, t, lockEarned)
  <2>1. ~lost => p.failedTries = gp.failedTries
    BY <1>4, <1>8
  <2>2. ~p.lockOutAuthEnabled => ~gp.lockOutAuthEnabled
    BY <1>7, <1>8, Zenon
  <2>3. QED
    BY <1>1, <1>8, <2>1, <2>2, StartupPaid
<1> HIDE DEF lost, t
<1>10. /\ h.gp.orderlyState = "NONE"
       /\ h.gp.lockOutAuthEnabled <=> (p.lockOutAuthEnabled \/ heals)
       /\ h.go \in OrderlyData
       /\ "lockOutAuthEnabled" \in h.fields <=> heals
  BY <1>8, <1>9, HealMarks, ZenonT(60) DEF h, heals
<1>11. /\ earned' \in -1 .. Cap /\ lockEarned' \in -1 .. LockCap
       /\ t >= 0 /\ lockEarned >= 0 /\ Paid(p, StartupTimers, 0, t, lockEarned) =>
            /\ earned' >= 0 /\ lockEarned' >= 0
            /\ Paid(h.gp, h.go, 0, earned', lockEarned')
  BY <1>1, <1>2, <1>8, <1>9, Payment, ZenonT(60) DEF h
<1>12. /\ s_NV'.go = Zero
       /\ s_NV'.gp.orderlyState = gp'.orderlyState
       /\ s_NV'.gp.lockOutAuthEnabled <=> IF "lockOutAuthEnabled" \in fields
                                          THEN gp'.lockOutAuthEnabled
                                          ELSE s_NV.gp.lockOutAuthEnabled
  BY <1>1, <1>2, <1>6, SyncMarks
<1>13. Bounds'
  <2>1. elapsed' \in 0 .. MaxIdle /\ Zero \in OrderlyData
    BY <1>3, <1>9, Caps, OrderlyClosed
  <2>2. late' \in BOOLEAN /\ outcome' \in Outcomes /\ g_clearOrderly' \in BOOLEAN
    BY <1>3, Zenon DEF Account, Bounds
  <2>3. disk'.go \in OrderlyData /\ before' \in (-1 .. Cap) \X (-1 .. LockCap)
    BY <1>3, ZenonT(60) DEF Account, Bounds
  <2>4. QED
    BY <1>2, <1>10, <1>11, <1>12, <2>1, <2>2, <2>3, Zenon DEF Bounds
<1>14. Synced'
  <2>1. gp'.lockOutAuthEnabled => s_NV'.gp.lockOutAuthEnabled
    BY <1>2, <1>6, <1>7, <1>8, <1>10, <1>12, Zenon DEF Account, Synced
  <2>2. QED
    BY <1>3, <1>12, <2>1 DEF Synced
<1>15. ASSUME Funded PROVE Funded'
  <2>1. lockEarned >= 0 /\ before[1] >= 0 /\ before[2] >= 0
    BY <1>15, ZenonT(60) DEF Funded
  <2>2. earned' >= 0 /\ lockEarned' >= 0 /\ Paid(gp', go', elapsed', earned', lockEarned')
    BY <1>2, <1>3, <1>9, <1>11, <1>15, <2>1, ZenonT(60)
  <2>3. Base' = go' /\ ~IS_ORDERLY(gp'.orderlyState)
    BY <1>2, <1>3, <1>10, ZenonT(60) DEF Base, IS_ORDERLY
  <2>4. IS_ORDERLY(disk'.gp.orderlyState) =>
           Paid(disk'.gp, disk'.go, 0, before'[1], before'[2])
    BY <1>3, <1>15 DEF Funded
  <2>5. QED
    BY <1>3, <2>1, <2>2, <2>3, <2>4, ZenonT(60) DEF Funded
<1>16. QED
  BY <1>3, <1>13, <1>14, <1>15, ZenonT(60) DEF Account

\* The end of a session check: no timer claims more than before.
LEMMA AccountEndCheck ==
    ASSUME Inv, Inv', Account, NEW s, NEW next \in {"authorized", "done"}, NEW fields,
           EndCheck(s, next, fields),
           go' \in OrderlyData, outcome' \in Outcomes,
           earned' \in -1 .. Cap, lockEarned' \in -1 .. LockCap,
           gp'.orderlyState = IF Marks(s) THEN "DA_USED" ELSE gp.orderlyState,
           "orderlyState" \in fields <=> Marks(s),
           gp'.lockOutAuthEnabled => gp.lockOutAuthEnabled,
           earned >= 0 /\ lockEarned >= 0 /\ Paid(gp, go, 0, earned, lockEarned) =>
              /\ earned' >= 0 /\ lockEarned' >= 0
              /\ Paid(gp', go', 0, earned', lockEarned')
    PROVE  Account'
<1>1. /\ phase = "entered" /\ phase' = next /\ disk' = disk /\ elapsed' = elapsed
      /\ g_updateNV' = (g_updateNV \/ fields # {})
      /\ s_NV' = [s_NV EXCEPT !.gp = NV_SYNC_PERSISTENT(fields)]
      /\ g_clearOrderly' = g_clearOrderly /\ before' = before /\ late' = late
  BY ZenonT(60) DEF EndCheck
<1>2. /\ gp \in PersistentData /\ gp' \in PersistentData /\ s_NV.gp \in PersistentData
      /\ s_NV \in [gp : PersistentData, go : Times]
  BY DEF Inv, Types
<1>3. s_NV'.gp = NV_SYNC_PERSISTENT(fields) /\ s_NV'.go = s_NV.go
  BY <1>1, <1>2, ZenonT(60)
<1>4. /\ s_NV'.gp.orderlyState = IF "orderlyState" \in fields
                                 THEN gp'.orderlyState ELSE s_NV.gp.orderlyState
      /\ s_NV'.gp.lockOutAuthEnabled <=> IF "lockOutAuthEnabled" \in fields
                                         THEN gp'.lockOutAuthEnabled
                                         ELSE s_NV.gp.lockOutAuthEnabled
  BY <1>2, <1>3, SyncMarks
<1>5. elapsed' = 0
  BY <1>1 DEF Account, Synced
<1>6. Bounds'
  <2>1. elapsed' \in 0 .. MaxIdle
    BY <1>5, Caps
  <2>2. /\ late' \in BOOLEAN /\ g_clearOrderly' \in BOOLEAN
        /\ disk'.go \in OrderlyData /\ before' \in (-1 .. Cap) \X (-1 .. LockCap)
        /\ s_NV'.go \in OrderlyData
    BY <1>1, <1>3, Zenon DEF Account, Bounds
  <2>3. QED
    BY <2>1, <2>2, Zenon DEF Bounds
<1>7. Synced'
  <2>1. s_NV.gp.orderlyState = gp.orderlyState
    BY <1>1, ZenonT(60) DEF Account, Synced
  <2>2. s_NV'.gp.orderlyState = gp'.orderlyState
    BY <1>4, <2>1
  <2>3. gp'.lockOutAuthEnabled => s_NV'.gp.lockOutAuthEnabled
    BY <1>4, Zenon DEF Account, Synced
  <2>4. ~g_updateNV' => /\ ~g_updateNV
                        /\ "lockOutAuthEnabled" \notin fields
                        /\ "orderlyState" \notin fields
    BY <1>1, Zenon
  <2>5. ~g_updateNV' => /\ disk'.gp.orderlyState = s_NV'.gp.orderlyState
                        /\ s_NV'.gp.lockOutAuthEnabled => disk'.gp.lockOutAuthEnabled
    BY <1>1, <1>4, <2>4, Zenon DEF Account, Synced
  <2>6. QED
    BY <1>1, <1>5, <2>2, <2>3, <2>5 DEF Synced
<1>8. ASSUME Funded PROVE Funded'
  <2>1. /\ earned >= 0 /\ lockEarned >= 0 /\ before[1] >= 0 /\ before[2] >= 0
        /\ Paid(gp, go, 0, earned, lockEarned)
        /\ ~IS_ORDERLY(gp.orderlyState)
    BY <1>1, <1>5, <1>8, ZenonT(60) DEF Funded, Base
  <2>2. /\ earned' >= 0 /\ lockEarned' >= 0
        /\ Paid(gp', go', elapsed', earned', lockEarned')
    BY <1>5, <2>1
  <2>3. Base' = go' /\ ~IS_ORDERLY(gp'.orderlyState)
    BY <1>1, <2>1 DEF Base, IS_ORDERLY
  <2>4. IS_ORDERLY(disk'.gp.orderlyState) =>
           Paid(disk'.gp, disk'.go, 0, before'[1], before'[2])
    BY <1>1, <1>8 DEF Funded
  <2>5. QED
    BY <1>1, <2>1, <2>2, <2>3, <2>4 DEF Funded
<1>9. QED
  BY <1>1, <1>6, <1>7, <1>8 DEF Account

\* The five ways a session check ends: a failure restarts the timer it needs.
LEMMA AccountSessionCheck == Inv /\ Inv' /\ Account /\ SessionCheck => Account'
<1> SUFFICES ASSUME Inv, Inv', Account, NEW s \in Sessions,
                    \/ CheckLockedOut(s)
                    \/ CheckAuthSession(s)
                    \/ BadAuth(s)
                    \/ IncrementLockoutAuth(s)
                    \/ IncrementLockout(s)
             PROVE  Account'
  BY ZenonT(60) DEF SessionCheck
<1>1. /\ gp \in PersistentData /\ go \in OrderlyData /\ outcome \in Outcomes
      /\ earned \in -1 .. Cap /\ lockEarned \in -1 .. LockCap
      /\ Cap \in Nat /\ LockCap \in Nat
  BY Caps DEF Inv, Types, Account, Bounds
<1>2. /\ MarkedGp(s).failedTries = gp.failedTries
      /\ MarkedGp(s).lockOutAuthEnabled <=> gp.lockOutAuthEnabled
      /\ MarkedGp(s).orderlyState = IF Marks(s) THEN "DA_USED" ELSE gp.orderlyState
      /\ MarkedGp(s) \in PersistentData
  <2>1. MarkedGp(s) \in PersistentData
    BY <1>1, MarkedType
  <2>2. QED
    BY <1>1, <2>1, Zenon DEF MarkedGp, PersistentData
<1>3. /\ "orderlyState" \in MarkedFields(s) <=> Marks(s)
      /\ "lockOutAuthEnabled" \notin MarkedFields(s)
  BY DEF MarkedFields
<1>4. Paid(gp, go, 0, earned, lockEarned) => Paid(MarkedGp(s), go, 0, earned, lockEarned)
  BY <1>2, Zenon DEF Paid
<1>5. 0 \in -Cap .. Cap /\ 0 \in -LockCap .. LockCap /\ 0 \in -1 .. Cap /\ 0 \in -1 .. LockCap
      /\ Age(0 + 0, Cap) = 0 /\ Age(0 + 0, LockCap) = 0
  BY <1>1 DEF Age, AtMost
<1>6. ASSUME NEW next \in {"authorized", "done"}, EndCheck(s, next, MarkedFields(s)),
             gp' = MarkedGp(s), go' = go, outcome' \in Outcomes,
             earned' = earned, lockEarned' = lockEarned
      PROVE  Account'
  <2>1. /\ gp'.orderlyState = IF Marks(s) THEN "DA_USED" ELSE gp.orderlyState
        /\ gp'.lockOutAuthEnabled => gp.lockOutAuthEnabled
        /\ go' \in OrderlyData
        /\ earned' \in -1 .. Cap /\ lockEarned' \in -1 .. LockCap
        /\ earned >= 0 /\ lockEarned >= 0 /\ Paid(gp, go, 0, earned, lockEarned) =>
              /\ earned' >= 0 /\ lockEarned' >= 0
              /\ Paid(gp', go', 0, earned', lockEarned')
    BY <1>1, <1>2, <1>4, <1>6, Zenon
  <2>2. QED
    BY <1>3, <1>6, <2>1, AccountEndCheck, Zenon
<1>7. CASE CheckLockedOut(s)
  BY <1>1, <1>6, <1>7, Zenon DEF CheckLockedOut
<1>8. CASE CheckAuthSession(s)
  <2>1. outcome' \in Outcomes
    BY <1>8 DEF CheckAuthSession, Outcomes
  <2>2. QED
    BY <1>6, <1>8, <2>1, Zenon DEF CheckAuthSession
<1>9. CASE BadAuth(s)
  BY <1>1, <1>6, <1>9, Zenon DEF BadAuth
<1>10. CASE IncrementLockoutAuth(s)
  <2> DEFINE fields == MarkedFields(s) \cup
                       IF gp.lockoutRecovery = 0 THEN {} ELSE {"lockOutAuthEnabled"}
  <2>1. gp.lockOutAuthEnabled
    BY <1>10, ChargedWasChecked DEF IncrementLockoutAuth
  <2>2. /\ EndCheck(s, "done", fields)
        /\ outcome' = outcome /\ earned' = earned /\ lockEarned' = 0
        /\ gp' = [MarkedGp(s) EXCEPT !.lockOutAuthEnabled = FALSE]
        /\ go' = [go EXCEPT !.lockoutTimer = 0]
    BY <1>10, <2>1 DEF IncrementLockoutAuth
  <2>3. "orderlyState" \in fields <=> Marks(s)
    BY <1>3
  <2> HIDE DEF fields
  <2>4. /\ gp'.orderlyState = IF Marks(s) THEN "DA_USED" ELSE gp.orderlyState
        /\ gp'.failedTries = gp.failedTries
    BY <1>2, <2>2, Zenon DEF PersistentData
  <2>5. /\ go' \in OrderlyData /\ go'.lockoutTimer = 0
        /\ go'.selfHealTimer = go.selfHealTimer
    BY <1>1, <1>5, <2>2 DEF OrderlyData
  <2>6. Paid(gp, go, 0, earned, lockEarned) => Paid(gp', go', 0, earned', lockEarned')
    BY <1>5, <2>2, <2>4, <2>5 DEF Paid
  <2>7. lockEarned' >= 0 /\ lockEarned' \in -1 .. LockCap /\ earned' \in -1 .. Cap
    BY <1>1, <1>5, <2>2
  <2>8. QED
    BY <1>1, <2>1, <2>2, <2>3, <2>4, <2>5, <2>6, <2>7, AccountEndCheck, Zenon
<1>11. CASE IncrementLockout(s)
  <2> DEFINE fields == MarkedFields(s) \cup
                       IF gp.recoveryTime = 0 THEN {} ELSE {"failedTries"}
  <2>1. /\ EndCheck(s, "done", fields)
        /\ outcome' = IF gp.recoveryTime = 0 THEN "none" ELSE "counted"
        /\ earned' = 0 /\ lockEarned' = lockEarned
        /\ gp' = [MarkedGp(s) EXCEPT !.failedTries =
                      IF gp.recoveryTime = 0 THEN @ ELSE @ + 1]
        /\ go' = [go EXCEPT !.selfHealTimer = 0]
    BY <1>11 DEF IncrementLockout
  <2>2. "orderlyState" \in fields <=> Marks(s)
    BY <1>3
  <2>3. outcome' \in Outcomes
    BY <2>1 DEF Outcomes
  <2> HIDE DEF fields
  <2>4. /\ gp'.orderlyState = IF Marks(s) THEN "DA_USED" ELSE gp.orderlyState
        /\ gp'.lockOutAuthEnabled <=> gp.lockOutAuthEnabled
    BY <1>2, <2>1, Zenon DEF PersistentData
  <2>5. /\ go' \in OrderlyData /\ go'.selfHealTimer = 0
        /\ go'.lockoutTimer = go.lockoutTimer
    BY <1>1, <1>5, <2>1 DEF OrderlyData
  <2>6. Paid(gp, go, 0, earned, lockEarned) => Paid(gp', go', 0, earned', lockEarned')
    <3>1. go'.selfHealTimer >= 0 /\ Age(go'.selfHealTimer + 0, Cap) <= earned'
      BY <1>5, <2>1, <2>5
    <3>2. QED
      BY <2>1, <2>4, <2>5, <3>1, Zenon DEF Paid
  <2>7. earned' >= 0 /\ lockEarned' \in -1 .. LockCap /\ earned' \in -1 .. Cap
    BY <1>1, <1>5, <2>1, SMTT(60), Z3T(60)
  <2>8. QED
    BY <2>1, <2>2, <2>3, <2>4, <2>5, <2>6, <2>7, AccountEndCheck, Zenon
<1>12. QED
  BY <1>7, <1>8, <1>9, <1>10, <1>11, ZenonT(60)

\* What a handler may do: leave the timers, and take away what they would heal.
LEMMA AccountHandled ==
    ASSUME Inv, Inv', Account, phase \in {"entered", "authorized"},
           NEW c \in BOOLEAN, Handled(c),
           go' \in OrderlyData, s_NV'.go \in OrderlyData,
           earned' = earned, lockEarned' = lockEarned,
           s_NV'.gp.orderlyState = gp'.orderlyState,
           gp'.lockOutAuthEnabled => s_NV'.gp.lockOutAuthEnabled,
           \/ g_updateNV' = TRUE
           \/ g_updateNV' = g_updateNV /\ s_NV' = s_NV,
           gp'.failedTries # 0 => gp.failedTries # 0,
           ~gp'.lockOutAuthEnabled => ~gp.lockOutAuthEnabled,
           go'.selfHealTimer = go.selfHealTimer,
           go'.lockoutTimer = go.lockoutTimer,
           \/ IS_ORDERLY(gp'.orderlyState) => IS_ORDERLY(gp.orderlyState)
           \/ g_updateNV' = TRUE /\ s_NV'.go = go'
    PROVE  Account'
<1>1. /\ phase' = "done" /\ outcome' = "none" /\ disk' = disk /\ elapsed' = elapsed
      /\ g_clearOrderly' = c /\ before' = before /\ late' = late
  BY ZenonT(60) DEF Handled
<1>2. elapsed' = 0
  BY <1>1 DEF Account, Synced
<1>3. Bounds'
  <2>1. elapsed' \in 0 .. MaxIdle
    BY <1>2, Caps
  <2>2. /\ late' \in BOOLEAN /\ g_clearOrderly' \in BOOLEAN /\ outcome' \in Outcomes
        /\ disk'.go \in OrderlyData /\ before' \in (-1 .. Cap) \X (-1 .. LockCap)
        /\ earned' \in -1 .. Cap /\ lockEarned' \in -1 .. LockCap
    BY <1>1, ZenonT(60) DEF Account, Bounds, Outcomes
  <2>3. QED
    BY <2>1, <2>2, Zenon DEF Bounds
<1>4. Synced'
  <2>1. ~g_updateNV' => /\ disk'.gp.orderlyState = s_NV'.gp.orderlyState
                        /\ s_NV'.gp.lockOutAuthEnabled => disk'.gp.lockOutAuthEnabled
    BY <1>1, ZenonT(60) DEF Account, Synced
  <2>2. QED
    BY <1>1, <1>2, <2>1 DEF Synced
<1>5. ASSUME Funded PROVE Funded'
  <2>1. /\ earned >= 0 /\ lockEarned >= 0 /\ before[1] >= 0 /\ before[2] >= 0
        /\ Paid(gp, go, 0, earned, lockEarned)
        /\ ~IS_ORDERLY(gp.orderlyState)
    BY <1>1, <1>2, <1>5, Zenon DEF Funded, Base
  <2>2. Paid(gp', go', 0, earned', lockEarned')
    BY <2>1, ZenonT(60) DEF Paid
  <2>3. Base' = go'
    BY <1>1, ZenonT(60) DEF Base
  <2>4. IS_ORDERLY(disk'.gp.orderlyState) =>
           Paid(disk'.gp, disk'.go, 0, before'[1], before'[2])
    BY <1>1, <1>5 DEF Funded
  <2>5. IS_ORDERLY(gp'.orderlyState) => g_updateNV' /\ s_NV'.go = go'
    BY <2>1, Zenon
  <2>6. QED
    BY <1>1, <1>2, <2>1, <2>2, <2>3, <2>4, <2>5, ZenonT(60) DEF Funded
<1>6. QED
  BY <1>1, <1>3, <1>4, <1>5, ZenonT(60) DEF Account

\* The handlers of the model.
LEMMA AccountHandler == Inv /\ Inv' /\ Account /\ Handler => Account'
<1> SUFFICES ASSUME Inv, Inv', Account, Handler PROVE Account'
  OBVIOUS
<1>1. /\ gp \in PersistentData /\ gp' \in PersistentData /\ go \in OrderlyData
      /\ s_NV \in [gp : PersistentData, go : Times] /\ s_NV.gp \in PersistentData
      /\ s_NV.go \in OrderlyData
      /\ gp.lockOutAuthEnabled => s_NV.gp.lockOutAuthEnabled
  BY ZenonT(60) DEF Inv, Types, Account, Bounds, Synced
<1>2. phase \in {"entered", "authorized"} => s_NV.gp.orderlyState = gp.orderlyState
  BY DEF Account, Synced
<1>3. ASSUME NEW fields, s_NV' = [s_NV EXCEPT !.gp = NV_SYNC_PERSISTENT(fields)],
             "orderlyState" \notin fields, "lockOutAuthEnabled" \notin fields
      PROVE  /\ s_NV'.go = s_NV.go
             /\ s_NV'.gp.orderlyState = s_NV.gp.orderlyState
             /\ s_NV'.gp.lockOutAuthEnabled <=> s_NV.gp.lockOutAuthEnabled
  <2>1. s_NV'.go = s_NV.go /\ s_NV'.gp = NV_SYNC_PERSISTENT(fields)
    BY <1>1, <1>3
  <2>2. QED
    BY <1>1, <1>3, <2>1, SyncMarks
<1>4. CASE TPM2_DictionaryAttackLockReset
  <2>1. /\ phase = "authorized" /\ Handled(FALSE) /\ g_updateNV' = TRUE
        /\ gp' = [gp EXCEPT !.failedTries = 0]
        /\ go' = go /\ earned' = earned /\ lockEarned' = lockEarned
        /\ s_NV' = [s_NV EXCEPT !.gp = NV_SYNC_PERSISTENT({"failedTries"})]
    BY <1>4, Zenon DEF TPM2_DictionaryAttackLockReset, LockoutCommand
  <2>2. /\ gp'.failedTries = 0 /\ gp'.orderlyState = gp.orderlyState
        /\ gp'.lockOutAuthEnabled <=> gp.lockOutAuthEnabled
    BY <1>1, <2>1, Zenon DEF PersistentData
  <2>3. "orderlyState" \notin {"failedTries"} /\ "lockOutAuthEnabled" \notin {"failedTries"}
    OBVIOUS
  <2>4. /\ s_NV'.go = s_NV.go
        /\ s_NV'.gp.orderlyState = s_NV.gp.orderlyState
        /\ s_NV'.gp.lockOutAuthEnabled <=> s_NV.gp.lockOutAuthEnabled
    BY <1>3, <2>1, <2>3, Zenon
  <2>5. QED
    BY <1>1, <1>2, <2>1, <2>2, <2>4, AccountHandled, Zenon
<1>5. CASE TPM2_DictionaryAttackParameters
  <2> DEFINE fields == {"failedTries", "maxTries", "recoveryTime", "lockoutRecovery"}
  <2>1. PICK p \in Parameters : gp' = [gp EXCEPT !.maxTries = p.maxTries,
                                            !.recoveryTime = p.recoveryTime,
                                            !.lockoutRecovery = p.lockoutRecovery]
    BY <1>5, Zenon DEF TPM2_DictionaryAttackParameters
  <2>2. /\ phase = "authorized" /\ Handled(FALSE) /\ g_updateNV' = TRUE
        /\ go' = go /\ earned' = earned /\ lockEarned' = lockEarned
        /\ s_NV' = [s_NV EXCEPT !.gp = NV_SYNC_PERSISTENT(fields)]
    BY <1>5, Zenon DEF TPM2_DictionaryAttackParameters, LockoutCommand
  <2>3. /\ gp'.failedTries = gp.failedTries /\ gp'.orderlyState = gp.orderlyState
        /\ gp'.lockOutAuthEnabled <=> gp.lockOutAuthEnabled
    BY <1>1, <2>1, Zenon DEF PersistentData
  <2>4. "orderlyState" \notin fields /\ "lockOutAuthEnabled" \notin fields
    OBVIOUS
  <2> HIDE DEF fields
  <2>5. /\ s_NV'.go = s_NV.go
        /\ s_NV'.gp.orderlyState = s_NV.gp.orderlyState
        /\ s_NV'.gp.lockOutAuthEnabled <=> s_NV.gp.lockOutAuthEnabled
    BY <1>3, <2>2, <2>4, Zenon
  <2>6. QED
    BY <1>1, <1>2, <2>2, <2>3, <2>5, AccountHandled, Zenon
<1>6. CASE DAPreInstall_Init
  <2>1. /\ phase = "authorized" /\ Handled(TRUE) /\ g_updateNV' = TRUE
        /\ go' = go /\ earned' = earned /\ lockEarned' = lockEarned
        /\ s_NV' = [gp |-> gp', go |-> Relative(go)]
        /\ gp' = [gp EXCEPT !.failedTries = 0,
                        !.maxTries = PreInstall.maxTries,
                        !.recoveryTime = PreInstall.recoveryTime,
                        !.lockoutRecovery = PreInstall.lockoutRecovery,
                        !.lockOutAuthEnabled = TRUE]
    BY <1>6, Zenon DEF DAPreInstall_Init
  <2>2. /\ gp'.failedTries = 0 /\ gp'.orderlyState = gp.orderlyState
        /\ gp'.lockOutAuthEnabled
    BY <1>1, <2>1, Zenon DEF PersistentData
  <2>3. s_NV'.gp = gp' /\ s_NV'.go = Relative(go)
    BY <2>1
  <2>4. Relative(go) \in OrderlyData
    BY <1>1, OrderlyClosed, Caps
  <2>5. QED
    BY <1>1, <2>1, <2>2, <2>3, <2>4, AccountHandled, Zenon
<1>7. CASE OtherCommand
  <2>1. PICK c \in BOOLEAN : Handled(c)
    BY <1>7 DEF OtherCommand
  <2>2. /\ phase \in {"entered", "authorized"} /\ gp' = gp /\ go' = go
        /\ s_NV' = s_NV /\ g_updateNV' = g_updateNV
        /\ earned' = earned /\ lockEarned' = lockEarned
    BY <1>7 DEF OtherCommand
  <2>3. QED
    BY <1>1, <1>2, <2>1, <2>2, AccountHandled, Zenon
<1>8. CASE TPM2_Shutdown
  <2>1. /\ phase \in {"entered", "authorized"} /\ Handled(FALSE)
        /\ gp' = [gp EXCEPT !.orderlyState = "ORDERLY"]
        /\ go' = [go EXCEPT !.time = 0] /\ g_updateNV' = TRUE
        /\ earned' = earned /\ lockEarned' = lockEarned
        /\ s_NV' = [gp |-> NV_SYNC_PERSISTENT({"orderlyState"}), go |-> go']
    BY <1>8, Zenon DEF TPM2_Shutdown
  <2>2. /\ gp'.failedTries = gp.failedTries
        /\ gp'.lockOutAuthEnabled <=> gp.lockOutAuthEnabled
    BY <1>1, <2>1, Zenon DEF PersistentData
  <2>3. /\ go' \in OrderlyData /\ go'.selfHealTimer = go.selfHealTimer
        /\ go'.lockoutTimer = go.lockoutTimer
    BY <1>1, <2>1, Caps DEF OrderlyData
  <2>4. s_NV'.gp = NV_SYNC_PERSISTENT({"orderlyState"}) /\ s_NV'.go = go'
    BY <2>1
  <2>5. "orderlyState" \in {"orderlyState"} /\ "lockOutAuthEnabled" \notin {"orderlyState"}
    BY ZenonT(60)
  <2>6. /\ s_NV'.gp.orderlyState = gp'.orderlyState
        /\ s_NV'.gp.lockOutAuthEnabled <=> s_NV.gp.lockOutAuthEnabled
    BY <1>1, <2>4, <2>5, SyncMarks
  <2>7. QED
    BY <1>1, <2>1, <2>2, <2>3, <2>4, <2>6, AccountHandled, Zenon
<1>9. QED
  BY <1>4, <1>5, <1>6, <1>7, <1>8, ZenonT(60) DEF Handler

\* The end of the command: what is stored after an orderly shutdown is paid for.
LEMMA AccountCleanup == Inv /\ Inv' /\ Account /\ Cleanup => Account'
<1> SUFFICES ASSUME Inv, Inv', Account, Cleanup PROVE Account'
  OBVIOUS
<1> DEFINE clears == g_clearOrderly /\ IS_ORDERLY(gp.orderlyState)
           fields == IF clears THEN {"orderlyState"} ELSE {}
           p == NV_SYNC_PERSISTENT(fields)
           state == IF clears THEN IF g_daUsed THEN "DA_USED" ELSE "NONE"
                    ELSE gp.orderlyState
<1>1. /\ gp \in PersistentData /\ gp' \in PersistentData /\ s_NV.gp \in PersistentData
      /\ go \in OrderlyData /\ s_NV.go \in OrderlyData /\ disk.go \in OrderlyData
      /\ earned \in -1 .. Cap /\ lockEarned \in -1 .. LockCap
      /\ phase = "done" /\ s_NV.gp.orderlyState = gp.orderlyState
      /\ elapsed = 0 /\ elapsed \in 0 .. MaxIdle
  BY DEF Inv, Types, Account, Bounds, Synced, Cleanup
<1>2. /\ gp' = [gp EXCEPT !.orderlyState = state]
      /\ s_NV' = [gp |-> p, go |-> IF IS_ORDERLY(p.orderlyState) THEN s_NV.go ELSE Zero]
      /\ disk' = IF g_updateNV \/ clears THEN s_NV' ELSE disk
      /\ phase' = "ready" /\ outcome' = "none" /\ g_updateNV' = FALSE
      /\ g_clearOrderly' = FALSE /\ go' = go /\ elapsed' = elapsed /\ late' = late
      /\ earned' = earned /\ lockEarned' = lockEarned
      /\ before' = <<earned', lockEarned'>>
  BY DEF Cleanup, ledger
<1>3. /\ "lockOutAuthEnabled" \notin fields
      /\ "orderlyState" \in fields <=> clears
      /\ clears => ~IS_ORDERLY(state)
      /\ ~clears => state = gp.orderlyState
  BY DEF IS_ORDERLY
<1> HIDE DEF fields, state
<1>4. /\ gp'.failedTries = gp.failedTries /\ gp'.orderlyState = state
      /\ gp'.lockOutAuthEnabled <=> gp.lockOutAuthEnabled
  BY <1>1, <1>2, Zenon DEF PersistentData
<1>5. /\ p.orderlyState = gp'.orderlyState
      /\ p.lockOutAuthEnabled <=> s_NV.gp.lockOutAuthEnabled
  <2>1. /\ p.orderlyState = IF "orderlyState" \in fields
                            THEN gp'.orderlyState ELSE s_NV.gp.orderlyState
        /\ p.lockOutAuthEnabled <=> IF "lockOutAuthEnabled" \in fields
                                    THEN gp'.lockOutAuthEnabled
                                    ELSE s_NV.gp.lockOutAuthEnabled
    BY <1>1, SyncMarks
  <2>2. QED
    BY <1>1, <1>3, <1>4, <2>1, Zenon
<1> HIDE DEF p
<1>6. /\ s_NV'.gp = p /\ s_NV'.go \in OrderlyData
      /\ IS_ORDERLY(gp'.orderlyState) => s_NV'.go = s_NV.go
  <2>1. Zero \in OrderlyData
    BY <1>1, OrderlyClosed
  <2>2. QED
    BY <1>1, <1>2, <1>5, <2>1, ZenonT(60)
<1>7. \/ disk' = s_NV'
      \/ disk' = disk /\ ~g_updateNV /\ ~clears
  BY <1>2, Zenon
<1> HIDE DEF clears
<1>8. /\ before' \in (-1 .. Cap) \X (-1 .. LockCap)
      /\ before'[1] = earned' /\ before'[2] = lockEarned'
  BY <1>1, <1>2
<1>9. Bounds'
  <2>1. /\ late' \in BOOLEAN /\ g_clearOrderly' \in BOOLEAN /\ outcome' \in Outcomes
    BY <1>2, Zenon DEF Account, Bounds, Outcomes
  <2>2. disk'.go \in OrderlyData
    BY <1>1, <1>6, <1>7, Zenon
  <2>3. QED
    BY <1>1, <1>2, <1>6, <1>8, <2>1, <2>2, Zenon DEF Bounds
<1>10. Synced'
  <2>1. gp'.lockOutAuthEnabled => s_NV'.gp.lockOutAuthEnabled
    BY <1>4, <1>5, <1>6, Zenon DEF Account, Synced
  <2>2. /\ disk'.gp.orderlyState = s_NV'.gp.orderlyState
        /\ s_NV'.gp.lockOutAuthEnabled => disk'.gp.lockOutAuthEnabled
    <3>1. CASE disk' = s_NV'
      BY <3>1
    <3>2. CASE disk' = disk /\ ~g_updateNV /\ ~clears
      <4>1. s_NV'.gp.orderlyState = s_NV.gp.orderlyState
        BY <1>1, <1>3, <1>4, <1>5, <1>6, <3>2
      <4>2. QED
        BY <1>5, <1>6, <3>2, <4>1, ZenonT(60) DEF Account, Synced
    <3>3. QED
      BY <1>7, <3>1, <3>2
  <2>3. QED
    BY <1>2, <1>5, <1>6, <2>1, <2>2 DEF Synced, ledger
<1>11. ASSUME Funded PROVE Funded'
  <2>1. earned >= 0 /\ lockEarned >= 0 /\ Paid(gp, go, elapsed, earned, lockEarned)
    BY <1>1, <1>11 DEF Funded, Base
  <2>2. Base' = go' /\ Paid(gp', go', elapsed', earned', lockEarned')
    BY <1>2, <1>4, <2>1 DEF Base, Paid
  <2>3. ASSUME IS_ORDERLY(disk'.gp.orderlyState)
        PROVE  Paid(disk'.gp, disk'.go, 0, earned', lockEarned')
    <3>1. IS_ORDERLY(gp'.orderlyState) /\ ~clears /\ IS_ORDERLY(gp.orderlyState)
      <4>1. disk'.gp.orderlyState = s_NV'.gp.orderlyState
        BY <1>2, <1>10, ZenonT(60) DEF Synced
      <4>2. IS_ORDERLY(gp'.orderlyState)
        BY <1>5, <1>6, <2>3, <4>1, ZenonT(60)
      <4>3. QED
        BY <1>3, <1>4, <4>2
    <3>2. g_updateNV /\ Paid(gp, s_NV.go, 0, earned, lockEarned)
      BY <1>1, <1>11, <3>1 DEF Funded
    <3>3. disk' = s_NV'
      BY <1>7, <3>2, Zenon
    <3>4. s_NV'.gp.failedTries = gp'.failedTries
      BY DEF Inv, Copies, CounterFields
    <3>5. ~s_NV'.gp.lockOutAuthEnabled => ~gp.lockOutAuthEnabled
      BY <1>5, <1>6, Zenon DEF Account, Synced
    <3>6. s_NV'.go = s_NV.go
      BY <1>6, <3>1
    <3>7. QED
      BY <1>2, <1>4, <3>2, <3>3, <3>4, <3>5, <3>6, ZenonT(60) DEF Paid
  <2>4. QED
    BY <1>2, <1>8, <2>1, <2>2, <2>3, ZenonT(60) DEF Funded
<1>12. QED
  BY <1>2, <1>9, <1>10, <1>11 DEF Account

\* The account balances in every behaviour.
THEOREM Accounting == Spec => []Account
<1>1. Init => Account
  BY AccountInit
<1>2. Inv /\ Inv' /\ Account /\ [Next]_vars => Account'
  <2> SUFFICES ASSUME Inv, Inv', Account, [Next]_vars PROVE Account'
    OBVIOUS
  <2>1. CASE Tick
    BY <2>1, AccountTick
  <2>2. CASE PowerCycle
    BY <2>2, AccountPowerCycle
  <2>3. CASE StartupRefused
    BY <2>3, AccountStartupRefused
  <2>4. CASE TPM2_Startup
    BY <2>4, AccountStartup
  <2>5. CASE TimeUpdate
    BY <2>5, AccountTimeUpdate, ZenonT(60)
  <2>6. CASE SessionCheck
    BY <2>6, AccountSessionCheck
  <2>7. CASE Handler
    BY <2>7, AccountHandler
  <2>8. CASE Cleanup
    BY <2>8, AccountCleanup
  <2>9. CASE UNCHANGED vars
    BY <2>9, SMTT(60), ZenonT(60)
       DEF vars, flags, history, ledger, Account, Bounds, Synced, Funded, Base, Paid
  <2>10. QED
    BY <2>1, <2>2, <2>3, <2>4, <2>5, <2>6, <2>7, <2>8, <2>9 DEF Next
<1>3. QED
  BY <1>1, <1>2, Invariance, PTL DEF Spec

\* For any parameters, caps and sequence of power losses: failedTries goes down
\* and lockoutAuth comes back only for time that the TPM had power, as long as no
\* command runs between TPM2_Shutdown and the power-off (DASelfHeal, DAStartup).
THEOREM EarnedForAnyParameters == Spec => []HealingIsEarned
<1>1. Account => HealingIsEarned
  BY DEF Account, Funded, HealingIsEarned
<1>2. QED
  BY <1>1, Accounting, PTL

\* The variables keep their types; in particular every age stays within the caps.
THEOREM TypesForAnyParameters == Spec => []TypeOK
<1>1. Inv /\ Account => TypeOK
  <2> SUFFICES ASSUME Inv, Account PROVE TypeOK
    OBVIOUS
  <2>1. /\ s_NV \in [gp : PersistentData, go : OrderlyData]
        /\ disk \in [gp : PersistentData, go : OrderlyData]
    BY DEF Inv, Types, Account, Bounds
  <2>2. \A image \in {s_NV, disk} : image \in [gp : PersistentData, go : OrderlyData]
    BY <2>1
  <2>3. QED
    BY <2>2, Zenon DEF Inv, Types, Account, Bounds, TypeOK
<1>2. QED
  BY <1>1, Invariance, Accounting, PTL
=============================================================================
