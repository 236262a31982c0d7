------------------------------ MODULE Lockout ------------------------------
(***************************************************************************)
(* The dictionary-attack (DA) logic of the TPM 2.0 core: the counter of    *)
(* failed authorizations, the lockout it leads to, the time that heals it, *)
(* and what a power loss leaves of them (DA.c, DictionaryCommands.c,       *)
(* Time.c, and the parts of SessionProcess.c, StartupCommands.c,           *)
(* ExecCommand.c and HierarchyCommands.c that use them).                   *)
(*                                                                         *)
(* A command runs in the order of ExecuteCommand: time is brought up to    *)
(* date and heals, the sessions are checked, the handler runs, and the     *)
(* image of NV is stored if something asked for it.  Power can be lost     *)
(* between any two of these.  One session per command is modelled: the     *)
(* first one that fails ends the command, and those that succeed change    *)
(* what the modelled one does.  NV is always available in this build, so   *)
(* s_DAPendingOnNV is never set.                                           *)
(*                                                                         *)
(* Time is in ticks.  The code only uses differences of times, so a time   *)
(* of go is kept as its age, the ticks between it and g_time.  A time that *)
(* lies ahead of g_time has a negative age, which the code takes for a     *)
(* huge one: the difference is computed in UINT64.                         *)
(***************************************************************************)
EXTENDS Integers, FiniteSets

CONSTANTS Parameters,      \* what TPM2_DictionaryAttackParameters is given
          PreInstall,      \* the parameters of DAPreInstall_Init
          MaxIdle,         \* bound: ticks between two commands
          Cap,             \* bound: ages of selfHealTimer that are told apart
          LockCap          \* bound: ages of lockoutTimer that are told apart

\* Every command heals what it can, so while there is something to heal an age
\* stays below the recovery time and the ticks between two commands.
ASSUME LockoutAssumption ==
    /\ Parameters \subseteq [maxTries : Nat, recoveryTime : Nat, lockoutRecovery : Nat]
    /\ IsFiniteSet(Parameters)
    /\ PreInstall \in Parameters
    /\ MaxIdle \in Nat \ {0} /\ Cap \in Nat /\ LockCap \in Nat
    /\ \A p \in Parameters : /\ p.recoveryTime + MaxIdle <= Cap
                            /\ p.lockoutRecovery + MaxIdle <= LockCap

VARIABLES gp,         \* the DA fields and orderlyState of PERSISTENT_DATA
          go,         \* the times of ORDERLY_DATA, as ages
          s_NV,       \* the image of NV: gp and go as last written
          disk,       \* the image in permanent storage
          g_updateNV, \* the end of the command has to store the image
          g_clearOrderly, \* the command makes the state non-orderly
          g_daUsed,   \* a DA-protected entity was authorized
          elapsed,    \* s_tpmTime - g_time: ticks since g_time was set
          phase,      \* where the TPM is
          outcome,    \* of the session check
          earned,     \* history: powered ticks not yet spent on failedTries
          lockEarned, \* history: powered ticks since lockoutAuth failed
          before,     \* history: these ticks, as the last response left them
          owed,       \* history: failures that failedTries must still show
          late        \* history: a command ran after TPM2_Shutdown

flags == <<g_updateNV, g_clearOrderly>>
ledger == <<earned, lockEarned>>
history == <<ledger, owed, before, late>>
vars == <<gp, go, s_NV, disk, flags, g_daUsed, elapsed, phase, outcome, history>>

\* TPM_SU_CLEAR and TPM_SU_STATE make no difference here: both are "ORDERLY".
OrderlyStates == {"ORDERLY", "DA_USED", "NONE"}
IS_ORDERLY(state) == state = "ORDERLY"

PersistentData == [failedTries : Nat, maxTries : Nat, recoveryTime : Nat,
                   lockoutRecovery : Nat, lockOutAuthEnabled : BOOLEAN,
                   orderlyState : OrderlyStates]
OrderlyData == [selfHealTimer : -Cap .. Cap, lockoutTimer : -LockCap .. LockCap, time : 0 .. Cap]

\* "counted" is a failure charged to failedTries, "lockout" and "other" name
\* the entity a success authorized.
Outcomes == {"none", "lockout", "other", "counted"}

TypeOK ==
    /\ gp \in PersistentData
    /\ go \in OrderlyData
    /\ \A image \in {s_NV, disk} : image \in [gp : PersistentData, go : OrderlyData]
    /\ g_updateNV \in BOOLEAN /\ g_clearOrderly \in BOOLEAN
    /\ g_daUsed \in BOOLEAN
    /\ elapsed \in 0 .. MaxIdle
    /\ phase \in {"init", "ready", "entered", "authorized", "done", "failure"}
    /\ outcome \in Outcomes
    /\ earned \in -1 .. Cap /\ lockEarned \in -1 .. LockCap /\ owed \in Nat
    /\ before \in (-1 .. Cap) \X (-1 .. LockCap)
    /\ late \in BOOLEAN

-----------------------------------------------------------------------------
(***************************************************************************)
(* Images and time                                                         *)
(***************************************************************************)

\* NV_SYNC_PERSISTENT of some fields: the image takes over their new values.
NV_SYNC_PERSISTENT(fields) ==
    [f \in DOMAIN gp |-> IF f \in fields THEN gp'[f] ELSE s_NV.gp[f]]

AtMost(n, bound) == IF n <= bound THEN n ELSE bound
Less(n, m) == IF m <= n THEN n - m ELSE 0
Age(n, bound) == IF n < -bound THEN -bound ELSE AtMost(n, bound)

\* The times of go, ticks later.  Each is followed only while it can matter: a
\* timer while there is something to heal (a failure sets it anew), go.time
\* while the state is orderly.
Later(o, ticks) ==
    [selfHealTimer |-> IF gp.failedTries = 0 THEN 0 ELSE Age(o.selfHealTimer + ticks, Cap),
     lockoutTimer  |-> IF gp.lockOutAuthEnabled THEN 0 ELSE Age(o.lockoutTimer + ticks, LockCap),
     time          |-> IF IS_ORDERLY(gp.orderlyState) THEN AtMost(o.time + ticks, Cap) ELSE 0]

\* The times of go in an image: the timers relative to go.time.  They are read
\* again after an orderly shutdown only, and are left out otherwise.
Zero == [selfHealTimer |-> 0, lockoutTimer |-> 0, time |-> 0]
Relative(o) == [selfHealTimer |-> Age(o.selfHealTimer - o.time, Cap),
                lockoutTimer |-> Age(o.lockoutTimer - o.time, LockCap), time |-> 0]

\* The clock enters a new interval, or does not, as time passes: when it does,
\* go is written to the image as it is before it heals.
TimeClockUpdate ==
    {s_NV.go} \cup (IF IS_ORDERLY(gp.orderlyState) THEN {Relative(go)} ELSE {})

-----------------------------------------------------------------------------
(***************************************************************************)
(* Healing                                                                 *)
(***************************************************************************)

\* failedTries and its timer, with the need to record failedTries.  A timer
\* that lies ahead makes the difference wrap: the low 32 bits of the quotient
\* are taken to reach failedTries, so everything is healed.
HealTries(p, o) ==
    IF p.failedTries = 0
    THEN [tries |-> 0, timer |-> o.selfHealTimer, sync |-> FALSE]
    ELSE IF p.recoveryTime = 0
    THEN [tries |-> 0, timer |-> o.selfHealTimer, sync |-> TRUE]
    ELSE IF o.selfHealTimer < 0
    THEN [tries |-> 0, timer |-> 0, sync |-> TRUE]
    ELSE LET decreaseCount == o.selfHealTimer \div p.recoveryTime
         IN [tries |-> Less(p.failedTries, decreaseCount),
             timer |-> o.selfHealTimer % p.recoveryTime,
             sync  |-> decreaseCount # 0]

HealsLockout(p, o) ==
    /\ ~p.lockOutAuthEnabled
    /\ p.lockoutRecovery # 0
    /\ o.lockoutTimer < 0 \/ o.lockoutTimer >= p.lockoutRecovery

HealedFields(p, o) ==
    (IF HealTries(p, o).sync THEN {"failedTries"} ELSE {})
    \cup (IF HealsLockout(p, o) THEN {"lockOutAuthEnabled"} ELSE {})

HealedGp(p, o) == [p EXCEPT !.failedTries = HealTries(p, o).tries,
                            !.lockOutAuthEnabled = @ \/ HealsLockout(p, o)]

\* Mutant: every look at the clock restarts the interval.
HealRestartsTimer(p, o) ==
    [gp |-> HealedGp(p, o),
     go |-> [o EXCEPT !.selfHealTimer = 0],
     fields |-> HealedFields(p, o)]

\* What DASelfHeal makes of gp and go, and the fields it records.
DASelfHeal(p, o) ==
    [gp |-> HealedGp(p, o),
     go |-> [o EXCEPT !.selfHealTimer = HealTries(p, o).timer],
     fields |-> HealedFields(p, o)]

\* The history of a heal: the ticks it spends, with -1 for a debt and no rest
\* when all is healed, and the failures it forgives.
Rest(ticks, price, all) == IF ticks < price THEN -1 ELSE IF all THEN 0 ELSE ticks - price

Spend(p, o, ticks, lockTicks) ==
    LET healed == p.failedTries - HealTries(p, o).tries
    IN /\ earned' = Rest(ticks, healed * p.recoveryTime, HealTries(p, o).tries = 0)
       /\ lockEarned' = IF HealsLockout(p, o)
                        THEN Rest(lockTicks, p.lockoutRecovery, TRUE) ELSE lockTicks
       /\ owed' = Less(owed, healed)

-----------------------------------------------------------------------------
(***************************************************************************)
(* Power and startup                                                       *)
(***************************************************************************)

\* The clock of the platform runs whenever there is power.
Tick ==
    /\ phase \in {"init", "ready"}
    /\ elapsed < MaxIdle
    /\ elapsed' = elapsed + 1
    /\ earned' = IF gp.failedTries = 0 THEN earned ELSE AtMost(earned + 1, Cap)
    /\ lockEarned' = IF gp.lockOutAuthEnabled THEN lockEarned ELSE AtMost(lockEarned + 1, LockCap)
    /\ UNCHANGED <<gp, go, s_NV, disk, flags, g_daUsed, phase, outcome, owed, late>>
    /\ before' = ledger'

\* Power is lost and comes back: _TPM_Init reads what was stored, and the
\* clock starts from zero.  A failed authorization that was not stored is to
\* be made up for if the DA mark was stored before it.
PowerCycle ==
    /\ gp' = disk.gp
    /\ go' = disk.go
    /\ s_NV' = disk
    /\ g_updateNV' = FALSE
    /\ g_clearOrderly' = FALSE
    /\ g_daUsed' = FALSE
    /\ elapsed' = 0
    /\ phase' = "init"
    /\ outcome' = "none"
    /\ earned' = before[1]
    /\ lockEarned' = before[2]
    /\ owed' = IF outcome = "counted" /\ disk.gp.orderlyState = "DA_USED"
               THEN owed + 1 ELSE owed
    /\ UNCHANGED <<disk, late>>
    /\ before' = ledger'

\* The mark becomes g_daUsed, and the state counts as not orderly.
prevOrderlyState == IF gp.orderlyState = "DA_USED" THEN "NONE" ELSE gp.orderlyState

\* A Resume that is refused, for want of a saved state or because the H-CRTM
\* or the locality differ.  What it did to gp before stays, so the failure that
\* the mark stood for is forgotten.
StartupRefused ==
    /\ phase = "init"
    /\ g_daUsed' = (gp.orderlyState = "DA_USED")
    /\ gp' = [gp EXCEPT !.orderlyState = prevOrderlyState]
    /\ owed' = IF g_daUsed' THEN AtMost(owed, gp.failedTries) ELSE owed
    /\ UNCHANGED <<go, s_NV, disk, flags, elapsed, phase, outcome, earned,
                   lockEarned, before, late>>

\* The clock was reset.  After an orderly shutdown the timers become negative,
\* so that the ticks up to the shutdown still count; else they become zero.
StartupTimers ==
    IF IS_ORDERLY(gp.orderlyState)
    THEN [Later(go, elapsed) EXCEPT !.time = 0]
    ELSE [selfHealTimer |-> elapsed, lockoutTimer |-> elapsed, time |-> 0]

\* Mutant: the failure is made up for after an orderly shutdown.
CompensatesOrderly ==
    /\ gp.recoveryTime # 0
    /\ gp.failedTries < gp.maxTries
    /\ IS_ORDERLY(prevOrderlyState)

\* A failure may have been lost with the power.
Compensates ==
    /\ gp.recoveryTime # 0
    /\ gp.failedTries < gp.maxTries
    /\ ~IS_ORDERLY(prevOrderlyState)

DAStartup ==
    LET used == gp.orderlyState = "DA_USED"
        p == [gp EXCEPT !.lockOutAuthEnabled = @ \/ gp.lockoutRecovery = 0,
                        !.failedTries = IF Compensates /\ used THEN @ + 1 ELSE @,
                        !.orderlyState = "NONE"]
        h == DASelfHeal(p, StartupTimers)
    IN /\ g_daUsed' = (used /\ ~Compensates)
       /\ gp' = h.gp
       /\ go' = h.go
       /\ s_NV' = [gp |-> NV_SYNC_PERSISTENT(h.fields \cup {"orderlyState"}
                         \cup (IF gp.lockoutRecovery = 0 THEN {"lockOutAuthEnabled"} ELSE {})
                         \cup (IF Compensates THEN {"failedTries"} ELSE {})),
                    go |-> Zero]
       /\ Spend(p, StartupTimers, IF Compensates /\ used THEN elapsed ELSE earned, lockEarned)

TPM2_Startup ==
    /\ phase = "init"
    /\ phase' = "done"
    /\ g_updateNV' = TRUE
    /\ elapsed' = 0
    /\ DAStartup
    /\ UNCHANGED <<disk, g_clearOrderly, outcome, before, late>>
-----------------------------------------------------------------------------
(***************************************************************************)
(* A command: ExecuteCommand up to the handler                             *)
(***************************************************************************)

\* TimeUpdateToCurrent, on the arrival of a command.
TimeUpdate ==
    LET h == DASelfHeal(gp, Later(go, elapsed))
    IN /\ phase = "ready"
       /\ phase' = "entered"
       /\ elapsed' = 0
       /\ gp' = h.gp
       /\ go' = h.go
       /\ \E o \in TimeClockUpdate :
             s_NV' = [gp |-> NV_SYNC_PERSISTENT(h.fields), go |-> o]
       /\ g_updateNV' = (h.fields # {})
       /\ Spend(gp, Later(go, elapsed), earned, lockEarned)
       /\ late' = (late \/ IS_ORDERLY(gp.orderlyState))
       /\ UNCHANGED <<disk, g_clearOrderly, g_daUsed, outcome, before>>

\* The entity a session authorizes, what the session is bound to, and whether
\* its authValue is used.  A password uses it, a policy may or may not, and a
\* bound session does unless the entity is the one it is bound to.
Entities == {"exempt", "da", "lockout"}
Sessions == {[entity |-> e, bound |-> "none", includeAuth |-> a] : e \in Entities, a \in BOOLEAN}
            \cup {[entity |-> e, bound |-> b, includeAuth |-> TRUE] :
                        e \in Entities, b \in {"da", "lockout"}}
            \cup {[entity |-> b, bound |-> b, includeAuth |-> FALSE] : b \in {"da", "lockout"}}

\* Mutant: no check of what the session is bound to.
ChecksNoBound(s) == FALSE

\* What ParseSessionBuffer and then CheckAuthSession hand to CheckLockedOut.
ChecksBound(s) == s.bound # "none"
ChecksEntity(s) == s.includeAuth /\ s.entity # "exempt"

LockedOut(e) ==
    IF e = "lockout" THEN ~gp.lockOutAuthEnabled ELSE gp.failedTries >= gp.maxTries

BoundRefused(s) == ChecksBound(s) /\ LockedOut(s.bound)
EntityRefused(s) == ChecksEntity(s) /\ LockedOut(s.entity)

\* A check for an entity other than lockoutAuth that is not locked out marks
\* the state as DA_USED, once.
Marks(s) ==
    /\ ~g_daUsed
    /\ \/ ChecksBound(s) /\ s.bound = "da" /\ ~BoundRefused(s)
       \/ ChecksEntity(s) /\ s.entity = "da" /\ ~BoundRefused(s) /\ ~EntityRefused(s)

MarkedFields(s) == IF Marks(s) THEN {"orderlyState"} ELSE {}

MarkedGp(s) == [gp EXCEPT !.orderlyState = IF Marks(s) THEN "DA_USED" ELSE @]

\* The session check ends the command, or lets its handler run.
EndCheck(s, next, fields) ==
    /\ phase = "entered"
    /\ phase' = next
    /\ g_daUsed' = (g_daUsed \/ Marks(s))
    /\ s_NV' = [s_NV EXCEPT !.gp = NV_SYNC_PERSISTENT(fields)]
    /\ g_updateNV' = (g_updateNV \/ fields # {})
    /\ UNCHANGED <<disk, g_clearOrderly, elapsed, owed, before, late>>

CheckLockedOut(s) ==
    /\ BoundRefused(s) \/ EntityRefused(s)
    /\ gp' = MarkedGp(s)
    /\ EndCheck(s, "done", MarkedFields(s))
    /\ UNCHANGED <<go, outcome, earned, lockEarned>>

CheckAuthSession(s) ==
    /\ ~BoundRefused(s) /\ ~EntityRefused(s)
    /\ gp' = MarkedGp(s)
    /\ outcome' = IF s.entity = "lockout" THEN "lockout" ELSE "other"
    /\ EndCheck(s, "authorized", MarkedFields(s))
    /\ UNCHANGED <<go, earned, lockEarned>>

\* The entity a failure is charged to; "exempt" if it is not charged.
Charged(s) ==
    IF s.bound = "lockout" THEN "lockout"
    ELSE IF s.bound = "none" /\ (s.entity = "exempt" \/ ~s.includeAuth) THEN "exempt"
    ELSE IF s.entity = "lockout" THEN "lockout" ELSE "da"

Authorized(s) == ~BoundRefused(s) /\ ~EntityRefused(s)

BadAuth(s) ==
    /\ Authorized(s)
    /\ Charged(s) = "exempt"
    /\ gp' = MarkedGp(s)
    /\ EndCheck(s, "done", MarkedFields(s))
    /\ UNCHANGED <<go, outcome, earned, lockEarned>>

\* Lockout authorization failed: it is disabled, in RAM only if the next
\* startup enables it again.
IncrementLockoutAuth(s) ==
    /\ Authorized(s)
    /\ Charged(s) = "lockout"
    /\ gp' = [MarkedGp(s) EXCEPT !.lockOutAuthEnabled = FALSE]
    /\ go' = [go EXCEPT !.lockoutTimer = 0]
    /\ EndCheck(s, IF gp.lockOutAuthEnabled THEN "done" ELSE "failure",
                MarkedFields(s) \cup IF gp.lockoutRecovery = 0 THEN {} ELSE {"lockOutAuthEnabled"})
    /\ lockEarned' = 0
    /\ UNCHANGED <<outcome, earned>>

\* Mutant: DARegisterFailure is not called.
FailureKeepsTimer(s) ==
    /\ Authorized(s)
    /\ Charged(s) = "da"
    /\ gp' = [MarkedGp(s) EXCEPT !.failedTries = IF gp.recoveryTime = 0 THEN @ ELSE @ + 1]
    /\ outcome' = IF gp.recoveryTime = 0 THEN "none" ELSE "counted"
    /\ EndCheck(s, "done",
                MarkedFields(s) \cup IF gp.recoveryTime = 0 THEN {} ELSE {"failedTries"})
    /\ earned' = 0
    /\ UNCHANGED <<go, lockEarned>>

IncrementLockout(s) ==
    /\ Authorized(s)
    /\ Charged(s) = "da"
    /\ gp' = [MarkedGp(s) EXCEPT !.failedTries = IF gp.recoveryTime = 0 THEN @ ELSE @ + 1]
    /\ go' = [go EXCEPT !.selfHealTimer = 0]
    /\ outcome' = IF gp.recoveryTime = 0 THEN "none" ELSE "counted"
    /\ EndCheck(s, "done",
                MarkedFields(s) \cup IF gp.recoveryTime = 0 THEN {} ELSE {"failedTries"})
    /\ earned' = 0
    /\ UNCHANGED lockEarned

-----------------------------------------------------------------------------
(***************************************************************************)
(* Handlers and the end of the command                                     *)
(***************************************************************************)

LockoutCommand ==
    /\ phase = "authorized"
    /\ outcome = "lockout"

Handled(clearOrderly) ==
    /\ phase' = "done"
    /\ outcome' = "none"
    /\ g_clearOrderly' = clearOrderly
    /\ UNCHANGED <<disk, elapsed, before, late>>

\* Mutant: the reset takes maxTries off, and may go below zero.
LockResetSubtracts ==
    /\ LockoutCommand
    /\ gp' = [gp EXCEPT !.failedTries = @ - gp.maxTries]
    /\ s_NV' = [s_NV EXCEPT !.gp = NV_SYNC_PERSISTENT({"failedTries"})]
    /\ g_updateNV' = TRUE
    /\ owed' = 0
    /\ Handled(FALSE)
    /\ UNCHANGED <<go, g_daUsed, earned, lockEarned>>

TPM2_DictionaryAttackLockReset ==
    /\ LockoutCommand
    /\ gp' = [gp EXCEPT !.failedTries = 0]
    /\ s_NV' = [s_NV EXCEPT !.gp = NV_SYNC_PERSISTENT({"failedTries"})]
    /\ g_updateNV' = TRUE
    /\ owed' = 0
    /\ Handled(FALSE)
    /\ UNCHANGED <<go, g_daUsed, earned, lockEarned>>

TPM2_DictionaryAttackParameters ==
    /\ LockoutCommand
    /\ \E p \in Parameters : gp' = [gp EXCEPT !.maxTries = p.maxTries,
                                            !.recoveryTime = p.recoveryTime,
                                            !.lockoutRecovery = p.lockoutRecovery]
    /\ s_NV' = [s_NV EXCEPT !.gp = NV_SYNC_PERSISTENT({"failedTries", "maxTries",
                                        "recoveryTime", "lockoutRecovery"})]
    /\ g_updateNV' = TRUE
    /\ Handled(FALSE)
    /\ UNCHANGED <<go, g_daUsed, earned, lockEarned, owed>>

\* TPM2_Clear, by lockoutAuth or by the platform, restores the parameters and
\* writes gp and go as a whole.
DAPreInstall_Init ==
    /\ phase = "authorized"
    /\ gp' = [gp EXCEPT !.failedTries = 0,
                        !.maxTries = PreInstall.maxTries,
                        !.recoveryTime = PreInstall.recoveryTime,
                        !.lockoutRecovery = PreInstall.lockoutRecovery,
                        !.lockOutAuthEnabled = TRUE]
    /\ s_NV' = [gp |-> gp', go |-> Relative(go)]
    /\ g_updateNV' = TRUE
    /\ owed' = 0
    /\ Handled(TRUE)
    /\ UNCHANGED <<go, g_daUsed, earned, lockEarned>>

\* Any other command, refused or not; some make the state non-orderly.
OtherCommand ==
    /\ phase \in {"entered", "authorized"}
    /\ \E clearOrderly \in BOOLEAN : Handled(clearOrderly)
    /\ UNCHANGED <<gp, go, s_NV, g_updateNV, g_daUsed, earned, lockEarned, owed>>

TPM2_Shutdown ==
    /\ phase \in {"entered", "authorized"}
    /\ gp' = [gp EXCEPT !.orderlyState = "ORDERLY"]
    /\ g_daUsed' = FALSE
    /\ go' = [go EXCEPT !.time = 0]
    /\ s_NV' = [gp |-> NV_SYNC_PERSISTENT({"orderlyState"}), go |-> go']
    /\ g_updateNV' = TRUE
    /\ Handled(FALSE)
    /\ UNCHANGED <<earned, lockEarned, owed>>

\* The state becomes non-orderly if it has to, the image is stored if
\* something was written to it, and the response goes out.
Cleanup ==
    LET clears == g_clearOrderly /\ IS_ORDERLY(gp.orderlyState)
    IN /\ phase = "done"
       /\ phase' = "ready"
       /\ outcome' = "none"
       /\ gp' = [gp EXCEPT !.orderlyState = IF clears
                                            THEN IF g_daUsed THEN "DA_USED" ELSE "NONE"
                                            ELSE @]
       /\ s_NV' = LET p == NV_SYNC_PERSISTENT(IF clears THEN {"orderlyState"} ELSE {})
                  IN [gp |-> p, go |-> IF IS_ORDERLY(p.orderlyState) THEN s_NV.go ELSE Zero]
       /\ disk' = IF g_updateNV \/ clears THEN s_NV' ELSE disk
       /\ g_updateNV' = FALSE
       /\ g_clearOrderly' = FALSE
       /\ owed' = IF outcome = "counted" THEN owed + 1 ELSE owed
       /\ UNCHANGED <<go, g_daUsed, elapsed, earned, lockEarned, late>>
       /\ before' = ledger'

-----------------------------------------------------------------------------
(***************************************************************************)
(* The specification                                                       *)
(***************************************************************************)

\* TPM_Manufacture and the first power-on.
Init ==
    /\ gp = [failedTries |-> 0, maxTries |-> PreInstall.maxTries,
             recoveryTime |-> PreInstall.recoveryTime,
             lockoutRecovery |-> PreInstall.lockoutRecovery,
             lockOutAuthEnabled |-> TRUE, orderlyState |-> "NONE"]
    /\ go = Zero
    /\ s_NV = [gp |-> gp, go |-> go]
    /\ disk = s_NV
    /\ g_updateNV = FALSE /\ g_clearOrderly = FALSE
    /\ g_daUsed = FALSE
    /\ elapsed = 0
    /\ phase = "init"
    /\ outcome = "none"
    /\ earned = 0 /\ lockEarned = 0 /\ owed = 0
    /\ before = ledger
    /\ late = FALSE

SessionCheck ==
    \E s \in Sessions : \/ CheckLockedOut(s)
                        \/ CheckAuthSession(s)
                        \/ BadAuth(s)
                        \/ IncrementLockoutAuth(s)
                        \/ IncrementLockout(s)

Handler ==
    \/ TPM2_DictionaryAttackLockReset
    \/ TPM2_DictionaryAttackParameters
    \/ DAPreInstall_Init
    \/ OtherCommand
    \/ TPM2_Shutdown

Next == \/ Tick
        \/ PowerCycle
        \/ StartupRefused
        \/ TPM2_Startup
        \/ TimeUpdate
        \/ SessionCheck
        \/ Handler
        \/ Cleanup

\* The clock runs whatever the TPM does (here: between commands), commands keep
\* arriving, and no command that started stays where it is: if nothing else
\* happens to it, it is refused and ends.
Fairness ==
    /\ SF_vars(Tick)
    /\ WF_vars(TimeUpdate)
    /\ WF_vars(OtherCommand)
    /\ WF_vars(Cleanup)

Spec == Init /\ [][Next]_vars
FairSpec == Spec /\ Fairness

-----------------------------------------------------------------------------
(***************************************************************************)
(* Properties                                                              *)
(***************************************************************************)

\* The assertion of IncrementLockout never fails: by the time a failure is
\* charged to lockoutAuth, whatever the session is bound to and whatever it
\* authorizes, some check has found lockoutAuth enabled.
LockoutAssertionHolds == phase # "failure"

\* A failed authorization that was answered, or whose command was cut off by a
\* power loss after the DA mark was stored, is in failedTries until time heals
\* it or it is reset, across any sequence of power losses (the exception is a
\* power loss followed by a refused TPM2_Startup, which consumes the mark).
FailuresAreCounted == phase = "ready" => gp.failedTries >= owed

\* Healing is paid for by time the TPM was powered since the last failure,
\* accumulated over orderly shutdowns; each tick pays for one try only.  This
\* supposes that no command runs between TPM2_Shutdown and the power-off.
HealingIsEarned == late \/ (earned >= 0 /\ lockEarned >= 0)

\* "If we know how much time was accumulated at the last orderly shutdown
\* subtract that from the saved timer values so that they effectively have the
\* accumulated values" (DAStartup): the same, whatever runs after the shutdown.
HealingIsAlwaysEarned == earned >= 0 /\ lockEarned >= 0

Locked == gp.failedTries >= gp.maxTries
LockoutAuthLocked == ~gp.lockOutAuthEnabled /\ gp.lockoutRecovery # 0

\* While power stays on, a lockout ends, and lockoutAuth comes back unless a
\* restart is required for it: no sequence of commands, refused authorizations
\* or parameter changes postpones DASelfHeal for ever.
LockoutEnds ==
    <>[](phase # "init") => /\ Locked ~> ~Locked
                            /\ LockoutAuthLocked ~> ~LockoutAuthLocked
=============================================================================
