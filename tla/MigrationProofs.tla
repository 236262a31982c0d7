-------------------------- MODULE MigrationProofs --------------------------
(***************************************************************************)
(* The storage lock of swtpm, for any number of processes, retries,        *)
(* commands and restarts; and, in its second part, the invariant on which  *)
(* HandoverProofs builds.                                                  *)
(*                                                                         *)
(* CommandsUnderLock is not inductive: the main loop skips the locking     *)
(* when storage_locked is set, and also when the NVRAM store is not there  *)
(* yet (TPM_RETRY). The inductive invariant adds why this is harmless: a   *)
(* running TPM has its NVRAM store, so a command reaches a running TPM     *)
(* only with storage_locked set, and storage_locked of a running TPM is    *)
(* never a leftover of a lock that was lost.                               *)
(***************************************************************************)
EXTENDS Migration, TLAPS

\* The types of the variables of Swtpm.
ProcTypes ==
    /\ mlp \in [Procs -> Params]
    /\ lib \in [Procs -> Memory]
    /\ dir \in Directory
    /\ pc \in [Procs -> Points]

\* Why the lock is held.
LockSafe ==
    \A p \in Procs :
        /\ Operates(p) => dir.lock = p
        /\ mlp[p].tpm_running => lib[p].nvram
        /\ mlp[p].tpm_running /\ At(p, "cmd") => mlp[p].storage_locked
        /\ At(p, "init") => lib[p].nvram

ProcInv == ProcTypes /\ LockSafe

\* A new process and a new TPM are well formed.
LEMMA FreshTypes == Manufactured \in Image /\ NoBlobs \in Blobs /\ FreshLib \in Memory
<1>1. Manufactured \in Image
  BY MigrationAssumption DEF Manufactured, Image
<1>2. NoBlobs \in Blobs
  BY DEF NoBlobs, Blobs
<1>3. QED
  BY <1>1, <1>2, MigrationAssumption DEF FreshLib, Memory

\* TPMLIB_Terminate leaves the memory of libtpms well formed.
LEMMA TerminatedType ==
    ASSUME NEW p \in Procs, lib[p] \in Memory
    PROVE  Terminated(p) \in Memory
<1>1. Manufactured \in Image /\ 0 \in 0..MaxCmds
  BY FreshTypes, MigrationAssumption
<1>2. QED
  BY <1>1, Zenon DEF Terminated, Memory

\* The automatic shutdown writes an image.
LEMMA FileType ==
    ASSUME NEW p \in Procs, lib[p] \in Memory, dir \in Directory
    PROVE  FileAfterShutdown(p) \in Image \cup {None}
BY Zenon DEF FileAfterShutdown, Memory, Directory, Image

\* TPM2_MainInit loads an image and a volatile state.
LEMMA LoadedTypes ==
    ASSUME NEW p \in Procs, lib[p] \in Memory,
           NEW image \in Image \cup {None},
           NEW file \in 0..MaxCmds \cup {None}
    PROVE  /\ LoadedPermanent(p, image) \in Image
           /\ LoadedVolatile(p, file) \in 0..MaxCmds
<1>1. lib[p].cached \in Blobs
  BY DEF Memory
<1>2. LoadedPermanent(p, image) \in Image
  BY <1>1, FreshTypes DEF LoadedPermanent, Blobs
<1>3. LoadedVolatile(p, file) \in 0..MaxCmds
  BY <1>1, MigrationAssumption DEF LoadedVolatile, Blobs
<1>4. QED
  BY <1>2, <1>3

\* A step of one process that takes the lock from no other.
LEMMA LockSafeStep ==
    ASSUME LockSafe, NEW p \in Procs,
           \A q \in Procs \ {p} :
               /\ mlp'[q] = mlp[q] /\ lib'[q] = lib[q] /\ pc'[q] = pc[q]
               /\ dir.lock = q => dir'.lock = q,
           mlp'[p].tpm_running /\ mlp'[p].storage_locked => dir'.lock = p,
           mlp'[p].tpm_running \/ pc'[p].at = "init" => lib'[p].nvram,
           mlp'[p].tpm_running /\ pc'[p].at = "cmd" => mlp'[p].storage_locked
    PROVE  LockSafe'
<1> SUFFICES ASSUME NEW q \in Procs
             PROVE  /\ Operates(q)' => dir'.lock = q
                    /\ mlp'[q].tpm_running => lib'[q].nvram
                    /\ mlp'[q].tpm_running /\ At(q, "cmd")' => mlp'[q].storage_locked
                    /\ At(q, "init")' => lib'[q].nvram
  BY DEF LockSafe
<1>1. CASE q = p
  BY <1>1, Zenon DEF Operates, At
<1>2. CASE q # p
  <2>1. mlp'[q] = mlp[q] /\ lib'[q] = lib[q] /\ pc'[q] = pc[q] /\ (dir.lock = q => dir'.lock = q)
    BY <1>2
  <2>2. QED
    BY <2>1 DEF LockSafe, Operates, At
<1>3. QED
  BY <1>1, <1>2

\* The parameters of a process that is stopped.
LEMMA StoppedType ==
    ASSUME NEW p \in Procs, mlp[p] \in Params
    PROVE  /\ Stopped(p) \in Params
           /\ ~Stopped(p).tpm_running
<1> DEFINE last == IF ShutsDown(p) THEN "Shutdown" ELSE mlp[p].lastCommand
<1>1. last \in {"NONE", "Shutdown", "ShutdownRefused", "Other"}
  BY DEF Params
<1>2. Stopped(p) = [mlp[p] EXCEPT !.lastCommand = last, !.tpm_running = FALSE]
  BY DEF Stopped
<1> HIDE DEF last
<1>3. QED
  BY <1>1, <1>2, Zenon DEF Params

\* The lock is free or the process has it, so no other TPM operates.
LEMMA LockTakenKeeps ==
    ASSUME ProcInv, NEW p \in Procs,
           LockTaken(p)
    PROVE  ProcInv'
<1>1. ProcTypes'
  <2>1. mlp' \in [Procs -> Params]
    <3>1. mlp[p] \in Params /\ 0 \in 0..MaxRetries
      BY SwtpmAssumption DEF ProcInv, ProcTypes
    <3>2. [mlp[p] EXCEPT !.locking_retries = 0, !.storage_locked = TRUE,
                         !.incoming_migration = FALSE] \in Params
      BY <3>1, Zenon DEF Params
    <3>3. QED
      BY <3>2 DEF ProcInv, ProcTypes, LockTaken
  <2>2. dir' \in Directory
    BY SwtpmAssumption, Zenon DEF ProcInv, ProcTypes, Directory, Memory, Blobs, Image,
        LockTaken, LockFree
  <2>3. pc' \in [Procs -> Points]
    BY SwtpmAssumption DEF ProcInv, ProcTypes, Params, Points, At, Goto, Point,
        LockTaken, LockFree
  <2>4. QED
    BY <2>1, <2>2, <2>3 DEF ProcInv, ProcTypes, LockTaken
<1>2. LockSafe'
  <2>1. /\ mlp \in [Procs -> Params] /\ pc \in [Procs -> Points] /\ dir \in Directory
        /\ mlp[p] \in Params /\ pc[p] \in Points
    BY DEF ProcInv, ProcTypes
  <2>2. dir'.lock = p
    BY <2>1 DEF LockTaken, Directory
  <2>3. /\ mlp'[p].storage_locked /\ mlp'[p].tpm_running = mlp[p].tpm_running
        /\ \A q \in Procs \ {p} : mlp'[q] = mlp[q]
    BY <2>1 DEF LockTaken, Params
  <2>4. /\ pc'[p].at = pc[p].then /\ pc'[p].at # "init"
        /\ \A q \in Procs \ {p} : pc'[q] = pc[q]
    BY <2>1 DEF LockTaken, Goto, Point, Points
  <2>5. \A q \in Procs \ {p} : dir.lock # q
    BY SwtpmAssumption DEF LockTaken, LockFree
  <2>6. lib' = lib /\ LockSafe
    BY DEF LockTaken, ProcInv
  <2>7. mlp'[p].tpm_running => lib'[p].nvram
    BY <2>3, <2>6, Zenon DEF LockSafe
  <2>8. QED
    BY <2>2, <2>3, <2>4, <2>5, <2>6, <2>7, LockSafeStep
<1>3. QED
  BY <1>1, <1>2 DEF ProcInv

\* A further attempt to lock is one fewer left.
LEMMA LockRetryKeeps ==
    ASSUME ProcInv, NEW p \in Procs,
           LockRetry(p)
    PROVE  ProcInv'
<1>1. ProcTypes'
  <2>1. pc' \in [Procs -> Points]
    BY SwtpmAssumption DEF ProcInv, ProcTypes, Params, Points, At, Goto, Point,
        LockRetry
  <2>2. QED
    BY <2>1 DEF ProcInv, ProcTypes, LockRetry
<1>2. LockSafe'
  BY SwtpmAssumption DEF ProcInv, ProcTypes, LockSafe, Operates, Params,
      Memory, Directory, Points, At, Goto, Point, LockRetry
<1>3. QED
  BY <1>1, <1>2 DEF ProcInv

\* Giving up leaves the TPM without storage_locked.
LEMMA LockFailedKeeps ==
    ASSUME ProcInv, NEW p \in Procs,
           LockFailed(p)
    PROVE  ProcInv'
<1>1. ProcTypes'
  <2>1. pc' \in [Procs -> Points]
    BY SwtpmAssumption DEF ProcInv, ProcTypes, Params, Points, At, Goto, Point,
        LockFailed
  <2>2. QED
    BY <2>1 DEF ProcInv, ProcTypes, LockFailed
<1>2. LockSafe'
  BY SwtpmAssumption DEF ProcInv, ProcTypes, LockSafe, Operates, Params,
      Memory, Directory, Points, At, Goto, Point, LockFailed
<1>3. QED
  BY <1>1, <1>2 DEF ProcInv

\* Until the lock is there the TPM of CMD_INIT does not run.
LEMMA CmdInitKeeps ==
    ASSUME ProcInv, NEW p \in Procs,
           CMD_INIT(p)
    PROVE  ProcInv'
<1>1. ProcTypes'
  <2>1. mlp' \in [Procs -> Params]
    <3>1. mlp[p] \in Params /\ Stopped(p) \in Params
      BY StoppedType DEF ProcInv, ProcTypes
    <3>2. (~mlp[p].incoming_migration) \in BOOLEAN
      OBVIOUS
    <3>3. [Stopped(p) EXCEPT !.storage_locked = ~mlp[p].incoming_migration] \in Params
      BY <3>1, <3>2, Zenon DEF Params
    <3>4. QED
      BY <3>3, Zenon DEF ProcInv, ProcTypes, CMD_INIT
  <2>2. lib' \in [Procs -> Memory]
    <3>1. FileAfterShutdown(p) \in Image \cup {None}
      BY FileType DEF ProcInv, ProcTypes
    <3>2. dir.volatilestate \in 0..MaxCmds \cup {None}
      BY DEF ProcInv, ProcTypes, Directory
    <3>3. QED
      BY <3>1, <3>2, FreshTypes, LoadedTypes DEF ProcInv, ProcTypes, CMD_INIT, Memory
  <2>3. dir' \in Directory
    <3>1. FileAfterShutdown(p) \in Image \cup {None}
      BY FileType DEF ProcInv, ProcTypes
    <3>2. dir.volatilestate \in 0..MaxCmds \cup {None}
      BY DEF ProcInv, ProcTypes, Directory
    <3>3. LoadedPermanent(p, FileAfterShutdown(p)) \in Image
      BY <3>1, <3>2, LoadedTypes, Zenon DEF ProcInv, ProcTypes
    <3>4. QED
      BY <3>1, <3>3 DEF ProcInv, ProcTypes, CMD_INIT, Directory
  <2>4. pc' \in [Procs -> Points]
    BY SwtpmAssumption DEF ProcInv, ProcTypes, Params, Points, At, Goto, Point,
        CMD_INIT, Stopped, FileAfterShutdown, LoadedPermanent, LoadedVolatile,
        Manufactured, NoBlobs
  <2>5. QED
    BY <2>1, <2>2, <2>3, <2>4 DEF ProcInv, ProcTypes
<1>2. LockSafe'
  BY SwtpmAssumption DEF ProcInv, ProcTypes, LockSafe, Operates, Params,
      Memory, Directory, Points, At, Goto, Point, CMD_INIT, Stopped,
      FileAfterShutdown, LoadedPermanent, LoadedVolatile, Manufactured, NoBlobs
<1>3. QED
  BY <1>1, <1>2 DEF ProcInv

\* The TPM runs with storage_locked only when tpmlib_start has the lock.
LEMMA InitLockedKeeps ==
    ASSUME ProcInv, NEW p \in Procs, NEW delete \in BOOLEAN,
           InitLocked(p, delete)
    PROVE  ProcInv'
<1>1. ProcTypes'
  <2>1. mlp' \in [Procs -> Params]
    <3>1. [mlp[p] EXCEPT !.tpm_running = TRUE] \in Params
      BY ZenonT(60) DEF ProcInv, ProcTypes, Params
    <3>2. QED
      BY <3>1 DEF ProcInv, ProcTypes, InitLocked
  <2>2. dir' \in Directory
    BY SwtpmAssumption, Zenon DEF ProcInv, ProcTypes, Directory, Memory, Blobs, Image,
        InitLocked, LockFree
  <2>3. pc' \in [Procs -> Points]
    BY SwtpmAssumption DEF ProcInv, ProcTypes, Params, Points, At, Goto, Point,
        InitLocked, LockFree
  <2>4. QED
    BY <2>1, <2>2, <2>3 DEF ProcInv, ProcTypes, InitLocked
<1>2. LockSafe'
  BY SwtpmAssumption DEF ProcInv, ProcTypes, LockSafe, Operates, Params,
      Memory, Directory, Points, At, Goto, Point, InitLocked, LockFree
<1>3. QED
  BY <1>1, <1>2 DEF ProcInv

\* storage_locked stays set, for a TPM that does not run.
LEMMA InitRefusedKeeps ==
    ASSUME ProcInv, NEW p \in Procs,
           InitRefused(p)
    PROVE  ProcInv'
<1>1. ProcTypes'
  <2>1. lib' \in [Procs -> Memory]
    BY TerminatedType DEF ProcInv, ProcTypes, InitRefused
  <2>2. pc' \in [Procs -> Points]
    BY SwtpmAssumption DEF ProcInv, ProcTypes, Params, Points, At, Goto, Point,
        InitRefused, Terminated, Manufactured
  <2>3. QED
    BY <2>1, <2>2 DEF ProcInv, ProcTypes, InitRefused
<1>2. LockSafe'
  BY SwtpmAssumption DEF ProcInv, ProcTypes, LockSafe, Operates, Params,
      Memory, Directory, Points, At, Goto, Point, InitRefused, Terminated,
      Manufactured
<1>3. QED
  BY <1>1, <1>2 DEF ProcInv

\* CMD_STOP and CMD_SHUTDOWN leave no running TPM.
LEMMA CmdStopKeeps ==
    ASSUME ProcInv, NEW p \in Procs, NEW next \in {"idle", "exit"},
           CMD_STOP(p, next)
    PROVE  ProcInv'
<1>1. ProcTypes'
  <2>1. mlp' \in [Procs -> Params]
    BY StoppedType, Zenon DEF ProcInv, ProcTypes, CMD_STOP
  <2>2. lib' \in [Procs -> Memory]
    BY TerminatedType DEF ProcInv, ProcTypes, CMD_STOP
  <2>3. dir' \in Directory
    BY FileType DEF ProcInv, ProcTypes, CMD_STOP, Directory
  <2>4. pc' \in [Procs -> Points]
    BY SwtpmAssumption DEF ProcInv, ProcTypes, Params, Points, At, Goto, Point,
        CMD_STOP, Stopped, Terminated, FileAfterShutdown, Manufactured
  <2>5. QED
    BY <2>1, <2>2, <2>3, <2>4 DEF ProcInv, ProcTypes
<1>2. LockSafe'
  BY SwtpmAssumption DEF ProcInv, ProcTypes, LockSafe, Operates, Params,
      Memory, Directory, Points, At, Goto, Point, CMD_STOP, Stopped,
      Terminated, FileAfterShutdown, Manufactured
<1>3. QED
  BY <1>1, <1>2 DEF ProcInv

\* The volatile state file is no concern of the lock.
LEMMA StoreVolatileKeeps ==
    ASSUME ProcInv, NEW p \in Procs, NEW next \in {"idle", "getvol"},
           StoreVolatile(p, next)
    PROVE  ProcInv'
<1>1. ProcTypes'
  <2>1. dir' \in Directory
    BY SwtpmAssumption, Zenon DEF ProcInv, ProcTypes, Directory, Memory, Blobs, Image,
        StoreVolatile
  <2>2. pc' \in [Procs -> Points]
    BY SwtpmAssumption DEF ProcInv, ProcTypes, Params, Points, At, Goto, Point,
        StoreVolatile
  <2>3. QED
    BY <2>1, <2>2 DEF ProcInv, ProcTypes, StoreVolatile
<1>2. LockSafe'
  BY SwtpmAssumption DEF ProcInv, ProcTypes, LockSafe, Operates, Params,
      Memory, Directory, Points, At, Goto, Point, StoreVolatile
<1>3. QED
  BY <1>1, <1>2 DEF ProcInv

\* Nor is its removal.
LEMMA ReturnVolatileKeeps ==
    ASSUME ProcInv, NEW p \in Procs,
           ReturnVolatile(p)
    PROVE  ProcInv'
<1>1. ProcTypes'
  <2>1. dir' \in Directory
    BY SwtpmAssumption, Zenon DEF ProcInv, ProcTypes, Directory, Memory, Blobs, Image,
        ReturnVolatile
  <2>2. pc' \in [Procs -> Points]
    BY SwtpmAssumption DEF ProcInv, ProcTypes, Params, Points, At, Goto, Point,
        ReturnVolatile
  <2>3. QED
    BY <2>1, <2>2 DEF ProcInv, ProcTypes, ReturnVolatile
<1>2. LockSafe'
  BY SwtpmAssumption DEF ProcInv, ProcTypes, LockSafe, Operates, Params,
      Memory, Directory, Points, At, Goto, Point, ReturnVolatile
<1>3. QED
  BY <1>1, <1>2 DEF ProcInv

\* The lock and storage_locked go together.
LEMMA ReturnSavestateKeeps ==
    ASSUME ProcInv, NEW p \in Procs,
           ReturnSavestate(p, TRUE)
    PROVE  ProcInv'
<1>1. ProcTypes'
  <2>1. mlp' \in [Procs -> Params]
    <3>1. mlp[p] \in Params /\ MaxRetries \in 0..MaxRetries
      BY SwtpmAssumption DEF ProcInv, ProcTypes
    <3>2. [mlp[p] EXCEPT !.storage_locked = FALSE,
                         !.locking_retries = MaxRetries] \in Params
      BY <3>1, Zenon DEF Params
    <3>3. QED
      BY <3>2 DEF ProcInv, ProcTypes, ReturnSavestate, mainloop_unlock_nvram
  <2>2. dir' \in Directory
    BY SwtpmAssumption, Zenon DEF ProcInv, ProcTypes, Directory, Memory, Blobs, Image,
        ReturnSavestate, mainloop_unlock_nvram
  <2>3. QED
    BY <2>1, <2>2 DEF ProcInv, ProcTypes, ReturnSavestate
<1>2. LockSafe'
  <2>1. mainloop_unlock_nvram(p) /\ lib' = lib /\ pc' = pc /\ At(p, "idle")
    BY DEF ReturnSavestate
  <2>2. QED
    BY <2>1, SwtpmAssumption DEF ProcInv, ProcTypes, LockSafe, Operates, Params,
        Memory, Directory, Points, At, Goto, Point, mainloop_unlock_nvram
<1>3. QED
  BY <1>1, <1>2 DEF ProcInv

\* CMD_SET_STATEBLOB finds no running TPM.
LEMMA SetStateblobKeeps ==
    ASSUME ProcInv, NEW p \in Procs,
           CMD_SET_STATEBLOB(p)
    PROVE  ProcInv'
<1>1. ProcTypes'
  <2>1. lib' \in [Procs -> Memory]
    <3>1. [lib[p] EXCEPT !.nvram = TRUE] \in Memory
      BY Zenon DEF ProcInv, ProcTypes, Memory
    <3>2. QED
      BY <3>1 DEF ProcInv, ProcTypes, CMD_SET_STATEBLOB
  <2>2. pc' \in [Procs -> Points]
    BY SwtpmAssumption DEF ProcInv, ProcTypes, Params, Points, At, Goto, Point,
        CMD_SET_STATEBLOB, EnsureLocked
  <2>3. QED
    BY <2>1, <2>2 DEF ProcInv, ProcTypes, CMD_SET_STATEBLOB
<1>2. LockSafe'
  BY SwtpmAssumption DEF ProcInv, ProcTypes, LockSafe, Operates, Params,
      Memory, Directory, Points, At, Goto, Point, CMD_SET_STATEBLOB,
      EnsureLocked
<1>3. QED
  BY <1>1, <1>2 DEF ProcInv

\* A permanent blob is cached.
LEMMA SetPermanentKeeps ==
    ASSUME ProcInv, NEW p \in Procs, NEW blob \in Image \cup {None},
           SetState(p, "PERMANENT", blob)
    PROVE  ProcInv'
<1>1. ProcTypes'
  <2>1. lib' \in [Procs -> Memory]
    BY DEF ProcInv, ProcTypes, SetState, Memory, Blobs
  <2>2. pc' \in [Procs -> Points]
    BY SwtpmAssumption DEF ProcInv, ProcTypes, Params, Points, At, Goto, Point,
        SetState
  <2>3. QED
    BY <2>1, <2>2 DEF ProcInv, ProcTypes, SetState
<1>2. LockSafe'
  BY SwtpmAssumption DEF ProcInv, ProcTypes, LockSafe, Operates, Params,
      Memory, Directory, Points, At, Goto, Point, SetState
<1>3. QED
  BY <1>1, <1>2 DEF ProcInv

\* A volatile blob is cached.
LEMMA SetVolatileKeeps ==
    ASSUME ProcInv, NEW p \in Procs, NEW blob \in 0..MaxCmds \cup {None},
           SetState(p, "VOLATILE", blob)
    PROVE  ProcInv'
<1>1. ProcTypes'
  <2>1. lib' \in [Procs -> Memory]
    BY ZenonT(60) DEF ProcInv, ProcTypes, SetState, Memory, Blobs
  <2>2. pc' \in [Procs -> Points]
    BY SwtpmAssumption DEF ProcInv, ProcTypes, Params, Points, At, Goto, Point,
        SetState
  <2>3. QED
    BY <2>1, <2>2 DEF ProcInv, ProcTypes, SetState
<1>2. LockSafe'
  BY SwtpmAssumption DEF ProcInv, ProcTypes, LockSafe, Operates, Params,
      Memory, Directory, Points, At, Goto, Point, SetState
<1>3. QED
  BY <1>1, <1>2 DEF ProcInv

\* A migration that is cancelled leaves the process as it is, also when it is
\* the answer to the last request that gets lost.
LEMMA CancelOnly ==
    ASSUME NEW p \in Procs, Cancel(p)
    PROVE  /\ At(p, "idle") /\ UNCHANGED procVars
           /\ \E stage \in Sending : VM(p, stage, "run")
           /\ stream' = None /\ UNCHANGED <<hist, starts>>
BY Zenon DEF Cancel, ReturnSavestate, procVars, Sending

\* The cached blobs are dropped, or stay.
LEMMA SetStateRefusedKeeps ==
    ASSUME ProcInv, NEW p \in Procs, NEW loads \in BOOLEAN,
           SetStateRefused(p, loads)
    PROVE  ProcInv'
<1>1. ProcTypes'
  <2>1. lib' \in [Procs -> Memory]
    BY SwtpmAssumption, ZenonT(60) DEF ProcInv, ProcTypes, Directory, Memory, Blobs, Image,
        SetStateRefused, NoBlobs
  <2>2. pc' \in [Procs -> Points]
    BY SwtpmAssumption DEF ProcInv, ProcTypes, Params, Points, At, Goto, Point,
        SetStateRefused, NoBlobs
  <2>3. QED
    BY <2>1, <2>2 DEF ProcInv, ProcTypes, SetStateRefused
<1>2. LockSafe'
  BY SwtpmAssumption DEF ProcInv, ProcTypes, LockSafe, Operates, Params,
      Memory, Directory, Points, At, Goto, Point, SetStateRefused, NoBlobs
<1>3. QED
  BY <1>1, <1>2 DEF ProcInv

\* CMD_LOCK_STORAGE sets the number of attempts.
LEMMA LockStorageKeeps ==
    ASSUME ProcInv, NEW p \in Procs,
           CMD_LOCK_STORAGE(p, MaxRetries)
    PROVE  ProcInv'
<1>1. ProcTypes'
  <2>1. mlp' \in [Procs -> Params]
    BY SwtpmAssumption DEF ProcInv, ProcTypes, Params, CMD_LOCK_STORAGE,
        EnsureLocked
  <2>2. pc' \in [Procs -> Points]
    BY SwtpmAssumption DEF ProcInv, ProcTypes, Params, Points, At, Goto, Point,
        CMD_LOCK_STORAGE, EnsureLocked
  <2>3. QED
    BY <2>1, <2>2 DEF ProcInv, ProcTypes, CMD_LOCK_STORAGE
<1>2. LockSafe'
  BY SwtpmAssumption DEF ProcInv, ProcTypes, LockSafe, Operates, Params,
      Memory, Directory, Points, At, Goto, Point, CMD_LOCK_STORAGE,
      EnsureLocked
<1>3. QED
  BY <1>1, <1>2 DEF ProcInv

\* A command of a running TPM, which has its NVRAM store, waits for the lock.
LEMMA DataCommandKeeps ==
    ASSUME ProcInv, NEW p \in Procs,
           DataCommand(p)
    PROVE  ProcInv'
<1>1. ProcTypes'
  <2>1. pc' \in [Procs -> Points]
    BY SwtpmAssumption DEF ProcInv, ProcTypes, Params, Points, At, Goto, Point,
        DataCommand, EnsureLocked
  <2>2. QED
    BY <2>1 DEF ProcInv, ProcTypes, DataCommand
<1>2. LockSafe'
  BY SwtpmAssumption DEF ProcInv, ProcTypes, LockSafe, Operates, Params,
      Memory, Directory, Points, At, Goto, Point, DataCommand, EnsureLocked
<1>3. QED
  BY <1>1, <1>2 DEF ProcInv

\* A command changes the TPM and the permanent state file.
LEMMA ProcessKeeps ==
    ASSUME ProcInv, NEW p \in Procs, NEW ordinal \in {"Shutdown", "ShutdownRefused", "Other"},
           NEW perm \in Image, NEW ram \in 0..MaxCmds,
           Process(p, ordinal, perm, ram)
    PROVE  ProcInv'
<1>1. ProcTypes'
  <2>1. mlp' \in [Procs -> Params]
    BY SwtpmAssumption DEF ProcInv, ProcTypes, Params, Process
  <2>2. lib' \in [Procs -> Memory]
    <3>1. [lib[p] EXCEPT !.perm = perm, !.ram = ram] \in Memory
      BY Zenon DEF ProcInv, ProcTypes, Memory
    <3>2. QED
      BY <3>1 DEF ProcInv, ProcTypes, Process
  <2>3. dir' \in Directory
    BY SwtpmAssumption, Zenon DEF ProcInv, ProcTypes, Directory, Memory, Blobs, Image,
        Process
  <2>4. pc' \in [Procs -> Points]
    BY SwtpmAssumption DEF ProcInv, ProcTypes, Params, Points, At, Goto, Point,
        Process
  <2>5. QED
    BY <2>1, <2>2, <2>3, <2>4 DEF ProcInv, ProcTypes
<1>2. LockSafe'
  BY SwtpmAssumption DEF ProcInv, ProcTypes, LockSafe, Operates, Params,
      Memory, Directory, Points, At, Goto, Point, Process
<1>3. QED
  BY <1>1, <1>2 DEF ProcInv

\* A command without a running TPM changes nothing.
LEMMA FatalResponseKeeps ==
    ASSUME ProcInv, NEW p \in Procs,
           FatalResponse(p)
    PROVE  ProcInv'
<1>1. ProcTypes'
  <2>1. pc' \in [Procs -> Points]
    BY SwtpmAssumption DEF ProcInv, ProcTypes, Params, Points, At, Goto, Point,
        FatalResponse
  <2>2. QED
    BY <2>1 DEF ProcInv, ProcTypes, FatalResponse
<1>2. LockSafe'
  BY SwtpmAssumption DEF ProcInv, ProcTypes, LockSafe, Operates, Params,
      Memory, Directory, Points, At, Goto, Point, FatalResponse
<1>3. QED
  BY <1>1, <1>2 DEF ProcInv

\* A new process has no lock and no TPM.
LEMMA StartKeeps ==
    ASSUME ProcInv, NEW p \in Procs, NEW incoming \in BOOLEAN, NEW noShutdown \in BOOLEAN,
           Start(p, incoming, noShutdown)
    PROVE  ProcInv'
<1>1. ProcTypes'
  <2>1. mlp' \in [Procs -> Params]
    BY SwtpmAssumption DEF ProcInv, ProcTypes, Params, Start, FreshParams
  <2>2. pc' \in [Procs -> Points]
    BY SwtpmAssumption DEF ProcInv, ProcTypes, Params, Points, At, Goto, Point,
        Start, FreshParams
  <2>3. QED
    BY <2>1, <2>2 DEF ProcInv, ProcTypes, Start
<1>2. LockSafe'
  BY SwtpmAssumption DEF ProcInv, ProcTypes, LockSafe, Operates, Params,
      Memory, Directory, Points, At, Goto, Point, Start, FreshParams
<1>3. QED
  BY <1>1, <1>2 DEF ProcInv

\* The end of main() closes the lock file with the TPM.
LEMMA ExitKeeps ==
    ASSUME ProcInv, NEW p \in Procs,
           Exit(p)
    PROVE  ProcInv'
<1>1. ProcTypes'
  <2>1. mlp' \in [Procs -> Params]
    BY SwtpmAssumption DEF ProcInv, ProcTypes, Params, Exit, Gone, FreshParams,
        FreshLib, FileAfterShutdown, Manufactured, NoBlobs
  <2>2. lib' \in [Procs -> Memory]
    BY FreshTypes DEF ProcInv, ProcTypes, Exit
  <2>3. dir' \in Directory
    BY FileType, Zenon DEF ProcInv, ProcTypes, Exit, Directory
  <2>4. pc' \in [Procs -> Points]
    BY SwtpmAssumption DEF ProcInv, ProcTypes, Params, Points, At, Goto, Point,
        Exit, Gone, FreshParams, FreshLib, FileAfterShutdown, Manufactured,
        NoBlobs
  <2>5. QED
    BY <2>1, <2>2, <2>3, <2>4 DEF ProcInv, ProcTypes
<1>2. LockSafe'
  BY SwtpmAssumption DEF ProcInv, ProcTypes, LockSafe, Operates, Params,
      Memory, Directory, Points, At, Goto, Point, Exit, Gone, FreshParams,
      FreshLib, FileAfterShutdown, Manufactured, NoBlobs
<1>3. QED
  BY <1>1, <1>2 DEF ProcInv

\* So does the kernel.
LEMMA KillKeeps ==
    ASSUME ProcInv, NEW p \in Procs,
           Kill(p)
    PROVE  ProcInv'
<1>1. ProcTypes'
  <2>1. mlp' \in [Procs -> Params]
    BY SwtpmAssumption DEF ProcInv, ProcTypes, Params, Kill, Gone, FreshParams,
        FreshLib, Manufactured, NoBlobs
  <2>2. lib' \in [Procs -> Memory]
    BY FreshTypes DEF ProcInv, ProcTypes, Kill
  <2>3. dir' \in Directory
    BY SwtpmAssumption, Zenon DEF ProcInv, ProcTypes, Directory, Memory, Blobs, Image,
        Kill, Gone, FreshParams, FreshLib, Manufactured, NoBlobs
  <2>4. pc' \in [Procs -> Points]
    BY SwtpmAssumption DEF ProcInv, ProcTypes, Params, Points, At, Goto, Point,
        Kill, Gone, FreshParams, FreshLib, Manufactured, NoBlobs
  <2>5. QED
    BY <2>1, <2>2, <2>3, <2>4 DEF ProcInv, ProcTypes
<1>2. LockSafe'
  BY SwtpmAssumption DEF ProcInv, ProcTypes, LockSafe, Operates, Params,
      Memory, Directory, Points, At, Goto, Point, Kill, Gone, FreshParams,
      FreshLib, Manufactured, NoBlobs
<1>3. QED
  BY <1>1, <1>2 DEF ProcInv

-----------------------------------------------------------------------------
(* The clients.                                                            *)

\* The types of the variables of Migration.
ClientTypes ==
    /\ vm \in [Procs -> Stages]
    /\ stream \in [blobs : Blobs, to : Procs] \cup {None}
    /\ hist \in [n : 0..MaxCmds, nv : 0..MaxCmds, ram : 0..MaxCmds]
    /\ starts \in 0..MaxStarts

\* The inductive invariant.
Inv == ProcInv /\ ClientTypes

\* What is left of the stream when a client goes is a stream or nothing.
LEMMA StreamWithoutType ==
    ASSUME ClientTypes, NEW p \in Procs
    PROVE  StreamWithout(p) \in [blobs : Blobs, to : Procs] \cup {None}
BY DEF StreamWithout, ClientTypes

\* The next command to change the TPM has a number within the bound.
LEMMA NextNumber ==
    ASSUME ClientTypes, hist.n < MaxCmds
    PROVE  hist.n + 1 \in 0..MaxCmds
BY MigrationAssumption DEF ClientTypes

\* The steps of a process keep the invariant, action by action.
LEMMA WorksKeep ==
    ASSUME Inv, NEW p \in Procs, Works(p)
    PROVE  Inv'
<1>1. CASE Booted(p)
  <2>1. ProcInv'
    BY <1>1, InitLockedKeeps, Zenon DEF Inv, Booted
  <2>2. ClientTypes'
    BY <1>1 DEF Inv, ClientTypes, clientVars, VM, Stages, Sending, Waiting,
        Booted
  <2>3. QED
    BY <2>1, <2>2 DEF Inv
<1>2. CASE WarmedUp(p)
  <2>1. ProcInv'
    BY <1>2, InitLockedKeeps, Zenon DEF Inv, WarmedUp
  <2>2. ClientTypes'
    BY <1>2 DEF Inv, ClientTypes, clientVars, VM, Stages, Sending, Waiting,
        WarmedUp
  <2>3. QED
    BY <2>1, <2>2 DEF Inv
<1>3. CASE Resumed(p)
  <2>1. ProcInv'
    BY <1>3, InitLockedKeeps, Zenon DEF Inv, Resumed
  <2>2. ClientTypes'
    BY <1>3 DEF Inv, ClientTypes, clientVars, VM, Stages, Sending, Waiting,
        Resumed
  <2>3. QED
    BY <2>1, <2>2 DEF Inv
<1>4. CASE InitFailed(p)
  <2>1. ProcInv'
    BY <1>4, InitRefusedKeeps DEF Inv, InitFailed
  <2>2. ClientTypes'
    BY <1>4 DEF Inv, ClientTypes, clientVars, VM, Stages, Sending, Waiting,
        InitFailed
  <2>3. QED
    BY <2>1, <2>2 DEF Inv
<1>5. CASE Locked(p)
  <2>1. ProcInv'
    BY <1>5, LockTakenKeeps DEF Inv, Locked
  <2>2. ClientTypes'
    BY <1>5 DEF Inv, ClientTypes, clientVars, VM, Stages, Sending, Waiting,
        Locked
  <2>3. QED
    BY <2>1, <2>2 DEF Inv
<1>6. CASE LockWaits(p)
  <2>1. ProcInv'
    BY <1>6, LockRetryKeeps DEF Inv, LockWaits
  <2>2. ClientTypes'
    BY <1>6 DEF Inv, ClientTypes, clientVars, VM, Stages, Sending, Waiting,
        LockWaits
  <2>3. QED
    BY <2>1, <2>2 DEF Inv
<1>7. CASE NotLocked(p)
  <2>1. ProcInv'
    BY <1>7, LockFailedKeeps DEF Inv, NotLocked
  <2>2. ClientTypes'
    BY <1>7 DEF Inv, ClientTypes, clientVars, VM, Stages, Sending, Waiting,
        NotLocked
  <2>3. QED
    BY <2>1, <2>2 DEF Inv
<1>8. CASE GuestStarts(p)
  <2>1. hist.n + 1 \in 0..MaxCmds
    BY <1>8, NextNumber DEF Inv, GuestStarts
  <2>2. [n |-> hist.n + 1, orderly |-> FALSE] \in Image
    BY <2>1 DEF Image
  <2>3. ProcInv'
    BY <1>8, <2>1, <2>2, ProcessKeeps DEF Inv, GuestStarts, Startup
  <2>4. ClientTypes'
    BY <1>8, <2>1 DEF Inv, ClientTypes, GuestStarts
  <2>5. QED
    BY <2>3, <2>4 DEF Inv
<1>9. CASE GuestChanges(p)
  <2>1. hist.n + 1 \in 0..MaxCmds
    BY <1>9, NextNumber DEF Inv, GuestChanges
  <2>2. /\ [n |-> hist.n + 1, orderly |-> FALSE] \in Image
        /\ lib[p].perm \in Image
    BY <2>1 DEF Inv, ProcInv, ProcTypes, Memory, Image
  <2>3. PICK writes \in BOOLEAN : Change(p, hist.n + 1, writes)
    BY <1>9 DEF GuestChanges
  <2>4. ProcInv'
    BY <2>1, <2>2, <2>3, ProcessKeeps DEF Inv, Change
  <2>5. ClientTypes'
    BY <1>9, <2>1 DEF Inv, ClientTypes, GuestChanges
  <2>6. QED
    BY <2>4, <2>5 DEF Inv
<1>10. CASE GuestOther(p)
  <2>1. /\ lib[p].perm \in Image /\ lib[p].ram \in 0..MaxCmds
        /\ [lib[p].perm EXCEPT !.orderly = TRUE] \in Image
    BY Zenon DEF Inv, ProcInv, ProcTypes, Memory, Image
  <2>2. ProcInv'
    <3>1. CASE Shutdown(p)
      BY <3>1, <2>1, ProcessKeeps DEF Inv, Shutdown
    <3>2. CASE ShutdownRefused(p)
      BY <3>2, <2>1, ProcessKeeps DEF Inv, ShutdownRefused
    <3>3. CASE Query(p)
      BY <3>3, <2>1, ProcessKeeps DEF Inv, Query
    <3>4. CASE FatalResponse(p)
      BY <3>4, FatalResponseKeeps DEF Inv
    <3>5. QED
      BY <1>10, <3>1, <3>2, <3>3, <3>4 DEF GuestOther
  <2>3. ClientTypes'
    BY <1>10 DEF Inv, ClientTypes, clientVars, GuestOther
  <2>4. QED
    BY <2>2, <2>3 DEF Inv
<1>11. CASE GotVolatile(p)
  <2>1. ProcInv'
    BY <1>11, ReturnVolatileKeeps DEF Inv, GotVolatile
  <2>2. ClientTypes'
    BY <1>11 DEF Inv, ClientTypes, clientVars, VM, Stages, Sending, Waiting,
        GotVolatile, Send, Blobs, ProcInv, ProcTypes, Directory, ReturnVolatile
  <2>3. QED
    BY <2>1, <2>2 DEF Inv
<1>12. CASE PermanentSet(p)
  <2>1. stream.blobs.PERMANENT \in Image \cup {None}
    BY <1>12 DEF Inv, ClientTypes, PermanentSet, Blobs
  <2>2. ProcInv'
    BY <1>12, <2>1, SetPermanentKeeps DEF Inv, PermanentSet
  <2>3. ClientTypes'
    BY <1>12 DEF Inv, ClientTypes, clientVars, VM, Stages, PermanentSet
  <2>4. QED
    BY <2>2, <2>3 DEF Inv
<1>13. CASE VolatileSet(p)
  <2>1. stream.blobs.VOLATILE \in 0..MaxCmds \cup {None}
    BY <1>13 DEF Inv, ClientTypes, VolatileSet, Blobs
  <2>2. ProcInv'
    BY <1>13, <2>1, SetVolatileKeeps, Zenon DEF Inv, VolatileSet
  <2>3. ClientTypes'
    BY <1>13 DEF Inv, ClientTypes, clientVars, VM, Stages, VolatileSet
  <2>4. QED
    BY <2>2, <2>3 DEF Inv
<1>14. CASE BlobRefused(p)
  <2>1. ProcInv'
    BY <1>14, SetStateRefusedKeeps DEF Inv, BlobRefused
  <2>2. ClientTypes'
    BY <1>14 DEF Inv, ClientTypes, clientVars, VM, Stages, Sending, Waiting,
        BlobRefused
  <2>3. QED
    BY <2>1, <2>2 DEF Inv
<1>15. CASE Ended(p)
  <2>1. ProcInv'
    BY <1>15, ExitKeeps DEF Inv, Ended
  <2>2. ClientTypes'
    BY <1>15, StreamWithoutType DEF Inv, ClientTypes, clientVars, VM, Stages,
        Sending, Waiting, Ended
  <2>3. QED
    BY <2>1, <2>2 DEF Inv
<1>16. QED
  BY <1>1, <1>2, <1>3, <1>4, <1>5, <1>6, <1>7, <1>8, <1>9, <1>10, <1>11, <1>12,
      <1>13, <1>14, <1>15 DEF Works, Locks

\* The requests of a client keep the invariant.
LEMMA AsksKeep ==
    ASSUME Inv, NEW p \in Procs, Asks(p)
    PROVE  Inv'
<1>1. CASE Boot(p)
  <2>1. ProcInv'
    BY <1>1, CmdInitKeeps DEF Inv, Boot
  <2>2. ClientTypes'
    BY <1>1 DEF Inv, ClientTypes, clientVars, VM, Stages, Sending, Waiting,
        Boot
  <2>3. QED
    BY <2>1, <2>2 DEF Inv
<1>2. CASE Stop(p)
  <2>1. ProcInv'
    BY <1>2, CmdStopKeeps DEF Inv, Stop
  <2>2. ClientTypes'
    BY <1>2 DEF Inv, ClientTypes, clientVars, VM, Stages, Sending, Waiting,
        Stop
  <2>3. QED
    BY <2>1, <2>2 DEF Inv
<1>3. CASE Store(p)
  <2>1. ProcInv'
    BY <1>3, StoreVolatileKeeps DEF Inv, Store
  <2>2. ClientTypes'
    BY <1>3 DEF Inv, ClientTypes, clientVars, VM, Stages, Sending, Waiting,
        Store
  <2>3. QED
    BY <2>1, <2>2 DEF Inv
<1>4. CASE Guest(p)
  <2>1. ProcInv'
    BY <1>4, DataCommandKeeps DEF Inv, Guest
  <2>2. ClientTypes'
    BY <1>4 DEF Inv, ClientTypes, clientVars, VM, Stages, Sending, Waiting,
        Guest
  <2>3. QED
    BY <2>1, <2>2 DEF Inv
<1>5. CASE MigrateOut(p)
  <2>1. ProcInv'
    BY <1>5 DEF Inv, ProcInv, ProcTypes, LockSafe, Operates, At, MigrateOut,
        procVars
  <2>2. ClientTypes'
    BY <1>5, FreshTypes DEF Inv, ClientTypes, clientVars, VM, Stages, Sending,
        Waiting, MigrateOut, Others
  <2>3. QED
    BY <2>1, <2>2 DEF Inv
<1>6. CASE GetPermanent(p)
  <2>1. ProcInv'
    BY <1>6 DEF Inv, ProcInv, ProcTypes, LockSafe, Operates, At, GetPermanent,
        ReturnPermanent, procVars
  <2>2. ClientTypes'
    BY <1>6 DEF Inv, ClientTypes, clientVars, VM, Stages, Sending, Waiting,
        GetPermanent, Send, Blobs, ProcInv, ProcTypes, Directory
  <2>3. QED
    BY <2>1, <2>2 DEF Inv
<1>7. CASE GetVolatile(p)
  <2>1. ProcInv'
    BY <1>7, StoreVolatileKeeps DEF Inv, GetVolatile
  <2>2. ClientTypes'
    BY <1>7 DEF Inv, ClientTypes, clientVars, VM, Stages, Sending, Waiting,
        GetVolatile
  <2>3. QED
    BY <2>1, <2>2 DEF Inv
<1>8. CASE GetSavestate(p)
  <2>1. ProcInv'
    BY <1>8, ReturnSavestateKeeps DEF Inv, GetSavestate
  <2>2. ClientTypes'
    BY <1>8 DEF Inv, ClientTypes, clientVars, VM, Stages, Sending, Waiting,
        GetSavestate
  <2>3. QED
    BY <2>1, <2>2 DEF Inv
<1>9. CASE Cancel(p)
  <2>1. ProcInv'
    BY <1>9, CancelOnly DEF Inv, ProcInv, ProcTypes, LockSafe, Operates, At, procVars
  <2>2. ClientTypes'
    BY <1>9, CancelOnly DEF Inv, ClientTypes, VM, Stages, Sending, Waiting
  <2>3. QED
    BY <2>1, <2>2 DEF Inv
<1>10. CASE FallBack(p)
  <2>1. ProcInv'
    BY <1>10 DEF Inv, ProcInv, ProcTypes, LockSafe, Operates, At, FallBack,
        procVars
  <2>2. ClientTypes'
    BY <1>10 DEF Inv, ClientTypes, clientVars, VM, Stages, Sending, Waiting,
        FallBack
  <2>3. QED
    BY <2>1, <2>2 DEF Inv
<1>11. CASE FallBackLocked(p)
  <2>1. ProcInv'
    BY <1>11, LockStorageKeeps DEF Inv, FallBackLocked
  <2>2. ClientTypes'
    BY <1>11 DEF Inv, ClientTypes, clientVars, VM, Stages, Sending, Waiting,
        FallBackLocked
  <2>3. QED
    BY <2>1, <2>2 DEF Inv
<1>12. CASE WarmUp(p)
  <2>1. ProcInv'
    BY <1>12, CmdInitKeeps DEF Inv, WarmUp
  <2>2. ClientTypes'
    BY <1>12 DEF Inv, ClientTypes, clientVars, VM, Stages, Sending, Waiting,
        WarmUp
  <2>3. QED
    BY <2>1, <2>2 DEF Inv
<1>13. CASE CoolDown(p)
  <2>1. ProcInv'
    BY <1>13, CmdStopKeeps DEF Inv, CoolDown
  <2>2. ClientTypes'
    BY <1>13 DEF Inv, ClientTypes, clientVars, VM, Stages, Sending, Waiting,
        CoolDown
  <2>3. QED
    BY <2>1, <2>2 DEF Inv
<1>14. CASE SetPermanent(p)
  <2>1. ProcInv'
    BY <1>14, SetStateblobKeeps DEF Inv, SetPermanent
  <2>2. ClientTypes'
    BY <1>14 DEF Inv, ClientTypes, clientVars, VM, Stages, Sending, Waiting,
        SetPermanent
  <2>3. QED
    BY <2>1, <2>2 DEF Inv
<1>15. CASE SetVolatile(p)
  <2>1. ProcInv'
    BY <1>15, SetStateblobKeeps DEF Inv, SetVolatile
  <2>2. ClientTypes'
    BY <1>15 DEF Inv, ClientTypes, clientVars, VM, Stages, Sending, Waiting,
        SetVolatile
  <2>3. QED
    BY <2>1, <2>2 DEF Inv
<1>16. CASE Resume(p)
  <2>1. ProcInv'
    BY <1>16, CmdInitKeeps DEF Inv, Resume
  <2>2. ClientTypes'
    BY <1>16 DEF Inv, ClientTypes, clientVars, VM, Stages, Sending, Waiting,
        Resume
  <2>3. QED
    BY <2>1, <2>2 DEF Inv
<1>17. CASE Quit(p)
  <2>1. ProcInv'
    BY <1>17, CmdStopKeeps DEF Inv, Quit
  <2>2. ClientTypes'
    BY <1>17, StreamWithoutType DEF Inv, ClientTypes, clientVars, VM, Stages,
        Sending, Waiting, Quit
  <2>3. QED
    BY <2>1, <2>2 DEF Inv
<1>18. QED
  BY <1>1, <1>2, <1>3, <1>4, <1>5, <1>6, <1>7, <1>8, <1>9, <1>10, <1>11, <1>12,
      <1>13, <1>14, <1>15, <1>16, <1>17 DEF Asks

\* So does the end of a process that is killed,
LEMMA KilledKeeps ==
    ASSUME Inv, NEW p \in Procs, Killed(p)
    PROVE  Inv'
<1>1. ProcInv'
  BY KillKeeps DEF Inv, Killed
<1>2. ClientTypes'
  BY StreamWithoutType DEF Inv, ClientTypes, Stages, Killed
<1>3. QED
  BY <1>1, <1>2 DEF Inv

\* and the start of a new one.
LEMMA RestartKeeps ==
    ASSUME Inv, NEW p \in Procs, Restart(p)
    PROVE  Inv'
<1>1. mlp[p].disable_auto_shutdown \in BOOLEAN
  BY DEF Inv, ProcInv, ProcTypes, Params
<1>2. ProcInv'
  BY <1>1, StartKeeps DEF Inv, Restart
<1>3. ClientTypes'
  BY MigrationAssumption DEF Inv, ClientTypes, VM, Stages, Waiting, Restart
<1>4. QED
  BY <1>2, <1>3 DEF Inv

\* The processes as main() starts them.
LEMMA InitEstablishes == Init => Inv
<1> SUFFICES ASSUME Init PROVE Inv
  OBVIOUS
<1>1. ProcTypes
  <2>1. mlp \in [Procs -> Params]
    BY SwtpmAssumption DEF Init, FreshParams, Params
  <2>2. lib \in [Procs -> Memory]
    BY FreshTypes DEF Init
  <2>3. dir \in Directory
    BY DEF Init, Directory
  <2>4. pc \in [Procs -> Points]
    BY SwtpmAssumption DEF Init, Point, Points
  <2>5. QED
    BY <2>1, <2>2, <2>3, <2>4, ZenonT(60) DEF ProcTypes
<1>2. LockSafe
  <2>1. \A p \in Procs : ~mlp[p].tpm_running /\ pc[p].at = "idle"
    <3>1. PICK noShutdown \in BOOLEAN :
             mlp = [p \in Procs |-> FreshParams(p # First, noShutdown)]
      BY DEF Init
    <3>2. \A p \in Procs : ~mlp[p].tpm_running
      BY <3>1, Zenon DEF FreshParams
    <3>3. \A p \in Procs : pc[p].at = "idle"
      BY Zenon DEF Init, Point
    <3>4. QED
      BY <3>2, <3>3, Zenon
  <2>2. QED
    BY <2>1, Zenon DEF LockSafe, Operates, At
<1>3. ClientTypes
  BY MigrationAssumption DEF Init, ClientTypes, Stages, Waiting
<1>4. QED
  BY <1>1, <1>2, <1>3 DEF Inv, ProcInv

\* The invariant holds in every reachable state.
THEOREM Invariance == Spec => []Inv
<1>1. Init => Inv
  BY InitEstablishes
<1>2. Inv /\ [Next]_vars => Inv'
  <2> SUFFICES ASSUME Inv, [Next]_vars PROVE Inv'
    OBVIOUS
  <2>1. CASE Next
    BY <2>1, WorksKeep, AsksKeep, KilledKeeps, RestartKeeps DEF Next
  <2>2. CASE UNCHANGED vars
    BY <2>2 DEF vars, Inv, ProcInv, ProcTypes, LockSafe, Operates, At, ClientTypes
  <2>3. QED
    BY <2>1, <2>2
<1>3. QED
  BY <1>1, <1>2, PTL DEF Spec

\* Type correctness: in particular mainloop_ensure_locked_storage never makes
\* more attempts than DEFAULT_LOCKING_RETRIES.
THEOREM TypeCorrectness == Spec => []TypeOK
<1>1. Inv => TypeOK
  BY DEF Inv, ProcInv, ProcTypes, ClientTypes, TypeOK
<1>2. QED
  BY <1>1, Invariance, PTL

\* mainLoop gives a command to a running TPM only under the storage lock, with
\* any number of processes around the state directory.
THEOREM LockedCommands == Spec => []CommandsUnderLock
<1>1. Inv => CommandsUnderLock
  BY DEF Inv, ProcInv, LockSafe, Operates, CommandsUnderLock
<1>2. QED
  BY <1>1, Invariance, PTL

\* Hence no two of them ever have a running TPM with storage_locked set.
THEOREM OneOperates ==
    Spec => [](\A p, q \in Procs : Operates(p) /\ Operates(q) => p = q)
<1>1. Inv => \A p, q \in Procs : Operates(p) /\ Operates(q) => p = q
  BY DEF Inv, ProcInv, LockSafe
<1>2. QED
  BY <1>1, Invariance, PTL

-----------------------------------------------------------------------------
(***************************************************************************)
(* Why a virtual machine that moves from host to host keeps its TPM: the   *)
(* inductive invariant Safe, the effect of each operation of swtpm field   *)
(* by field, and the steps that change no TPM. HandoverProofs has the      *)
(* others, and the theorems.                                               *)
(*                                                                         *)
(* LinearHistory and StorageIsCurrent speak of the process that operates   *)
(* under the storage lock. They are not inductive, for the state that this *)
(* process has next may be, for now, in the blobs of a stream, in the      *)
(* cache of a destination, in a volatile state file, or in the memory of a *)
(* source that has released the lock and may fall back. The invariant says *)
(* of each of these places when it is still good: a process is Entitled to *)
(* go on, and the stream Intact, until another machine has the lock as its *)
(* own (Owns). What is good is current (Current), and as orderly as the    *)
(* last TPM2_Shutdown left it (Tidy). Local ties the stage of a client to  *)
(* what its process is doing.                                              *)
(*                                                                         *)
(* A step of one process cannot harm the others when it takes its turn     *)
(* (Turn): it touches the stream only when it is alone or is the           *)
(* destination, the volatile state file only when no other has the lock,   *)
(* and gives up the lock it owns only when it is alone. Most steps are     *)
(* Quiet besides, and QuietStep settles them.                              *)
(***************************************************************************)

\* The stages in which the TPM of a process runs, in which CMD_INIT has not come
\* to an end, and in which a destination has begun to take the blobs.
Running == Sending \cup {"warm", "run", "stored", "sent", "relock"}

Starting == {"booting", "warming", "resuming"}

Receiving == {"setPerm", "gotPerm", "setVol", "gotVol", "resuming"}

\* The client knows where its process is.
Place(p) ==
    /\ mlp[p].tpm_running => vm[p] \in Running \cup {"failed"}
    /\ vm[p] \in Running => mlp[p].tpm_running
    /\ At(p, "init") <=> vm[p] \in Starting
    /\ At(p, "getvol") => vm[p] = "getVol"
    /\ At(p, "lock") =>
          \/ pc[p].then = "set" /\ vm[p] = "setPerm"
          \/ pc[p].then = "cmd" /\ vm[p] \in {"run", "stopped"}
          \/ pc[p].then = "idle" /\ vm[p] = "relock"
    /\ At(p, "cmd") => vm[p] \in {"run", "stopped"}
    /\ At(p, "set") => vm[p] \in {"setPerm", "setVol"}
    /\ At(p, "exit") => vm[p] \in {"none", "failed"}
    /\ At(p, "down") => vm[p] = "none" /\ lib[p] = FreshLib

\* Who has the lock, or believes so.
Holding(p) ==
    /\ At(p, "lock") => ~mlp[p].storage_locked
    /\ At(p, "set") => mlp[p].storage_locked /\ ~mlp[p].incoming_migration /\ dir.lock = p
    /\ vm[p] \in Waiting => ~mlp[p].storage_locked /\ mlp[p].incoming_migration
    /\ mlp[p].incoming_migration => vm[p] \in Waiting \cup {"none", "setPerm", "failed"}
    /\ vm[p] \in Sending \cup {"booting", "stored"} => mlp[p].storage_locked
    /\ vm[p] \in {"gotPerm", "setVol", "gotVol", "resuming"} =>
          mlp[p].storage_locked /\ dir.lock = p
    /\ vm[p] \in {"boot", "sent", "relock"} => ~mlp[p].storage_locked
    /\ dir.lock = p => vm[p] \notin Waiting \cup {"boot", "sent", "relock"} /\ ~At(p, "down")
    /\ vm[p] = "failed" /\ mlp[p].tpm_running => ~mlp[p].storage_locked /\ dir.lock # p

\* What a destination has of the stream.
Blobbed(p) ==
    /\ vm[p] \notin {"none", "failed", "gotPerm", "setVol", "gotVol"} =>
          lib[p].cached.PERMANENT = None /\ lib[p].cached.VOLATILE = None
    /\ vm[p] \in {"gotPerm", "setVol"} =>
          lib[p].cached.PERMANENT = stream.blobs.PERMANENT /\ lib[p].cached.VOLATILE = None
    /\ vm[p] = "gotVol" =>
          /\ lib[p].cached.PERMANENT = stream.blobs.PERMANENT
          /\ lib[p].cached.VOLATILE = stream.blobs.VOLATILE
    /\ vm[p] = "resuming" =>
          /\ lib[p].perm = stream.blobs.PERMANENT
          /\ lib[p].ram = stream.blobs.VOLATILE
    /\ vm[p] \in Receiving => stream # None /\ stream.to = p
    /\ vm[p] = "boot" => stream = None

\* A source that has not sent all is the only one that could run the machine.
Sends(p) ==
    vm[p] \in Sending =>
        /\ Alone(p)
        /\ stream # None /\ vm[p] # "getPerm" => stream.blobs.PERMANENT # None
        /\ stream # None /\ vm[p] = "getSave" => stream.blobs.VOLATILE # None

\* The files a process relies on.
Filed(p) ==
    /\ vm[p] = "stored" \/ At(p, "getvol") => dir.volatilestate = lib[p].ram
    /\ vm[p] \in Running \cup Starting => dir.permall # None
    /\ vm[p] \in {"warming", "warm"} => lib[p].ram = 0
    /\ vm[p] \in Waiting \cup Receiving \cup {"boot"} => mlp[p].lastCommand = "NONE"

Local(p) == Place(p) /\ Holding(p) /\ Blobbed(p) /\ Sends(p) /\ Filed(p)

\* A stream that no source is filling is complete.
Complete ==
    stream # None /\ (\A p \in Procs : vm[p] \notin Sending) =>
        stream.blobs.PERMANENT # None /\ stream.blobs.VOLATILE # None

-----------------------------------------------------------------------------
(* The machine whose turn it is.                                           *)

\* Another machine has the lock, as its own.
Taken(p) == \E q \in Others(p) : Owns(q)

\* The TPM of the process has a state, and no other machine has gone on from it.
Live(p) == vm[p] \in {"booting", "resuming"} \cup (Running \ {"warm"})

Entitled(p) == Live(p) /\ ~Taken(p)

\* No machine has gone on from the state in the stream.
Intact == stream # None /\ \A p \in Procs : ~Owns(p)

\* A volatile state file is there only for a machine that is paused or gone.
Unfiled == {"run", "stopped", "sent", "relock", "getPerm", "getSave"}

NoFile(p) ==
    dir.volatilestate # None /\ ~Taken(p) =>
        vm[p] \notin Unfiled /\ (vm[p] = "getVol" => At(p, "getvol"))

Flag(p) == mlp[p].disable_auto_shutdown

\* The state on disk, in memory and in the stream has all commands.
CurrentFiles ==
    /\ dir.permall = None => hist.nv = 0
    /\ dir.permall # None => dir.permall.n = hist.nv
    /\ dir.volatilestate \in {None, 0, hist.ram}

CurrentMemory(p) == lib[p].perm = dir.permall /\ lib[p].ram \in {0, hist.ram}

CurrentStream ==
    /\ stream.blobs.PERMANENT \in {None, dir.permall}
    /\ stream.blobs.VOLATILE \in {None, 0, hist.ram}

Current ==
    /\ CurrentFiles
    /\ \A p \in Procs : Entitled(p) => CurrentMemory(p)
    /\ Intact => CurrentStream

\* An image that TPM2_Shutdown left stays orderly in the file and in the stream.
Clean(p) == lib[p].ram # 0 /\ lib[p].perm.orderly

OrderlyMemory(p) ==
    /\ Clean(p) => dir.permall.orderly
    /\ mlp[p].lastCommand = "Shutdown" /\ lib[p].ram # 0 => lib[p].perm.orderly

Tidy ==
    /\ \A p \in Procs : Entitled(p) => OrderlyMemory(p)
    /\ Intact /\ stream.blobs.PERMANENT # None =>
          \A p \in Procs : Live(p) /\ Clean(p) => stream.blobs.PERMANENT.orderly

Uniform == \A p, q \in Procs : Flag(p) = Flag(q)

\* The inductive invariant.
Safe ==
    /\ Inv
    /\ \A p \in Procs : Local(p) /\ NoFile(p)
    /\ Complete
    /\ Uniform
    /\ (\A p \in Procs : Flag(p)) => Current
    /\ Tidy

-----------------------------------------------------------------------------
(* What a step of one process leaves alone, and what follows for the       *)
(* others.                                                                 *)

Keeps(p) ==
    \A q \in Others(p) :
        /\ mlp'[q] = mlp[q] /\ lib'[q] = lib[q] /\ pc'[q] = pc[q] /\ vm'[q] = vm[q]
        /\ dir'.lock = q <=> dir.lock = q

\* The stream is changed by a machine that is alone, or ended by its destination.
StreamStep(p) ==
    \/ stream' = stream
    \/ Alone(p)
    \/ stream' = None /\ (stream = None \/ stream.to = p)

\* The volatile state file is changed by no one while another has the lock, and
\* comes from a machine that has the lock or is alone.
FileStep(p) ==
    /\ dir'.volatilestate = dir.volatilestate \/ dir.lock \in {None, p}
    /\ dir'.volatilestate # None =>
          dir.volatilestate # None \/ Owns(p)' \/ Alone(p)

\* A machine that has the lock as its own gives it up when it is alone, and the
\* stream with it.
Release(p) ==
    Owns(p) /\ ~Owns(p)' =>
        Alone(p) /\ (stream' # None => stream'.blobs = NoBlobs)

\* No machine is started or taken over while another sends it.
Respects(p) ==
    vm'[p] \in {"none"} \cup Waiting \/ \A q \in Others(p) : vm[q] \notin Sending

Turn(p) ==
    /\ Keeps(p) /\ StreamStep(p) /\ FileStep(p) /\ Release(p) /\ Respects(p)
    /\ dir.permall # None => dir'.permall # None
    /\ Flag(p)' = Flag(p)

\* Another process that could go on after the step could go on before it.
LEMMA StillEntitled ==
    ASSUME NEW p \in Procs, Turn(p), NEW q \in Others(p), vm[q] \notin {"none"} \cup Waiting,
           ~Taken(q)'
    PROVE  ~Taken(q)
<1> SUFFICES ASSUME NEW r \in Others(q), Owns(r) PROVE FALSE
  BY DEF Taken
<1>1. CASE r = p
  <2>1. p \in Others(q) /\ q \in Others(p)
    BY <1>1
  <2>2. ~Owns(p)'
    BY <2>1, Zenon DEF Taken, Others
  <2>3. Alone(p)
    BY <1>1, <2>2 DEF Turn, Release
  <2>4. QED
    BY <2>1, <2>3 DEF Alone
<1>2. CASE r # p
  <2>1. r \in Others(p)
    BY <1>2 DEF Others
  <2>2. dir'.lock = r /\ vm'[r] = vm[r]
    BY <2>1, ZenonT(60) DEF Turn, Keeps, Owns
  <2>3. Owns(r)'
    BY <2>2 DEF Owns
  <2>4. QED
    BY <2>3, Zenon DEF Taken, Others
<1>3. QED
  BY <1>1, <1>2

\* The lock is the process's own affair: no step of its own changes whether
\* another has it.
LEMMA SameTaken ==
    ASSUME NEW p \in Procs, Keeps(p)
    PROVE  Taken(p)' <=> Taken(p)
<1>1. \A q \in Others(p) : Owns(q)' <=> Owns(q)
  BY DEF Keeps, Owns
<1>2. QED
  BY <1>1 DEF Taken, Others

\* No machine has gone on from the stream that is still there.
LEMMA StillIntact ==
    ASSUME NEW p \in Procs, Turn(p), Intact', stream' = stream, stream.blobs # NoBlobs
    PROVE  Intact
<1> SUFFICES ASSUME NEW r \in Procs, Owns(r) PROVE FALSE
  BY DEF Intact
<1>1. CASE r = p
  BY <1>1 DEF Turn, Release, Intact
<1>2. CASE r # p
  <2>1. r \in Others(p)
    BY <1>2, ZenonT(60) DEF Others
  <2>2. dir'.lock = r /\ vm'[r] = vm[r]
    BY <2>1 DEF Turn, Keeps, Owns
  <2>3. QED
    BY <2>2 DEF Owns, Intact
<1>3. QED
  BY <1>1, <1>2

\* The other processes are as they were.
LEMMA OthersLocal ==
    ASSUME Safe, NEW p \in Procs, Turn(p), NEW q \in Others(p)
    PROVE  Local(q)'
<1>1. /\ mlp'[q] = mlp[q] /\ lib'[q] = lib[q] /\ pc'[q] = pc[q] /\ vm'[q] = vm[q]
      /\ dir'.lock = q <=> dir.lock = q
      /\ q \in Procs /\ q # p /\ p \in Others(q)
  BY DEF Turn, Keeps, Others
<1>2. Local(q) /\ Local(p) /\ LockSafe
  BY <1>1, Zenon DEF Safe, Inv, ProcInv
<1>3. Place(q)'
  BY <1>1, <1>2, ZenonT(60) DEF Local, Place, At
<1>4. Holding(q)'
  BY <1>1, <1>2, ZenonT(60) DEF Local, Holding, At
<1>5. vm[q] \notin {"none"} \cup Waiting => ~Alone(p)
  BY <1>1 DEF Alone
<1>6. vm[q] \in Receiving => stream' = stream
  <2>1. vm[q] \in Receiving => ~Alone(p) /\ stream # None /\ stream.to = q
    BY <1>2, <1>5, ZenonT(60) DEF Local, Blobbed, Receiving, Waiting
  <2>2. QED
    BY <1>1, <2>1, ZenonT(60) DEF Turn, StreamStep
<1>7. vm[q] = "boot" => stream' = None
  <2>1. vm[q] = "boot" => ~Alone(p) /\ stream = None
    BY <1>2, <1>5, ZenonT(60) DEF Local, Blobbed, Waiting
  <2>2. QED
    BY <2>1, ZenonT(60) DEF Turn, StreamStep
<1>8. Blobbed(q)'
  <2>1. {"gotPerm", "setVol", "gotVol", "resuming"} \subseteq Receiving
    BY ZenonT(60) DEF Receiving
  <2>2. QED
    BY <1>1, <1>2, <1>6, <1>7, <2>1 DEF Local, Blobbed
<1>9. Sends(q)'
  <2> SUFFICES ASSUME vm[q] \in Sending PROVE Sends(q)'
    BY <1>1 DEF Sends
  <2>1. Alone(q) /\ ~Alone(p)
    BY <1>2, <1>5, ZenonT(60) DEF Local, Sends, Sending, Waiting
  <2>2. vm'[p] \in {"none"} \cup Waiting
    BY <1>1, ZenonT(60) DEF Turn, Respects
  <2>3. Alone(q)'
    <3> SUFFICES ASSUME NEW r \in Others(q) PROVE vm'[r] \in {"none"} \cup Waiting
      BY ZenonT(60) DEF Alone, Others
    <3>1. CASE r = p
      BY <2>2, <3>1, ZenonT(60)
    <3>2. CASE r # p
      BY <2>1, <3>2 DEF Turn, Keeps, Others, Alone
    <3>3. QED
      BY <3>1, <3>2, ZenonT(60)
  <2>4. stream' # None => stream' = stream
    BY <2>1, ZenonT(60) DEF Turn, StreamStep
  <2>5. QED
    BY <1>1, <1>2, <2>3, <2>4, ZenonT(60) DEF Local, Sends
<1>10. Filed(q)'
  <2>1. vm[q] = "stored" \/ At(q, "getvol") => dir'.volatilestate = dir.volatilestate
    <3>1. vm[q] = "stored" \/ At(q, "getvol") => Operates(q)
      BY <1>2, ZenonT(60) DEF Local, Place, Holding, Operates, Running, Sending
    <3>2. vm[q] = "stored" \/ At(q, "getvol") => dir.lock = q
      BY <1>1, <1>2, <3>1, Zenon DEF LockSafe
    <3>3. QED
      BY <1>1, <3>2, SwtpmAssumption, ZenonT(60) DEF Turn, FileStep
  <2>2. QED
    BY <1>1, <1>2, <2>1, ZenonT(60) DEF Local, Filed, At, Turn
<1>11. QED
  BY <1>3, <1>4, <1>8, <1>9, <1>10 DEF Local

\* A volatile state file is not there for another machine that runs.
LEMMA OthersNoFile ==
    ASSUME Safe, NEW p \in Procs, Turn(p), NEW q \in Others(p)
    PROVE  NoFile(q)'
<1>1. pc'[q] = pc[q] /\ vm'[q] = vm[q] /\ q \in Procs /\ p \in Others(q) /\ p \in Procs
  BY ZenonT(60) DEF Turn, Keeps, Others
<1> SUFFICES ASSUME dir'.volatilestate # None, ~Taken(q)', vm[q] \in Unfiled \cup {"getVol"}
             PROVE  vm[q] = "getVol" /\ At(q, "getvol")
  BY <1>1 DEF NoFile, At, Unfiled
<1>2. vm[q] \notin {"none"} \cup Waiting
  BY DEF Unfiled, Waiting
<1>3. ~Taken(q) /\ ~Alone(p)
  BY <1>2, StillEntitled DEF Alone
<1>4. ~Owns(p)'
  BY <1>1, Zenon DEF Taken, Others
<1>5. dir.volatilestate # None
  BY <1>3, <1>4 DEF Turn, FileStep
<1>6. QED
  BY <1>1, <1>3, <1>5, ZenonT(60) DEF Safe, NoFile

\* What is current stays current for the others, when the step makes nothing
\* newer or has the lock.
LEMMA CurrentStep ==
    ASSUME Safe, NEW p \in Procs, Turn(p), \A q \in Procs : Flag(q),
           CurrentFiles',
           Entitled(p)' => CurrentMemory(p)',
           Owns(p)' \/ (hist' = hist /\ (dir.permall # None => dir'.permall = dir.permall)),
           stream' = stream \/ (Intact' => CurrentStream')
    PROVE  Current'
<1>1. Current
  BY DEF Safe
<1>2. ASSUME NEW q \in Procs, Entitled(q)' PROVE CurrentMemory(q)'
  <2>1. CASE q = p
    BY <1>2, <2>1, ZenonT(60)
  <2>2. CASE q # p
    <3>1. lib'[q] = lib[q] /\ vm'[q] = vm[q] /\ q \in Others(p) /\ p \in Others(q)
      BY <2>2, ZenonT(60) DEF Turn, Keeps, Others
    <3>2. vm[q] \notin {"none"} \cup Waiting /\ Live(q) /\ ~Taken(q)'
      BY <1>2, <3>1, ZenonT(60) DEF Entitled, Live, Running, Sending, Waiting
    <3>3. Entitled(q)
      BY <3>1, <3>2, StillEntitled, ZenonT(60) DEF Entitled
    <3>4. CurrentMemory(q)
      BY <1>1, <3>3, ZenonT(60) DEF Current
    <3>5. hist' = hist /\ (dir.permall # None => dir'.permall = dir.permall)
      <4>1. ~Owns(p)'
        BY <3>1, <3>2, ZenonT(60) DEF Taken, Others
      <4>2. QED
        BY <4>1
    <3>6. dir.permall # None
      BY <3>2 DEF Safe, Local, Filed, Live, Starting
    <3>7. QED
      BY <3>1, <3>4, <3>5, <3>6, ZenonT(60) DEF CurrentMemory
  <2>3. QED
    BY <2>1, <2>2
<1>3. ASSUME Intact' PROVE CurrentStream'
  <2>1. CASE stream' = stream /\ stream.blobs # NoBlobs
    <3>1. Intact
      BY <1>3, <2>1, StillIntact, ZenonT(60)
    <3>2. CurrentStream
      BY <1>1, <3>1 DEF Current
    <3>3. ~Owns(p)'
      BY <1>3, ZenonT(60) DEF Intact
    <3>4. hist' = hist /\ (dir.permall # None => dir'.permall = dir.permall)
      BY <3>3, ZenonT(60)
    <3>5. QED
      BY <2>1, <3>2, <3>4 DEF CurrentStream
  <2>2. CASE stream' = stream /\ stream.blobs = NoBlobs
    BY <2>2 DEF CurrentStream, NoBlobs
  <2>3. CASE stream' # stream
    BY <1>3, <2>3
  <2>4. QED
    BY <2>1, <2>2, <2>3, ZenonT(60)
<1>4. QED
  BY <1>2, <1>3, ZenonT(60) DEF Current

\* So does what is orderly.
LEMMA TidyStep ==
    ASSUME Safe, NEW p \in Procs, Turn(p),
           Entitled(p)' => OrderlyMemory(p)',
           Owns(p)' \/ \A q \in Others(p) : Entitled(q) /\ Clean(q) => dir'.permall.orderly,
           Intact' /\ stream'.blobs.PERMANENT # None =>
               /\ Live(p)' /\ Clean(p)' => stream'.blobs.PERMANENT.orderly
               /\ stream' = stream \/ Alone(p)
    PROVE  Tidy'
<1>1. Tidy
  BY ZenonT(60) DEF Safe
<1>2. ASSUME NEW q \in Procs, q # p
      PROVE  /\ lib'[q] = lib[q] /\ vm'[q] = vm[q] /\ mlp'[q] = mlp[q]
             /\ q \in Others(p) /\ p \in Others(q)
             /\ Live(q)' => vm[q] \notin {"none"} \cup Waiting /\ Live(q)
             /\ Clean(q)' <=> Clean(q)
  <2>1. /\ lib'[q] = lib[q] /\ vm'[q] = vm[q] /\ mlp'[q] = mlp[q]
        /\ q \in Others(p) /\ p \in Others(q)
    BY <1>2, ZenonT(60) DEF Turn, Keeps, Others
  <2>2. Live(q)' => vm[q] \notin {"none"} \cup Waiting /\ Live(q)
    BY <2>1 DEF Live, Running, Sending, Waiting
  <2>3. QED
    BY <2>1, <2>2, ZenonT(60) DEF Clean
<1>3. ASSUME NEW q \in Procs, Entitled(q)' PROVE OrderlyMemory(q)'
  <2>1. CASE q = p
    BY <1>3, <2>1, ZenonT(60)
  <2>2. CASE q # p
    <3>1. Live(q) /\ vm[q] \notin {"none"} \cup Waiting /\ ~Taken(q)'
      BY <1>2, <1>3, <2>2 DEF Entitled
    <3>2. Entitled(q) /\ ~Owns(p)'
      <4>1. ~Taken(q)
        BY <1>2, <2>2, <3>1, StillEntitled
      <4>2. ~Owns(p)'
        BY <1>2, <2>2, <3>1, Zenon DEF Taken, Others
      <4>3. QED
        BY <3>1, <4>1, <4>2, ZenonT(60) DEF Entitled
    <3>3. OrderlyMemory(q)
      BY <1>1, <3>2 DEF Tidy
    <3>4. QED
      BY <1>2, <2>2, <3>2, <3>3, ZenonT(60) DEF OrderlyMemory
  <2>3. QED
    BY <2>1, <2>2
<1>4. ASSUME Intact', stream'.blobs.PERMANENT # None, NEW q \in Procs, Live(q)', Clean(q)'
      PROVE  stream'.blobs.PERMANENT.orderly
  <2>1. CASE q = p
    BY <1>4, <2>1, ZenonT(60)
  <2>2. CASE q # p
    <3>1. ~Alone(p)
      BY <1>2, <1>4, <2>2, ZenonT(60) DEF Alone
    <3>2. stream' = stream /\ stream.blobs # NoBlobs
      BY <1>4, <3>1 DEF NoBlobs
    <3>3. Intact
      BY <1>4, <3>2, StillIntact
    <3>4. QED
      BY <1>1, <1>2, <1>4, <2>2, <3>2, <3>3, ZenonT(60) DEF Tidy
  <2>3. QED
    BY <2>1, <2>2
<1>5. QED
  BY <1>3, <1>4 DEF Tidy

\* The parts of the invariant make the whole.
LEMMA Assemble ==
    ASSUME Safe, NEW p \in Procs, Turn(p), Inv', Local(p)', NoFile(p)', Complete',
           (\A q \in Procs : Flag(q)) => Current', Tidy'
    PROVE  Safe'
<1>1. \A q \in Procs : Flag(q)' = Flag(q)
  BY DEF Turn, Keeps, Others, Flag
<1>2. \A q \in Procs : Local(q)' /\ NoFile(q)'
  BY OthersLocal, OthersNoFile DEF Others
<1>3. Uniform'
  BY <1>1 DEF Safe, Uniform
<1>4. QED
  BY <1>1, <1>2, <1>3, ZenonT(60) DEF Safe

\* Most steps change no state of a TPM: the permanent state file is as it was, or
\* has the image of an automatic shutdown, the volatile state file is as it was
\* or gone, and the TPM, if it is one that could go on, could go on before.
Quiet(p) ==
    /\ hist' = hist
    /\ \/ dir'.permall = dir.permall
       \/ ~Flag(p) /\ dir'.permall.orderly
    /\ dir'.volatilestate \in {dir.volatilestate, None}
    /\ \/ stream' \in {stream, None}
       \/ stream'.blobs = NoBlobs /\ vm'[p] \in Sending
    /\ Live(p)' =>
          /\ Live(p)
          /\ lib'[p] = lib[p] /\ mlp'[p].lastCommand = mlp[p].lastCommand
    /\ dir'.volatilestate # None /\ vm'[p] \in Unfiled \cup {"getVol"} =>
          vm[p] \in Unfiled \cup {"getVol"} /\ ~At(p, "getvol")
    /\ vm[p] \in Sending \ {"getSave"} => stream' = None \/ vm'[p] \in Sending

\* A step that takes its turn and is quiet keeps the invariant.
LEMMA QuietStep ==
    ASSUME Safe, NEW p \in Procs, Turn(p), Inv', Local(p)', Quiet(p)
    PROVE  Safe'
<1>1. Taken(p)' <=> Taken(p)
  BY SameTaken, ZenonT(60) DEF Turn
<1>2. NoFile(p)'
  BY <1>1, ZenonT(60) DEF NoFile, Quiet, Safe, Unfiled
<1>3. Entitled(p)' => Entitled(p)
  BY <1>1, ZenonT(60) DEF Entitled, Quiet
<1>4. Live(p)' => lib'[p] = lib[p] /\ mlp'[p].lastCommand = mlp[p].lastCommand
  BY DEF Quiet
<1>5. Complete'
  <2> SUFFICES ASSUME stream' # None, \A q \in Procs : vm'[q] \notin Sending
               PROVE  stream'.blobs.PERMANENT # None /\ stream'.blobs.VOLATILE # None
    BY ZenonT(60) DEF Complete
  <2>1. stream' = stream
    BY ZenonT(60) DEF Quiet
  <2>2. \A q \in Others(p) : vm[q] \notin Sending
    BY ZenonT(60) DEF Turn, Keeps, Others
  <2>3. CASE vm[p] \in Sending
    <3>1. vm[p] = "getSave"
      BY <2>3 DEF Quiet
    <3>2. QED
      BY <2>1, <2>3, <3>1, ZenonT(60) DEF Safe, Local, Sends
  <2>4. CASE vm[p] \notin Sending
    <3>1. \A q \in Procs : vm[q] \notin Sending
      BY <2>2, <2>4, ZenonT(60) DEF Others
    <3>2. QED
      BY <2>1, <3>1 DEF Safe, Complete
  <2>5. QED
    BY <2>3, <2>4
<1>6. ASSUME \A q \in Procs : Flag(q) PROVE Current'
  <2>1. Current /\ hist' = hist /\ dir'.permall = dir.permall
    BY <1>6, ZenonT(60) DEF Safe, Quiet
  <2>2. CurrentFiles'
    BY <2>1, ZenonT(60) DEF Current, CurrentFiles, Quiet
  <2>3. Entitled(p)' => CurrentMemory(p)'
    BY <1>3, <1>4, <2>1, ZenonT(60) DEF Current, CurrentMemory, Entitled
  <2>4. stream' = stream \/ (Intact' => CurrentStream')
    BY DEF Quiet, Intact, CurrentStream, NoBlobs
  <2>5. QED
    BY <1>6, <2>1, <2>2, <2>3, <2>4, CurrentStep, ZenonT(60)
<1>7. Tidy'
  <2>1. dir.permall.orderly => dir'.permall.orderly
    BY ZenonT(60) DEF Quiet
  <2>2. Entitled(p)' => OrderlyMemory(p)'
    BY <1>3, <1>4, <2>1, ZenonT(60) DEF Safe, Tidy, OrderlyMemory, Entitled, Clean
  <2>3. \A q \in Others(p) : Entitled(q) /\ Clean(q) => dir'.permall.orderly
    BY <2>1, ZenonT(60) DEF Safe, Tidy, OrderlyMemory, Others
  <2>4. ASSUME Intact', stream'.blobs.PERMANENT # None
        PROVE  /\ Live(p)' /\ Clean(p)' => stream'.blobs.PERMANENT.orderly
               /\ stream' = stream
    <3>1. stream' = stream /\ stream.blobs # NoBlobs
      BY <2>4 DEF Quiet, Intact, NoBlobs
    <3>2. Intact
      BY <2>4, <3>1, StillIntact
    <3>3. QED
      BY <1>4, <2>4, <3>1, <3>2, ZenonT(60) DEF Safe, Tidy, Quiet, Clean
  <2>5. QED
    BY <2>2, <2>3, <2>4, TidyStep, ZenonT(60)
<1>8. QED
  BY <1>2, <1>5, <1>6, <1>7, Assemble, ZenonT(60)

-----------------------------------------------------------------------------
(* What the operations of swtpm do, field by field.                        *)

Frame(p) ==
    \A q \in Others(p) : mlp'[q] = mlp[q] /\ lib'[q] = lib[q] /\ pc'[q] = pc[q]

SameParams(p) ==
    /\ mlp'[p].storage_locked = mlp[p].storage_locked
    /\ mlp'[p].incoming_migration = mlp[p].incoming_migration
    /\ mlp'[p].lastCommand = mlp[p].lastCommand
    /\ mlp'[p].tpm_running = mlp[p].tpm_running
    /\ Flag(p)' = Flag(p)

\* mainloop_ensure_locked_storage, when the lock is obtained.
LEMMA LockTakenEffect ==
    ASSUME ProcTypes, NEW p \in Procs, LockTaken(p)
    PROVE  /\ Frame(p)
           /\ mlp'[p].storage_locked /\ ~mlp'[p].incoming_migration
           /\ mlp'[p].lastCommand = mlp[p].lastCommand
           /\ mlp'[p].tpm_running = mlp[p].tpm_running /\ Flag(p)' = Flag(p)
           /\ lib' = lib
           /\ pc'[p].at = pc[p].then
           /\ dir'.permall = dir.permall /\ dir'.volatilestate = dir.volatilestate
           /\ dir'.lock = p
BY DEF LockTaken, ProcTypes, Params, Directory, Points, Goto, Point, Frame, Others, Flag

\* FileAfterShutdown and Stopped, when the flag is set and when it is not.
LEMMA ShutdownEffect ==
    ASSUME ProcTypes, NEW p \in Procs
    PROVE  /\ \/ FileAfterShutdown(p) = dir.permall
              \/ /\ ~Flag(p) /\ mlp[p].tpm_running /\ lib[p].ram # 0
                 /\ FileAfterShutdown(p) \in Image /\ FileAfterShutdown(p).orderly
           /\ Stopped(p).storage_locked = mlp[p].storage_locked
           /\ Stopped(p).incoming_migration = mlp[p].incoming_migration
           /\ Stopped(p).disable_auto_shutdown = mlp[p].disable_auto_shutdown
           /\ ~Stopped(p).tpm_running
           /\ Stopped(p).lastCommand = mlp[p].lastCommand \/ ShutsDown(p)
<1>1. mlp[p] \in Params /\ lib[p] \in Memory
  BY DEF ProcTypes
<1>2. lib[p].perm \in Image
  BY <1>1 DEF Memory
<1>3. /\ [lib[p].perm EXCEPT !.orderly = TRUE] \in Image
      /\ [lib[p].perm EXCEPT !.orderly = TRUE].orderly
  BY <1>2, ZenonT(60) DEF Image
<1>4. QED
  BY <1>1, <1>3 DEF FileAfterShutdown, ShutsDown, Stopped, Params, Flag

\* CMD_INIT, up to the locking in tpmlib_start.
LEMMA CmdInitEffect ==
    ASSUME ProcTypes, NEW p \in Procs, CMD_INIT(p)
    PROVE  /\ Frame(p)
           /\ At(p, "idle")
           /\ mlp'[p].storage_locked = ~mlp[p].incoming_migration
           /\ mlp'[p].incoming_migration = mlp[p].incoming_migration
           /\ mlp'[p].lastCommand = Stopped(p).lastCommand
           /\ ~mlp'[p].tpm_running /\ Flag(p)' = Flag(p)
           /\ lib'[p].nvram
           /\ lib'[p].perm = LoadedPermanent(p, FileAfterShutdown(p))
           /\ lib'[p].ram = LoadedVolatile(p, dir.volatilestate)
           /\ lib'[p].cached.PERMANENT = None /\ lib'[p].cached.VOLATILE = None
           /\ pc'[p].at = "init"
           /\ dir'.permall = IF lib[p].cached.PERMANENT # None \/ FileAfterShutdown(p) = None
                             THEN LoadedPermanent(p, FileAfterShutdown(p))
                             ELSE FileAfterShutdown(p)
           /\ dir'.volatilestate = dir.volatilestate
           /\ dir'.lock = dir.lock
<1>1. mlp'[p] = [Stopped(p) EXCEPT !.storage_locked = ~mlp[p].incoming_migration]
  BY ZenonT(60) DEF CMD_INIT, ProcTypes
<1>2. /\ Stopped(p) \in Params /\ ~Stopped(p).tpm_running
      /\ Stopped(p).incoming_migration = mlp[p].incoming_migration
      /\ Stopped(p).disable_auto_shutdown = mlp[p].disable_auto_shutdown
  BY StoppedType, ShutdownEffect DEF ProcTypes
<1>3. /\ mlp'[p].storage_locked = ~mlp[p].incoming_migration
      /\ mlp'[p].incoming_migration = mlp[p].incoming_migration
      /\ mlp'[p].lastCommand = Stopped(p).lastCommand
      /\ ~mlp'[p].tpm_running /\ Flag(p)' = Flag(p)
  BY <1>1, <1>2 DEF Params, Flag
<1>4. /\ lib'[p] = [nvram |-> TRUE, perm |-> LoadedPermanent(p, FileAfterShutdown(p)),
                    ram |-> LoadedVolatile(p, dir.volatilestate), cached |-> NoBlobs]
      /\ At(p, "idle")
  BY DEF CMD_INIT, ProcTypes
<1>5. /\ dir'.permall = IF lib[p].cached.PERMANENT # None \/ FileAfterShutdown(p) = None
                        THEN LoadedPermanent(p, FileAfterShutdown(p))
                        ELSE FileAfterShutdown(p)
      /\ dir'.volatilestate = dir.volatilestate
      /\ dir'.lock = dir.lock
  BY DEF CMD_INIT, ProcTypes, Directory
<1>6. pc'[p].at = "init"
  BY DEF CMD_INIT, ProcTypes, Goto, Point
<1>7. Frame(p)
  BY DEF CMD_INIT, ProcTypes, Goto, Frame, Others
<1>8. QED
  BY <1>3, <1>4, <1>5, <1>6, <1>7 DEF NoBlobs

\* CMD_INIT goes on to TPMLIB_MainInit, with the lock if it wants it.
LEMMA InitLockedEffect ==
    ASSUME ProcTypes, NEW p \in Procs, NEW delete \in BOOLEAN, InitLocked(p, delete)
    PROVE  /\ Frame(p)
           /\ At(p, "init") /\ (~mlp[p].storage_locked \/ LockFree(p))
           /\ mlp'[p].storage_locked = mlp[p].storage_locked
           /\ mlp'[p].incoming_migration = mlp[p].incoming_migration
           /\ mlp'[p].lastCommand = mlp[p].lastCommand
           /\ mlp'[p].tpm_running /\ Flag(p)' = Flag(p)
           /\ lib' = lib
           /\ pc'[p].at = "idle"
           /\ dir'.permall = dir.permall
           /\ dir'.volatilestate = IF delete THEN None ELSE dir.volatilestate
           /\ dir'.lock = IF mlp[p].storage_locked THEN p ELSE dir.lock
BY DEF InitLocked, ProcTypes, Params, Directory, Goto, Point, Frame, Others, Flag

\* CMD_INIT without the lock.
LEMMA InitRefusedEffect ==
    ASSUME ProcTypes, NEW p \in Procs, InitRefused(p)
    PROVE  /\ Frame(p)
           /\ At(p, "init") /\ ~LockFree(p)
           /\ mlp' = mlp /\ dir' = dir
           /\ lib'[p].cached = lib[p].cached
           /\ pc'[p].at = "idle"
BY DEF InitRefused, Terminated, ProcTypes, Memory, Goto, Point, Frame, Others

\* CMD_STOP.
LEMMA CmdStopEffect ==
    ASSUME ProcTypes, NEW p \in Procs, NEW next, CMD_STOP(p, next)
    PROVE  /\ Frame(p)
           /\ At(p, "idle")
           /\ mlp'[p] = Stopped(p)
           /\ lib'[p].cached = lib[p].cached /\ lib'[p].ram = 0
           /\ pc'[p].at = next
           /\ dir'.permall = FileAfterShutdown(p)
           /\ dir'.volatilestate = dir.volatilestate
           /\ dir'.lock = dir.lock
BY DEF CMD_STOP, Terminated, ProcTypes, Memory, Directory, Goto, Point, Frame, Others

\* CMD_STORE_VOLATILE, and CMD_GET_STATEBLOB as it writes the volatile state.
LEMMA StoreVolatileEffect ==
    ASSUME ProcTypes, NEW p \in Procs, NEW next, StoreVolatile(p, next)
    PROVE  /\ Frame(p)
           /\ At(p, "idle") /\ mlp[p].tpm_running
           /\ mlp' = mlp /\ lib' = lib
           /\ pc'[p].at = next
           /\ dir'.permall = dir.permall
           /\ dir'.volatilestate = lib[p].ram
           /\ dir'.lock = dir.lock
BY DEF StoreVolatile, ProcTypes, Directory, Goto, Point, Frame, Others

\* CMD_GET_STATEBLOB returns the volatile state and removes its file.
LEMMA ReturnVolatileEffect ==
    ASSUME ProcTypes, NEW p \in Procs, ReturnVolatile(p)
    PROVE  /\ Frame(p)
           /\ At(p, "getvol")
           /\ mlp' = mlp /\ lib' = lib
           /\ pc'[p].at = "idle"
           /\ dir'.permall = dir.permall
           /\ dir'.volatilestate = None
           /\ dir'.lock = dir.lock
BY DEF ReturnVolatile, ProcTypes, Directory, Goto, Point, Frame, Others

\* CMD_GET_STATEBLOB for the savestate blob releases the lock.
LEMMA ReturnSavestateEffect ==
    ASSUME ProcTypes, NEW p \in Procs, ReturnSavestate(p, TRUE)
    PROVE  /\ Frame(p)
           /\ At(p, "idle") /\ mlp[p].tpm_running
           /\ ~mlp'[p].storage_locked
           /\ mlp'[p].incoming_migration = mlp[p].incoming_migration
           /\ mlp'[p].lastCommand = mlp[p].lastCommand
           /\ mlp'[p].tpm_running = mlp[p].tpm_running /\ Flag(p)' = Flag(p)
           /\ lib' = lib /\ pc' = pc
           /\ dir'.permall = dir.permall
           /\ dir'.volatilestate = dir.volatilestate
           /\ dir'.lock = IF dir.lock = p THEN None ELSE dir.lock
BY ZenonT(60) DEF ReturnSavestate, mainloop_unlock_nvram, ProcTypes, Params, Directory, Frame,
   Others, Flag

\* CMD_SET_STATEBLOB, before the blob is set.
LEMMA SetStateblobEffect ==
    ASSUME ProcTypes, NEW p \in Procs, CMD_SET_STATEBLOB(p)
    PROVE  /\ Frame(p)
           /\ At(p, "idle") /\ ~mlp[p].tpm_running
           /\ mlp' = mlp /\ dir' = dir
           /\ lib'[p].perm = lib[p].perm /\ lib'[p].ram = lib[p].ram
           /\ lib'[p].cached = lib[p].cached
           /\ mlp[p].storage_locked => pc'[p].at = "set"
           /\ ~mlp[p].storage_locked => pc'[p].at = "lock" /\ pc'[p].then = "set"
<1>1. lib'[p] = [lib[p] EXCEPT !.nvram = TRUE] /\ lib[p] \in Memory
  BY DEF CMD_SET_STATEBLOB, ProcTypes
<1>2. /\ lib'[p].perm = lib[p].perm /\ lib'[p].ram = lib[p].ram
      /\ lib'[p].cached = lib[p].cached /\ lib'[p].nvram
  BY <1>1 DEF Memory
<1>3. /\ mlp[p].storage_locked => pc'[p].at = "set"
      /\ ~mlp[p].storage_locked => pc'[p].at = "lock" /\ pc'[p].then = "set"
  BY <1>2 DEF CMD_SET_STATEBLOB, EnsureLocked, Point, ProcTypes
<1>4. Frame(p)
  BY DEF CMD_SET_STATEBLOB, EnsureLocked, ProcTypes, Frame, Others
<1>5. QED
  BY <1>2, <1>3, <1>4 DEF CMD_SET_STATEBLOB

\* TPMLIB_SetState caches a blob,
LEMMA SetStateEffect ==
    ASSUME ProcTypes, NEW p \in Procs, NEW st \in {"PERMANENT", "VOLATILE"}, NEW blob,
           SetState(p, st, blob)
    PROVE  /\ Frame(p)
           /\ At(p, "set")
           /\ mlp' = mlp /\ dir' = dir
           /\ lib'[p].cached = [lib[p].cached EXCEPT ![st] = blob]
           /\ pc'[p].at = "idle"
<1>1. lib'[p] = [lib[p] EXCEPT !.cached[st] = blob] /\ lib[p] \in Memory
  BY DEF SetState, ProcTypes
<1>2. lib'[p].cached = [lib[p].cached EXCEPT ![st] = blob]
  BY <1>1 DEF Memory
<1>3. QED
  BY <1>2 DEF SetState, ProcTypes, Goto, Point, Frame, Others

\* or refuses it.
LEMMA SetStateRefusedEffect ==
    ASSUME ProcTypes, NEW p \in Procs, NEW loads \in BOOLEAN, SetStateRefused(p, loads)
    PROVE  /\ Frame(p)
           /\ At(p, "set")
           /\ mlp' = mlp /\ dir' = dir
           /\ pc'[p].at = "idle"
BY DEF SetStateRefused, ProcTypes, Memory, Goto, Point, Frame, Others

\* CMD_LOCK_STORAGE.
LEMMA LockStorageEffect ==
    ASSUME ProcTypes, NEW p \in Procs, NEW retries, CMD_LOCK_STORAGE(p, retries)
    PROVE  /\ Frame(p) /\ SameParams(p)
           /\ At(p, "idle")
           /\ lib' = lib /\ dir' = dir
           /\ \/ pc'[p].at = "idle"
              \/ ~mlp[p].storage_locked /\ pc'[p].at = "lock" /\ pc'[p].then = "idle"
BY ZenonT(60) DEF CMD_LOCK_STORAGE, EnsureLocked, ProcTypes, Params, Point, Frame, Others,
    SameParams, Flag

\* A command on the data channel.
LEMMA DataCommandEffect ==
    ASSUME ProcTypes, NEW p \in Procs, DataCommand(p)
    PROVE  /\ Frame(p)
           /\ At(p, "idle")
           /\ mlp' = mlp /\ lib' = lib /\ dir' = dir
           /\ \/ pc'[p].at = "cmd"
              \/ ~mlp[p].storage_locked /\ pc'[p].at = "lock" /\ pc'[p].then = "cmd"
BY DEF DataCommand, EnsureLocked, ProcTypes, Point, Frame, Others

\* TPMLIB_Process.
LEMMA ProcessEffect ==
    ASSUME ProcTypes, NEW p \in Procs, NEW ordinal, NEW perm, NEW ram,
           Process(p, ordinal, perm, ram)
    PROVE  /\ Frame(p)
           /\ At(p, "cmd") /\ mlp[p].tpm_running
           /\ mlp'[p].storage_locked = mlp[p].storage_locked
           /\ mlp'[p].incoming_migration = mlp[p].incoming_migration
           /\ mlp'[p].lastCommand = ordinal
           /\ mlp'[p].tpm_running = mlp[p].tpm_running /\ Flag(p)' = Flag(p)
           /\ lib'[p].perm = perm /\ lib'[p].ram = ram /\ lib'[p].cached = lib[p].cached
           /\ pc'[p].at = "idle"
           /\ dir'.permall = IF perm # lib[p].perm THEN perm ELSE dir.permall
           /\ dir'.volatilestate = dir.volatilestate
           /\ dir'.lock = dir.lock
<1>1. lib'[p] = [lib[p] EXCEPT !.perm = perm, !.ram = ram] /\ lib[p] \in Memory
  BY DEF Process, ProcTypes
<1>2. lib'[p].perm = perm /\ lib'[p].ram = ram /\ lib'[p].cached = lib[p].cached
  BY <1>1 DEF Memory
<1>3. /\ mlp'[p].storage_locked = mlp[p].storage_locked
      /\ mlp'[p].incoming_migration = mlp[p].incoming_migration
      /\ mlp'[p].lastCommand = ordinal
      /\ mlp'[p].tpm_running = mlp[p].tpm_running /\ Flag(p)' = Flag(p)
  BY Zenon DEF Process, ProcTypes, Params, Flag
<1>4. /\ dir'.permall = IF perm # lib[p].perm THEN perm ELSE dir.permall
      /\ dir'.volatilestate = dir.volatilestate
      /\ dir'.lock = dir.lock
  BY DEF Process, ProcTypes, Directory
<1>5. Frame(p) /\ pc'[p].at = "idle"
  BY DEF Process, ProcTypes, Goto, Point, Frame, Others
<1>6. QED
  BY <1>2, <1>3, <1>4, <1>5, Zenon DEF Process

\* The process is gone, and its lock with it.
GoneFrom(p) ==
    /\ Frame(p)
    /\ ~mlp'[p].storage_locked /\ ~mlp'[p].incoming_migration /\ ~mlp'[p].tpm_running
    /\ mlp'[p].lastCommand = "NONE" /\ Flag(p)' = Flag(p)
    /\ lib'[p] = FreshLib
    /\ pc'[p].at = "down"
    /\ dir'.volatilestate = dir.volatilestate
    /\ dir'.lock = IF dir.lock = p THEN None ELSE dir.lock

\* The end of mainLoop.
LEMMA ExitEffect ==
    ASSUME ProcTypes, NEW p \in Procs, Exit(p)
    PROVE  GoneFrom(p) /\ At(p, "exit") /\ dir'.permall = FileAfterShutdown(p)
BY DEF Exit, GoneFrom, ProcTypes, Directory, Gone, FreshParams, Goto, Point, Frame,
    Others, Flag

\* A process that is killed.
LEMMA KillEffect ==
    ASSUME ProcTypes, NEW p \in Procs, Kill(p)
    PROVE  GoneFrom(p) /\ ~At(p, "down") /\ dir'.permall = dir.permall
BY ZenonT(60) DEF Kill, GoneFrom, ProcTypes, Directory, Gone, FreshParams, Goto, Point, Frame,
    Others, Flag

\* A process that is started.
LEMMA StartEffect ==
    ASSUME ProcTypes, NEW p \in Procs, NEW incoming \in BOOLEAN, Start(p, incoming, Flag(p))
    PROVE  /\ Frame(p)
           /\ At(p, "down")
           /\ ~mlp'[p].storage_locked /\ mlp'[p].incoming_migration = incoming
           /\ ~mlp'[p].tpm_running
           /\ mlp'[p].lastCommand = "NONE" /\ Flag(p)' = Flag(p)
           /\ lib' = lib /\ dir' = dir
           /\ pc'[p].at = "idle"
BY DEF Start, ProcTypes, FreshParams, Goto, Point, Frame, Others, Flag

-----------------------------------------------------------------------------
(* Each step keeps the invariant. First the steps that are quiet.          *)

\* The stage of one machine changes.
LEMMA StageStep ==
    ASSUME ClientTypes, NEW p \in Procs, NEW stage, vm' = [vm EXCEPT ![p] = stage]
    PROVE  vm'[p] = stage /\ \A q \in Others(p) : vm'[q] = vm[q]
BY DEF ClientTypes, Others

\* The lock is left alone, given up, or taken while it is free.
LEMMA KeepsStep ==
    ASSUME NEW p \in Procs, Frame(p), \A q \in Others(p) : vm'[q] = vm[q],
           \/ dir'.lock = dir.lock
           \/ dir.lock \in {None, p} /\ dir'.lock \in {None, p}
    PROVE  Keeps(p)
BY SwtpmAssumption, ZenonT(60) DEF Keeps, Frame, Others

\* A machine that has begun finds no other that sends.
LEMMA RespectsStep ==
    ASSUME Safe, NEW p \in Procs,
           vm[p] \notin {"none"} \cup Waiting \/ vm'[p] \in {"none"} \cup Waiting
    PROVE  Respects(p)
BY ZenonT(60) DEF Safe, Local, Sends, Alone, Respects, Others

\* The usual case: the stream and the volatile state file stay, and the machine
\* that owns the lock keeps it.
LEMMA TurnStep ==
    ASSUME Safe, NEW p \in Procs, Keeps(p), Flag(p)' = Flag(p), stream' = stream,
           dir'.volatilestate = dir.volatilestate,
           dir.permall # None => dir'.permall # None,
           vm[p] \notin {"none"} \cup Waiting \/ vm'[p] \in {"none"} \cup Waiting,
           Owns(p) => Owns(p)'
    PROVE  Turn(p)
BY RespectsStep, ZenonT(60) DEF Turn, StreamStep, FileStep, Release

\* CMD_INIT has the lock: the volatile state file is gone.
LEMMA BootedSafe ==
    ASSUME Safe, Inv', NEW p \in Procs, Booted(p)
    PROVE  Safe'
<1>1. /\ Frame(p)
      /\ At(p, "init") /\ (~mlp[p].storage_locked \/ LockFree(p))
      /\ mlp'[p].storage_locked = mlp[p].storage_locked
      /\ mlp'[p].incoming_migration = mlp[p].incoming_migration
      /\ mlp'[p].lastCommand = mlp[p].lastCommand
      /\ mlp'[p].tpm_running /\ Flag(p)' = Flag(p)
      /\ lib' = lib
      /\ pc'[p].at = "idle"
      /\ dir'.permall = dir.permall
      /\ dir'.volatilestate = None
      /\ dir'.lock = IF mlp[p].storage_locked THEN p ELSE dir.lock
  BY InitLockedEffect, Zenon DEF Safe, Inv, ProcInv, Booted
<1>2. /\ vm[p] = "booting" /\ vm'[p] = "run" /\ \A q \in Others(p) : vm'[q] = vm[q]
      /\ stream' = stream /\ hist' = hist
  BY StageStep, ZenonT(60) DEF Safe, Inv, Booted, VM, clientVars
<1>3. Place(p) /\ Holding(p) /\ Blobbed(p) /\ Sends(p) /\ Filed(p)
  BY ZenonT(60) DEF Safe, Local
<1>4. mlp[p].storage_locked /\ dir.lock \in {None, p} /\ dir'.lock = p
  BY <1>1, <1>2, <1>3, ZenonT(60) DEF Holding, LockFree
<1>5. Turn(p)
  <2>1. Keeps(p)
    BY <1>1, <1>2, <1>4, KeepsStep, ZenonT(60)
  <2>2. Owns(p)'
    BY <1>2, <1>4, ZenonT(60) DEF Owns
  <2>3. Respects(p)
    BY <1>2, RespectsStep, ZenonT(60) DEF Waiting
  <2>4. QED
    BY <1>1, <1>2, <1>4, <2>1, <2>2, <2>3, ZenonT(60) DEF Turn, StreamStep, FileStep, Release
<1>6. Local(p)'
  BY <1>1, <1>2, <1>3, <1>4, ZenonT(60) DEF Local, Place, Holding, Blobbed, Sends, Filed, At,
      Running, Starting, Receiving, Sending, Waiting
<1>7. Quiet(p)
  BY <1>1, <1>2, ZenonT(60) DEF Quiet, Live, Running, Sending
<1>8. QED
  BY <1>5, <1>6, <1>7, QuietStep, ZenonT(60)

\* The destination comes to run; the stream is used up.
LEMMA ResumedSafe ==
    ASSUME Safe, Inv', NEW p \in Procs, Resumed(p)
    PROVE  Safe'
<1>1. /\ Frame(p)
      /\ At(p, "init") /\ (~mlp[p].storage_locked \/ LockFree(p))
      /\ mlp'[p].storage_locked = mlp[p].storage_locked
      /\ mlp'[p].incoming_migration = mlp[p].incoming_migration
      /\ mlp'[p].lastCommand = mlp[p].lastCommand
      /\ mlp'[p].tpm_running /\ Flag(p)' = Flag(p)
      /\ lib' = lib
      /\ pc'[p].at = "idle"
      /\ dir'.permall = dir.permall
      /\ dir'.volatilestate = None
      /\ dir'.lock = IF mlp[p].storage_locked THEN p ELSE dir.lock
  BY InitLockedEffect, Zenon DEF Safe, Inv, ProcInv, Resumed
<1>2. /\ vm[p] = "resuming" /\ vm'[p] = "run" /\ \A q \in Others(p) : vm'[q] = vm[q]
      /\ stream' = None /\ hist' = hist
  BY StageStep, ZenonT(60) DEF Safe, Inv, Resumed, VM
<1>3. Place(p) /\ Holding(p) /\ Blobbed(p) /\ Sends(p) /\ Filed(p)
  BY DEF Safe, Local
<1>4. mlp[p].storage_locked /\ dir.lock = p /\ dir'.lock = p /\ stream.to = p
  BY <1>1, <1>2, <1>3, ZenonT(60) DEF Holding, Blobbed, Receiving
<1>5. Turn(p)
  <2>1. Keeps(p)
    BY <1>1, <1>2, <1>4, KeepsStep, Zenon
  <2>2. Owns(p)'
    BY <1>2, <1>4, ZenonT(60) DEF Owns
  <2>3. Respects(p)
    BY <1>2, RespectsStep, ZenonT(60) DEF Waiting
  <2>4. QED
    BY <1>1, <1>2, <1>4, <2>1, <2>2, <2>3, ZenonT(60) DEF Turn, StreamStep, FileStep, Release
<1>6. Local(p)'
  BY <1>1, <1>2, <1>3, <1>4, ZenonT(60) DEF Local, Place, Holding, Blobbed, Sends, Filed, At,
      Running, Starting, Receiving, Sending, Waiting
<1>7. Quiet(p)
  BY <1>1, <1>2, ZenonT(60) DEF Quiet, Live, Running, Sending
<1>8. QED
  BY <1>5, <1>6, <1>7, QuietStep

\* A waiting machine has its TPM initialised, without the lock.
LEMMA WarmedUpSafe ==
    ASSUME Safe, Inv', NEW p \in Procs, WarmedUp(p)
    PROVE  Safe'
<1>1. /\ Frame(p)
      /\ mlp'[p].storage_locked = mlp[p].storage_locked
      /\ mlp'[p].incoming_migration = mlp[p].incoming_migration
      /\ mlp'[p].lastCommand = mlp[p].lastCommand
      /\ mlp'[p].tpm_running /\ Flag(p)' = Flag(p)
      /\ lib' = lib
      /\ pc'[p].at = "idle"
      /\ dir'.permall = dir.permall
      /\ dir'.volatilestate = dir.volatilestate
      /\ dir'.lock = IF mlp[p].storage_locked THEN p ELSE dir.lock
  BY InitLockedEffect, Zenon DEF Safe, Inv, ProcInv, WarmedUp
<1>2. /\ vm[p] = "warming" /\ vm'[p] = "warm" /\ \A q \in Others(p) : vm'[q] = vm[q]
      /\ stream' = stream /\ hist' = hist
  BY StageStep, ZenonT(60) DEF Safe, Inv, WarmedUp, VM, clientVars
<1>3. Place(p) /\ Holding(p) /\ Blobbed(p) /\ Sends(p) /\ Filed(p)
  BY DEF Safe, Local
<1>4. dir'.lock = dir.lock
  BY <1>1, <1>2, <1>3, ZenonT(60) DEF Holding, Waiting
<1>5. Turn(p)
  <2>1. Keeps(p)
    BY <1>1, <1>2, <1>4, KeepsStep, ZenonT(60)
  <2>2. ~Owns(p)
    BY <1>2, ZenonT(60) DEF Owns
  <2>3. QED
    BY <1>1, <1>2, <2>1, <2>2, TurnStep, ZenonT(60) DEF Waiting
<1>6. Local(p)'
  BY <1>1, <1>2, <1>3, <1>4, ZenonT(60) DEF Local, Place, Holding, Blobbed, Sends, Filed, At,
      Running, Starting, Receiving, Sending, Waiting
<1>7. Quiet(p)
  BY <1>1, <1>2, Zenon DEF Quiet, Live, Running, Sending, Unfiled
<1>8. QED
  BY <1>5, <1>6, <1>7, QuietStep

\* The lock is another's, and CMD_INIT comes to nothing.
LEMMA InitFailedSafe ==
    ASSUME Safe, Inv', NEW p \in Procs, InitFailed(p)
    PROVE  Safe'
<1>1. /\ Frame(p)
      /\ At(p, "init") /\ ~LockFree(p)
      /\ mlp' = mlp /\ dir' = dir
      /\ lib'[p].cached = lib[p].cached
      /\ pc'[p].at = "idle"
  BY InitRefusedEffect, Zenon DEF Safe, Inv, ProcInv, InitFailed
<1>2. /\ vm'[p] = "failed" /\ \A q \in Others(p) : vm'[q] = vm[q]
      /\ stream' = stream /\ hist' = hist
  BY StageStep, ZenonT(60) DEF Safe, Inv, InitFailed, clientVars
<1>3. Place(p) /\ Holding(p) /\ Blobbed(p) /\ Sends(p) /\ Filed(p)
  BY DEF Safe, Local
<1>4. /\ dir.lock # p /\ vm[p] \in Starting
      /\ ~mlp[p].tpm_running /\ lib[p].cached.PERMANENT = None /\ lib[p].cached.VOLATILE = None
  BY <1>1, <1>3, ZenonT(60) DEF LockFree, Place, Blobbed, Starting, Running, Sending
<1>5. vm[p] # "warming"
  BY <1>1, <1>3, ZenonT(60) DEF InitFailed, InitRefused, Holding, Waiting
<1>6. Turn(p)
  <2>1. Keeps(p)
    BY <1>1, <1>2, KeepsStep, ZenonT(60)
  <2>2. ~Owns(p)
    BY <1>4, ZenonT(60) DEF Owns
  <2>3. QED
    BY <1>1, <1>2, <1>4, <1>5, <2>1, <2>2, TurnStep, ZenonT(60) DEF Starting, Waiting, Flag
<1>7. Local(p)'
  BY <1>1, <1>2, <1>3, <1>4, ZenonT(60) DEF Local, Place, Holding, Blobbed, Sends, Filed, At,
      Running, Starting, Receiving, Sending, Waiting
<1>8. Quiet(p)
  BY <1>1, <1>2, <1>4, ZenonT(60) DEF Quiet, Live, Running, Starting, Sending, Unfiled
<1>9. QED
  BY <1>6, <1>7, <1>8, QuietStep

\* The lock is taken: for a blob, for a command, or by CMD_LOCK_STORAGE.
LEMMA LockedSafe ==
    ASSUME Safe, Inv', NEW p \in Procs, Locked(p)
    PROVE  Safe'
<1>1. /\ Frame(p)
      /\ mlp'[p].storage_locked /\ ~mlp'[p].incoming_migration
      /\ mlp'[p].lastCommand = mlp[p].lastCommand
      /\ mlp'[p].tpm_running = mlp[p].tpm_running /\ Flag(p)' = Flag(p)
      /\ lib' = lib
      /\ pc'[p].at = pc[p].then
      /\ dir'.permall = dir.permall /\ dir'.volatilestate = dir.volatilestate
      /\ dir'.lock = p
      /\ At(p, "lock") /\ dir.lock \in {None, p}
  BY LockTakenEffect, Zenon DEF Safe, Inv, ProcInv, Locked, LockTaken, LockFree
<1>2. /\ vm'[p] = IF vm[p] = "relock" THEN "run" ELSE vm[p]
      /\ \A q \in Others(p) : vm'[q] = vm[q]
      /\ stream' = stream /\ hist' = hist
  BY StageStep, ZenonT(60) DEF Safe, Inv, Locked, VM, clientVars
<1>3. Place(p) /\ Holding(p) /\ Blobbed(p) /\ Sends(p) /\ Filed(p)
  BY DEF Safe, Local
<1>4. \/ vm[p] = "setPerm" /\ vm'[p] = "setPerm" /\ pc'[p].at = "set"
      \/ vm[p] \in {"run", "stopped"} /\ vm'[p] = vm[p] /\ pc'[p].at = "cmd"
      \/ vm[p] = "relock" /\ vm'[p] = "run" /\ pc'[p].at = "idle"
  BY <1>1, <1>2, <1>3, ZenonT(60) DEF Place
<1>5. Turn(p)
  <2>1. Keeps(p)
    BY <1>1, <1>2, KeepsStep, ZenonT(60)
  <2>2. Owns(p) => Owns(p)'
    BY <1>1, <1>4, ZenonT(60) DEF Owns
  <2>3. QED
    BY <1>1, <1>2, <1>4, <2>1, <2>2, TurnStep, ZenonT(60) DEF Waiting
<1>6. Local(p)'
  BY <1>1, <1>2, <1>3, <1>4, ZenonT(60) DEF Local, Place, Holding, Blobbed, Sends, Filed, At,
      Running, Starting, Receiving, Sending, Waiting
<1>7. Quiet(p)
  BY <1>1, <1>2, <1>4, Zenon DEF Quiet, Live, Running, Sending, Unfiled, At
<1>8. QED
  BY <1>5, <1>6, <1>7, QuietStep

\* An attempt to lock that fails and is repeated.
LEMMA LockWaitsSafe ==
    ASSUME Safe, Inv', NEW p \in Procs, LockWaits(p)
    PROVE  Safe'
<1>1. /\ Frame(p)
      /\ mlp' = mlp /\ lib' = lib /\ dir' = dir /\ vm' = vm
      /\ pc'[p].at = pc[p].at /\ pc'[p].then = pc[p].then
      /\ stream' = stream /\ hist' = hist
      /\ At(p, "lock")
  BY ZenonT(60) DEF Safe, Inv, ProcInv, ProcTypes, LockWaits, LockRetry, clientVars, Points, Frame,
      Others
<1>2. Place(p) /\ Holding(p) /\ Blobbed(p) /\ Sends(p) /\ Filed(p)
  BY DEF Safe, Local
<1>3. vm[p] \in {"setPerm", "run", "stopped", "relock"}
  BY <1>1, <1>2, ZenonT(60) DEF Place
<1>4. Turn(p)
  <2>1. Keeps(p)
    BY <1>1, KeepsStep, ZenonT(60)
  <2>2. Owns(p) => Owns(p)'
    BY <1>1, ZenonT(60) DEF Owns
  <2>3. QED
    BY <1>1, <1>3, <2>1, <2>2, TurnStep, ZenonT(60) DEF Waiting, Flag
<1>5. Local(p)'
  BY <1>1, <1>2, <1>3, ZenonT(60)
     DEF Local, Place, Holding, Blobbed, Sends, Filed, At, Alone, Others
<1>6. Quiet(p)
  BY <1>1, <1>3, ZenonT(60) DEF Quiet, Live, Sending, At
<1>7. QED
  BY <1>4, <1>5, <1>6, QuietStep

\* The attempts are used up: the machine is lost to this client.
LEMMA NotLockedSafe ==
    ASSUME Safe, Inv', NEW p \in Procs, NotLocked(p)
    PROVE  Safe'
<1>1. /\ Frame(p)
      /\ mlp' = mlp /\ lib' = lib /\ dir' = dir
      /\ pc'[p].at \in {"exit", "idle"}
      /\ stream' = stream /\ hist' = hist
      /\ At(p, "lock") /\ dir.lock # p
  BY DEF Safe, Inv, ProcInv, ProcTypes, NotLocked, LockFailed, LockFree, clientVars, Goto,
      Point, Frame, Others
<1>2. vm'[p] = "failed" /\ \A q \in Others(p) : vm'[q] = vm[q]
  BY StageStep, Zenon DEF Safe, Inv, NotLocked
<1>3. Place(p) /\ Holding(p) /\ Blobbed(p) /\ Sends(p) /\ Filed(p)
  BY DEF Safe, Local
<1>4. vm[p] \in {"setPerm", "run", "stopped", "relock"} /\ ~mlp[p].storage_locked
  BY <1>1, <1>3, ZenonT(60) DEF Place, Holding
<1>5. Turn(p)
  <2>1. Keeps(p)
    BY <1>1, <1>2, KeepsStep, ZenonT(60)
  <2>2. ~Owns(p)
    BY <1>1, ZenonT(60) DEF Owns
  <2>3. QED
    BY <1>1, <1>4, <2>1, <2>2, TurnStep, ZenonT(60) DEF Waiting, Flag
<1>6. Local(p)'
  BY <1>1, <1>2, <1>3, <1>4, ZenonT(60) DEF Local, Place, Holding, Blobbed, Sends, Filed, At,
      Running, Starting, Receiving, Sending, Waiting
<1>7. Quiet(p)
  BY <1>1, <1>2, <1>4, ZenonT(60) DEF Quiet, Live, Running, Sending, Unfiled
<1>8. QED
  BY <1>5, <1>6, <1>7, QuietStep

\* A command arrives from the guest.
LEMMA GuestSafe ==
    ASSUME Safe, Inv', NEW p \in Procs, Guest(p)
    PROVE  Safe'
<1>1. /\ Frame(p)
      /\ At(p, "idle")
      /\ mlp' = mlp /\ lib' = lib /\ dir' = dir
      /\ \/ pc'[p].at = "cmd"
         \/ ~mlp[p].storage_locked /\ pc'[p].at = "lock" /\ pc'[p].then = "cmd"
  BY DataCommandEffect, Zenon DEF Safe, Inv, ProcInv, Guest
<1>2. vm[p] \in {"run", "stopped"} /\ vm' = vm /\ stream' = stream /\ hist' = hist
  BY ZenonT(60) DEF Guest, clientVars
<1>3. Place(p) /\ Holding(p) /\ Blobbed(p) /\ Sends(p) /\ Filed(p)
  BY DEF Safe, Local
<1>4. Turn(p)
  <2>1. Keeps(p)
    BY <1>1, <1>2, KeepsStep, ZenonT(60)
  <2>2. Owns(p) => Owns(p)'
    BY <1>1, <1>2, ZenonT(60) DEF Owns
  <2>3. QED
    BY <1>1, <1>2, <2>1, <2>2, TurnStep, Zenon DEF Waiting, Flag
<1>5. Local(p)'
  BY <1>1, <1>2, <1>3, ZenonT(60) DEF Local, Place, Holding, Blobbed, Sends, Filed, At,
      Running, Starting, Receiving, Sending, Waiting
<1>6. Quiet(p)
  BY <1>1, <1>2 DEF Quiet, Live, Sending, Unfiled, At
<1>7. QED
  BY <1>4, <1>5, <1>6, QuietStep

\* A command that finds no running TPM gets a fatal response.
LEMMA FatalResponseSafe ==
    ASSUME Safe, Inv', NEW p \in Procs, FatalResponse(p), UNCHANGED <<clientVars, vm>>
    PROVE  Safe'
<1>1. /\ Frame(p)
      /\ At(p, "cmd")
      /\ mlp' = mlp /\ lib' = lib /\ dir' = dir
      /\ pc'[p].at = "idle"
      /\ vm' = vm /\ stream' = stream /\ hist' = hist
  BY Zenon DEF Safe, Inv, ProcInv, ProcTypes, FatalResponse, clientVars, Goto, Point, Frame, Others
<1>2. Place(p) /\ Holding(p) /\ Blobbed(p) /\ Sends(p) /\ Filed(p)
  BY ZenonT(60) DEF Safe, Local
<1>3. vm[p] \in {"run", "stopped"}
  BY <1>1, <1>2, ZenonT(60) DEF Place
<1>4. Turn(p)
  <2>1. Keeps(p)
    BY <1>1, KeepsStep, ZenonT(60)
  <2>2. Owns(p) => Owns(p)'
    BY <1>1, ZenonT(60) DEF Owns
  <2>3. QED
    BY <1>1, <1>3, <2>1, <2>2, TurnStep, ZenonT(60) DEF Waiting, Flag
<1>5. Local(p)'
  BY <1>1, <1>2, <1>3, ZenonT(60) DEF Local, Place, Holding, Blobbed, Sends, Filed, At,
      Running, Starting, Receiving, Sending, Waiting
<1>6. Quiet(p)
  BY <1>1, <1>3, ZenonT(60) DEF Quiet, Live, Sending, Unfiled, At
<1>7. QED
  BY <1>4, <1>5, <1>6, QuietStep, ZenonT(60)

\* A blob is cached, as it is in the stream.
LEMMA PermanentSetSafe ==
    ASSUME Safe, Inv', NEW p \in Procs, PermanentSet(p)
    PROVE  Safe'
<1>1. /\ Frame(p)
      /\ At(p, "set")
      /\ mlp' = mlp /\ dir' = dir
      /\ lib'[p].cached = [lib[p].cached EXCEPT !["PERMANENT"] = stream.blobs.PERMANENT]
      /\ pc'[p].at = "idle"
  BY SetStateEffect, Zenon DEF Safe, Inv, ProcInv, PermanentSet
<1>2. /\ vm[p] = "setPerm" /\ vm'[p] = "gotPerm" /\ \A q \in Others(p) : vm'[q] = vm[q]
      /\ stream' = stream /\ hist' = hist
  BY StageStep, Zenon DEF Safe, Inv, PermanentSet, VM, clientVars
<1>3. Place(p) /\ Holding(p) /\ Blobbed(p) /\ Sends(p) /\ Filed(p)
  BY DEF Safe, Local
<1>4. /\ lib'[p].cached.PERMANENT = stream.blobs.PERMANENT
      /\ lib'[p].cached.VOLATILE = None
  <2>1. lib[p].cached \in Blobs
    BY ZenonT(60) DEF Safe, Inv, ProcInv, ProcTypes, Memory
  <2>2. QED
    BY <1>1, <1>2, <1>3, <2>1, Zenon DEF Blobs, Blobbed
<1>5. Turn(p)
  <2>1. Keeps(p)
    BY <1>1, <1>2, KeepsStep, ZenonT(60)
  <2>2. ~Owns(p)
    BY <1>2 DEF Owns
  <2>3. QED
    BY <1>1, <1>2, <2>1, <2>2, TurnStep, ZenonT(60) DEF Waiting, Flag
<1>6. Local(p)'
  <2>1. Place(p)' /\ Holding(p)'
    BY <1>1, <1>2, <1>3, ZenonT(60) DEF Place, Holding, At, Running, Starting, Sending, Waiting
  <2>2. Blobbed(p)' /\ Sends(p)' /\ Filed(p)'
    BY <1>1, <1>2, <1>3, <1>4, ZenonT(60)
       DEF Blobbed, Sends, Filed, At, Running, Starting, Receiving,
        Sending, Waiting
  <2>3. QED
    BY <2>1, <2>2, ZenonT(60) DEF Local
<1>7. Quiet(p)
  BY <1>1, <1>2, ZenonT(60) DEF Quiet, Live, Running, Sending, Unfiled
<1>8. QED
  BY <1>5, <1>6, <1>7, QuietStep

\* The destination takes the volatile state.
LEMMA VolatileSetSafe ==
    ASSUME Safe, Inv', NEW p \in Procs, VolatileSet(p)
    PROVE  Safe'
<1>1. /\ Frame(p)
      /\ At(p, "set")
      /\ mlp' = mlp /\ dir' = dir
      /\ lib'[p].cached = [lib[p].cached EXCEPT !["VOLATILE"] = stream.blobs.VOLATILE]
      /\ pc'[p].at = "idle"
  BY SetStateEffect, Zenon DEF Safe, Inv, ProcInv, VolatileSet
<1>2. /\ vm[p] = "setVol" /\ vm'[p] = "gotVol" /\ \A q \in Others(p) : vm'[q] = vm[q]
      /\ stream' = stream /\ hist' = hist
  BY StageStep, ZenonT(60) DEF Safe, Inv, VolatileSet, VM, clientVars
<1>3. Place(p) /\ Holding(p) /\ Blobbed(p) /\ Sends(p) /\ Filed(p)
  BY DEF Safe, Local
<1>4. /\ lib'[p].cached.PERMANENT = stream.blobs.PERMANENT
      /\ lib'[p].cached.VOLATILE = stream.blobs.VOLATILE
  <2>1. lib[p].cached \in Blobs
    BY DEF Safe, Inv, ProcInv, ProcTypes, Memory
  <2>2. QED
    BY <1>1, <1>2, <1>3, <2>1, ZenonT(60) DEF Blobs, Blobbed
<1>5. Turn(p)
  <2>1. Keeps(p)
    BY <1>1, <1>2, KeepsStep, ZenonT(60)
  <2>2. ~Owns(p)
    BY <1>2, ZenonT(60) DEF Owns
  <2>3. QED
    BY <1>1, <1>2, <2>1, <2>2, TurnStep, ZenonT(60) DEF Waiting, Flag
<1>6. Local(p)'
  <2>1. Place(p)' /\ Holding(p)'
    BY <1>1, <1>2, <1>3, ZenonT(60) DEF Place, Holding, At, Running, Starting, Sending, Waiting
  <2>2. Blobbed(p)' /\ Sends(p)' /\ Filed(p)'
    BY <1>1, <1>2, <1>3, <1>4, ZenonT(60)
       DEF Blobbed, Sends, Filed, At, Running, Starting, Receiving,
        Sending, Waiting
  <2>3. QED
    BY <2>1, <2>2 DEF Local
<1>7. Quiet(p)
  BY <1>1, <1>2, ZenonT(60) DEF Quiet, Live, Running, Sending, Unfiled
<1>8. QED
  BY <1>5, <1>6, <1>7, QuietStep

\* The destination refuses a blob.
LEMMA BlobRefusedSafe ==
    ASSUME Safe, Inv', NEW p \in Procs, BlobRefused(p)
    PROVE  Safe'
<1>1. /\ Frame(p)
      /\ At(p, "set")
      /\ mlp' = mlp /\ dir' = dir
      /\ pc'[p].at = "idle"
  BY SetStateRefusedEffect, Zenon DEF Safe, Inv, ProcInv, BlobRefused
<1>2. /\ vm[p] \in {"setPerm", "setVol"}
      /\ vm'[p] = "failed" /\ \A q \in Others(p) : vm'[q] = vm[q]
      /\ stream' = stream /\ hist' = hist
  BY StageStep, ZenonT(60) DEF Safe, Inv, BlobRefused, VM, clientVars
<1>3. Place(p) /\ Holding(p) /\ Blobbed(p) /\ Sends(p) /\ Filed(p)
  BY DEF Safe, Local
<1>4. ~mlp[p].tpm_running
  BY <1>2, <1>3, Zenon DEF Place, Running, Sending
<1>5. Turn(p)
  <2>1. Keeps(p)
    BY <1>1, <1>2, KeepsStep, ZenonT(60)
  <2>2. ~Owns(p)
    BY <1>2, ZenonT(60) DEF Owns
  <2>3. QED
    BY <1>1, <1>2, <2>1, <2>2, TurnStep, ZenonT(60) DEF Waiting, Flag
<1>6. Local(p)'
  BY <1>1, <1>2, <1>3, <1>4, ZenonT(60) DEF Local, Place, Holding, Blobbed, Sends, Filed, At,
      Running, Starting, Receiving, Sending, Waiting
<1>7. Quiet(p)
  BY <1>1, <1>2, ZenonT(60) DEF Quiet, Live, Running, Sending, Unfiled
<1>8. QED
  BY <1>5, <1>6, <1>7, QuietStep

\* The first blob comes when no source is sending, and waits for the lock.
LEMMA SetPermanentSafe ==
    ASSUME Safe, Inv', NEW p \in Procs, SetPermanent(p)
    PROVE  Safe'
<1>1. /\ Frame(p)
      /\ At(p, "idle") /\ ~mlp[p].tpm_running
      /\ mlp' = mlp /\ dir' = dir
      /\ lib'[p].cached = lib[p].cached
      /\ ~mlp[p].storage_locked => pc'[p].at = "lock" /\ pc'[p].then = "set"
  BY SetStateblobEffect, Zenon DEF Safe, Inv, ProcInv, SetPermanent
<1>2. /\ vm[p] = "incoming" /\ vm'[p] = "setPerm" /\ \A q \in Others(p) : vm'[q] = vm[q]
      /\ stream' = stream /\ hist' = hist /\ stream # None /\ stream.to = p
      /\ \A q \in Others(p) : vm[q] \notin Sending
  BY StageStep, ZenonT(60) DEF Safe, Inv, SetPermanent, VM, clientVars
<1>3. Place(p) /\ Holding(p) /\ Blobbed(p) /\ Sends(p) /\ Filed(p)
  BY DEF Safe, Local
<1>4. Turn(p)
  <2>1. Keeps(p)
    BY <1>1, <1>2, KeepsStep, ZenonT(60)
  <2>2. ~Owns(p)
    BY <1>2 DEF Owns
  <2>3. QED
    BY <1>1, <1>2, <2>1, <2>2 DEF Turn, Respects, StreamStep, FileStep, Release, Flag
<1>5. Local(p)'
  BY <1>1, <1>2, <1>3, ZenonT(60) DEF Local, Place, Holding, Blobbed, Sends, Filed, At,
      Running, Starting, Receiving, Sending, Waiting
<1>6. Quiet(p)
  BY <1>1, <1>2, ZenonT(60) DEF Quiet, Live, Running, Sending, Unfiled
<1>7. QED
  BY <1>4, <1>5, <1>6, QuietStep

\* The volatile state arrives at the destination.
LEMMA SetVolatileSafe ==
    ASSUME Safe, Inv', NEW p \in Procs, SetVolatile(p)
    PROVE  Safe'
<1>1. /\ Frame(p)
      /\ At(p, "idle") /\ ~mlp[p].tpm_running
      /\ mlp' = mlp /\ dir' = dir
      /\ lib'[p].cached = lib[p].cached
      /\ mlp[p].storage_locked => pc'[p].at = "set"
  BY SetStateblobEffect, Zenon DEF Safe, Inv, ProcInv, SetVolatile
<1>2. /\ vm[p] = "gotPerm" /\ vm'[p] = "setVol" /\ \A q \in Others(p) : vm'[q] = vm[q]
      /\ stream' = stream /\ hist' = hist
  BY StageStep, Zenon DEF Safe, Inv, SetVolatile, VM, clientVars
<1>3. Place(p) /\ Holding(p) /\ Blobbed(p) /\ Sends(p) /\ Filed(p)
  BY DEF Safe, Local
<1>4. Turn(p)
  <2>1. Keeps(p)
    BY <1>1, <1>2, KeepsStep, ZenonT(60)
  <2>2. ~Owns(p)
    BY <1>2, ZenonT(60) DEF Owns
  <2>3. QED
    BY <1>1, <1>2, <2>1, <2>2, TurnStep, ZenonT(60) DEF Waiting, Flag
<1>5. Local(p)'
  BY <1>1, <1>2, <1>3, ZenonT(60) DEF Local, Place, Holding, Blobbed, Sends, Filed, At,
      Running, Starting, Receiving, Sending, Waiting
<1>6. Quiet(p)
  BY <1>1, <1>2, ZenonT(60) DEF Quiet, Live, Running, Sending, Unfiled
<1>7. QED
  BY <1>4, <1>5, <1>6, QuietStep

\* A migration begins when no other could run the machine.
LEMMA MigrateOutSafe ==
    ASSUME Safe, Inv', NEW p \in Procs, MigrateOut(p)
    PROVE  Safe'
<1>1. /\ mlp' = mlp /\ lib' = lib /\ dir' = dir /\ pc' = pc /\ hist' = hist
      /\ At(p, "idle") /\ Alone(p) /\ mlp[p].storage_locked
      /\ stream'.blobs = NoBlobs
  BY DEF MigrateOut, procVars
<1>2. vm[p] = "run" /\ vm'[p] = "getPerm" /\ \A q \in Others(p) : vm'[q] = vm[q]
  BY StageStep, ZenonT(60) DEF Safe, Inv, MigrateOut, VM
<1>3. Place(p) /\ Holding(p) /\ Blobbed(p) /\ Sends(p) /\ Filed(p)
  BY DEF Safe, Local
<1>4. Turn(p)
  <2>1. Keeps(p)
    BY <1>1, <1>2, ZenonT(60) DEF Keeps
  <2>2. Respects(p)
    BY <1>2, RespectsStep, ZenonT(60) DEF Waiting
  <2>3. QED
    BY <1>1, <2>1, <2>2, ZenonT(60) DEF Turn, StreamStep, FileStep, Release, Flag
<1>5. Alone(p)'
  BY <1>1, <1>2 DEF Alone, Others
<1>6. Local(p)'
  BY <1>1, <1>2, <1>3, <1>5, ZenonT(60) DEF Local, Place, Holding, Blobbed, Sends, Filed, At,
      Running, Starting, Receiving, Sending, Waiting
<1>7. Quiet(p)
  BY <1>1, <1>2, ZenonT(60) DEF Quiet, Live, Running, Sending, Unfiled, At
<1>8. QED
  BY <1>4, <1>6, <1>7, QuietStep

\* The last blob is asked for, and the lock released.
LEMMA GetSavestateSafe ==
    ASSUME Safe, Inv', NEW p \in Procs, GetSavestate(p)
    PROVE  Safe'
<1>1. /\ Frame(p)
      /\ At(p, "idle") /\ mlp[p].tpm_running
      /\ ~mlp'[p].storage_locked
      /\ mlp'[p].incoming_migration = mlp[p].incoming_migration
      /\ mlp'[p].lastCommand = mlp[p].lastCommand
      /\ mlp'[p].tpm_running = mlp[p].tpm_running /\ Flag(p)' = Flag(p)
      /\ lib' = lib /\ pc' = pc
      /\ dir'.permall = dir.permall
      /\ dir'.volatilestate = dir.volatilestate
      /\ dir'.lock = IF dir.lock = p THEN None ELSE dir.lock
  BY ReturnSavestateEffect DEF Safe, Inv, ProcInv, GetSavestate
<1>2. /\ vm[p] = "getSave" /\ vm'[p] = "sent" /\ \A q \in Others(p) : vm'[q] = vm[q]
      /\ stream' = stream /\ hist' = hist
  BY StageStep, ZenonT(60) DEF Safe, Inv, GetSavestate, VM, clientVars
<1>3. Place(p) /\ Holding(p) /\ Blobbed(p) /\ Sends(p) /\ Filed(p)
  BY DEF Safe, Local
<1>4. dir'.lock # p
  BY <1>1, SwtpmAssumption, ZenonT(60)
<1>5. Turn(p)
  <2>1. Keeps(p)
    BY <1>1, <1>2, KeepsStep, ZenonT(60)
  <2>2. ~Owns(p)
    BY <1>2, ZenonT(60) DEF Owns
  <2>3. QED
    BY <1>1, <1>2, <2>1, <2>2, TurnStep, ZenonT(60) DEF Waiting
<1>6. Local(p)'
  BY <1>1, <1>2, <1>3, <1>4, ZenonT(60) DEF Local, Place, Holding, Blobbed, Sends, Filed, At,
      Running, Starting, Receiving, Sending, Waiting
<1>7. Quiet(p)
  BY <1>1, <1>2, ZenonT(60) DEF Quiet, Live, Running, Sending, Unfiled, At
<1>8. QED
  BY <1>5, <1>6, <1>7, QuietStep

\* The migration is cancelled, and with it the stream.
LEMMA CancelSafe ==
    ASSUME Safe, Inv', NEW p \in Procs, Cancel(p)
    PROVE  Safe'
<1>1. /\ mlp' = mlp /\ lib' = lib /\ dir' = dir /\ pc' = pc /\ hist' = hist
      /\ At(p, "idle") /\ stream' = None
  BY CancelOnly DEF procVars
<1>2. vm[p] \in Sending /\ vm'[p] = "run" /\ \A q \in Others(p) : vm'[q] = vm[q]
  BY CancelOnly, StageStep, Zenon DEF Safe, Inv, VM
<1>3. Place(p) /\ Holding(p) /\ Blobbed(p) /\ Sends(p) /\ Filed(p)
  BY DEF Safe, Local
<1>4. Turn(p)
  <2>1. Keeps(p)
    BY <1>1, <1>2, ZenonT(60) DEF Keeps
  <2>2. Respects(p)
    BY <1>2, RespectsStep, ZenonT(60) DEF Sending, Waiting
  <2>3. Alone(p)
    BY <1>2, <1>3, ZenonT(60) DEF Sends
  <2>4. QED
    BY <1>1, <2>1, <2>2, <2>3, ZenonT(60) DEF Turn, StreamStep, FileStep, Release, Flag
<1>5. Local(p)'
  BY <1>1, <1>2, <1>3, ZenonT(60) DEF Local, Place, Holding, Blobbed, Sends, Filed, At,
      Running, Starting, Receiving, Sending, Waiting
<1>6. Quiet(p)
  BY <1>1, <1>2, ZenonT(60) DEF Quiet, Live, Running, Sending, Unfiled, At
<1>7. QED
  BY <1>4, <1>5, <1>6, QuietStep

\* The source falls back, without the lock.
LEMMA FallBackSafe ==
    ASSUME Safe, Inv', NEW p \in Procs, FallBack(p)
    PROVE  Safe'
<1>1. /\ mlp' = mlp /\ lib' = lib /\ dir' = dir /\ pc' = pc /\ hist' = hist
      /\ At(p, "idle") /\ stream' = stream
  BY DEF FallBack, procVars, clientVars
<1>2. vm[p] = "sent" /\ vm'[p] = "run" /\ \A q \in Others(p) : vm'[q] = vm[q]
  BY StageStep, ZenonT(60) DEF Safe, Inv, FallBack, VM
<1>3. Place(p) /\ Holding(p) /\ Blobbed(p) /\ Sends(p) /\ Filed(p)
  BY DEF Safe, Local
<1>4. Turn(p)
  <2>1. Keeps(p)
    BY <1>1, <1>2, ZenonT(60) DEF Keeps
  <2>2. ~Owns(p)
    BY <1>2, ZenonT(60) DEF Owns
  <2>3. QED
    BY <1>1, <1>2, <2>1, <2>2, TurnStep, Zenon DEF Waiting, Flag
<1>5. Local(p)'
  BY <1>1, <1>2, <1>3, ZenonT(60) DEF Local, Place, Holding, Blobbed, Sends, Filed, At,
      Running, Starting, Receiving, Sending, Waiting
<1>6. Quiet(p)
  BY <1>1, <1>2, ZenonT(60) DEF Quiet, Live, Running, Sending, Unfiled, At
<1>7. QED
  BY <1>4, <1>5, <1>6, QuietStep

\* A source falls back with CMD_LOCK_STORAGE.
LEMMA FallBackLockedSafe ==
    ASSUME Safe, Inv', NEW p \in Procs, FallBackLocked(p)
    PROVE  Safe'
<1>1. /\ Frame(p) /\ SameParams(p)
      /\ At(p, "idle")
      /\ lib' = lib /\ dir' = dir
      /\ \/ pc'[p].at = "idle"
         \/ ~mlp[p].storage_locked /\ pc'[p].at = "lock" /\ pc'[p].then = "idle"
  BY LockStorageEffect, Zenon DEF Safe, Inv, ProcInv, FallBackLocked
<1>2. /\ vm[p] = "sent" /\ vm'[p] = "relock" /\ \A q \in Others(p) : vm'[q] = vm[q]
      /\ stream' = stream /\ hist' = hist
  BY StageStep, Zenon DEF Safe, Inv, FallBackLocked, VM, clientVars
<1>3. Place(p) /\ Holding(p) /\ Blobbed(p) /\ Sends(p) /\ Filed(p)
  BY DEF Safe, Local
<1>4. Turn(p)
  <2>1. Keeps(p)
    BY <1>1, <1>2, KeepsStep, Zenon
  <2>2. ~Owns(p)
    BY <1>2, ZenonT(60) DEF Owns
  <2>3. QED
    BY <1>1, <1>2, <2>1, <2>2, TurnStep, ZenonT(60) DEF Waiting, SameParams
<1>5. Local(p)'
  BY <1>1, <1>2, <1>3, ZenonT(60) DEF Local, Place, Holding, Blobbed, Sends, Filed, At,
      Running, Starting, Receiving, Sending, Waiting, SameParams
<1>6. Quiet(p)
  BY <1>1, <1>2, ZenonT(60) DEF Quiet, Live, Running, Sending, Unfiled, At, SameParams
<1>7. QED
  BY <1>4, <1>5, <1>6, QuietStep

\* TPMLIB_Terminate and the end of a process write permall only with the image of
\* an automatic shutdown.
LEMMA FileKept ==
    ASSUME ProcTypes, NEW p \in Procs
    PROVE  /\ dir.permall # None => FileAfterShutdown(p) # None
           /\ ~mlp[p].tpm_running \/ lib[p].ram = 0 =>
                 FileAfterShutdown(p) = dir.permall /\ Stopped(p).lastCommand = mlp[p].lastCommand
           /\ \/ FileAfterShutdown(p) = dir.permall
              \/ ~Flag(p) /\ FileAfterShutdown(p).orderly
<1>1. /\ dir.permall # None => FileAfterShutdown(p) # None
      /\ \/ FileAfterShutdown(p) = dir.permall
         \/ ~Flag(p) /\ FileAfterShutdown(p).orderly
  BY ShutdownEffect, NoneAssumption
<1>2. ~mlp[p].tpm_running \/ lib[p].ram = 0 =>
          FileAfterShutdown(p) = dir.permall /\ Stopped(p).lastCommand = mlp[p].lastCommand
  BY ShutdownEffect, ZenonT(60) DEF ShutsDown, FileAfterShutdown
<1>3. QED
  BY <1>1, <1>2, ZenonT(60)

\* A waiting machine is initialised from the permanent state of the source.
LEMMA WarmUpSafe ==
    ASSUME Safe, Inv', NEW p \in Procs, WarmUp(p)
    PROVE  Safe'
<1>1. /\ Frame(p)
      /\ At(p, "idle")
      /\ mlp'[p].storage_locked = ~mlp[p].incoming_migration
      /\ mlp'[p].incoming_migration = mlp[p].incoming_migration
      /\ mlp'[p].lastCommand = Stopped(p).lastCommand
      /\ ~mlp'[p].tpm_running /\ Flag(p)' = Flag(p)
      /\ lib'[p].nvram
      /\ lib'[p].perm = LoadedPermanent(p, FileAfterShutdown(p))
      /\ lib'[p].ram = LoadedVolatile(p, dir.volatilestate)
      /\ lib'[p].cached.PERMANENT = None /\ lib'[p].cached.VOLATILE = None
      /\ pc'[p].at = "init"
      /\ dir'.permall = IF lib[p].cached.PERMANENT # None \/ FileAfterShutdown(p) = None
                        THEN LoadedPermanent(p, FileAfterShutdown(p))
                        ELSE FileAfterShutdown(p)
      /\ dir'.volatilestate = dir.volatilestate
      /\ dir'.lock = dir.lock
  BY CmdInitEffect, ZenonT(60) DEF Safe, Inv, ProcInv, WarmUp
<1>2. /\ vm[p] = "incoming" /\ vm'[p] = "warming" /\ \A q \in Others(p) : vm'[q] = vm[q]
      /\ stream' = stream /\ hist' = hist /\ dir.permall # None /\ dir.volatilestate = None
  BY StageStep, ZenonT(60) DEF Safe, Inv, WarmUp, VM, clientVars
<1>3. Place(p) /\ Holding(p) /\ Blobbed(p) /\ Sends(p) /\ Filed(p)
  BY DEF Safe, Local
<1>4. ~mlp[p].tpm_running /\ lib[p].cached.PERMANENT = None /\ lib[p].cached.VOLATILE = None
  BY <1>2, <1>3, ZenonT(60) DEF Place, Blobbed, Running, Sending
<1>5. FileAfterShutdown(p) = dir.permall /\ Stopped(p).lastCommand = mlp[p].lastCommand
  BY <1>4, FileKept, ZenonT(60) DEF Safe, Inv, ProcInv
<1>6. dir'.permall = dir.permall /\ lib'[p].ram = 0 /\ mlp'[p].lastCommand = mlp[p].lastCommand
  BY <1>1, <1>2, <1>4, <1>5, ZenonT(60) DEF LoadedVolatile
<1>7. Turn(p)
  <2>1. Keeps(p)
    BY <1>1, <1>2, KeepsStep, Zenon
  <2>2. ~Owns(p)
    BY <1>2, ZenonT(60) DEF Owns
  <2>3. QED
    BY <1>1, <1>2, <1>6, <2>1, <2>2, TurnStep, ZenonT(60) DEF Waiting
<1>8. Local(p)'
  BY <1>1, <1>2, <1>3, <1>6, ZenonT(60) DEF Local, Place, Holding, Blobbed, Sends, Filed, At,
      Running, Starting, Receiving, Sending, Waiting
<1>9. Quiet(p)
  BY <1>1, <1>2, <1>6, ZenonT(60) DEF Quiet, Live, Running, Sending, Unfiled
<1>10. QED
  BY <1>7, <1>8, <1>9, QuietStep

\* It is stopped again; its TPM was not started, so there is no shutdown.
LEMMA CoolDownSafe ==
    ASSUME Safe, Inv', NEW p \in Procs, CoolDown(p)
    PROVE  Safe'
<1>1. /\ Frame(p)
      /\ At(p, "idle")
      /\ mlp'[p] = Stopped(p)
      /\ lib'[p].cached = lib[p].cached /\ lib'[p].ram = 0
      /\ pc'[p].at = "idle"
      /\ dir'.permall = FileAfterShutdown(p)
      /\ dir'.volatilestate = dir.volatilestate
      /\ dir'.lock = dir.lock
  BY CmdStopEffect, Zenon DEF Safe, Inv, ProcInv, CoolDown
<1>2. /\ vm[p] = "warm" /\ vm'[p] = "incoming" /\ \A q \in Others(p) : vm'[q] = vm[q]
      /\ stream' = stream /\ hist' = hist
  BY StageStep, ZenonT(60) DEF Safe, Inv, CoolDown, VM, clientVars
<1>3. Place(p) /\ Holding(p) /\ Blobbed(p) /\ Sends(p) /\ Filed(p)
  BY DEF Safe, Local
<1>4. /\ mlp'[p].storage_locked = mlp[p].storage_locked
      /\ mlp'[p].incoming_migration = mlp[p].incoming_migration
      /\ ~mlp'[p].tpm_running /\ Flag(p)' = Flag(p)
  BY <1>1, ShutdownEffect, ZenonT(60) DEF Safe, Inv, ProcInv, Flag
<1>5. lib[p].ram = 0
  BY <1>2, <1>3 DEF Filed
<1>6. dir'.permall = dir.permall /\ mlp'[p].lastCommand = mlp[p].lastCommand
  BY <1>1, <1>5, FileKept, ZenonT(60) DEF Safe, Inv, ProcInv
<1>7. Turn(p)
  <2>1. Keeps(p)
    BY <1>1, <1>2, KeepsStep, Zenon
  <2>2. ~Owns(p)
    BY <1>2, ZenonT(60) DEF Owns
  <2>3. QED
    BY <1>1, <1>2, <1>4, <1>6, <2>1, <2>2, TurnStep, ZenonT(60) DEF Waiting
<1>8. Local(p)'
  BY <1>1, <1>2, <1>3, <1>4, <1>6, ZenonT(60) DEF Local, Place, Holding, Blobbed, Sends, Filed, At,
      Running, Starting, Receiving, Sending, Waiting
<1>9. Quiet(p)
  BY <1>1, <1>2, <1>6, ZenonT(60) DEF Quiet, Live, Running, Sending, Unfiled
<1>10. QED
  BY <1>7, <1>8, <1>9, QuietStep

\* The TPM is stopped, with the lock if it has it.
LEMMA StopSafe ==
    ASSUME Safe, Inv', NEW p \in Procs, Stop(p)
    PROVE  Safe'
<1>1. /\ Frame(p)
      /\ At(p, "idle")
      /\ mlp'[p] = Stopped(p)
      /\ lib'[p].cached = lib[p].cached /\ lib'[p].ram = 0
      /\ pc'[p].at = "idle"
      /\ dir'.permall = FileAfterShutdown(p)
      /\ dir'.volatilestate = dir.volatilestate
      /\ dir'.lock = dir.lock
  BY CmdStopEffect, Zenon DEF Safe, Inv, ProcInv, Stop
<1>2. /\ vm[p] = "run" /\ vm'[p] = "stopped" /\ \A q \in Others(p) : vm'[q] = vm[q]
      /\ stream' = stream /\ hist' = hist
  BY StageStep, ZenonT(60) DEF Safe, Inv, Stop, VM, clientVars
<1>3. Place(p) /\ Holding(p) /\ Blobbed(p) /\ Sends(p) /\ Filed(p)
  BY DEF Safe, Local
<1>4. /\ mlp'[p].storage_locked = mlp[p].storage_locked
      /\ mlp'[p].incoming_migration = mlp[p].incoming_migration
      /\ ~mlp'[p].tpm_running /\ Flag(p)' = Flag(p)
  BY <1>1, ShutdownEffect, Zenon DEF Safe, Inv, ProcInv, Flag
<1>5. /\ dir.permall # None => dir'.permall # None
      /\ dir'.permall = dir.permall \/ (~Flag(p) /\ dir'.permall.orderly)
  BY <1>1, FileKept, Zenon DEF Safe, Inv, ProcInv
<1>6. Turn(p)
  <2>1. Keeps(p)
    BY <1>1, <1>2, KeepsStep, ZenonT(60)
  <2>2. Owns(p) => Owns(p)'
    BY <1>1, <1>2, ZenonT(60) DEF Owns
  <2>3. QED
    BY <1>1, <1>2, <1>4, <1>5, <2>1, <2>2, TurnStep, ZenonT(60) DEF Waiting
<1>7. Local(p)'
  BY <1>1, <1>2, <1>3, <1>4, ZenonT(60) DEF Local, Place, Holding, Blobbed, Sends, Filed, At,
      Running, Starting, Receiving, Sending, Waiting
<1>8. Quiet(p)
  BY <1>1, <1>2, <1>5, ZenonT(60) DEF Quiet, Live, Running, Sending, Unfiled, At
<1>9. QED
  BY <1>6, <1>7, <1>8, QuietStep

\* A machine that ends takes with it the stream that is meant for it, that it has
\* not filled, or that it has taken back.
LEMMA EndTurn ==
    ASSUME Safe, NEW p \in Procs, Keeps(p), Flag(p)' = Flag(p), MayEnd(p),
           stream' = StreamWithout(p), vm'[p] = "none",
           dir'.volatilestate = dir.volatilestate,
           dir.permall # None => dir'.permall # None
    PROVE  /\ Turn(p)
           /\ stream' \in {stream, None}
           /\ vm[p] \in Sending => stream' = None
<1>1. /\ stream' \in {stream, None}
      /\ vm[p] \in Sending => stream' = None
      /\ Owns(p) => stream' = None
      /\ stream' = stream \/ stream = None \/ stream.to = p \/ Owns(p) \/ vm[p] \in Sending
  BY ZenonT(60) DEF StreamWithout
<1>2. vm[p] \in Sending => Alone(p)
  BY ZenonT(60) DEF Safe, Local, Sends
<1>3. StreamStep(p)
  BY <1>1, <1>2, ZenonT(60) DEF StreamStep, MayEnd
<1>4. FileStep(p) /\ Release(p) /\ Respects(p)
  BY <1>1, ZenonT(60) DEF FileStep, Release, Respects, MayEnd
<1>5. QED
  BY <1>1, <1>3, <1>4, ZenonT(60) DEF Turn

\* CMD_SHUTDOWN.
LEMMA QuitSafe ==
    ASSUME Safe, Inv', NEW p \in Procs, Quit(p)
    PROVE  Safe'
<1>1. /\ Frame(p)
      /\ At(p, "idle")
      /\ mlp'[p] = Stopped(p)
      /\ lib'[p].cached = lib[p].cached /\ lib'[p].ram = 0
      /\ pc'[p].at = "exit"
      /\ dir'.permall = FileAfterShutdown(p)
      /\ dir'.volatilestate = dir.volatilestate
      /\ dir'.lock = dir.lock
  BY CmdStopEffect, Zenon DEF Safe, Inv, ProcInv, Quit
<1>2. /\ vm'[p] = "none" /\ \A q \in Others(p) : vm'[q] = vm[q]
      /\ stream' = StreamWithout(p) /\ hist' = hist /\ MayEnd(p)
  BY StageStep, Zenon DEF Safe, Inv, Quit
<1>3. Place(p) /\ Holding(p) /\ Blobbed(p) /\ Sends(p) /\ Filed(p)
  BY DEF Safe, Local
<1>4. /\ mlp'[p].storage_locked = mlp[p].storage_locked
      /\ mlp'[p].incoming_migration = mlp[p].incoming_migration
      /\ ~mlp'[p].tpm_running /\ Flag(p)' = Flag(p)
  BY <1>1, ShutdownEffect, ZenonT(60) DEF Safe, Inv, ProcInv, Flag
<1>5. /\ dir.permall # None => dir'.permall # None
      /\ dir'.permall = dir.permall \/ (~Flag(p) /\ dir'.permall.orderly)
  BY <1>1, FileKept, ZenonT(60) DEF Safe, Inv, ProcInv
<1>6. /\ Turn(p)
      /\ stream' \in {stream, None}
      /\ vm[p] \in Sending => stream' = None
  <2>1. Keeps(p)
    BY <1>1, <1>2, KeepsStep, ZenonT(60)
  <2>2. QED
    BY <1>1, <1>2, <1>4, <1>5, <2>1, EndTurn, ZenonT(60)
<1>7. Local(p)'
  BY <1>1, <1>2, <1>3, <1>4, ZenonT(60) DEF Local, Place, Holding, Blobbed, Sends, Filed, At,
      Running, Starting, Receiving, Sending, Waiting
<1>8. Quiet(p)
  BY <1>1, <1>2, <1>5, <1>6, ZenonT(60) DEF Quiet, Live, Running, Sending, Unfiled, At
<1>9. QED
  BY <1>6, <1>7, <1>8, QuietStep, ZenonT(60)

\* A process that is gone.
LEMMA GoneSafe ==
    ASSUME Safe, Inv', NEW p \in Procs, GoneFrom(p), MayEnd(p),
           vm' = [vm EXCEPT ![p] = "none"], stream' = StreamWithout(p), hist' = hist,
           dir'.permall \in {dir.permall, FileAfterShutdown(p)}
    PROVE  Safe'
<1>1. vm'[p] = "none" /\ \A q \in Others(p) : vm'[q] = vm[q]
  BY StageStep, ZenonT(60) DEF Safe, Inv
<1>2. dir'.lock # p
  BY SwtpmAssumption, ZenonT(60) DEF GoneFrom
<1>3. /\ dir.permall # None => dir'.permall # None
      /\ dir'.permall = dir.permall \/ (~Flag(p) /\ dir'.permall.orderly)
  BY FileKept, ZenonT(60) DEF Safe, Inv, ProcInv
<1>4. /\ Turn(p)
      /\ stream' \in {stream, None}
      /\ vm[p] \in Sending => stream' = None
  <2>1. Keeps(p)
    BY <1>1, KeepsStep, ZenonT(60) DEF GoneFrom
  <2>2. QED
    BY <1>1, <1>3, <2>1, EndTurn, ZenonT(60) DEF GoneFrom
<1>5. Local(p)'
  BY <1>1, <1>2, ZenonT(60) DEF Local, Place, Holding, Blobbed, Sends, Filed, At, GoneFrom,
      Running, Starting, Receiving, Sending, Waiting, FreshLib, Manufactured, NoBlobs
<1>6. Quiet(p)
  BY <1>1, <1>3, <1>4, ZenonT(60) DEF Quiet, Live, Running, Sending, Unfiled, GoneFrom
<1>7. QED
  BY <1>4, <1>5, <1>6, QuietStep, ZenonT(60)

\* A process ends.
LEMMA EndedSafe ==
    ASSUME Safe, Inv', NEW p \in Procs, Ended(p)
    PROVE  Safe'
<1>1. GoneFrom(p) /\ At(p, "exit") /\ dir'.permall = FileAfterShutdown(p)
  BY ExitEffect, ZenonT(60) DEF Safe, Inv, ProcInv, Ended
<1>2. vm[p] \in {"none", "failed"}
  BY <1>1, ZenonT(60) DEF Safe, Local, Place
<1>3. MayEnd(p)
  BY <1>2, ZenonT(60) DEF MayEnd, Owns
<1>4. QED
  BY <1>1, <1>3, GoneSafe, Zenon DEF Ended

\* A process is killed.
LEMMA KilledSafe ==
    ASSUME Safe, Inv', NEW p \in Procs, Killed(p)
    PROVE  Safe'
BY KillEffect, GoneSafe, Zenon DEF Safe, Inv, ProcInv, Killed

\* A process is started, to boot or to wait for a migration.
LEMMA RestartSafe ==
    ASSUME Safe, Inv', NEW p \in Procs, Restart(p)
    PROVE  Safe'
<1>1. PICK incoming \in BOOLEAN :
         /\ ~incoming => Alone(p)
         /\ Start(p, incoming, mlp[p].disable_auto_shutdown)
         /\ VM(p, "none", IF incoming THEN "incoming" ELSE "boot")
         /\ stream' = IF incoming THEN stream ELSE None
  BY ZenonT(60) DEF Restart
<1>2. /\ Frame(p)
      /\ At(p, "down")
      /\ ~mlp'[p].storage_locked /\ mlp'[p].incoming_migration = incoming
      /\ ~mlp'[p].tpm_running
      /\ mlp'[p].lastCommand = "NONE" /\ Flag(p)' = Flag(p)
      /\ lib' = lib /\ dir' = dir
      /\ pc'[p].at = "idle"
  BY <1>1, StartEffect, Zenon DEF Safe, Inv, ProcInv, Flag
<1>3. /\ vm[p] = "none" /\ \A q \in Others(p) : vm'[q] = vm[q]
      /\ vm'[p] = IF incoming THEN "incoming" ELSE "boot"
      /\ hist' = hist
  BY <1>1, StageStep, Zenon DEF Safe, Inv, Restart, VM
<1>4. Place(p) /\ Holding(p) /\ Blobbed(p) /\ Sends(p) /\ Filed(p)
  BY ZenonT(60) DEF Safe, Local
<1>5. dir.lock # p /\ lib[p].cached.PERMANENT = None /\ lib[p].cached.VOLATILE = None
  <2>1. lib[p] = FreshLib /\ dir.lock # p
    BY <1>2, <1>4, Zenon DEF Place, Holding
  <2>2. QED
    BY <2>1 DEF FreshLib, NoBlobs
<1>6. Turn(p)
  <2>1. Keeps(p)
    BY <1>2, <1>3, KeepsStep, ZenonT(60)
  <2>2. ~Owns(p)
    BY <1>5, ZenonT(60) DEF Owns
  <2>3. CASE incoming
    BY <1>1, <1>2, <1>3, <2>1, <2>2, <2>3, TurnStep, ZenonT(60) DEF Waiting
  <2>4. CASE ~incoming
    <3>1. Alone(p)
      BY <1>1, <2>4, ZenonT(60)
    <3>2. StreamStep(p) /\ FileStep(p) /\ Release(p) /\ Respects(p)
      BY <1>2, <2>2, <3>1, ZenonT(60)
         DEF StreamStep, FileStep, Release, Respects, Alone, Sending, Waiting
    <3>3. QED
      BY <1>2, <2>1, <3>2, ZenonT(60) DEF Turn
  <2>5. QED
    BY <2>3, <2>4, ZenonT(60)
<1>7. Local(p)'
  BY <1>1, <1>2, <1>3, <1>4, <1>5, ZenonT(60) DEF Local, Place, Holding, Blobbed, Sends, Filed, At,
      Running, Starting, Receiving, Sending, Waiting
<1>8. Quiet(p)
  BY <1>1, <1>2, <1>3, Zenon DEF Quiet, Live, Running, Sending, Unfiled
<1>9. QED
  BY <1>6, <1>7, <1>8, QuietStep, ZenonT(60)
=============================================================================
