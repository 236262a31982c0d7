------------------------------- MODULE Swtpm -------------------------------
(***************************************************************************)
(* The swtpm processes that share one state directory: the main loop and   *)
(* the control channel (swtpm/src/swtpm/mainloop.c, ctrlchannel.c,         *)
(* tpmlib.c), the NVRAM store with its lock (swtpm_nvstore.c,              *)
(* swtpm_nvstore_dir.c) and the state blobs that libtpms caches between    *)
(* TPMLIB_SetState and TPMLIB_MainInit (tpm_library.c,                     *)
(* tpm_tpm2_interface.c, tpm2/LibtpmsCallbacks.c, tpm2/StateMarshal.c).    *)
(* Each operation is an action of one process p; who calls it, and when,   *)
(* is the business of the module Migration.                                *)
(*                                                                         *)
(* A process is single threaded: a handler runs to its end before the next *)
(* request is read. It is split into steps where another process can come  *)
(* in between: before each attempt to take the lock, between the reading   *)
(* of the state files and the lock in tpmlib_start, and between the        *)
(* writing and the removal of the volatile state file.                     *)
(*                                                                         *)
(* Data. The permanent state (permall) is an image [n, orderly]: the       *)
(* number of the last TPM command it has in it and whether TPM2_Shutdown   *)
(* was the last to write it. The volatile state is the number of the last  *)
(* TPM command that changed it, and 0 for a TPM without TPM2_Startup.      *)
(* Writing a state file succeeds, and a file holds what was written to it. *)
(***************************************************************************)
EXTENDS Naturals

CONSTANTS
    Procs,       \* the swtpm processes that use the directory
    None,        \* no blob, no file, no holder of the lock
    MaxRetries   \* DEFAULT_LOCKING_RETRIES (mainloop.h:74), 300 in the code

ASSUME SwtpmAssumption == None \notin Procs /\ MaxRetries \in Nat

VARIABLES
    mlp,  \* [Procs -> struct mainLoopParams, with the main loop's tpm_running]
    lib,  \* [Procs -> the state of libtpms and of the NVRAM store in a process]
    dir,  \* the state directory: its two files and the holder of its lock
    pc    \* [Procs -> where the process is between two steps of a handler]

procVars == <<mlp, lib, dir, pc>>

\* TPM_Manufacture leaves an image that asks for Startup(CLEAR): an orderly one.
Manufactured == [n |-> 0, orderly |-> TRUE]

NoBlobs == [PERMANENT |-> None, VOLATILE |-> None]

At(p, where) == pc[p].at = where

Point(where) == [at |-> where, then |-> "idle", left |-> 0]

Goto(p, where) == pc' = [pc EXCEPT ![p] = Point(where)]

\* The process as main() starts it, not yet initialised by CMD_INIT.
FreshParams(incoming, noShutdown) ==
    [storage_locked |-> FALSE, incoming_migration |-> incoming,
     locking_retries |-> 0, lastCommand |-> "NONE",
     disable_auto_shutdown |-> noShutdown, tpm_running |-> FALSE]

FreshLib ==
    [nvram |-> FALSE, perm |-> Manufactured, ram |-> 0, cached |-> NoBlobs]

-----------------------------------------------------------------------------
(* The storage lock.                                                       *)

\* SWTPM_NVRAM_Lock_Dir: fcntl grants the lock to one process; the one that
\* has the lock file open already is told that it holds it.
LockFree(p) == dir.lock \in {None, p}

\* mainloop_ensure_locked_storage, up to the first attempt. The caller goes on
\* at `next' when the storage is locked, and also, without a lock, when the
\* NVRAM store has not been initialised (TPM_RETRY).
EnsureLocked(p, retries, next) ==
    pc' = [pc EXCEPT ![p] =
              IF mlp[p].storage_locked \/ ~lib'[p].nvram
              THEN Point(next)
              ELSE [at |-> "lock", then |-> next, left |-> retries]]

LockTaken(p) ==
    /\ At(p, "lock") /\ LockFree(p)
    /\ dir' = [dir EXCEPT !.lock = p]
    /\ mlp' = [mlp EXCEPT ![p].locking_retries = 0,
                          ![p].storage_locked = TRUE,
                          ![p].incoming_migration = FALSE]
    /\ Goto(p, pc[p].then)
    /\ UNCHANGED lib

LockRetryMutant(p) ==
    /\ At(p, "lock") /\ ~LockFree(p)
    /\ pc' = pc
    /\ UNCHANGED <<mlp, lib, dir>>

LockRetryTooOftenMutant(p) ==
    /\ At(p, "lock") /\ ~LockFree(p) /\ pc[p].left > 0
    /\ pc' = [pc EXCEPT ![p].left = IF @ = 1 THEN MaxRetries + 1 ELSE @ - 1]
    /\ UNCHANGED <<mlp, lib, dir>>

\* usleep and another F_SETLK.
LockRetry(p) ==
    /\ At(p, "lock") /\ ~LockFree(p) /\ pc[p].left > 0
    /\ pc' = [pc EXCEPT ![p].left = @ - 1]
    /\ UNCHANGED <<mlp, lib, dir>>

\* The attempts are used up. A TPM command and CMD_SET_STATEBLOB end the main
\* loop; CMD_LOCK_STORAGE only answers TPM_FAIL.
LockFailed(p) ==
    /\ At(p, "lock") /\ ~LockFree(p) /\ pc[p].left = 0
    /\ Goto(p, IF pc[p].then \in {"cmd", "set"} THEN "exit" ELSE "idle")
    /\ UNCHANGED <<mlp, lib, dir>>

UnlockKeepsFlagMutant(p) ==
    /\ dir' = [dir EXCEPT !.lock = IF @ = p THEN None ELSE @]
    /\ mlp' = [mlp EXCEPT ![p].locking_retries = MaxRetries]

mainloop_unlock_nvram(p) ==
    /\ dir' = [dir EXCEPT !.lock = IF @ = p THEN None ELSE @]
    /\ mlp' = [mlp EXCEPT ![p].storage_locked = FALSE,
                          ![p].locking_retries = MaxRetries]

-----------------------------------------------------------------------------
(* The automatic TPM2_Shutdown, sent without looking at the lock.          *)

\* lastCommand holds an ordinal: TPM_ORDINAL_NONE, TPM2_Shutdown or another one.
\* "ShutdownRefused" is a TPM2_Shutdown that the TPM answered with an error.
IsShutdown(ordinal) == ordinal \in {"Shutdown", "ShutdownRefused"}

ShutdownIgnoresFlagMutant(p) ==
    /\ mlp[p].tpm_running
    /\ ~IsShutdown(mlp[p].lastCommand)
    /\ lib[p].ram # 0

ShutdownOnceMutant(p) ==
    /\ mlp[p].tpm_running /\ ~mlp[p].disable_auto_shutdown
    /\ mlp[p].lastCommand = "NONE"
    /\ lib[p].ram # 0

\* The command succeeds in a TPM that was started, with SU_STATE or with
\* SU_CLEAR; the others answer TPM_RC_INITIALIZE.
ShutsDown(p) ==
    /\ mlp[p].tpm_running /\ ~mlp[p].disable_auto_shutdown
    /\ ~IsShutdown(mlp[p].lastCommand)
    /\ lib[p].ram # 0

\* NvCommit hands the whole image to SWTPM_NVRAM_StoreData.
FileAfterShutdown(p) ==
    IF ShutsDown(p) THEN [lib[p].perm EXCEPT !.orderly = TRUE] ELSE dir.permall

\* The main loop's parameters after tpmlib_maybe_send_tpm2_shutdown and
\* TPMLIB_Terminate.
Stopped(p) ==
    [mlp[p] EXCEPT !.lastCommand = IF ShutsDown(p) THEN "Shutdown" ELSE @,
                   !.tpm_running = FALSE]

\* TPMLIB_Terminate: nothing reads the TPM's memory before TPM2_MainInit loads
\* it again. The cached blobs stay.
Terminated(p) == [lib[p] EXCEPT !.perm = Manufactured, !.ram = 0]

-----------------------------------------------------------------------------
(* The control channel.                                                    *)

LoadedIgnoresBlobMutant(p, file) ==
    IF file # None THEN file ELSE 0

\* VolatileLoad: the blob that was set, else the file, else no volatile state.
LoadedVolatile(p, file) ==
    IF lib[p].cached.VOLATILE # None THEN lib[p].cached.VOLATILE
    ELSE IF file # None THEN file ELSE 0

\* _TPM2_CheckNVRAMFileExists and libtpms_plat__NVEnable: the blob that was set,
\* else the file, else a newly manufactured TPM.
LoadedPermanent(p, file) ==
    IF lib[p].cached.PERMANENT # None THEN lib[p].cached.PERMANENT
    ELSE IF file # None THEN file ELSE Manufactured

\* CMD_INIT up to the lock: the running TPM is shut down and terminated, then
\* TPM2_MainInit loads the state, uses up the cached blobs, and writes permall
\* when the state came from a blob or was manufactured.
CMD_INIT(p) ==
    LET file == FileAfterShutdown(p)
        perm == LoadedPermanent(p, file)
    IN  /\ At(p, "idle")
        /\ mlp' = [mlp EXCEPT ![p] =
                      [Stopped(p) EXCEPT !.storage_locked = ~mlp[p].incoming_migration]]
        /\ lib' = [lib EXCEPT ![p] =
                      [nvram |-> TRUE, perm |-> perm,
                       ram |-> LoadedVolatile(p, dir.volatilestate), cached |-> NoBlobs]]
        /\ dir' = [dir EXCEPT !.permall =
                      IF lib[p].cached.PERMANENT # None \/ file = None
                      THEN perm ELSE file]
        /\ Goto(p, "init")

InitKeepsVolatileMutant(p, delete) ==
    /\ At(p, "init")
    /\ ~mlp[p].storage_locked \/ LockFree(p)
    /\ dir' = [dir EXCEPT !.lock = IF mlp[p].storage_locked THEN p ELSE @]
    /\ mlp' = [mlp EXCEPT ![p].tpm_running = TRUE]
    /\ Goto(p, "idle")
    /\ UNCHANGED lib

\* The rest of tpmlib_start: the lock, with no retry, unless an incoming
\* migration defers it; then PTM_INIT_FLAG_DELETE_VOLATILE.
InitLocked(p, delete) ==
    /\ At(p, "init")
    /\ ~mlp[p].storage_locked \/ LockFree(p)
    /\ dir' = [dir EXCEPT !.lock = IF mlp[p].storage_locked THEN p ELSE @,
                          !.volatilestate = IF delete THEN None ELSE @]
    /\ mlp' = [mlp EXCEPT ![p].tpm_running = TRUE]
    /\ Goto(p, "idle")
    /\ UNCHANGED lib

\* The lock is another's: TPMLIB_Terminate. storage_locked stays set.
InitRefused(p) ==
    /\ At(p, "init")
    /\ mlp[p].storage_locked /\ ~LockFree(p)
    /\ lib' = [lib EXCEPT ![p] = Terminated(p)]
    /\ Goto(p, "idle")
    /\ UNCHANGED <<mlp, dir>>

\* CMD_STOP; CMD_SHUTDOWN also ends the main loop.
CMD_STOP(p, next) ==
    /\ At(p, "idle")
    /\ mlp' = [mlp EXCEPT ![p] = Stopped(p)]
    /\ lib' = [lib EXCEPT ![p] = Terminated(p)]
    /\ dir' = [dir EXCEPT !.permall = FileAfterShutdown(p)]
    /\ Goto(p, next)

\* SWTPM_NVRAM_Store_Volatile, the whole of CMD_STORE_VOLATILE and the first
\* part of CMD_GET_STATEBLOB for the volatile blob.
StoreVolatile(p, next) ==
    /\ At(p, "idle") /\ mlp[p].tpm_running
    /\ dir' = [dir EXCEPT !.volatilestate = lib[p].ram]
    /\ Goto(p, next)
    /\ UNCHANGED <<mlp, lib>>

\* The rest of ctrlchannel_return_state for the volatile blob: the file is read
\* (its content is the answer) and removed.
ReturnVolatile(p) ==
    /\ At(p, "getvol")
    /\ dir' = [dir EXCEPT !.volatilestate = None]
    /\ Goto(p, "idle")
    /\ UNCHANGED <<mlp, lib>>

\* ctrlchannel_return_state for the permanent blob, which is read from the file.
ReturnPermanent(p) ==
    /\ At(p, "idle") /\ mlp[p].tpm_running
    /\ UNCHANGED procVars

\* ctrlchannel_return_state for the savestate blob, which a TPM 2 does not have:
\* whatever the answer, the lock is released once it is sent. When it cannot be
\* sent, the connection is closed and the lock kept.
ReturnSavestate(p, sent) ==
    /\ At(p, "idle") /\ mlp[p].tpm_running
    /\ IF sent THEN mainloop_unlock_nvram(p) ELSE UNCHANGED <<mlp, dir>>
    /\ UNCHANGED <<lib, pc>>

\* CMD_SET_STATEBLOB: refused while the TPM runs; the storage is locked first.
CMD_SET_STATEBLOB(p) ==
    /\ At(p, "idle") /\ ~mlp[p].tpm_running
    /\ lib' = [lib EXCEPT ![p].nvram = TRUE]
    /\ EnsureLocked(p, mlp[p].locking_retries, "set")
    /\ UNCHANGED <<mlp, dir>>

\* TPM2_SetState tests a blob by loading it, a volatile one on top of the
\* permanent state, and caches it for TPM2_MainInit.
SetState(p, st, blob) ==
    /\ At(p, "set")
    /\ st = "VOLATILE" => lib[p].cached.PERMANENT # None \/ dir.permall # None
    /\ lib' = [lib EXCEPT ![p].cached[st] = blob]
    /\ Goto(p, "idle")
    /\ UNCHANGED <<mlp, dir>>

\* A blob that cannot be loaded makes it drop all cached blobs; one with a bad
\* header, or that cannot be decrypted, is refused before that and drops none.
\* What a load that fails half-way leaves in libtpms' globals is not modelled:
\* TPM2_MainInit loads or manufactures a state before they are used.
SetStateRefused(p, loads) ==
    /\ At(p, "set")
    /\ lib' = [lib EXCEPT ![p].cached = IF loads THEN NoBlobs ELSE @]
    /\ Goto(p, "idle")
    /\ UNCHANGED <<mlp, dir>>

CMD_LOCK_STORAGE(p, retries) ==
    /\ At(p, "idle")
    /\ mlp' = [mlp EXCEPT ![p].locking_retries = retries]
    /\ lib' = lib
    /\ EnsureLocked(p, retries, "idle")
    /\ UNCHANGED dir

-----------------------------------------------------------------------------
(* The data channel.                                                       *)

\* mainLoop has a TPM command: the storage is locked before it is read.
DataCommand(p) ==
    /\ At(p, "idle")
    /\ lib' = lib
    /\ EnsureLocked(p, mlp[p].locking_retries, "cmd")
    /\ UNCHANGED <<mlp, dir>>

\* mainLoop notes the ordinal and hands the command to the TPM. A command that
\* writes NV is committed before its response is sent.
Process(p, ordinal, perm, ram) ==
    /\ At(p, "cmd") /\ mlp[p].tpm_running
    /\ mlp' = [mlp EXCEPT ![p].lastCommand = ordinal]
    /\ lib' = [lib EXCEPT ![p].perm = perm, ![p].ram = ram]
    /\ dir' = [dir EXCEPT !.permall = IF perm # lib[p].perm THEN perm ELSE @]
    /\ Goto(p, "idle")

\* TPM2_Startup, the n-th command to change the TPM: volatile state is made
\* anew and the image is no longer orderly.
Startup(p, n) ==
    /\ lib[p].ram = 0
    /\ Process(p, "Other", [n |-> n, orderly |-> FALSE], n)

Shutdown(p) ==
    /\ lib[p].ram # 0
    /\ Process(p, "Shutdown", [lib[p].perm EXCEPT !.orderly = TRUE], lib[p].ram)

\* TPM2_Shutdown with a type the TPM does not accept, or before TPM2_Startup.
ShutdownRefused(p) == Process(p, "ShutdownRefused", lib[p].perm, lib[p].ram)

\* A command that changes volatile state and, when it writes NV or when the
\* image is orderly (NvClearOrderly), the image.
Change(p, n, writes) ==
    /\ lib[p].ram # 0
    /\ Process(p, "Other",
               IF writes \/ lib[p].perm.orderly
               THEN [n |-> n, orderly |-> FALSE] ELSE lib[p].perm,
               n)

\* A command that changes nothing, or is answered with an error.
Query(p) == Process(p, "Other", lib[p].perm, lib[p].ram)

\* The TPM does not run: tpmlib_write_fatal_error_response.
FatalResponse(p) ==
    /\ At(p, "cmd") /\ ~mlp[p].tpm_running
    /\ Goto(p, "idle")
    /\ UNCHANGED <<mlp, lib, dir>>

-----------------------------------------------------------------------------
(* The process.                                                            *)

\* The memory of a process that is not there.
Gone(p) == FreshParams(FALSE, mlp[p].disable_auto_shutdown)

Start(p, incoming, noShutdown) ==
    /\ At(p, "down")
    /\ mlp' = [mlp EXCEPT ![p] = FreshParams(incoming, noShutdown)]
    /\ Goto(p, "idle")
    /\ UNCHANGED <<lib, dir>>

\* The end of mainLoop and of main: a TPM that still runs is shut down, and the
\* lock file is closed.
Exit(p) ==
    /\ At(p, "exit")
    /\ mlp' = [mlp EXCEPT ![p] = Gone(p)]
    /\ lib' = [lib EXCEPT ![p] = FreshLib]
    /\ dir' = [dir EXCEPT !.permall = FileAfterShutdown(p),
                          !.lock = IF @ = p THEN None ELSE @]
    /\ Goto(p, "down")

\* The process is killed, at any point; the kernel closes the lock file.
Kill(p) ==
    /\ ~At(p, "down")
    /\ mlp' = [mlp EXCEPT ![p] = Gone(p)]
    /\ lib' = [lib EXCEPT ![p] = FreshLib]
    /\ dir' = [dir EXCEPT !.lock = IF @ = p THEN None ELSE @]
    /\ Goto(p, "down")
=============================================================================
