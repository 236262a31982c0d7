----------------------------- MODULE Migration -----------------------------
(***************************************************************************)
(* A virtual machine and its TPM move between two hosts that share the     *)
(* swtpm state directory. Each swtpm process of Swtpm has a client, the    *)
(* virtual machine monitor with the tool that manages it, which is not     *)
(* part of the repository: it is modelled from the protocol that           *)
(* swtpm/man/man8/swtpm.pod (--migration), man3/swtpm_ioctls.pod and       *)
(* tests/_test_tpm2_save_load_state_locking describe.                      *)
(*                                                                         *)
(* The source gives its permanent, volatile and savestate blobs, in this   *)
(* order, and with the last one releases the storage lock. The destination *)
(* was started with --migration incoming; it locks the storage when the    *)
(* first blob arrives. The source may fall back and let its guest go on    *)
(* while the destination takes over: the storage lock alone decides who    *)
(* keeps the TPM.                                                          *)
(*                                                                         *)
(* What the client is trusted with:                                        *)
(*   - a machine is started (not as the target of a migration) only while  *)
(*     no other is there that could run it;                                *)
(*   - the machine that has the storage lock is not ended, nor moved on    *)
(*     to a further host, while another still holds a state that was given *)
(*     away before: nothing in swtpm would keep that one from taking the   *)
(*     lock and going on from there;                                       *)
(*   - after a fall-back the storage is locked, by a TPM command or by      *)
(*     CMD_LOCK_STORAGE, before the volatile state is stored or asked for  *)
(*     again: that writes the file without looking at the lock;            *)
(*   - CMD_INIT carries PTM_INIT_FLAG_DELETE_VOLATILE, as swtpm_ioctl -i   *)
(*     sends it, except for a machine that waits for a migration: its      *)
(*     CMD_INIT would remove the file of the source;                       *)
(*   - a machine that waits is not initialised before there is a permanent *)
(*     state, for swtpm would then manufacture a second TPM, nor while     *)
(*     there is a volatile state file, which it would load: its automatic  *)
(*     shutdown would then write permall and leave TPM2_Shutdown in        *)
(*     lastCommand, which CMD_INIT does not reset.                         *)
(***************************************************************************)
EXTENDS Swtpm

CONSTANTS
    First,      \* the process that has the machine to begin with
    MaxCmds,    \* bound on the TPM commands that change the TPM
    MaxStarts   \* bound on the processes that are started again

ASSUME MigrationAssumption ==
    First \in Procs /\ MaxCmds \in Nat /\ MaxStarts \in Nat

VARIABLES
    vm,      \* [Procs -> what the client of the process is doing]
    stream,  \* the blobs on their way to the destination, None when it is cut
    hist,    \* the commands executed by any process: how many, and the last one
             \* to change NV and volatile state
    starts   \* how many processes were started again

vars == <<mlp, lib, dir, pc, vm, stream, hist, starts>>

Others(p) == Procs \ {p}

Sending == {"getPerm", "getVol", "getSave"}

Waiting == {"incoming", "warming", "warm"}

Stages == Sending \cup Waiting \cup
    {"none", "boot", "booting", "run", "stored", "stopped", "sent", "relock",
     "setPerm", "gotPerm", "setVol", "gotVol", "resuming", "failed"}

VM(p, from, to) == vm[p] = from /\ vm' = [vm EXCEPT ![p] = to]

clientVars == <<stream, hist, starts>>

\* No other client has a machine that could go on.
Alone(p) == \A q \in Others(p) : vm[q] \in {"none"} \cup Waiting

-----------------------------------------------------------------------------
(* A machine that is not being moved.                                      *)

Boot(p) ==
    /\ \E stage \in {"boot", "run", "stored", "stopped"} : VM(p, stage, "booting")
    /\ CMD_INIT(p)
    /\ UNCHANGED clientVars

Booted(p) ==
    /\ VM(p, "booting", "run")
    /\ InitLocked(p, TRUE)
    /\ UNCHANGED clientVars

InitFailed(p) ==
    /\ vm' = [vm EXCEPT ![p] = "failed"]
    /\ InitRefused(p)
    /\ UNCHANGED clientVars

Stop(p) ==
    /\ VM(p, "run", "stopped")
    /\ CMD_STOP(p, "idle")
    /\ UNCHANGED clientVars

\* CMD_STORE_VOLATILE; the guest is paused until CMD_INIT loads the file.
Store(p) ==
    /\ VM(p, "run", "stored") /\ mlp[p].storage_locked
    /\ StoreVolatile(p, "idle")
    /\ UNCHANGED clientVars

Guest(p) ==
    /\ vm[p] \in {"run", "stopped"}
    /\ DataCommand(p)
    /\ UNCHANGED <<clientVars, vm>>

\* The commands that change the TPM are numbered in the order of execution.
GuestStarts(p) ==
    /\ hist.n < MaxCmds
    /\ Startup(p, hist.n + 1)
    /\ hist' = [n |-> hist.n + 1, nv |-> hist.n + 1, ram |-> hist.n + 1]
    /\ UNCHANGED <<vm, stream, starts>>

GuestChanges(p) ==
    /\ hist.n < MaxCmds
    /\ \E writes \in BOOLEAN : Change(p, hist.n + 1, writes)
    /\ hist' = [n |-> hist.n + 1,
                nv |-> IF lib'[p].perm # lib[p].perm THEN hist.n + 1 ELSE hist.nv,
                ram |-> hist.n + 1]
    /\ UNCHANGED <<vm, stream, starts>>

GuestOther(p) ==
    /\ Shutdown(p) \/ ShutdownRefused(p) \/ Query(p) \/ FatalResponse(p)
    /\ UNCHANGED <<clientVars, vm>>

-----------------------------------------------------------------------------
(* The source.                                                             *)

MigrateOut(p) ==
    /\ VM(p, "run", "getPerm") /\ mlp[p].storage_locked
    /\ At(p, "idle") /\ Alone(p)
    /\ \E q \in Others(p) :
          /\ vm[q] \in Waiting
          /\ stream' = [blobs |-> NoBlobs, to |-> q]
    /\ UNCHANGED <<procVars, hist, starts>>

\* The bytes of a blob reach the destination as long as it listens.
Send(st, blob) ==
    stream' = IF stream = None THEN None ELSE [stream EXCEPT !.blobs[st] = blob]

GetPermanent(p) ==
    /\ VM(p, "getPerm", "getVol")
    /\ ReturnPermanent(p)
    /\ Send("PERMANENT", dir.permall)
    /\ UNCHANGED <<hist, starts>>

GetVolatile(p) ==
    /\ vm[p] = "getVol"
    /\ StoreVolatile(p, "getvol")
    /\ UNCHANGED <<clientVars, vm>>

GotVolatile(p) ==
    /\ VM(p, "getVol", "getSave")
    /\ ReturnVolatile(p)
    /\ Send("VOLATILE", dir.volatilestate)
    /\ UNCHANGED <<hist, starts>>

GetSavestate(p) ==
    /\ VM(p, "getSave", "sent")
    /\ ReturnSavestate(p, TRUE)
    /\ UNCHANGED clientVars

\* The migration is cancelled before the stream is complete, by the client or
\* because the last answer did not reach it.
Cancel(p) ==
    /\ \/ \E stage \in Sending : VM(p, stage, "run") /\ At(p, "idle") /\ UNCHANGED procVars
       \/ VM(p, "getSave", "run") /\ ReturnSavestate(p, FALSE)
    /\ stream' = None
    /\ UNCHANGED <<hist, starts>>

\* It is cancelled when the destination may have the stream already: the guest
\* just goes on (its next command locks the storage), or the storage is locked
\* first.
FallBack(p) ==
    /\ VM(p, "sent", "run")
    /\ At(p, "idle")
    /\ UNCHANGED <<procVars, clientVars>>

FallBackLocked(p) ==
    /\ VM(p, "sent", "relock")
    /\ CMD_LOCK_STORAGE(p, MaxRetries)
    /\ UNCHANGED clientVars

-----------------------------------------------------------------------------
(* The destination.                                                        *)

\* The reset of the waiting machine initialises its TPM, without a lock and from
\* the files of the source; it is stopped before the blobs are set.
WarmUp(p) ==
    /\ VM(p, "incoming", "warming")
    /\ dir.permall # None /\ dir.volatilestate = None
    /\ CMD_INIT(p)
    /\ UNCHANGED clientVars

WarmedUp(p) ==
    /\ VM(p, "warming", "warm")
    /\ InitLocked(p, FALSE)
    /\ UNCHANGED clientVars

CoolDown(p) ==
    /\ VM(p, "warm", "incoming")
    /\ CMD_STOP(p, "idle")
    /\ UNCHANGED clientVars

SetPermanent(p) ==
    /\ VM(p, "incoming", "setPerm")
    /\ \A q \in Others(p) : vm[q] \notin Sending
    /\ stream # None /\ stream.to = p
    /\ CMD_SET_STATEBLOB(p)
    /\ UNCHANGED clientVars

SetVolatile(p) ==
    /\ VM(p, "gotPerm", "setVol")
    /\ CMD_SET_STATEBLOB(p)
    /\ UNCHANGED clientVars

PermanentSet(p) ==
    /\ VM(p, "setPerm", "gotPerm")
    /\ stream # None
    /\ SetState(p, "PERMANENT", stream.blobs.PERMANENT)
    /\ UNCHANGED clientVars

VolatileSet(p) ==
    /\ VM(p, "setVol", "gotVol")
    /\ stream # None
    /\ SetState(p, "VOLATILE", stream.blobs.VOLATILE)
    /\ UNCHANGED clientVars

\* The blob was damaged on its way, or is not for this TPM.
BlobRefused(p) ==
    /\ VM(p, "setPerm", "failed") \/ VM(p, "setVol", "failed")
    /\ \E loads \in BOOLEAN : SetStateRefused(p, loads)
    /\ UNCHANGED clientVars

Resume(p) ==
    /\ VM(p, "gotVol", "resuming")
    /\ CMD_INIT(p)
    /\ UNCHANGED clientVars

Resumed(p) ==
    /\ VM(p, "resuming", "run")
    /\ InitLocked(p, TRUE)
    /\ stream' = None
    /\ UNCHANGED <<hist, starts>>

-----------------------------------------------------------------------------
(* Locking, ending and starting.                                           *)

Locked(p) ==
    /\ LockTaken(p)
    /\ IF vm[p] = "relock" THEN VM(p, "relock", "run") ELSE UNCHANGED vm
    /\ UNCHANGED clientVars

LockWaits(p) ==
    /\ LockRetry(p)
    /\ UNCHANGED <<clientVars, vm>>

NotLocked(p) ==
    /\ LockFailed(p)
    /\ vm' = [vm EXCEPT ![p] = "failed"]
    /\ UNCHANGED clientVars

\* The machine has the lock and is this client's own.
Owns(p) ==
    dir.lock = p /\ vm[p] \in {"booting", "run", "stored", "stopped"}

MayEnd(p) == Owns(p) => Alone(p)

\* What was sent is lost with the destination, or with the source that had not
\* sent all of it or has taken it back.
StreamWithout(p) ==
    IF stream # None /\ stream.to # p /\ ~Owns(p) /\ vm[p] \notin Sending
    THEN stream ELSE None

\* CMD_SHUTDOWN.
Quit(p) ==
    /\ vm[p] # "none" /\ MayEnd(p)
    /\ CMD_STOP(p, "exit")
    /\ vm' = [vm EXCEPT ![p] = "none"]
    /\ stream' = StreamWithout(p)
    /\ UNCHANGED <<hist, starts>>

Ended(p) ==
    /\ Exit(p)
    /\ vm' = [vm EXCEPT ![p] = "none"]
    /\ stream' = StreamWithout(p)
    /\ UNCHANGED <<hist, starts>>

Killed(p) ==
    /\ MayEnd(p)
    /\ Kill(p)
    /\ vm' = [vm EXCEPT ![p] = "none"]
    /\ stream' = StreamWithout(p)
    /\ UNCHANGED <<hist, starts>>

Restart(p) ==
    /\ starts < MaxStarts /\ starts' = starts + 1
    /\ \E incoming \in BOOLEAN :
          /\ ~incoming => Alone(p)
          /\ Start(p, incoming, mlp[p].disable_auto_shutdown)
          /\ VM(p, "none", IF incoming THEN "incoming" ELSE "boot")
          /\ stream' = IF incoming THEN stream ELSE None
    /\ UNCHANGED hist

-----------------------------------------------------------------------------
(* One process is about to boot its machine, the others wait for it.       *)
Init ==
    /\ \E noShutdown \in BOOLEAN :
          mlp = [p \in Procs |-> FreshParams(p # First, noShutdown)]
    /\ vm = [p \in Procs |-> IF p = First THEN "boot" ELSE "incoming"]
    /\ lib = [p \in Procs |-> FreshLib]
    /\ dir = [permall |-> None, volatilestate |-> None, lock |-> None]
    /\ pc = [p \in Procs |-> Point("idle")]
    /\ stream = None
    /\ hist = [n |-> 0, nv |-> 0, ram |-> 0]
    /\ starts = 0

Locks(p) == Locked(p) \/ LockWaits(p) \/ NotLocked(p)

\* What a process does with a request it has taken.
Works(p) ==
    \/ Booted(p) \/ WarmedUp(p) \/ Resumed(p) \/ InitFailed(p)
    \/ Locks(p)
    \/ GuestStarts(p) \/ GuestChanges(p) \/ GuestOther(p)
    \/ GotVolatile(p) \/ PermanentSet(p) \/ VolatileSet(p) \/ BlobRefused(p)
    \/ Ended(p)

\* What its client asks for.
Asks(p) ==
    \/ Boot(p) \/ Stop(p) \/ Store(p) \/ Guest(p)
    \/ MigrateOut(p) \/ GetPermanent(p) \/ GetVolatile(p) \/ GetSavestate(p)
    \/ Cancel(p) \/ FallBack(p) \/ FallBackLocked(p)
    \/ WarmUp(p) \/ CoolDown(p) \/ SetPermanent(p) \/ SetVolatile(p) \/ Resume(p)
    \/ Quit(p)

Next == \E p \in Procs : Works(p) \/ Asks(p) \/ Killed(p) \/ Restart(p)

Spec == Init /\ [][Next]_vars

\* The source whose state was sent goes on, falls back or ends.
Decides(p) ==
    \/ FallBack(p) \/ FallBackLocked(p)
    \/ vm[p] \in {"sent", "failed"} /\ Quit(p)

\* A process that wants the lock tries again after a usleep of 10 ms, and its
\* attempts are counted. The client of a source that has given its state away
\* comes to a decision. Nothing else need ever happen.
FairSpec ==
    Spec /\ \A p \in Procs : WF_vars(Locks(p)) /\ WF_vars(Decides(p))

-----------------------------------------------------------------------------
(* Properties.                                                             *)

Image == [n : 0..MaxCmds, orderly : BOOLEAN]

\* None is not the state of a TPM.
ASSUME NoneAssumption == None \notin Image /\ None \notin 0..MaxCmds

Blobs == [PERMANENT : Image \cup {None}, VOLATILE : 0..MaxCmds \cup {None}]

Params ==
    [storage_locked : BOOLEAN, incoming_migration : BOOLEAN,
     locking_retries : 0..MaxRetries,
     lastCommand : {"NONE", "Shutdown", "ShutdownRefused", "Other"},
     disable_auto_shutdown : BOOLEAN, tpm_running : BOOLEAN]

Memory == [nvram : BOOLEAN, perm : Image, ram : 0..MaxCmds, cached : Blobs]

Directory ==
    [permall : Image \cup {None}, volatilestate : 0..MaxCmds \cup {None},
     lock : Procs \cup {None}]

Points ==
    [at : {"down", "idle", "init", "getvol", "lock", "cmd", "set", "exit"},
     then : {"idle", "cmd", "set"}, left : 0..MaxRetries]

\* The type invariant; no process makes more than MaxRetries attempts.
TypeOK ==
    /\ mlp \in [Procs -> Params]
    /\ lib \in [Procs -> Memory]
    /\ dir \in Directory
    /\ pc \in [Procs -> Points]
    /\ vm \in [Procs -> Stages]
    /\ stream \in [blobs : Blobs, to : Procs] \cup {None}
    /\ hist \in [n : 0..MaxCmds, nv : 0..MaxCmds, ram : 0..MaxCmds]
    /\ starts \in 0..MaxStarts

Operates(p) == mlp[p].tpm_running /\ mlp[p].storage_locked

\* A running TPM to which mainLoop is about to give a command, or that has
\* storage_locked set, is the TPM of the process that holds the storage lock,
\* whatever migrations, fall-backs, refused CMD_INITs and kills came before:
\* no command is processed on a state directory that is another's.
CommandsUnderLock ==
    \A p \in Procs :
        Operates(p) \/ (mlp[p].tpm_running /\ At(p, "cmd")) => dir.lock = p

\* No TPM command is lost and none is executed on a state that another process
\* has moved on from: the TPM that processes commands has in its NV the last
\* command, of any process, that wrote NV, and in its volatile state the last
\* one that changed it, unless it was reset. (With the automatic shutdown this
\* is not so: see StorageIsCurrent.)
LinearHistory ==
    \A p \in Procs :
        Operates(p) /\ mlp[p].disable_auto_shutdown =>
            /\ lib[p].perm.n = hist.nv
            /\ lib[p].ram \in {0, hist.ram}

\* With --flags disable-auto-shutdown the file of the TPM that processes
\* commands is its NV: a process that is killed can be started again from the
\* file, and GET_STATEBLOB, which reads the file, gives the current state.
\* (Without the flag the source of a migration writes its own image over that
\* of the destination when it ends, for the shutdown asks for no lock.)
StorageIsCurrent ==
    \A p \in Procs :
        Operates(p) /\ mlp[p].disable_auto_shutdown => dir.permall = lib[p].perm

\* A destination that comes to run has the state of the source, all of it:
\* the volatile state is not lost on the way, whether by the file that holds it
\* for a moment, by the cache of libtpms, or by a CMD_INIT that came to nothing.
HandoverIsComplete ==
    [][\A p \in Procs :
          vm[p] = "resuming" /\ vm'[p] = "run" =>
              /\ lib[p].ram = stream.blobs.VOLATILE
              /\ lib[p].perm = stream.blobs.PERMANENT]_vars

\* swtpm ends or resets a TPM that was started, and whose file is its own, only
\* with an orderly image in the file, unless it is told not to send
\* TPM2_Shutdown, or the last command was a TPM2_Shutdown that the TPM refused:
\* lastCommand outlives CMD_INIT, so it may be that of an earlier TPM.
OrderlyStop ==
    [][\A p \in Procs :
          /\ mlp[p].tpm_running /\ ~mlp'[p].tpm_running
          /\ pc'[p].at = "down" => pc[p].at = "exit"
          /\ ~mlp[p].disable_auto_shutdown
          /\ mlp[p].lastCommand # "ShutdownRefused"
          /\ lib[p].ram # 0 /\ dir.lock = p /\ dir.permall = lib[p].perm
          => dir'.permall.orderly]_vars

\* A source that has given its state away does not wait for ever for a storage
\* lock that the destination keeps: its guest goes on or it ends.
HandoverEnds ==
    \A p \in Procs : vm[p] = "sent" ~> vm[p] \in {"run", "none"}
=============================================================================
