-------------------------------- MODULE Cuse --------------------------------
(***************************************************************************)
(* The CUSE interface of swtpm (swtpm/src/swtpm/cuse_tpm.c, threadpool.c). *)
(* The threads of the FUSE session loop handle requests of the client,     *)
(* each under file_ops_lock; a worker thread processes the TPM commands    *)
(* that can be canceled, without that lock.                                *)
(*                                                                         *)
(* A request takes steps where other threads can come in between: what     *)
(* ptm_write_cmd does before it has the lock, the lock, the wait for the   *)
(* worker thread, the call into libtpms, and the reply.                    *)
(*                                                                         *)
(* Data. A command is a member of Cmds; its size stands for it in          *)
(* ptm_req_len, and its response for it in ptm_response and ptm_res_len. A *)
(* command that is processed with another's size gets the response         *)
(* "garbled". A read takes the whole response. The blobs of a migration go *)
(* through ioctls in one piece, so tx_state stays at TX_STATE_RW_COMMAND.  *)
(***************************************************************************)
EXTENDS Naturals

CONSTANTS
    Threads,     \* the threads of fuse_session_loop_mt
    Cmds,        \* TPM commands, of different sizes
    Cancelable,  \* those that tpmlib_is_request_cancelable accepts
    None         \* no thread, no command, no response

ASSUME CuseAssumption ==
    /\ Cancelable \subseteq Cmds
    /\ None \notin Threads \cup Cmds
    /\ {"fatal", "garbled", "canceled"} \cap (Cmds \cup {None}) = {}

VARIABLES
    file_ops_lock,  \* the thread that holds it
    thread_busy,    \* of threadpool.c, under thread_busy_lock
    pool,           \* there is a thread pool
    tpm_running,
    ptm_req_len,    \* the command whose size it is
    ptm_response,   \* what is in the response buffer, None when it is freed
    ptm_res_len,    \* the response whose size it is, None for 0
    unread,         \* ptm_read_offset is 0
    s_isCanceled,   \* the cancel flag of libtpms
    worker,         \* where the worker thread is, with what is in ptm_request
                    \* and the size it processes it with
    pc,             \* where each FUSE thread is, with its request
    exiting,        \* fuse_session_exit was called
    polite,         \* history: no command was written before the response to
                    \* the one before it was read, or freed
    expected,       \* history: the response owed to a polite client
    freed,          \* history: the TPM was stopped since, which frees it
    asked           \* history: cancellation was asked for since that command

buffers == <<ptm_req_len, ptm_response, ptm_res_len, unread>>
tpm == <<pool, tpm_running, s_isCanceled>>
history == <<expected, polite, freed, asked>>
vars == <<file_ops_lock, thread_busy, worker, pc, exiting, buffers, tpm, history>>

-----------------------------------------------------------------------------
(* Requests.                                                               *)

Ending == {"PTM_INIT", "PTM_STOP", "PTM_SHUTDOWN"}

\* PTM_STORE_VOLATILE stands for every ioctl that calls libtpms when the TPM
\* runs: _GET_STATEBLOB, _HASH_START, _HASH_DATA, _HASH_END, _GET_TPMESTABLISHED
\* and _RESET_TPMESTABLISHED with a locality up to 4. "PTM_RESET_TPMESTABLISHED"
\* is the one with another locality. PTM_GET_CONFIG stands for those that change
\* nothing here: _GET_CAPABILITY, _SET_LOCALITY, _LOCK_STORAGE, and _GET_INFO and
\* _SET_BUFFERSIZE, which have libtpms describe itself without waiting.
Ops == Ending \cup {"PTM_STORE_VOLATILE", "PTM_RESET_TPMESTABLISHED", "PTM_SET_STATEBLOB",
                    "PTM_CANCEL_TPM_CMD", "PTM_GET_CONFIG", "read", "write"}

Idle == [at |-> "idle", op |-> "read", cmd |-> None, len |-> None]
Resting == [at |-> "idle", cmd |-> None, len |-> None]

At(t, where) == pc[t].at = where
Goto(t, where) == pc' = [pc EXCEPT ![t].at = where]
\* The reply is sent before the lock is released.
Replies(t, where) == pc' = [pc EXCEPT ![t] = [Idle EXCEPT !.at = where]]
Does(t, op) == At(t, "work") /\ pc[t].op = op

\* Mutants: a read does not wait, or nothing but a read waits.
WaitsIoctlsOnly(op) ==
    op \in {"PTM_INIT", "PTM_SHUTDOWN", "PTM_STORE_VOLATILE", "PTM_RESET_TPMESTABLISHED",
            "PTM_SET_STATEBLOB"}
WaitsReadOnly(op) == op = "read"

\* The requests that wait for the worker thread; PTM_STOP does so later.
Waits(op) ==
    op \in {"PTM_INIT", "PTM_SHUTDOWN", "PTM_STORE_VOLATILE", "PTM_RESET_TPMESTABLISHED",
            "PTM_SET_STATEBLOB", "read"}

ExpectsNothing == expected' = None /\ freed' = FALSE /\ asked' = FALSE

\* ptm_write_cmd stores the size of the command before it takes the lock.
Write(t) ==
    /\ At(t, "idle") /\ ~exiting
    /\ \E c \in Cmds :
          /\ ptm_req_len' = c
          /\ pc' = [pc EXCEPT ![t] = [at |-> "enter", op |-> "write", cmd |-> c, len |-> None]]
    /\ ptm_res_len' = None
    /\ polite' = (/\ polite
                  /\ expected = None \/ freed
                  /\ \A u \in Threads : At(u, "idle") \/ pc[u].op # "write")
    /\ ExpectsNothing
    /\ UNCHANGED <<file_ops_lock, thread_busy, worker, exiting, tpm, ptm_response, unread>>

Request(t) ==
    /\ At(t, "idle") /\ ~exiting
    /\ \E op \in Ops \ {"write"} :
          pc' = [pc EXCEPT ![t] = [at |-> "enter", op |-> op, cmd |-> None, len |-> None]]
    /\ UNCHANGED <<file_ops_lock, thread_busy, worker, exiting, buffers, tpm, history>>

Acquire(t) ==
    /\ At(t, "enter")
    /\ file_ops_lock = None
    /\ file_ops_lock' = t
    /\ Goto(t, IF Waits(pc[t].op) /\ tpm_running THEN "wait" ELSE "work")
    /\ UNCHANGED <<thread_busy, worker, exiting, buffers, tpm, history>>

\* Mutant: waits for the signal of the worker thread without a look at the flag.
WaitSignal(t) ==
    /\ At(t, "wait")
    /\ worker.at = "done"
    /\ Goto(t, "work")
    /\ UNCHANGED <<file_ops_lock, thread_busy, worker, exiting, buffers, tpm, history>>

\* worker_thread_wait_done; g_cond_wait_until looks again after a second even
\* if the signal is lost.
WaitDone(t) ==
    /\ At(t, "wait")
    /\ ~thread_busy
    /\ Goto(t, "work")
    /\ UNCHANGED <<file_ops_lock, thread_busy, worker, exiting, buffers, tpm, history>>

Release(t) ==
    /\ file_ops_lock' = None
    /\ \/ At(t, "reply") /\ pc' = [pc EXCEPT ![t] = Idle]
       \/ At(t, "silent") /\ pc' = [pc EXCEPT ![t] = Idle]
       \/ At(t, "last") /\ Goto(t, "exit")
    /\ UNCHANGED <<thread_busy, worker, exiting, buffers, tpm, history>>

\* exit_prg: ptm_cleanup and fuse_session_exit, without the lock.
Exit(t) ==
    /\ At(t, "exit")
    /\ exiting' = TRUE
    /\ pc' = [pc EXCEPT ![t] = Idle]
    /\ UNCHANGED <<file_ops_lock, thread_busy, worker, buffers, tpm, history>>

-----------------------------------------------------------------------------
(* TPM commands.                                                           *)

\* The response of TPMLIB_Process to a command with a size.
Result(cmd, len) == IF cmd = len THEN cmd ELSE "garbled"

Accepts(response) ==
    /\ expected' = IF polite THEN response ELSE None
    /\ freed' = FALSE /\ asked' = FALSE
    /\ UNCHANGED polite

\* The storage cannot be locked: EIO.
WriteNotLocked(t) ==
    /\ Does(t, "write") /\ tpm_running
    /\ Replies(t, "reply")
    /\ UNCHANGED <<file_ops_lock, thread_busy, worker, exiting, buffers, tpm, history>>

\* The worker thread has a command: EBUSY.
WriteBusy(t) ==
    /\ Does(t, "write") /\ tpm_running /\ thread_busy
    /\ Replies(t, "reply")
    /\ UNCHANGED <<file_ops_lock, thread_busy, worker, exiting, buffers, tpm, history>>

\* Responses that do not come from the TPM: tpmlib_process handles a command
\* that sets the locality, and without a TPM there is a fatal error response.
WriteAnswered(t) ==
    /\ Does(t, "write") /\ ~(tpm_running /\ thread_busy)
    /\ LET response == IF tpm_running THEN pc[t].cmd ELSE "fatal"
       IN  /\ tpm_running => pc[t].cmd \notin Cancelable
           /\ ptm_response' = response
           /\ ptm_res_len' = response
           /\ Accepts(response)
    /\ unread' = TRUE
    /\ Replies(t, "reply")
    /\ UNCHANGED <<file_ops_lock, thread_busy, worker, exiting, tpm, ptm_req_len>>

\* The worker thread has responded to another command since this write set
\* ptm_res_len to 0: the command counts as handled.
WriteSkipped(t) ==
    /\ Does(t, "write") /\ tpm_running /\ ~thread_busy
    /\ ptm_res_len # None
    /\ unread' = TRUE
    /\ Accepts(pc[t].cmd)
    /\ Replies(t, "reply")
    /\ UNCHANGED <<file_ops_lock, thread_busy, worker, exiting, tpm,
                   ptm_req_len, ptm_response, ptm_res_len>>

WriteQueued(t) ==
    /\ Does(t, "write") /\ tpm_running /\ ~thread_busy
    /\ ptm_res_len = None
    /\ pc[t].cmd \in Cancelable
    /\ thread_busy' = TRUE
    /\ worker' = [worker EXCEPT !.at = "queued", !.cmd = pc[t].cmd]
    /\ Accepts(pc[t].cmd)
    /\ Replies(t, "reply")
    /\ UNCHANGED <<file_ops_lock, exiting, tpm, buffers>>

\* The other commands are processed at once.
WriteDirect(t) ==
    /\ Does(t, "write") /\ tpm_running /\ ~thread_busy
    /\ ptm_res_len = None
    /\ pc[t].cmd \notin Cancelable
    /\ pc' = [pc EXCEPT ![t] = [@ EXCEPT !.at = "library", !.len = ptm_req_len]]
    /\ s_isCanceled' = FALSE
    /\ Accepts(pc[t].cmd)
    /\ UNCHANGED <<file_ops_lock, thread_busy, worker, exiting, pool, tpm_running, buffers>>

WriteProcessed(t) ==
    /\ At(t, "library") /\ pc[t].op = "write"
    /\ ptm_response' = Result(pc[t].cmd, pc[t].len)
    /\ ptm_res_len' = ptm_response'
    /\ unread' = TRUE
    /\ Replies(t, "reply")
    /\ UNCHANGED <<file_ops_lock, thread_busy, worker, exiting, tpm, history,
                   ptm_req_len>>

\* Mutant: an earlier cancellation counts.
WorkerKeepsCancel ==
    /\ worker.at = "queued"
    /\ worker' = [worker EXCEPT !.at = "process", !.len = ptm_req_len]
    /\ UNCHANGED <<file_ops_lock, thread_busy, pc, exiting, buffers, tpm, history>>

\* The worker thread takes the message; TPM2_Process turns the cancel flag off.
WorkerTakes ==
    /\ worker.at = "queued"
    /\ worker' = [worker EXCEPT !.at = "process", !.len = ptm_req_len]
    /\ s_isCanceled' = FALSE
    /\ UNCHANGED <<file_ops_lock, thread_busy, pc, exiting, pool, tpm_running, buffers,
                   history>>

WorkerResponds ==
    /\ worker.at = "process"
    /\ worker' = [Resting EXCEPT !.at = "done"]
    /\ \/ ptm_response' = Result(worker.cmd, worker.len)
       \/ s_isCanceled /\ ptm_response' = "canceled"
    /\ ptm_res_len' = ptm_response'
    /\ unread' = TRUE
    /\ UNCHANGED <<file_ops_lock, thread_busy, pc, exiting, tpm, history,
                   ptm_req_len>>

\* worker_thread_mark_done.
WorkerDone ==
    /\ worker.at = "done"
    /\ worker' = Resting
    /\ thread_busy' = FALSE
    /\ UNCHANGED <<file_ops_lock, pc, exiting, buffers, tpm, history>>

\* ptm_read_result, after the wait: ptm_res_len bytes from ptm_response, also
\* when that was freed.
Read(t) ==
    /\ Does(t, "read")
    /\ unread' = (unread /\ ptm_res_len = None)
    /\ ExpectsNothing
    /\ Replies(t, "reply")
    /\ UNCHANGED <<file_ops_lock, thread_busy, worker, exiting, tpm, polite,
                   ptm_req_len, ptm_response, ptm_res_len>>

-----------------------------------------------------------------------------
(* Ioctls.                                                                 *)

\* Those that do nothing: they only report, or the TPM has to run (has to be
\* stopped) and it does not (is not).
Report(t) ==
    /\ \/ Does(t, "PTM_GET_CONFIG")
       \/ \E op \in {"PTM_STORE_VOLATILE", "PTM_RESET_TPMESTABLISHED", "PTM_CANCEL_TPM_CMD"} :
             Does(t, op) /\ ~tpm_running
       \/ Does(t, "PTM_SET_STATEBLOB") /\ tpm_running
    /\ Replies(t, "reply")
    /\ UNCHANGED <<file_ops_lock, thread_busy, worker, exiting, buffers, tpm, history>>

Cancel(t) ==
    /\ Does(t, "PTM_CANCEL_TPM_CMD") /\ tpm_running
    /\ s_isCanceled' = TRUE
    /\ asked' = (expected # None)  \* for the history, not in the code
    /\ Replies(t, "reply")
    /\ UNCHANGED <<file_ops_lock, thread_busy, worker, exiting, buffers, pool, tpm_running,
                   expected, polite, freed>>

\* PTM_RESET_TPMESTABLISHED with a locality above 4: TPM_BAD_LOCALITY is noted,
\* and no reply is sent.
ResetNotAnswered(t) ==
    /\ Does(t, "PTM_RESET_TPMESTABLISHED") /\ tpm_running
    /\ Goto(t, "silent")
    /\ UNCHANGED <<file_ops_lock, thread_busy, worker, exiting, buffers, tpm, history>>

CallLibrary(t) ==
    /\ \/ Does(t, "PTM_STORE_VOLATILE") /\ tpm_running
       \/ Does(t, "PTM_SET_STATEBLOB") /\ ~tpm_running
    /\ Goto(t, "library")
    /\ UNCHANGED <<file_ops_lock, thread_busy, worker, exiting, buffers, tpm, history>>

\* PTM_SET_STATEBLOB ends the program if it cannot lock the storage.
LibraryReturns(t) ==
    /\ At(t, "library") /\ pc[t].op \in {"PTM_STORE_VOLATILE", "PTM_SET_STATEBLOB"}
    /\ \/ Replies(t, "reply")
       \/ pc[t].op = "PTM_SET_STATEBLOB" /\ Replies(t, "last")
    /\ UNCHANGED <<file_ops_lock, thread_busy, worker, exiting, buffers, tpm, history>>

\* worker_thread_end, up to the calls that shut down and terminate the TPM.
EndWorker(t) ==
    /\ At(t, "work") /\ pc[t].op \in Ending
    /\ pool => ~thread_busy
    /\ pool' = FALSE
    /\ Goto(t, "library")
    /\ UNCHANGED <<file_ops_lock, thread_busy, worker, exiting, buffers, tpm_running,
                   s_isCanceled, history>>

\* Mutant: only a successful start changes tpm_running.
InitFailsRunning(t) ==
    /\ At(t, "library") /\ pc[t].op = "PTM_INIT"
    /\ \E success \in BOOLEAN :
          /\ pool' = success /\ tpm_running' = (tpm_running \/ success)
          /\ s_isCanceled' \in {FALSE, s_isCanceled /\ ~success}
    /\ Replies(t, "reply")
    /\ UNCHANGED <<file_ops_lock, thread_busy, worker, exiting, buffers, history>>

\* tpm_start creates the pool and frees it again when tpmlib_start fails.
InitReturns(t) ==
    /\ At(t, "library") /\ pc[t].op = "PTM_INIT"
    /\ \E success \in BOOLEAN :
          /\ pool' = success /\ tpm_running' = success
          /\ s_isCanceled' \in {FALSE, s_isCanceled /\ ~success}
    /\ Replies(t, "reply")
    /\ UNCHANGED <<file_ops_lock, thread_busy, worker, exiting, buffers, history>>

\* The response is freed, and its size kept; PTM_SHUTDOWN also ends the session
\* loop.
StopReturns(t) ==
    /\ At(t, "library") /\ pc[t].op \in {"PTM_STOP", "PTM_SHUTDOWN"}
    /\ tpm_running' = FALSE
    /\ ptm_response' = None
    /\ freed' = (expected # None)  \* for the history, not in the code
    /\ Replies(t, IF pc[t].op = "PTM_SHUTDOWN" THEN "last" ELSE "reply")
    /\ UNCHANGED <<file_ops_lock, thread_busy, worker, exiting, pool, s_isCanceled,
                   expected, polite, asked, ptm_req_len, ptm_res_len, unread>>

-----------------------------------------------------------------------------
(* The specification.                                                      *)

\* swtpm_cuse_main may start the TPM before there are requests.
Init ==
    /\ file_ops_lock = None /\ thread_busy = FALSE
    /\ tpm_running \in BOOLEAN /\ pool = tpm_running
    /\ ptm_req_len = None
    /\ ptm_response = None /\ ptm_res_len = None /\ unread = TRUE
    /\ s_isCanceled = FALSE
    /\ worker = Resting
    /\ pc = [t \in Threads |-> Idle]
    /\ exiting = FALSE
    /\ expected = None /\ polite = TRUE /\ freed = FALSE /\ asked = FALSE

\* The rest of a request, once its thread has the lock.
Handle(t) ==
    \/ WaitDone(t)
    \/ WriteNotLocked(t) \/ WriteBusy(t) \/ WriteAnswered(t) \/ WriteSkipped(t)
    \/ WriteQueued(t) \/ WriteDirect(t) \/ WriteProcessed(t) \/ Read(t)
    \/ Report(t) \/ Cancel(t) \/ ResetNotAnswered(t)
    \/ CallLibrary(t) \/ LibraryReturns(t)
    \/ EndWorker(t) \/ InitReturns(t) \/ StopReturns(t)
    \/ Release(t) \/ Exit(t)

WorkerThread == WorkerTakes \/ WorkerResponds \/ WorkerDone

Next ==
    \/ \E t \in Threads : Write(t) \/ Request(t) \/ Acquire(t) \/ Handle(t)
    \/ WorkerThread

Spec == Init /\ [][Next]_vars

\* Threads run, calls into libtpms end, and a thread that waits for a mutex gets
\* it if it becomes free again and again. Requests need not come.
FairSpec ==
    /\ Spec
    /\ \A t \in Threads : SF_vars(Acquire(t)) /\ WF_vars(Handle(t))
    /\ WF_vars(WorkerThread)

-----------------------------------------------------------------------------
(* Properties.                                                             *)

Responses == Cmds \cup {None, "fatal", "garbled", "canceled"}

Jobs == [at : {"idle", "queued", "process", "done"},
         cmd : Cmds \cup {None}, len : Cmds \cup {None}]
Requests == [at : {"idle", "enter", "wait", "work", "library", "reply", "silent", "last",
                   "exit"},
             op : Ops, cmd : Cmds \cup {None}, len : Cmds \cup {None}]

\* The type invariant.
TypeOK ==
    /\ file_ops_lock \in Threads \cup {None}
    /\ thread_busy \in BOOLEAN /\ pool \in BOOLEAN /\ tpm_running \in BOOLEAN
    /\ ptm_req_len \in Cmds \cup {None}
    /\ ptm_response \in Responses /\ ptm_res_len \in Responses
    /\ unread \in BOOLEAN /\ s_isCanceled \in BOOLEAN
    /\ worker \in Jobs
    /\ pc \in [Threads -> Requests]
    /\ exiting \in BOOLEAN
    /\ expected \in Responses
    /\ polite \in BOOLEAN /\ freed \in BOOLEAN /\ asked \in BOOLEAN

\* libtpms, which is not thread safe, is called by one thread at a time: while
\* the worker thread processes a command no request processes another, stores
\* or sets state, hashes, or shuts the TPM down and starts it again. (The calls
\* that set the cancel flag, or that have libtpms describe itself, are not
\* counted: they are made while the worker thread processes a command.)
OneInLibrary ==
    \A t \in Threads :
        At(t, "library") =>
            /\ worker.at # "process"
            /\ \A u \in Threads \ {t} : ~At(u, "library")

\* ptm_write_cmd finds a thread pool to push to whenever the TPM runs, also
\* after a PTM_INIT that failed.
PushFindsPool == \A t \in Threads : Does(t, "write") /\ tpm_running => pool

\* A client that reads each response before it writes the next command finds the
\* response to its command, whole, whatever other requests come between the
\* write and the read, but for PTM_STOP and PTM_SHUTDOWN: they free the response
\* and keep its size, so that the read is answered with as many bytes from a NULL
\* pointer. (A write that is refused with EBUSY has changed the sizes all the
\* same, so nothing like it can be said of other clients.)
ResponseIsWhole ==
    \A t \in Threads :
        Does(t, "read") /\ expected # None =>
            /\ ptm_res_len \in {expected, "canceled"} /\ unread
            /\ ptm_response = IF freed THEN None ELSE ptm_res_len

\* A command is canceled only by a PTM_CANCEL_TPM_CMD that came after it was
\* accepted.
CanceledWasAsked ==
    \A t \in Threads :
        Does(t, "read") /\ expected # None /\ ptm_res_len = "canceled" => asked

\* Every request comes to an end, for nobody waits for ever for the lock or for
\* the worker thread, and it is answered: all but PTM_RESET_TPMESTABLISHED with a
\* bad locality, which ends without a reply.
RequestsEnd ==
    \A t \in Threads :
        At(t, "enter") ~> \/ At(t, "reply") \/ At(t, "last")
                          \/ At(t, "silent") /\ pc[t].op = "PTM_RESET_TPMESTABLISHED"
=============================================================================
