----------------------------- MODULE CuseProofs -----------------------------
(***************************************************************************)
(* Proofs about Cuse, for any set of FUSE threads and of commands.         *)
(***************************************************************************)
EXTENDS Cuse, TLAPS

-----------------------------------------------------------------------------
(* The inductive invariant.                                                *)

\* From the wait to the reply a thread holds the lock.
Locking ==
    \A t \in Threads :
        pc[t].at \in {"wait", "work", "library", "reply", "silent", "last"} =>
            file_ops_lock = t

\* thread_busy tells where the worker thread is. It is only set when the TPM
\* runs, and the threads that call libtpms, or waited, find it clear.
Busy ==
    /\ thread_busy <=> worker.at # "idle"
    /\ thread_busy => tpm_running /\ pool
    /\ \A t \in Threads :
          (At(t, "library") \/ (At(t, "work") /\ Waits(pc[t].op))) => ~thread_busy

\* The TPM runs without a pool only while a thread ends or restarts it.
Pool ==
    tpm_running /\ ~pool =>
        \E t \in Threads : At(t, "library") /\ pc[t].op \in Ending

Writes(t) == pc[t].op = "write"

\* The requests of a polite client: one write at a time, not before the worker
\* thread is done, with the size of its own command. Nothing is being processed
\* when a response is freed, nor as long as it is missed.
Client ==
    /\ expected # None => polite
    /\ polite /\ thread_busy => expected # None
    /\ freed => ~thread_busy /\ \A t \in Threads : ~(Writes(t) /\ At(t, "library"))
    /\ \A t \in Threads : Writes(t) => pc[t].at \in {"enter", "work", "library"}
    /\ polite => \A t, u \in Threads : Writes(t) /\ Writes(u) => t = u
    /\ polite => \A t \in Threads :
          Writes(t) /\ ~At(t, "library") =>
              /\ expected = None /\ ptm_res_len = None
              /\ ptm_req_len = pc[t].cmd

Answered ==
    /\ worker.at \notin {"queued", "process"}
    /\ \A t \in Threads : ~Writes(t)

\* The response owed to a polite client: on its way, in the buffer, or freed.
Owed ==
    expected # None =>
        /\ expected # "canceled"
        /\ worker.at \in {"queued", "process"} => worker.cmd = expected
        /\ worker.at = "queued" => ptm_req_len = expected
        /\ worker.at = "process" => worker.len = expected /\ (s_isCanceled => asked)
        /\ \A t \in Threads :
              Writes(t) /\ At(t, "library") => pc[t].cmd = expected /\ pc[t].len = expected
        /\ Answered =>
              /\ ptm_res_len \in {expected, "canceled"} /\ unread
              /\ ptm_res_len = "canceled" => asked
              /\ ptm_response = IF freed THEN None ELSE ptm_res_len

Inv == TypeOK /\ Locking /\ Busy /\ Pool /\ Client /\ Owed

-----------------------------------------------------------------------------
(* One lemma for each conjunct.                                            *)

\* TypeOK in two parts, for two provers.
Values ==
    /\ file_ops_lock \in Threads \cup {None}
    /\ ptm_req_len \in Cmds \cup {None}
    /\ ptm_response \in Responses /\ ptm_res_len \in Responses
    /\ expected \in Responses

Flags ==
    /\ thread_busy \in BOOLEAN /\ pool \in BOOLEAN /\ tpm_running \in BOOLEAN
    /\ unread \in BOOLEAN /\ s_isCanceled \in BOOLEAN /\ exiting \in BOOLEAN
    /\ polite \in BOOLEAN /\ freed \in BOOLEAN /\ asked \in BOOLEAN

\* Every step keeps the types.
LEMMA TypeStep == TypeOK /\ [Next]_vars => TypeOK'
<1> SUFFICES ASSUME TypeOK, [Next]_vars PROVE TypeOK'
    OBVIOUS
<1> USE CuseAssumption DEF TypeOK, Responses, At, history, buffers, tpm
<1>1. ASSUME NEW t \in Threads, Write(t) PROVE TypeOK'
  <2>1. pc' \in [Threads -> Requests]
      BY <1>1 DEF Write, ExpectsNothing, Requests, Ops, Ending
  <2>2. worker' \in Jobs
      BY <1>1 DEF Write, ExpectsNothing, Jobs
  <2>3. Values'
      BY <1>1 DEF Write, ExpectsNothing, Values, Requests
  <2>4. Flags'
      BY <1>1, Zenon DEF Write, ExpectsNothing, Flags
  <2> QED
      BY <2>1, <2>2, <2>3, <2>4 DEF Values, Flags
<1>2. ASSUME NEW t \in Threads, Request(t) PROVE TypeOK'
    BY <1>2 DEF Request, Jobs, Requests, Ops, Ending
<1>3. ASSUME NEW t \in Threads, Acquire(t) PROVE TypeOK'
    BY <1>3 DEF Acquire, Goto, Jobs, Requests, Ops, Ending
<1>4. ASSUME NEW t \in Threads, WaitDone(t) PROVE TypeOK'
    BY <1>4 DEF WaitDone, Goto, Jobs, Requests, Ops, Ending
<1>5. ASSUME NEW t \in Threads, WriteNotLocked(t) PROVE TypeOK'
    BY <1>5 DEF WriteNotLocked, Replies, Does, Idle, Jobs, Requests, Ops, Ending
<1>6. ASSUME NEW t \in Threads, WriteBusy(t) PROVE TypeOK'
    BY <1>6 DEF WriteBusy, Replies, Does, Idle, Jobs, Requests, Ops, Ending
<1>7. ASSUME NEW t \in Threads, WriteAnswered(t) PROVE TypeOK'
  <2>1. pc' \in [Threads -> Requests]
      BY <1>7 DEF WriteAnswered, Accepts, Replies, Does, Idle, Requests, Ops, Ending
  <2>2. worker' \in Jobs
      BY <1>7 DEF WriteAnswered, Accepts, Replies, Does, Idle, Jobs
  <2>3. Values'
      BY <1>7 DEF WriteAnswered, Accepts, Replies, Does, Idle, Values, Requests
  <2>4. Flags'
      BY <1>7, Zenon DEF WriteAnswered, Accepts, Replies, Does, Idle, Flags
  <2> QED
      BY <2>1, <2>2, <2>3, <2>4 DEF Values, Flags
<1>8. ASSUME NEW t \in Threads, WriteSkipped(t) PROVE TypeOK'
  <2>1. pc' \in [Threads -> Requests]
      BY <1>8 DEF WriteSkipped, Accepts, Replies, Does, Idle, Requests, Ops, Ending
  <2>2. worker' \in Jobs
      BY <1>8 DEF WriteSkipped, Accepts, Replies, Does, Idle, Jobs
  <2>3. Values'
      BY <1>8 DEF WriteSkipped, Accepts, Replies, Does, Idle, Values, Requests
  <2>4. Flags'
      BY <1>8, Zenon DEF WriteSkipped, Accepts, Replies, Does, Idle, Flags
  <2> QED
      BY <2>1, <2>2, <2>3, <2>4 DEF Values, Flags
<1>9. ASSUME NEW t \in Threads, WriteQueued(t) PROVE TypeOK'
  <2>1. pc' \in [Threads -> Requests]
      BY <1>9 DEF WriteQueued, Accepts, Replies, Does, Idle, Requests, Ops, Ending
  <2>2. worker' \in Jobs
      BY <1>9, ZenonT(60) DEF WriteQueued, Accepts, Replies, Does, Idle, Jobs
  <2>3. Values'
      BY <1>9 DEF WriteQueued, Accepts, Replies, Does, Idle, Values, Requests
  <2>4. Flags'
      BY <1>9, Zenon DEF WriteQueued, Accepts, Replies, Does, Idle, Flags
  <2> QED
      BY <2>1, <2>2, <2>3, <2>4 DEF Values, Flags
<1>10. ASSUME NEW t \in Threads, WriteDirect(t) PROVE TypeOK'
  <2>1. pc' \in [Threads -> Requests]
    <3>1. [pc[t] EXCEPT !.at = "library", !.len = ptm_req_len] \in Requests
      <4> HIDE DEF TypeOK
      <4>1. pc[t] \in Requests /\ ptm_req_len \in Cmds \cup {None}
          BY Zenon DEF TypeOK
      <4> QED
          BY <4>1, Zenon DEF Requests
    <3> QED
        BY <1>10, <3>1 DEF WriteDirect
  <2>2. worker' \in Jobs
      BY <1>10 DEF WriteDirect, Accepts, Does, Jobs
  <2>3. Values'
      BY <1>10 DEF WriteDirect, Accepts, Does, Values, Requests
  <2>4. Flags'
      BY <1>10, Zenon DEF WriteDirect, Accepts, Does, Flags
  <2> QED
      BY <2>1, <2>2, <2>3, <2>4 DEF Values, Flags
<1>11. ASSUME NEW t \in Threads, WriteProcessed(t) PROVE TypeOK'
    BY <1>11 DEF WriteProcessed, Replies, Result, Idle, Jobs, Requests, Ops, Ending
<1>12. ASSUME NEW t \in Threads, Read(t) PROVE TypeOK'
  <2>1. pc' \in [Threads -> Requests]
      BY <1>12 DEF Read, ExpectsNothing, Replies, Does, Idle, Requests, Ops, Ending
  <2>2. worker' \in Jobs
      BY <1>12 DEF Read, ExpectsNothing, Replies, Does, Idle, Jobs
  <2>3. Values'
      BY <1>12 DEF Read, ExpectsNothing, Replies, Does, Idle, Values, Requests
  <2>4. Flags'
      BY <1>12, Zenon DEF Read, ExpectsNothing, Replies, Does, Idle, Flags
  <2> QED
      BY <2>1, <2>2, <2>3, <2>4 DEF Values, Flags
<1>13. ASSUME NEW t \in Threads, Report(t) PROVE TypeOK'
    BY <1>13 DEF Report, Replies, Does, Idle, Jobs, Requests, Ops, Ending
<1>14. ASSUME NEW t \in Threads, Cancel(t) PROVE TypeOK'
    BY <1>14 DEF Cancel, Replies, Does, Idle, Jobs, Requests, Ops, Ending
<1>15. ASSUME NEW t \in Threads, ResetNotAnswered(t) PROVE TypeOK'
    BY <1>15 DEF ResetNotAnswered, Goto, Does, Jobs, Requests, Ops, Ending
<1>16. ASSUME NEW t \in Threads, CallLibrary(t) PROVE TypeOK'
    BY <1>16 DEF CallLibrary, Goto, Does, Jobs, Requests, Ops, Ending
<1>17. ASSUME NEW t \in Threads, LibraryReturns(t) PROVE TypeOK'
    BY <1>17 DEF LibraryReturns, Replies, Idle, Jobs, Requests, Ops, Ending
<1>18. ASSUME NEW t \in Threads, EndWorker(t) PROVE TypeOK'
  <2>1. pc' \in [Threads -> Requests]
      BY <1>18 DEF EndWorker, Goto, Requests, Ops, Ending
  <2>2. worker' \in Jobs
      BY <1>18 DEF EndWorker, Goto, Jobs
  <2>3. Values'
      BY <1>18 DEF EndWorker, Goto, Values, Requests
  <2>4. Flags'
      BY <1>18, Zenon DEF EndWorker, Goto, Flags
  <2> QED
      BY <2>1, <2>2, <2>3, <2>4 DEF Values, Flags
<1>19. ASSUME NEW t \in Threads, InitReturns(t) PROVE TypeOK'
  <2>1. pc' \in [Threads -> Requests]
      BY <1>19 DEF InitReturns, Replies, Idle, Requests, Ops, Ending
  <2>2. worker' \in Jobs
      BY <1>19 DEF InitReturns, Replies, Idle, Jobs
  <2>3. Values'
      BY <1>19 DEF InitReturns, Replies, Idle, Values, Requests
  <2>4. Flags'
      BY <1>19, Zenon DEF InitReturns, Replies, Idle, Flags
  <2> QED
      BY <2>1, <2>2, <2>3, <2>4 DEF Values, Flags
<1>20. ASSUME NEW t \in Threads, StopReturns(t) PROVE TypeOK'
  <2>1. pc' \in [Threads -> Requests]
      BY <1>20 DEF StopReturns, Replies, Idle, Requests, Ops, Ending
  <2>2. worker' \in Jobs
      BY <1>20 DEF StopReturns, Replies, Idle, Jobs
  <2>3. Values'
      BY <1>20 DEF StopReturns, Replies, Idle, Values, Requests
  <2>4. Flags'
      BY <1>20, Zenon DEF StopReturns, Replies, Idle, Flags
  <2> QED
      BY <2>1, <2>2, <2>3, <2>4 DEF Values, Flags
<1>21. ASSUME NEW t \in Threads, Release(t) PROVE TypeOK'
    BY <1>21 DEF Release, Goto, Idle, Jobs, Requests, Ops, Ending
<1>22. ASSUME NEW t \in Threads, Exit(t) PROVE TypeOK'
    BY <1>22 DEF Exit, Idle, Jobs, Requests, Ops, Ending
<1>23. CASE WorkerTakes
  <2>1. pc' \in [Threads -> Requests]
      BY <1>23 DEF WorkerTakes, Requests, Ops, Ending
  <2>2. worker' \in Jobs
      BY <1>23, Zenon DEF WorkerTakes, Jobs
  <2>3. Values'
      BY <1>23 DEF WorkerTakes, Values, Requests
  <2>4. Flags'
      BY <1>23, Zenon DEF WorkerTakes, Flags
  <2> QED
      BY <2>1, <2>2, <2>3, <2>4 DEF Values, Flags
<1>24. CASE WorkerResponds
    BY <1>24 DEF WorkerResponds, Result, Resting, Jobs, Requests, Ops, Ending
<1>25. CASE WorkerDone
  <2>1. pc' \in [Threads -> Requests]
      BY <1>25 DEF WorkerDone, Resting, Requests, Ops, Ending
  <2>2. worker' \in Jobs
      BY <1>25 DEF WorkerDone, Resting, Jobs
  <2>3. Values'
      BY <1>25 DEF WorkerDone, Resting, Values, Requests
  <2>4. Flags'
      BY <1>25, Zenon DEF WorkerDone, Resting, Flags
  <2> QED
      BY <2>1, <2>2, <2>3, <2>4 DEF Values, Flags
<1>26. CASE UNCHANGED vars
    BY <1>26, SMTT(60), Z3T(60) DEF vars
<1> QED
    BY <1>1, <1>2, <1>3, <1>4, <1>5, <1>6, <1>7, <1>8, <1>9, <1>10, <1>11, <1>12, <1>13, Zenon,
       <1>14, <1>15, <1>16, <1>17, <1>18, <1>19, <1>20, <1>21, <1>22, <1>23, <1>24,
       <1>25, <1>26
       DEF Next, Handle, WorkerThread

\* A thread leaves the states that need the lock when it releases it.
LEMMA LockingStep == TypeOK /\ Locking /\ [Next]_vars => Locking'
<1> SUFFICES ASSUME TypeOK, Locking, [Next]_vars PROVE Locking'
    OBVIOUS
<1> USE CuseAssumption DEF TypeOK, Jobs, Requests, Locking, At
<1>1. ASSUME NEW t \in Threads, Write(t) PROVE Locking'
    BY <1>1 DEF Write, ExpectsNothing
<1>2. ASSUME NEW t \in Threads, Request(t) PROVE Locking'
    BY <1>2 DEF Request
<1>3. ASSUME NEW t \in Threads, Acquire(t) PROVE Locking'
    BY <1>3 DEF Acquire, Goto
<1>4. ASSUME NEW t \in Threads, WaitDone(t) PROVE Locking'
    BY <1>4 DEF WaitDone, Goto
<1>5. ASSUME NEW t \in Threads, WriteNotLocked(t) PROVE Locking'
    BY <1>5 DEF WriteNotLocked, Replies, Does, Idle
<1>6. ASSUME NEW t \in Threads, WriteBusy(t) PROVE Locking'
    BY <1>6 DEF WriteBusy, Replies, Does, Idle
<1>7. ASSUME NEW t \in Threads, WriteAnswered(t) PROVE Locking'
    BY <1>7 DEF WriteAnswered, Accepts, Replies, Does, Idle
<1>8. ASSUME NEW t \in Threads, WriteSkipped(t) PROVE Locking'
    BY <1>8 DEF WriteSkipped, Accepts, Replies, Does, Idle
<1>9. ASSUME NEW t \in Threads, WriteQueued(t) PROVE Locking'
    BY <1>9 DEF WriteQueued, Accepts, Replies, Does, Idle
<1>10. ASSUME NEW t \in Threads, WriteDirect(t) PROVE Locking'
    BY <1>10 DEF WriteDirect, Accepts, Does
<1>11. ASSUME NEW t \in Threads, WriteProcessed(t) PROVE Locking'
    BY <1>11 DEF WriteProcessed, Replies, Result, Idle
<1>12. ASSUME NEW t \in Threads, Read(t) PROVE Locking'
    BY <1>12 DEF Read, ExpectsNothing, Replies, Does, Idle
<1>13. ASSUME NEW t \in Threads, Report(t) PROVE Locking'
    BY <1>13 DEF Report, Replies, Does, Idle
<1>14. ASSUME NEW t \in Threads, Cancel(t) PROVE Locking'
    BY <1>14 DEF Cancel, Replies, Does, Idle
<1>15. ASSUME NEW t \in Threads, ResetNotAnswered(t) PROVE Locking'
    BY <1>15 DEF ResetNotAnswered, Goto, Does
<1>16. ASSUME NEW t \in Threads, CallLibrary(t) PROVE Locking'
    BY <1>16 DEF CallLibrary, Goto, Does
<1>17. ASSUME NEW t \in Threads, LibraryReturns(t) PROVE Locking'
    BY <1>17 DEF LibraryReturns, Replies, Idle
<1>18. ASSUME NEW t \in Threads, EndWorker(t) PROVE Locking'
    BY <1>18 DEF EndWorker, Goto
<1>19. ASSUME NEW t \in Threads, InitReturns(t) PROVE Locking'
    BY <1>19 DEF InitReturns, Replies, Idle
<1>20. ASSUME NEW t \in Threads, StopReturns(t) PROVE Locking'
    BY <1>20 DEF StopReturns, Replies, Idle
<1>21. ASSUME NEW t \in Threads, Release(t) PROVE Locking'
    BY <1>21 DEF Release, Goto, Idle
<1>22. ASSUME NEW t \in Threads, Exit(t) PROVE Locking'
    BY <1>22 DEF Exit, Idle
<1>23. CASE WorkerTakes
    BY <1>23 DEF WorkerTakes
<1>24. CASE WorkerResponds
    BY <1>24 DEF WorkerResponds, Result, Resting
<1>25. CASE WorkerDone
    BY <1>25 DEF WorkerDone, Resting
<1>26. CASE UNCHANGED vars
    BY <1>26, ZenonT(60) DEF vars
<1> QED
    BY <1>1, <1>2, <1>3, <1>4, <1>5, <1>6, <1>7, <1>8, <1>9, <1>10, <1>11, <1>12, <1>13,
       <1>14, <1>15, <1>16, <1>17, <1>18, <1>19, <1>20, <1>21, <1>22, <1>23, <1>24,
       <1>25, <1>26
       DEF Next, Handle, WorkerThread

\* thread_busy is set by a thread that holds the lock and finds it clear, and
\* cleared by the worker thread as its last step.
LEMMA BusyStep == TypeOK /\ Locking /\ Busy /\ Pool /\ [Next]_vars => Busy'
<1> SUFFICES ASSUME TypeOK, Locking, Busy, Pool, [Next]_vars PROVE Busy'
    OBVIOUS
<1> USE CuseAssumption DEF TypeOK, Jobs, Requests, Locking, Busy, At, Waits, Ending,
       history, buffers, tpm
<1>1. ASSUME NEW t \in Threads, Write(t) PROVE Busy'
    BY <1>1 DEF Write, ExpectsNothing
<1>2. ASSUME NEW t \in Threads, Request(t) PROVE Busy'
    BY <1>2 DEF Request
<1>3. ASSUME NEW t \in Threads, Acquire(t) PROVE Busy'
    BY <1>3 DEF Acquire, Goto
<1>4. ASSUME NEW t \in Threads, WaitDone(t) PROVE Busy'
    BY <1>4 DEF WaitDone, Goto
<1>5. ASSUME NEW t \in Threads, WriteNotLocked(t) PROVE Busy'
    BY <1>5 DEF WriteNotLocked, Replies, Does, Idle
<1>6. ASSUME NEW t \in Threads, WriteBusy(t) PROVE Busy'
    BY <1>6 DEF WriteBusy, Replies, Does, Idle
<1>7. ASSUME NEW t \in Threads, WriteAnswered(t) PROVE Busy'
    BY <1>7 DEF WriteAnswered, Accepts, Replies, Does, Idle
<1>8. ASSUME NEW t \in Threads, WriteSkipped(t) PROVE Busy'
    BY <1>8 DEF WriteSkipped, Accepts, Replies, Does, Idle
<1>9. ASSUME NEW t \in Threads, WriteQueued(t) PROVE Busy'
  <2>1. file_ops_lock = t
      BY <1>9 DEF WriteQueued, Does
  <2>2. worker'.at = "queued" /\ thread_busy' /\ tpm_running' /\ pool'
    <3>1. worker'.at = "queued"
        BY <1>9 DEF WriteQueued
    <3>2. thread_busy' /\ tpm_running' /\ pool'
      <4>1. pool
          BY <1>9, <2>1 DEF WriteQueued, Does, Pool
      <4> QED
          BY <1>9, <4>1 DEF WriteQueued
    <3> QED
        BY <3>1, <3>2
  <2>3. ASSUME NEW u \in Threads, pc'[u].at \in {"library", "work"} PROVE FALSE
      BY <1>9, <2>1, <2>3 DEF WriteQueued, Replies, Idle
  <2> QED
      BY <2>2, <2>3
<1>10. ASSUME NEW t \in Threads, WriteDirect(t) PROVE Busy'
    BY <1>10 DEF WriteDirect, Accepts, Does
<1>11. ASSUME NEW t \in Threads, WriteProcessed(t) PROVE Busy'
    BY <1>11 DEF WriteProcessed, Replies, Result, Idle
<1>12. ASSUME NEW t \in Threads, Read(t) PROVE Busy'
    BY <1>12 DEF Read, ExpectsNothing, Replies, Does, Idle
<1>13. ASSUME NEW t \in Threads, Report(t) PROVE Busy'
    BY <1>13 DEF Report, Replies, Does, Idle
<1>14. ASSUME NEW t \in Threads, Cancel(t) PROVE Busy'
    BY <1>14 DEF Cancel, Replies, Does, Idle
<1>15. ASSUME NEW t \in Threads, ResetNotAnswered(t) PROVE Busy'
    BY <1>15 DEF ResetNotAnswered, Goto, Does
<1>16. ASSUME NEW t \in Threads, CallLibrary(t) PROVE Busy'
    BY <1>16 DEF CallLibrary, Goto, Does
<1>17. ASSUME NEW t \in Threads, LibraryReturns(t) PROVE Busy'
    BY <1>17 DEF LibraryReturns, Replies, Idle
<1>18. ASSUME NEW t \in Threads, EndWorker(t) PROVE Busy'
    BY <1>18 DEF EndWorker, Goto
<1>19. ASSUME NEW t \in Threads, InitReturns(t) PROVE Busy'
    BY <1>19 DEF InitReturns, Replies, Idle
<1>20. ASSUME NEW t \in Threads, StopReturns(t) PROVE Busy'
    BY <1>20 DEF StopReturns, Replies, Idle
<1>21. ASSUME NEW t \in Threads, Release(t) PROVE Busy'
    BY <1>21 DEF Release, Goto, Idle
<1>22. ASSUME NEW t \in Threads, Exit(t) PROVE Busy'
    BY <1>22 DEF Exit, Idle
<1>23. CASE WorkerTakes
    BY <1>23 DEF WorkerTakes
<1>24. CASE WorkerResponds
    BY <1>24 DEF WorkerResponds, Result, Resting
<1>25. CASE WorkerDone
    BY <1>25 DEF WorkerDone, Resting
<1>26. CASE UNCHANGED vars
    BY <1>26, ZenonT(60) DEF vars
<1> QED
    BY <1>1, <1>2, <1>3, <1>4, <1>5, <1>6, <1>7, <1>8, <1>9, <1>10, <1>11, <1>12, <1>13, Zenon,
       <1>14, <1>15, <1>16, <1>17, <1>18, <1>19, <1>20, <1>21, <1>22, <1>23, <1>24,
       <1>25, <1>26
       DEF Next, Handle, WorkerThread

\* The pool goes before the TPM stops, in one request.
LEMMA PoolStep == TypeOK /\ Locking /\ Busy /\ Pool /\ [Next]_vars => Pool'
<1> SUFFICES ASSUME TypeOK, Locking, Busy, Pool, [Next]_vars PROVE Pool'
    OBVIOUS
<1> USE CuseAssumption DEF TypeOK, Jobs, Requests, Locking, Busy, Pool, At, Ending,
       history, buffers, tpm
<1>1. ASSUME NEW t \in Threads, Write(t) PROVE Pool'
    BY <1>1 DEF Write, ExpectsNothing
<1>2. ASSUME NEW t \in Threads, Request(t) PROVE Pool'
    BY <1>2 DEF Request
<1>3. ASSUME NEW t \in Threads, Acquire(t) PROVE Pool'
    BY <1>3 DEF Acquire, Goto
<1>4. ASSUME NEW t \in Threads, WaitDone(t) PROVE Pool'
    BY <1>4 DEF WaitDone, Goto
<1>5. ASSUME NEW t \in Threads, WriteNotLocked(t) PROVE Pool'
    BY <1>5 DEF WriteNotLocked, Replies, Does, Idle
<1>6. ASSUME NEW t \in Threads, WriteBusy(t) PROVE Pool'
    BY <1>6 DEF WriteBusy, Replies, Does, Idle
<1>7. ASSUME NEW t \in Threads, WriteAnswered(t) PROVE Pool'
    BY <1>7 DEF WriteAnswered, Accepts, Replies, Does, Idle
<1>8. ASSUME NEW t \in Threads, WriteSkipped(t) PROVE Pool'
    BY <1>8 DEF WriteSkipped, Accepts, Replies, Does, Idle
<1>9. ASSUME NEW t \in Threads, WriteQueued(t) PROVE Pool'
    BY <1>9 DEF WriteQueued, Accepts, Replies, Does, Idle
<1>10. ASSUME NEW t \in Threads, WriteDirect(t) PROVE Pool'
    BY <1>10 DEF WriteDirect, Accepts, Does
<1>11. ASSUME NEW t \in Threads, WriteProcessed(t) PROVE Pool'
    BY <1>11 DEF WriteProcessed, Replies, Result, Idle
<1>12. ASSUME NEW t \in Threads, Read(t) PROVE Pool'
    BY <1>12 DEF Read, ExpectsNothing, Replies, Does, Idle
<1>13. ASSUME NEW t \in Threads, Report(t) PROVE Pool'
    BY <1>13 DEF Report, Replies, Does, Idle
<1>14. ASSUME NEW t \in Threads, Cancel(t) PROVE Pool'
    BY <1>14 DEF Cancel, Replies, Does, Idle
<1>15. ASSUME NEW t \in Threads, ResetNotAnswered(t) PROVE Pool'
    BY <1>15 DEF ResetNotAnswered, Goto, Does
<1>16. ASSUME NEW t \in Threads, CallLibrary(t) PROVE Pool'
    BY <1>16 DEF CallLibrary, Goto, Does
<1>17. ASSUME NEW t \in Threads, LibraryReturns(t) PROVE Pool'
    BY <1>17 DEF LibraryReturns, Replies, Idle
<1>18. ASSUME NEW t \in Threads, EndWorker(t) PROVE Pool'
    BY <1>18 DEF EndWorker, Goto
<1>19. ASSUME NEW t \in Threads, InitReturns(t) PROVE Pool'
    BY <1>19 DEF InitReturns, Replies, Idle
<1>20. ASSUME NEW t \in Threads, StopReturns(t) PROVE Pool'
    BY <1>20 DEF StopReturns, Replies, Idle
<1>21. ASSUME NEW t \in Threads, Release(t) PROVE Pool'
    BY <1>21 DEF Release, Goto, Idle
<1>22. ASSUME NEW t \in Threads, Exit(t) PROVE Pool'
    BY <1>22 DEF Exit, Idle
<1>23. CASE WorkerTakes
    BY <1>23 DEF WorkerTakes
<1>24. CASE WorkerResponds
    BY <1>24 DEF WorkerResponds, Result, Resting
<1>25. CASE WorkerDone
    BY <1>25 DEF WorkerDone, Resting
<1>26. CASE UNCHANGED vars
    BY <1>26, ZenonT(60) DEF vars
<1> QED
    BY <1>1, <1>2, <1>3, <1>4, <1>5, <1>6, <1>7, <1>8, <1>9, <1>10, <1>11, <1>12, <1>13, Zenon,
       <1>14, <1>15, <1>16, <1>17, <1>18, <1>19, <1>20, <1>21, <1>22, <1>23, <1>24,
       <1>25, <1>26
       DEF Next, Handle, WorkerThread

\* A write that does not wait for the response before it ends politeness.
LEMMA ClientStep == TypeOK /\ Locking /\ Busy /\ Client /\ [Next]_vars => Client'
<1> SUFFICES ASSUME TypeOK, Locking, Busy, Client, [Next]_vars PROVE Client'
    OBVIOUS
<1> USE CuseAssumption DEF TypeOK, Jobs, Requests, Locking, Busy, Client, Writes, At,
       Waits, Ops, Ending, history, buffers, tpm
<1>1. ASSUME NEW t \in Threads, Write(t) PROVE Client'
    BY <1>1 DEF Write, ExpectsNothing
<1>2. ASSUME NEW t \in Threads, Request(t) PROVE Client'
    BY <1>2 DEF Request
<1>3. ASSUME NEW t \in Threads, Acquire(t) PROVE Client'
    BY <1>3 DEF Acquire, Goto
<1>4. ASSUME NEW t \in Threads, WaitDone(t) PROVE Client'
    BY <1>4 DEF WaitDone, Goto
<1>5. ASSUME NEW t \in Threads, WriteNotLocked(t) PROVE Client'
    BY <1>5 DEF WriteNotLocked, Replies, Does, Idle
<1>6. ASSUME NEW t \in Threads, WriteBusy(t) PROVE Client'
    BY <1>6 DEF WriteBusy, Replies, Does, Idle
<1>7. ASSUME NEW t \in Threads, WriteAnswered(t) PROVE Client'
    BY <1>7 DEF WriteAnswered, Accepts, Replies, Does, Idle
<1>8. ASSUME NEW t \in Threads, WriteSkipped(t) PROVE Client'
    BY <1>8 DEF WriteSkipped, Accepts, Replies, Does, Idle
<1>9. ASSUME NEW t \in Threads, WriteQueued(t) PROVE Client'
    BY <1>9 DEF WriteQueued, Accepts, Replies, Does, Idle
<1>10. ASSUME NEW t \in Threads, WriteDirect(t) PROVE Client'
    BY <1>10 DEF WriteDirect, Accepts, Does
<1>11. ASSUME NEW t \in Threads, WriteProcessed(t) PROVE Client'
    BY <1>11 DEF WriteProcessed, Replies, Result, Idle
<1>12. ASSUME NEW t \in Threads, Read(t) PROVE Client'
    BY <1>12 DEF Read, ExpectsNothing, Replies, Does, Idle
<1>13. ASSUME NEW t \in Threads, Report(t) PROVE Client'
    BY <1>13 DEF Report, Replies, Does, Idle
<1>14. ASSUME NEW t \in Threads, Cancel(t) PROVE Client'
    BY <1>14 DEF Cancel, Replies, Does, Idle
<1>15. ASSUME NEW t \in Threads, ResetNotAnswered(t) PROVE Client'
    BY <1>15 DEF ResetNotAnswered, Goto, Does
<1>16. ASSUME NEW t \in Threads, CallLibrary(t) PROVE Client'
    BY <1>16 DEF CallLibrary, Goto, Does
<1>17. ASSUME NEW t \in Threads, LibraryReturns(t) PROVE Client'
    BY <1>17 DEF LibraryReturns, Replies, Idle
<1>18. ASSUME NEW t \in Threads, EndWorker(t) PROVE Client'
    BY <1>18 DEF EndWorker, Goto
<1>19. ASSUME NEW t \in Threads, InitReturns(t) PROVE Client'
    BY <1>19 DEF InitReturns, Replies, Idle
<1>20. ASSUME NEW t \in Threads, StopReturns(t) PROVE Client'
    BY <1>20 DEF StopReturns, Replies, Idle
<1>21. ASSUME NEW t \in Threads, Release(t) PROVE Client'
    BY <1>21 DEF Release, Goto, Idle
<1>22. ASSUME NEW t \in Threads, Exit(t) PROVE Client'
    BY <1>22 DEF Exit, Idle
<1>23. CASE WorkerTakes
    BY <1>23 DEF WorkerTakes
<1>24. CASE WorkerResponds
    BY <1>24 DEF WorkerResponds, Result, Resting
<1>25. CASE WorkerDone
    BY <1>25 DEF WorkerDone, Resting
<1>26. CASE UNCHANGED vars
    BY <1>26, ZenonT(60) DEF vars
<1> QED
    BY <1>1, <1>2, <1>3, <1>4, <1>5, <1>6, <1>7, <1>8, <1>9, <1>10, <1>11, <1>12, <1>13, ZenonT(60),
       <1>14, <1>15, <1>16, <1>17, <1>18, <1>19, <1>20, <1>21, <1>22, <1>23, <1>24,
       <1>25, <1>26
       DEF Next, Handle, WorkerThread

\* Until the response is read nothing but its own command writes it.
LEMMA OwedStep == TypeOK /\ Locking /\ Busy /\ Client /\ Owed /\ [Next]_vars => Owed'
<1> SUFFICES ASSUME TypeOK, Locking, Busy, Client, Owed, [Next]_vars PROVE Owed'
    BY ZenonT(60)
<1> USE CuseAssumption DEF TypeOK, Jobs, Requests, Locking, Busy, Client, Owed,
       Answered, Writes, At, Waits, Ops, Ending, history, buffers, tpm
<1>1. ASSUME NEW t \in Threads, Write(t) PROVE Owed'
    BY <1>1 DEF Write, ExpectsNothing
<1>2. ASSUME NEW t \in Threads, Request(t) PROVE Owed'
    BY <1>2 DEF Request
<1>3. ASSUME NEW t \in Threads, Acquire(t) PROVE Owed'
    BY <1>3 DEF Acquire, Goto
<1>4. ASSUME NEW t \in Threads, WaitDone(t) PROVE Owed'
    BY <1>4 DEF WaitDone, Goto
<1>5. ASSUME NEW t \in Threads, WriteNotLocked(t) PROVE Owed'
    BY <1>5 DEF WriteNotLocked, Replies, Does, Idle
<1>6. ASSUME NEW t \in Threads, WriteBusy(t) PROVE Owed'
    BY <1>6 DEF WriteBusy, Replies, Does, Idle
<1>7. ASSUME NEW t \in Threads, WriteAnswered(t) PROVE Owed'
    BY <1>7 DEF WriteAnswered, Accepts, Replies, Does, Idle
<1>8. ASSUME NEW t \in Threads, WriteSkipped(t) PROVE Owed'
    BY <1>8 DEF WriteSkipped, Accepts, Replies, Does, Idle
<1>9. ASSUME NEW t \in Threads, WriteQueued(t) PROVE Owed'
    BY <1>9 DEF WriteQueued, Accepts, Replies, Does, Idle
<1>10. ASSUME NEW t \in Threads, WriteDirect(t) PROVE Owed'
    BY <1>10 DEF WriteDirect, Accepts, Does
<1>11. ASSUME NEW t \in Threads, WriteProcessed(t) PROVE Owed'
    BY <1>11 DEF WriteProcessed, Replies, Result, Idle
<1>12. ASSUME NEW t \in Threads, Read(t) PROVE Owed'
    BY <1>12 DEF Read, ExpectsNothing, Replies, Does, Idle
<1>13. ASSUME NEW t \in Threads, Report(t) PROVE Owed'
    BY <1>13 DEF Report, Replies, Does, Idle
<1>14. ASSUME NEW t \in Threads, Cancel(t) PROVE Owed'
    BY <1>14 DEF Cancel, Replies, Does, Idle
<1>15. ASSUME NEW t \in Threads, ResetNotAnswered(t) PROVE Owed'
    BY <1>15 DEF ResetNotAnswered, Goto, Does
<1>16. ASSUME NEW t \in Threads, CallLibrary(t) PROVE Owed'
    BY <1>16 DEF CallLibrary, Goto, Does
<1>17. ASSUME NEW t \in Threads, LibraryReturns(t) PROVE Owed'
    BY <1>17 DEF LibraryReturns, Replies, Idle
<1>18. ASSUME NEW t \in Threads, EndWorker(t) PROVE Owed'
    BY <1>18 DEF EndWorker, Goto
<1>19. ASSUME NEW t \in Threads, InitReturns(t) PROVE Owed'
    BY <1>19 DEF InitReturns, Replies, Idle
<1>20. ASSUME NEW t \in Threads, StopReturns(t) PROVE Owed'
    BY <1>20 DEF StopReturns, Replies, Idle
<1>21. ASSUME NEW t \in Threads, Release(t) PROVE Owed'
    BY <1>21 DEF Release, Goto, Idle
<1>22. ASSUME NEW t \in Threads, Exit(t) PROVE Owed'
    BY <1>22 DEF Exit, Idle
<1>23. CASE WorkerTakes
    BY <1>23 DEF WorkerTakes
<1>24. CASE WorkerResponds
    BY <1>24 DEF WorkerResponds, Result, Resting
<1>25. CASE WorkerDone
    BY <1>25 DEF WorkerDone, Resting
<1>26. CASE UNCHANGED vars
    BY <1>26 DEF vars
<1> QED
    BY <1>1, <1>2, <1>3, <1>4, <1>5, <1>6, <1>7, <1>8, <1>9, <1>10, <1>11, <1>12, <1>13, ZenonT(60),
       <1>14, <1>15, <1>16, <1>17, <1>18, <1>19, <1>20, <1>21, <1>22, <1>23, <1>24,
       <1>25, <1>26
       DEF Next, Handle, WorkerThread

\* A thread about to reply to a read finds the worker thread idle and, when the
\* client is owed a response, no write in hand.
LEMMA ReaderAnswered ==
    ASSUME Inv, NEW t \in Threads, Does(t, "read"), expected # None
    PROVE  Answered
BY CuseAssumption DEF Inv, TypeOK, Jobs, Requests, Locking, Busy, Client, Answered, Writes,
                      Waits, At, Does

\* The invariant holds when swtpm_cuse starts.
LEMMA InitInv == Init => Inv
<1> SUFFICES ASSUME Init PROVE Inv
    OBVIOUS
<1> USE CuseAssumption DEF Init, Idle, Resting
<1>1. TypeOK
    BY Zenon DEF TypeOK, Ops, Responses, Jobs, Requests
<1>2. Locking /\ Pool
    BY DEF Locking, Pool
<1>3. Busy
    BY DEF Busy, At, Waits
<1>4. Client /\ Owed
    BY DEF Client, Owed, Writes
<1> QED
    BY <1>1, <1>2, <1>3, <1>4 DEF Inv

-----------------------------------------------------------------------------
(* Theorems.                                                               *)

\* The invariant holds in every reachable state.
THEOREM Invariance == Spec => []Inv
<1>1. Inv /\ [Next]_vars => Inv'
    BY TypeStep, LockingStep, BusyStep, PoolStep, ClientStep, OwedStep DEF Inv
<1> QED
    BY InitInv, <1>1, PTL DEF Spec

\* The variables keep their types.
THEOREM TypeCorrectness == Spec => []TypeOK
<1>1. Inv => TypeOK
    BY DEF Inv
<1> QED
    BY Invariance, <1>1, PTL

\* libtpms is called by one thread at a time, however many threads FUSE has:
\* the worker thread does not need file_ops_lock because thread_busy is set.
THEOREM LibraryForAnyThreads == Spec => []OneInLibrary
<1>1. Inv => OneInLibrary
    BY DEF Inv, OneInLibrary, Locking, Busy, At
<1> QED
    BY Invariance, <1>1, PTL

\* A command that is pushed finds a thread pool.
THEOREM PoolForAnyThreads == Spec => []PushFindsPool
<1>1. Inv => PushFindsPool
    BY DEF Inv, PushFindsPool, Locking, Pool, At, Does
<1> QED
    BY Invariance, <1>1, PTL

\* A client that reads each response before the next write gets the response
\* to its command, whatever requests the other threads handle, unless one of
\* them is the PTM_STOP or PTM_SHUTDOWN that frees it: then the size is still
\* that of the response, and the buffer is gone.
THEOREM ResponsesForAnyThreads == Spec => []ResponseIsWhole
<1>1. Inv => ResponseIsWhole
  <2> SUFFICES ASSUME Inv, NEW t \in Threads, Does(t, "read"), expected # None
               PROVE  /\ ptm_res_len \in {expected, "canceled"} /\ unread
                      /\ ptm_response = IF freed THEN None ELSE ptm_res_len
      BY DEF ResponseIsWhole
  <2>1. Answered
      BY ReaderAnswered
  <2> QED
      BY <2>1 DEF Inv, Owed
<1> QED
    BY Invariance, <1>1, PTL

\* Its command is canceled only if that was asked for while it was in hand.
THEOREM CancellationForAnyThreads == Spec => []CanceledWasAsked
<1>1. Inv => CanceledWasAsked
  <2> SUFFICES ASSUME Inv, NEW t \in Threads, Does(t, "read"), expected # None,
                      ptm_res_len = "canceled"
               PROVE  asked
      BY DEF CanceledWasAsked
  <2>1. Answered
      BY ReaderAnswered
  <2> QED
      BY <2>1 DEF Inv, Owed
<1> QED
    BY Invariance, <1>1, PTL
=============================================================================
