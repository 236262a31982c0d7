--------------------------- MODULE HandoverProofs ---------------------------
(***************************************************************************)
(* A virtual machine that moves between any number of hosts keeps its TPM: *)
(* the steps that change the state of a TPM or where it is kept, and what  *)
(* follows from the inductive invariant of MigrationProofs.                *)
(***************************************************************************)
EXTENDS MigrationProofs

-----------------------------------------------------------------------------
(* The steps that change the state of a TPM, or where it is kept.          *)

\* The process that has the lock, in use or to send its state: no other machine
\* has it as its own.
LEMMA NotTaken ==
    ASSUME NEW p \in Procs, dir.lock = p
    PROVE  ~Taken(p)
BY DEF Taken, Others, Owns

\* A TPM command is processed with the lock, and with no volatile state file.
LEMMA CommandSafe ==
    ASSUME Safe, Inv', NEW p \in Procs, NEW ordinal, NEW perm \in Image, NEW ram,
           Process(p, ordinal, perm, ram), vm' = vm, stream' = stream,
           lib[p].perm.n = hist.nv /\ lib[p].ram \in {0, hist.ram} =>
               perm.n = hist'.nv /\ ram \in {0, hist'.ram},
           ram # 0 /\ perm.orderly => perm # lib[p].perm \/ Clean(p),
           ordinal = "Shutdown" /\ ram # 0 => perm.orderly
    PROVE  Safe'
<1>1. /\ Frame(p)
      /\ At(p, "cmd") /\ mlp[p].tpm_running
      /\ mlp'[p].storage_locked = mlp[p].storage_locked
      /\ mlp'[p].incoming_migration = mlp[p].incoming_migration
      /\ mlp'[p].lastCommand = ordinal
      /\ mlp'[p].tpm_running = mlp[p].tpm_running /\ Flag(p)' = Flag(p)
      /\ lib'[p].perm = perm /\ lib'[p].ram = ram /\ lib'[p].cached = lib[p].cached
      /\ pc'[p].at = "idle"
      /\ dir'.permall = IF perm # lib[p].perm THEN perm ELSE dir.permall
      /\ dir'.volatilestate = dir.volatilestate
      /\ dir'.lock = dir.lock
  BY ProcessEffect DEF Safe, Inv, ProcInv
<1>2. Place(p) /\ Holding(p) /\ Blobbed(p) /\ Sends(p) /\ Filed(p) /\ NoFile(p)
  BY DEF Safe, Local
<1>3. vm[p] = "run"
  BY <1>1, <1>2, ZenonT(60) DEF Place, Running, Sending
<1>4. dir.lock = p
  BY <1>1 DEF Safe, Inv, ProcInv, LockSafe, Operates
<1>5. Owns(p) /\ Owns(p)' /\ ~Taken(p)
  BY <1>1, <1>3, <1>4, NotTaken, ZenonT(60) DEF Owns
<1>6. Entitled(p) /\ dir.volatilestate = None /\ dir.permall # None /\ dir'.permall # None
  <2>1. perm # None
    BY NoneAssumption
  <2>2. QED
    BY <1>1, <1>2, <1>3, <1>5, <2>1 DEF Entitled, Live, NoFile, Unfiled, Filed, Running
<1>7. Turn(p)
  <2>1. Keeps(p)
    BY <1>1, KeepsStep, ZenonT(60)
  <2>2. QED
    BY <1>1, <1>3, <1>5, <1>6, <2>1, TurnStep, ZenonT(60) DEF Waiting
<1>8. Local(p)'
  BY <1>1, <1>2, <1>3, <1>6, ZenonT(60) DEF Local, Place, Holding, Blobbed, Sends, Filed, At,
      Running, Starting, Receiving, Sending, Waiting
<1>9. NoFile(p)'
  BY <1>1, <1>6 DEF NoFile
<1>10. Complete'
  BY DEF Safe, Complete
<1>11. ASSUME \A q \in Procs : Flag(q) PROVE Current'
  <2>1. CurrentFiles /\ CurrentMemory(p)
    BY <1>6, <1>11 DEF Safe, Current
  <2>2. dir'.permall = perm
    BY <1>1, <2>1 DEF CurrentMemory
  <2>3. perm.n = hist'.nv /\ ram \in {0, hist'.ram}
    BY <1>6, <2>1, ZenonT(60) DEF CurrentFiles, CurrentMemory
  <2>4. CurrentFiles' /\ CurrentMemory(p)'
    BY <1>1, <1>6, <2>2, <2>3, ZenonT(60) DEF CurrentFiles, CurrentMemory
  <2>5. QED
    BY <1>5, <1>7, <1>11, <2>4, CurrentStep, ZenonT(60)
<1>12. Tidy'
  <2>1. OrderlyMemory(p)
    BY <1>6, ZenonT(60) DEF Safe, Tidy
  <2>2. OrderlyMemory(p)'
    BY <1>1, <2>1 DEF OrderlyMemory, Clean
  <2>3. ~Intact'
    BY <1>5 DEF Intact
  <2>4. QED
    BY <1>5, <1>7, <2>2, <2>3, TidyStep, ZenonT(60)
<1>13. QED
  BY <1>7, <1>8, <1>9, <1>10, <1>11, <1>12, Assemble, ZenonT(60)

\* TPM2_Startup.
LEMMA GuestStartsSafe ==
    ASSUME Safe, Inv', NEW p \in Procs, GuestStarts(p)
    PROVE  Safe'
<1> DEFINE n == hist.n + 1
           perm == [n |-> n, orderly |-> FALSE]
<1>1. /\ Process(p, "Other", perm, n) /\ vm' = vm /\ stream' = stream
      /\ hist'.nv = n /\ hist'.ram = n /\ n \in 0..MaxCmds
  BY MigrationAssumption DEF GuestStarts, Startup, Safe, Inv, ClientTypes
<1>2. perm \in Image /\ perm.n = n /\ ~perm.orderly
  BY <1>1 DEF Image
<1>3. QED
  <2> HIDE DEF n, perm
  <2>1. QED
    BY <1>1, <1>2, CommandSafe, ZenonT(60)

\* A command that changes the TPM.
LEMMA GuestChangesSafe ==
    ASSUME Safe, Inv', NEW p \in Procs, GuestChanges(p)
    PROVE  Safe'
<1> DEFINE n == hist.n + 1
<1>1. PICK writes \in BOOLEAN : Change(p, n, writes)
  BY ZenonT(60) DEF GuestChanges
<1> DEFINE perm == IF writes \/ lib[p].perm.orderly
                   THEN [n |-> n, orderly |-> FALSE] ELSE lib[p].perm
<1>2. /\ Process(p, "Other", perm, n) /\ vm' = vm /\ stream' = stream
      /\ hist'.nv = (IF lib'[p].perm # lib[p].perm THEN n ELSE hist.nv)
      /\ hist'.ram = n /\ n \in 0..MaxCmds
  BY <1>1, MigrationAssumption DEF GuestChanges, Change, Safe, Inv, ClientTypes
<1>3. lib[p].perm \in Image
  BY DEF Safe, Inv, ProcInv, ProcTypes, Memory
<1>4. perm \in Image /\ (perm = lib[p].perm \/ perm.n = n) /\ ~perm.orderly
  BY <1>2, <1>3, ZenonT(60) DEF Image
<1>5. lib'[p].perm = perm
  <2> HIDE DEF n, perm
  <2>1. QED
    BY <1>2, ProcessEffect DEF Safe, Inv, ProcInv
<1>6. QED
  <2> HIDE DEF n, perm
  <2>1. QED
    BY <1>2, <1>4, <1>5, CommandSafe, ZenonT(60)

\* The other commands.
LEMMA GuestOtherSafe ==
    ASSUME Safe, Inv', NEW p \in Procs, GuestOther(p)
    PROVE  Safe'
<1>1. vm' = vm /\ stream' = stream /\ hist' = hist /\ UNCHANGED <<clientVars, vm>>
  BY DEF GuestOther, clientVars
<1>2. lib[p].perm \in Image
  BY DEF Safe, Inv, ProcInv, ProcTypes, Memory
<1>3. CASE Shutdown(p)
  <2> DEFINE perm == [lib[p].perm EXCEPT !.orderly = TRUE]
  <2>1. perm \in Image /\ perm.n = lib[p].perm.n /\ perm.orderly
    BY <1>2, Zenon DEF Image
  <2>2. Process(p, "Shutdown", perm, lib[p].ram)
    BY <1>3 DEF Shutdown
  <2>3. QED
    <3> HIDE DEF perm
    <3>1. QED
      BY <1>1, <2>1, <2>2, CommandSafe DEF Clean
<1>4. CASE ShutdownRefused(p)
  BY <1>1, <1>2, <1>4, CommandSafe, ZenonT(60) DEF ShutdownRefused, Clean
<1>5. CASE Query(p)
  BY <1>1, <1>2, <1>5, CommandSafe DEF Query, Clean
<1>6. CASE FatalResponse(p)
  BY <1>1, <1>6, FatalResponseSafe, ZenonT(60)
<1>7. QED
  BY <1>3, <1>4, <1>5, <1>6 DEF GuestOther

\* A source, or a machine that is paused, operates and has the lock.
LEMMA OperatesSafely ==
    ASSUME Safe, NEW p \in Procs, mlp[p].storage_locked, vm[p] \in Running \ {"warm"}
    PROVE  dir.lock = p /\ ~Taken(p) /\ Entitled(p) /\ OrderlyMemory(p)
<1>1. mlp[p].tpm_running
  BY DEF Safe, Local, Place
<1>2. dir.lock = p
  BY <1>1 DEF Safe, Inv, ProcInv, LockSafe, Operates
<1>3. ~Taken(p)
  BY <1>2, NotTaken
<1>4. Entitled(p)
  BY <1>3 DEF Entitled, Live
<1>5. QED
  BY <1>2, <1>3, <1>4, ZenonT(60) DEF Safe, Tidy

\* The volatile state of a TPM that is entitled is put into the file.
LEMMA StoredSafe ==
    ASSUME Safe, Inv', NEW p \in Procs, Turn(p), Local(p)', NoFile(p)', Complete',
           mlp[p].storage_locked, vm[p] \in Running \ {"warm"},
           stream' = stream, hist' = hist, mlp' = mlp, lib' = lib,
           dir'.permall = dir.permall, dir'.volatilestate = lib[p].ram
    PROVE  Safe'
<1>1. Entitled(p) /\ OrderlyMemory(p)
  BY OperatesSafely, ZenonT(60)
<1>2. ASSUME \A q \in Procs : Flag(q) PROVE Current'
  <2>1. CurrentFiles /\ CurrentMemory(p)
    BY <1>1, <1>2, ZenonT(60) DEF Safe, Current
  <2>2. CurrentFiles' /\ CurrentMemory(p)'
    BY <2>1, ZenonT(60) DEF CurrentFiles, CurrentMemory
  <2>3. QED
    BY <1>2, <2>2, CurrentStep, ZenonT(60)
<1>3. Tidy'
  <2>1. OrderlyMemory(p)'
    BY <1>1, ZenonT(60) DEF OrderlyMemory, Clean
  <2>2. \A q \in Others(p) : Entitled(q) /\ Clean(q) => dir'.permall.orderly
    BY ZenonT(60) DEF Safe, Tidy, OrderlyMemory, Others
  <2>3. ASSUME Intact', stream'.blobs.PERMANENT # None, Clean(p)'
        PROVE  stream'.blobs.PERMANENT.orderly
    <3>1. Intact
      BY <2>3, StillIntact DEF NoBlobs
    <3>2. Live(p) /\ Clean(p)
      BY <1>1, <2>3, ZenonT(60) DEF Entitled, Clean
    <3>3. QED
      BY <2>3, <3>1, <3>2, ZenonT(60) DEF Safe, Tidy
  <2>4. QED
    BY <2>1, <2>2, <2>3, TidyStep, ZenonT(60)
<1>4. QED
  BY <1>2, <1>3, Assemble, ZenonT(60)

\* CMD_STORE_VOLATILE.
LEMMA StoreSafe ==
    ASSUME Safe, Inv', NEW p \in Procs, Store(p)
    PROVE  Safe'
<1>1. /\ Frame(p)
      /\ At(p, "idle") /\ mlp[p].tpm_running
      /\ mlp' = mlp /\ lib' = lib
      /\ pc'[p].at = "idle"
      /\ dir'.permall = dir.permall
      /\ dir'.volatilestate = lib[p].ram
      /\ dir'.lock = dir.lock
  BY StoreVolatileEffect DEF Safe, Inv, ProcInv, Store
<1>2. /\ vm[p] = "run" /\ vm'[p] = "stored" /\ \A q \in Others(p) : vm'[q] = vm[q]
      /\ stream' = stream /\ hist' = hist /\ mlp[p].storage_locked
  BY StageStep, Zenon DEF Safe, Inv, Store, VM, clientVars
<1>3. Place(p) /\ Holding(p) /\ Blobbed(p) /\ Sends(p) /\ Filed(p)
  BY ZenonT(60) DEF Safe, Local
<1>4. dir.lock = p
  BY <1>2, OperatesSafely, ZenonT(60) DEF Running
<1>5. Turn(p)
  <2>1. Keeps(p)
    BY <1>1, <1>2, KeepsStep, ZenonT(60)
  <2>2. Owns(p) /\ Owns(p)'
    BY <1>1, <1>2, <1>4, ZenonT(60) DEF Owns
  <2>3. Respects(p)
    BY <1>2, RespectsStep, ZenonT(60) DEF Waiting
  <2>4. QED
    BY <1>1, <1>2, <1>4, <2>1, <2>2, <2>3, ZenonT(60) DEF Turn, StreamStep, FileStep, Release, Flag
<1>6. Local(p)'
  BY <1>1, <1>2, <1>3, ZenonT(60) DEF Local, Place, Holding, Blobbed, Sends, Filed, At,
      Running, Starting, Receiving, Sending, Waiting
<1>7. NoFile(p)'
  BY <1>2, ZenonT(60) DEF NoFile, Unfiled
<1>8. Complete'
  BY <1>2, ZenonT(60) DEF Safe, Complete, Others, Sending
<1>9. QED
  BY <1>1, <1>2, <1>5, <1>6, <1>7, <1>8, StoredSafe, ZenonT(60) DEF Running

\* The source puts its volatile state into the file, to read it from there.
LEMMA GetVolatileSafe ==
    ASSUME Safe, Inv', NEW p \in Procs, GetVolatile(p)
    PROVE  Safe'
<1>1. /\ Frame(p)
      /\ At(p, "idle") /\ mlp[p].tpm_running
      /\ mlp' = mlp /\ lib' = lib
      /\ pc'[p].at = "getvol"
      /\ dir'.permall = dir.permall
      /\ dir'.volatilestate = lib[p].ram
      /\ dir'.lock = dir.lock
  BY StoreVolatileEffect DEF Safe, Inv, ProcInv, GetVolatile
<1>2. vm[p] = "getVol" /\ vm' = vm /\ stream' = stream /\ hist' = hist
  BY ZenonT(60) DEF GetVolatile, clientVars
<1>3. Place(p) /\ Holding(p) /\ Blobbed(p) /\ Sends(p) /\ Filed(p)
  BY DEF Safe, Local
<1>4. Alone(p) /\ Alone(p)' /\ mlp[p].storage_locked
  BY <1>2, <1>3, ZenonT(60) DEF Sends, Holding, Alone, Sending
<1>5. dir.lock = p
  BY <1>2, <1>4, OperatesSafely, ZenonT(60) DEF Running, Sending
<1>6. Turn(p)
  <2>1. Keeps(p)
    BY <1>1, <1>2, KeepsStep, ZenonT(60)
  <2>2. ~Owns(p)
    BY <1>2 DEF Owns
  <2>3. Respects(p)
    BY <1>2, RespectsStep, ZenonT(60) DEF Waiting
  <2>4. QED
    BY <1>1, <1>2, <1>4, <1>5, <2>1, <2>2, <2>3, ZenonT(60)
    DEF Turn, StreamStep, FileStep, Release, Flag
<1>7. Local(p)'
  BY <1>1, <1>2, <1>3, <1>4, ZenonT(60) DEF Local, Place, Holding, Blobbed, Sends, Filed, At,
      Running, Starting, Receiving, Sending, Waiting
<1>8. NoFile(p)'
  BY <1>1, <1>2, ZenonT(60) DEF NoFile, Unfiled, At
<1>9. Complete'
  BY <1>2 DEF Safe, Complete
<1>10. QED
  BY <1>1, <1>2, <1>4, <1>6, <1>7, <1>8, <1>9, StoredSafe, ZenonT(60) DEF Running, Sending

\* A blob goes into the stream, unless it was cut.
LEMMA SendEffect ==
    ASSUME ClientTypes, NEW st \in {"PERMANENT", "VOLATILE"}, NEW blob, Send(st, blob)
    PROVE  /\ stream = None => stream' = None
           /\ stream # None => stream'.blobs = [stream.blobs EXCEPT ![st] = blob]
           /\ stream # None => stream.blobs \in Blobs
BY DEF Send, ClientTypes

\* The source sends the permanent state, that of the file.
LEMMA GetPermanentSafe ==
    ASSUME Safe, Inv', NEW p \in Procs, GetPermanent(p)
    PROVE  Safe'
<1>1. /\ mlp' = mlp /\ lib' = lib /\ dir' = dir /\ pc' = pc /\ hist' = hist
      /\ At(p, "idle") /\ Send("PERMANENT", dir.permall)
  BY DEF GetPermanent, ReturnPermanent, procVars
<1>2. vm[p] = "getPerm" /\ vm'[p] = "getVol" /\ \A q \in Others(p) : vm'[q] = vm[q]
  BY StageStep, ZenonT(60) DEF Safe, Inv, GetPermanent, VM
<1>3. Place(p) /\ Holding(p) /\ Blobbed(p) /\ Sends(p) /\ Filed(p) /\ NoFile(p)
  BY DEF Safe, Local
<1>4. /\ stream = None => stream' = None
      /\ stream # None => /\ stream'.blobs.PERMANENT = dir.permall
                          /\ stream'.blobs.VOLATILE = stream.blobs.VOLATILE
  <2>1. ClientTypes
    BY DEF Safe, Inv
  <2>2. /\ stream = None => stream' = None
        /\ stream # None => stream'.blobs = [stream.blobs EXCEPT !["PERMANENT"] = dir.permall]
        /\ stream # None => stream.blobs \in Blobs
    BY <1>1, <2>1, SendEffect, ZenonT(60)
  <2>3. QED
    BY <2>2 DEF Blobs
<1>5. Alone(p) /\ Alone(p)' /\ mlp[p].storage_locked /\ dir.permall # None
  BY <1>2, <1>3, ZenonT(60) DEF Sends, Holding, Filed, Alone, Running, Sending, Others
<1>6. Entitled(p) /\ OrderlyMemory(p) /\ ~Taken(p)
  BY <1>2, <1>5, OperatesSafely, ZenonT(60) DEF Running, Sending
<1>7. Turn(p)
  <2>1. Keeps(p)
    BY <1>1, <1>2, ZenonT(60) DEF Keeps
  <2>2. ~Owns(p)
    BY <1>2, ZenonT(60) DEF Owns
  <2>3. Respects(p)
    BY <1>2, RespectsStep, ZenonT(60) DEF Waiting
  <2>4. QED
    BY <1>1, <1>5, <2>1, <2>2, <2>3, ZenonT(60) DEF Turn, StreamStep, FileStep, Release, Flag
<1>8. Local(p)'
  BY <1>1, <1>2, <1>3, <1>4, <1>5, ZenonT(60) DEF Local, Place, Holding, Blobbed, Sends, Filed, At,
      Running, Starting, Receiving, Sending, Waiting
<1>9. NoFile(p)'
  <2>1. dir'.volatilestate = None
    BY <1>1, <1>2, <1>3, <1>6, ZenonT(60) DEF NoFile, Unfiled
  <2>2. QED
    BY <2>1, ZenonT(60) DEF NoFile
<1>10. Complete'
  BY <1>2, ZenonT(60) DEF Complete, Sending
<1>11. Intact' => Intact
  BY <1>1, <1>2, <1>4, ZenonT(60) DEF Intact, Owns, Others
<1>12. ASSUME \A q \in Procs : Flag(q) PROVE Current'
  <2>1. CurrentFiles /\ CurrentMemory(p) /\ (Intact => CurrentStream)
    BY <1>6, <1>12, ZenonT(60) DEF Safe, Current
  <2>2. CurrentFiles' /\ CurrentMemory(p)'
    BY <1>1, <2>1, ZenonT(60) DEF CurrentFiles, CurrentMemory
  <2>3. Intact' => CurrentStream'
    BY <1>1, <1>4, <1>11, <2>1, ZenonT(60) DEF CurrentStream, Intact
  <2>4. QED
    BY <1>1, <1>7, <1>12, <2>2, <2>3, CurrentStep, ZenonT(60)
<1>13. Tidy'
  <2>1. OrderlyMemory(p)'
    BY <1>1, <1>6, ZenonT(60) DEF OrderlyMemory, Clean
  <2>2. \A q \in Others(p) : Entitled(q) /\ Clean(q) => dir'.permall.orderly
    BY <1>1, ZenonT(60) DEF Safe, Tidy, OrderlyMemory, Others
  <2>3. ASSUME Intact', Clean(p)' PROVE stream'.blobs.PERMANENT.orderly
    BY <1>1, <1>4, <1>6, <1>11, <2>3, ZenonT(60) DEF Intact, OrderlyMemory, Clean
  <2>4. QED
    BY <1>5, <1>7, <2>1, <2>2, <2>3, TidyStep, ZenonT(60)
<1>14. QED
  BY <1>7, <1>8, <1>9, <1>10, <1>12, <1>13, Assemble, ZenonT(60)

\* The source sends its volatile state, and the file is gone.
LEMMA GotVolatileSafe ==
    ASSUME Safe, Inv', NEW p \in Procs, GotVolatile(p)
    PROVE  Safe'
<1>1. /\ Frame(p)
      /\ At(p, "getvol")
      /\ mlp' = mlp /\ lib' = lib
      /\ pc'[p].at = "idle"
      /\ dir'.permall = dir.permall
      /\ dir'.volatilestate = None
      /\ dir'.lock = dir.lock
  BY ReturnVolatileEffect DEF Safe, Inv, ProcInv, GotVolatile
<1>2. /\ vm[p] = "getVol" /\ vm'[p] = "getSave" /\ \A q \in Others(p) : vm'[q] = vm[q]
      /\ hist' = hist /\ Send("VOLATILE", dir.volatilestate)
  BY StageStep, Zenon DEF Safe, Inv, GotVolatile, VM
<1>3. Place(p) /\ Holding(p) /\ Blobbed(p) /\ Sends(p) /\ Filed(p)
  BY DEF Safe, Local
<1>4. /\ stream = None => stream' = None
      /\ stream # None => /\ stream'.blobs.PERMANENT = stream.blobs.PERMANENT
                          /\ stream'.blobs.VOLATILE = dir.volatilestate
  <2>1. ClientTypes
    BY DEF Safe, Inv
  <2>2. /\ stream = None => stream' = None
        /\ stream # None => stream'.blobs = [stream.blobs EXCEPT !["VOLATILE"] = dir.volatilestate]
        /\ stream # None => stream.blobs \in Blobs
    BY <1>2, <2>1, SendEffect, ZenonT(60)
  <2>3. QED
    BY <2>2, ZenonT(60) DEF Blobs
<1>5. Alone(p) /\ Alone(p)' /\ mlp[p].storage_locked
  BY <1>2, <1>3, ZenonT(60) DEF Sends, Holding, Alone, Sending, Others
<1>6. dir.volatilestate # None
  <2>1. lib[p].ram \in 0..MaxCmds
    BY ZenonT(60) DEF Safe, Inv, ProcInv, ProcTypes, Memory
  <2>2. QED
    BY <1>1, <1>3, <2>1, NoneAssumption, ZenonT(60) DEF Filed
<1>7. Entitled(p) /\ OrderlyMemory(p) /\ dir.lock = p
  BY <1>2, <1>5, OperatesSafely, ZenonT(60) DEF Running, Sending
<1>8. Turn(p)
  <2>1. Keeps(p)
    BY <1>1, <1>2, KeepsStep, ZenonT(60)
  <2>2. ~Owns(p)
    BY <1>2 DEF Owns
  <2>3. Respects(p)
    BY <1>2, RespectsStep, ZenonT(60) DEF Waiting
  <2>4. QED
    BY <1>1, <1>5, <1>7, <2>1, <2>2, <2>3, ZenonT(60) DEF Turn, StreamStep, FileStep, Release, Flag
<1>9. Local(p)'
  BY <1>1, <1>2, <1>3, <1>4, <1>5, <1>6, ZenonT(60)
     DEF Local, Place, Holding, Blobbed, Sends, Filed, At,
      Running, Starting, Receiving, Sending, Waiting
<1>10. NoFile(p)'
  BY <1>1, ZenonT(60) DEF NoFile
<1>11. Complete'
  BY <1>2, ZenonT(60) DEF Complete, Sending
<1>12. Intact' => Intact
  BY <1>1, <1>2, <1>4, ZenonT(60) DEF Intact, Owns, Others
<1>13. ASSUME \A q \in Procs : Flag(q) PROVE Current'
  <2>1. CurrentFiles /\ CurrentMemory(p) /\ (Intact => CurrentStream)
    BY <1>7, <1>13, ZenonT(60) DEF Safe, Current
  <2>2. CurrentFiles' /\ CurrentMemory(p)'
    BY <1>1, <1>2, <2>1, ZenonT(60) DEF CurrentFiles, CurrentMemory
  <2>3. Intact' => CurrentStream'
    BY <1>1, <1>2, <1>4, <1>12, <2>1, ZenonT(60) DEF CurrentStream, CurrentFiles, Intact
  <2>4. QED
    BY <1>1, <1>2, <1>8, <1>13, <2>2, <2>3, CurrentStep, ZenonT(60)
<1>14. Tidy'
  <2>1. OrderlyMemory(p)'
    BY <1>1, <1>7, ZenonT(60) DEF OrderlyMemory, Clean
  <2>2. \A q \in Others(p) : Entitled(q) /\ Clean(q) => dir'.permall.orderly
    BY <1>1, ZenonT(60) DEF Safe, Tidy, OrderlyMemory, Others
  <2>3. ASSUME Intact', stream'.blobs.PERMANENT # None, Clean(p)'
        PROVE  stream'.blobs.PERMANENT.orderly
    <3>1. Intact /\ Live(p) /\ Clean(p)
      BY <1>1, <1>7, <1>12, <2>3, ZenonT(60) DEF Entitled, Clean
    <3>2. QED
      BY <1>4, <2>3, <3>1, ZenonT(60) DEF Safe, Tidy, Intact
  <2>4. QED
    BY <1>5, <1>8, <2>1, <2>2, <2>3, TidyStep, ZenonT(60)
<1>15. QED
  BY <1>8, <1>9, <1>10, <1>11, <1>13, <1>14, Assemble, ZenonT(60)

\* A machine boots or is reset: its TPM is loaded from the files, before it has
\* the lock.
LEMMA BootSafe ==
    ASSUME Safe, Inv', NEW p \in Procs, Boot(p)
    PROVE  Safe'
<1> DEFINE file == FileAfterShutdown(p)
<1>1. /\ Frame(p)
      /\ At(p, "idle")
      /\ mlp'[p].storage_locked = ~mlp[p].incoming_migration
      /\ mlp'[p].incoming_migration = mlp[p].incoming_migration
      /\ mlp'[p].lastCommand = Stopped(p).lastCommand
      /\ ~mlp'[p].tpm_running /\ Flag(p)' = Flag(p)
      /\ lib'[p].perm = LoadedPermanent(p, file)
      /\ lib'[p].ram = LoadedVolatile(p, dir.volatilestate)
      /\ lib'[p].cached.PERMANENT = None /\ lib'[p].cached.VOLATILE = None
      /\ pc'[p].at = "init"
      /\ dir'.permall = IF lib[p].cached.PERMANENT # None \/ file = None
                        THEN LoadedPermanent(p, file) ELSE file
      /\ dir'.volatilestate = dir.volatilestate
      /\ dir'.lock = dir.lock
  BY CmdInitEffect DEF Safe, Inv, ProcInv, Boot
<1>2. /\ vm[p] \in {"boot", "run", "stored", "stopped"} /\ vm'[p] = "booting"
      /\ \A q \in Others(p) : vm'[q] = vm[q]
      /\ stream' = stream /\ hist' = hist
  BY StageStep, ZenonT(60) DEF Safe, Inv, Boot, VM, clientVars
<1>3. Place(p) /\ Holding(p) /\ Blobbed(p) /\ Sends(p) /\ Filed(p) /\ NoFile(p)
  BY DEF Safe, Local
<1>4. lib[p].cached.PERMANENT = None /\ lib[p].cached.VOLATILE = None
  BY <1>2, <1>3, ZenonT(60) DEF Blobbed
<1>5. ~mlp[p].incoming_migration
  BY <1>2, <1>3, ZenonT(60) DEF Holding, Waiting
<1>6. /\ dir.permall # None => file # None
      /\ ~mlp[p].tpm_running \/ lib[p].ram = 0 =>
            file = dir.permall /\ Stopped(p).lastCommand = mlp[p].lastCommand
      /\ file = dir.permall \/ (~Flag(p) /\ file.orderly)
  BY FileKept DEF Safe, Inv, ProcInv
<1>7. Manufactured # None /\ Manufactured.n = 0
  BY FreshTypes, NoneAssumption, ZenonT(60) DEF Manufactured
<1>8. /\ dir'.permall = IF file = None THEN Manufactured ELSE file
      /\ lib'[p].perm = dir'.permall
      /\ lib'[p].ram = IF dir.volatilestate # None THEN dir.volatilestate ELSE 0
      /\ dir'.permall # None
  BY <1>1, <1>4, <1>7, ZenonT(60) DEF LoadedPermanent, LoadedVolatile
<1> HIDE DEF file
<1>9. Turn(p)
  <2>1. Keeps(p)
    BY <1>1, <1>2, KeepsStep, ZenonT(60)
  <2>2. Owns(p) => Owns(p)'
    BY <1>1, <1>2, ZenonT(60) DEF Owns
  <2>3. QED
    BY <1>1, <1>2, <1>8, <2>1, <2>2, TurnStep, ZenonT(60) DEF Waiting
<1>10. Local(p)'
  BY <1>1, <1>2, <1>3, <1>5, <1>8, ZenonT(60) DEF Local, Place, Holding, Blobbed, Sends, Filed, At,
      Running, Starting, Receiving, Sending, Waiting
<1>11. NoFile(p)'
  BY <1>2, Zenon DEF NoFile, Unfiled
<1>12. Complete'
  BY <1>2, ZenonT(60) DEF Safe, Complete, Others, Sending
<1>13. ASSUME \A q \in Procs : Flag(q) PROVE Current'
  <2>1. CurrentFiles /\ file = dir.permall
    BY <1>6, <1>13, ZenonT(60) DEF Safe, Current
  <2>2. CurrentFiles' /\ CurrentMemory(p)'
    BY <1>1, <1>2, <1>7, <1>8, <2>1, ZenonT(60) DEF CurrentFiles, CurrentMemory
  <2>3. QED
    BY <1>2, <1>8, <1>9, <1>13, <2>1, <2>2, CurrentStep, ZenonT(60)
<1>14. ~Taken(p)' /\ lib'[p].ram # 0 =>
          /\ vm[p] \in {"boot", "stored"}
          /\ vm[p] = "stored" => dir.lock = p /\ OrderlyMemory(p) /\ lib[p].ram # 0
  <2> SUFFICES ASSUME ~Taken(p)', lib'[p].ram # 0
               PROVE  /\ vm[p] \in {"boot", "stored"}
                      /\ vm[p] = "stored" => dir.lock = p /\ OrderlyMemory(p) /\ lib[p].ram # 0
    BY ZenonT(60)
  <2>1. ~Taken(p)
    BY <1>9, SameTaken, ZenonT(60) DEF Turn
  <2>2. dir.volatilestate # None /\ lib'[p].ram = dir.volatilestate
    BY <1>8, ZenonT(60)
  <2>3. vm[p] \in {"boot", "stored"}
    BY <1>2, <1>3, <2>1, <2>2, ZenonT(60) DEF NoFile, Unfiled
  <2>4. vm[p] = "stored" => mlp[p].storage_locked /\ lib[p].ram = dir.volatilestate
    BY <1>3, ZenonT(60) DEF Holding, Filed
  <2>5. QED
    BY <2>2, <2>3, <2>4, OperatesSafely, ZenonT(60) DEF Running
<1>15. Entitled(p)' => OrderlyMemory(p)'
  <2> SUFFICES ASSUME ~Taken(p)', lib'[p].ram # 0, mlp'[p].lastCommand = "Shutdown"
               PROVE  dir'.permall.orderly
    BY <1>8, ZenonT(60) DEF Entitled, OrderlyMemory, Clean
  <2>1. CASE vm[p] = "boot"
    BY <1>1, <1>3, <1>6, <2>1, ZenonT(60) DEF Filed, Place, Running, Sending
  <2>2. CASE vm[p] = "stored"
    <3>1. OrderlyMemory(p) /\ lib[p].ram # 0
      BY <1>14, <2>2, ZenonT(60)
    <3>2. dir.permall # None
      BY <1>3, <2>2, ZenonT(60) DEF Filed, Running
    <3>3. file.orderly
      <4>1. CASE file = dir.permall /\ mlp[p].lastCommand = "Shutdown"
        BY <3>1, <4>1 DEF OrderlyMemory, Clean
      <4>2. CASE file = dir.permall /\ mlp[p].lastCommand # "Shutdown"
        <5>1. ShutsDown(p)
          BY <1>1, <4>2, ShutdownEffect, ZenonT(60) DEF Safe, Inv, ProcInv
        <5>2. file = [lib[p].perm EXCEPT !.orderly = TRUE] /\ lib[p].perm \in Image
          BY <5>1, ZenonT(60) DEF file, FileAfterShutdown, Safe, Inv, ProcInv, ProcTypes, Memory
        <5>3. QED
          BY <5>2, ZenonT(60) DEF Image
      <4>3. QED
        BY <1>6, <4>1, <4>2, ZenonT(60)
    <3>4. QED
      BY <1>6, <1>8, <3>2, <3>3, ZenonT(60)
  <2>3. QED
    BY <1>14, <2>1, <2>2, ZenonT(60)
<1>16. Tidy'
  <2>1. \A q \in Others(p) : Entitled(q) /\ Clean(q) => dir'.permall.orderly
    <3> SUFFICES ASSUME NEW q \in Others(p), Entitled(q), Clean(q) PROVE dir'.permall.orderly
      BY ZenonT(60)
    <3>1. dir.permall # None
      BY ZenonT(60) DEF Safe, Local, Filed, Entitled, Live, Starting, Others
    <3>2. dir.permall.orderly
      BY ZenonT(60) DEF Safe, Tidy, OrderlyMemory, Others
    <3>3. QED
      BY <1>6, <1>8, <3>1, <3>2, ZenonT(60)
  <2>2. ASSUME Intact' PROVE ~Clean(p)'
    <3>1. ~Taken(p)' /\ ~Owns(p)' /\ stream # None
      BY <1>2, <2>2, ZenonT(60) DEF Intact, Taken, Others
    <3>2. dir.lock # p
      BY <1>1, <1>2, <3>1, ZenonT(60) DEF Owns
    <3>3. vm[p] # "boot"
      BY <1>3, <3>1, ZenonT(60) DEF Blobbed
    <3>4. QED
      BY <1>14, <3>1, <3>2, <3>3, ZenonT(60) DEF Clean
  <2>3. QED
    BY <1>2, <1>9, <1>15, <2>1, <2>2, TidyStep, ZenonT(60)
<1>17. QED
  BY <1>9, <1>10, <1>11, <1>12, <1>13, <1>16, Assemble

\* The destination loads the blobs.
LEMMA ResumeSafe ==
    ASSUME Safe, Inv', NEW p \in Procs, Resume(p)
    PROVE  Safe'
<1> DEFINE file == FileAfterShutdown(p)
<1>1. /\ Frame(p)
      /\ At(p, "idle")
      /\ mlp'[p].storage_locked = ~mlp[p].incoming_migration
      /\ mlp'[p].incoming_migration = mlp[p].incoming_migration
      /\ mlp'[p].lastCommand = Stopped(p).lastCommand
      /\ ~mlp'[p].tpm_running /\ Flag(p)' = Flag(p)
      /\ lib'[p].perm = LoadedPermanent(p, file)
      /\ lib'[p].ram = LoadedVolatile(p, dir.volatilestate)
      /\ lib'[p].cached.PERMANENT = None /\ lib'[p].cached.VOLATILE = None
      /\ pc'[p].at = "init"
      /\ dir'.permall = IF lib[p].cached.PERMANENT # None \/ file = None
                        THEN LoadedPermanent(p, file) ELSE file
      /\ dir'.volatilestate = dir.volatilestate
      /\ dir'.lock = dir.lock
  BY CmdInitEffect, Zenon DEF Safe, Inv, ProcInv, Resume
<1>2. /\ vm[p] = "gotVol" /\ vm'[p] = "resuming" /\ \A q \in Others(p) : vm'[q] = vm[q]
      /\ stream' = stream /\ hist' = hist
  BY StageStep, ZenonT(60) DEF Safe, Inv, Resume, VM, clientVars
<1>3. Place(p) /\ Holding(p) /\ Blobbed(p) /\ Sends(p) /\ Filed(p)
  BY DEF Safe, Local
<1>4. /\ dir.lock = p /\ ~mlp[p].incoming_migration /\ ~mlp[p].tpm_running
      /\ mlp[p].lastCommand = "NONE" /\ stream # None /\ stream.to = p
  BY <1>2, <1>3, ZenonT(60) DEF Place, Holding, Blobbed, Filed, Receiving, Running, Sending, Waiting
<1>5. Stopped(p).lastCommand = "NONE"
  BY <1>4, FileKept, Zenon DEF Safe, Inv, ProcInv
<1>6. stream.blobs.PERMANENT # None /\ stream.blobs.VOLATILE # None
  <2>1. \A q \in Procs : vm[q] \notin Sending
    BY <1>2, ZenonT(60) DEF Safe, Local, Sends, Alone, Others, Sending, Waiting
  <2>2. QED
    BY <1>4, <2>1, ZenonT(60) DEF Safe, Complete
<1>7. /\ dir'.permall = stream.blobs.PERMANENT
      /\ lib'[p].perm = stream.blobs.PERMANENT
      /\ lib'[p].ram = stream.blobs.VOLATILE
  BY <1>1, <1>2, <1>3, <1>6, ZenonT(60) DEF Blobbed, LoadedPermanent, LoadedVolatile
<1> HIDE DEF file
<1>8. Intact
  BY <1>2, <1>4, ZenonT(60) DEF Intact, Owns
<1>9. Turn(p)
  <2>1. Keeps(p)
    BY <1>1, <1>2, KeepsStep, ZenonT(60)
  <2>2. ~Owns(p)
    BY <1>2, ZenonT(60) DEF Owns
  <2>3. QED
    BY <1>1, <1>2, <1>6, <1>7, <2>1, <2>2, TurnStep, ZenonT(60) DEF Waiting
<1>10. Local(p)'
  BY ZenonT(60), <1>1, <1>2, <1>3, <1>4, <1>5, <1>6, <1>7
  DEF Local, Place, Holding, Blobbed, Sends, Filed, At,
      Running, Starting, Receiving, Sending, Waiting
<1>11. NoFile(p)'
  BY <1>2, ZenonT(60) DEF NoFile, Unfiled
<1>12. Complete'
  BY <1>2, <1>6, ZenonT(60) DEF Complete
<1>13. ASSUME \A q \in Procs : Flag(q) PROVE Current'
  <2>1. CurrentFiles /\ CurrentStream
    BY <1>8, <1>13, ZenonT(60) DEF Safe, Current
  <2>2. dir'.permall = dir.permall
    BY <1>6, <1>7, <2>1, ZenonT(60) DEF CurrentStream
  <2>3. CurrentFiles' /\ CurrentMemory(p)'
    BY <1>1, <1>2, <1>6, <1>7, <2>1, <2>2, ZenonT(60) DEF CurrentFiles, CurrentMemory, CurrentStream
  <2>4. QED
    BY <1>2, <1>9, <1>13, <2>2, <2>3, CurrentStep, ZenonT(60)
<1>14. Tidy'
  <2>1. OrderlyMemory(p)'
    BY <1>1, <1>5, <1>7, ZenonT(60) DEF OrderlyMemory, Clean
  <2>2. \A q \in Others(p) : Entitled(q) /\ Clean(q) => dir'.permall.orderly
    BY <1>6, <1>7, <1>8, ZenonT(60) DEF Safe, Tidy, Entitled, Others
  <2>3. Clean(p)' => stream'.blobs.PERMANENT.orderly
    BY <1>2, <1>7, ZenonT(60) DEF Clean
  <2>4. QED
    BY <1>2, <1>9, <2>1, <2>2, <2>3, TidyStep, ZenonT(60)
<1>15. QED
  BY <1>9, <1>10, <1>11, <1>12, <1>13, <1>14, Assemble

-----------------------------------------------------------------------------
(* The invariant holds in every behaviour.                                 *)

\* The machine starts without a TPM state.
LEMMA InitSafe == Init => Safe
<1> SUFFICES ASSUME Init PROVE Safe
  OBVIOUS
<1>1. Inv
  BY InitEstablishes, ZenonT(60)
<1>2. PICK noShutdown \in BOOLEAN :
         mlp = [p \in Procs |-> FreshParams(p # First, noShutdown)]
  BY ZenonT(60) DEF Init
<1>3. /\ dir.permall = None /\ dir.volatilestate = None /\ dir.lock = None
      /\ stream = None /\ hist.nv = 0
  BY ZenonT(60) DEF Init
<1>4. ASSUME NEW p \in Procs
      PROVE  /\ vm[p] = IF p = First THEN "boot" ELSE "incoming"
             /\ pc[p].at = "idle" /\ lib[p] = FreshLib
             /\ ~mlp[p].storage_locked /\ ~mlp[p].tpm_running
             /\ mlp[p].incoming_migration = (p # First)
             /\ mlp[p].lastCommand = "NONE" /\ Flag(p) = noShutdown
  BY <1>2 DEF Init, Point, FreshParams, Flag
<1>5. ASSUME NEW p \in Procs PROVE Local(p) /\ NoFile(p) /\ ~Live(p)
  <2>1. dir.lock # p
    BY <1>3, SwtpmAssumption, ZenonT(60)
  <2>2. lib[p].cached.PERMANENT = None /\ lib[p].cached.VOLATILE = None
    BY <1>4, SMTT(60), Z3T(60) DEF FreshLib, NoBlobs
  <2>3. Place(p) /\ Holding(p)
    BY <1>4, <2>1, Zenon DEF Place, Holding, At, Running, Starting, Sending, Waiting
  <2>4. Blobbed(p) /\ Sends(p) /\ Filed(p)
    BY <1>3, <1>4, <2>2, ZenonT(60) DEF Blobbed, Sends, Filed, At, Running, Starting, Receiving,
        Sending, Waiting
  <2>5. NoFile(p) /\ ~Live(p)
    BY <1>3, <1>4, ZenonT(60) DEF NoFile, Live, Running, Sending
  <2>6. QED
    BY <2>3, <2>4, <2>5, ZenonT(60) DEF Local
<1>6. Complete /\ Uniform
  BY <1>3, <1>4, ZenonT(60) DEF Complete, Uniform
<1>7. Current /\ Tidy
  BY <1>3, <1>5, ZenonT(60) DEF Current, CurrentFiles, Tidy, Entitled, Intact
<1>8. QED
  BY <1>1, <1>5, <1>6, <1>7, ZenonT(60) DEF Safe

\* The steps that a process makes by itself,
LEMMA WorksSafe ==
    ASSUME Safe, NEW p \in Procs, Works(p)
    PROVE  Safe'
<1>1. Inv'
  BY WorksKeep, ZenonT(60) DEF Safe
<1>2. QED
  BY <1>1, BootedSafe, WarmedUpSafe, ResumedSafe, InitFailedSafe, LockedSafe, ZenonT(60),
     LockWaitsSafe, NotLockedSafe, GuestStartsSafe, GuestChangesSafe, GuestOtherSafe,
     GotVolatileSafe, PermanentSetSafe, VolatileSetSafe, BlobRefusedSafe, EndedSafe
  DEF Works, Locks

\* and those that its client asks for.
LEMMA AsksSafe ==
    ASSUME Safe, NEW p \in Procs, Asks(p)
    PROVE  Safe'
<1>1. Inv'
  BY AsksKeep DEF Safe
<1>2. QED
  BY <1>1, BootSafe, StopSafe, StoreSafe, GuestSafe, MigrateOutSafe, GetPermanentSafe, ZenonT(60),
     GetVolatileSafe, GetSavestateSafe, CancelSafe, FallBackSafe, FallBackLockedSafe,
     WarmUpSafe, CoolDownSafe, SetPermanentSafe, SetVolatileSafe, ResumeSafe, QuitSafe
  DEF Asks

\* Nothing is lost while nothing happens.
LEMMA StutterSafe ==
    ASSUME Safe, UNCHANGED vars
    PROVE  Safe'
<1>1. Inv'
  BY ZenonT(60) DEF Safe, Inv, ProcInv, ProcTypes, LockSafe, Operates, At, ClientTypes, vars
<1>2. \A p \in Procs : Local(p)' /\ NoFile(p)'
  <2>1. ASSUME NEW p \in Procs PROVE Local(p)'
    BY ZenonT(60) DEF Safe, Local, Place, Holding, Blobbed, Sends, Filed, Alone, At, vars
  <2>2. ASSUME NEW p \in Procs PROVE NoFile(p)'
    BY ZenonT(60) DEF Safe, NoFile, Taken, Owns, At, vars
  <2>3. QED
    BY <2>1, <2>2, ZenonT(60)
<1>3. Complete' /\ Uniform' /\ ((\A p \in Procs : Flag(p)') => Current')
  BY Zenon DEF Safe, Complete, Uniform, Flag, Current, CurrentFiles, CurrentMemory,
      CurrentStream, Entitled, Live, Taken, Owns, Intact, vars
<1>4. Tidy'
  BY DEF Safe, Tidy, OrderlyMemory, Clean, Entitled, Live, Taken, Owns, Intact, vars
<1>5. QED
  BY <1>1, <1>2, <1>3, <1>4, ZenonT(60) DEF Safe

\* The inductive invariant, for any number of hosts.
THEOREM Safety == Spec => []Safe
<1>1. Init => Safe
  BY InitSafe
<1>2. Safe /\ [Next]_vars => Safe'
  <2> SUFFICES ASSUME Safe, [Next]_vars PROVE Safe'
    OBVIOUS
  <2>1. ASSUME NEW p \in Procs, Works(p) \/ Asks(p) PROVE Safe'
    BY <2>1, WorksSafe, AsksSafe, ZenonT(60)
  <2>2. ASSUME NEW p \in Procs, Killed(p) PROVE Safe'
    BY <2>2, KilledKeeps, KilledSafe, ZenonT(60) DEF Safe
  <2>3. ASSUME NEW p \in Procs, Restart(p) PROVE Safe'
    BY <2>3, RestartKeeps, RestartSafe DEF Safe
  <2>4. CASE UNCHANGED vars
    BY <2>4, StutterSafe, ZenonT(60)
  <2>5. QED
    BY <2>1, <2>2, <2>3, <2>4, ZenonT(60) DEF Next
<1>3. QED
  BY <1>1, <1>2, PTL DEF Spec

-----------------------------------------------------------------------------
(* What follows.                                                           *)

\* The process that operates is entitled to: it is neither a machine that waits
\* nor one that failed to come to run.
LEMMA OperatesEntitled ==
    ASSUME Safe, NEW p \in Procs, mlp[p].tpm_running, dir.lock = p
    PROVE  Entitled(p) /\ vm[p] \in Running \ {"warm"}
<1>1. vm[p] \in Running \ {"warm"}
  BY DEF Safe, Local, Place, Holding, Running, Waiting
<1>2. QED
  BY <1>1, NotTaken, ZenonT(60) DEF Entitled, Live

\* No TPM command is lost, and none is executed on a state that another process
\* has moved on from: for any number of hosts, the TPM that processes commands
\* under the storage lock has the last command of any of them that wrote NV.
THEOREM LinearForAnyHosts == Spec => []LinearHistory
<1>1. Safe => LinearHistory
  <2> SUFFICES ASSUME Safe, NEW p \in Procs, Operates(p), mlp[p].disable_auto_shutdown
               PROVE  lib[p].perm.n = hist.nv /\ lib[p].ram \in {0, hist.ram}
    BY DEF LinearHistory
  <2>1. Current
    BY ZenonT(60) DEF Safe, Uniform, Flag
  <2>2. mlp[p].tpm_running /\ dir.lock = p
    BY ZenonT(60) DEF Safe, Inv, ProcInv, LockSafe, Operates
  <2>3. Entitled(p) /\ vm[p] \in Running
    BY <2>2, OperatesEntitled, ZenonT(60)
  <2>4. dir.permall # None
    BY <2>3, ZenonT(60) DEF Safe, Local, Filed
  <2>5. QED
    BY <2>1, <2>3, <2>4, ZenonT(60) DEF Current, CurrentFiles, CurrentMemory
<1>2. QED
  BY <1>1, Safety, PTL

\* The permanent state file is the NV of the TPM that processes commands: what
\* GET_STATEBLOB reads, and what a killed process is started from, is current.
THEOREM CurrentForAnyHosts == Spec => []StorageIsCurrent
<1>1. Safe => StorageIsCurrent
  <2> SUFFICES ASSUME Safe, NEW p \in Procs, Operates(p), mlp[p].disable_auto_shutdown
               PROVE  dir.permall = lib[p].perm
    BY DEF StorageIsCurrent
  <2>1. Current
    BY ZenonT(60) DEF Safe, Uniform, Flag
  <2>2. mlp[p].tpm_running /\ dir.lock = p
    BY DEF Safe, Inv, ProcInv, LockSafe, Operates
  <2>3. QED
    BY <2>1, <2>2, OperatesEntitled, ZenonT(60) DEF Current, CurrentMemory
<1>2. QED
  BY <1>1, Safety, PTL

\* The destination comes to run with the whole state that the source sent, its
\* volatile part included.
THEOREM CompleteForAnyHosts == Spec => HandoverIsComplete
<1>1. Safe /\ [Next]_vars =>
         [\A p \in Procs :
             vm[p] = "resuming" /\ vm'[p] = "run" =>
                 /\ lib[p].ram = stream.blobs.VOLATILE
                 /\ lib[p].perm = stream.blobs.PERMANENT]_vars
  BY ZenonT(60) DEF Safe, Local, Blobbed
<1>2. QED
  BY <1>1, Safety, PTL DEF Spec, HandoverIsComplete

-----------------------------------------------------------------------------
(* The end of a TPM.                                                       *)

\* What a step of a process may do to a running TPM, and to no other.
Ends(p) ==
    \/ CMD_INIT(p) \/ CMD_STOP(p, "idle") \/ CMD_STOP(p, "exit")
    \/ Exit(p) \/ Kill(p)

Steady(p) == mlp[p].tpm_running => mlp'[p].tpm_running

\* A step of one process stops no other TPM, and its own only as it ends,
LEMMA WorksSteady ==
    ASSUME Safe, NEW p \in Procs, Works(p)
    PROVE  Frame(p) /\ (Steady(p) \/ Ends(p))
<1>1. ProcTypes
  BY ZenonT(60) DEF Safe, Inv, ProcInv
<1>2. CASE Booted(p) \/ WarmedUp(p) \/ Resumed(p)
  BY <1>1, <1>2, InitLockedEffect, Zenon DEF Booted, WarmedUp, Resumed, Steady
<1>3. CASE InitFailed(p)
  BY <1>1, <1>3, InitRefusedEffect, ZenonT(60) DEF InitFailed, Steady
<1>4. CASE Locked(p)
  BY <1>1, <1>4, LockTakenEffect, ZenonT(60) DEF Locked, Steady
<1>5. CASE LockWaits(p) \/ NotLocked(p)
  BY <1>1, <1>5, ZenonT(60) DEF LockWaits, NotLocked, LockRetry, LockFailed, Goto, Steady, Frame,
      Others, ProcTypes
<1>6. CASE GuestStarts(p) \/ GuestChanges(p)
  BY <1>1, <1>6, ProcessEffect, ZenonT(60) DEF GuestStarts, GuestChanges, Startup, Change, Steady
<1>7. CASE GuestOther(p)
  <2>1. CASE FatalResponse(p)
    BY <1>1, <2>1 DEF FatalResponse, Goto, Steady, Frame, Others, ProcTypes
  <2>2. CASE ~FatalResponse(p)
    BY <1>1, <1>7, <2>2, ProcessEffect, ZenonT(60)
       DEF GuestOther, Shutdown, ShutdownRefused, Query, Steady
  <2>3. QED
    BY <2>1, <2>2, ZenonT(60)
<1>8. CASE GotVolatile(p)
  BY <1>1, <1>8, ReturnVolatileEffect, ZenonT(60) DEF GotVolatile, Steady
<1>9. CASE PermanentSet(p) \/ VolatileSet(p)
  BY <1>1, <1>9, SetStateEffect, ZenonT(60) DEF PermanentSet, VolatileSet, Steady
<1>10. CASE BlobRefused(p)
  BY <1>1, <1>10, SetStateRefusedEffect DEF BlobRefused, Steady
<1>11. CASE Ended(p)
  BY <1>1, <1>11, ExitEffect, ZenonT(60) DEF Ended, Ends, GoneFrom
<1>12. QED
  BY <1>2, <1>3, <1>4, <1>5, <1>6, <1>7, <1>8, <1>9, <1>10, <1>11, ZenonT(60) DEF Works, Locks

\* or as its client asks for it.
LEMMA AsksSteady ==
    ASSUME Safe, NEW p \in Procs, Asks(p)
    PROVE  Frame(p) /\ (Steady(p) \/ Ends(p))
<1>1. ProcTypes
  BY DEF Safe, Inv, ProcInv
<1>2. CASE Boot(p) \/ WarmUp(p) \/ Resume(p)
  BY <1>1, <1>2, CmdInitEffect, ZenonT(60) DEF Boot, WarmUp, Resume, Ends
<1>3. CASE Stop(p) \/ CoolDown(p) \/ Quit(p)
  BY <1>1, <1>3, CmdStopEffect, ZenonT(60) DEF Stop, CoolDown, Quit, Ends
<1>4. CASE Store(p) \/ GetVolatile(p)
  BY <1>1, <1>4, StoreVolatileEffect, ZenonT(60) DEF Store, GetVolatile, Steady
<1>5. CASE Guest(p)
  BY <1>1, <1>5, DataCommandEffect, ZenonT(60) DEF Guest, Steady
<1>6. CASE MigrateOut(p) \/ GetPermanent(p) \/ Cancel(p) \/ FallBack(p)
  BY <1>6, CancelOnly, ZenonT(60) DEF MigrateOut, GetPermanent, FallBack, ReturnPermanent,
      procVars, Steady, Frame
<1>7. CASE GetSavestate(p)
  BY <1>1, <1>7, ReturnSavestateEffect, ZenonT(60) DEF GetSavestate, Steady
<1>8. CASE FallBackLocked(p)
  BY <1>1, <1>8, LockStorageEffect, ZenonT(60) DEF FallBackLocked, Steady, SameParams
<1>9. CASE SetPermanent(p) \/ SetVolatile(p)
  BY <1>1, <1>9, SetStateblobEffect, ZenonT(60) DEF SetPermanent, SetVolatile, Steady
<1>10. QED
  BY <1>2, <1>3, <1>4, <1>5, <1>6, <1>7, <1>8, <1>9, ZenonT(60) DEF Asks

\* swtpm ends or resets a TPM that was started only with an orderly image in the
\* file, unless it is told not to send TPM2_Shutdown or the TPM refused one.
THEOREM OrderlyForAnyHosts == Spec => OrderlyStop
<1> DEFINE Stops(p) ==
             /\ mlp[p].tpm_running /\ ~mlp'[p].tpm_running
             /\ pc'[p].at = "down" => pc[p].at = "exit"
             /\ ~mlp[p].disable_auto_shutdown
             /\ mlp[p].lastCommand # "ShutdownRefused"
             /\ lib[p].ram # 0 /\ dir.lock = p /\ dir.permall = lib[p].perm
<1>1. ASSUME Safe, NEW p \in Procs, Stops(p), Ends(p) PROVE dir'.permall.orderly
  <2>1. ProcTypes /\ Place(p) /\ Holding(p) /\ Blobbed(p) /\ Filed(p)
    BY <1>1, ZenonT(60) DEF Safe, Inv, ProcInv, Local
  <2>2. vm[p] \in Running \ {"warm"} /\ OrderlyMemory(p)
    BY <1>1, OperatesEntitled, ZenonT(60) DEF Safe, Tidy
  <2>3. dir.permall # None /\ lib[p].cached.PERMANENT = None
    BY <2>1, <2>2, ZenonT(60) DEF Filed, Blobbed, Running, Sending
  <2>4. FileAfterShutdown(p) # None /\ FileAfterShutdown(p).orderly
    <3>1. FileAfterShutdown(p) # None
      BY <2>1, <2>3, FileKept, ZenonT(60)
    <3>2. CASE ShutsDown(p)
      <4>1. lib[p].perm \in Image
        BY <2>1 DEF ProcTypes, Memory
      <4>2. QED
        BY <3>1, <3>2, <4>1, ZenonT(60) DEF FileAfterShutdown, Image
    <3>3. CASE ~ShutsDown(p)
      <4>1. mlp[p].lastCommand = "Shutdown"
        BY <1>1, <3>3, ZenonT(60) DEF ShutsDown, IsShutdown
      <4>2. QED
        BY <1>1, <2>2, <3>1, <3>3, <4>1, ZenonT(60) DEF FileAfterShutdown, OrderlyMemory
    <3>4. QED
      BY <3>1, <3>2, <3>3, ZenonT(60)
  <2>5. CASE CMD_INIT(p)
    BY <2>1, <2>3, <2>4, <2>5, CmdInitEffect, ZenonT(60)
  <2>6. CASE CMD_STOP(p, "idle") \/ CMD_STOP(p, "exit")
    BY <2>1, <2>4, <2>6, CmdStopEffect, ZenonT(60)
  <2>7. CASE Exit(p) \/ Kill(p)
    <3>1. At(p, "exit")
      BY <1>1, <2>1, <2>7, ExitEffect, KillEffect, ZenonT(60) DEF GoneFrom, At
    <3>2. QED
      BY <2>1, <2>2, <3>1, ZenonT(60) DEF Place, Running, Sending
  <2>8. QED
    BY <1>1, <2>5, <2>6, <2>7, ZenonT(60) DEF Ends
<1>2. ASSUME Safe, NEW r \in Procs, Works(r) \/ Asks(r) \/ Killed(r) \/ Restart(r),
             NEW p \in Procs, Stops(p)
      PROVE  dir'.permall.orderly
  <2>1. ProcTypes
    BY <1>2, ZenonT(60) DEF Safe, Inv, ProcInv
  <2>2. Frame(r) /\ (Steady(r) \/ Ends(r))
    <3>1. CASE Works(r) \/ Asks(r)
      BY <1>2, <3>1, WorksSteady, AsksSteady, ZenonT(60)
    <3>2. CASE Killed(r)
      BY <2>1, <3>2, KillEffect, ZenonT(60) DEF Killed, Ends, GoneFrom
    <3>3. CASE Restart(r)
      <4>1. Frame(r) /\ At(r, "down")
        BY <2>1, <3>3, StartEffect, ZenonT(60) DEF Restart, Flag
      <4>2. ~mlp[r].tpm_running
        BY <1>2, <4>1, ZenonT(60) DEF Safe, Local, Place, Running, Sending
      <4>3. QED
        BY <4>1, <4>2, ZenonT(60) DEF Steady
    <3>4. QED
      BY <1>2, <3>1, <3>2, <3>3, ZenonT(60)
  <2>3. r = p
    BY <1>2, <2>2, ZenonT(60) DEF Frame, Others
  <2>4. QED
    BY <1>1, <1>2, <2>2, <2>3, ZenonT(60) DEF Steady
<1>3. Safe /\ [Next]_vars => [\A p \in Procs : Stops(p) => dir'.permall.orderly]_vars
  BY <1>2 DEF Next
<1>4. QED
  BY <1>3, Safety, PTL DEF Spec, OrderlyStop
=============================================================================
