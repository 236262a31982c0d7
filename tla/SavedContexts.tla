--------------------------- MODULE SavedContexts ---------------------------
(***************************************************************************)
(* What the session context manager promises to a resource manager that    *)
(* swaps sessions out and in.  A session is loaded, or saved under the one *)
(* contextID with which it can be loaded again, or not there.  No          *)
(* contextID is given out a second time before a TPM Reset.                *)
(*                                                                         *)
(* The saved sessions survive a loss of power when they were recorded by   *)
(* Shutdown(STATE) and none was saved or loaded since: then all of them    *)
(* come back as they were recorded, under their contextIDs, and numbering  *)
(* goes on where it was.  Otherwise all are gone.  So a context that was   *)
(* loaded is never good again.                                             *)
(*                                                                         *)
(* Truncated numbers, slots and the oldest session have no place here.     *)
(***************************************************************************)
EXTENDS Integers

CONSTANTS Handles,  \* the sessions
          Last      \* the contextID that is never given out: numbers are used up

VARIABLES loaded,   \* the sessions that are loaded
          id,       \* the contextID of every saved session, 0 for the others
          next,     \* the next contextID
          record,   \* {what Shutdown(STATE) recorded of id}, {} when it is void
          cycle     \* the TPM Resets so far

vars == <<loaded, id, next, record, cycle>>

NoIds == [h \in Handles |-> 0]

Init == /\ loaded = {} /\ id = NoIds
        /\ next \in 1 .. Last
        /\ record = {} /\ cycle = 0

Create(h) == /\ h \notin loaded /\ id[h] = 0
             /\ loaded' = loaded \cup {h}
             /\ UNCHANGED <<id, next, record, cycle>>

Save(h) == /\ h \in loaded /\ next < Last
           /\ loaded' = loaded \ {h}
           /\ id' = [id EXCEPT ![h] = next]
           /\ next' \in next + 1 .. Last
           /\ record' = {}
           /\ UNCHANGED cycle

Load(h) == /\ id[h] # 0
           /\ loaded' = loaded \cup {h}
           /\ id' = [id EXCEPT ![h] = 0]
           /\ record' = {}
           /\ UNCHANGED <<next, cycle>>

\* A session is flushed, by itself or at the end of a command that may also
\* void the record.
End(h) == /\ h \in loaded \/ id[h] # 0
          /\ loaded' = loaded \ {h}
          /\ id' = [id EXCEPT ![h] = 0]
          /\ record' \in {record, {}}
          /\ UNCHANGED <<next, cycle>>

Record == record' = {id} /\ UNCHANGED <<loaded, id, next, cycle>>

Forget == record' = {} /\ UNCHANGED <<loaded, id, next, cycle>>

\* Power is lost, and found again: TPM Resume or TPM Restart.
Resume == /\ record # {}
          /\ loaded' = {} /\ id' \in record /\ record' = {}
          /\ UNCHANGED <<next, cycle>>

\* TPM Reset.
Reset == /\ record = {}
         /\ cycle' = cycle + 1
         /\ loaded' = {} /\ id' = NoIds
         /\ next' \in 1 .. Last
         /\ UNCHANGED record

\* All numbers of a reset cycle were given out: no more is promised in it.
UsedUp == next = Last /\ UNCHANGED <<next, cycle>>

Next == \/ Record \/ Forget \/ Resume \/ Reset
        \/ \E h \in Handles : Create(h) \/ Save(h) \/ Load(h) \/ End(h)
        \/ UsedUp

Spec == Init /\ [][Next]_vars
=============================================================================
