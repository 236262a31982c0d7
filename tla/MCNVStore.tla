----------------------------- MODULE MCNVStore -----------------------------
(***************************************************************************)
(* Instances of NVStore for TLC: the public areas an index is defined      *)
(* with.  The other constants are in the configurations.                   *)
(***************************************************************************)
EXTENDS NVStore

Plain == [counter |-> FALSE, orderly |-> FALSE, platformCreate |-> FALSE,
          writeDefine |-> FALSE, stClear |-> FALSE, clearStClear |-> FALSE,
          globalLock |-> FALSE]

PlatformOrderlyCounter == [Plain EXCEPT !.counter = TRUE, !.orderly = TRUE,
                                        !.platformCreate = TRUE]
OwnerOrderlyCounter == [PlatformOrderlyCounter EXCEPT !.platformCreate = FALSE]
OwnerCounter == [Plain EXCEPT !.counter = TRUE, !.writeDefine = TRUE, !.globalLock = TRUE]
OrderlyData == [Plain EXCEPT !.orderly = TRUE, !.stClear = TRUE]
ClearedData == [Plain EXCEPT !.clearStClear = TRUE, !.globalLock = TRUE]

MixedTemplates == {PlatformOrderlyCounter, OwnerCounter, OrderlyData, ClearedData}
CounterTemplates == {OwnerCounter, OwnerOrderlyCounter}

=============================================================================
