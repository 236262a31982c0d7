--------------------------- MODULE MCObjectStore ---------------------------
(***************************************************************************)
(* Instances of ObjectStore for TLC, each with the hosts it is checked     *)
(* with.  The keys are named in the configurations.                        *)
(***************************************************************************)
EXTENDS ObjectStore

\* A host that loads, saves and persists keys while hierarchies are disabled
\* and renewed, and one that runs every kind of sequence across a power cycle.
KeyHost ==
    [issues |-> {"Load", "CreatePrimary", "LoadExternal", "ContextSave",
                 "ContextLoad", "EvictControl", "HierarchyControl", "Clear",
                 "ChangePPS", "ChangeEPS"},
     keys |-> ParentKeys, hierarchies |-> {"ENDORSEMENT", "PLATFORM"}, boots |-> 0]

SequenceHost ==
    [issues |-> {"CreatePrimary", "FlushContext", "EvictControl", "HMAC_Start",
                 "HashSequenceStart", "SequenceUpdate", "SequenceComplete",
                 "EventSequenceComplete", "SignSequenceStart",
                 "VerifySequenceStart", "SignSequenceComplete",
                 "VerifySequenceComplete"},
     keys |-> MlDsaKeys \cup HmacKeys, hierarchies |-> {"OWNER"}, boots |-> 1]

MCHosts == {KeyHost, SequenceHost}

\* A host that flushes a key between the start and the end of a signature.
SignerHost ==
    {[issues |-> {"CreatePrimary", "FlushContext", "SignSequenceStart",
                  "SignSequenceComplete"},
      keys |-> MlDsaKeys, hierarchies |-> {"OWNER"}, boots |-> 0]}

ResponseHost ==
    {[issues |-> {"CreatePrimary", "SignSequenceStart", "SignSequenceComplete"},
      keys |-> MlDsaKeys, hierarchies |-> {"OWNER"}, boots |-> 1]}

EvictHost ==
    {[issues |-> {"CreatePrimary", "VerifySequenceStart", "EvictControl"},
      keys |-> MlDsaKeys, hierarchies |-> {"OWNER"}, boots |-> 0]}

\* A host that clears the TPM after a TPM Restart.
ClearHost ==
    {[issues |-> {"CreatePrimary", "ContextSave", "Clear"},
      keys |-> ParentKeys, hierarchies |-> {"OWNER", "PLATFORM"}, boots |-> 2]}

=============================================================================
