----------------------------- MODULE MCLockout -----------------------------
\* Instances of Lockout for TLC.
EXTENDS Lockout

\* The parameters of a freshly manufactured TPM.
MCPreInstall == [maxTries |-> 2, recoveryTime |-> 2, lockoutRecovery |-> 1]

\* DA disabled, and lockoutAuth that comes back at the next startup.
Lax == [maxTries |-> 2, recoveryTime |-> 0, lockoutRecovery |-> 0]

MCParameters == {MCPreInstall, Lax}
=============================================================================
