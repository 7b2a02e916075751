--------------------------- MODULE MCWalRecovery ---------------------------
EXTENDS WalRecovery
=============================================================================
