-------------------------------- MODULE MCNet ----------------------------------
EXTENDS Net
=============================================================================
