---------------------------- MODULE MCMountBinding ----------------------------
EXTENDS MountBinding, TLC
==============================================================================
