-------------------------- MODULE MCStagingRepository --------------------------
\* Instance for TLC: every operation of StagingRepository, on both platforms.
EXTENDS StagingRepository
=============================================================================
