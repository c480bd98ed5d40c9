---------------------------- MODULE MCUpdateRuntime ----------------------------
\* Instance for TLC: the updater over three releases, with up to MaxActivities
\* tasks and retry timers at once.
EXTENDS UpdateRuntime
=============================================================================
