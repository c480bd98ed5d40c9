------------------------------- MODULE MCFrontEnd -------------------------------
\* Instance for TLC: the three pages, each against every order of a few changes.
EXTENDS FrontEnd
=============================================================================
