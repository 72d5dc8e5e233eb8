---------------------------- MODULE MCClientViews ----------------------------
\* An instance of ClientViews for TLC.
EXTENDS ClientViews
==============================================================================
