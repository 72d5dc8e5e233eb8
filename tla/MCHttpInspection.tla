--------------------------- MODULE MCHttpInspection ---------------------------
\* An instance of HttpInspection for TLC.
EXTENDS HttpInspection
================================================================================
