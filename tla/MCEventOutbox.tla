----------------------------- MODULE MCEventOutbox -----------------------------
\* Model values for TLC.
EXTENDS EventOutbox

CONSTANTS a, poison, service, operator
================================================================================
