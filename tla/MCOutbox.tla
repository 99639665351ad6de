------------------------------ MODULE MCOutbox ------------------------------
EXTENDS Outbox

CONSTANTS j1, j2, j3, d1, d2
=============================================================================
