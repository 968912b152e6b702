------------------------------ MODULE MCOutbox ------------------------------
EXTENDS Outbox

=============================================================================
