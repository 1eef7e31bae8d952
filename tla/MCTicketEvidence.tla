-------------------------- MODULE MCTicketEvidence --------------------------
EXTENDS TicketEvidence

CONSTANTS a, b
=============================================================================
