------------------------------- MODULE MCOutbox -------------------------------
(* Batches of two from three events: a flusher leaves an event for the     *)
(* next batch, and two flushers can fetch overlapping batches.             *)
EXTENDS Outbox

=============================================================================
