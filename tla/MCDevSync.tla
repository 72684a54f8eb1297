----------------------------- MODULE MCDevSync -----------------------------
(* Two devices that exchange batches, or also single events from the outbox. *)
EXTENDS DevSync

\* Batches alone: no time passes.  With the outbox: one device records.
MCNext ==
    /\ Next
    /\ IF viaOutbox THEN ds'[2].seq = 0
       ELSE now' = 0 /\ \A i \in Devices : \A k \in DOMAIN ds'[i].outbox : ds'[i].outbox[k].expires = OutboxTTL

MCSpec == Init /\ [][MCNext]_vars
=============================================================================
