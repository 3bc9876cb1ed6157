---------------------------- MODULE MCQueueInmem ----------------------------
(* QueueInmem on a small instance: see MCQueueInmem.cfg. *)
EXTENDS QueueInmem

MCAttrs == {[vis |-> 0, ret |-> 0, max |-> 0, delay |-> 0],
            [vis |-> 2, ret |-> 0, max |-> 0, delay |-> 1]}

MCDefaultAttrs == [vis |-> 1, ret |-> 1, max |-> 1, delay |-> 0]
=============================================================================
