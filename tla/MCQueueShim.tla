----------------------------- MODULE MCQueueShim -----------------------------
(* QueueShim on a small instance: see MCQueueShim.cfg. *)
EXTENDS QueueShim

MCAttrs == {[vis |-> 0, ret |-> 0, max |-> 0, delay |-> 0],
            [vis |-> 1, ret |-> 0, max |-> 2, delay |-> 0]}

MCDefaultAttrs == [vis |-> 2, ret |-> 1, max |-> 1, delay |-> 0]

MCTagSets == {{}, {"k1"}}

MCBodies == {<<"ok">>, <<"ok", "huge">>, <<"garbled">>}
=============================================================================
