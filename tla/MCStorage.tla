------------------------------ MODULE MCStorage ------------------------------
(* Object storage, small instances. *)
EXTENDS Storage

CONSTANTS u1, u2, c1, c2, plain, html

\* The parts of u1 need an intermediate object, those of u2 need some that
\* are put together from others in turn.
McLists(u) == IF u = u1 THEN {<<1>>, <<1, 2, 3>>} ELSE {<<1, 2, 3, 4, 5>>}

\* Which request is which client's does not matter.
MCStorageSymmetry == Permutations(Clients)

\* States that differ only in what no later step and no property reads are
\* taken as one: the list of a Complete that has only objects to delete, and
\* who is alone, unless it is an abort that has not failed yet.
Quiet(c) == req[c].op = "gcsAbort" /\ alone = c /\ ~req[c].failed
Ahead(c) ==
    LET r == req[c] IN
    CASE r.op = "gcsCleanup" -> <<r.op, r.upload, r.batch>>
      [] r.op = "gcsAbort"   -> <<r.op, r.upload, r.todo, Quiet(c)>>
      [] OTHER               -> r
MCStorageView == <<backend, frontend, store, made, [c \in Clients |-> Ahead(c)]>>

\* No step depends on which key is which, and the one upload of the run is
\* made once: its key may be called 1.
MCStorageNext == StorageNext /\ \A u \in Uploads : made'[u] # None => made'[u].key = 1
MCStorageSpec == StorageInit /\ [][MCStorageNext]_storageVars
==============================================================================
