------------------------------- MODULE MCNosql -------------------------------
(* Key-value tables, small instances. *)
EXTENDS Nosql, TLC

CONSTANTS c1, c2

\* Which request is which client's does not matter.
MCNosqlSymmetry == Permutations(Clients)

\* States that differ only in what no later step and no property reads are
\* taken as one: how a tag request came by the tags it wants, what the
\* frontend knew of an item once the backend has read the schema, and the
\* histories of a step that is over and of backends that keep no promise.
Ahead(r) ==
    CASE r.op = "tag" /\ r.at # "front" -> [r EXCEPT !.edit = "set"]
      [] r.op = "put" /\ r.at = "write" -> [r EXCEPT !.shape = None]
      [] OTHER -> r
MCNosqlView ==
    <<backend, meta, native, items, life, [c \in Clients |-> Ahead(req[c])], alone, mixed,
      IF backend \in {"inmem", "etcd", "gcp"} THEN acked ELSE {}>>
==============================================================================
