----------------------------- MODULE MCToolLoop -----------------------------
(* ToolLoop with a model that makes the pairs of calls that may get in each *)
(* other's way, and some triples.                                           *)
EXTENDS ToolLoop

CONSTANTS p, q

Call(kind, path) == [kind |-> kind, path |-> path, broken |-> FALSE]
Lookup == Call("lookup", p)
Broken == [Lookup EXCEPT !.broken = TRUE]

Some == {Call(kind, p) : kind \in {"reference", "lookup", "read", "edit", "ask", "spawn"}}

Lists ==
  {<<>>, <<Call("confirm", p), Lookup>>, <<Call("ask", p), Call("confirm", p)>>,
   <<Call("read", p), Call("edit", q)>>,
   <<Call("reference", p), Lookup, Call("reference", q)>>,
   <<Call("reference", p), Lookup, Call("reference", p)>>,
   <<Lookup, Call("ask", p), Lookup>>,
   <<Broken, Call("reference", p), Lookup>>}
    \union {<<c, d>> : c \in Some, d \in Some}

MCReplies ==
  [text : {FALSE}, calls : Lists] \union [text : {TRUE}, calls : {<<>>, <<Call("edit", p)>>}]

MCModes == {[approval |-> TRUE, callback |-> TRUE, soft |-> FALSE],
            [approval |-> TRUE, callback |-> FALSE, soft |-> FALSE],
            [approval |-> FALSE, callback |-> TRUE, soft |-> TRUE]}
=============================================================================
