------------------------------- MODULE MCStore -------------------------------
(* Store on a small volume, for TLC. *)
EXTENDS Store, TLC

\* Blocks, values and names are interchangeable: no definition orders them.
Symmetry == Permutations(Block) \cup Permutations(Value) \cup Permutations(File)
\* Blocks and bodies that no root, pin or pending header leads to are the same
\* to every later step, whatever they hold: states that differ only there count
\* as one.
Headed == {s \in Slot : SeenHdr[s] # Blank \/ hdr[s] # Blank}
RootsIn(h) == {h[s].root : s \in {r \in Slot : h[r] \notin {Blank, Clean}}}
Reachable == UNION {pins[s] : s \in Slot}
             \cup UNION {Refs(t) : t \in {tree} \cup RootsIn(hdr) \cup RootsIn(hdrC)}
View ==
    LET body == Headed \cup (IF phase \in {"bodied", "durable"} THEN {Spare} ELSE {})
    IN  <<kernel, hdr, hdrC,
          [s \in body |-> <<pay[s], payC[s]>>],
          [b \in Reachable |-> <<blk[b], blkC[b]>>]>>
=============================================================================
