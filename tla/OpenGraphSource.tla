--------------------------- MODULE OpenGraphSource ---------------------------
(***************************************************************************)
(* What conversion makes of the rows of a table (sources/opengraph): rows  *)
(* come in pages, each row may become a node, which is yielded at once,    *)
(* and its edges are collected into batches across the rows of a page.     *)
(* A row is [job, table, n]; its number decides what it becomes.           *)
(***************************************************************************)
EXTENDS Naturals, Sequences, SequencesExt

CONSTANTS PageSize,   \* READ_JSONL_PAGE_SIZE
          BatchSize,  \* batch_size of opengraph
          HasNode,    \* row numbers whose as_node is not None
          EdgeCount   \* row number -> how many edges

ASSUME SourceAssumption == /\ PageSize \in Nat \ {0}
                           /\ BatchSize \in Nat \ {0}
                           /\ EdgeCount \in [DOMAIN EdgeCount -> Nat]

EdgesOf(r) == [i \in 1..EdgeCount[r.n] |-> [row |-> r, edge |-> i]]
NodeOf(r) == IF r.n \in HasNode THEN <<[type |-> "node", content |-> <<r>>]>> ELSE <<>>
EdgeBatch(edges) == [type |-> "edge", content |-> edges]

\* What is yielded so far, and edge_parts.
Nothing == [out |-> <<>>, parts |-> <<>>]

AddEdge(acc, e) ==
  LET parts == Append(acc.parts, e)
  IN IF Len(parts) = BatchSize THEN [out |-> Append(acc.out, EdgeBatch(parts)), parts |-> <<>>]
                               ELSE [out |-> acc.out, parts |-> parts]

AddRow(acc, r) ==
  LET edges == EdgesOf(r)
      added[i \in 0..Len(edges)] ==
        IF i = 0 THEN [out |-> acc.out \o NodeOf(r), parts |-> acc.parts]
                 ELSE AddEdge(added[i - 1], edges[i])
  IN added[Len(edges)]

Flush(acc) == IF acc.parts = <<>> THEN acc.out ELSE Append(acc.out, EdgeBatch(acc.parts))

PageContent(rows) ==
  LET read[i \in 0..Len(rows)] == IF i = 0 THEN Nothing ELSE AddRow(read[i - 1], rows[i])
  IN Flush(read[Len(rows)])

PageOf(rows, p) ==
  SubSeq(rows, (p - 1) * PageSize + 1,
         IF p * PageSize < Len(rows) THEN p * PageSize ELSE Len(rows))

GraphContent(rows) ==
  FlattenSeq([p \in 1..((Len(rows) + PageSize - 1) \div PageSize) |-> PageContent(PageOf(rows, p))])

---------------------------------------------------------------------------
(* What conversion is to do, whatever the pages and batches. *)

Contents(graph, type) ==
  FlattenSeq([i \in DOMAIN graph |-> IF graph[i].type = type THEN graph[i].content ELSE <<>>])

IsGraphOf(graph, rows) ==
  /\ Contents(graph, "node") = FlattenSeq([i \in DOMAIN rows |-> IF rows[i].n \in HasNode THEN <<rows[i]>> ELSE <<>>])
  /\ Contents(graph, "edge") = FlattenSeq([i \in DOMAIN rows |-> EdgesOf(rows[i])])
  /\ \A i \in DOMAIN graph : Len(graph[i].content) \in 1..BatchSize

=============================================================================
