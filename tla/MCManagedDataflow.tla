------------------------- MODULE MCManagedDataflow -------------------------
EXTENDS ManagedDataflow

\* Rows with one, two and no edges.
MCEdgeCount == <<1, 2, 0>>

\* A host where runs are repeated, with a lookup, and one without either: what a
\* host with a lookup does where nothing is repeated, the first does as well.
MCHosts == {[windows |-> TRUE, preprocessor |-> TRUE], [windows |-> FALSE, preprocessor |-> FALSE]}

\* Tables of up to five such rows have pages that are full and pages that are
\* not, and batches that end within a row, between rows and with a page: what
\* is made of each is the graph of its rows.
TablesOf(n) == [1..n -> {[job |-> 1, table |-> Root, n |-> k] : k \in DOMAIN MCEdgeCount}]

ASSUME GraphsAreExact ==
  \A n \in 0..5 : \A rows \in TablesOf(n) : IsGraphOf(GraphContent(rows), rows)

=============================================================================
