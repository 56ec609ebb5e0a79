---------------------------- MODULE RaftPromise -----------------------------
(* RaftCell as an implementation of AgreedLog. *)
EXTENDS RaftCell

\* The log of the cell is the committed log of a node that no other is ahead of;
\* on_commit has been called with what is committed on a node.
Ahead == CHOOSE i \in Node : \A j \in Node : commitIndex[j] <= commitIndex[i]
Promise == INSTANCE AgreedLog WITH
  Replica <- Node, Value <- Entry, agreed <- Committed(Ahead),
  handed <- [i \in Node |-> Committed(i)]

\* The cell keeps its promise to the state machines above it: no election, late
\* AppendEntries or truncation in handle_append_entries takes back or rewrites
\* what on_commit was called with on any node, and all nodes are handed the
\* same commands in the same order.
ImplementsAgreedLog == Promise!LogSpec
=============================================================================
