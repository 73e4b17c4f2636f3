------------------------ MODULE MCDocumentIngestion ------------------------
(* Model-checking instance of DocumentIngestion: document.indexed has one   *)
(* handler, the workflow document_indexed_example.                          *)
EXTENDS DocumentIngestion

CONSTANT workflow

MCRegistered == [r \in Requests |-> <<workflow>>]

=============================================================================
