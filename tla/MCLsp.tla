------------------------------- MODULE MCLsp -------------------------------
(* The language server for model checking: all documents in one package.   *)
EXTENDS LspServer

OnePackage == [d \in Uri |-> "package"]
=============================================================================
