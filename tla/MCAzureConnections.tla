---------------------- MODULE MCAzureConnections ----------------------
(* AzureConnections with interchangeable request threads.              *)
EXTENDS AzureConnections, TLC

Threads == Permutations(Requests)
=======================================================================
