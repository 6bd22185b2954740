---------------------- MODULE MCOpenGraphDestination ----------------------
(* Two load jobs for checking OpenGraphDestination with TLC: one that ends *)
(* with a part that is not full, one whose last part is full.              *)
EXTENDS OpenGraphDestination

CONSTANTS j1, j2
MCItemCount == (j1 :> 5) @@ (j2 :> 2)
=============================================================================
