----------------------------- MODULE MCInformer -----------------------------
\* Informer with model values for TLC.
EXTENDS Informer, TLC

CONSTANTS h1, h2

\* h1 goes first on adds and updates, h2 on deletes.
MCPriority == (h1 :> 0) @@ (h2 :> 1)

OnePriority == (h1 :> 0)
=============================================================================
