----------------------------- MODULE MCMcpServer -----------------------------
(***************************************************************************)
(* TLC instance of McpServer.  Every kind of line in a size that is taken, *)
(* and requests of the sizes around one and two chunks.                    *)
(***************************************************************************)
EXTENDS McpServer

MCLines ==
    [kind : Kinds, size : {1}]
        \cup [kind : {"request"},
              size : {MaxMessage, MaxMessage + 1, MaxMessage + 2,
                      2 * MaxMessage + 2, 2 * MaxMessage + 3}]
=============================================================================
