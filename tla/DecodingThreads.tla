--------------------------- MODULE DecodingThreads ---------------------------
(***************************************************************************)
(* The threads that share CryptoTool and LayoutCache: those of the         *)
(* executor, which parse log files and retry messages, and those of the    *)
(* HTTP server.                                                            *)
(***************************************************************************)
CONSTANTS
    Threads,
    None
==============================================================================
