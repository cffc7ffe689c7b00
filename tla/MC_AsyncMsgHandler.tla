------------------------- MODULE MC_AsyncMsgHandler -------------------------
(* AsyncMsgHandler for a limit of three busy handlers.                      *)
EXTENDS AsyncMsgHandler

CONSTANTS h1, h2, h3, h4

MCHandlers == {h1, h2, h3, h4}
=============================================================================
