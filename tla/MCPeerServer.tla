--------------------------- MODULE MCPeerServer ---------------------------
(* Two connections, dialled or accepted, and two messages on them: a peer    *)
(* greets and sends a chain while another connection is made, or is refused  *)
(* while another is served.  The chains are blocks 0 and 1, and a fork at    *)
(* the same height that is sent the wrong way round.                         *)
EXTENDS PeerServer, TLC

CONSTANTS genesis, child, fork

MCConns == 0 .. 1
MCNumber == genesis :> 0 @@ child :> 1 @@ fork :> 1
MCMessages ==
  {Msg("greeting", 1), Msg("greeting", -1), Msg("ping", 0), Msg("pulse", Garbled), Msg("empty", 0),
   Msg("ibd", <<genesis, child>>), Msg("ibd", <<fork, genesis>>), Msg("ibd", Garbled)}
=============================================================================
