----------------------------- MODULE MCChatTurns -----------------------------
(* Small instances of ChatTurns. *)
EXTENDS ChatTurns

=============================================================================
