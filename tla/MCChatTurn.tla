------------------------------ MODULE MCChatTurn ------------------------------
(* Small instances of ChatTurn for TLC. *)
EXTENDS ChatTurn

CONSTANTS diagram, sketch, topic

\* Two drawings at once, and a call of route with a drawing.
MCBatches == {<<diagram, sketch>>, <<topic, diagram>>}
=============================================================================
