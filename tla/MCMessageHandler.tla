--------------------------- MODULE MCMessageHandler ---------------------------
(***************************************************************************)
(* The instance of MessageHandler: the node and one peer take turns as     *)
(* proposers over two rounds; a third address is not a validator.          *)
(***************************************************************************)
EXTENDS MessageHandler

CONSTANTS self, peer, stranger

Turns == [h \in Heights |-> [r \in Rounds |-> IF (h + r) % 2 = 0 THEN self ELSE peer]]
=============================================================================
