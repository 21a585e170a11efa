------------------------- MODULE MCTelegramApprover -------------------------
(* The approver with pages of two updates.  The operator writes a decision *)
(* to the right chat, a decision to another one and a picture; a stranger  *)
(* writes a decision to the operator's chat.                               *)
EXTENDS TelegramApprover

CONSTANTS operators, elsewhere, operator, stranger

MCChats == {operators, elsewhere}
MCUsers == {operator, stranger}
MCAllowlist == {operator}
MCMessages ==
    { [ chat |-> operators, user |-> operator, text |-> "approve" ],
      [ chat |-> elsewhere, user |-> operator, text |-> "approve" ],
      [ chat |-> operators, user |-> operator, text |-> "media" ],
      [ chat |-> operators, user |-> stranger, text |-> "reject" ] }
=============================================================================
