--------------------------- MODULE MCConversation ---------------------------
(* Conversation with three slots and the kinds of utterances that differ   *)
(* for the code; the texts they stand for are in the comments.             *)
EXTENDS Conversation

Says(intent, named, time, tokens) ==
    [intent |-> intent, named |-> named, time |-> time, tokens |-> tokens]

MCUtterance ==
    { Says("booking", FALSE, None, {"yes"}),     \* "Yes, please."
      Says("booking", TRUE, 1, {}),             \* "Ann here, Monday at one?"
      Says("booking", FALSE, 3, {}),            \* "No, Monday at three."
      Says("booking", FALSE, 3, {"ok"}),        \* "No, book Monday at three."
      Says("cancel", FALSE, None, {}),          \* "I need to cancel."
      Says("faq", FALSE, None, {}),             \* "Is there parking?"
      Says("escalate", FALSE, None, {}),        \* "Get me a human."
      Says("smalltalk", FALSE, None, {}),       \* "Nice day."
      Says("wrong_number", FALSE, None, {}),
      Says("goodbye", FALSE, None, {}) }
=============================================================================
