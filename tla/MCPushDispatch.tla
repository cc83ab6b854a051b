--------------------------- MODULE MCPushDispatch ---------------------------
(***************************************************************************)
(* An instance of PushDispatch for TLC: two deltas of a picoclaw session,  *)
(* a final message that has the second one's seq (PicoHistory may take seq *)
(* back) and so its id, an event that ends a message without text.         *)
(***************************************************************************)
EXTENDS PushDispatch, TLC

MCEvents == {"deltaA", "deltaB", "final", "end"}

Make(seq, type, text, message) ==
  [adapter |-> "picoclaw", session |-> "s", seq |-> seq, type |-> type,
   role |-> "assistant", done |-> type = "message.done", text |-> text, message |-> message]

MCEvent ==
  [e \in MCEvents |->
     CASE e = "deltaA" -> Make(1, "message.delta", TRUE, "A")
       [] e = "deltaB" -> Make(2, "message.delta", TRUE, NoMessage)
       [] e = "final"  -> Make(2, "message.done", TRUE, NoMessage)
       [] e = "end"    -> Make(3, "message.done", FALSE, NoMessage)]
=============================================================================
