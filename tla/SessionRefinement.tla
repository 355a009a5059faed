------------------------- MODULE SessionRefinement -------------------------
(***************************************************************************)
(* SessionExtraction implements SessionReceipt: the state of a session is  *)
(* its conversation row, what is saved is what is in the memories table,   *)
(* and what is shown is what end_session returned.                         *)
(***************************************************************************)
EXTENDS SessionExtraction

Receipts == INSTANCE SessionReceipt
                WITH state <- conv, saved <- copies, shown <- served

(* Every behaviour of the leases, retries and failures of end_session is a *)
(* behaviour of the promise: sessions end once, memories are stored once,  *)
(* every answer lists them.                                                *)
ImplementsReceipts == Receipts!ReceiptSpec
=============================================================================
