--------------------------- MODULE SessionReceipt ---------------------------
(***************************************************************************)
(* What ending a consultation promises its callers, with no invocations,   *)
(* leases, tokens or transactions: a session ends once, at that moment its *)
(* memories are stored once each, and whoever is answered afterwards is    *)
(* given the list of exactly those memories.  SessionExtraction implements *)
(* it (SessionRefinement).                                                 *)
(***************************************************************************)
EXTENDS Naturals

CONSTANTS Sessions, Messages

VARIABLES
    state,   \* "open", "ended" or "gone"
    saved,   \* how many memories are stored of each draft
    shown    \* the receipts that callers were given

receiptVars == <<state, saved, shown>>

SavedOnce(D) == [m \in Messages |-> IF m \in D THEN 1 ELSE 0]

ReceiptInit ==
    /\ state = [s \in Sessions |-> "open"]
    /\ saved = [s \in Sessions |-> SavedOnce({})]
    /\ shown = [s \in Sessions |-> {}]

EndSession(s) ==
    /\ state[s] = "open"
    /\ state' = [state EXCEPT ![s] = "ended"]
    /\ \E D \in SUBSET Messages : saved' = [saved EXCEPT ![s] = SavedOnce(D)]
    /\ UNCHANGED shown

ShowReceipt(s) ==
    /\ state[s] = "ended"
    /\ \E D \in SUBSET Messages :
          /\ saved[s] = SavedOnce(D)
          /\ shown' = [shown EXCEPT ![s] = @ \union {D}]
    /\ UNCHANGED <<state, saved>>

EraseWorkspace ==
    /\ state' = [s \in Sessions |-> "gone"]
    /\ saved' = [s \in Sessions |-> SavedOnce({})]
    /\ shown' = [s \in Sessions |-> {}]

ReceiptNext ==
    \/ \E s \in Sessions : EndSession(s) \/ ShowReceipt(s)
    \/ EraseWorkspace

ReceiptSpec == ReceiptInit /\ [][ReceiptNext]_receiptVars
=============================================================================
