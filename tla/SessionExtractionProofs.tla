---------------------- MODULE SessionExtractionProofs ----------------------
(***************************************************************************)
(* Proofs about SessionExtraction and its refinement of SessionReceipt,    *)
(* for any number of sessions, messages and invocations.                   *)
(***************************************************************************)
EXTENDS SessionRefinement, TLAPS

USE SessionsAssumption, TokensAssumption, KeysAssumption, LeaseAssumption,
    TimeAssumption, FaultsAssumption

(* What Once builds is a function to the naturals.                         *)
LEMMA OnceType == \A D \in SUBSET Messages : Once(D) \in [Messages -> Nat]
BY DEF Once

(* The initial states are well typed.                                      *)
LEMMA InitType == Init => TypeOK
BY OnceType DEF Init, TypeOK

(* A lease that is taken late is shorter, but still representable.         *)
LEMMA LeaseTimeType ==
    ASSUME TypeOK, NEW w \in Workers
    PROVE  LeaseFrom(w) \in (-MaxLag)..Lease
BY DEF TypeOK, LeaseFrom

(* A step of an invocation keeps every variable in its set.                *)
LEMMA StepType ==
    ASSUME TypeOK, NEW w \in Workers, Step(w)
    PROVE  TypeOK'
<1> USE DEF TypeOK, rowVars, dataVars, Leave, GoTo
<1>1. CASE NotFound(w)
    BY <1>1 DEF NotFound
<1>2. CASE Replay(w)
    BY <1>2 DEF Replay
<1>3. CASE Refuse(w)
    BY <1>3 DEF Refuse
<1>4. CASE TakeOver(w)
    BY <1>4, LeaseTimeType DEF TakeOver, TakeLease
<1>5. CASE SeeNoRow(w)
    BY <1>5 DEF SeeNoRow
<1>6. CASE Create(w)
    BY <1>6, LeaseTimeType DEF Create, TakeLease
<1>7. CASE ClaimFails(w)
    BY <1>7 DEF ClaimFails
<1>8. CASE Extract(w)
    BY <1>8 DEF Extract
<1>9. CASE ExtractFails(w)
    BY <1>9 DEF ExtractFails
<1>10. CASE MarkFailed(w)
  <2>1. 0 \in (-MaxLag)..Lease
    OBVIOUS
  <2>2. CASE OwnsLease(w)
    <3>1. sess[w] \in Sessions
      BY <1>10 DEF MarkFailed
    <3>2. /\ status' = [status EXCEPT ![sess[w]] = "failed"]
          /\ owner' = [owner EXCEPT ![sess[w]] = NoToken]
          /\ left' = [left EXCEPT ![sess[w]] = 0]
      BY <1>10, <2>2 DEF MarkFailed
    <3>3. /\ status' \in [Sessions -> {"none", "processing", "failed", "completed"}]
          /\ owner' \in [Sessions -> Tokens \union {NoToken}]
          /\ left' \in [Sessions -> (-MaxLag)..Lease]
      BY <2>1, <3>1, <3>2
    <3> QED
      BY <1>10, <3>3 DEF MarkFailed
  <2>3. CASE ~OwnsLease(w)
    BY <1>10, <2>3 DEF MarkFailed
  <2> QED
    BY <2>2, <2>3
<1>11. CASE Persist(w)
    BY <1>11 DEF Persist
<1>12. CASE LeaseLost(w)
    BY <1>12 DEF LeaseLost
<1>13. CASE Commit(w)
    BY OnceType, <1>13 DEF Commit
<1>14. CASE PersistFails(w)
    BY <1>14 DEF PersistFails
<1>15. CASE StoreChunks(w)
  <2>1. CASE conv[sess[w]] = "gone"
    BY <1>15, <2>1 DEF StoreChunks
  <2>2. CASE conv[sess[w]] # "gone"
    <3>1. sess[w] \in Sessions
      BY <1>15 DEF StoreChunks
    <3>2. PICK part \in SUBSET transcript[w] :
            chunks' = [chunks EXCEPT ![sess[w]] = @ \union part]
      BY <1>15, <2>2 DEF StoreChunks
    <3>3. chunks' \in [Sessions -> SUBSET Messages]
      BY <3>1, <3>2
    <3>4. served' = [served EXCEPT ![sess[w]] = @ \union {drafts[w]}]
      BY <1>15, <2>2 DEF StoreChunks
    <3>5. served' \in [Sessions -> SUBSET SUBSET Messages]
      BY <3>1, <3>4
    <3> QED
      BY <1>15, <3>3, <3>5 DEF StoreChunks
  <2> QED
    BY <2>1, <2>2
<1> QED
    BY <1>1, <1>2, <1>3, <1>4, <1>5, <1>6, <1>7, <1>8, <1>9, <1>10, <1>11, <1>12, <1>13, <1>14, <1>15 DEF Step

(* Every step keeps every variable in its set.                             *)
LEMMA NextType == TypeOK /\ [Next]_vars => TypeOK'
<1> SUFFICES ASSUME TypeOK, [Next]_vars
             PROVE  TypeOK'
    OBVIOUS
<1> USE DEF TypeOK, rowVars, dataVars, workerVars
<1>1. ASSUME NEW w \in Workers, NEW s \in Sessions, Request(w, s)
      PROVE  TypeOK'
    BY <1>1 DEF Request
<1>2. ASSUME NEW w \in Workers, Step(w)
      PROVE  TypeOK'
    BY <1>2, StepType
<1>3. ASSUME NEW w \in Workers, Die(w)
      PROVE  TypeOK'
    BY <1>3 DEF Die, Leave
<1>4. ASSUME NEW s \in Sessions, NEW m \in Messages, CheckOpen(s, m)
      PROVE  TypeOK'
    BY <1>4 DEF CheckOpen
<1>5. ASSUME NEW s \in Sessions, NEW m \in Messages, PostMessage(s, m)
      PROVE  TypeOK'
    BY <1>5 DEF PostMessage
<1>6. CASE Erase
    BY <1>6, OnceType DEF Erase
<1>7. CASE Tick
    BY <1>7 DEF Tick
<1>8. CASE UNCHANGED vars
    BY <1>8 DEF vars
<1> QED
    BY <1>1, <1>2, <1>3, <1>4, <1>5, <1>6, <1>7, <1>8 DEF Next

(* SessionExtraction is type correct for every value of its constants.     *)
THEOREM TypeCorrect == Spec => []TypeOK
BY InitType, NextType, PTL DEF Spec

-----------------------------------------------------------------------------
(* The inductive invariant.                                                *)

(* It holds initially: no session has ended and no invocation is alive.    *)
LEMMA InitInv == Init => IInv
<1> SUFFICES ASSUME Init
             PROVE  IInv
    OBVIOUS
<1>1. TypeOK
    BY InitType
<1>2. TokensUnique /\ FencedWriter /\ AnswersReceipt
    BY DEF Init, TokensUnique, FencedWriter, AnswersReceipt
<1>3. NoOrphanRow /\ EndedIffCompleted
    BY DEF Init, NoOrphanRow, EndedIffCompleted
<1>4. ReceiptIsWhatWasWritten /\ CallersAgree
    BY DEF Init, ReceiptIsWhatWasWritten, CallersAgree
<1> QED
    BY <1>1, <1>2, <1>3, <1>4 DEF IInv

(* A live invocation has a session and a token.                            *)
LEMMA LiveInvocation ==
    ASSUME IInv, NEW w \in Workers, pc[w] # "idle"
    PROVE  sess[w] \in Sessions /\ token[w] \in Tokens
BY DEF IInv, TypeOK, TokensUnique

(* An invocation that only ends leaves the tables as they were.            *)
LEMMA LeaveInv ==
    ASSUME IInv, TypeOK', NEW w \in Workers, Leave(w),
           UNCHANGED <<rowVars, dataVars>>
    PROVE  IInv'
<1> USE DEF IInv, TypeOK, Leave, rowVars, dataVars
<1>1. TokensUnique'
    BY DEF TokensUnique
<1>2. NoOrphanRow' /\ EndedIffCompleted'
    BY DEF NoOrphanRow, EndedIffCompleted
<1>3. FencedWriter'
    BY DEF FencedWriter, OwnsLease
<1>4. AnswersReceipt'
    BY DEF AnswersReceipt
<1>5. ReceiptIsWhatWasWritten' /\ CallersAgree'
    BY DEF ReceiptIsWhatWasWritten, CallersAgree
<1> QED
    BY <1>1, <1>2, <1>3, <1>4, <1>5

(* An invocation may proceed without writing, and to the second            *)
(* transaction if it owns the lease of a session that is not ended.        *)
LEMMA GoToInv ==
    ASSUME IInv, TypeOK', NEW w \in Workers, NEW label, GoTo(w, label),
           pc[w] # "idle", label \notin {"idle", "chunking"},
           label = "persisting" => OwnsLease(w) /\ conv[sess[w]] = "open",
           UNCHANGED <<rowVars, dataVars>>
    PROVE  IInv'
<1> USE DEF IInv, TypeOK, GoTo, rowVars, dataVars
<1>1. TokensUnique'
    BY DEF TokensUnique
<1>2. NoOrphanRow' /\ EndedIffCompleted'
    BY DEF NoOrphanRow, EndedIffCompleted
<1>3. FencedWriter'
    BY DEF FencedWriter, OwnsLease
<1>4. AnswersReceipt'
    BY DEF AnswersReceipt
<1>5. ReceiptIsWhatWasWritten' /\ CallersAgree'
    BY DEF ReceiptIsWhatWasWritten, CallersAgree
<1> QED
    BY <1>1, <1>2, <1>3, <1>4, <1>5

(* Taking the lease of a row that is not completed and that no transaction *)
(* has locked disturbs neither a writer nor a receipt.                     *)
LEMMA TakeLeaseInv ==
    ASSUME IInv, TypeOK', NEW w \in Workers, TakeLease(w, sess[w]),
           pc[w] # "idle", Unlocked(sess[w]),
           status[sess[w]] # "completed", conv[sess[w]] # "gone",
           UNCHANGED <<receipt, sess, token, ikey, age, drafts, dataVars>>
    PROVE  IInv'
<1> USE LiveInvocation DEF TypeOK, TakeLease, dataVars
<1>1. TokensUnique'
    BY DEF IInv, TokensUnique
<1>2. NoOrphanRow' /\ EndedIffCompleted'
    BY DEF IInv, NoOrphanRow, EndedIffCompleted
<1>3. FencedWriter'
    BY DEF IInv, FencedWriter, OwnsLease, Unlocked
<1>4. AnswersReceipt'
    BY DEF IInv, AnswersReceipt
<1>5. ReceiptIsWhatWasWritten'
    BY DEF IInv, ReceiptIsWhatWasWritten
<1>6. CallersAgree'
    BY DEF IInv, CallersAgree
<1> QED
    BY <1>1, <1>2, <1>3, <1>4, <1>5, <1>6 DEF IInv

(* The commit of the second transaction makes the drafts the receipt, and  *)
(* no other invocation holds the token that it is fenced by.               *)
LEMMA CommitInv ==
    ASSUME IInv, TypeOK', NEW w \in Workers, Commit(w)
    PROVE  IInv'
<1> USE DEF TypeOK, GoTo
<1>0. /\ pc[w] = "persisting"
      /\ sess[w] \in Sessions
      /\ token[w] \in Tokens
      /\ status[sess[w]] = "processing"
      /\ conv[sess[w]] = "open"
      /\ copies[sess[w]] = Once({})
    BY LiveInvocation
    DEF Commit, OwnsLease, IInv, FencedWriter, ReceiptIsWhatWasWritten
<1>1. TokensUnique'
    BY <1>0 DEF Commit, IInv, TokensUnique
<1>2. NoOrphanRow' /\ EndedIffCompleted'
    BY <1>0 DEF Commit, IInv, NoOrphanRow, EndedIffCompleted
<1>3. FencedWriter'
  <2> SUFFICES ASSUME NEW v \in Workers, pc'[v] = "persisting"
               PROVE  OwnsLease(v)' /\ conv'[sess'[v]] = "open"
    BY DEF FencedWriter
  <2>1. v # w /\ pc[v] = "persisting"
    BY <1>0 DEF Commit, IInv
  <2>2. OwnsLease(v) /\ conv[sess[v]] = "open" /\ token[v] \in Tokens
    BY <2>1, LiveInvocation DEF IInv, FencedWriter
  <2>3. sess[v] # sess[w]
    BY <1>0, <2>1, <2>2 DEF Commit, OwnsLease, IInv, TokensUnique
  <2> QED
    BY <1>0, <2>1, <2>2, <2>3 DEF Commit, OwnsLease, IInv
<1>4. AnswersReceipt'
    BY <1>0 DEF Commit, IInv, AnswersReceipt
<1>5. ReceiptIsWhatWasWritten'
  <2> SUFFICES ASSUME NEW s \in Sessions
               PROVE  copies'[s] = Once(IF status'[s] = "completed"
                                        THEN receipt'[s] ELSE {})
    BY DEF ReceiptIsWhatWasWritten, Once
  <2>1. CASE s = sess[w]
    <3>1. copies'[s] = [m \in Messages |-> Once({})[m] + Once(drafts[w])[m]]
      BY <1>0, <2>1 DEF Commit, IInv
    <3>2. copies'[s] = Once(drafts[w])
      BY <3>1 DEF Once
    <3> QED
      BY <1>0, <2>1, <3>2 DEF Commit, IInv
  <2>2. CASE s # sess[w]
    BY <1>0, <2>2 DEF Commit, IInv, ReceiptIsWhatWasWritten
  <2> QED
    BY <2>1, <2>2
<1>6. CallersAgree'
    BY <1>0 DEF Commit, IInv, CallersAgree
<1> QED
    BY <1>1, <1>2, <1>3, <1>4, <1>5, <1>6 DEF IInv

(* What a late or a repeated answer adds to what callers were given is the *)
(* receipt of a session that is completed.                                 *)
LEMMA ShowInv ==
    ASSUME IInv, TypeOK', NEW w \in Workers, pc[w] # "idle", Leave(w),
           status[sess[w]] = "completed",
           served' = [served EXCEPT ![sess[w]] = @ \union {receipt[sess[w]]}],
           UNCHANGED <<rowVars, conv, copies>>
    PROVE  IInv'
<1> USE LiveInvocation DEF TypeOK, Leave, rowVars
<1>1. TokensUnique'
    BY DEF IInv, TokensUnique
<1>2. NoOrphanRow' /\ EndedIffCompleted'
    BY DEF IInv, NoOrphanRow, EndedIffCompleted
<1>3. FencedWriter'
    BY DEF IInv, FencedWriter, OwnsLease
<1>4. AnswersReceipt'
    BY DEF IInv, AnswersReceipt
<1>5. ReceiptIsWhatWasWritten'
    BY DEF IInv, ReceiptIsWhatWasWritten
<1>6. CallersAgree'
    BY DEF IInv, CallersAgree
<1> QED
    BY <1>1, <1>2, <1>3, <1>4, <1>5, <1>6 DEF IInv

(* Every step of an invocation preserves the inductive invariant.          *)
LEMMA StepInv ==
    ASSUME IInv, NEW w \in Workers, Step(w)
    PROVE  IInv'
<1>0. TypeOK'
    BY StepType DEF IInv
<1>1. CASE NotFound(w) \/ Refuse(w) \/ ClaimFails(w) \/ LeaseLost(w)
    BY <1>0, <1>1, LeaveInv DEF NotFound, Refuse, ClaimFails, LeaseLost
<1>2. CASE Replay(w)
    BY <1>0, <1>2, ShowInv DEF Replay, rowVars
<1>3. CASE TakeOver(w)
  <2>1. conv[sess[w]] # "gone" /\ status[sess[w]] # "completed"
    BY <1>3, LiveInvocation DEF TakeOver, Takeable, IInv, NoOrphanRow
  <2> QED
    BY <1>0, <1>3, <2>1, TakeLeaseInv DEF TakeOver, Takeable
<1>4. CASE Create(w)
  <2>1. Unlocked(sess[w])
    BY <1>4 DEF Create, IInv, FencedWriter, OwnsLease, Unlocked
  <2> QED
    BY <1>0, <1>4, <2>1, TakeLeaseInv DEF Create
<1>5. CASE SeeNoRow(w) \/ ExtractFails(w) \/ PersistFails(w)
    BY <1>0, <1>5, GoToInv DEF SeeNoRow, ExtractFails, PersistFails
<1>6. CASE Persist(w)
  <2>1. OwnsLease(w) /\ conv[sess[w]] = "open"
    BY <1>6, LiveInvocation
    DEF Persist, OwnsLease, IInv, TypeOK, EndedIffCompleted
  <2> QED
    BY <1>0, <1>6, <2>1, GoToInv DEF Persist
<1>7. CASE Extract(w)
  <2> USE DEF Extract, IInv, TypeOK, rowVars, dataVars
  <2>1. TokensUnique'
    BY <1>7 DEF TokensUnique
  <2>2. NoOrphanRow' /\ EndedIffCompleted'
    BY <1>7 DEF NoOrphanRow, EndedIffCompleted
  <2>3. FencedWriter'
    BY <1>7 DEF FencedWriter, OwnsLease
  <2>4. AnswersReceipt'
    BY <1>7 DEF AnswersReceipt
  <2>5. ReceiptIsWhatWasWritten' /\ CallersAgree'
    BY <1>7 DEF ReceiptIsWhatWasWritten, CallersAgree
  <2> QED
    BY <1>0, <2>1, <2>2, <2>3, <2>4, <2>5
<1>8. CASE MarkFailed(w)
  <2>1. CASE ~OwnsLease(w)
    BY <1>0, <1>8, <2>1, LeaveInv DEF MarkFailed, rowVars
  <2>2. CASE OwnsLease(w)
    <3> USE <1>8, <2>2, LiveInvocation DEF MarkFailed, TypeOK, Leave, dataVars
    <3>1. TokensUnique'
      BY DEF IInv, TokensUnique
    <3>2. NoOrphanRow' /\ EndedIffCompleted'
      BY DEF IInv, NoOrphanRow, EndedIffCompleted, OwnsLease
    <3>3. FencedWriter'
      BY DEF IInv, FencedWriter, OwnsLease, Unlocked
    <3>4. AnswersReceipt'
      BY DEF IInv, AnswersReceipt, OwnsLease
    <3>5. ReceiptIsWhatWasWritten'
      BY DEF IInv, ReceiptIsWhatWasWritten, OwnsLease
    <3>6. CallersAgree'
      BY DEF IInv, CallersAgree, OwnsLease
    <3> QED
      BY <1>0, <3>1, <3>2, <3>3, <3>4, <3>5, <3>6 DEF IInv
  <2> QED
    BY <2>1, <2>2
<1>9. CASE Commit(w)
    BY <1>0, <1>9, CommitInv
<1>10. CASE StoreChunks(w)
  <2>1. CASE conv[sess[w]] = "gone"
    <3> USE <1>10, <2>1, LiveInvocation
        DEF StoreChunks, TypeOK, Leave, rowVars, IInv
    <3>1. TokensUnique'
      BY DEF TokensUnique
    <3>2. NoOrphanRow' /\ EndedIffCompleted'
      BY DEF NoOrphanRow, EndedIffCompleted
    <3>3. FencedWriter'
      BY DEF FencedWriter, OwnsLease
    <3>4. AnswersReceipt'
      BY DEF AnswersReceipt
    <3>5. ReceiptIsWhatWasWritten' /\ CallersAgree'
      BY DEF ReceiptIsWhatWasWritten, CallersAgree
    <3> QED
      BY <1>0, <3>1, <3>2, <3>3, <3>4, <3>5
  <2>2. CASE conv[sess[w]] # "gone"
    <3>1. status[sess[w]] = "completed" /\ receipt[sess[w]] = drafts[w]
      BY <1>10, <2>2 DEF StoreChunks, IInv, AnswersReceipt
    <3> QED
      BY <1>0, <1>10, <2>2, <3>1, ShowInv DEF StoreChunks, rowVars
  <2> QED
    BY <2>1, <2>2
<1> QED
    BY <1>1, <1>2, <1>3, <1>4, <1>5, <1>6, <1>7, <1>8, <1>9, <1>10 DEF Step

(* Every step preserves the inductive invariant.                           *)
LEMMA NextInv == IInv /\ [Next]_vars => IInv'
<1> SUFFICES ASSUME IInv, [Next]_vars
             PROVE  IInv'
    OBVIOUS
<1>0. TypeOK'
    BY NextType DEF IInv
<1>1. ASSUME NEW w \in Workers, NEW s \in Sessions, Request(w, s)
      PROVE  IInv'
  <2> USE <1>1 DEF Request, IInv, TypeOK, rowVars, dataVars
  <2>1. TokensUnique'
    BY DEF TokensUnique, Fresh
  <2>2. NoOrphanRow' /\ EndedIffCompleted'
    BY DEF NoOrphanRow, EndedIffCompleted
  <2>3. FencedWriter'
    BY DEF FencedWriter, OwnsLease
  <2>4. AnswersReceipt'
    BY DEF AnswersReceipt
  <2>5. ReceiptIsWhatWasWritten' /\ CallersAgree'
    BY DEF ReceiptIsWhatWasWritten, CallersAgree
  <2> QED
    BY <1>0, <2>1, <2>2, <2>3, <2>4, <2>5
<1>2. ASSUME NEW w \in Workers, Step(w)
      PROVE  IInv'
    BY <1>2, StepInv
<1>3. ASSUME NEW w \in Workers, Die(w)
      PROVE  IInv'
    BY <1>0, <1>3, LeaveInv DEF Die
<1>4. CASE \/ \E s \in Sessions, m \in Messages : CheckOpen(s, m) \/ PostMessage(s, m)
           \/ Tick
           \/ UNCHANGED vars
  <2>1. /\ UNCHANGED <<conv, status, owner, receipt, copies, served>>
        /\ UNCHANGED <<pc, sess, token, drafts>>
    BY <1>4 DEF CheckOpen, PostMessage, Tick, vars, rowVars, dataVars, workerVars
  <2> USE <2>1 DEF IInv
  <2>2. TokensUnique' /\ NoOrphanRow' /\ EndedIffCompleted'
    BY DEF TokensUnique, NoOrphanRow, EndedIffCompleted
  <2>3. FencedWriter' /\ AnswersReceipt'
    BY DEF FencedWriter, OwnsLease, AnswersReceipt
  <2>4. ReceiptIsWhatWasWritten' /\ CallersAgree'
    BY DEF ReceiptIsWhatWasWritten, CallersAgree
  <2> QED
    BY <1>0, <2>2, <2>3, <2>4
<1>5. CASE Erase
  <2> USE <1>5 DEF Erase, IInv, TypeOK, workerVars
  <2>1. TokensUnique' /\ NoOrphanRow' /\ EndedIffCompleted'
    BY DEF TokensUnique, NoOrphanRow, EndedIffCompleted
  <2>2. FencedWriter'
    BY DEF FencedWriter, Unlocked
  <2>3. AnswersReceipt'
    BY DEF AnswersReceipt
  <2>4. ReceiptIsWhatWasWritten' /\ CallersAgree'
    BY DEF ReceiptIsWhatWasWritten, CallersAgree
  <2> QED
    BY <1>0, <2>1, <2>2, <2>3, <2>4
<1> QED
    BY <1>1, <1>2, <1>3, <1>4, <1>5 DEF Next

(* The inductive invariant holds in every reachable state.                 *)
THEOREM InvariantHolds == Spec => []IInv
BY InitInv, NextInv, PTL DEF Spec

(* The memories that are stored are those of the receipts, once each.      *)
THEOREM ReceiptCorrect == Spec => []ReceiptIsWhatWasWritten
<1>1. IInv => ReceiptIsWhatWasWritten
    BY DEF IInv
<1> QED
    BY <1>1, InvariantHolds, PTL

(* Conversation row and extraction row never disagree.                     *)
THEOREM EndedCorrect == Spec => []EndedIffCompleted
<1>1. IInv => EndedIffCompleted
    BY DEF IInv
<1> QED
    BY <1>1, InvariantHolds, PTL

(* All callers are given the same receipt.                                 *)
THEOREM AnswersCorrect == Spec => []CallersAgree
<1>1. IInv => CallersAgree
    BY DEF IInv
<1> QED
    BY <1>1, InvariantHolds, PTL

(* The lease of an open second transaction is not taken from it.           *)
THEOREM FenceCorrect == Spec => []FencedWriter
<1>1. IInv => FencedWriter
    BY DEF IInv
<1> QED
    BY <1>1, InvariantHolds, PTL

-----------------------------------------------------------------------------
(* What a step may never do.                                               *)

(* A receipt that is stored is not changed by any step but the erasure.    *)
LEMMA ReceiptStep ==
    ASSUME IInv, [Next]_vars, NEW s \in Sessions, status[s] = "completed"
    PROVE  \/ status'[s] = "completed" /\ receipt'[s] = receipt[s]
           \/ conv'[s] = "gone"
<1>1. ASSUME NEW w \in Workers, NEW r \in Sessions, Request(w, r)
      PROVE  UNCHANGED <<status, receipt>>
    BY <1>1 DEF Request, rowVars
<1>2. ASSUME NEW w \in Workers, Step(w)
      PROVE  status'[s] = "completed" /\ receipt'[s] = receipt[s]
  <2>1. CASE \/ NotFound(w) \/ Replay(w) \/ Refuse(w) \/ SeeNoRow(w)
             \/ ClaimFails(w) \/ Extract(w) \/ ExtractFails(w) \/ Persist(w)
             \/ LeaseLost(w) \/ PersistFails(w) \/ StoreChunks(w)
      BY <2>1 DEF NotFound, Replay, Refuse, SeeNoRow, ClaimFails, Extract,
         ExtractFails, Persist, LeaseLost, PersistFails, StoreChunks, rowVars
  <2>2. CASE TakeOver(w) \/ Create(w)
      BY <2>2 DEF TakeOver, Create, Takeable, TakeLease, IInv, TypeOK
  <2>3. CASE MarkFailed(w) \/ Commit(w)
      BY <2>3 DEF MarkFailed, Commit, OwnsLease, IInv, TypeOK
  <2> QED
      BY <1>2, <2>1, <2>2, <2>3 DEF Step
<1>3. ASSUME NEW w \in Workers, Die(w)
      PROVE  UNCHANGED <<status, receipt>>
    BY <1>3 DEF Die, rowVars
<1>4. CASE \/ \E r \in Sessions, m \in Messages : CheckOpen(r, m) \/ PostMessage(r, m)
           \/ Tick
           \/ UNCHANGED vars
    BY <1>4 DEF CheckOpen, PostMessage, Tick, vars, rowVars
<1>5. CASE Erase
    BY <1>5 DEF Erase
<1> QED
    BY <1>1, <1>2, <1>3, <1>4, <1>5 DEF Next

(* A receipt is final until the workspace is erased.                       *)
THEOREM ReceiptFinal == Spec => ReceiptImmutable
<1>1. IInv /\ [Next]_vars =>
        [\A s \in Sessions :
           status[s] = "completed"
           => \/ status'[s] = "completed" /\ receipt'[s] = receipt[s]
              \/ conv'[s] = "gone"]_vars
    BY ReceiptStep
<1> QED
    BY <1>1, InvariantHolds, PTL DEF Spec, ReceiptImmutable

(* Only MarkFailed, by the holder of the lease, makes a row failed.        *)
LEMMA FailStep ==
    ASSUME IInv, [Next]_vars,
           NEW s \in Sessions, status[s] # "failed", status'[s] = "failed"
    PROVE  \E w \in Workers :
              /\ pc[w] = "failing"
              /\ sess[w] = s
              /\ token[w] = owner[s]
              /\ pc'[w] = "idle"
<1> USE DEF IInv, TypeOK
<1>1. ASSUME NEW w \in Workers, Step(w)
      PROVE  MarkFailed(w)
  <2>1. ~(TakeOver(w) \/ Create(w))
      BY DEF TakeOver, Create, Takeable, TakeLease
  <2>2. ~Commit(w)
      BY DEF Commit, OwnsLease
  <2> QED
      BY <1>1, <2>1, <2>2
      DEF Step, NotFound, Replay, Refuse, SeeNoRow, ClaimFails, Extract,
          ExtractFails, Persist, LeaseLost, PersistFails, StoreChunks, rowVars
<1>2. ASSUME NEW w \in Workers, MarkFailed(w)
      PROVE  /\ pc[w] = "failing"
             /\ sess[w] = s
             /\ token[w] = owner[s]
             /\ pc'[w] = "idle"
    BY <1>2 DEF MarkFailed, OwnsLease, Leave
<1>3. \E w \in Workers : Step(w)
  <2>1. ~Erase
      BY DEF Erase
  <2> QED
      BY <2>1 DEF Next, Request, Die, CheckOpen, PostMessage, Tick, vars, rowVars
<1> QED
    BY <1>1, <1>2, <1>3

(* A session is failed by nobody but the holder of its lease.              *)
THEOREM FailsOnlyOwn == Spec => FailsOnlyOwnLease
<1>1. IInv /\ [Next]_vars =>
        [\A s \in Sessions :
           status[s] # "failed" /\ status'[s] = "failed"
           => \E w \in Workers :
                 /\ pc[w] = "failing"
                 /\ sess[w] = s
                 /\ token[w] = owner[s]
                 /\ pc'[w] = "idle"]_vars
    BY FailStep
<1> QED
    BY <1>1, InvariantHolds, PTL DEF Spec, FailsOnlyOwnLease

-----------------------------------------------------------------------------
(* The refinement.                                                         *)

(* The initial states are initial states of the promise.                   *)
LEMMA RefineInit == Init => Receipts!ReceiptInit
BY DEF Init, Receipts!ReceiptInit, Receipts!SavedOnce, Once

(* An invocation ends a session, answers with its receipt, or does nothing *)
(* that the promise can see.                                               *)
LEMMA RefineStep ==
    ASSUME IInv, NEW w \in Workers, Step(w)
    PROVE  [Receipts!ReceiptNext]_Receipts!receiptVars
<1> USE DEF Receipts!receiptVars
<1>1. CASE \/ NotFound(w) \/ Refuse(w) \/ TakeOver(w) \/ SeeNoRow(w)
           \/ Create(w) \/ ClaimFails(w) \/ Extract(w) \/ ExtractFails(w)
           \/ MarkFailed(w) \/ Persist(w) \/ LeaseLost(w) \/ PersistFails(w)
    BY <1>1 DEF NotFound, Refuse, TakeOver, SeeNoRow, Create, ClaimFails,
       Extract, ExtractFails, MarkFailed, Persist, LeaseLost, PersistFails, dataVars
<1>2. CASE Commit(w)
  <2>1. /\ sess[w] \in Sessions
        /\ conv[sess[w]] = "open"
        /\ copies[sess[w]] = Once({})
        /\ drafts[w] \in SUBSET Messages
      BY <1>2, LiveInvocation
      DEF Commit, OwnsLease, IInv, TypeOK, FencedWriter, ReceiptIsWhatWasWritten
  <2>2. [m \in Messages |-> copies[sess[w]][m] + Once(drafts[w])[m]]
          = Receipts!SavedOnce(drafts[w])
      BY <2>1 DEF Once, Receipts!SavedOnce
  <2>3. Receipts!EndSession(sess[w])
      BY <1>2, <2>1, <2>2 DEF Commit, Receipts!EndSession, IInv, TypeOK
  <2> QED
      BY <2>1, <2>3 DEF Receipts!ReceiptNext
<1>3. ASSUME pc[w] # "idle", status[sess[w]] = "completed",
             served' = [served EXCEPT ![sess[w]] = @ \union {receipt[sess[w]]}],
             UNCHANGED <<conv, copies>>
      PROVE  Receipts!ReceiptNext
  <2>1. /\ sess[w] \in Sessions
        /\ conv[sess[w]] = "ended"
        /\ receipt[sess[w]] \in SUBSET Messages
        /\ copies[sess[w]] = Once(receipt[sess[w]])
      BY <1>3, LiveInvocation
      DEF IInv, TypeOK, EndedIffCompleted, ReceiptIsWhatWasWritten
  <2>2. copies[sess[w]] = Receipts!SavedOnce(receipt[sess[w]])
      BY <2>1 DEF Once, Receipts!SavedOnce
  <2>3. Receipts!ShowReceipt(sess[w])
      BY <1>3, <2>1, <2>2 DEF Receipts!ShowReceipt
  <2> QED
      BY <2>1, <2>3 DEF Receipts!ReceiptNext
<1>4. CASE Replay(w)
    BY <1>3, <1>4 DEF Replay
<1>5. CASE StoreChunks(w)
    BY <1>3, <1>5 DEF StoreChunks, IInv, AnswersReceipt
<1> QED
    BY <1>1, <1>2, <1>4, <1>5 DEF Step

(* Every step is a step of the promise or leaves what it sees unchanged.   *)
LEMMA RefineNext ==
    IInv /\ [Next]_vars => [Receipts!ReceiptNext]_Receipts!receiptVars
<1> SUFFICES ASSUME IInv, [Next]_vars
             PROVE  [Receipts!ReceiptNext]_Receipts!receiptVars
    OBVIOUS
<1>1. ASSUME NEW w \in Workers, Step(w)
      PROVE  [Receipts!ReceiptNext]_Receipts!receiptVars
    BY <1>1, RefineStep
<1>2. CASE Erase
    BY <1>2 DEF Erase, Receipts!ReceiptNext, Receipts!EraseWorkspace,
       Receipts!SavedOnce, Once
<1>3. ASSUME UNCHANGED <<conv, copies, served>>
      PROVE  [Receipts!ReceiptNext]_Receipts!receiptVars
    BY <1>3 DEF Receipts!receiptVars
<1>4. CASE \/ \E w \in Workers, s \in Sessions : Request(w, s)
           \/ \E w \in Workers : Die(w)
    BY <1>3, <1>4 DEF Request, Die, dataVars
<1>5. CASE \/ \E s \in Sessions, m \in Messages : CheckOpen(s, m)
           \/ \E s \in Sessions, m \in Messages : PostMessage(s, m)
    BY <1>3, <1>5 DEF CheckOpen, PostMessage
<1>6. CASE Tick \/ UNCHANGED vars
    BY <1>3, <1>6 DEF Tick, vars, dataVars
<1> QED
    BY <1>1, <1>2, <1>4, <1>5, <1>6 DEF Next

(* The leases, retries and failures of end_session implement the promise   *)
(* that a session ends once with one list of memories.                     *)
THEOREM Refinement == Spec => ImplementsReceipts
BY RefineInit, RefineNext, InvariantHolds, PTL
DEF Spec, ImplementsReceipts, Receipts!ReceiptSpec

-----------------------------------------------------------------------------
(* Leases, when the platform kills an invocation before its lease expires. *)

(* The invocation depends on its lease for a session that still exists.    *)
Holds(w) ==
    /\ pc[w] \in {"extracting", "failing", "drafted", "persisting"}
    /\ conv[sess[w]] # "gone"

(* No other invocation writes the row of one that holds its lease.         *)
LEMMA HeldRow ==
    ASSUME IInv, LeaseCountsDown, RequestLimit < Lease,
           NEW v \in Workers, Holds(v), NEW w \in Workers \ {v}, Step(w)
    PROVE  /\ UNCHANGED <<pc[v], sess[v], token[v], age[v]>>
           /\ UNCHANGED <<status[sess[v]], owner[sess[v]], left[sess[v]]>>
<1> USE DEF IInv, TypeOK, Leave, GoTo
<1>1. /\ sess[v] \in Sessions
      /\ token[v] \in Tokens
      /\ status[sess[v]] = "processing"
      /\ owner[sess[v]] = token[v]
      /\ left[sess[v]] > 0
    BY LiveInvocation DEF Holds, LeaseCountsDown, OwnsLease
<1>2. OwnsLease(w) => sess[w] # sess[v]
    BY <1>1 DEF OwnsLease, TokensUnique
<1>3. CASE TakeOver(w) \/ Create(w)
  <2>1. sess[w] # sess[v]
    BY <1>1, <1>3 DEF TakeOver, Create, Takeable, Stale
  <2> QED
    BY <1>1, <1>3, <2>1 DEF TakeOver, Create, TakeLease
<1>4. CASE MarkFailed(w)
    BY <1>1, <1>2, <1>4 DEF MarkFailed
<1>5. CASE Commit(w)
    BY <1>1, <1>2, <1>5 DEF Commit
<1>6. CASE \/ NotFound(w) \/ Replay(w) \/ Refuse(w) \/ SeeNoRow(w)
           \/ ClaimFails(w) \/ Extract(w) \/ ExtractFails(w) \/ Persist(w)
           \/ LeaseLost(w) \/ PersistFails(w) \/ StoreChunks(w)
    BY <1>6 DEF NotFound, Replay, Refuse, SeeNoRow, ClaimFails, Extract,
       ExtractFails, Persist, LeaseLost, PersistFails, StoreChunks, rowVars
<1> QED
    BY <1>3, <1>4, <1>5, <1>6 DEF Step

(* What an invocation does itself keeps the lease it goes on to depend on. *)
LEMMA OwnRow ==
    ASSUME IInv, LeaseCountsDown, NEW w \in Workers, Step(w), Holds(w)'
    PROVE  OwnsLease(w)' /\ left'[sess'[w]] = Lease - age'[w]
<1> USE DEF IInv, TypeOK, Leave, GoTo, Holds, OwnsLease, LeaseCountsDown
<1>1. CASE \/ NotFound(w) \/ Replay(w) \/ Refuse(w) \/ SeeNoRow(w)
           \/ ClaimFails(w) \/ MarkFailed(w) \/ LeaseLost(w)
           \/ Commit(w) \/ StoreChunks(w)
    BY <1>1 DEF NotFound, Replay, Refuse, SeeNoRow, ClaimFails, MarkFailed,
       LeaseLost, Commit, StoreChunks
<1>2. CASE TakeOver(w) \/ Create(w)
    BY <1>2, LiveInvocation DEF TakeOver, Create, TakeLease, LeaseFrom
<1>3. CASE Extract(w) \/ ExtractFails(w) \/ Persist(w) \/ PersistFails(w)
    BY <1>3 DEF Extract, ExtractFails, Persist, PersistFails, rowVars, dataVars
<1> QED
    BY <1>1, <1>2, <1>3 DEF Step

(* Only Tick adds to an age, and it stops at the platform's limit.         *)
LEMMA AgeStep ==
    ASSUME IInv, LeaseCountsDown, [Next]_vars, NEW v \in Workers
    PROVE  age'[v] <= RequestLimit
<1> USE DEF IInv, TypeOK, LeaseCountsDown, Leave, GoTo
<1>1. ASSUME NEW w \in Workers, Step(w)
      PROVE  age'[v] <= RequestLimit
  <2>1. UNCHANGED age \/ age' = [age EXCEPT ![w] = 0]
    BY <1>1 DEF Step, NotFound, Replay, Refuse, TakeOver, SeeNoRow, Create,
       ClaimFails, Extract, ExtractFails, MarkFailed, Persist, LeaseLost, Commit,
       PersistFails, StoreChunks
  <2> QED
    BY <2>1
<1>2. ASSUME NEW w \in Workers, Die(w)
      PROVE  age'[v] <= RequestLimit
    BY <1>2 DEF Die
<1>3. CASE Tick
    BY <1>3 DEF Tick, Live
<1>4. CASE \/ \E w \in Workers, s \in Sessions : Request(w, s)
           \/ \E s \in Sessions, m \in Messages : CheckOpen(s, m)
           \/ \E s \in Sessions, m \in Messages : PostMessage(s, m)
           \/ Erase \/ UNCHANGED vars
    BY <1>4 DEF Request, CheckOpen, PostMessage, Erase, vars, workerVars
<1>5. CASE Next
    BY <1>1, <1>2, <1>3, <1>4, <1>5 DEF Next
<1>6. CASE UNCHANGED vars
    BY <1>4, <1>6
<1> QED
    BY <1>5, <1>6

(* Every step keeps each lease that is depended on.                        *)
LEMMA LeaseStep ==
    ASSUME IInv, IInv', LeaseCountsDown, [Next]_vars,
           RequestLimit <= MaxLag, RequestLimit < Lease,
           NEW v \in Workers, Holds(v)'
    PROVE  OwnsLease(v)' /\ left'[sess'[v]] = Lease - age'[v]
<1> DEFINE Kept == OwnsLease(v)' /\ left'[sess'[v]] = Lease - age'[v]
<1> USE DEF IInv, TypeOK
<1>1. ASSUME UNCHANGED <<pc[v], sess[v], token[v], age[v]>>,
             UNCHANGED <<status[sess[v]], owner[sess[v]], left[sess[v]]>>,
             Holds(v)
      PROVE  Kept
    BY <1>1 DEF OwnsLease, LeaseCountsDown, Holds
<1>2. ASSUME NEW w \in Workers, Step(w)
      PROVE  Kept
  <2>1. CASE w = v
    BY <1>2, <2>1, OwnRow
  <2>2. CASE w # v
    <3>1. Holds(v)
      BY <1>2, <2>2 DEF Holds, Step, NotFound, Replay, Refuse, TakeOver,
         SeeNoRow, Create, TakeLease, ClaimFails, Extract, ExtractFails,
         MarkFailed, Persist, LeaseLost, Commit, PersistFails, StoreChunks,
         Leave, GoTo, dataVars, FencedWriter
    <3> QED
      BY <1>1, <1>2, <2>2, <3>1, HeldRow
  <2> QED
    BY <2>1, <2>2
<1>3. ASSUME NEW w \in Workers, Die(w) \/ \E s \in Sessions : Request(w, s)
      PROVE  Kept
  <2>1. CASE w = v
    BY <1>3, <2>1 DEF Request, Die, Leave, Holds
  <2>2. CASE w # v
    BY <1>1, <1>3, <2>2 DEF Request, Die, Leave, Holds, rowVars, dataVars
  <2> QED
    BY <2>1, <2>2
<1>4. ASSUME NEW s \in Sessions, NEW m \in Messages,
             CheckOpen(s, m) \/ PostMessage(s, m)
      PROVE  Kept
    BY <1>1, <1>4 DEF CheckOpen, PostMessage, Holds, rowVars, workerVars
<1>5. CASE Erase
    BY <1>5, LiveInvocation DEF Erase, Holds, workerVars
<1>6. CASE Tick
  <2>1. Holds(v) /\ sess[v] \in Sessions
    BY <1>6, LiveInvocation DEF Tick, Holds, dataVars
  <2>2. OwnsLease(v) /\ left[sess[v]] = Lease - age[v] /\ age[v] < RequestLimit
    BY <1>6, <2>1 DEF Tick, Live, Holds, LeaseCountsDown
  <2>3. age'[v] = age[v] + 1 /\ left'[sess[v]] = left[sess[v]] - 1
    BY <1>6, <2>1, <2>2 DEF Tick, Live, Holds, OwnsLease
  <2>4. age[v] \in Int /\ left[sess[v]] \in Int
    BY <2>1
  <2>5. left'[sess[v]] = Lease - age'[v]
    BY <2>2, <2>3, <2>4
  <2>6. UNCHANGED <<status, owner, sess, token>>
    BY <1>6 DEF Tick
  <2> QED
    BY <2>2, <2>5, <2>6 DEF OwnsLease
<1>7. CASE UNCHANGED vars
    BY <1>1, <1>7 DEF vars, rowVars, dataVars, workerVars, Holds
<1>8. CASE Next
    BY <1>2, <1>3, <1>4, <1>5, <1>6, <1>8 DEF Next
<1> QED
    BY <1>7, <1>8 DEF Kept

(* An invocation that the platform kills before its lease could expire is  *)
(* never robbed of it while it is alive (config.py on the lease's length). *)
THEOREM LeaseSafe ==
    ASSUME RequestLimit <= MaxLag, RequestLimit < Lease
    PROVE  Spec => []LiveLeaseNotStolen
<1>1. Init => LeaseCountsDown
    BY DEF Init, LeaseCountsDown
<1>2. IInv /\ IInv' /\ LeaseCountsDown /\ [Next]_vars => LeaseCountsDown'
  <2> SUFFICES ASSUME IInv, IInv', LeaseCountsDown, [Next]_vars,
                      NEW v \in Workers
               PROVE  /\ age'[v] <= RequestLimit
                      /\ Holds(v)' => /\ OwnsLease(v)'
                                      /\ left'[sess'[v]] = Lease - age'[v]
    BY DEF LeaseCountsDown, Holds
  <2> QED
    BY AgeStep, LeaseStep
<1>3. LeaseCountsDown => LiveLeaseNotStolen
    BY DEF LeaseCountsDown, LiveLeaseNotStolen
<1> QED
    BY <1>1, <1>2, <1>3, InvariantHolds, PTL DEF Spec
=============================================================================
