------------------------ MODULE EvidenceViewProofs ------------------------
(***************************************************************************)
(* Proofs about EvidenceView, for any number of writes: the answers and    *)
(* receipts that are shown, the lines that the memory map draws, and the   *)
(* memory that is selected on it.                                          *)
(***************************************************************************)
EXTENDS EvidenceView, FiniteSetTheorems, SequenceTheorems, Counting, TLAPS

USE BoundAssumption

-----------------------------------------------------------------------------
(* The inductive invariant.                                                *)

(* Every write is one, and makes or names a memory that there is.          *)
LogGrown ==
    /\ log \in Seq(Write)
    /\ \A i \in DOMAIN log : log[i].new # 0

(* An answer is about what its prompt was given; nothing of that is in its *)
(* trace, and it was there when the answer was serialized.                 *)
ReplyGrounded ==
    /\ reply.stage \in {"none", "asked", "explained", "shown"}
    /\ reply.seen \in 0..Len(log)
    /\ reply.packed \subseteq Rows(log)
    /\ reply.used \subseteq reply.packed
    /\ reply.excluded \intersect reply.packed = {}
    /\ reply.stage = "shown" => reply.packed \subseteq Rows(Seen(reply.seen))

(* A receipt lists writes.                                                 *)
ReceiptGrounded ==
    /\ receipt.writes \subseteq DOMAIN log
    /\ receipt.seen \in 0..Len(log)

(* What a request reads is not older than the page, and what was there     *)
(* then is there still.                                                    *)
ReadsLater ==
    /\ {"state", "had"} \subseteq DOMAIN map
    /\ DOMAIN reads = Requests
    /\ \A r \in Requests : reads[r] \in Seq(0..Len(log))
    /\ map.state = "shown" => "memories" \notin failed /\ reads["memories"] # <<>>
    /\ map.state # "closed" /\ map.had =>
          /\ Rows(log) # {}
          /\ \A r \in Requests : \A i \in DOMAIN reads[r] : Rows(Seen(reads[r][i])) # {}

IInv == LogGrown /\ ReplyGrounded /\ ReceiptGrounded /\ ReadsLater

-----------------------------------------------------------------------------
(* What a reader of the log sees.                                          *)

(* The parts of a write.                                                   *)
LEMMA WriteParts ==
    ASSUME LogGrown, NEW i \in DOMAIN log
    PROVE  log[i].old \in Nat /\ log[i].new \in Nat /\ log[i].new # 0
<1>1. log[i] \in Write /\ log[i].new # 0
    BY DEF LogGrown
<1> QED
    BY <1>1 DEF Write

(* A reader sees the first writes.                                         *)
LEMMA SeenWrites ==
    ASSUME LogGrown, NEW k \in 0..Len(log)
    PROVE  /\ DOMAIN Seen(k) = 1..k
           /\ 1..k \subseteq DOMAIN log
           /\ \A i \in 1..k : Seen(k)[i] = log[i]
BY DEF LogGrown, Seen

(* All of them, if they look now.                                          *)
LEMMA SeenNow ==
    ASSUME LogGrown
    PROVE  Rows(Seen(Len(log))) = Rows(log)
<1>1. Len(log) \in 0..Len(log) /\ DOMAIN log = 1..Len(log)
    BY DEF LogGrown
<1> QED
    BY <1>1, SeenWrites DEF Rows

(* What they see to be verified is.                                        *)
LEMMA SeenVerified ==
    ASSUME LogGrown, NEW k \in 0..Len(log), NEW m, Verified(Seen(k), m)
    PROVE  Verified(log, m)
BY SeenWrites DEF Verified

(* The rows are finitely many, and have numbers.                           *)
LEMMA RowsFinite ==
    ASSUME NEW h \in Seq(Write)
    PROVE  IsFiniteSet(Rows(h)) /\ Cardinality(Rows(h)) \in Nat
<1> DEFINE D == {j \in DOMAIN h : h[j].op # "absorbed"}
<1>1. IsFiniteSet(1..Len(h))
    BY FS_Interval
<1>2. D \subseteq 1..Len(h)
    OBVIOUS
<1>3. IsFiniteSet(D)
    BY <1>1, <1>2, FS_Subset
<1> DEFINE f == [i \in D |-> h[i].new]
<1>4. f \in Surjection(D, Rows(h))
    BY DEF Surjection, Rows
<1>5. IsFiniteSet(Rows(h))
    BY <1>3, <1>4, FS_Surjection
<1> QED
    BY <1>5, FS_CardinalityType

(* Writing more changes nothing of what was seen, and no row goes.         *)
LEMMA LogGrows ==
    ASSUME LogGrown, NEW w \in Write, log' = Append(log, w)
    PROVE  /\ Len(log') = Len(log) + 1
           /\ DOMAIN log \subseteq DOMAIN log'
           /\ Rows(log) \subseteq Rows(log')
           /\ \A k \in 0..Len(log) : Rows(Seen(k)') = Rows(Seen(k))
<1>1. /\ Len(log') = Len(log) + 1
      /\ DOMAIN log = 1..Len(log) /\ DOMAIN log' = 1..Len(log) + 1
      /\ \A i \in DOMAIN log : log'[i] = log[i]
    BY DEF LogGrown
<1>2. Rows(log) \subseteq Rows(log')
    BY <1>1 DEF Rows
<1>3. ASSUME NEW k \in 0..Len(log)
      PROVE  Seen(k)' = Seen(k)
    BY <1>1 DEF LogGrown, Seen
<1> QED
    BY <1>1, <1>2, <1>3

-----------------------------------------------------------------------------
(* The steps.                                                              *)

(* It holds initially.                                                     *)
LEMMA InitInv == Init => IInv
<1> SUFFICES ASSUME Init
             PROVE  IInv
    OBVIOUS
<1>1. LogGrown
    BY DEF Init, LogGrown
<1>2. ReplyGrounded
    BY DEF Init, ReplyGrounded, NoReply
<1>3. ReceiptGrounded
    BY DEF Init, ReceiptGrounded, NoReceipt
<1>4. ReadsLater
    BY DEF Init, ReadsLater
<1> QED
    BY <1>1, <1>2, <1>3, <1>4 DEF IInv

(* A commit appends a write.                                               *)
LEMMA CommitAppends ==
    ASSUME LogGrown, Commit
    PROVE  \E w \in Write : w.new # 0 /\ log' = Append(log, w)
<1> DEFINE next == Cardinality(Rows(log)) + 1
<1>1. next \in Nat /\ next # 0
    BY RowsFinite DEF LogGrown
<1>2. \A old \in Rows(log) \union {0} : old \in Nat
    BY WriteParts DEF Rows
<1>3. PICK op \in Ops, old \in Rows(log) \union {0}, verified \in BOOLEAN :
          \/ \E i \in DOMAIN log :
                 log' = Append(log, [op |-> op, old |-> old, new |-> log[i].new,
                                     verified |-> verified])
          \/ log' = Append(log, [op |-> op, old |-> old, new |-> next,
                                 verified |-> verified])
    BY DEF Commit
<1>4. CASE \E i \in DOMAIN log :
               log' = Append(log, [op |-> op, old |-> old, new |-> log[i].new,
                                   verified |-> verified])
  <2>1. PICK i \in DOMAIN log :
            log' = Append(log, [op |-> op, old |-> old, new |-> log[i].new,
                                verified |-> verified])
    BY <1>4
  <2>2. log[i].new \in Nat /\ log[i].new # 0
    BY WriteParts
  <2> QED
    BY <2>1, <2>2, <1>2 DEF Write
<1>5. CASE log' = Append(log, [op |-> op, old |-> old, new |-> next,
                               verified |-> verified])
    BY <1>5, <1>1, <1>2 DEF Write
<1> QED
    BY <1>3, <1>4, <1>5

LEMMA CommitInv ==
    ASSUME IInv, Commit
    PROVE  IInv'
<1>1. PICK w \in Write : w.new # 0 /\ log' = Append(log, w)
    BY CommitAppends DEF IInv
<1>2. UNCHANGED <<reply, receipt, map, reads, failed>>
    BY DEF Commit
<1>3. /\ Len(log') = Len(log) + 1
      /\ DOMAIN log \subseteq DOMAIN log'
      /\ Rows(log) \subseteq Rows(log')
      /\ \A k \in 0..Len(log) : Rows(Seen(k)') = Rows(Seen(k))
    BY <1>1, LogGrows DEF IInv
<1>4. Len(log) \in Nat /\ 0..Len(log) \subseteq 0..Len(log')
    BY <1>3 DEF IInv, LogGrown
<1>5. LogGrown'
    BY <1>1 DEF IInv, LogGrown
<1>6. ReplyGrounded'
    BY <1>2, <1>3, <1>4 DEF IInv, ReplyGrounded, Seen
<1>7. ReceiptGrounded'
    BY <1>2, <1>3, <1>4 DEF IInv, ReceiptGrounded
<1>8. ReadsLater'
  <2>1. \A r \in Requests : reads[r] \in Seq(0..Len(log'))
    BY <1>4 DEF IInv, ReadsLater
  <2>2. ASSUME map.state # "closed", map.had, NEW r \in Requests, NEW i \in DOMAIN reads[r]
        PROVE  Rows(SubSeq(log', 1, reads[r][i])) # {}
    <3>1. reads[r][i] \in 0..Len(log)
      BY DEF IInv, ReadsLater
    <3> QED
      BY <2>2, <3>1, <1>3 DEF IInv, ReadsLater, Seen
  <2> QED
    BY <2>1, <2>2, <1>2, <1>3 DEF IInv, ReadsLater, Seen
<1> QED
    BY <1>5, <1>6, <1>7, <1>8 DEF IInv

(* What depends on the log alone stays while it does.                      *)
LEMMA SameLog ==
    ASSUME IInv, UNCHANGED log
    PROVE  /\ LogGrown'
           /\ UNCHANGED reply => ReplyGrounded'
           /\ UNCHANGED receipt => ReceiptGrounded'
           /\ UNCHANGED <<map, reads, failed>> => ReadsLater'
<1>1. LogGrown'
    BY DEF IInv, LogGrown
<1>2. ASSUME UNCHANGED reply
      PROVE  ReplyGrounded'
    BY <1>2 DEF IInv, ReplyGrounded, Seen
<1>3. ASSUME UNCHANGED receipt
      PROVE  ReceiptGrounded'
    BY <1>3 DEF IInv, ReceiptGrounded
<1>4. ASSUME UNCHANGED <<map, reads, failed>>
      PROVE  ReadsLater'
    BY <1>4 DEF IInv, ReadsLater, Seen
<1> QED
    BY <1>1, <1>2, <1>3, <1>4

(* An answer on its way.                                                   *)
LEMMA ReplyInv ==
    ASSUME IInv, Ask \/ Explain \/ ShowReply
    PROVE  IInv'
<1>1. UNCHANGED <<log, receipt, map, reads, failed>>
    BY DEF Ask, Explain, ShowReply
<1>2. LogGrown' /\ ReceiptGrounded' /\ ReadsLater'
    BY <1>1, SameLog
<1>3. 0 \in 0..Len(log) /\ Len(log) \in 0..Len(log)
    BY DEF IInv, LogGrown
<1>4. CASE Ask
  <2>1. PICK packed \in SUBSET Active(log) :
            reply' = [NoReply EXCEPT !.stage = "asked", !.packed = packed]
    BY <1>4 DEF Ask
  <2>2. packed \subseteq Rows(log)
    BY <2>1 DEF Active
  <2>3. ReplyGrounded'
    BY <2>1, <2>2, <1>1, <1>3 DEF NoReply, ReplyGrounded
  <2> QED
    BY <2>3, <1>2 DEF IInv
<1>5. CASE Explain
  <2>1. PICK used \in SUBSET reply.packed :
            reply' = [reply EXCEPT !.stage = "explained", !.used = used,
                                   !.excluded = Excluded(log, reply.packed)]
    BY <1>5 DEF Explain
  <2>2. ReplyGrounded'
    BY <2>1, <1>1 DEF IInv, ReplyGrounded, Excluded
  <2> QED
    BY <2>2, <1>2 DEF IInv
<1>6. CASE ShowReply
  <2>1. reply' = [reply EXCEPT !.stage = "shown", !.seen = Len(log)]
    BY <1>6 DEF ShowReply
  <2>2. Rows(Seen(Len(log))) = Rows(log)
    BY SeenNow DEF IInv
  <2>3. ReplyGrounded'
    BY <2>1, <2>2, <1>1, <1>3 DEF IInv, ReplyGrounded, Seen
  <2> QED
    BY <2>3, <1>2 DEF IInv
<1> QED
    BY <1>4, <1>5, <1>6

(* A receipt.                                                              *)
LEMMA ReceiptInv ==
    ASSUME IInv, ShowReceipt
    PROVE  IInv'
<1>1. PICK first \in DOMAIN log : \E last \in first..Len(log) :
          receipt' = [writes |-> first..last, seen |-> Len(log)]
    BY DEF ShowReceipt
<1>2. PICK last \in first..Len(log) : receipt' = [writes |-> first..last, seen |-> Len(log)]
    BY <1>1
<1>3. UNCHANGED <<log, reply, map, reads, failed>>
    BY DEF ShowReceipt
<1>4. LogGrown' /\ ReplyGrounded' /\ ReadsLater'
    BY <1>3, SameLog
<1>5. ReceiptGrounded'
  <2>1. DOMAIN log = 1..Len(log) /\ Len(log) \in Nat
    BY DEF IInv, LogGrown
  <2>2. first..last \subseteq DOMAIN log
    BY <2>1, <1>1, <1>2
  <2> QED
    BY <2>1, <2>2, <1>2, <1>3 DEF ReceiptGrounded
<1> QED
    BY <1>4, <1>5 DEF IInv

(* The map begins to load, or is closed; what it knows of the rows is from *)
(* this moment.                                                            *)
LEMMA LoadReads ==
    ASSUME IInv, Load, UNCHANGED log, map'.state # "shown",
           {"state", "had"} \subseteq DOMAIN map',
           map'.state # "closed" /\ map'.had => Rows(log) # {}
    PROVE  ReadsLater'
<1>1. reads' = [r \in Requests |-> <<>>]
    BY DEF Load
<1>2. \A r \in Requests : reads'[r] = <<>> /\ DOMAIN reads'[r] = {}
    BY <1>1
<1>3. <<>> \in Seq(0..Len(log'))
    BY EmptySeq
<1>4. \A r \in Requests : reads'[r] \in Seq(0..Len(log'))
    BY <1>2, <1>3
<1> QED
    BY <1>1, <1>2, <1>4 DEF ReadsLater

LEMMA PageInv ==
    ASSUME IInv, OpenMap \/ Retry \/ ReloadMap \/ CloseMap
    PROVE  IInv'
<1>1. UNCHANGED log /\ Load
    BY DEF OpenMap, Retry, ReloadMap, CloseMap
<1>2. LogGrown'
    BY <1>1, SameLog
<1>3. ReplyGrounded' /\ ReceiptGrounded'
  <2>1. CASE OpenMap
    <3>1. reply' = NoReply /\ receipt' = NoReceipt
      BY <2>1 DEF OpenMap
    <3>2. 0 \in 0..Len(log)
      BY DEF IInv, LogGrown
    <3> QED
      BY <3>1, <3>2, <1>1 DEF ReplyGrounded, ReceiptGrounded, NoReply, NoReceipt
  <2>2. CASE Retry \/ ReloadMap \/ CloseMap
    <3>1. UNCHANGED <<reply, receipt>>
      BY <2>2 DEF Retry, ReloadMap, CloseMap
    <3> QED
      BY <3>1, <1>1, SameLog
  <2> QED
    BY <2>1, <2>2
<1>4. ReadsLater'
  <2>1. /\ {"state", "had"} \subseteq DOMAIN map'
        /\ map'.state # "shown"
        /\ map'.state # "closed" /\ map'.had => Rows(log) # {}
    <3>1. CASE OpenMap
      <4>1. PICK f : map' = [state |-> "loading", focus |-> f, url |-> f, linked |-> f,
                             selected |-> 0, had |-> Rows(log) # {}]
        BY <3>1 DEF OpenMap
      <4> QED
        BY <4>1
    <3>2. CASE Retry
      BY <3>2 DEF Retry, IInv, ReadsLater
    <3>3. CASE ReloadMap
      BY <3>3 DEF ReloadMap, IInv, ReadsLater
    <3>4. CASE CloseMap
      BY <3>4 DEF CloseMap, IInv, ReadsLater
    <3> QED
      BY <3>1, <3>2, <3>3, <3>4
  <2> QED
    BY <2>1, <1>1, LoadReads
<1> QED
    BY <1>2, <1>3, <1>4 DEF IInv

(* A request reads on, with what the database holds at that time.          *)
LEMMA ReadInv ==
    ASSUME IInv, NEW r \in Requests, ReadOn(r)
    PROVE  IInv'
<1>1. /\ map.state = "loading"
      /\ reads' = [reads EXCEPT ![r] = Append(reads[r], Len(log))]
      /\ UNCHANGED <<log, reply, receipt, map, failed>>
    BY DEF ReadOn, Read
<1>2. LogGrown' /\ ReplyGrounded' /\ ReceiptGrounded'
    BY <1>1, SameLog
<1>3. Rows(Seen(Len(log))) = Rows(log)
    BY SeenNow DEF IInv
<1>4. Len(log) \in 0..Len(log) /\ reads[r] \in Seq(0..Len(log))
    BY DEF IInv, LogGrown, ReadsLater
<1>5. /\ reads'[r] = Append(reads[r], Len(log))
      /\ \A o \in Requests \ {r} : reads'[o] = reads[o]
      /\ DOMAIN reads' = Requests
    BY <1>1 DEF IInv, ReadsLater
<1>6. \A o \in Requests : reads'[o] \in Seq(0..Len(log))
  <2>1. Append(reads[r], Len(log)) \in Seq(0..Len(log))
    BY <1>4, AppendProperties
  <2> QED
    BY <2>1, <1>5 DEF IInv, ReadsLater
<1>7. ASSUME map.had, NEW o \in Requests, NEW i \in DOMAIN reads'[o]
      PROVE  Rows(Seen(reads'[o][i])) # {}
  <2>1. CASE o # r
    BY <2>1, <1>1, <1>5, <1>7 DEF IInv, ReadsLater
  <2>2. CASE o = r
    <3>1. \/ i \in DOMAIN reads[r] /\ reads'[r][i] = reads[r][i]
          \/ reads'[r][i] = Len(log)
      BY <2>2, <1>4, <1>5, <1>7
    <3> QED
      BY <3>1, <2>2, <1>1, <1>3, <1>7 DEF IInv, ReadsLater
  <2> QED
    BY <2>1, <2>2
<1>8. ReadsLater'
    BY <1>1, <1>5, <1>6, <1>7 DEF IInv, ReadsLater, Seen
<1> QED
    BY <1>2, <1>8 DEF IInv

(* A request fails; both are in; something is selected.                    *)
LEMMA MapInv ==
    ASSUME IInv, (\E r \in Requests : FailRequest(r)) \/ Settle \/ Select
    PROVE  IInv'
<1>1. UNCHANGED <<log, reply, receipt>>
    BY DEF FailRequest, Settle, Select
<1>2. LogGrown' /\ ReplyGrounded' /\ ReceiptGrounded'
    BY <1>1, SameLog
<1>3. CASE \E r \in Requests : FailRequest(r)
  <2>1. PICK r \in Requests : FailRequest(r)
    BY <1>3
  <2>2. /\ map.state = "loading" /\ UNCHANGED map
        /\ reads' = [reads EXCEPT ![r] = <<>>]
    BY <2>1 DEF FailRequest
  <2>3. /\ DOMAIN reads' = Requests /\ reads'[r] = <<>>
        /\ \A o \in Requests \ {r} : reads'[o] = reads[o]
    BY <2>2 DEF IInv, ReadsLater
  <2>4. /\ \A o \in Requests : reads'[o] \in Seq(0..Len(log))
        /\ DOMAIN reads'[r] = {}
    <3>1. <<>> \in Seq(0..Len(log)) /\ DOMAIN <<>> = {}
      BY EmptySeq
    <3> QED
      BY <3>1, <2>3 DEF IInv, ReadsLater
  <2>5. \A o \in Requests : \A i \in DOMAIN reads'[o] :
            i \in DOMAIN reads[o] /\ reads'[o][i] = reads[o][i]
    BY <2>3, <2>4
  <2>6. ReadsLater'
    BY <2>2, <2>3, <2>4, <2>5, <1>1 DEF IInv, ReadsLater, Seen
  <2> QED
    BY <2>6, <1>2 DEF IInv
<1>4. CASE Settle
  <2>1. /\ map.state = "loading"
        /\ "memories" \in failed \/ Len(reads["memories"]) = 3
        /\ UNCHANGED <<reads, failed>>
    BY <1>4 DEF Settle, Requests
  <2>2. /\ map'.had = map.had /\ map'.state \in {"error", "shown"}
        /\ {"state", "had"} \subseteq DOMAIN map'
        /\ map'.state = "shown" => "memories" \notin failed
    <3>1. CASE Rejected
      BY <3>1, <1>4 DEF Settle, IInv, ReadsLater
    <3>2. CASE ~Rejected
      BY <3>2, <1>4 DEF Settle, Rejected, IInv, ReadsLater
    <3> QED
      BY <3>1, <3>2
  <2>3. "memories" \notin failed => reads["memories"] # <<>>
    BY <2>1
  <2>4. ReadsLater'
    BY <2>1, <2>2, <2>3, <1>1 DEF IInv, ReadsLater, Seen
  <2> QED
    BY <2>4, <1>2 DEF IInv
<1>5. CASE Select
  <2>1. /\ map'.state = map.state /\ map'.had = map.had /\ DOMAIN map' = DOMAIN map
        /\ UNCHANGED <<reads, failed>>
    BY <1>5 DEF Select, Chosen, IInv, ReadsLater
  <2>2. ReadsLater'
    BY <2>1, <1>1 DEF IInv, ReadsLater, Seen
  <2> QED
    BY <2>2, <1>2 DEF IInv
<1> QED
    BY <1>3, <1>4, <1>5

LEMMA NextInv == IInv /\ [Next]_vars => IInv'
<1> SUFFICES ASSUME IInv, [Next]_vars
             PROVE  IInv'
    OBVIOUS
<1>1. CASE Commit
    BY <1>1, CommitInv
<1>2. CASE Ask \/ Explain \/ ShowReply
    BY <1>2, ReplyInv
<1>3. CASE ShowReceipt
    BY <1>3, ReceiptInv
<1>4. CASE OpenMap \/ Retry \/ ReloadMap \/ CloseMap
    BY <1>4, PageInv
<1>5. CASE \E r \in Requests : ReadOn(r)
    BY <1>5, ReadInv
<1>6. CASE (\E r \in Requests : FailRequest(r)) \/ Settle \/ Select
    BY <1>6, MapInv
<1>7. CASE UNCHANGED vars
    BY <1>7, SameLog DEF vars, IInv
<1> QED
    BY <1>1, <1>2, <1>3, <1>4, <1>5, <1>6, <1>7 DEF Next

(* Every state of a workspace's memories and of the screens satisfies the  *)
(* inductive invariant.                                                    *)
THEOREM InvariantHolds == Spec => []IInv
<1> QED
    BY InitInv, NextInv, PTL DEF Spec

-----------------------------------------------------------------------------
(* What it means for the screens.                                          *)

(* A quotation of a message is verified and the memory's own.              *)
LEMMA MessageQuotesOwn ==
    ASSUME IInv, NEW q \in MessageQuotes(Message)
    PROVE  q[1] = q[2] /\ Verified(log, q[1])
<1> DEFINE rep == IF reply.stage = "shown" THEN reply ELSE NoReply
           h == Seen(reply.seen)
           dto == MessageDTO(rep, h)
<1>1. PICK m : q \in Quotation(m, [sourceQuote |-> ProvenanceDTO(h, m).sourceQuote,
                                   sourceVerified |-> ProvenanceDTO(h, m).sourceVerified])
  <2>1. \/ \E d \in dto.memoryContext :
               q \in Quotation(NormalizeMemory(d).id, NormalizeMemory(d))
        \/ \E d \in dto.excludedMemories :
               q \in Quotation(NormalizeExcluded(d).memoryId, NormalizeExcluded(d))
    BY DEF MessageQuotes, Message, Groups
  <2>2. \A d \in dto.memoryContext \union dto.excludedMemories :
            \E m : d = MemoryDTO(m, h, h)
    BY DEF MessageDTO
  <2>3. PICK d, m : /\ d = MemoryDTO(m, h, h)
                    /\ \/ q \in Quotation(NormalizeMemory(d).id, NormalizeMemory(d))
                       \/ q \in Quotation(NormalizeExcluded(d).memoryId, NormalizeExcluded(d))
    BY <2>1, <2>2
  <2>4. d.id = m /\ d.provenance = ProvenanceDTO(h, m)
    BY <2>3 DEF MemoryDTO
  <2> QED
    BY <2>3, <2>4 DEF NormalizeMemory, NormalizeExcluded, Quotation
<1>2. q = <<m, m>> /\ Verified(h, m)
    BY <1>1 DEF Quotation, ProvenanceDTO
<1>3. Verified(log, m)
    BY <1>2, SeenVerified DEF IInv, ReplyGrounded
<1> QED
    BY <1>2, <1>3

(* A quotation of a receipt is verified and its new memory's.              *)
LEMMA ReceiptQuotesOwn ==
    ASSUME IInv, NEW q \in ReceiptQuotes(Changes)
    PROVE  q[1] = q[2] /\ Verified(log, q[1])
<1> DEFINE h == Seen(receipt.seen)
<1>1. PICK i \in receipt.writes :
          LET c == NormalizeChange(ChangeDTO(log[i], h))
          IN q \in Quotation(ChangeTarget(c), c)
    BY DEF ReceiptQuotes, Changes
<1> DEFINE m == log[i].new
           c == NormalizeChange(ChangeDTO(log[i], h))
<1>2. m # 0
    BY <1>1 DEF IInv, LogGrown, ReceiptGrounded
<1>3. /\ ChangeTarget(c) = m
      /\ c.sourceVerified = Verified(h, m)
      /\ Verified(h, m) => c.sourceQuote = m
    BY <1>2 DEF ChangeTarget, NormalizeChange, ChangeDTO, ProvenanceDTO, Or
<1>4. q \in Quotation(ChangeTarget(c), c)
    BY <1>1
<1>5. q = <<m, m>> /\ Verified(h, m)
    BY <1>3, <1>4 DEF Quotation
<1>6. Verified(log, m)
    BY <1>5, SeenVerified DEF IInv, ReceiptGrounded
<1> QED
    BY <1>5, <1>6

(* Whatever is shown as somebody's words, under an answer or in a receipt, *)
(* was verified for the memory it is shown with.                           *)
THEOREM QuotesTrue == Spec => []QuotesAreOwn
<1>1. IInv => QuotesAreOwn
    BY MessageQuotesOwn, ReceiptQuotesOwn DEF QuotesAreOwn
<1> QED
    BY <1>1, InvariantHolds, PTL

(* The memories under an answer are those its prompt was given, each in    *)
(* one group, whatever was written while Qwen was asked.                   *)
THEOREM GroupsCorrect == Spec => []OneGroupEach
<1>1. ASSUME IInv
      PROVE  OneGroupEach
  <2> DEFINE rep == IF reply.stage = "shown" THEN reply ELSE NoReply
             h == Seen(reply.seen)
             dto == MessageDTO(rep, h)
  <2>1. /\ rep.packed \subseteq Rows(h)
        /\ rep.packed \intersect rep.excluded = {}
        /\ rep.packed = IF reply.stage = "shown" THEN reply.packed ELSE {}
    BY <1>1 DEF IInv, ReplyGrounded, NoReply
  <2>2. /\ dto.memoryContext = {MemoryDTO(m, h, h) : m \in rep.packed}
        /\ \A d \in dto.excludedMemories : d.id \in rep.excluded
    <3>1. rep.packed \intersect Rows(h) = rep.packed
      BY <2>1
    <3>2. dto.memoryContext = {MemoryDTO(m, h, h) : m \in rep.packed}
      BY <3>1 DEF MessageDTO
    <3>3. \A d \in dto.excludedMemories :
              \E m \in rep.excluded : d = MemoryDTO(m, h, h)
      BY DEF MessageDTO
    <3>4. \A m : MemoryDTO(m, h, h).id = m
      BY DEF MemoryDTO
    <3> QED
      BY <3>2, <3>3, <3>4
  <2>3. \A m : NormalizeMemory(MemoryDTO(m, h, h)).id = m
    BY DEF NormalizeMemory, MemoryDTO
  <2> DEFINE context == {NormalizeMemory(d) : d \in dto.memoryContext}
  <2>4. /\ \A m \in context : m.id \in rep.packed
        /\ \A p \in rep.packed : \E m \in context : m.id = p
    BY <2>2, <2>3
  <2>5. \A t \in {NormalizeExcluded(d) : d \in dto.excludedMemories} :
            t.memoryId \notin rep.packed
    BY <2>1, <2>2 DEF NormalizeExcluded
  <2> DEFINE g == Groups(dto)
  <2>6. /\ g.excluded = {}
        /\ g.used \intersect g.available = {}
        /\ g.used \union g.available = context
    BY <2>4, <2>5 DEF Groups
  <2>7. MessageLinks([g EXCEPT !.traceOnly = {}]) = {m.id : m \in context}
    <3>1. MessageLinks([g EXCEPT !.traceOnly = {}])
              = {m.id : m \in g.used \union g.available \union g.excluded}
      BY DEF MessageLinks, Groups
    <3> QED
      BY <3>1, <2>6
  <2>8. {m.id : m \in context} = rep.packed
    BY <2>4
  <2> QED
    BY <2>1, <2>6, <2>7, <2>8 DEF OneGroupEach, Message
<1> QED
    BY <1>1, InvariantHolds, PTL

(* The map's page says that nothing is remembered only to somebody who had *)
(* no memories when it began to load.                                      *)
THEOREM EmptinessTrue == Spec => []EmptyIsTrue
<1>1. ASSUME IInv, EmptyShown, map.had
      PROVE  FALSE
  <2> DEFINE h == Seen(reads["memories"][1])
  <2>1. /\ map.state = "shown" /\ "memories" \notin failed
        /\ Memories("memories") = <<>> /\ reads["memories"] # <<>>
    BY <1>1 DEF EmptyShown, IInv, ReadsLater
  <2>2. /\ 1 \in DOMAIN reads["memories"]
        /\ reads["memories"][1] \in 0..Len(log)
    BY <1>1, <2>1 DEF IInv, ReadsLater, Requests
  <2>3. Rows(h) # {}
    BY <1>1, <2>1, <2>2 DEF IInv, ReadsLater, Requests
  <2>4. h \in Seq(Write)
    BY <1>1, <2>2 DEF IInv, LogGrown, Seen
  <2>5. IsFiniteSet(Rows(h)) /\ Cardinality(Rows(h)) \in Nat /\ Cardinality(Rows(h)) # 0
    BY <2>3, <2>4, RowsFinite, FS_EmptySet
  <2>6. DOMAIN Memories("memories") = 1..Cardinality(Rows(h))
    BY <2>1 DEF Memories, MemoryDTOs
  <2>7. DOMAIN Memories("memories") = {}
    BY <2>1
  <2> QED
    BY <2>5, <2>6, <2>7
<1>2. IInv => EmptyIsTrue
    BY <1>1 DEF EmptyIsTrue
<1> QED
    BY <1>2, InvariantHolds, PTL

-----------------------------------------------------------------------------
(* persistedRelationships: what the lines are, whatever the memories say.  *)

(* The lines after k of the memories.                                      *)
Noting(ms, S, k, f) ==
    f = [i \in 0..k |-> IF i = 0 THEN S ELSE Noted(f[i - 1], IdsOf(ms), ms[i])]

LEMMA NotingStart ==
    ASSUME NEW ms, NEW S
    PROVE  \E f : Noting(ms, S, 0, f)
<1> DEFINE f == [i \in 0..0 |-> S]
<1>1. f = [i \in 0..0 |-> IF i = 0 THEN S ELSE Noted(f[i - 1], IdsOf(ms), ms[i])]
    OBVIOUS
<1> QED
    BY <1>1 DEF Noting

LEMMA NotingStep ==
    ASSUME NEW ms, NEW S, NEW k \in Nat, NEW f, Noting(ms, S, k, f)
    PROVE  \E g : Noting(ms, S, k + 1, g)
<1> DEFINE g == [i \in 0..(k + 1) |->
                    IF i <= k THEN f[i] ELSE Noted(f[k], IdsOf(ms), ms[k + 1])]
<1>1. \A i \in 0..k : f[i] = IF i = 0 THEN S ELSE Noted(f[i - 1], IdsOf(ms), ms[i])
    BY DEF Noting
<1>2. ASSUME NEW i \in 0..(k + 1)
      PROVE  g[i] = IF i = 0 THEN S ELSE Noted(g[i - 1], IdsOf(ms), ms[i])
  <2>1. CASE i = 0
    BY <2>1, <1>1
  <2>2. CASE i \in 1..k
    <3>1. i \in 0..k /\ i - 1 \in 0..(k + 1) /\ i - 1 <= k /\ i # 0 /\ i <= k
      BY <2>2
    <3>2. g[i] = f[i] /\ g[i - 1] = f[i - 1]
      BY <3>1
    <3>3. f[i] = Noted(f[i - 1], IdsOf(ms), ms[i])
      BY <1>1, <3>1
    <3> QED
      BY <3>1, <3>2, <3>3
  <2>3. CASE i = k + 1
    <3>1. i # 0 /\ ~(i <= k) /\ i - 1 = k /\ k \in 0..(k + 1)
      BY <2>3
    <3>2. g[i] = Noted(f[k], IdsOf(ms), ms[k + 1]) /\ g[k] = f[k]
      BY <3>1
    <3> QED
      BY <3>1, <3>2, <2>3
  <2> QED
    BY <2>1, <2>2, <2>3
<1>3. g = [i \in 0..(k + 1) |-> g[i]]
    OBVIOUS
<1> HIDE DEF g
<1>4. g = [i \in 0..(k + 1) |-> IF i = 0 THEN S ELSE Noted(g[i - 1], IdsOf(ms), ms[i])]
    BY <1>2, <1>3
<1> QED
    BY <1>4 DEF Noting

(* Drawn looks at the memories one after the other.                        *)
LEMMA DrawnNotes ==
    ASSUME NEW ms, NEW S, Len(ms) \in Nat
    PROVE  \E f : /\ f[0] = S
                  /\ \A i \in 1..Len(ms) : f[i] = Noted(f[i - 1], IdsOf(ms), ms[i])
                  /\ Drawn(ms, S) = {r \in f[Len(ms)] : r[1] \in IdsOf(ms) /\ r[2] \in IdsOf(ms)}
<1> DEFINE K == Len(ms)
<1> DEFINE I == {k \in 0..K : \E f : Noting(ms, S, k, f)}
<1>1. 0 \in I
    BY NotingStart
<1>2. ASSUME NEW k \in 0..(K - 1), k \in I
      PROVE  k + 1 \in I
  <2>1. \E g : Noting(ms, S, k + 1, g)
    BY <1>2, NotingStep
  <2> QED
    BY <2>1
<1>3. K \in I
  <2>1. K \in Nat
    OBVIOUS
  <2> HIDE DEF I, K
  <2>2. 0..K \subseteq I
    BY <2>1, <1>1, <1>2, CountTo
  <2> QED
    BY <2>1, <2>2
<1> DEFINE F == CHOOSE f : Noting(ms, S, K, f)
<1>4. Noting(ms, S, K, F)
    BY <1>3
<1>5. Drawn(ms, S) = {r \in F[K] : r[1] \in IdsOf(ms) /\ r[2] \in IdsOf(ms)}
    BY DEF Drawn, Noting
<1> HIDE DEF F
<1>6. \A i \in 0..K : F[i] = IF i = 0 THEN S ELSE Noted(F[i - 1], IdsOf(ms), ms[i])
    BY <1>4 DEF Noting
<1>7. F[0] = S /\ \A i \in 1..K : F[i] = Noted(F[i - 1], IdsOf(ms), ms[i])
    BY <1>6
<1> QED
    BY <1>5, <1>7

(* A pair that is linked stays linked.                                     *)
LEMMA StillLinked ==
    ASSUME NEW S, NEW T, S \subseteq T, NEW a, NEW b, Linked(S, a, b)
    PROVE  Linked(T, a, b)
BY DEF Linked

(* A memory adds at most one line, to what it names.                       *)
LEMMA NotedAdds ==
    ASSUME NEW all, NEW ids, NEW m
    PROVE  /\ all \subseteq Noted(all, ids, m)
           /\ \A r \in Noted(all, ids, m) \ all :
                 \/ m.prior \in ids /\ r = <<m.prior, m.id, "supersedes">>
                 \/ /\ m.supersededById \in ids /\ ~Linked(all, m.id, m.supersededById)
                    /\ r = <<m.id, m.supersededById, "supersedes">>
           /\ m.supersededById \in ids =>
                 \/ Linked(Noted(all, ids, m), m.id, m.supersededById)
                 \/ m.prior \in ids /\ ~Linked(all, m.prior, m.id)
           /\ m.prior \in ids => Linked(Noted(all, ids, m), m.prior, m.id)
<1>1. ASSUME NEW a, NEW b
      PROVE  Linked(all \union {<<a, b, "supersedes">>}, a, b)
  <2> DEFINE line == <<a, b, "supersedes">>
  <2>1. line[1] = a /\ line[2] = b /\ line \in all \union {line}
    OBVIOUS
  <2>2. Linked(all \union {line}, a, b)
    <3> HIDE DEF line
    <3> QED
      BY <2>1 DEF Linked
  <2> QED
    BY <2>2
<1>2. CASE m.prior \in ids /\ ~Linked(all, m.prior, m.id)
  <2>1. Noted(all, ids, m) = all \union {<<m.prior, m.id, "supersedes">>}
    BY <1>2 DEF Noted
  <2>2. Linked(Noted(all, ids, m), m.prior, m.id)
    BY <1>1, <2>1
  <2> QED
    BY <1>2, <2>1, <2>2
<1>3. CASE ~(m.prior \in ids /\ ~Linked(all, m.prior, m.id))
  <2>1. CASE m.supersededById \in ids /\ ~Linked(all, m.id, m.supersededById)
    <3>1. Noted(all, ids, m) = all \union {<<m.id, m.supersededById, "supersedes">>}
      BY <1>3, <2>1 DEF Noted
    <3>2. Linked(Noted(all, ids, m), m.id, m.supersededById)
      BY <1>1, <3>1
    <3>3. m.prior \in ids => Linked(Noted(all, ids, m), m.prior, m.id)
      BY <1>3, <3>1, StillLinked
    <3> QED
      BY <2>1, <3>1, <3>2, <3>3
  <2>2. CASE ~(m.supersededById \in ids /\ ~Linked(all, m.id, m.supersededById))
    <3>1. Noted(all, ids, m) = all
      BY <1>3, <2>2 DEF Noted
    <3> QED
      BY <1>3, <2>2, <3>1
  <2> QED
    BY <2>1, <2>2
<1> QED
    BY <1>2, <1>3

(* If all lines that memories name are in T, those drawn are in T or were  *)
(* supplied.                                                               *)
LEMMA DrawnTrue ==
    ASSUME NEW ms, NEW S, NEW T, Len(ms) \in Nat,
           \A i \in 1..Len(ms) :
               /\ ms[i].prior \in IdsOf(ms) => <<ms[i].prior, ms[i].id, "supersedes">> \in T
               /\ ms[i].supersededById \in IdsOf(ms) /\ ~Linked(S, ms[i].id, ms[i].supersededById)
                      => <<ms[i].id, ms[i].supersededById, "supersedes">> \in T
    PROVE  Drawn(ms, S) \subseteq S \union T
<1> DEFINE N == Len(ms)
<1>1. PICK f : /\ f[0] = S
               /\ \A i \in 1..N : f[i] = Noted(f[i - 1], IdsOf(ms), ms[i])
               /\ Drawn(ms, S) \subseteq f[N]
    BY DrawnNotes
<1> DEFINE I == {i \in 0..N : S \subseteq f[i] /\ f[i] \subseteq S \union T}
<1>2. N \in Nat
    OBVIOUS
<1> HIDE DEF N
<1>3. 0 \in I
    BY <1>1, <1>2
<1>4. ASSUME NEW i \in 0..(N - 1), i \in I
      PROVE  i + 1 \in I
  <2>1. i + 1 \in 1..N /\ (i + 1) - 1 = i /\ i + 1 \in 0..N
    BY <1>2
  <2>2. f[i + 1] = Noted(f[i], IdsOf(ms), ms[i + 1])
    BY <1>1, <2>1
  <2>3. S \subseteq f[i] /\ f[i] \subseteq S \union T
    BY <1>4
  <2>4. f[i] \subseteq f[i + 1]
    BY <2>2, NotedAdds
  <2>5. ASSUME NEW r \in f[i + 1] \ f[i]
        PROVE  r \in T
    <3>1. \/ /\ ms[i + 1].prior \in IdsOf(ms)
             /\ r = <<ms[i + 1].prior, ms[i + 1].id, "supersedes">>
          \/ /\ ms[i + 1].supersededById \in IdsOf(ms)
             /\ ~Linked(f[i], ms[i + 1].id, ms[i + 1].supersededById)
             /\ r = <<ms[i + 1].id, ms[i + 1].supersededById, "supersedes">>
      BY <2>2, <2>5, NotedAdds
    <3>2. ~Linked(f[i], ms[i + 1].id, ms[i + 1].supersededById)
              => ~Linked(S, ms[i + 1].id, ms[i + 1].supersededById)
      BY <2>3, StillLinked
    <3> QED
      BY <3>1, <3>2, <2>1 DEF N
  <2> QED
    BY <2>1, <2>3, <2>4, <2>5
<1>5. 0..N \subseteq I
  <2> HIDE DEF I
  <2> QED
    BY <1>2, <1>3, <1>4, CountTo
<1>6. f[N] \subseteq S \union T
    BY <1>2, <1>5
<1> QED
    BY <1>1, <1>6

(* If each memory that names a predecessor was linked with it before its   *)
(* turn comes, every memory is linked with its successor.                  *)
LEMMA DrawnLinks ==
    ASSUME NEW ms, NEW S, Len(ms) \in Nat, IdsOf(ms) = 1..Len(ms),
           \A i \in 1..Len(ms) : ms[i].id = i,
           \A i \in 1..Len(ms) : ms[i].prior \in IdsOf(ms) =>
               \/ Linked(S, ms[i].prior, i)
               \/ ms[i].prior < i /\ ms[ms[i].prior].supersededById = i,
           NEW m \in 1..Len(ms), ms[m].supersededById \in IdsOf(ms)
    PROVE  Linked(Drawn(ms, S), m, ms[m].supersededById)
<1> DEFINE N == Len(ms)
<1>1. PICK f : /\ f[0] = S
               /\ \A i \in 1..N : f[i] = Noted(f[i - 1], IdsOf(ms), ms[i])
               /\ Drawn(ms, S) = {r \in f[N] : r[1] \in IdsOf(ms) /\ r[2] \in IdsOf(ms)}
    BY DrawnNotes
<1> DEFINE I == {i \in 0..N : /\ S \subseteq f[i]
                              /\ \A j \in 1..i : ms[j].supersededById \in IdsOf(ms) =>
                                     Linked(f[i], j, ms[j].supersededById)}
<1>2. N \in Nat
    OBVIOUS
<1>3. 0 \in I
    BY <1>1, <1>2
<1>4. ASSUME NEW i \in 0..(N - 1), i \in I
      PROVE  i + 1 \in I
  <2> DEFINE o == ms[i + 1]
  <2>1. i + 1 \in 1..N /\ (i + 1) - 1 = i /\ i + 1 \in 0..N /\ i \in Nat
    BY <1>2
  <2>2. f[i + 1] = Noted(f[i], IdsOf(ms), o) /\ o.id = i + 1
    BY <1>1, <2>1
  <2>3. f[i] \subseteq f[i + 1] /\ S \subseteq f[i]
    BY <1>4, <2>2, NotedAdds
  <2>4. o.prior \in IdsOf(ms) => Linked(f[i], o.prior, o.id)
    <3> SUFFICES ASSUME o.prior \in IdsOf(ms)
                 PROVE  Linked(f[i], o.prior, o.id)
      OBVIOUS
    <3>1. CASE Linked(S, o.prior, i + 1)
      BY <3>1, <2>2, <2>3, StillLinked
    <3>2. CASE o.prior < i + 1 /\ ms[o.prior].supersededById = i + 1
      <4>1. o.prior \in 1..i
        BY <3>2, <2>1
      <4>2. ms[o.prior].supersededById \in IdsOf(ms)
        BY <3>2, <2>1
      <4> QED
        BY <4>1, <4>2, <3>2, <2>2, <1>4
    <3> QED
      BY <3>1, <3>2, <2>1
  <2>5. o.supersededById \in IdsOf(ms) => Linked(f[i + 1], i + 1, o.supersededById)
    BY <2>2, <2>4, NotedAdds
  <2>6. ASSUME NEW j \in 1..(i + 1), ms[j].supersededById \in IdsOf(ms)
        PROVE  Linked(f[i + 1], j, ms[j].supersededById)
    <3>1. CASE j = i + 1
      BY <3>1, <2>5, <2>6
    <3>2. CASE j # i + 1
      <4>1. j \in 1..i
        BY <3>2, <2>1
      <4>2. Linked(f[i], j, ms[j].supersededById)
        BY <4>1, <2>6, <1>4
      <4> QED
        BY <4>2, <2>3, StillLinked
    <3> QED
      BY <3>1, <3>2
  <2> QED
    BY <2>1, <2>3, <2>6
<1>5. N \in I
  <2> HIDE DEF I, N
  <2>1. 0..N \subseteq I
    BY <1>2, <1>3, <1>4, CountTo
  <2> QED
    BY <1>2, <2>1
<1>6. Linked(f[N], m, ms[m].supersededById)
    BY <1>5
<1>7. m \in IdsOf(ms)
    OBVIOUS
<1> QED
    BY <1>1, <1>6, <1>7 DEF Linked

-----------------------------------------------------------------------------
(* The list of memories.                                                   *)

(* A list of N memories, each in its place, with what its row and its      *)
(* provenance say of its successor and its predecessor.                    *)
IsList(ms, N, h, meta) ==
    /\ Len(ms) = N /\ DOMAIN ms = 1..N
    /\ IdsOf(ms) = 1..N
    /\ Range(ms) = {ms[m] : m \in 1..N}
    /\ ms = <<>> <=> N = 0
    /\ \A m \in 1..N :
          /\ ms[m].id = m
          /\ ms[m].supersededById = Successor(h, m)
          /\ ms[m].prior \in 1..N => <<ms[m].prior, m, "supersedes">> \in Relations(meta)

(* A reader of the list sees all memories.                                 *)
LEMMA ListFacts ==
    ASSUME NEW N \in Nat, NEW h, NEW meta, Rows(h) = 1..N, NEW ms,
           ms = [m \in 1..N |-> NormalizeMemory(MemoryDTO(m, h, meta))]
    PROVE  IsList(ms, N, h, meta)
<1>1. DOMAIN ms = 1..N
    OBVIOUS
<1>2. Len(ms) = N
  <2>1. ms \in Seq(Range(ms))
    <3> DEFINE S == Range(ms)
    <3>1. ms = [m \in 1..N |-> ms[m]] /\ \A m \in 1..N : ms[m] \in S
      BY <1>1 DEF Range
    <3> HIDE DEF S
    <3>2. [m \in 1..N |-> ms[m]] \in Seq(S)
      BY <3>1, IsASeq
    <3> QED
      BY <3>1, <3>2 DEF S
  <2> QED
    BY <1>1, <2>1, LenProperties
<1>3. ASSUME NEW m \in 1..N
      PROVE  /\ ms[m].id = m
             /\ ms[m].supersededById = Successor(h, m)
             /\ ms[m].prior \in 1..N => <<ms[m].prior, m, "supersedes">> \in Relations(meta)
  <2>1. ms[m] = NormalizeMemory(MemoryDTO(m, h, meta))
    OBVIOUS
  <2>2. ms[m].id = m /\ ms[m].supersededById = Successor(h, m)
    BY <2>1 DEF NormalizeMemory, MemoryDTO
  <2> DEFINE prior == {p \in Rows(h) : <<p, m, "supersedes">> \in Relations(meta)}
  <2>3. ms[m].prior = IF prior = {} THEN 0 ELSE CHOOSE p \in prior : TRUE
    BY <2>1 DEF NormalizeMemory, MemoryDTO
  <2>4. ms[m].prior = 0 \/ ms[m].prior \in prior
    <3> HIDE DEF prior
    <3> QED
      BY <2>3
  <2> QED
    BY <2>2, <2>4
<1>4. IdsOf(ms) = 1..N
  <2>1. IdsOf(ms) = {ms[m].id : m \in 1..N}
    BY <1>1 DEF IdsOf
  <2>2. \A m \in 1..N : ms[m].id = m
    BY <1>3
  <2> QED
    BY <2>1, <2>2
<1>5. ms = <<>> <=> N = 0
    BY <1>1
<1>6. Range(ms) = {ms[m] : m \in 1..N}
    BY <1>1 DEF Range
<1> QED
    BY <1>1, <1>2, <1>3, <1>4, <1>5, <1>6 DEF IsList

(* MemoryGraph selects something that it shows, what the address names if  *)
(* it can.                                                                 *)
LEMMA SelectedShown ==
    ASSUME NEW N \in Nat, N # 0, NEW ms, DOMAIN ms = 1..N, IdsOf(ms) = 1..N, NEW focus
    PROVE  /\ Selected(ms, focus) \in IdsOf(ms)
           /\ focus \in IdsOf(ms) => Selected(ms, focus) = focus
<1> DEFINE First(S) == (CHOOSE m \in S : \A o \in S : m.id <= o.id).id
<1>1. ASSUME NEW S, S \subseteq Range(ms), S # {}
      PROVE  First(S) \in IdsOf(ms)
  <2>1. \A m \in S : m.id \in IdsOf(ms)
    BY <1>1 DEF Range, IdsOf
  <2> DEFINE I == {m.id : m \in S}
  <2>2. I \in SUBSET Nat /\ I # {}
    BY <1>1, <2>1
  <2>3. PICK x \in I : \A y \in I : x <= y
    <3> HIDE DEF I
    <3> QED
      BY <2>2, Least
  <2>4. \E m \in S : \A o \in S : m.id <= o.id
    BY <2>3
  <2>5. (CHOOSE m \in S : \A o \in S : m.id <= o.id) \in S
    BY <2>4
  <2> QED
    BY <2>1, <2>5
<1> DEFINE correction == {m \in Range(ms) : m.memoryType = "correction" /\ m.status = "eligible"}
           eligible == {m \in Range(ms) : m.status = "eligible"}
<1>2. /\ correction # {} => First(correction) \in IdsOf(ms)
      /\ eligible # {} => First(eligible) \in IdsOf(ms)
    BY <1>1
<1>3. ms[1].id \in IdsOf(ms)
    BY DEF IdsOf
<1>4. Selected(ms, focus) = IF focus \in IdsOf(ms) THEN focus
                            ELSE IF focus # 0 THEN ms[1].id
                            ELSE IF correction # {} THEN First(correction)
                            ELSE IF eligible # {} THEN First(eligible)
                            ELSE ms[1].id
    BY DEF Selected
<1> HIDE DEF First, correction, eligible
<1> QED
    BY <1>2, <1>3, <1>4

-----------------------------------------------------------------------------
(* The inductive invariant.                                                *)

(* Memories are numbered in the order of their times, for every reader.    *)
Numbered == \A k \in 0..Len(log) : Rows(Seen(k)) = 1..Cardinality(Rows(Seen(k)))

(* A version is newer than what it supersedes.                             *)
VersionsLater ==
    \A i \in DOMAIN log : log[i].op \in {"corrected", "reinforced"} => log[i].old < log[i].new

(* A receipt lists nothing that a consolidation superseded.                *)
ReceiptOwn == \A i \in receipt.writes : log[i].op # "absorbed"

(* Nothing is shown before both requests are in.                           *)
Settled == map.state = "shown" => \A r \in Requests : r \in failed \/ Len(reads[r]) = 3

(* The focus is what the address says when the answers come.               *)
FocusFollows == map.state \in {"loading", "error"} => map.focus = map.url

(* The memory that a link named stays in the address, and was there before *)
(* anything was read.                                                      *)
LinkedThere ==
    map.linked # 0 =>
        /\ map.url = map.linked
        /\ map.linked \in Rows(log)
        /\ \A r \in Requests : \A i \in DOMAIN reads[r] : map.linked \in Rows(Seen(reads[r][i]))

HistoryInv == IInv /\ TypeOK /\ Numbered /\ VersionsLater /\ ReceiptOwn

MapInvariant ==
    HistoryInv /\ Settled /\ FocusFollows /\ LinkedThere
    /\ EvidenceReachable /\ SelectionFollowsAddress

-----------------------------------------------------------------------------
(* What the page shows.                                                    *)

(* All of the writes are all there is.                                     *)
LEMMA AllSeen ==
    ASSUME NEW h \in Seq(Write)
    PROVE  SubSeq(h, 1, Len(h)) = h
OBVIOUS

(* A later reader sees more.                                               *)
LEMMA RowsGrow ==
    ASSUME LogGrown, NEW k \in 0..Len(log), NEW j \in 0..k
    PROVE  Rows(Seen(j)) \subseteq Rows(Seen(k)) /\ Rows(Seen(k)) \subseteq Rows(log)
<1>1. /\ DOMAIN Seen(k) = 1..k /\ \A i \in 1..k : Seen(k)[i] = log[i]
      /\ DOMAIN Seen(j) = 1..j /\ \A i \in 1..j : Seen(j)[i] = log[i]
      /\ 1..k \subseteq DOMAIN log
  <2>1. j \in 0..Len(log)
    BY DEF LogGrown
  <2> QED
    BY <2>1, SeenWrites
<1>2. 1..j \subseteq 1..k
    BY DEF LogGrown
<1> QED
    BY <1>1, <1>2 DEF Rows

(* The answer of a request that succeeded.                                 *)
LEMMA MemoriesAre ==
    ASSUME HistoryInv, NEW r \in Requests, r \notin failed, Len(reads[r]) = 3
    PROVE  \E N \in Nat : /\ Rows(Seen(reads[r][1])) = 1..N
                          /\ IsList(Memories(r), N, Seen(reads[r][1]), Seen(reads[r][2]))
<1>1. reads[r] \in Seq(0..Len(log)) /\ log \in Seq(Write)
    BY DEF HistoryInv, TypeOK
<1>2. reads[r][1] \in 0..Len(log)
    BY <1>1
<1>3. PICK h : h = Seen(reads[r][1])
    OBVIOUS
<1>4. PICK meta : meta = Seen(reads[r][2])
    OBVIOUS
<1>5. PICK N : N = Cardinality(Rows(h))
    OBVIOUS
<1>6. Rows(h) = 1..N
    BY <1>2, <1>3, <1>5 DEF HistoryInv, Numbered
<1>7. N \in Nat
  <2>1. h \in Seq(Write)
    BY <1>1, <1>2, <1>3 DEF Seen
  <2> QED
    BY <2>1, <1>5, RowsFinite
<1>8. PICK ms : ms = Memories(r)
    OBVIOUS
<1>9. ms = [m \in 1..N |-> NormalizeMemory(MemoryDTO(m, h, meta))]
    BY <1>3, <1>4, <1>5, <1>8 DEF Memories, MemoryDTOs
<1>10. IsList(ms, N, h, meta)
    BY <1>6, <1>7, <1>9, ListFacts
<1> QED
    BY <1>3, <1>4, <1>6, <1>7, <1>8, <1>10

(* A request that failed brings nothing.                                   *)
LEMMA FailedBringsNothing ==
    ASSUME NEW r \in Requests, r \in failed
    PROVE  Memories(r) = <<>>
BY DEF Memories

(* Both requests are in, and the one for the list succeeded: what is shown *)
(* is the list of one of them.                                             *)
LEMMA ShownIs ==
    ASSUME HistoryInv, "memories" \notin failed, Memories("memories") # <<>>,
           \A r \in Requests : r \in failed \/ Len(reads[r]) = 3
    PROVE  /\ Source \in Requests /\ Source \notin failed /\ Len(reads[Source]) = 3
           /\ \E N \in Nat :
                 /\ N # 0 /\ Rows(Seen(reads[Source][1])) = 1..N
                 /\ IsList(Shown, N, Seen(reads[Source][1]), Seen(reads[Source][2]))
<1>1. "memories" \in Requests /\ "timeline" \in Requests
    BY DEF Requests
<1>2. Source \in Requests /\ Source \notin failed /\ Memories(Source) # <<>>
  <2>1. CASE Memories("timeline") # <<>>
    BY <2>1, <1>1, FailedBringsNothing DEF Source
  <2>2. CASE Memories("timeline") = <<>>
    BY <2>2, <1>1 DEF Source
  <2> QED
    BY <2>1, <2>2
<1>3. Len(reads[Source]) = 3
    BY <1>2
<1>4. PICK s : s = Source
    OBVIOUS
<1>5. PICK N \in Nat : /\ Rows(Seen(reads[s][1])) = 1..N
                       /\ IsList(Memories(s), N, Seen(reads[s][1]), Seen(reads[s][2]))
    BY <1>2, <1>3, <1>4, MemoriesAre
<1>6. N # 0
    BY <1>2, <1>4, <1>5 DEF IsList
<1> QED
    BY <1>2, <1>3, <1>4, <1>5, <1>6 DEF Shown

(* Something that is shown stays as it is while the database changes.      *)
LEMMA SameMemories ==
    ASSUME HistoryInv, NEW w \in Write, log' = Append(log, w), UNCHANGED <<reads, failed>>,
           NEW r \in Requests, r \in failed \/ Len(reads[r]) = 3
    PROVE  Memories(r)' = Memories(r)
<1>1. CASE r \in failed
    BY <1>1 DEF Memories
<1>2. CASE r \notin failed
  <2>1. reads[r] \in Seq(0..Len(log)) /\ log \in Seq(Write) /\ Len(reads[r]) = 3
    BY <1>2 DEF HistoryInv, TypeOK
  <2>2. reads[r][1] \in 0..Len(log) /\ reads[r][2] \in 0..Len(log)
    BY <2>1
  <2>3. ASSUME NEW k \in 0..Len(log)
        PROVE  SubSeq(log', 1, k) = SubSeq(log, 1, k)
    <3>1. log' \in Seq(Write) /\ Len(log') = Len(log) + 1
          /\ \A i \in DOMAIN log : log'[i] = log[i]
      BY <2>1
    <3> QED
      BY <3>1, <2>1
  <2> QED
    BY <2>2, <2>3 DEF Memories, Seen
<1> QED
    BY <1>1, <1>2

-----------------------------------------------------------------------------
(* The steps.                                                              *)

LEMMA InitMap == Init => MapInvariant
<1> SUFFICES ASSUME Init
             PROVE  MapInvariant
    OBVIOUS
<1>1. IInv
    BY InitInv
<1>2. Rows(log) = {} /\ Len(log) = 0 /\ log \in Seq(Write) /\ DOMAIN log = {}
    BY DEF Init, Rows
<1>3. TypeOK
  <2>1. \A r \in Requests : reads[r] = <<>> /\ Len(reads[r]) = 0 /\ DOMAIN reads[r] = {}
    BY DEF Init
  <2>2. reads \in [Requests -> Seq(0..Len(log))]
    <3>1. <<>> \in Seq(0..Len(log))
      BY EmptySeq
    <3> QED
      BY <3>1 DEF Init
  <2>3. reply \in [stage : {"none", "asked", "explained", "shown"},
                   packed : SUBSET Rows(log), used : SUBSET Rows(log),
                   excluded : SUBSET Rows(log), seen : 0..Len(log)]
    BY <1>2 DEF Init, NoReply
  <2>4. receipt \in [writes : SUBSET (DOMAIN log), seen : 0..Len(log)]
    BY <1>2 DEF Init, NoReceipt
  <2> QED
    BY <1>2, <2>1, <2>2, <2>3, <2>4 DEF Init, TypeOK
<1>4. Numbered
  <2> SUFFICES ASSUME NEW k \in 0..Len(log)
               PROVE  Rows(Seen(k)) = 1..Cardinality(Rows(Seen(k)))
    BY DEF Numbered
  <2>1. DOMAIN Seen(k) = {}
    BY <1>2 DEF Seen
  <2>2. Rows(Seen(k)) = {}
    BY <2>1 DEF Rows
  <2> QED
    BY <2>2, FS_EmptySet
<1>5. VersionsLater /\ ReceiptOwn
    BY <1>2 DEF VersionsLater, ReceiptOwn, Init, NoReceipt
<1>6. /\ Settled /\ FocusFollows /\ LinkedThere
      /\ EvidenceReachable /\ SelectionFollowsAddress
    BY DEF Init, Settled, FocusFollows, LinkedThere, EvidenceReachable,
           SelectionFollowsAddress, GraphShown
<1> QED
    BY <1>1, <1>3, <1>4, <1>5, <1>6 DEF HistoryInv, MapInvariant

(* A write that commits makes the next memory, or none; what it replaces   *)
(* as a version was there.                                                 *)
LEMMA CommitWrites ==
    ASSUME HistoryInv, Commit
    PROVE  \E w \in Write :
              /\ log' = Append(log, w)
              /\ w.new # 0
              /\ w.op # "absorbed" => w.new = Cardinality(Rows(log)) + 1
              /\ w.op \in {"corrected", "reinforced"} => w.old \in Rows(log)
<1> DEFINE next == Cardinality(Rows(log)) + 1
<1>1. log \in Seq(Write) /\ LogGrown
    BY DEF HistoryInv, TypeOK, IInv
<1>2. next \in Nat /\ next # 0
    BY <1>1, RowsFinite
<1> HIDE DEF next
<1>3. \A old \in Rows(log) \union {0} : old \in Nat
    BY <1>1, WriteParts DEF Rows
<1>4. PICK op \in Ops, old \in Rows(log) \union {0}, verified \in BOOLEAN :
          /\ op \in {"created", "summarised"} <=> old = 0
          /\ IF op = "absorbed"
             THEN \E i \in DOMAIN log :
                     log' = Append(log, [op |-> op, old |-> old, new |-> log[i].new,
                                         verified |-> verified])
             ELSE log' = Append(log, [op |-> op, old |-> old, new |-> next,
                                      verified |-> verified])
    BY DEF Commit, next
<1>5. op \in {"corrected", "reinforced"} => old \in Rows(log)
    BY <1>4
<1>6. CASE op = "absorbed"
  <2>1. PICK i \in DOMAIN log : log' = Append(log, [op |-> op, old |-> old, new |-> log[i].new,
                                                    verified |-> verified])
    BY <1>4, <1>6
  <2>2. log[i].new \in Nat /\ log[i].new # 0
    BY <1>1, WriteParts
  <2> DEFINE w == [op |-> op, old |-> old, new |-> log[i].new, verified |-> verified]
  <2>3. w \in Write /\ w.op = op /\ w.new = log[i].new /\ w.old = old
    BY <2>2, <1>3 DEF Write
  <2> HIDE DEF w
  <2> QED
    BY <2>1, <2>2, <2>3, <1>6 DEF w
<1>7. CASE op # "absorbed"
  <2> DEFINE w == [op |-> op, old |-> old, new |-> next, verified |-> verified]
  <2>1. log' = Append(log, w)
    BY <1>4, <1>7
  <2>2. w \in Write /\ w.op = op /\ w.new = next /\ w.old = old
    BY <1>2, <1>3 DEF Write
  <2> HIDE DEF w
  <2> QED
    BY <2>1, <2>2, <1>2, <1>5 DEF next
<1> QED
    BY <1>6, <1>7

LEMMA CommitHistory ==
    ASSUME HistoryInv, Commit
    PROVE  HistoryInv'
<1>1. PICK w \in Write :
          /\ log' = Append(log, w)
          /\ w.new # 0
          /\ w.op # "absorbed" => w.new = Cardinality(Rows(log)) + 1
          /\ w.op \in {"corrected", "reinforced"} => w.old \in Rows(log)
    BY CommitWrites
<1>2. UNCHANGED <<reply, receipt, map, reads, failed>>
    BY DEF Commit
<1>3. IInv'
    BY CommitInv DEF HistoryInv
<1>4. /\ log \in Seq(Write) /\ log' \in Seq(Write)
      /\ Len(log') = Len(log) + 1 /\ Len(log) \in Nat
      /\ DOMAIN log = 1..Len(log) /\ DOMAIN log' = 1..(Len(log) + 1)
      /\ \A i \in DOMAIN log : log'[i] = log[i]
      /\ log'[Len(log) + 1] = w
    BY <1>1 DEF HistoryInv, TypeOK
<1>5. /\ Rows(log) \subseteq Rows(log')
      /\ \A k \in 0..Len(log) : Rows(Seen(k)') = Rows(Seen(k))
    BY <1>1, LogGrows DEF HistoryInv, IInv
<1> DEFINE n == Cardinality(Rows(log))
<1>6. Rows(log) = 1..n /\ n \in Nat
  <2>1. Seen(Len(log)) = log
    BY <1>4, AllSeen DEF Seen
  <2>2. Len(log) \in 0..Len(log)
    BY <1>4
  <2>3. Rows(Seen(Len(log))) = 1..Cardinality(Rows(Seen(Len(log))))
    BY <2>2 DEF HistoryInv, Numbered
  <2> QED
    BY <2>1, <2>3, <1>4, RowsFinite
<1> HIDE DEF n
<1>7. TypeOK'
  <2>1. reads \in [Requests -> Seq(0..Len(log'))]
    BY <1>4 DEF HistoryInv, TypeOK
  <2> QED
    BY <2>1, <1>2, <1>4, <1>5 DEF HistoryInv, TypeOK
<1>8. Numbered'
  <2>1. Rows(log') = 1..Cardinality(Rows(log'))
    <3>1. CASE w.op = "absorbed"
      <4>1. Rows(log') = Rows(log)
        BY <3>1, <1>4 DEF Rows
      <4> QED
        BY <4>1, <1>6 DEF n
    <3>2. CASE w.op # "absorbed"
      <4>1. w.new = n + 1
        BY <3>2, <1>1 DEF n
      <4>2. Rows(log') = Rows(log) \union {w.new}
        BY <3>2, <1>4 DEF Rows
      <4>3. Rows(log') = 1..(n + 1)
        BY <4>1, <4>2, <1>6
      <4>4. Cardinality(1..(n + 1)) = n + 1
        BY <1>6, FS_Interval
      <4> QED
        BY <4>3, <4>4
    <3> QED
      BY <3>1, <3>2
  <2>2. ASSUME NEW k \in 0..Len(log')
        PROVE  Rows(Seen(k)') = 1..Cardinality(Rows(Seen(k)'))
    <3>1. CASE k \in 0..Len(log)
      BY <3>1, <1>5 DEF HistoryInv, Numbered
    <3>2. CASE k = Len(log')
      <4>1. SubSeq(log', 1, Len(log')) = log'
        BY <1>4, AllSeen
      <4> QED
        BY <4>1, <3>2, <2>1 DEF Seen
    <3> QED
      BY <3>1, <3>2, <1>4
  <2> QED
    BY <2>2 DEF Numbered
<1>9. VersionsLater'
  <2> SUFFICES ASSUME NEW i \in DOMAIN log', log'[i].op \in {"corrected", "reinforced"}
               PROVE  log'[i].old < log'[i].new
    BY DEF VersionsLater
  <2>1. CASE i \in DOMAIN log
    BY <2>1, <1>4 DEF HistoryInv, VersionsLater
  <2>2. CASE i = Len(log) + 1
    BY <2>2, <1>1, <1>4, <1>6 DEF n
  <2> QED
    BY <2>1, <2>2, <1>4
<1>10. ReceiptOwn'
    BY <1>2, <1>4 DEF HistoryInv, ReceiptOwn, TypeOK
<1> QED
    BY <1>3, <1>7, <1>8, <1>9, <1>10 DEF HistoryInv

LEMMA CommitMap ==
    ASSUME MapInvariant, Commit
    PROVE  MapInvariant'
<1>1. PICK w \in Write : w.new # 0 /\ log' = Append(log, w)
    BY CommitWrites DEF MapInvariant
<1>2. UNCHANGED <<reply, receipt, map, reads, failed>>
    BY DEF Commit
<1>3. HistoryInv /\ HistoryInv'
    BY CommitHistory DEF MapInvariant
<1>4. Settled' /\ FocusFollows'
    BY <1>2 DEF MapInvariant, Settled, FocusFollows
<1>5. LinkedThere'
  <2>1. /\ Rows(log) \subseteq Rows(log')
        /\ \A k \in 0..Len(log) : Rows(Seen(k)') = Rows(Seen(k))
    BY <1>1, <1>3, LogGrows DEF HistoryInv, IInv
  <2>2. \A r \in Requests : \A i \in DOMAIN reads[r] : reads[r][i] \in 0..Len(log)
    BY <1>3 DEF HistoryInv, TypeOK
  <2> QED
    BY <2>1, <2>2, <1>2 DEF MapInvariant, LinkedThere, Seen
<1>6. EvidenceReachable' /\ SelectionFollowsAddress'
  <2>1. CASE map.state # "shown"
    BY <2>1, <1>2 DEF EvidenceReachable, SelectionFollowsAddress, GraphShown
  <2>2. CASE map.state = "shown"
    <3>1. \A r \in Requests : Memories(r)' = Memories(r)
      BY <2>2, <1>1, <1>2, <1>3, SameMemories DEF MapInvariant, Settled
    <3>2. Memories("memories")' = Memories("memories")
          /\ Memories("timeline")' = Memories("timeline")
      BY <3>1 DEF Requests
    <3>3. Shown' = Shown /\ GraphShown' = GraphShown
      BY <3>2, <1>2 DEF Shown, Source, GraphShown
    <3> QED
      BY <3>3, <1>2 DEF MapInvariant, EvidenceReachable, SelectionFollowsAddress
  <2> QED
    BY <2>1, <2>2
<1> QED
    BY <1>3, <1>4, <1>5, <1>6 DEF MapInvariant

(* What is about the log alone stays while it does.                        *)
LEMMA SameHistory ==
    ASSUME HistoryInv, [Next]_vars, UNCHANGED log, TypeOK', ReceiptOwn'
    PROVE  HistoryInv'
<1>1. IInv'
    BY NextInv DEF HistoryInv
<1>2. Numbered' /\ VersionsLater'
    BY DEF HistoryInv, Numbered, VersionsLater, Seen
<1> QED
    BY <1>1, <1>2 DEF HistoryInv

(* What is about the page alone stays while it does.                       *)
LEMMA SamePage ==
    ASSUME MapInvariant, UNCHANGED <<log, map, reads, failed>>
    PROVE  /\ Settled' /\ FocusFollows' /\ LinkedThere'
           /\ EvidenceReachable' /\ SelectionFollowsAddress'
<1>1. Settled' /\ FocusFollows' /\ LinkedThere'
    BY DEF MapInvariant, Settled, FocusFollows, LinkedThere, Seen
<1>2. Shown' = Shown /\ GraphShown' = GraphShown
    BY DEF Shown, Source, GraphShown, Memories, Seen
<1> QED
    BY <1>1, <1>2 DEF MapInvariant, EvidenceReachable, SelectionFollowsAddress

(* An answer, or a receipt, on its way to the screen.                      *)
LEMMA AnswerMap ==
    ASSUME MapInvariant, Ask \/ Explain \/ ShowReply \/ ShowReceipt
    PROVE  MapInvariant'
<1>1. UNCHANGED <<log, map, reads, failed>>
    BY DEF Ask, Explain, ShowReply, ShowReceipt
<1>2. [Next]_vars
    BY DEF Next
<1>3. log \in Seq(Write) /\ HistoryInv
    BY DEF MapInvariant, HistoryInv, TypeOK
<1>4. TypeOK' /\ ReceiptOwn'
  <2>1. CASE Ask
    <3>1. PICK packed \in SUBSET Active(log) :
              reply' = [NoReply EXCEPT !.stage = "asked", !.packed = packed]
      BY <2>1 DEF Ask
    <3>2. packed \subseteq Rows(log) /\ 0 \in 0..Len(log)
      BY <3>1, <1>3 DEF Active
    <3>3. UNCHANGED receipt
      BY <2>1 DEF Ask
    <3> QED
      BY <3>1, <3>2, <3>3, <1>1, <1>3 DEF HistoryInv, TypeOK, ReceiptOwn, NoReply
  <2>2. CASE Explain
    <3>1. PICK used \in SUBSET reply.packed :
              reply' = [reply EXCEPT !.stage = "explained", !.used = used,
                                     !.excluded = Excluded(log, reply.packed)]
      BY <2>2 DEF Explain
    <3>2. Excluded(log, reply.packed) \subseteq Rows(log)
      BY DEF Excluded
    <3>3. UNCHANGED receipt
      BY <2>2 DEF Explain
    <3> QED
      BY <3>1, <3>2, <3>3, <1>1, <1>3 DEF HistoryInv, TypeOK, ReceiptOwn
  <2>3. CASE ShowReply
    <3>1. reply' = [reply EXCEPT !.stage = "shown", !.seen = Len(log)] /\ UNCHANGED receipt
      BY <2>3 DEF ShowReply
    <3>2. Len(log) \in 0..Len(log)
      BY <1>3
    <3> QED
      BY <3>1, <3>2, <1>1, <1>3 DEF HistoryInv, TypeOK, ReceiptOwn
  <2>4. CASE ShowReceipt
    <3>1. PICK first \in DOMAIN log : \E last \in first..Len(log) :
              /\ \A i \in first..last : log[i].op \in {"created", "corrected", "reinforced"}
              /\ receipt' = [writes |-> first..last, seen |-> Len(log)]
      BY <2>4 DEF ShowReceipt
    <3>2. PICK last \in first..Len(log) :
              /\ \A i \in first..last : log[i].op \in {"created", "corrected", "reinforced"}
              /\ receipt' = [writes |-> first..last, seen |-> Len(log)]
      BY <3>1
    <3>3. first..last \subseteq DOMAIN log /\ Len(log) \in 0..Len(log)
      BY <1>3, <3>1, <3>2
    <3>4. UNCHANGED reply
      BY <2>4 DEF ShowReceipt
    <3>5. receipt' \in [writes : SUBSET (DOMAIN log), seen : 0..Len(log)]
      BY <3>2, <3>3
    <3>6. TypeOK'
      BY <3>4, <3>5, <1>1, <1>3 DEF HistoryInv, TypeOK
    <3>7. ReceiptOwn'
      BY <3>2, <1>1 DEF ReceiptOwn
    <3> QED
      BY <3>6, <3>7
  <2> QED
    BY <2>1, <2>2, <2>3, <2>4
<1> QED
    BY <1>1, <1>2, <1>3, <1>4, SameHistory, SamePage DEF MapInvariant

(* Links name memories.                                                    *)
LEMMA LinksInRows ==
    ASSUME HistoryInv, NEW m \in MessageLinks(Message) \union ReceiptLinks(Changes)
    PROVE  m \in Rows(log) /\ m \in Nat
<1>1. LogGrown /\ log \in Seq(Write) /\ Len(log) \in Nat
    BY DEF HistoryInv, IInv, TypeOK
<1>2. \A o \in Rows(log) : o \in Nat
    BY <1>1, WriteParts DEF Rows
<1>3. CASE m \in MessageLinks(Message)
  <2> DEFINE rep == IF reply.stage = "shown" THEN reply ELSE NoReply
             h == Seen(reply.seen)
             dto == MessageDTO(rep, h)
  <2>1. \/ \E d \in dto.memoryContext : m = NormalizeMemory(d).id
        \/ \E d \in dto.excludedMemories : m = NormalizeExcluded(d).memoryId
    BY <1>3 DEF MessageLinks, Message, Groups
  <2>2. \A d \in dto.memoryContext \union dto.excludedMemories :
            \E o \in Rows(h) : d = MemoryDTO(o, h, h)
    BY DEF MessageDTO
  <2>3. m \in Rows(h)
    <3>1. \A o : MemoryDTO(o, h, h).id = o
      BY DEF MemoryDTO
    <3>2. \A d : NormalizeMemory(d).id = d.id /\ NormalizeExcluded(d).memoryId = d.id
      BY DEF NormalizeMemory, NormalizeExcluded
    <3> HIDE DEF dto, h
    <3> QED
      BY <2>1, <2>2, <3>1, <3>2
  <2>4. Rows(h) \subseteq Rows(log)
    <3>1. reply.seen \in 0..Len(log) /\ reply.seen \in 0..reply.seen
      BY <1>1 DEF HistoryInv, TypeOK
    <3> QED
      BY <1>1, <3>1, RowsGrow
  <2> QED
    BY <1>2, <2>3, <2>4
<1>4. CASE m \in ReceiptLinks(Changes)
  <2>1. PICK i \in receipt.writes :
            m = ChangeTarget(NormalizeChange(ChangeDTO(log[i], Seen(receipt.seen))))
    BY <1>4 DEF ReceiptLinks, Changes
  <2>2. i \in DOMAIN log /\ log[i].new # 0 /\ log[i].op # "absorbed"
    BY <1>1 DEF HistoryInv, TypeOK, ReceiptOwn, LogGrown
  <2>3. m = log[i].new
    BY <2>1, <2>2 DEF ChangeTarget, NormalizeChange, ChangeDTO, Or
  <2>4. m \in Rows(log)
    BY <2>2, <2>3 DEF Rows
  <2> QED
    BY <1>2, <2>4
<1> QED
    BY <1>3, <1>4

(* The page is opened, loaded again or left.                               *)
LEMMA PageMap ==
    ASSUME MapInvariant, OpenMap \/ Retry \/ ReloadMap \/ CloseMap
    PROVE  MapInvariant'
<1>1. UNCHANGED log /\ Load
    BY DEF OpenMap, Retry, ReloadMap, CloseMap
<1>2. [Next]_vars
    BY DEF Next
<1>3. HistoryInv /\ log \in Seq(Write) /\ Len(log) \in Nat /\ TypeOK
    BY DEF MapInvariant, HistoryInv, TypeOK
<1>4. /\ failed' = {}
      /\ reads' \in [Requests -> Seq(0..Len(log))]
      /\ \A r \in Requests : reads'[r] = <<>> /\ Len(reads'[r]) = 0 /\ DOMAIN reads'[r] = {}
  <2>1. reads' = [r \in Requests |-> <<>>] /\ failed' = {}
    BY <1>1 DEF Load
  <2>2. <<>> \in Seq(0..Len(log))
    BY EmptySeq
  <2> QED
    BY <2>1, <2>2
<1>5. /\ map' \in [state : {"closed", "loading", "error", "shown"}, focus : Nat, url : Nat,
                   linked : Nat, selected : Nat, had : BOOLEAN]
      /\ map'.state # "shown"
      /\ map'.state \in {"loading", "error"} => map'.focus = map'.url
      /\ map'.linked # 0 => map'.url = map'.linked /\ map'.linked \in Rows(log)
  <2>1. CASE OpenMap
    <3>1. PICK f \in MessageLinks(Message) \union ReceiptLinks(Changes) \union {0} :
              map' = [state |-> "loading", focus |-> f, url |-> f, linked |-> f, selected |-> 0,
                      had |-> Rows(log) # {}]
      BY <2>1 DEF OpenMap
    <3>2. f \in Nat /\ (f # 0 => f \in Rows(log))
      BY <1>3, LinksInRows
    <3> QED
      BY <3>1, <3>2
  <2>2. CASE Retry
    BY <2>2, <1>3 DEF Retry, MapInvariant, FocusFollows, LinkedThere, TypeOK
  <2>3. CASE ReloadMap
    BY <2>3, <1>3 DEF ReloadMap, MapInvariant, FocusFollows, LinkedThere, TypeOK
  <2>4. CASE CloseMap
    BY <2>4, <1>3 DEF CloseMap, MapInvariant, FocusFollows, LinkedThere, TypeOK
  <2> QED
    BY <2>1, <2>2, <2>3, <2>4
<1>6. TypeOK' /\ ReceiptOwn'
  <2>1. CASE OpenMap
    <3>1. reply' = NoReply /\ receipt' = NoReceipt
      BY <2>1 DEF OpenMap
    <3>2. 0 \in 0..Len(log)
      BY <1>3
    <3>3. reply' \in [stage : {"none", "asked", "explained", "shown"},
                      packed : SUBSET Rows(log), used : SUBSET Rows(log),
                      excluded : SUBSET Rows(log), seen : 0..Len(log)]
      BY <3>1, <3>2 DEF NoReply
    <3>4. receipt' \in [writes : SUBSET (DOMAIN log), seen : 0..Len(log)] /\ receipt'.writes = {}
      BY <3>1, <3>2 DEF NoReceipt
    <3> QED
      BY <3>3, <3>4, <1>1, <1>3, <1>4, <1>5 DEF TypeOK, ReceiptOwn
  <2>2. CASE Retry \/ ReloadMap \/ CloseMap
    <3>1. UNCHANGED <<reply, receipt>>
      BY <2>2 DEF Retry, ReloadMap, CloseMap
    <3> QED
      BY <3>1, <1>1, <1>3, <1>4, <1>5 DEF HistoryInv, TypeOK, ReceiptOwn
  <2> QED
    BY <2>1, <2>2
<1>7. HistoryInv'
    BY <1>1, <1>2, <1>3, <1>6, SameHistory
<1>8. Settled' /\ FocusFollows' /\ LinkedThere'
    BY <1>1, <1>4, <1>5 DEF Settled, FocusFollows, LinkedThere
<1>9. EvidenceReachable' /\ SelectionFollowsAddress'
    BY <1>5 DEF EvidenceReachable, SelectionFollowsAddress, GraphShown
<1> QED
    BY <1>7, <1>8, <1>9 DEF MapInvariant

(* A request reads on, or fails.                                           *)
LEMMA RequestMap ==
    ASSUME MapInvariant, NEW r \in Requests, ReadOn(r) \/ FailRequest(r)
    PROVE  MapInvariant'
<1>1. UNCHANGED <<log, reply, receipt, map>> /\ map.state = "loading"
    BY DEF ReadOn, FailRequest
<1>2. [Next]_vars
    BY DEF Next
<1>3. /\ HistoryInv /\ log \in Seq(Write) /\ Len(log) \in Nat /\ TypeOK
      /\ reads \in [Requests -> Seq(0..Len(log))]
    BY DEF MapInvariant, HistoryInv, TypeOK
<1>4. failed' \subseteq Requests
    BY <1>3 DEF ReadOn, FailRequest, TypeOK
<1>5. /\ reads' \in [Requests -> Seq(0..Len(log))]
      /\ \A o \in Requests :
            /\ Len(reads'[o]) <= 3
            /\ \A i, j \in DOMAIN reads'[o] : i < j => reads'[o][i] <= reads'[o][j]
            /\ \A i \in DOMAIN reads'[o] :
                  \/ i \in DOMAIN reads[o] /\ reads'[o][i] = reads[o][i]
                  \/ reads'[o][i] = Len(log)
  <2>1. CASE ReadOn(r)
    <3>1. /\ reads' = [reads EXCEPT ![r] = Append(reads[r], Len(log))]
          /\ Len(reads[r]) < 3
      BY <2>1 DEF ReadOn, Read
    <3> DEFINE s == reads[r]
    <3>2. s \in Seq(0..Len(log)) /\ Len(log) \in 0..Len(log)
      BY <1>3
    <3>3. Append(s, Len(log)) \in Seq(0..Len(log))
      BY <3>2, AppendProperties
    <3>4. /\ Len(Append(s, Len(log))) = Len(s) + 1
          /\ DOMAIN Append(s, Len(log)) = 1..(Len(s) + 1)
          /\ DOMAIN s = 1..Len(s) /\ Len(s) \in Nat
          /\ \A i \in 1..Len(s) : Append(s, Len(log))[i] = s[i] /\ s[i] <= Len(log)
          /\ Append(s, Len(log))[Len(s) + 1] = Len(log)
      BY <3>2
    <3>5. \A i, j \in DOMAIN s : i < j => s[i] <= s[j]
      BY <1>3 DEF TypeOK
    <3>6. /\ reads'[r] = Append(s, Len(log))
          /\ \A o \in Requests \ {r} : reads'[o] = reads[o]
      BY <3>1, <1>3
    <3>7. \A i, j \in DOMAIN Append(s, Len(log)) :
              i < j => Append(s, Len(log))[i] <= Append(s, Len(log))[j]
      <4> SUFFICES ASSUME NEW i \in DOMAIN Append(s, Len(log)),
                          NEW j \in DOMAIN Append(s, Len(log)), i < j
                   PROVE  Append(s, Len(log))[i] <= Append(s, Len(log))[j]
        OBVIOUS
      <4>1. i \in 1..Len(s)
        BY <3>4
      <4>2. j \in 1..Len(s) \/ j = Len(s) + 1
        BY <3>4
      <4> HIDE DEF s
      <4> QED
        BY <4>1, <4>2, <3>4, <3>5
    <3>8. /\ Len(reads'[r]) <= 3
          /\ \A i, j \in DOMAIN reads'[r] : i < j => reads'[r][i] <= reads'[r][j]
          /\ \A i \in DOMAIN reads'[r] :
                \/ i \in DOMAIN reads[r] /\ reads'[r][i] = reads[r][i]
                \/ reads'[r][i] = Len(log)
      BY <3>1, <3>4, <3>6, <3>7
    <3>9. reads' \in [Requests -> Seq(0..Len(log))]
      BY <3>1, <3>3, <1>3
    <3> QED
      BY <3>6, <3>8, <3>9, <1>3 DEF TypeOK
  <2>2. CASE FailRequest(r)
    <3>1. reads' = [reads EXCEPT ![r] = <<>>]
      BY <2>2 DEF FailRequest
    <3>2. <<>> \in Seq(0..Len(log)) /\ Len(<<>>) = 0 /\ DOMAIN <<>> = {}
      BY EmptySeq
    <3>3. /\ reads' \in [Requests -> Seq(0..Len(log))]
          /\ Len(reads'[r]) = 0 /\ DOMAIN reads'[r] = {}
          /\ \A o \in Requests \ {r} : reads'[o] = reads[o]
      BY <3>1, <3>2, <1>3
    <3>4. ASSUME NEW o \in Requests
          PROVE  /\ Len(reads'[o]) <= 3
                 /\ \A i, j \in DOMAIN reads'[o] : i < j => reads'[o][i] <= reads'[o][j]
                 /\ \A i \in DOMAIN reads'[o] :
                       i \in DOMAIN reads[o] /\ reads'[o][i] = reads[o][i]
      <4>1. CASE o = r
        BY <4>1, <3>3
      <4>2. CASE o # r
        BY <4>2, <3>3, <1>3 DEF TypeOK
      <4> QED
        BY <4>1, <4>2
    <3> QED
      BY <3>3, <3>4
  <2> QED
    BY <2>1, <2>2
<1>6. HistoryInv'
  <2>1. TypeOK'
    BY <1>1, <1>3, <1>4, <1>5 DEF TypeOK
  <2>2. ReceiptOwn'
    BY <1>1, <1>3 DEF HistoryInv, ReceiptOwn
  <2> QED
    BY <2>1, <2>2, <1>1, <1>2, <1>3, SameHistory
<1>7. LinkedThere'
  <2>1. SubSeq(log, 1, Len(log)) = log
    BY <1>3, AllSeen
  <2> QED
    BY <2>1, <1>1, <1>5 DEF MapInvariant, LinkedThere, Seen
<1>8. /\ Settled' /\ FocusFollows'
      /\ EvidenceReachable' /\ SelectionFollowsAddress'
    BY <1>1 DEF MapInvariant, Settled, FocusFollows, EvidenceReachable,
                SelectionFollowsAddress, GraphShown
<1> QED
    BY <1>6, <1>7, <1>8 DEF MapInvariant

(* Both requests are in: the page shows the memories, or an error.         *)
LEMMA SettleMap ==
    ASSUME MapInvariant, Settle
    PROVE  MapInvariant'
<1>1. /\ map.state = "loading" /\ UNCHANGED <<log, reply, receipt, reads, failed>>
      /\ \A r \in Requests : r \in failed \/ Len(reads[r]) = 3
    BY DEF Settle
<1>2. [Next]_vars
    BY DEF Next
<1>3. HistoryInv /\ TypeOK /\ map.focus = map.url
    BY <1>1 DEF MapInvariant, HistoryInv, FocusFollows
<1>4. Shown' = Shown /\ Memories("memories")' = Memories("memories")
    BY <1>1 DEF Shown, Source, Memories, Seen
<1>5. CASE Rejected
  <2>1. map' = [map EXCEPT !.state = "error"]
    BY <1>5 DEF Settle
  <2>2. TypeOK' /\ ReceiptOwn'
    BY <2>1, <1>1, <1>3 DEF HistoryInv, TypeOK, ReceiptOwn
  <2>3. HistoryInv'
    BY <2>2, <1>1, <1>2, <1>3, SameHistory
  <2>4. map'.state = "error" /\ map'.focus = map.focus /\ map'.url = map.url
        /\ map'.linked = map.linked
    BY <2>1, <1>3 DEF TypeOK
  <2> QED
    BY <2>3, <2>4, <1>1, <1>3
       DEF MapInvariant, Settled, FocusFollows, LinkedThere, EvidenceReachable,
           SelectionFollowsAddress, GraphShown, Seen
<1>6. CASE ~Rejected
  <2> DEFINE chosen == IF Shown = <<>> THEN 0 ELSE Selected(Shown, map.focus)
  <2>1. map' = [map EXCEPT !.state = "shown", !.selected = chosen]
    BY <1>6 DEF Settle
  <2>2. /\ Memories("memories") # <<>> =>
             /\ chosen \in IdsOf(Shown) /\ (map.focus \in IdsOf(Shown) => chosen = map.focus)
             /\ map.linked # 0 => map.linked \in IdsOf(Shown)
        /\ chosen \in Nat
    <3>1. CASE Memories("memories") = <<>>
      <4>1. CASE Memories("timeline") = <<>>
        BY <4>1, <3>1 DEF Shown, Source
      <4>2. CASE Memories("timeline") # <<>>
        <5>1. "timeline" \in Requests /\ "timeline" \notin failed
          BY <4>2, FailedBringsNothing DEF Requests
        <5>2. PICK N \in Nat : IsList(Memories("timeline"), N, Seen(reads["timeline"][1]),
                                       Seen(reads["timeline"][2]))
          BY <5>1, <1>1, <1>3, MemoriesAre
        <5>3. /\ N # 0 /\ DOMAIN Memories("timeline") = 1..N
              /\ IdsOf(Memories("timeline")) = 1..N
          BY <5>2, <4>2 DEF IsList
        <5>4. Shown = Memories("timeline")
          BY <4>2 DEF Shown, Source
        <5>5. chosen = Selected(Shown, map.focus)
          BY <5>4, <4>2
        <5> QED
          BY <3>1, <5>3, <5>4, <5>5, SelectedShown
      <4> QED
        BY <4>1, <4>2
    <3>2. CASE Memories("memories") # <<>>
      <4>1. "memories" \notin failed
        BY <1>6 DEF Rejected
      <4>2. Source \in Requests /\ Source \notin failed /\ Len(reads[Source]) = 3
        BY <4>1, <3>2, <1>1, <1>3, ShownIs
      <4>3. PICK N \in Nat :
               /\ N # 0 /\ Rows(Seen(reads[Source][1])) = 1..N
               /\ IsList(Shown, N, Seen(reads[Source][1]), Seen(reads[Source][2]))
        BY <4>1, <3>2, <1>1, <1>3, ShownIs
      <4>4. DOMAIN Shown = 1..N /\ IdsOf(Shown) = 1..N /\ Shown # <<>>
        BY <4>3 DEF IsList
      <4>5. /\ chosen \in IdsOf(Shown)
            /\ map.focus \in IdsOf(Shown) => chosen = map.focus
        BY <4>4, SelectedShown
      <4>6. map.linked # 0 => map.linked \in IdsOf(Shown)
        <5>1. reads[Source] \in Seq(0..Len(log))
          BY <4>2, <1>3 DEF TypeOK
        <5>2. 1 \in DOMAIN reads[Source]
          BY <5>1, <4>2
        <5>3. map.linked # 0 => map.linked \in Rows(Seen(reads[Source][1]))
          BY <5>2, <4>2 DEF MapInvariant, LinkedThere
        <5> QED
          BY <5>3, <4>3, <4>4
      <4> QED
        BY <4>4, <4>5, <4>6
    <3> QED
      BY <3>1, <3>2
  <2> HIDE DEF chosen
  <2>3. TypeOK' /\ ReceiptOwn'
    BY <2>1, <2>2, <1>1, <1>3 DEF HistoryInv, TypeOK, ReceiptOwn
  <2>4. HistoryInv'
    BY <2>3, <1>1, <1>2, <1>3, SameHistory
  <2>5. /\ map'.state = "shown" /\ map'.focus = map.focus /\ map'.url = map.url
        /\ map'.linked = map.linked /\ map'.selected = chosen
    BY <2>1, <1>3 DEF TypeOK
  <2>6. Settled' /\ FocusFollows' /\ LinkedThere'
    BY <2>5, <1>1 DEF MapInvariant, Settled, FocusFollows, LinkedThere, Seen
  <2>7. GraphShown' => Memories("memories") # <<>>
    BY <1>4 DEF GraphShown
  <2>8. EvidenceReachable' /\ SelectionFollowsAddress'
    BY <2>2, <2>5, <2>7, <1>3, <1>4
       DEF MapInvariant, LinkedThere, EvidenceReachable, SelectionFollowsAddress
  <2> QED
    BY <2>4, <2>6, <2>8 DEF MapInvariant
<1> QED
    BY <1>5, <1>6

(* Something is selected.                                                  *)
LEMMA SelectMap ==
    ASSUME MapInvariant, Select
    PROVE  MapInvariant'
<1>1. PICK m \in IdsOf(Shown) : map' = [map EXCEPT !.selected = m, !.url = m, !.linked = 0]
    BY DEF Select, Chosen
<1>2. GraphShown /\ UNCHANGED <<log, reply, receipt, reads, failed>>
    BY DEF Select
<1>3. [Next]_vars
    BY DEF Next
<1>4. HistoryInv /\ TypeOK
    BY DEF MapInvariant, HistoryInv
<1>5. Shown' = Shown
    BY <1>2 DEF Shown, Source, Memories, Seen
<1>6. m \in Nat
  <2>1. "memories" \notin failed /\ \A r \in Requests : r \in failed \/ Len(reads[r]) = 3
    BY <1>2, <1>4 DEF HistoryInv, MapInvariant, Settled, GraphShown, IInv, ReadsLater
  <2>2. PICK N \in Nat : IsList(Shown, N, Seen(reads[Source][1]), Seen(reads[Source][2]))
    BY <2>1, <1>2, <1>4, ShownIs DEF GraphShown
  <2>3. IdsOf(Shown) = 1..N
    BY <2>2 DEF IsList
  <2> QED
    BY <2>3
<1>7. /\ map'.state = "shown" /\ map'.url = m /\ map'.linked = 0 /\ map'.selected = m
    BY <1>1, <1>2, <1>4 DEF TypeOK, GraphShown
<1>8. TypeOK' /\ ReceiptOwn'
    BY <1>1, <1>2, <1>4, <1>6 DEF HistoryInv, TypeOK, ReceiptOwn
<1>9. HistoryInv'
    BY <1>8, <1>2, <1>3, <1>4, SameHistory
<1>10. Settled' /\ FocusFollows' /\ LinkedThere'
    BY <1>2, <1>7 DEF MapInvariant, Settled, FocusFollows, LinkedThere, GraphShown
<1>11. EvidenceReachable' /\ SelectionFollowsAddress'
    BY <1>1, <1>5, <1>7 DEF EvidenceReachable, SelectionFollowsAddress
<1> QED
    BY <1>9, <1>10, <1>11 DEF MapInvariant

LEMMA NextMap == MapInvariant /\ [Next]_vars => MapInvariant'
<1> SUFFICES ASSUME MapInvariant, [Next]_vars
             PROVE  MapInvariant'
    OBVIOUS
<1>1. CASE Commit
    BY <1>1, CommitMap
<1>2. CASE Ask \/ Explain \/ ShowReply \/ ShowReceipt
    BY <1>2, AnswerMap
<1>3. CASE OpenMap \/ Retry \/ ReloadMap \/ CloseMap
    BY <1>3, PageMap
<1>4. CASE \E r \in Requests : ReadOn(r) \/ FailRequest(r)
    BY <1>4, RequestMap
<1>5. CASE Settle
    BY <1>5, SettleMap
<1>6. CASE Select
    BY <1>6, SelectMap
<1>7. CASE UNCHANGED vars
  <2>1. UNCHANGED <<log, reply, receipt, map, reads, failed>>
    BY <1>7 DEF vars
  <2>2. TypeOK' /\ ReceiptOwn'
    BY <2>1 DEF MapInvariant, HistoryInv, TypeOK, ReceiptOwn
  <2> QED
    BY <2>1, <2>2, SamePage, SameHistory DEF MapInvariant
<1> QED
    BY <1>1, <1>2, <1>3, <1>4, <1>5, <1>6, <1>7 DEF Next

(* Every state of a workspace's memories and of the page satisfies it.     *)
THEOREM MapInvariantHolds == Spec => []MapInvariant
<1> QED
    BY InitMap, NextMap, PTL DEF Spec

-----------------------------------------------------------------------------
(* What it means for the map.                                              *)

(* The state of the screens is what it is declared to be; a request never  *)
(* sees less than it saw before.                                           *)
THEOREM ScreensTyped == Spec => []TypeOK
<1>1. MapInvariant => TypeOK
    BY DEF MapInvariant, HistoryInv
<1> QED
    BY <1>1, MapInvariantHolds, PTL

(* A link under an answer or in a receipt leads to the memory it names,    *)
(* however much is written until the map is read.                          *)
THEOREM LinksLeadThere == Spec => []EvidenceReachable
<1>1. MapInvariant => EvidenceReachable
    BY DEF MapInvariant
<1> QED
    BY <1>1, MapInvariantHolds, PTL

(* What is selected is shown, and is what the address says.                *)
THEOREM AddressHolds == Spec => []SelectionFollowsAddress
<1>1. MapInvariant => SelectionFollowsAddress
    BY DEF MapInvariant
<1> QED
    BY <1>1, MapInvariantHolds, PTL

(* A successor was written as one.                                         *)
LEMMA SuccessorWritten ==
    ASSUME LogGrown, NEW k \in 0..Len(log), NEW m, Successor(Seen(k), m) # 0
    PROVE  \E i \in 1..k : Pair(i) = <<m, Successor(Seen(k), m)>>
<1>1. /\ DOMAIN Seen(k) = 1..k /\ \A i \in 1..k : Seen(k)[i] = log[i]
      /\ k \in Nat
    BY SeenWrites DEF LogGrown
<1> DEFINE W == {i \in DOMAIN Seen(k) : Seen(k)[i].old = m}
           last == CHOOSE i \in W : \A j \in W : j <= i
<1>2. Successor(Seen(k), m) = IF W = {} THEN 0 ELSE Seen(k)[last].new
    BY DEF Successor
<1>3. W # {}
    BY <1>2
<1>4. last \in W
  <2>1. W \in SUBSET (0..k)
    BY <1>1
  <2> HIDE DEF W
  <2>2. \E i \in W : \A j \in W : j <= i
    BY <2>1, <1>1, <1>3, Greatest
  <2> QED
    BY <2>2
<1>5. last \in 1..k /\ log[last].old = m /\ log[last].new = Successor(Seen(k), m)
    BY <1>1, <1>2, <1>3, <1>4
<1> HIDE DEF last
<1> QED
    BY <1>5 DEF Pair

(* A relation was written as what it is.                                   *)
LEMMA RelationWritten ==
    ASSUME LogGrown, NEW k \in 0..Len(log), NEW r \in Relations(Seen(k))
    PROVE  \E i \in 1..k :
              /\ Pair(i) = <<r[1], r[2]>>
              /\ log[i].op \in {"corrected", "reinforced"}
              /\ r[3] = "supersedes" => log[i].op = "corrected"
<1>1. DOMAIN Seen(k) = 1..k /\ \A i \in 1..k : Seen(k)[i] = log[i]
    BY SeenWrites
<1>2. PICK i \in 1..k :
          /\ log[i].op \in {"corrected", "reinforced"}
          /\ r = <<log[i].old, log[i].new,
                   IF log[i].op = "corrected" THEN "supersedes" ELSE "reinforces">>
    BY <1>1 DEF Relations
<1> QED
    BY <1>2 DEF Pair

(* What was written as a relation is one for whoever looks later.          *)
LEMMA WrittenRelated ==
    ASSUME LogGrown, NEW k \in 0..Len(log), NEW i \in 1..k,
           log[i].op \in {"corrected", "reinforced"}
    PROVE  Linked(Relations(Seen(k)), log[i].old, log[i].new)
<1>1. i \in DOMAIN Seen(k) /\ Seen(k)[i] = log[i]
    BY SeenWrites
<1> DEFINE line == <<log[i].old, log[i].new,
                     IF log[i].op = "corrected" THEN "supersedes" ELSE "reinforces">>
<1>2. line \in Relations(Seen(k)) /\ line[1] = log[i].old /\ line[2] = log[i].new
    BY <1>1 DEF Relations
<1> HIDE DEF line
<1> QED
    BY <1>2 DEF Linked

(* What the map is drawn from.                                             *)
LEMMA GraphReads ==
    ASSUME MapInvariant, GraphShown
    PROVE  /\ LogGrown /\ VersionsLater
           /\ reads[Source][1] \in 0..Len(log)
           /\ reads[Source][2] \in 0..Len(log)
           /\ reads["memories"][3] \in 0..Len(log)
           /\ \E N \in Nat :
                 IsList(Shown, N, Seen(reads[Source][1]), Seen(reads[Source][2]))
<1>1. /\ HistoryInv /\ LogGrown /\ VersionsLater
      /\ reads \in [Requests -> Seq(0..Len(log))]
    BY DEF MapInvariant, HistoryInv, IInv, TypeOK
<1>2. "memories" \notin failed /\ \A r \in Requests : r \in failed \/ Len(reads[r]) = 3
    BY <1>1 DEF MapInvariant, Settled, GraphShown, HistoryInv, IInv, ReadsLater
<1>3. Source \in Requests /\ Len(reads[Source]) = 3
    BY <1>1, <1>2, ShownIs DEF GraphShown
<1>4. "memories" \in Requests /\ Len(reads["memories"]) = 3
    BY <1>2 DEF Requests
<1>5. PICK N \in Nat : IsList(Shown, N, Seen(reads[Source][1]), Seen(reads[Source][2]))
    BY <1>1, <1>2, ShownIs DEF GraphShown
<1>6. ASSUME NEW r \in Requests, Len(reads[r]) = 3, NEW i \in 1..3
      PROVE  reads[r][i] \in 0..Len(log)
  <2>1. reads[r] \in Seq(0..Len(log))
    BY <1>1
  <2> QED
    BY <2>1, <1>6
<1> QED
    BY <1>1, <1>3, <1>4, <1>5, <1>6

(* Every line of the map stands for a supersession that took place; no     *)
(* confirmation is drawn as a correction if the relations that the page    *)
(* has are not older than its list.                                        *)
THEOREM LinesTrue == Spec => []LinksAreTrue
<1>1. ASSUME MapInvariant, GraphShown
      PROVE  \A r \in Links :
                 /\ \E i \in DOMAIN log : Pair(i) = <<r[1], r[2]>>
                 /\ reads[Source][1] <= reads["memories"][3] /\ r[3] = "supersedes" =>
                        \E i \in DOMAIN log : Pair(i) = <<r[1], r[2]>> /\ log[i].op # "reinforced"
  <2>1. PICK k1 \in 0..Len(log), k2 \in 0..Len(log), k3 \in 0..Len(log) :
            k1 = reads[Source][1] /\ k2 = reads[Source][2] /\ k3 = reads["memories"][3]
    BY <1>1, GraphReads
  <2>2. LogGrown /\ DOMAIN log = 1..Len(log) /\ Len(log) \in Nat
    BY <1>1, GraphReads DEF LogGrown
  <2>3. PICK ms : ms = Shown
    OBVIOUS
  <2>4. PICK N \in Nat : IsList(ms, N, Seen(k1), Seen(k2))
    BY <1>1, <2>1, <2>3, GraphReads
  <2>5. PICK S : S = Relations(Seen(k3))
    OBVIOUS
  <2>6. Links = Drawn(ms, S)
    BY <2>1, <2>3, <2>5 DEF Links, Supplied
  <2> DEFINE Good(i) == k1 <= k3 => log[i].op # "reinforced"
             Line(i) == <<log[i].old, log[i].new, "supersedes">>
  <2>7. PICK T : T = {Line(i) : i \in {j \in DOMAIN log : Good(j)}}
    OBVIOUS
  <2>8. ASSUME NEW m \in 1..N
        PROVE  /\ ms[m].prior \in IdsOf(ms) => <<ms[m].prior, ms[m].id, "supersedes">> \in T
               /\ ms[m].supersededById \in IdsOf(ms) /\ ~Linked(S, ms[m].id, ms[m].supersededById)
                      => <<ms[m].id, ms[m].supersededById, "supersedes">> \in T
    <3>1. ms[m].id = m /\ IdsOf(ms) = 1..N /\ ms[m].supersededById = Successor(Seen(k1), m)
      BY <2>4 DEF IsList
    <3>2. ASSUME ms[m].prior \in 1..N
          PROVE  <<ms[m].prior, m, "supersedes">> \in T
      <4> DEFINE line == <<ms[m].prior, m, "supersedes">>
      <4>1. line \in Relations(Seen(k2))
        BY <3>2, <2>4 DEF IsList
      <4>2. line[1] = ms[m].prior /\ line[2] = m /\ line[3] = "supersedes"
        OBVIOUS
      <4> HIDE DEF line
      <4>3. PICK i \in 1..k2 : /\ Pair(i) = <<line[1], line[2]>>
                               /\ log[i].op = "corrected"
        BY <4>1, <4>2, <2>2, RelationWritten
      <4>4. i \in DOMAIN log /\ Good(i) /\ Line(i) = <<ms[m].prior, m, "supersedes">>
        BY <4>2, <4>3, <2>2 DEF Pair
      <4> HIDE DEF Good, Line
      <4> QED
        BY <4>4, <2>7
    <3>3. ASSUME ms[m].supersededById \in 1..N, ~Linked(S, m, ms[m].supersededById)
          PROVE  <<m, ms[m].supersededById, "supersedes">> \in T
      <4>1. PICK i \in 1..k1 : Pair(i) = <<m, ms[m].supersededById>>
        BY <3>1, <3>3, <2>2, SuccessorWritten
      <4>2. i \in DOMAIN log /\ log[i].old = m /\ log[i].new = ms[m].supersededById
        BY <4>1, <2>2 DEF Pair
      <4>3. Good(i)
        <5> SUFFICES ASSUME k1 <= k3, log[i].op = "reinforced"
                     PROVE  FALSE
          OBVIOUS
        <5>1. i \in 1..k3
          BY <2>2
        <5> QED
          BY <5>1, <4>2, <3>3, <2>2, <2>5, WrittenRelated
      <4>4. Line(i) = <<m, ms[m].supersededById, "supersedes">>
        BY <4>2
      <4> HIDE DEF Good, Line
      <4> QED
        BY <4>2, <4>3, <4>4, <2>7
    <3> QED
      BY <3>1, <3>2, <3>3
  <2>9. Drawn(ms, S) \subseteq S \union T
    <3>1. Len(ms) = N
      BY <2>4 DEF IsList
    <3> QED
      BY <3>1, <2>8, DrawnTrue
  <2>10. ASSUME NEW r \in S
         PROVE  \E i \in DOMAIN log : /\ Pair(i) = <<r[1], r[2]>>
                                      /\ r[3] = "supersedes" => log[i].op # "reinforced"
    <3>1. PICK i \in 1..k3 : /\ Pair(i) = <<r[1], r[2]>>
                             /\ r[3] = "supersedes" => log[i].op = "corrected"
      BY <2>2, <2>5, RelationWritten
    <3> QED
      BY <3>1, <2>2
  <2>11. ASSUME NEW r \in T
         PROVE  \E i \in DOMAIN log : Pair(i) = <<r[1], r[2]>> /\ Good(i)
    <3>1. PICK i \in DOMAIN log : Good(i) /\ r = Line(i)
      <4> HIDE DEF Good, Line
      <4> QED
        BY <2>7
    <3> QED
      BY <3>1 DEF Pair
  <2>12. ASSUME NEW r \in Links
         PROVE  /\ \E i \in DOMAIN log : Pair(i) = <<r[1], r[2]>>
                /\ k1 <= k3 /\ r[3] = "supersedes" =>
                       \E i \in DOMAIN log : Pair(i) = <<r[1], r[2]>> /\ log[i].op # "reinforced"
    <3>1. r \in S \/ r \in T
      BY <2>6, <2>9
    <3>2. CASE r \in S
      <4>1. PICK i \in DOMAIN log : /\ Pair(i) = <<r[1], r[2]>>
                                    /\ r[3] = "supersedes" => log[i].op # "reinforced"
        BY <3>2, <2>10
      <4>2. ASSUME r[3] = "supersedes"
            PROVE  \E j \in DOMAIN log : Pair(j) = <<r[1], r[2]>> /\ log[j].op # "reinforced"
        BY <4>1, <4>2
      <4>3. \E j \in DOMAIN log : Pair(j) = <<r[1], r[2]>>
        BY <4>1
      <4> QED
        BY <4>2, <4>3
    <3>3. CASE r \in T
      <4>1. PICK i \in DOMAIN log : Pair(i) = <<r[1], r[2]>> /\ Good(i)
        BY <3>3, <2>11
      <4> QED
        BY <4>1
    <3> QED
      BY <3>1, <3>2, <3>3
  <2> QED
    BY <2>1, <2>12
<1>2. MapInvariant => LinksAreTrue
    BY <1>1 DEF LinksAreTrue
<1> QED
    BY <1>2, MapInvariantHolds, PTL

(* A memory that was replaced is connected with what replaced it, if the   *)
(* relations are not older than the provenance or nothing was superseded   *)
(* twice.                                                                  *)
THEOREM LineageDrawn == Spec => []LineageShown
<1>1. ASSUME MapInvariant, GraphShown, NEW m \in Range(Shown),
             reads[Source][2] <= reads["memories"][3] \/ Outrun = {},
             m.supersededById \in IdsOf(Shown)
      PROVE  Linked(Links, m.id, m.supersededById)
  <2>1. PICK k1 \in 0..Len(log), k2 \in 0..Len(log), k3 \in 0..Len(log) :
            k1 = reads[Source][1] /\ k2 = reads[Source][2] /\ k3 = reads["memories"][3]
    BY <1>1, GraphReads
  <2>2. LogGrown /\ VersionsLater /\ DOMAIN log = 1..Len(log) /\ Len(log) \in Nat
    BY <1>1, GraphReads DEF LogGrown
  <2>3. PICK ms : ms = Shown
    OBVIOUS
  <2>4. PICK N \in Nat : IsList(ms, N, Seen(k1), Seen(k2))
    BY <1>1, <2>1, <2>3, GraphReads
  <2>5. PICK S : S = Relations(Seen(k3))
    OBVIOUS
  <2>6. Links = Drawn(ms, S)
    BY <2>1, <2>3, <2>5 DEF Links, Supplied
  <2>7. ASSUME NEW i \in 1..N, ms[i].prior \in 1..N
        PROVE  \/ Linked(S, ms[i].prior, i)
               \/ ms[i].prior < i /\ ms[ms[i].prior].supersededById = i
    <3> DEFINE line == <<ms[i].prior, i, "supersedes">>
    <3>1. line \in Relations(Seen(k2))
      BY <2>4, <2>7 DEF IsList
    <3>2. line[1] = ms[i].prior /\ line[2] = i
      OBVIOUS
    <3> HIDE DEF line
    <3>3. PICK j \in 1..k2 : /\ Pair(j) = <<line[1], line[2]>>
                             /\ log[j].op \in {"corrected", "reinforced"}
      BY <3>1, <2>2, RelationWritten
    <3>4. /\ j \in DOMAIN log /\ log[j].old = ms[i].prior /\ log[j].new = i
          /\ ms[i].prior < i
      BY <3>2, <3>3, <2>2 DEF Pair, VersionsLater
    <3>5. CASE k2 <= k3
      <4>1. j \in 1..k3
        BY <3>5, <2>2
      <4> QED
        BY <4>1, <3>3, <3>4, <2>2, <2>5, WrittenRelated
    <3>6. CASE Outrun = {}
      <4>1. /\ ms[i] \in Range(ms) /\ ms[ms[i].prior] \in Range(ms)
            /\ ms[ms[i].prior].id = ms[i].prior /\ ms[i].id = i
        BY <2>4, <2>7 DEF IsList
      <4>2. ms[ms[i].prior].supersededById = ms[i].id
        BY <4>1, <3>6, <2>3 DEF Outrun
      <4> QED
        BY <4>1, <4>2, <3>4
    <3> QED
      BY <3>5, <3>6, <1>1, <2>1
  <2>8. /\ Len(ms) = N /\ IdsOf(ms) = 1..N
        /\ \A i \in 1..N : ms[i].id = i
        /\ Range(ms) = {ms[i] : i \in 1..N}
    BY <2>4 DEF IsList
  <2>9. PICK i \in 1..N : m = ms[i]
    BY <2>3, <2>8, <1>1
  <2>10. Linked(Drawn(ms, S), i, ms[i].supersededById)
    BY <2>3, <2>7, <2>8, <2>9, <1>1, DrawnLinks
  <2> QED
    BY <2>6, <2>8, <2>9, <2>10
<1>2. MapInvariant => LineageShown
    BY <1>1 DEF LineageShown
<1> QED
    BY <1>2, MapInvariantHolds, PTL
=============================================================================
