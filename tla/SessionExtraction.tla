------------------------- MODULE SessionExtraction -------------------------
(***************************************************************************)
(* How one workspace's consultations are ended: backend/app/chat/session.py *)
(* with the tables of migrations 001, 004 and 006.                         *)
(*                                                                         *)
(* An invocation (a worker) ends a session in two database transactions    *)
(* with calls to Qwen between them.  The first one leases the session's    *)
(* extraction row to the invocation's processing token and reads the       *)
(* transcript.  The second one, fenced by that token, writes the memories, *)
(* ends the conversation and stores the receipt.  Any number of            *)
(* invocations of the same or of other sessions overlap, and each of them  *)
(* can be killed anywhere; messages are posted and the workspace is erased *)
(* meanwhile.                                                              *)
(*                                                                         *)
(* A draft is named by the user message it was extracted from, a receipt   *)
(* is the set of drafts that were written.  Time is relative: age[w] is    *)
(* the time since worker w called get_now(), left[s] the time until the    *)
(* lease of session s expires.                                             *)
(***************************************************************************)
EXTENDS Integers, FiniteSets

CONSTANTS
    Sessions,      \* the consultations of the workspace
    Messages,      \* what the user can say in a consultation
    Keys,          \* values of the Idempotency-Key header
    Workers,       \* slots for concurrent end_session invocations
    Tokens,        \* values of uuid4(): one nobody holds is always left
    NoSession, NoToken, NoKey,
    Lease,         \* session_extraction_lease_seconds, in ticks
    MaxLag,        \* bound: an invocation holds its row at most this late
    RequestLimit,  \* Function Compute's request limit, in ticks
    MaxFaults      \* bound: invocations that die or escape without cleaning up

ASSUME SessionsAssumption == NoSession \notin Sessions
ASSUME TokensAssumption == NoToken \notin Tokens
ASSUME KeysAssumption == NoKey \notin Keys
ASSUME LeaseAssumption == Lease \in Nat \ {0}
ASSUME TimeAssumption == MaxLag \in Nat /\ RequestLimit \in Nat
ASSUME FaultsAssumption == MaxFaults \in Nat

VARIABLES
    conv,       \* the conversations row: "open", "ended" or "gone"
    messages,   \* the user messages stored for the session
    posting,    \* send_message calls between their SELECT and their INSERT
    status,     \* session_extraction_results.extraction_status, "none": no row
    owner,      \* its processing_token
    left,       \* its lease_expires_at
    key,        \* its idempotency_key
    receipt,    \* its lifecycle_result
    copies,     \* how many memories were written of each draft
    chunks,     \* the messages stored as transcript chunks
    served,     \* the receipts that callers were given of sessions still there
    pc, sess, token, ikey, age, transcript, drafts,   \* an invocation's locals
    faults

rowVars == <<status, owner, left, key, receipt>>
dataVars == <<conv, messages, posting, copies, chunks, served>>
workerVars == <<pc, sess, token, ikey, age, transcript, drafts>>
vars == <<rowVars, dataVars, workerVars, faults>>

TypeOK ==
    /\ conv \in [Sessions -> {"open", "ended", "gone"}]
    /\ messages \in [Sessions -> SUBSET Messages]
    /\ posting \subseteq Sessions \X Messages
    /\ status \in [Sessions -> {"none", "processing", "failed", "completed"}]
    /\ owner \in [Sessions -> Tokens \union {NoToken}]
    /\ left \in [Sessions -> (-MaxLag)..Lease]
    /\ key \in [Sessions -> Keys \union {NoKey}]
    /\ receipt \in [Sessions -> SUBSET Messages]
    /\ copies \in [Sessions -> [Messages -> Nat]]
    /\ chunks \in [Sessions -> SUBSET Messages]
    /\ served \in [Sessions -> SUBSET SUBSET Messages]
    /\ pc \in [Workers -> {"idle", "starting", "creating", "extracting",
                           "failing", "drafted", "persisting", "chunking"}]
    /\ sess \in [Workers -> Sessions \union {NoSession}]
    /\ \A w \in Workers : pc[w] # "idle" => sess[w] \in Sessions
    /\ token \in [Workers -> Tokens \union {NoToken}]
    /\ ikey \in [Workers -> Keys \union {NoKey}]
    /\ age \in [Workers -> 0..MaxLag]
    /\ transcript \in [Workers -> SUBSET Messages]
    /\ drafts \in [Workers -> SUBSET Messages]
    /\ faults \in 0..MaxFaults

-----------------------------------------------------------------------------
(* One memory of each draft of D and none of the others.                   *)
Once(D) == [m \in Messages |-> IF m \in D THEN 1 ELSE 0]

(* Mutant: the token is not compared.                                      *)
OwnsAnyLease(w) == status[sess[w]] = "processing"

(* The token in the row is the invocation's own and its lease is in force. *)
OwnsLease(w) ==
    /\ status[sess[w]] = "processing"
    /\ owner[sess[w]] = token[w]

(* Mutant: nobody waits for the row locks of the second transaction.       *)
NeverLocked(s) == s \in Sessions

(* The second transaction holds FOR UPDATE locks on the conversation and   *)
(* on its extraction row from its first statements to its end.             *)
Unlocked(s) == \A w \in Workers : ~(pc[w] = "persisting" /\ sess[w] = s)

(* Mutants: the caller's delay added on the wrong side; never stale.       *)
StaleEarly(w) == left[sess[w]] <= age[w]
NeverStale(w) == left[sess[w]] < -MaxLag - age[w]

(* _processing_lease_is_stale: compared with the time the caller started.  *)
Stale(w) == left[sess[w]] <= -age[w]

(* UNIQUE (entity_id, idempotency_key).                                    *)
KeyFree(w) == \A s \in Sessions \ {sess[w]} : key[s] # ikey[w]

(* uuid4(): a token that is in no row and with no invocation.              *)
Fresh(t) ==
    /\ \A w \in Workers : token[w] # t
    /\ \A s \in Sessions : owner[s] # t

(* The invocation ends: its locals are gone, whatever it answered.         *)
Leave(w) ==
    /\ pc' = [pc EXCEPT ![w] = "idle"]
    /\ sess' = [sess EXCEPT ![w] = NoSession]
    /\ token' = [token EXCEPT ![w] = NoToken]
    /\ ikey' = [ikey EXCEPT ![w] = NoKey]
    /\ age' = [age EXCEPT ![w] = 0]
    /\ transcript' = [transcript EXCEPT ![w] = {}]
    /\ drafts' = [drafts EXCEPT ![w] = {}]

GoTo(w, label) ==
    /\ pc' = [pc EXCEPT ![w] = label]
    /\ UNCHANGED <<sess, token, ikey, age, transcript, drafts>>

(* A row that release 004 wrote and whose invocation was killed has no     *)
(* token; its lease is counted from updated_at.                            *)
Init ==
    /\ conv = [s \in Sessions |-> "open"]
    /\ messages = [s \in Sessions |-> {}]
    /\ posting = {}
    /\ status \in [Sessions -> {"none", "processing"}]
    /\ owner = [s \in Sessions |-> NoToken]
    /\ left \in [Sessions -> {0, Lease}]
    /\ key \in [Sessions -> Keys \union {NoKey}]
    /\ \A s \in Sessions : status[s] = "none" <=> key[s] = NoKey
    /\ \A s \in Sessions : status[s] = "none" => left[s] = 0
    /\ \A s, r \in Sessions : key[s] = key[r] => s = r \/ key[s] = NoKey
    /\ receipt = [s \in Sessions |-> {}]
    /\ copies = [s \in Sessions |-> Once({})]
    /\ chunks = [s \in Sessions |-> {}]
    /\ served = [s \in Sessions |-> {}]
    /\ pc = [w \in Workers |-> "idle"]
    /\ sess = [w \in Workers |-> NoSession]
    /\ token = [w \in Workers |-> NoToken]
    /\ ikey = [w \in Workers |-> NoKey]
    /\ age = [w \in Workers |-> 0]
    /\ transcript = [w \in Workers |-> {}]
    /\ drafts = [w \in Workers |-> {}]
    /\ faults = 0
-----------------------------------------------------------------------------
(* The first transaction.                                                  *)

(* post_end_session found the session; end_session takes its token and the *)
(* time before it waits for a connection or a lock.                        *)
Request(w, s) ==
    /\ pc[w] = "idle"
    /\ conv[s] # "gone"
    /\ \E t \in Tokens, k \in Keys :
          /\ Fresh(t)
          /\ token' = [token EXCEPT ![w] = t]
          /\ ikey' = [ikey EXCEPT ![w] = k]
    /\ pc' = [pc EXCEPT ![w] = "starting"]
    /\ sess' = [sess EXCEPT ![w] = s]
    /\ UNCHANGED <<age, transcript, drafts, rowVars, dataVars, faults>>

(* Either transaction finds no conversation: ValueError, 404.              *)
NotFound(w) ==
    /\ pc[w] \in {"starting", "drafted"}
    /\ conv[sess[w]] = "gone"
    /\ Leave(w)
    /\ UNCHANGED <<rowVars, dataVars, faults>>

(* Mutant: a late invocation answers with what it extracted itself.        *)
ReplayOwnDrafts(w) ==
    /\ pc[w] \in {"starting", "drafted"}
    /\ Unlocked(sess[w])
    /\ status[sess[w]] = "completed"
    /\ served' = [served EXCEPT ![sess[w]] = @ \union {drafts[w]}]
    /\ Leave(w)
    /\ UNCHANGED <<conv, messages, posting, copies, chunks, rowVars, faults>>

(* Either transaction finds the session completed: the stored receipt.     *)
Replay(w) ==
    /\ pc[w] \in {"starting", "drafted"}
    /\ Unlocked(sess[w])
    /\ status[sess[w]] = "completed"
    /\ served' = [served EXCEPT ![sess[w]] = @ \union {receipt[sess[w]]}]
    /\ Leave(w)
    /\ UNCHANGED <<conv, messages, posting, copies, chunks, rowVars, faults>>

(* Another invocation's lease is in force: SessionEndingInProgress, 409.   *)
Refuse(w) ==
    /\ pc[w] = "starting"
    /\ Unlocked(sess[w])
    /\ status[sess[w]] = "processing"
    /\ ~Stale(w)
    /\ Leave(w)
    /\ UNCHANGED <<rowVars, dataVars, faults>>

(* Mutant: the lease is extended by the time that the caller waited.       *)
LeaseExtended(w) == Lease + age[w]

(* The lease counts from the time the caller started.                      *)
LeaseFrom(w) == Lease - age[w]

(* What both ways of taking the lease write, and the transcript they read. *)
TakeLease(w, s) ==
    /\ status' = [status EXCEPT ![s] = "processing"]
    /\ owner' = [owner EXCEPT ![s] = token[w]]
    /\ left' = [left EXCEPT ![s] = LeaseFrom(w)]
    /\ key' = [key EXCEPT ![s] = ikey[w]]
    /\ pc' = [pc EXCEPT ![w] = "extracting"]
    /\ transcript' = [transcript EXCEPT ![w] = messages[s]]

(* Mutant: a completed row may be taken as well.                           *)
TakeableAgain(w) ==
    /\ Unlocked(sess[w])
    /\ \/ status[sess[w]] \in {"failed", "completed"}
       \/ status[sess[w]] = "processing" /\ Stale(w)

(* The row may be taken: its last attempt failed or its lease expired.     *)
Takeable(w) ==
    /\ Unlocked(sess[w])
    /\ \/ status[sess[w]] = "failed"
       \/ status[sess[w]] = "processing" /\ Stale(w)

TakeOver(w) ==
    /\ pc[w] = "starting"
    /\ Takeable(w)
    /\ KeyFree(w)
    /\ TakeLease(w, sess[w])
    /\ UNCHANGED <<receipt, sess, token, ikey, age, drafts, dataVars, faults>>

(* SELECT ... FOR UPDATE finds no row and so locks nothing.                *)
SeeNoRow(w) ==
    /\ pc[w] = "starting"
    /\ conv[sess[w]] # "gone"
    /\ status[sess[w]] = "none"
    /\ GoTo(w, "creating")
    /\ UNCHANGED <<rowVars, dataVars, faults>>

Create(w) ==
    /\ pc[w] = "creating"
    /\ conv[sess[w]] # "gone"
    /\ status[sess[w]] = "none"
    /\ KeyFree(w)
    /\ TakeLease(w, sess[w])
    /\ UNCHANGED <<receipt, sess, token, ikey, age, drafts, dataVars, faults>>

(* The primary key, the foreign key or the unique key refuses the write:   *)
(* the transaction is rolled back and the error answered as a 500.         *)
ClaimFails(w) ==
    /\ \/ pc[w] = "creating" /\ (conv[sess[w]] = "gone" \/ status[sess[w]] # "none")
       \/ pc[w] = "creating" /\ ~KeyFree(w)
       \/ pc[w] = "starting" /\ Takeable(w) /\ ~KeyFree(w)
    /\ Leave(w)
    /\ UNCHANGED <<rowVars, dataVars, faults>>

-----------------------------------------------------------------------------
(* Qwen, between the transactions.                                         *)

(* extract_observations returns drafts, each tied to a user turn.          *)
Extract(w) ==
    /\ pc[w] = "extracting"
    /\ \E D \in SUBSET transcript[w] : drafts' = [drafts EXCEPT ![w] = D]
    /\ pc' = [pc EXCEPT ![w] = "drafted"]
    /\ UNCHANGED <<sess, token, ikey, age, transcript, rowVars, dataVars, faults>>

(* ExtractionFailure; an empty transcript is never sent to Qwen.           *)
ExtractFails(w) ==
    /\ pc[w] = "extracting"
    /\ transcript[w] # {}
    /\ GoTo(w, "failing")
    /\ UNCHANGED <<rowVars, dataVars, faults>>

(* _mark_extraction_failed, then SessionExtractionUnavailable, 503.        *)
MarkFailed(w) ==
    /\ pc[w] = "failing"
    /\ Unlocked(sess[w])
    /\ \/ /\ OwnsLease(w)
          /\ status' = [status EXCEPT ![sess[w]] = "failed"]
          /\ owner' = [owner EXCEPT ![sess[w]] = NoToken]
          /\ left' = [left EXCEPT ![sess[w]] = 0]
       \/ ~OwnsLease(w) /\ UNCHANGED <<status, owner, left>>
    /\ Leave(w)
    /\ UNCHANGED <<key, receipt, dataVars, faults>>

-----------------------------------------------------------------------------
(* The second transaction.                                                 *)

(* Both rows are locked and the lease is still this invocation's.          *)
Persist(w) ==
    /\ pc[w] = "drafted"
    /\ conv[sess[w]] # "gone"
    /\ Unlocked(sess[w])
    /\ OwnsLease(w)
    /\ GoTo(w, "persisting")
    /\ UNCHANGED <<rowVars, dataVars, faults>>

(* The lease was taken over, or its session failed since: 409.             *)
LeaseLost(w) ==
    /\ pc[w] = "drafted"
    /\ conv[sess[w]] # "gone"
    /\ Unlocked(sess[w])
    /\ status[sess[w]] # "completed"
    /\ ~OwnsLease(w)
    /\ Leave(w)
    /\ UNCHANGED <<rowVars, dataVars, faults>>

(* Memories, conversation and receipt commit together.                     *)
Commit(w) ==
    /\ pc[w] = "persisting"
    /\ OwnsLease(w)
    /\ copies' = [copies EXCEPT ![sess[w]] =
                    [m \in Messages |-> @[m] + Once(drafts[w])[m]]]
    /\ conv' = [conv EXCEPT ![sess[w]] = "ended"]
    /\ status' = [status EXCEPT ![sess[w]] = "completed"]
    /\ owner' = [owner EXCEPT ![sess[w]] = NoToken]
    /\ left' = [left EXCEPT ![sess[w]] = 0]
    /\ receipt' = [receipt EXCEPT ![sess[w]] = drafts[w]]
    /\ GoTo(w, "chunking")
    /\ UNCHANGED <<key, messages, posting, chunks, served, faults>>

(* Mutant: the memories are written outside of the transaction.            *)
PersistFailsHalfway(w) ==
    /\ pc[w] = "persisting"
    /\ \E D \in SUBSET drafts[w] :
          copies' = [copies EXCEPT ![sess[w]] =
                       [m \in Messages |-> @[m] + Once(D)[m]]]
    /\ GoTo(w, "failing")
    /\ UNCHANGED <<rowVars, conv, messages, posting, chunks, served, faults>>

(* A database error rolls the transaction back; the row is marked next.    *)
PersistFails(w) ==
    /\ pc[w] = "persisting"
    /\ GoTo(w, "failing")
    /\ UNCHANGED <<rowVars, dataVars, faults>>

(* Transcript chunks are stored one by one, and not at all once the        *)
(* conversation they refer to is gone; whatever fails here is ignored and  *)
(* the receipt is answered.                                                *)
StoreChunks(w) ==
    /\ pc[w] = "chunking"
    /\ \/ conv[sess[w]] = "gone" /\ UNCHANGED <<chunks, served>>
       \/ /\ conv[sess[w]] # "gone"
          /\ \E part \in SUBSET transcript[w] :
                chunks' = [chunks EXCEPT ![sess[w]] = @ \union part]
          /\ served' = [served EXCEPT ![sess[w]] = @ \union {drafts[w]}]
    /\ Leave(w)
    /\ UNCHANGED <<conv, messages, posting, copies, rowVars, faults>>

-----------------------------------------------------------------------------
(* Everything else that happens to a session.                              *)

(* The platform kills the invocation, or an exception escapes it with the  *)
(* row as it is: one of the enrichment between the transactions, or a      *)
(* ValueError in the second one.  An open transaction is rolled back.      *)
Die(w) ==
    /\ pc[w] # "idle"
    /\ faults < MaxFaults
    /\ faults' = faults + 1
    /\ Leave(w)
    /\ UNCHANGED <<rowVars, dataVars>>

(* send_message: the conversation is open when it is looked at.            *)
CheckOpen(s, m) ==
    /\ conv[s] = "open"
    /\ m \notin messages[s]
    /\ <<s, m>> \notin posting
    /\ posting' = posting \union {<<s, m>>}
    /\ UNCHANGED <<conv, messages, copies, chunks, served, rowVars, workerVars, faults>>

(* send_message: the INSERT.  Its foreign key waits for the conversation's *)
(* lock and refuses a conversation that is gone.                           *)
PostMessage(s, m) ==
    /\ <<s, m>> \in posting
    /\ Unlocked(s)
    /\ posting' = posting \ {<<s, m>>}
    /\ messages' = IF conv[s] = "gone" THEN messages
                   ELSE [messages EXCEPT ![s] = @ \union {m}]
    /\ UNCHANGED <<conv, copies, chunks, served, rowVars, workerVars, faults>>

(* delete_workspace, at the moment it commits (WorkspaceErasure has its    *)
(* statements): every row of the workspace is gone.                        *)
Erase ==
    /\ \A s \in Sessions : Unlocked(s)
    /\ \E s \in Sessions : conv[s] # "gone"
    /\ conv' = [s \in Sessions |-> "gone"]
    /\ messages' = [s \in Sessions |-> {}]
    /\ status' = [s \in Sessions |-> "none"]
    /\ owner' = [s \in Sessions |-> NoToken]
    /\ left' = [s \in Sessions |-> 0]
    /\ key' = [s \in Sessions |-> NoKey]
    /\ receipt' = [s \in Sessions |-> {}]
    /\ copies' = [s \in Sessions |-> Once({})]
    /\ chunks' = [s \in Sessions |-> {}]
    /\ served' = [s \in Sessions |-> {}]
    /\ UNCHANGED <<posting, workerVars, faults>>

Live(w) == pc[w] \notin {"idle"}

(* Time passes.  No invocation waits longer than MaxLag for its row, and   *)
(* none is alive after Function Compute's limit.                           *)
Tick ==
    /\ \A w \in Workers : pc[w] \in {"starting", "creating"} => age[w] < MaxLag
    /\ \A w \in Workers : Live(w) => age[w] < RequestLimit
    /\ age' = [w \in Workers |->
                 IF Live(w) /\ age[w] < MaxLag THEN age[w] + 1 ELSE age[w]]
    /\ left' = [s \in Sessions |->
                  IF status[s] = "processing" /\ left[s] > -MaxLag
                  THEN left[s] - 1 ELSE left[s]]
    /\ UNCHANGED <<status, owner, key, receipt, dataVars, faults,
                   pc, sess, token, ikey, transcript, drafts>>

-----------------------------------------------------------------------------
(* What an invocation does of its own accord.                              *)
Step(w) ==
    \/ NotFound(w) \/ Replay(w) \/ Refuse(w) \/ TakeOver(w) \/ SeeNoRow(w)
    \/ Create(w) \/ ClaimFails(w) \/ Extract(w) \/ ExtractFails(w)
    \/ MarkFailed(w) \/ Persist(w) \/ LeaseLost(w) \/ Commit(w)
    \/ PersistFails(w) \/ StoreChunks(w)

Next ==
    \/ \E w \in Workers, s \in Sessions : Request(w, s)
    \/ \E w \in Workers : Step(w)
    \/ \E w \in Workers : Die(w)
    \/ \E s \in Sessions, m \in Messages : CheckOpen(s, m)
    \/ \E s \in Sessions, m \in Messages : PostMessage(s, m)
    \/ Erase
    \/ Tick

Spec == Init /\ [][Next]_vars

(* An invocation that lives takes its next step, clocks advance, and the   *)
(* browser offers to end a session again until it has an outcome.  Nothing *)
(* is owed by Qwen, by users who post or erase, or by what kills workers.  *)
Fairness ==
    /\ \A w \in Workers : WF_vars(Step(w))
    /\ \A s \in Sessions : WF_vars(\E w \in Workers : Request(w, s))
    /\ WF_vars(Tick)

FairSpec == Spec /\ Fairness
-----------------------------------------------------------------------------
(* Properties.                                                             *)

(* What is stored is what the receipt lists, each draft once, and a        *)
(* session without a receipt has written no memory: whatever fails, dies   *)
(* or is retried between the two transactions of _end_session_impl.        *)
ReceiptIsWhatWasWritten ==
    \A s \in Sessions :
        copies[s] = Once(IF status[s] = "completed" THEN receipt[s] ELSE {})

(* The conversation row and the extraction row, which the second           *)
(* transaction updates separately, never disagree about the session.       *)
EndedIffCompleted ==
    \A s \in Sessions : conv[s] = "ended" <=> status[s] = "completed"

(* All callers that are told a session ended are told the same: the one    *)
(* that wrote it, those that raced with it and those that retried after    *)
(* the response was lost.                                                  *)
CallersAgree ==
    \A s \in Sessions :
        served[s] \subseteq (IF status[s] = "completed" THEN {receipt[s]} ELSE {})

(* While an invocation has the second transaction open, no retry takes the *)
(* lease from it and the workspace is not erased under it, so the UPDATE   *)
(* that closes the transaction finds the token its first statement saw.    *)
FencedWriter ==
    \A w \in Workers :
        pc[w] = "persisting" => OwnsLease(w) /\ conv[sess[w]] = "open"

(* When the platform kills an invocation before its lease runs out, an     *)
(* invocation that is alive between its transactions still owns its lease: *)
(* config.py, "so a live worker is not stolen".                            *)
LiveLeaseNotStolen ==
    \A w \in Workers :
        /\ pc[w] \in {"extracting", "failing", "drafted", "persisting"}
        /\ conv[sess[w]] # "gone"
        => OwnsLease(w)

(* Only the holder of the lease turns its session into a failed one: a     *)
(* stale invocation that fails late leaves the retry's row alone           *)
(* (_mark_extraction_failed).                                              *)
FailsOnlyOwnLease ==
    [][\A s \in Sessions :
         status[s] # "failed" /\ status'[s] = "failed"
         => \E w \in Workers :
               /\ pc[w] = "failing"
               /\ sess[w] = s
               /\ token[w] = owner[s]
               /\ pc'[w] = "idle"]_vars

(* A receipt is final: only the erasure of the workspace removes it.       *)
ReceiptImmutable ==
    [][\A s \in Sessions :
         status[s] = "completed"
         => \/ status'[s] = "completed" /\ receipt'[s] = receipt[s]
            \/ conv'[s] = "gone"]_vars

(* docs/03 section 7: at the end of a session the full transcript is what  *)
(* is extracted from.  The code ends the session on the transcript that    *)
(* its first transaction read.                                             *)
FullTranscriptExtracted ==
    [][\A w \in Workers :
         pc[w] = "persisting" /\ pc'[w] = "chunking"
         => messages[sess[w]] \subseteq transcript[w]]_vars

(* A session whose extraction was interrupted does not stay in progress:   *)
(* the lease runs out and a retry gives it an outcome.                     *)
InterruptedSessionRecovers ==
    \A s \in Sessions : status[s] = "processing" ~> status[s] # "processing"

-----------------------------------------------------------------------------
(* The inductive invariant behind them.                                    *)

(* No two live invocations have the same token, and an idle one has none.  *)
TokensUnique ==
    /\ \A w \in Workers : pc[w] = "idle" <=> token[w] = NoToken
    /\ \A v, w \in Workers : token[v] = token[w] => v = w \/ token[v] = NoToken

(* A row exists only together with its conversation.                       *)
NoOrphanRow ==
    \A s \in Sessions : conv[s] = "gone" => status[s] = "none"

(* What an invocation that committed is about to answer is the receipt.    *)
AnswersReceipt ==
    \A w \in Workers :
        pc[w] = "chunking" /\ conv[sess[w]] # "gone"
        => status[sess[w]] = "completed" /\ receipt[sess[w]] = drafts[w]

(* The safety properties hold together: tokens keep writers apart, which   *)
(* keeps what is written equal to the receipt and to every answer.         *)
IInv ==
    /\ TypeOK
    /\ TokensUnique
    /\ NoOrphanRow
    /\ EndedIffCompleted
    /\ FencedWriter
    /\ AnswersReceipt
    /\ ReceiptIsWhatWasWritten
    /\ CallersAgree

(* An invocation that holds a lease has its age off it.                    *)
LeaseCountsDown ==
    \A w \in Workers :
        /\ age[w] <= RequestLimit
        /\ /\ pc[w] \in {"extracting", "failing", "drafted", "persisting"}
           /\ conv[sess[w]] # "gone"
           => OwnsLease(w) /\ left[sess[w]] = Lease - age[w]
=============================================================================
