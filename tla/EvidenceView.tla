---------------------------- MODULE EvidenceView ----------------------------
(***************************************************************************)
(* What a user is shown about memories while they change: under an answer  *)
(* (ChatMessage.tsx), in the receipt of a session (MemoryReceipt.tsx) and  *)
(* on the memory map (memory/page.tsx, MemoryGraph.tsx), to which both     *)
(* lead.                                                                   *)
(*                                                                         *)
(* The service reads the database in several statements, each at its own   *)
(* time, and the map takes memories and relations from two requests.  A    *)
(* read is recorded by how much of the log it saw.                         *)
(***************************************************************************)
EXTENDS EvidenceContracts

CONSTANT MaxWrites  \* bound

ASSUME BoundAssumption == MaxWrites \in Nat

VARIABLES
    log,       \* the writes of the workspace's sessions and consolidations
    reply,     \* an answer on its way, or the one that is shown
    receipt,   \* the writes that the shown receipt lists, and what it saw
    map,       \* the map's page
    reads,     \* what its two requests have seen so far
    failed     \* those of them that failed

vars == <<log, reply, receipt, map, reads, failed>>

Requests == {"memories", "timeline"}
NoReply == [stage |-> "none", packed |-> {}, used |-> {}, excluded |-> {}, seen |-> 0]
NoReceipt == [writes |-> {}, seen |-> 0]

TypeOK ==
    /\ log \in Seq(Write)
    /\ reply \in [stage : {"none", "asked", "explained", "shown"},
                  packed : SUBSET Rows(log), used : SUBSET Rows(log),
                  excluded : SUBSET Rows(log), seen : 0..Len(log)]
    /\ receipt \in [writes : SUBSET (DOMAIN log), seen : 0..Len(log)]
    /\ map \in [state : {"closed", "loading", "error", "shown"}, focus : Nat, url : Nat,
                linked : Nat, selected : Nat, had : BOOLEAN]
    /\ reads \in [Requests -> Seq(0..Len(log))]
    /\ \A r \in Requests :
          Len(reads[r]) <= 3 /\ \A i, j \in DOMAIN reads[r] : i < j => reads[r][i] <= reads[r][j]
    /\ failed \subseteq Requests

Seen(k) == SubSeq(log, 1, k)

Init ==
    /\ log = <<>>
    /\ reply = NoReply
    /\ receipt = NoReceipt
    /\ map = [state |-> "closed", focus |-> 0, url |-> 0, linked |-> 0, selected |-> 0,
              had |-> FALSE]
    /\ reads = [r \in Requests |-> <<>>]
    /\ failed = {}

-----------------------------------------------------------------------------
(* Some session, or a run of consolidation, commits.  Overlapping sessions *)
(* may supersede one memory twice.                                         *)
Commit ==
    LET next == Cardinality(Rows(log)) + 1 IN
    /\ Len(log) < MaxWrites
    /\ \E op \in Ops, old \in Rows(log) \union {0}, verified \in BOOLEAN :
          /\ op \in {"created", "summarised"} <=> old = 0
          /\ op \in {"summarised", "absorbed"} => ~verified
          /\ IF op = "absorbed"
             THEN \E i \in DOMAIN log :
                      /\ log[i].op = "summarised" /\ log[i].new # old
                      /\ Successor(log, old) = 0 /\ old < log[i].new
                      /\ log' = Append(log, [op |-> op, old |-> old, new |-> log[i].new,
                                             verified |-> verified])
             ELSE log' = Append(log, [op |-> op, old |-> old, new |-> next,
                                      verified |-> verified])
    /\ UNCHANGED <<reply, receipt, map, reads, failed>>

(* send_message: the context is loaded, Qwen is asked, what it did not get *)
(* is traced, and the answer is serialized.                                *)
Ask ==
    /\ map.state = "closed"
    /\ reply = NoReply
    /\ \E packed \in SUBSET Active(log) :
          reply' = [NoReply EXCEPT !.stage = "asked", !.packed = packed]
    /\ UNCHANGED <<log, receipt, map, reads, failed>>

Explain ==
    /\ reply.stage = "asked"
    /\ \E used \in SUBSET reply.packed :
          reply' = [reply EXCEPT !.stage = "explained", !.used = used,
                                 !.excluded = Excluded(log, reply.packed)]
    /\ UNCHANGED <<log, receipt, map, reads, failed>>

ShowReply ==
    /\ reply.stage = "explained"
    /\ reply' = [reply EXCEPT !.stage = "shown", !.seen = Len(log)]
    /\ UNCHANGED <<log, receipt, map, reads, failed>>

(* The answer of end_session: the receipt lists what its session wrote, in *)
(* one transaction.                                                        *)
ShowReceipt ==
    /\ map.state = "closed" /\ receipt = NoReceipt
    /\ \E first \in DOMAIN log : \E last \in first..Len(log) :
          /\ \A i \in first..last : log[i].op \in {"created", "corrected", "reinforced"}
          /\ receipt' = [writes |-> first..last, seen |-> Len(log)]
    /\ UNCHANGED <<log, reply, map, reads, failed>>

-----------------------------------------------------------------------------
(* What is on the screen.                                                  *)
Message ==
    Groups(MessageDTO(IF reply.stage = "shown" THEN reply ELSE NoReply, Seen(reply.seen)))
Changes == {NormalizeChange(ChangeDTO(log[i], Seen(receipt.seen))) : i \in receipt.writes}

Memories(r) ==
    LET dtos == IF r \in failed THEN <<>> ELSE MemoryDTOs(Seen(reads[r][1]), Seen(reads[r][2]))
    IN [i \in DOMAIN dtos |-> NormalizeMemory(dtos[i])]

(* The timeline, unless it failed or is empty.                             *)
Source == IF Memories("timeline") # <<>> THEN "timeline" ELSE "memories"

Shown == Memories(Source)
GraphShown == map.state = "shown" /\ Memories("memories") # <<>>
EmptyShown == map.state = "shown" /\ Memories("memories") = <<>>
Supplied == Relations(Seen(reads["memories"][3]))
Links == Drawn(Shown, Supplied)

-----------------------------------------------------------------------------
(* memory/page.tsx.                                                        *)
Load ==
    /\ reads' = [r \in Requests |-> <<>>]
    /\ failed' = {}

(* Following a link, or the page's own entry in the header; what the page  *)
(* of the conversation showed is gone.                                     *)
OpenMap ==
    /\ map.state = "closed"
    /\ \E f \in MessageLinks(Message) \union ReceiptLinks(Changes) \union {0} :
          map' = [state |-> "loading", focus |-> f, url |-> f, linked |-> f, selected |-> 0,
                  had |-> Rows(log) # {}]
    /\ Load
    /\ reply' = NoReply /\ receipt' = NoReceipt
    /\ UNCHANGED <<log>>

Retry ==
    /\ map.state = "error"
    /\ map' = [map EXCEPT !.state = "loading", !.had = Rows(log) # {}]
    /\ Load
    /\ UNCHANGED <<log, reply, receipt>>

(* The browser loads the page again, and takes the focus from the address. *)
ReloadMap ==
    /\ map.state # "closed"
    /\ map' = [map EXCEPT !.state = "loading", !.focus = map.url, !.selected = 0,
                          !.had = Rows(log) # {}]
    /\ Load
    /\ UNCHANGED <<log, reply, receipt>>

CloseMap ==
    /\ map.state # "closed"
    /\ map' = [map EXCEPT !.state = "closed", !.focus = 0, !.url = 0, !.linked = 0,
                          !.selected = 0]
    /\ Load
    /\ UNCHANGED <<log, reply, receipt>>

(* Mutant: the relations of the answer are read before its memories.       *)
SeenRelationsFirst(r) ==
    IF Len(reads[r]) = 1 THEN <<Len(log), Len(log), reads[r][1]>>
    ELSE Append(reads[r], Len(log))

(* build_timeline: memories, then what is known about them, then the       *)
(* relations.                                                              *)
Read(r) == Append(reads[r], Len(log))

ReadOn(r) ==
    /\ map.state = "loading" /\ r \notin failed /\ Len(reads[r]) < 3
    /\ reads' = [reads EXCEPT ![r] = Read(r)]
    /\ UNCHANGED <<log, reply, receipt, map, failed>>

FailRequest(r) ==
    /\ map.state = "loading" /\ r \notin failed
    /\ failed' = failed \union {r}
    /\ reads' = [reads EXCEPT ![r] = <<>>]
    /\ UNCHANGED <<log, reply, receipt, map>>

(* Mutant: a request that failed has brought no memories.                  *)
NeverRejected == FALSE

(* The list of memories is indispensable, the timeline is not.             *)
Rejected == "memories" \in failed

(* Promise.allSettled: both are in.                                        *)
Settle ==
    /\ map.state = "loading"
    /\ \A r \in Requests : r \in failed \/ Len(reads[r]) = 3
    /\ map' = IF Rejected THEN [map EXCEPT !.state = "error"]
              ELSE [map EXCEPT !.state = "shown",
                               !.selected = IF Shown = <<>> THEN 0 ELSE Selected(Shown, map.focus)]
    /\ UNCHANGED <<log, reply, receipt, reads, failed>>

(* Mutant: the address stays as it is.                                     *)
ChosenKeepsAddress(m) == [map EXCEPT !.selected = m, !.linked = 0]

(* select: a node, a row of the list, or a related memory is clicked; the  *)
(* address follows.                                                        *)
Chosen(m) == [map EXCEPT !.selected = m, !.url = m, !.linked = 0]

Select ==
    /\ GraphShown
    /\ \E m \in IdsOf(Shown) : map' = Chosen(m)
    /\ UNCHANGED <<log, reply, receipt, reads, failed>>

-----------------------------------------------------------------------------
Next ==
    \/ Commit
    \/ Ask \/ Explain \/ ShowReply \/ ShowReceipt
    \/ OpenMap \/ Retry \/ ReloadMap \/ CloseMap
    \/ \E r \in Requests : ReadOn(r) \/ FailRequest(r)
    \/ Settle \/ Select

Spec == Init /\ [][Next]_vars

-----------------------------------------------------------------------------
(* Properties.                                                             *)
Pair(i) == <<log[i].old, log[i].new>>

(* persistedRelationships: every line on the map stands for a supersession *)
(* that took place, and none makes a correction of a confirmation, at      *)
(* least if the relations are not older than the memories they connect.    *)
LinksAreTrue ==
    GraphShown =>
        \A r \in Links :
            /\ \E i \in DOMAIN log : Pair(i) = <<r[1], r[2]>>
            /\ reads[Source][1] <= reads["memories"][3] /\ r[3] = "supersedes" =>
                   \E i \in DOMAIN log : Pair(i) = <<r[1], r[2]>> /\ log[i].op # "reinforced"

(* The memories whose provenance names a predecessor that was superseded   *)
(* again, by another one: two sessions overlapped.                         *)
Outrun ==
    {m \in Range(Shown) : \E p \in Range(Shown) : p.id = m.prior /\ p.supersededById # m.id}

(* MemoryGraph: a memory that is shown as retained is connected with what  *)
(* replaced it, whichever of relation, provenance and record tell of it,   *)
(* at least if the relations are not older than the provenance or nothing  *)
(* was superseded twice.                                                   *)
LineageShown ==
    GraphShown /\ (reads[Source][2] <= reads["memories"][3] \/ Outrun = {}) =>
        \A m \in Range(Shown) :
            m.supersededById \in IdsOf(Shown) => Linked(Links, m.id, m.supersededById)

(* The links of ChatMessage and MemoryReceipt: the map shows the memory    *)
(* that they name, until another is selected, however old it is.           *)
EvidenceReachable ==
    GraphShown /\ map.linked # 0 => map.selected = map.linked

(* MemoryGraph, select: the selected memory is on the map, and a reload    *)
(* comes back to it.                                                       *)
SelectionFollowsAddress ==
    GraphShown => /\ map.selected \in IdsOf(Shown)
                  /\ map.url \in IdsOf(Shown) => map.selected = map.url

(* memory/page.tsx: no memories are reported only if there were none when  *)
(* the page was opened.                                                    *)
EmptyIsTrue == EmptyShown => ~map.had

(* ChatMessage: each memory of an answer's context is in one group, and    *)
(* none that was given to Qwen is called not used.                         *)
OneGroupEach ==
    LET g == Message IN
    /\ g.excluded = {}
    /\ g.used \intersect g.available = {}
    /\ MessageLinks([g EXCEPT !.traceOnly = {}]) = IF reply.stage = "shown" THEN reply.packed ELSE {}

(* Provenance: what is shown as somebody's words was verified, for the     *)
(* very memory it is shown with, from the database to the screen.          *)
QuotesAreOwn ==
    \A q \in MessageQuotes(Message) \union ReceiptQuotes(Changes) :
        q[1] = q[2] /\ Verified(log, q[1])

=============================================================================
