------------------------- MODULE EvidenceContracts -------------------------
(***************************************************************************)
(* What the service says about memories (api/serializers.py,               *)
(* api/routes_v1.py, chat/session.py) and what the browser makes of it     *)
(* (lib/api.ts, MemoryGraph.tsx, ChatMessage.tsx, MemoryReceipt.tsx), as   *)
(* operators.                                                              *)
(*                                                                         *)
(* The memories of a workspace are given by the writes that made them, in  *)
(* the order of their commits; a reader sees a prefix h of them.  A write  *)
(* creates the memory new, supersedes the memory old, or both; 0 is no     *)
(* memory.  Memories are numbered in the order of their times.  A quote is *)
(* known by the memory it was taken for, 0 is no quote.                    *)
(***************************************************************************)
EXTENDS Naturals, Sequences, FiniteSets, SequencesExt

(* Writes: a new fact, a correction, a new version of a confirmed memory,  *)
(* the summary of a consolidation, and one memory superseded by it.        *)
Ops == {"created", "corrected", "reinforced", "summarised", "absorbed"}
Write == [op : Ops, old : Nat, new : Nat, verified : BOOLEAN]

-----------------------------------------------------------------------------
(* The service.                                                            *)
Rows(h) == {h[i].new : i \in {j \in DOMAIN h : h[j].op # "absorbed"}}

(* superseded_by_id: the last write counts.                                *)
Successor(h, m) ==
    LET W == {i \in DOMAIN h : h[i].old = m}
    IN IF W = {} THEN 0 ELSE h[CHOOSE i \in W : \A j \in W : j <= i].new

Active(h) == {m \in Rows(h) : Successor(h, m) = 0}

(* memory_relations: consolidation leaves none.                            *)
Relations(h) ==
    {<<h[i].old, h[i].new, IF h[i].op = "corrected" THEN "supersedes" ELSE "reinforces">> :
        i \in {j \in DOMAIN h : h[j].op \in {"corrected", "reinforced"}}}

(* memory_provenance: the quote leaves the service if it was verified.     *)
Verified(h, m) == \E i \in DOMAIN h : h[i].new = m /\ h[i].op # "absorbed" /\ h[i].verified
ProvenanceDTO(h, m) ==
    [sourceQuote |-> IF Verified(h, m) THEN m ELSE 0, sourceVerified |-> Verified(h, m)]

(* One memory of build_memory_dtos: the row from one read, provenance and  *)
(* relations from a later one.                                             *)
MemoryDTO(m, h, meta) ==
    LET prior == {p \in Rows(h) : <<p, m, "supersedes">> \in Relations(meta)}
    IN [id |-> m,
        type |-> IF \E i \in DOMAIN h : h[i].new = m /\ h[i].op = "corrected"
                 THEN "correction" ELSE "fact",
        isSuperseded |-> Successor(h, m) # 0,
        supersededById |-> Successor(h, m),
        prior |-> IF prior = {} THEN 0 ELSE CHOOSE p \in prior : TRUE,
        provenance |-> ProvenanceDTO(meta, m)]

(* The list of build_timeline, sorted by the time of confirmation: the     *)
(* number of a memory is its place.                                        *)
MemoryDTOs(h, meta) == [m \in 1..Cardinality(Rows(h)) |-> MemoryDTO(m, h, meta)]

(* Mutant: packed memories are traced as excluded like the others.         *)
ExcludedUnpacked(h, packed) == Rows(h)

(* _build_excluded_memory_trace: whatever is there and was not packed.     *)
Excluded(h, packed) == Rows(h) \ packed

(* _serialize_message: only memories that are still to be found.           *)
MessageDTO(reply, h) ==
    LET context == reply.packed \intersect Rows(h)
    IN [memoryContext |-> {MemoryDTO(m, h, h) : m \in context},
        usedMemoryIds |-> reply.used \intersect context,
        excludedMemories |-> {MemoryDTO(m, h, h) : m \in reply.excluded \intersect Rows(h)}]

(* build_change_dtos: snapshots are looked up when they are sent; the      *)
(* change's own provenance is that of its new memory.                      *)
ChangeDTO(w, h) ==
    LET own == IF w.new # 0 THEN ProvenanceDTO(h, w.new)
               ELSE [sourceQuote |-> 0, sourceVerified |-> FALSE]
    IN [before |-> [id |-> w.old, provenance |-> ProvenanceDTO(h, w.old)],
        after |-> [id |-> w.new, provenance |-> ProvenanceDTO(h, w.new)],
        sourceQuote |-> own.sourceQuote,
        sourceVerified |-> own.sourceVerified]

-----------------------------------------------------------------------------
(* lib/api.ts.                                                             *)
Or(a, b) == IF a # 0 THEN a ELSE b

(* normalizeMemory: the map's record.                                      *)
NormalizeMemory(dto) ==
    [id |-> dto.id,
     memoryType |-> dto.type,
     status |-> IF dto.isSuperseded THEN "retained" ELSE "eligible",
     supersededById |-> dto.supersededById,
     sourceQuote |-> dto.provenance.sourceQuote,
     sourceVerified |-> dto.provenance.sourceVerified,
     prior |-> dto.prior]

(* normalizeTrace: an exclusion takes its source from the snapshot in it.  *)
NormalizeExcluded(dto) ==
    [memoryId |-> dto.id,
     sourceQuote |-> dto.provenance.sourceQuote,
     sourceVerified |-> dto.provenance.sourceVerified]

(* Mutant: any of the snapshots may vouch for the quote.                   *)
NormalizeChangeAnyVerified(dto) ==
    [before |-> dto.before.id, after |-> dto.after.id,
     sourceQuote |-> Or(dto.sourceQuote, Or(dto.after.provenance.sourceQuote,
                                            dto.before.provenance.sourceQuote)),
     sourceVerified |-> dto.sourceVerified \/ dto.after.provenance.sourceVerified
                        \/ dto.before.provenance.sourceVerified]

(* normalizeChange: a missing quote is taken from the snapshots, the       *)
(* verdict is the change's own, which the service always gives.            *)
NormalizeChange(dto) ==
    [before |-> dto.before.id, after |-> dto.after.id,
     sourceQuote |-> Or(dto.sourceQuote, Or(dto.after.provenance.sourceQuote,
                                            dto.before.provenance.sourceQuote)),
     sourceVerified |-> dto.sourceVerified]

-----------------------------------------------------------------------------
(* MemoryGraph.tsx.                                                        *)
IdsOf(memories) == {memories[i].id : i \in DOMAIN memories}

Linked(all, a, b) ==
    \E r \in all : (r[1] = a /\ r[2] = b) \/ (r[1] = b /\ r[2] = a)

(* Mutant: a successor is linked whatever is persisted.                    *)
NotedAlways(all, ids, m) ==
    IF m.prior \in ids /\ ~Linked(all, m.prior, m.id)
    THEN all \union {<<m.prior, m.id, "supersedes">>}
    ELSE IF m.supersededById \in ids
    THEN all \union {<<m.id, m.supersededById, "supersedes">>}
    ELSE all

(* Mutant: only a correction's provenance is looked at.                    *)
NotedPrior(all, ids, m) ==
    IF m.prior \in ids /\ ~Linked(all, m.prior, m.id)
    THEN all \union {<<m.prior, m.id, "supersedes">>} ELSE all

(* The chain stored on the record itself, unless the pair is persisted.    *)
Noted(all, ids, m) ==
    IF m.prior \in ids /\ ~Linked(all, m.prior, m.id)
    THEN all \union {<<m.prior, m.id, "supersedes">>}
    ELSE IF m.supersededById \in ids /\ ~Linked(all, m.id, m.supersededById)
    THEN all \union {<<m.id, m.supersededById, "supersedes">>}
    ELSE all

(* persistedRelationships, in the order of the list.                       *)
Drawn(memories, supplied) ==
    LET ids == IdsOf(memories)
        all[i \in 0..Len(memories)] ==
            IF i = 0 THEN supplied ELSE Noted(all[i - 1], ids, memories[i])
    IN {r \in all[Len(memories)] : r[1] \in ids /\ r[2] \in ids}

(* Mutant: the current correction comes before the address.                *)
SelectedFirst(memories, focus) ==
    IF \E i \in DOMAIN memories : memories[i].status = "eligible"
    THEN (CHOOSE m \in Range(memories) : m.status = "eligible").id
    ELSE memories[1].id

(* useState and the two effects after it: the focus, if it is shown; the   *)
(* first of the list, if it is not; or what is current.                    *)
Selected(memories, focus) ==
    LET correction == {m \in Range(memories) :
                           m.memoryType = "correction" /\ m.status = "eligible"}
        eligible == {m \in Range(memories) : m.status = "eligible"}
        first(S) == (CHOOSE m \in S : \A o \in S : m.id <= o.id).id
    IN IF focus \in IdsOf(memories) THEN focus
       ELSE IF focus # 0 THEN memories[1].id
       ELSE IF correction # {} THEN first(correction)
       ELSE IF eligible # {} THEN first(eligible)
       ELSE memories[1].id

-----------------------------------------------------------------------------
(* What is shown as a quotation: <<memory, quote>>.                        *)
Quotation(id, source) ==
    IF source.sourceVerified /\ source.sourceQuote # 0 THEN {<<id, source.sourceQuote>>}
    ELSE {}

(* ChatMessage: the groups of "Why this advice".                           *)
Groups(dto) ==
    LET context == {NormalizeMemory(d) : d \in dto.memoryContext}
        trace == {NormalizeExcluded(d) : d \in dto.excludedMemories}
        excludedIds == {t.memoryId : t \in trace}
    IN [used |-> {m \in context : m.id \in dto.usedMemoryIds},
        available |-> {m \in context : m.id \notin dto.usedMemoryIds \union excludedIds},
        excluded |-> {m \in context : m.id \in excludedIds},
        traceOnly |-> {t \in trace : \A m \in context : m.id # t.memoryId}]

MessageQuotes(g) ==
    UNION ({Quotation(m.id, m) : m \in g.used \union g.available \union g.excluded}
           \union {Quotation(t.memoryId, t) : t \in g.traceOnly})

MessageLinks(g) ==
    {m.id : m \in g.used \union g.available \union g.excluded}
    \union {t.memoryId : t \in g.traceOnly}

(* MemoryReceipt: a change is about its new memory.                        *)
ChangeTarget(c) == Or(c.after, c.before)
ReceiptQuotes(changes) == UNION {Quotation(ChangeTarget(c), c) : c \in changes}
ReceiptLinks(changes) == {ChangeTarget(c) : c \in changes} \ {0}

=============================================================================
