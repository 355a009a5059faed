------------------------ MODULE MemoryVersionsProofs ------------------------
(***************************************************************************)
(* Proofs about MemoryVersions, for any number of sessions, drafts and     *)
(* runs of consolidation.                                                  *)
(***************************************************************************)
EXTENDS MemoryVersions, FiniteSetTheorems, TLAPS

USE DraftsAssumption, ConfidenceAssumption, NamesAssumption, TypesAssumption

-----------------------------------------------------------------------------
(* The inductive invariant.                                                *)

(* A transaction works on committed memories and on its own, and what it   *)
(* supersedes one by is its own.                                           *)
OwnWork ==
    \A s \in Sessions :
        /\ IsFiniteSet(inserted[s])
        /\ existing[s] \subseteq created \union inserted[s]
        /\ \A r \in taken[s] \union wanted[s] :
              r[1] \in created \union inserted[s] /\ r[2] \in inserted[s]

(* A consolidation supersedes old memories by a summary that is committed. *)
SummaryReady ==
    /\ Seeds \subseteq created
    /\ cphase # "idle" => summary \in Summaries
    /\ cphase = "superseding" => summary \in created

(* Relations and successors are about committed memories, and each tells   *)
(* what the other one does.                                                *)
HistoryFull ==
    /\ \A r \in relations : /\ {r[1], r[2]} \subseteq created
                            /\ successor[r[1]] # NoMemory
    /\ \A m \in Ids : successor[m] # NoMemory =>
          /\ {m, successor[m]} \subseteq created
          /\ \/ successor[m] \in Summaries
             \/ \E r \in relations : r[1] = m /\ r[2] = successor[m]

IInv == TypeOK /\ OwnWork /\ SummaryReady /\ HistoryFull

-----------------------------------------------------------------------------
(* Writing a memory.                                                       *)

(* Confidence stays in percent.                                            *)
LEMMA NudgedType == \A c \in 0..100 : Nudged(c) \in 0..100
BY DEF Nudged

(* A triple of Relations has its parts in their sets.                      *)
LEMMA RelationParts ==
    \A r \in Relations : r[1] \in Ids /\ r[2] \in Ids
BY DEF Relations

(* The id of a session's next memory is one of Ids.                        *)
LEMMA NextIdType ==
    ASSUME IInv, NEW s \in Sessions, CanWrite(s)
    PROVE  NextId(s) \in Ids /\ NextId(s) # NoMemory
<1>1. Cardinality(inserted[s]) \in Nat
    BY FS_CardinalityType DEF IInv, OwnWork
<1>2. Cardinality(inserted[s]) + 1 \in 1..MaxDrafts
    BY <1>1 DEF CanWrite
<1>3. NextId(s) \in Sessions \X (1..MaxDrafts)
    BY <1>2 DEF NextId
<1> QED
    BY <1>3 DEF Ids

(* A memory that is inserted has its columns in their sets, and is its     *)
(* session's own.                                                          *)
LEMMA InsertType ==
    ASSUME IInv, NEW s \in Sessions, NEW n \in Ids, NEW ty \in MemoryTypes,
           NEW c \in 0..100, NEW count \in Nat, NEW imp,
           Insert(s, n, ty, c, count, imp)
    PROVE  /\ type' \in [Ids -> MemoryTypes]
           /\ conf' \in [Ids -> 0..100]
           /\ cross' \in [Ids -> Nat]
           /\ source' \in [Ids -> Sessions \union {NoSession}]
           /\ implausible' \subseteq Ids
           /\ inserted' \in [Sessions -> SUBSET Ids]
           /\ inserted'[s] = inserted[s] \union {n}
           /\ \A v \in Sessions \ {s} : inserted'[v] = inserted[v]
           /\ \A v \in Sessions : IsFiniteSet(inserted'[v])
<1>1. inserted' = [inserted EXCEPT ![s] = inserted[s] \union {n}]
    BY DEF Insert
<1>2. IsFiniteSet(inserted[s] \union {n})
    BY FS_AddElement DEF IInv, OwnWork
<1>3. /\ inserted' \in [Sessions -> SUBSET Ids]
      /\ inserted'[s] = inserted[s] \union {n}
      /\ \A v \in Sessions \ {s} : inserted'[v] = inserted[v]
    BY <1>1 DEF IInv, TypeOK
<1>4. \A v \in Sessions : IsFiniteSet(inserted'[v])
    BY <1>2, <1>3 DEF IInv, OwnWork
<1>5. /\ type' \in [Ids -> MemoryTypes]
      /\ conf' \in [Ids -> 0..100]
      /\ cross' \in [Ids -> Nat]
      /\ source' \in [Ids -> Sessions \union {NoSession}]
      /\ implausible' \subseteq Ids
    BY DEF Insert, IInv, TypeOK
<1> QED
    BY <1>3, <1>4, <1>5

-----------------------------------------------------------------------------
(* The steps.                                                              *)

(* It holds initially.                                                     *)
LEMMA InitInv == Init => IInv
<1> SUFFICES ASSUME Init
             PROVE  IInv
    OBVIOUS
<1>1. TypeOK
  <2>1. Seeds \subseteq Ids /\ created = Seeds
    BY DEF Init, Ids
  <2>2. type \in [Ids -> MemoryTypes]
    BY DEF Init, MemoryTypes
  <2>3. conf \in [Ids -> 0..100]
    <3>1. PICK c \in [Seeds -> Confidences] :
              conf = [m \in Ids |-> IF m \in Seeds THEN c[m] ELSE 0]
      BY DEF Init
    <3>2. \A m \in Seeds : c[m] \in 0..100
      BY <3>1
    <3>3. ASSUME NEW m \in Ids
          PROVE  (IF m \in Seeds THEN c[m] ELSE 0) \in 0..100
      <4>1. CASE m \in Seeds
        BY <4>1, <3>2
      <4>2. CASE m \notin Seeds
        BY <4>2
      <4> QED
        BY <4>1, <4>2
    <3> QED
      BY <3>1, <3>3
  <2> QED
    BY <2>1, <2>2, <2>3 DEF Init, TypeOK
<1>2. OwnWork
    BY FS_EmptySet DEF Init, OwnWork
<1>3. SummaryReady
    BY DEF Init, SummaryReady
<1>4. HistoryFull
    BY DEF Init, HistoryFull
<1> QED
    BY <1>1, <1>2, <1>3, <1>4 DEF IInv

(* What a transaction does to its own memories leaves the committed ones   *)
(* and their history alone.                                                *)
LEMMA SameHistory ==
    ASSUME IInv, UNCHANGED <<rows, cphase, summary>>
    PROVE  SummaryReady' /\ HistoryFull'
BY DEF IInv, rows, SummaryReady, HistoryFull

(* A transaction begins with the list of active memories.                  *)
LEMMA BeginInv ==
    ASSUME IInv, NEW s \in Sessions, Begin(s)
    PROVE  IInv'
<1>1. /\ phase' = [phase EXCEPT ![s] = "writing"]
      /\ existing' = [existing EXCEPT ![s] = Active]
      /\ UNCHANGED <<rows, columns, inserted, taken, wanted, consolidation>>
    BY DEF Begin
<1>2. UNCHANGED <<created, successor, relations, type, conf, cross, source, implausible,
                  inserted, taken, wanted, cphase, summary, stale>>
    BY <1>1 DEF rows, columns, consolidation
<1>3. Active \subseteq created
    BY DEF Active
<1>4. TypeOK'
    BY <1>1, <1>2, <1>3 DEF IInv, TypeOK
<1>5. OwnWork'
  <2>1. /\ existing'[s] = Active
        /\ \A v \in Sessions \ {s} : existing'[v] = existing[v]
    BY <1>1 DEF IInv, TypeOK
  <2> QED
    BY <2>1, <1>2, <1>3 DEF IInv, OwnWork
<1>6. SummaryReady' /\ HistoryFull'
    BY <1>2, SameHistory DEF rows
<1> QED
    BY <1>4, <1>5, <1>6 DEF IInv

(* A draft that is new is created.                                         *)
LEMMA CreateInv ==
    ASSUME IInv, NEW s \in Sessions, CreateMemory(s)
    PROVE  IInv'
<1>1. PICK ty \in DraftTypes, c \in Confidences, imp \in BOOLEAN :
          Insert(s, NextId(s), ty, c, 1, imp)
    BY DEF CreateMemory
<1>2. NextId(s) \in Ids
    BY NextIdType DEF CreateMemory
<1>3. ty \in MemoryTypes /\ c \in 0..100
    BY <1>1
<1>4. /\ type' \in [Ids -> MemoryTypes]
      /\ conf' \in [Ids -> 0..100]
      /\ cross' \in [Ids -> Nat]
      /\ source' \in [Ids -> Sessions \union {NoSession}]
      /\ implausible' \subseteq Ids
      /\ inserted' \in [Sessions -> SUBSET Ids]
      /\ inserted'[s] = inserted[s] \union {NextId(s)}
      /\ \A v \in Sessions \ {s} : inserted'[v] = inserted[v]
      /\ \A v \in Sessions : IsFiniteSet(inserted'[v])
    BY <1>1, <1>2, <1>3, InsertType
<1>5. UNCHANGED <<created, successor, relations, phase, taken, wanted, cphase, summary, stale>>
    BY DEF CreateMemory, rows, consolidation
<1>6. /\ existing' \in [Sessions -> SUBSET Ids]
      /\ existing'[s] = existing[s] \union {NextId(s)}
      /\ \A v \in Sessions \ {s} : existing'[v] = existing[v]
    BY <1>2 DEF CreateMemory, IInv, TypeOK
<1>7. TypeOK'
    BY <1>4, <1>5, <1>6 DEF IInv, TypeOK
<1>8. OwnWork'
    BY <1>4, <1>5, <1>6 DEF IInv, OwnWork
<1>9. SummaryReady' /\ HistoryFull'
    BY <1>5, SameHistory DEF rows
<1> QED
    BY <1>7, <1>8, <1>9 DEF IInv

(* A draft that replaces m is written, and wants to supersede it.          *)
LEMMA WantInv ==
    ASSUME IInv, NEW s \in Sessions, NEW m \in existing[s], CanWrite(s),
           NEW ty \in MemoryTypes, NEW c \in 0..100, NEW count \in Nat, NEW imp,
           NEW kind \in {"supersedes", "reinforces"},
           Insert(s, NextId(s), ty, c, count, imp),
           wanted' = [wanted EXCEPT ![s] = {<<m, NextId(s), kind>>}],
           phase' = [phase EXCEPT ![s] = "waiting"],
           UNCHANGED <<rows, existing, taken, consolidation>>
    PROVE  IInv'
<1>1. NextId(s) \in Ids /\ m \in Ids /\ m \in created \union inserted[s]
    BY NextIdType DEF IInv, TypeOK, OwnWork
<1>2. /\ type' \in [Ids -> MemoryTypes]
      /\ conf' \in [Ids -> 0..100]
      /\ cross' \in [Ids -> Nat]
      /\ source' \in [Ids -> Sessions \union {NoSession}]
      /\ implausible' \subseteq Ids
      /\ inserted' \in [Sessions -> SUBSET Ids]
      /\ inserted'[s] = inserted[s] \union {NextId(s)}
      /\ \A v \in Sessions \ {s} : inserted'[v] = inserted[v]
      /\ \A v \in Sessions : IsFiniteSet(inserted'[v])
    BY <1>1, InsertType
<1>3. UNCHANGED <<created, successor, relations, existing, taken, cphase, summary, stale>>
    BY DEF rows, consolidation
<1>4. {<<m, NextId(s), kind>>} \subseteq Relations
    BY <1>1 DEF Relations
<1>5. /\ wanted' \in [Sessions -> SUBSET Relations]
      /\ wanted'[s] = {<<m, NextId(s), kind>>}
      /\ \A v \in Sessions \ {s} : wanted'[v] = wanted[v]
    BY <1>4 DEF IInv, TypeOK
<1>6. TypeOK'
    BY <1>2, <1>3, <1>5 DEF IInv, TypeOK
<1>7. OwnWork'
  <2>1. ASSUME NEW v \in Sessions, NEW r \in taken'[v] \union wanted'[v]
        PROVE  r[1] \in created \union inserted'[v] /\ r[2] \in inserted'[v]
    <3>1. CASE r \in taken[v] \union wanted[v]
      BY <3>1, <1>2 DEF IInv, OwnWork
    <3>2. CASE v = s /\ r = <<m, NextId(s), kind>>
      BY <3>2, <1>1, <1>2
    <3> QED
      BY <3>1, <3>2, <2>1, <1>3, <1>5
  <2>2. \A v \in Sessions : existing'[v] \subseteq created \union inserted'[v]
    BY <1>2, <1>3 DEF IInv, OwnWork
  <2> QED
    BY <2>1, <2>2, <1>2, <1>3 DEF OwnWork
<1>8. SummaryReady' /\ HistoryFull'
    BY <1>3, SameHistory DEF rows
<1> QED
    BY <1>6, <1>7, <1>8 DEF IInv

(* A correction or a confirmation of m is written.                         *)
LEMMA ReplaceInv ==
    ASSUME IInv, NEW s \in Sessions, NEW m \in Ids, Contradict(s, m) \/ Reinforce(s, m)
    PROVE  IInv'
<1>1. CASE Contradict(s, m)
  <2>1. PICK ty \in DraftTypes, imp \in BOOLEAN :
            /\ m \in Candidates(s, ty)
            /\ Insert(s, NextId(s), "correction", 95, 1, imp)
    BY <1>1 DEF Contradict
  <2>2. m \in existing[s]
    BY <2>1 DEF Candidates
  <2>3. /\ CanWrite(s)
        /\ wanted' = [wanted EXCEPT ![s] = {<<m, NextId(s), "supersedes">>}]
        /\ phase' = [phase EXCEPT ![s] = "waiting"]
        /\ UNCHANGED <<rows, existing, taken, consolidation>>
    BY <1>1 DEF Contradict
  <2>4. "correction" \in MemoryTypes /\ 95 \in 0..100
    BY DEF MemoryTypes
  <2> QED
    BY <2>1, <2>2, <2>3, <2>4, WantInv
<1>2. CASE Reinforce(s, m)
  <2>1. PICK ty \in DraftTypes, imp \in BOOLEAN :
            /\ m \in Candidates(s, ty)
            /\ Insert(s, NextId(s), type[m], Nudged(conf[m]), CrossCount(s, m), imp)
    BY <1>2 DEF Reinforce
  <2>2. m \in existing[s]
    BY <2>1 DEF Candidates
  <2>3. /\ CanWrite(s)
        /\ wanted' = [wanted EXCEPT ![s] = {<<m, NextId(s), "reinforces">>}]
        /\ phase' = [phase EXCEPT ![s] = "waiting"]
        /\ UNCHANGED <<rows, existing, taken, consolidation>>
    BY <1>2 DEF Reinforce
  <2>4. type[m] \in MemoryTypes /\ conf[m] \in 0..100 /\ CrossCount(s, m) \in Nat
    BY DEF IInv, TypeOK, CrossCount
  <2>5. Nudged(conf[m]) \in 0..100
    BY <2>4, NudgedType
  <2> QED
    BY <2>1, <2>2, <2>3, <2>4, <2>5, WantInv
<1> QED
    BY <1>1, <1>2

(* Nobody else has the row locked, and the old memory is superseded by a   *)
(* memory of the transaction.                                              *)
LEMMA SupersedeInv ==
    ASSUME IInv, NEW s \in Sessions, Supersede(s)
    PROVE  IInv'
<1>1. PICK r \in wanted[s] :
          /\ taken' = [taken EXCEPT ![s] = @ \union {r}]
          /\ existing' = [existing EXCEPT ![s] = (@ \ {r[1]}) \union {r[2]}]
    BY DEF Supersede
<1>2. /\ wanted' = [wanted EXCEPT ![s] = {}]
      /\ phase' = [phase EXCEPT ![s] = "writing"]
      /\ UNCHANGED <<created, successor, relations, type, conf, cross, source, implausible,
                     inserted, cphase, summary, stale>>
    BY DEF Supersede, rows, columns, consolidation
<1>3. /\ r \in Relations /\ r[1] \in Ids /\ r[2] \in Ids
      /\ r[1] \in created \union inserted[s] /\ r[2] \in inserted[s]
    BY <1>1, RelationParts DEF IInv, TypeOK, OwnWork
<1>4. /\ taken' \in [Sessions -> SUBSET Relations]
      /\ taken'[s] = taken[s] \union {r}
      /\ existing' \in [Sessions -> SUBSET Ids]
      /\ existing'[s] = (existing[s] \ {r[1]}) \union {r[2]}
      /\ wanted' \in [Sessions -> SUBSET Relations]
      /\ wanted'[s] = {}
      /\ \A v \in Sessions \ {s} :
            taken'[v] = taken[v] /\ existing'[v] = existing[v] /\ wanted'[v] = wanted[v]
    BY <1>1, <1>2, <1>3 DEF IInv, TypeOK
<1>5. TypeOK'
    BY <1>2, <1>4 DEF IInv, TypeOK
<1>6. OwnWork'
    BY <1>2, <1>3, <1>4 DEF IInv, OwnWork
<1>7. SummaryReady' /\ HistoryFull'
    BY <1>2, SameHistory DEF rows
<1> QED
    BY <1>5, <1>6, <1>7 DEF IInv

(* The end of a transaction leaves nothing of its own.                     *)
LEMMA CloseType ==
    ASSUME IInv, NEW s \in Sessions, NEW outcome \in {"idle", "done"}, Close(s, outcome)
    PROVE  /\ phase' \in [Sessions -> {"idle", "writing", "waiting", "done"}]
           /\ existing' \in [Sessions -> SUBSET Ids]
           /\ inserted' \in [Sessions -> SUBSET Ids]
           /\ taken' \in [Sessions -> SUBSET Relations]
           /\ wanted' \in [Sessions -> SUBSET Relations]
           /\ existing'[s] = {} /\ inserted'[s] = {} /\ taken'[s] = {} /\ wanted'[s] = {}
           /\ \A v \in Sessions \ {s} :
                 /\ existing'[v] = existing[v] /\ inserted'[v] = inserted[v]
                 /\ taken'[v] = taken[v] /\ wanted'[v] = wanted[v]
BY DEF Close, IInv, TypeOK

LEMMA CloseWork ==
    ASSUME IInv, NEW s \in Sessions, NEW outcome \in {"idle", "done"}, Close(s, outcome),
           created \subseteq created'
    PROVE  OwnWork'
<1>1. ASSUME NEW v \in Sessions
      PROVE  /\ IsFiniteSet(inserted'[v])
             /\ existing'[v] \subseteq created' \union inserted'[v]
             /\ \A r \in taken'[v] \union wanted'[v] :
                   r[1] \in created' \union inserted'[v] /\ r[2] \in inserted'[v]
  <2>1. CASE v = s
    <3>1. existing'[s] = {} /\ inserted'[s] = {} /\ taken'[s] = {} /\ wanted'[s] = {}
      BY CloseType
    <3>2. IsFiniteSet(inserted'[s])
      BY <3>1, FS_EmptySet
    <3> QED
      BY <2>1, <3>1, <3>2
  <2>2. CASE v # s
    BY <2>2, CloseType DEF IInv, OwnWork
  <2> QED
    BY <2>1, <2>2
<1> QED
    BY <1>1 DEF OwnWork

(* A commit: its relations and successors come together, and refer to what *)
(* is committed with them or before.                                       *)
LEMMA CommitInv ==
    ASSUME IInv, NEW s \in Sessions, Commit(s)
    PROVE  IInv'
<1>1. /\ created' = created \union inserted[s]
      /\ relations' = relations \union taken[s]
      /\ successor' = [m \in Ids |-> IF \E r \in taken[s] : r[1] = m
                                     THEN (CHOOSE r \in taken[s] : r[1] = m)[2]
                                     ELSE successor[m]]
      /\ Close(s, "done")
      /\ UNCHANGED <<type, conf, cross, source, implausible, cphase, summary, stale>>
    BY DEF Commit, columns, consolidation
<1>2. \A r \in taken[s] : /\ r \in Relations /\ r[1] \in Ids /\ r[2] \in Ids
                          /\ r[1] \in created' /\ r[2] \in created'
    BY <1>1, RelationParts DEF IInv, TypeOK, OwnWork
<1>3. ASSUME NEW m \in Ids
      PROVE  \/ \E r \in taken[s] : r[1] = m /\ successor'[m] = r[2]
             \/ /\ \A r \in taken[s] : r[1] # m
                /\ successor'[m] = successor[m]
  <2>1. CASE \E r \in taken[s] : r[1] = m
    <3> DEFINE q == CHOOSE r \in taken[s] : r[1] = m
    <3>1. q \in taken[s] /\ q[1] = m
      BY <2>1
    <3>2. successor'[m] = q[2]
      BY <2>1, <1>1
    <3> QED
      BY <3>1, <3>2
  <2>2. CASE \A r \in taken[s] : r[1] # m
    BY <2>2, <1>1
  <2> QED
    BY <2>1, <2>2
<1>4. successor' \in [Ids -> Ids \union {NoMemory}]
  <2>1. \A m \in Ids : successor'[m] \in Ids \union {NoMemory}
    BY <1>2, <1>3 DEF IInv, TypeOK
  <2> QED
    BY <2>1, <1>1
<1>5. TypeOK'
  <2>1. created' \subseteq Ids /\ relations' \subseteq Relations
    BY <1>1 DEF IInv, TypeOK
  <2> QED
    BY <2>1, <1>1, <1>4, CloseType DEF IInv, TypeOK
<1>6. OwnWork'
    BY <1>1, CloseWork
<1>7. SummaryReady'
    BY <1>1 DEF IInv, SummaryReady
<1>8. HistoryFull'
  <2>1. ASSUME NEW r \in relations'
        PROVE  {r[1], r[2]} \subseteq created' /\ successor'[r[1]] # NoMemory
    <3>1. r[1] \in Ids /\ {r[1], r[2]} \subseteq created'
      BY <1>1, <1>2, RelationParts DEF IInv, TypeOK, HistoryFull
    <3>2. CASE \E q \in taken[s] : q[1] = r[1] /\ successor'[r[1]] = q[2]
      <4>1. successor'[r[1]] \in Ids
        BY <3>2, <1>2
      <4> QED
        BY <4>1, <3>1, NamesAssumption
    <3>3. CASE /\ \A q \in taken[s] : q[1] # r[1]
               /\ successor'[r[1]] = successor[r[1]]
      BY <3>3, <1>1 DEF IInv, HistoryFull
    <3> QED
      BY <3>1, <3>2, <3>3, <1>3
  <2>2. ASSUME NEW m \in Ids, successor'[m] # NoMemory
        PROVE  /\ {m, successor'[m]} \subseteq created'
               /\ \/ successor'[m] \in Summaries
                  \/ \E r \in relations' : r[1] = m /\ r[2] = successor'[m]
    <3>1. CASE \E r \in taken[s] : r[1] = m /\ successor'[m] = r[2]
      BY <3>1, <1>1, <1>2
    <3>2. CASE successor'[m] = successor[m]
      BY <3>2, <2>2, <1>1 DEF IInv, HistoryFull
    <3> QED
      BY <3>1, <3>2, <1>3
  <2> QED
    BY <2>1, <2>2 DEF HistoryFull
<1> QED
    BY <1>5, <1>6, <1>7, <1>8 DEF IInv

(* A rollback takes a transaction's own memories with it, and no others.   *)
LEMMA RollbackInv ==
    ASSUME IInv, NEW s \in Sessions, Rollback(s)
    PROVE  IInv'
<1>1. Close(s, "idle") /\ UNCHANGED <<created, successor, relations, cphase, summary, stale>>
    BY DEF Rollback, rows, consolidation
<1>2. /\ type' \in [Ids -> MemoryTypes]
      /\ conf' \in [Ids -> 0..100]
      /\ cross' \in [Ids -> Nat]
      /\ source' \in [Ids -> Sessions \union {NoSession}]
      /\ implausible' \subseteq Ids
    BY DEF Rollback, IInv, TypeOK, MemoryTypes
<1>3. TypeOK'
    BY <1>1, <1>2, CloseType DEF IInv, TypeOK
<1>4. OwnWork'
    BY <1>1, CloseWork
<1>5. SummaryReady' /\ HistoryFull'
    BY <1>1, SameHistory DEF rows
<1> QED
    BY <1>3, <1>4, <1>5 DEF IInv

(* Consolidation: the summary is committed before it replaces anything.    *)
LEMMA ConsolidationInv ==
    ASSUME IInv,
           \/ \E c \in Summaries : ReadStale(c)
           \/ WriteSummary \/ (\E m \in Seeds : SupersedeStale(m)) \/ EndConsolidation
    PROVE  IInv'
<1>1. UNCHANGED <<relations, cross, source, implausible, phase, existing, inserted, taken, wanted>>
    BY DEF ReadStale, WriteSummary, SupersedeStale, EndConsolidation, rows, columns, writers
<1>2. created \subseteq created' => OwnWork'
    BY <1>1 DEF IInv, OwnWork
<1>3. CASE (\E c \in Summaries : ReadStale(c)) \/ EndConsolidation
  <2>1. /\ cphase' \in {"idle", "summarising"}
        /\ cphase' # "idle" => summary' \in Summaries
        /\ summary' \in Summaries \union {NoMemory}
        /\ stale' \subseteq Seeds
        /\ UNCHANGED <<created, successor, type, conf>>
    BY <1>3 DEF ReadStale, EndConsolidation, rows, columns
  <2>2. TypeOK'
    BY <1>1, <2>1 DEF IInv, TypeOK
  <2>3. SummaryReady' /\ HistoryFull'
    BY <1>1, <2>1 DEF IInv, SummaryReady, HistoryFull
  <2> QED
    BY <1>2, <2>1, <2>2, <2>3 DEF IInv
<1>4. CASE WriteSummary
  <2>1. /\ cphase = "summarising" /\ cphase' = "superseding"
        /\ created' = created \union {summary} /\ summary \in Summaries
        /\ type' = [type EXCEPT ![summary] = "consolidated"]
        /\ UNCHANGED <<successor, summary, stale>>
    BY <1>4 DEF WriteSummary, IInv, SummaryReady
  <2>2. summary \in Ids
    BY <2>1 DEF Ids
  <2>3. PICK c \in Confidences : conf' = [conf EXCEPT ![summary] = c]
    BY <1>4 DEF WriteSummary
  <2>4. c \in 0..100
    BY <2>3
  <2>5. type' \in [Ids -> MemoryTypes] /\ conf' \in [Ids -> 0..100]
    BY <2>1, <2>3, <2>4 DEF IInv, TypeOK, MemoryTypes
  <2>6. TypeOK'
    BY <1>1, <2>1, <2>2, <2>5 DEF IInv, TypeOK
  <2>7. SummaryReady' /\ HistoryFull'
    BY <1>1, <2>1 DEF IInv, SummaryReady, HistoryFull
  <2> QED
    BY <1>2, <2>1, <2>6, <2>7 DEF IInv
<1>5. ASSUME NEW m \in Seeds, SupersedeStale(m)
      PROVE  IInv'
  <2>1. /\ cphase = "superseding" /\ summary \in Summaries /\ summary \in created
        /\ successor' = [successor EXCEPT ![m] = summary]
        /\ stale' = stale \ {m}
        /\ UNCHANGED <<created, relations, type, conf, cphase, summary>>
    BY <1>5 DEF SupersedeStale, IInv, SummaryReady, columns
  <2>2. m \in Ids /\ m \in created /\ summary \in Ids
    BY <2>1 DEF Ids, IInv, SummaryReady
  <2>3. /\ successor' \in [Ids -> Ids \union {NoMemory}]
        /\ successor'[m] = summary
        /\ \A x \in Ids \ {m} : successor'[x] = successor[x]
    BY <2>1, <2>2 DEF IInv, TypeOK
  <2>4. TypeOK'
    BY <1>1, <2>1, <2>3 DEF IInv, TypeOK
  <2>5. SummaryReady'
    BY <2>1 DEF IInv, SummaryReady
  <2>6. HistoryFull'
    <3>1. ASSUME NEW r \in relations
          PROVE  {r[1], r[2]} \subseteq created /\ successor'[r[1]] # NoMemory
      <4>1. r[1] \in Ids /\ {r[1], r[2]} \subseteq created /\ successor[r[1]] # NoMemory
        BY RelationParts DEF IInv, TypeOK, HistoryFull
      <4> QED
        BY <4>1, <2>2, <2>3
    <3>2. ASSUME NEW x \in Ids, successor'[x] # NoMemory
          PROVE  /\ {x, successor'[x]} \subseteq created
                 /\ \/ successor'[x] \in Summaries
                    \/ \E r \in relations : r[1] = x /\ r[2] = successor'[x]
      <4>1. CASE x = m
        BY <4>1, <2>1, <2>2, <2>3
      <4>2. CASE x # m
        BY <4>2, <3>2, <2>3 DEF IInv, HistoryFull
      <4> QED
        BY <4>1, <4>2
    <3> QED
      BY <3>1, <3>2, <2>1 DEF HistoryFull
  <2> QED
    BY <1>2, <2>1, <2>4, <2>5, <2>6 DEF IInv
<1> QED
    BY <1>3, <1>4, <1>5

(* Every step keeps the invariant.                                         *)
LEMMA NextInv == IInv /\ [Next]_vars => IInv'
<1> SUFFICES ASSUME IInv, [Next]_vars
             PROVE  IInv'
    OBVIOUS
<1>1. CASE UNCHANGED vars
  <2>1. UNCHANGED <<created, successor, relations, type, conf, cross, source, implausible,
                    phase, existing, inserted, taken, wanted, cphase, summary, stale>>
    BY <1>1 DEF vars, rows, columns, writers, consolidation
  <2> QED
    BY <2>1, SameHistory DEF IInv, TypeOK, OwnWork, rows
<1>2. ASSUME NEW s \in Sessions, Begin(s) \/ WriterStep(s) \/ WriteFails(s)
      PROVE  IInv'
    BY <1>2, BeginInv, CreateInv, ReplaceInv, SupersedeInv, CommitInv, RollbackInv
    DEF WriterStep, WriteFails, DeadlockVictim
<1> QED
    BY <1>1, <1>2, ConsolidationInv DEF Next

(* The inductive invariant holds in every reachable state.                 *)
THEOREM InvariantHolds == Spec => []IInv
BY InitInv, NextInv, PTL DEF Spec

(* Rows, columns and transactions are what they are said to be.            *)
THEOREM TypeCorrect == Spec => []TypeOK
<1>1. IInv => TypeOK
    BY DEF IInv
<1> QED
    BY <1>1, InvariantHolds, PTL

(* The two records of history agree, for any number of sessions that       *)
(* overlap with each other and with consolidation, that fail or that are   *)
(* chosen to end a deadlock.                                               *)
THEOREM HistoryCorrect == Spec => []HistoryAgrees
<1>1. IInv => HistoryAgrees
  <2> SUFFICES ASSUME IInv
               PROVE  HistoryAgrees
    OBVIOUS
  <2>1. \A r \in relations : r[1] \in created \ Active /\ r[2] \in created
    BY DEF IInv, HistoryFull, Active
  <2>2. \A m \in created \ Active : m \in Ids /\ successor[m] # NoMemory
    BY DEF IInv, TypeOK, Active
  <2> QED
    BY <2>1, <2>2 DEF IInv, HistoryFull, HistoryAgrees
<1> QED
    BY <1>1, InvariantHolds, PTL
=============================================================================
