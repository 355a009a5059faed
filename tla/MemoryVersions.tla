-------------------------- MODULE MemoryVersions --------------------------
(***************************************************************************)
(* The memories of one workspace and how they replace each other: the loop *)
(* of session.py that turns drafts into memories inside the second         *)
(* transaction of end_session, with contradiction.py, store.py, decay.py's *)
(* reinforce and provenance.py, and the consolidation cycle.               *)
(*                                                                         *)
(* A memory is never rewritten: a correction or a confirmation is a new    *)
(* row, and the old one is marked superseded by it.  Two sessions of the   *)
(* workspace can be ended at the same time.  Each works on the list of     *)
(* active memories that it read when it started (READ COMMITTED, no lock   *)
(* on the list), its rows are visible from its commit on, and PostgreSQL   *)
(* locks a memory's row from the UPDATE that supersedes it to the commit.  *)
(* Consolidation commits each of its statements by itself.                 *)
(*                                                                         *)
(* What Qwen decides (is a draft plausible, which memory does it repeat or *)
(* contradict) is a choice.  Confidence is in percent.                     *)
(***************************************************************************)
EXTENDS Integers, FiniteSets

CONSTANTS
    Seeds,         \* memories of earlier sessions, old enough to be stale
    Sessions,      \* sessions that are being ended, each by its lease holder
    Summaries,     \* memories that runs of consolidation may write
    MaxDrafts,     \* bound: drafts that are extracted from a session
    MaxOpen,       \* bound: sessions whose transactions overlap
    DraftTypes,    \* memory types that are extracted
    Confidences,   \* base confidences that extraction and Qwen assign
    Cap,           \* plausibility_confidence_cap
    GateCaps,      \* caps that Qwen names when it finds a draft implausible
    NoMemory, NoSession

ASSUME DraftsAssumption == MaxDrafts \in Nat /\ MaxOpen \in Nat
ASSUME ConfidenceAssumption == Confidences \subseteq 0..100 /\ Cap \in 0..100
ASSUME GateAssumption == GateCaps \subseteq 0..100

Ids == Seeds \union (Sessions \X (1..MaxDrafts)) \union Summaries

ASSUME NamesAssumption == NoMemory \notin Ids /\ NoSession \notin Sessions

(* Ids are UUIDs: no two memories have the same one.  The database is      *)
(* finite.                                                                 *)
ASSUME DistinctAssumption ==
    /\ Seeds \intersect Summaries = {}
    /\ \A n \in Sessions \X (1..MaxDrafts) : n \notin Seeds \union Summaries
ASSUME FiniteAssumption ==
    IsFiniteSet(Seeds) /\ IsFiniteSet(Sessions) /\ IsFiniteSet(Summaries)

MemoryTypes == {"preference", "fact", "outcome", "correction", "consolidated"}

ASSUME TypesAssumption == DraftTypes \subseteq MemoryTypes

VARIABLES
    created,       \* committed rows of memories
    successor,     \* superseded_by_id, committed
    relations,     \* memory_relations, committed: <<before, after, kind>>
    type, conf, cross, source,   \* columns that are set when a row is written
    implausible,   \* the memories whose draft the plausibility gate capped
    phase,         \* a session's transaction
    existing,      \* its list of active memories
    inserted,      \* memories it has written
    taken,         \* <<old, new, kind>>: rows it has marked superseded
    wanted,        \* the UPDATE it waits for, as such a triple
    cphase,        \* the consolidation run
    summary, stale               \* its new memory and what it replaces

rows == <<created, successor, relations>>
columns == <<type, conf, cross, source, implausible>>
writers == <<phase, existing, inserted, taken, wanted>>
consolidation == <<cphase, summary, stale>>
vars == <<rows, columns, writers, consolidation>>

Relations == Ids \X Ids \X {"supersedes", "reinforces"}

TypeOK ==
    /\ created \subseteq Ids
    /\ successor \in [Ids -> Ids \union {NoMemory}]
    /\ relations \subseteq Relations
    /\ type \in [Ids -> MemoryTypes]
    /\ conf \in [Ids -> 0..100]
    /\ cross \in [Ids -> Nat]
    /\ source \in [Ids -> Sessions \union {NoSession}]
    /\ implausible \subseteq Ids
    /\ phase \in [Sessions -> {"idle", "writing", "waiting", "done"}]
    /\ existing \in [Sessions -> SUBSET Ids]
    /\ inserted \in [Sessions -> SUBSET Ids]
    /\ taken \in [Sessions -> SUBSET Relations]
    /\ wanted \in [Sessions -> SUBSET Relations]
    /\ cphase \in {"idle", "summarising", "superseding"}
    /\ summary \in Summaries \union {NoMemory}
    /\ stale \subseteq Seeds

-----------------------------------------------------------------------------
Open(s) == phase[s] \in {"writing", "waiting"}

(* NOT is_superseded, as every other transaction sees it.                  *)
Active == {m \in created : successor[m] = NoMemory}

(* The types classify_relationship compares a draft with.                  *)
Comparable(ty) ==
    IF ty \in {"fact", "correction"} THEN {"fact", "correction"} ELSE {ty}

Candidates(s, ty) == {m \in existing[s] : type[m] \in Comparable(ty)}

(* The row is locked by a session that has marked it superseded.           *)
LockedBy(m, s) == \E r \in taken[s] : r[1] = m

(* Mutant: the clock of cross-session growth advances on every repetition. *)
RepeatCount(s, m) == cross[m] + 1

(* reinforce: only the confirmation of another session counts.             *)
CrossCount(s, m) == IF source[m] = s THEN cross[m] ELSE cross[m] + 1

(* Mutant: confidence is not capped.                                       *)
NudgedUncapped(c) == c + 3

(* reinforce: confidence goes up by 0.03, to 0.98 at most.                 *)
Nudged(c) == IF c + 3 <= 98 THEN c + 3 ELSE 98

(* The id of the next memory a session writes.                             *)
NextId(s) == <<s, Cardinality(inserted[s]) + 1>>

-----------------------------------------------------------------------------
Init ==
    /\ created = Seeds
    /\ successor = [m \in Ids |-> NoMemory]
    /\ relations = {}
    /\ \E ty \in [Seeds -> DraftTypes] :
          type = [m \in Ids |-> IF m \in Seeds THEN ty[m] ELSE "consolidated"]
    /\ \E c \in [Seeds -> Confidences] :
          conf = [m \in Ids |-> IF m \in Seeds THEN c[m] ELSE 0]
    /\ cross = [m \in Ids |-> 1]
    /\ source = [m \in Ids |-> NoSession]
    /\ implausible = {}
    /\ phase = [s \in Sessions |-> "idle"]
    /\ existing = [s \in Sessions |-> {}]
    /\ inserted = [s \in Sessions |-> {}]
    /\ taken = [s \in Sessions |-> {}]
    /\ wanted = [s \in Sessions |-> {}]
    /\ cphase = "idle"
    /\ summary = NoMemory
    /\ stale = {}

(* The lease is still the session's own: list_memories inside the second   *)
(* transaction, after its locks.                                           *)
Begin(s) ==
    /\ phase[s] = "idle"
    /\ Cardinality({r \in Sessions : Open(r)}) < MaxOpen
    /\ phase' = [phase EXCEPT ![s] = "writing"]
    /\ existing' = [existing EXCEPT ![s] = Active]
    /\ UNCHANGED <<rows, columns, inserted, taken, wanted, consolidation>>

(* write_from_draft: INSERT INTO memories.                                 *)
Insert(s, n, ty, c, count, imp) ==
    /\ type' = [type EXCEPT ![n] = ty]
    /\ conf' = [conf EXCEPT ![n] = c]
    /\ cross' = [cross EXCEPT ![n] = count]
    /\ source' = [source EXCEPT ![n] = s]
    /\ implausible' = IF imp THEN implausible \union {n} ELSE implausible \ {n}
    /\ inserted' = [inserted EXCEPT ![s] = @ \union {n}]

(* A draft of type ty that the plausibility gate capped, or did not: by    *)
(* Cap if it matches a prohibited claim, else by what Qwen says.           *)
Drafted(ty, c, imp) ==
    /\ ty \in DraftTypes
    /\ c \in Confidences
    /\ imp \in BOOLEAN
    /\ imp => \E cap \in {Cap} \union GateCaps : c <= cap

CanWrite(s) == phase[s] = "writing" /\ Cardinality(inserted[s]) < MaxDrafts

(* The draft is about nothing that is remembered: it is created.           *)
CreateMemory(s) ==
    /\ CanWrite(s)
    /\ \E ty \in DraftTypes, c \in Confidences, imp \in BOOLEAN :
          /\ Drafted(ty, c, imp)
          /\ Insert(s, NextId(s), ty, c, 1, imp)
    /\ existing' = [existing EXCEPT ![s] = @ \union {NextId(s)}]
    /\ UNCHANGED <<rows, phase, taken, wanted, consolidation>>

(* The draft contradicts m: resolve writes it as a correction, at 0.95.    *)
Contradict(s, m) ==
    /\ CanWrite(s)
    /\ \E ty \in DraftTypes, c \in Confidences, imp \in BOOLEAN :
          /\ Drafted(ty, c, imp)
          /\ m \in Candidates(s, ty)
          /\ Insert(s, NextId(s), "correction", 95, 1, imp)
    /\ wanted' = [wanted EXCEPT ![s] = {<<m, NextId(s), "supersedes">>}]
    /\ phase' = [phase EXCEPT ![s] = "waiting"]
    /\ UNCHANGED <<rows, existing, taken, consolidation>>

(* The draft repeats m: _write_reinforcement_version writes a new version. *)
Reinforce(s, m) ==
    /\ CanWrite(s)
    /\ \E ty \in DraftTypes, c \in Confidences, imp \in BOOLEAN :
          /\ Drafted(ty, c, imp)
          /\ m \in Candidates(s, ty)
          /\ Insert(s, NextId(s), type[m], Nudged(conf[m]), CrossCount(s, m), imp)
    /\ wanted' = [wanted EXCEPT ![s] = {<<m, NextId(s), "reinforces">>}]
    /\ phase' = [phase EXCEPT ![s] = "waiting"]
    /\ UNCHANGED <<rows, existing, taken, consolidation>>

(* Mutant: the relation is written on a connection of its own.             *)
SupersedeAtOnce(s) ==
    /\ phase[s] = "waiting"
    /\ \E r \in wanted[s] :
          /\ \A v \in Sessions \ {s} : ~LockedBy(r[1], v)
          /\ taken' = [taken EXCEPT ![s] = @ \union {r}]
          /\ relations' = relations \union {r}
          /\ existing' = [existing EXCEPT ![s] = (@ \ {r[1]}) \union {r[2]}]
    /\ wanted' = [wanted EXCEPT ![s] = {}]
    /\ phase' = [phase EXCEPT ![s] = "writing"]
    /\ UNCHANGED <<created, successor, columns, inserted, consolidation>>

(* supersede: the UPDATE of the old row, once nobody else has it locked.   *)
Supersede(s) ==
    /\ phase[s] = "waiting"
    /\ \E r \in wanted[s] :
          /\ \A v \in Sessions \ {s} : ~LockedBy(r[1], v)
          /\ taken' = [taken EXCEPT ![s] = @ \union {r}]
          /\ existing' = [existing EXCEPT ![s] = (@ \ {r[1]}) \union {r[2]}]
    /\ wanted' = [wanted EXCEPT ![s] = {}]
    /\ phase' = [phase EXCEPT ![s] = "writing"]
    /\ UNCHANGED <<rows, columns, inserted, consolidation>>

(* Mutant: the rows stay locked when the transaction is over.              *)
CloseKeepsLocks(s, outcome) ==
    /\ phase' = [phase EXCEPT ![s] = outcome]
    /\ existing' = [existing EXCEPT ![s] = {}]
    /\ inserted' = [inserted EXCEPT ![s] = {}]
    /\ wanted' = [wanted EXCEPT ![s] = {}]
    /\ UNCHANGED taken

(* The transaction is over: its list and its locks are gone.               *)
Close(s, outcome) ==
    /\ phase' = [phase EXCEPT ![s] = outcome]
    /\ existing' = [existing EXCEPT ![s] = {}]
    /\ inserted' = [inserted EXCEPT ![s] = {}]
    /\ taken' = [taken EXCEPT ![s] = {}]
    /\ wanted' = [wanted EXCEPT ![s] = {}]

(* The transaction commits; what it superseded may have been superseded by *)
(* somebody else since, and is then superseded again.                      *)
Commit(s) ==
    /\ phase[s] = "writing"
    /\ created' = created \union inserted[s]
    /\ relations' = relations \union taken[s]
    /\ successor' = [m \in Ids |-> IF \E r \in taken[s] : r[1] = m
                                   THEN (CHOOSE r \in taken[s] : r[1] = m)[2]
                                   ELSE successor[m]]
    /\ Close(s, "done")
    /\ UNCHANGED <<columns, consolidation>>

(* The transaction is rolled back and its rows with it; the session may be *)
(* ended again.                                                            *)
Rollback(s) ==
    /\ Close(s, "idle")
    /\ type' = [n \in Ids |-> IF n \in inserted[s] THEN "consolidated" ELSE type[n]]
    /\ conf' = [n \in Ids |-> IF n \in inserted[s] THEN 0 ELSE conf[n]]
    /\ cross' = [n \in Ids |-> IF n \in inserted[s] THEN 1 ELSE cross[n]]
    /\ source' = [n \in Ids |-> IF n \in inserted[s] THEN NoSession ELSE source[n]]
    /\ implausible' = implausible \ inserted[s]
    /\ UNCHANGED <<rows, consolidation>>

(* A failed statement, or the end of the process.                          *)
WriteFails(s) == Open(s) /\ Rollback(s)

WaitsFor(s, v) == \E r \in wanted[s] : LockedBy(r[1], v)

(* PostgreSQL ends one of the transactions that wait for each other.       *)
DeadlockVictim(s) ==
    /\ \E D \in SUBSET Sessions :
          /\ s \in D
          /\ \A v \in D : \E u \in D \ {v} : WaitsFor(v, u)
          /\ \A v \in D : \E u \in D \ {v} : WaitsFor(u, v)
    /\ Rollback(s)

-----------------------------------------------------------------------------
(* run_consolidation.                                                      *)

(* At least two of the active memories are stale.                          *)
ReadStale(c) ==
    /\ cphase = "idle"
    /\ c \notin created
    /\ \E S \in SUBSET (Seeds \intersect Active) :
          Cardinality(S) >= 2 /\ stale' = S
    /\ summary' = c
    /\ cphase' = "summarising"
    /\ UNCHANGED <<rows, columns, writers>>

(* Mutant: the summary is written on a connection that is not committed.   *)
SummaryUncommitted ==
    /\ cphase = "summarising"
    /\ \E c \in Confidences : conf' = [conf EXCEPT ![summary] = c]
    /\ type' = [type EXCEPT ![summary] = "consolidated"]
    /\ cphase' = "superseding"
    /\ UNCHANGED <<rows, cross, source, implausible, writers, summary, stale>>

(* write_from_draft commits the summary, which is of no session.           *)
WriteSummary ==
    /\ cphase = "summarising"
    /\ created' = created \union {summary}
    /\ \E c \in Confidences : conf' = [conf EXCEPT ![summary] = c]
    /\ type' = [type EXCEPT ![summary] = "consolidated"]
    /\ cphase' = "superseding"
    /\ UNCHANGED <<successor, relations, cross, source, implausible, writers,
                   summary, stale>>

(* supersede commits by itself, for one stale memory after the other.      *)
SupersedeStale(m) ==
    /\ cphase = "superseding"
    /\ m \in stale
    /\ \A s \in Sessions : ~LockedBy(m, s)
    /\ successor' = [successor EXCEPT ![m] = summary]
    /\ stale' = stale \ {m}
    /\ UNCHANGED <<created, relations, columns, writers, cphase, summary>>

(* The run is over, or it failed or died on the way.                       *)
EndConsolidation ==
    /\ cphase # "idle"
    /\ cphase' = "idle"
    /\ summary' = NoMemory
    /\ stale' = {}
    /\ UNCHANGED <<rows, columns, writers>>

-----------------------------------------------------------------------------
(* What a transaction and a run of consolidation do of their own accord.   *)
WriterStep(s) ==
    \/ CreateMemory(s)
    \/ \E m \in Ids : Contradict(s, m) \/ Reinforce(s, m)
    \/ Supersede(s) \/ Commit(s) \/ DeadlockVictim(s)

Next ==
    \/ \E s \in Sessions : Begin(s) \/ WriterStep(s) \/ WriteFails(s)
    \/ \E c \in Summaries : ReadStale(c)
    \/ WriteSummary
    \/ \E m \in Seeds : SupersedeStale(m)
    \/ EndConsolidation

Spec == Init /\ [][Next]_vars

(* A transaction that is not blocked goes on, and PostgreSQL grants a row  *)
(* lock in the order in which it was asked for.                            *)
Fairness ==
    \A s \in Sessions : WF_vars(WriterStep(s)) /\ SF_vars(Supersede(s))

FairSpec == Spec /\ Fairness
-----------------------------------------------------------------------------
(* Properties.                                                             *)

(* The memories that edges lead to from S, directly or in several steps.   *)
Closure(edges, S) ==
    LET f[n \in 0..Cardinality(Ids)] ==
          IF n = 0 THEN S
          ELSE LET g == f[n - 1]
               IN g \union {e[2] : e \in {d \in edges : d[1] \in g}}
    IN f[Cardinality(Ids)]

Replacements == {<<m, successor[m]>> : m \in {x \in Ids : successor[x] # NoMemory}}

(* What replaced a memory, directly or in several steps.                   *)
Later(m) == Closure(Replacements, {successor[m]} \ {NoMemory})

(* Whatever is superseded has, at the end of its chain, an active memory   *)
(* that speaks for it: no overlap of sessions and consolidation leaves a   *)
(* fact with no active version.                                            *)
NothingForgotten ==
    \A m \in created \ Active : Later(m) \intersect Active # {}

Confirmations(R) == {<<r[2], r[1]>> : r \in {q \in R : q[3] = "reinforces"}}

(* A memory and the versions it confirms.                                  *)
Confirms(m) == Closure(Confirmations(relations), {m})

(* cross_session_reinforcement_count, which the decay clock grows with, is *)
(* the number of different sessions that confirmed the memory, however the *)
(* sessions overlap, repeat themselves and are retried.                    *)
CountsSessions ==
    \A m \in created :
        cross[m] = Cardinality({source[x] : x \in Confirms(m)})

(* Every memory that a relation replaces is superseded, and everything     *)
(* that is superseded is explained by a relation or by a summary: the      *)
(* history can be reconstructed from either table.                         *)
HistoryAgrees ==
    /\ \A r \in relations : r[1] \in created \ Active /\ r[2] \in created
    /\ \A m \in created \ Active :
          \/ successor[m] \in Summaries
          \/ \E r \in relations : r[1] = m /\ r[2] = successor[m]

(* A transaction does not wait for ever for another one's rows.            *)
WriterFinishes ==
    \A s \in Sessions : phase[s] = "waiting" ~> phase[s] # "waiting"

(* _write_reinforcement_version: "the only active version is the latest    *)
(* one used for future advice".                                            *)
OnlyActiveVersion ==
    \A r, q \in relations :
        r[1] = q[1] /\ {r[2], q[2]} \subseteq Active => r[2] = q[2]

(* docs/03 section 15.2: an implausible observation is written with its    *)
(* confidence capped, however confident anything else is of it.            *)
ImplausibleStaysCapped ==
    \A m \in created \intersect implausible : conf[m] <= Cap
=============================================================================
