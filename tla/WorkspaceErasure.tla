-------------------------- MODULE WorkspaceErasure --------------------------
(***************************************************************************)
(* One workspace is erased (delete_workspace of api/routes_v1.py) while    *)
(* its browsers go on using it: sessions are started, messages answered,   *)
(* sessions ended (session.py), and somebody signs in with a link that was *)
(* mailed to them (auth.py).                                               *)
(*                                                                         *)
(* delete_workspace is one transaction of a dozen DELETE statements at     *)
(* PostgreSQL's READ COMMITTED: each statement sees the rows that are      *)
(* committed when it starts, waits for those that another transaction has  *)
(* locked, and what it deletes disappears for the others at the commit.    *)
(* Foreign keys are checked at the end of a statement, that of a memory to *)
(* its session at the commit.                                              *)
(*                                                                         *)
(* A row is a table and the session, link or sign-in that it belongs to.   *)
(***************************************************************************)
EXTENDS Naturals, Sequences, FiniteSets

CONSTANTS
    Sessions,     \* consultations that are under way or will be
    Past,         \* one that ended earlier and has left a memory
    Links,        \* sign-in links, all requested for the same address
    Verifiers,    \* calls of consume_magic_link
    Workspace, NoLink

ASSUME PastAssumption == Past \notin Sessions
ASSUME LinksAssumption == NoLink \notin Links

VARIABLES
    rows,       \* the committed rows
    doomed,     \* those that the open erasure has deleted
    stage,      \* its current statement, 0 when none is open
    seen,       \* the rows that this statement still has to wait for or delete
    found,      \* the sessions that were there when it began
    member,     \* it is a signed-in browser that erases
    erased,     \* it was answered 204
    starting,   \* start_session calls that have their workspace
    mpc,        \* send_message of a session
    wpc, locks, \* end_session of a session, and the rows it has locked
    vpc, vlink, \* a sign-in and its link
    asked, uses \* the links requested, and how often each was accepted

eraser == <<doomed, stage, seen, found, member, erased>>
signin == <<vpc, vlink, asked, uses>>
chat == <<starting, mpc>>
ending == <<wpc, locks>>
vars == <<rows, eraser, signin, chat, ending>>

(* The statements of delete_workspace, by their table, in order; the last  *)
(* one stands for the three that remove an account.                        *)
Statements == <<"link", "event", "trace", "message", "chunk", "memory",
                "conversation", "entity", "account">>

Entity == <<"entity", Workspace>>
User == <<"user", Workspace>>

Rows ==
    ({"event", "trace", "message", "answer", "chunk", "memory", "conversation"}
        \X (Sessions \union {Past}))
    \union ({"link"} \X Links) \union ({"session"} \X Verifiers)
    \union {Entity, User}

TypeOK ==
    /\ rows \subseteq Rows
    /\ doomed \subseteq rows
    /\ stage \in 0..(Len(Statements) + 1)
    /\ seen \subseteq rows
    /\ found \subseteq Sessions \union {Past}
    /\ member \in BOOLEAN
    /\ erased \in BOOLEAN
    /\ starting \subseteq Sessions
    /\ mpc \in [Sessions -> {"idle", "posting", "answering", "done"}]
    /\ wpc \in [Sessions -> {"idle", "extracting", "locked", "correcting",
                             "quoting", "written", "chunking", "done"}]
    /\ locks \in [Sessions -> SUBSET rows]
    /\ vpc \in [Verifiers -> {"idle", "reading", "claimed", "done"}]
    /\ vlink \in [Verifiers -> Links \union {NoLink}]
    /\ asked \subseteq Links
    /\ uses \in [Links -> Nat]

-----------------------------------------------------------------------------
(* The messages table has a user's message and its answer.                 *)
Table(t) ==
    {r \in rows : r[1] \in IF t = "message" THEN {"message", "answer"} ELSE {t}}

Visible(r) == r \in rows \ doomed

(* What the current statement goes through: the rows of its table.         *)
Hits ==
    IF Statements[stage] = "account"
    THEN IF member THEN Table("session") \union Table("link") \union Table("user")
         ELSE {}
    ELSE Table(Statements[stage]) \ doomed

(* What is deleted once the current statement is done.                     *)
Going == doomed \union (IF seen = {} THEN Hits ELSE seen)

(* Rows that go with the rows the statement deletes: ON DELETE CASCADE.  A *)
(* link that loses its workspace (SET NULL) leads to another one.          *)
Cascade ==
    CASE Statements[stage] = "conversation" ->
             {r \in Table("chunk") : <<"conversation", r[2]>> \in Going}
      [] Statements[stage] = "entity" -> Table("session") \union Table("link")
      [] OTHER -> {}

(* Transactions that hold a row of R.                                      *)
Writing(R) == {s \in Sessions : locks[s] \intersect R # {}}
Reading(R) == {v \in Verifiers : vpc[v] = "reading" /\ <<"link", vlink[v]>> \in R}

(* A row of table child stays and refers to a row of table t that does not.*)
Dangling(child, t, gone) ==
    \E r \in Table(child) \ gone : <<t, r[2]>> \in gone

(* Foreign keys that are checked when the statement ends.                  *)
Refused ==
    \/ Statements[stage] = "message" /\ Dangling("trace", "answer", Going)
    \/ Statements[stage] = "conversation" /\ Dangling("message", "conversation", Going)

(* Mutant: memories.source_session_id ON DELETE SET NULL.                  *)
NeverReferenced == stage = 0

(* The deferred foreign key: a memory that the erasure did not see refers  *)
(* to a conversation that it deletes.                                      *)
Referenced == Dangling("memory", "conversation", doomed)

Init ==
    /\ rows = {<<"conversation", Past>>, <<"message", Past>>, <<"memory", Past>>,
               <<"event", Past>>, Entity}
    /\ doomed = {}
    /\ stage = 0
    /\ seen = {}
    /\ found = {}
    /\ member = FALSE
    /\ erased = FALSE
    /\ starting = {}
    /\ mpc = [s \in Sessions |-> "idle"]
    /\ wpc = [s \in Sessions |-> "idle"]
    /\ locks = [s \in Sessions |-> {}]
    /\ vpc = [v \in Verifiers |-> "idle"]
    /\ vlink = [v \in Verifiers |-> NoLink]
    /\ asked = {}
    /\ uses = [l \in Links |-> 0]

(* get_workspace finds the browser's session and the entity.  Bound: no    *)
(* request is counted of a workspace that came back after its erasure.     *)
InWorkspace == Entity \in rows /\ ~erased

-----------------------------------------------------------------------------
(* delete_workspace.                                                       *)

BeginErase ==
    /\ stage = 0
    /\ InWorkspace
    /\ member' \in BOOLEAN
    /\ member' => Table("session") # {}
    /\ found' = {r[2] : r \in Table("conversation")}
    /\ stage' = 1
    /\ UNCHANGED <<rows, doomed, seen, erased, signin, chat, ending>>

Rollback ==
    /\ stage' = 0
    /\ doomed' = {}
    /\ seen' = {}
    /\ UNCHANGED <<rows, found, member, erased, signin, chat, ending>>

(* Mutant: the account's row stays.                                        *)
DoomedButUser(R) == doomed \union (R \ {User})

Doomed(R) == doomed \union R

Free(R) == Writing(R) = {} /\ Reading(R) = {}

InStatement == stage \in DOMAIN Statements

(* The end of a statement: R and what hangs on the table is deleted.       *)
Finish(R) ==
    /\ Free(R \union Cascade)
    /\ ~Refused
    /\ doomed' = Doomed(R \union Cascade)
    /\ seen' = {}
    /\ stage' = stage + 1
    /\ UNCHANGED <<rows, found, member, erased, signin, chat, ending>>

DeleteRows == InStatement /\ seen = {} /\ Finish(Hits)

(* The statement has to wait for a row; it does not look again.            *)
WaitForRows ==
    /\ InStatement
    /\ seen = {}
    /\ ~Free(Hits)
    /\ seen' = Hits
    /\ UNCHANGED <<rows, doomed, stage, found, member, erased, signin, chat, ending>>

(* Row by row, each as soon as it is free.                                 *)
DeleteRow(r) ==
    /\ r \in seen
    /\ Free({r})
    /\ \/ seen = {r} /\ Finish({r})
       \/ /\ seen # {r}
          /\ doomed' = doomed \union {r}
          /\ seen' = seen \ {r}
          /\ UNCHANGED <<rows, stage, found, member, erased, signin, chat, ending>>

CommitErase ==
    /\ stage = Len(Statements) + 1
    /\ ~Referenced
    /\ rows' = rows \ doomed
    /\ doomed' = {}
    /\ stage' = 0
    /\ erased' = TRUE
    /\ UNCHANGED <<seen, found, member, signin, chat, ending>>

(* A foreign key refuses, at the end of a statement or at the commit: 500. *)
EraseRefused ==
    /\ \/ InStatement /\ Refused /\ Free(IF seen = {} THEN Hits ELSE seen)
       \/ stage = Len(Statements) + 1 /\ Referenced
    /\ Rollback

(* Any other error, or the end of the process.                             *)
EraseDies == stage # 0 /\ Rollback

-----------------------------------------------------------------------------
(* Sessions and messages.                                                  *)

(* create_session has its workspace; start_session inserts, and no foreign *)
(* key ties a conversation to its entity.                                  *)
EnterWorkspace(s) ==
    /\ InWorkspace
    /\ <<"conversation", s>> \notin rows
    /\ starting' = starting \union {s}
    /\ UNCHANGED <<rows, eraser, signin, mpc, ending>>

StartSession(s) ==
    /\ s \in starting
    /\ starting' = starting \ {s}
    /\ rows' = rows \union {<<"conversation", s>>}
    /\ UNCHANGED <<eraser, signin, mpc, ending>>

(* send_message: the conversation is there and open when it is looked at.  *)
(* Bound: one message for a session.                                       *)
CheckOpen(s) ==
    /\ mpc[s] = "idle"
    /\ InWorkspace
    /\ <<"conversation", s>> \in rows
    /\ wpc[s] \notin {"chunking", "done"}
    /\ mpc' = [mpc EXCEPT ![s] = "posting"]
    /\ UNCHANGED <<rows, starting, eraser, signin, ending>>

(* The user's message.  Its foreign key waits for the locks of end_session *)
(* and of the erasure on the conversation.                                 *)
PostMessage(s) ==
    /\ mpc[s] = "posting"
    /\ <<"conversation", s>> \notin doomed \union locks[s]
    /\ \/ /\ <<"conversation", s>> \in rows
          /\ rows' = rows \union {<<"message", s>>}
          /\ mpc' = [mpc EXCEPT ![s] = "answering"]
       \/ /\ <<"conversation", s>> \notin rows
          /\ mpc' = [mpc EXCEPT ![s] = "done"]
          /\ UNCHANGED rows
    /\ UNCHANGED <<starting, eraser, signin, ending>>

(* The answer and its explain trace, in one transaction, if there still is *)
(* a conversation.                                                         *)
Reply(s) ==
    /\ mpc[s] = "answering"
    /\ <<"conversation", s>> \notin doomed \union locks[s]
    /\ rows' = rows \union (IF <<"conversation", s>> \in rows
                            THEN {<<"answer", s>>, <<"trace", s>>} ELSE {})
    /\ mpc' = [mpc EXCEPT ![s] = "done"]
    /\ UNCHANGED <<starting, eraser, signin, ending>>

-----------------------------------------------------------------------------
(* end_session, from its extraction on, by the holder of the lease.        *)

EndSession(s) ==
    /\ wpc[s] = "idle"
    /\ InWorkspace
    /\ Visible(<<"conversation", s>>)
    /\ wpc' = [wpc EXCEPT ![s] = "extracting"]
    /\ UNCHANGED <<rows, eraser, signin, chat, locks>>

(* FOR UPDATE of the conversation: it waits, or finds none.                *)
LockConversation(s) ==
    /\ wpc[s] = "extracting"
    /\ <<"conversation", s>> \notin doomed
    /\ IF <<"conversation", s>> \in rows
       THEN /\ wpc' = [wpc EXCEPT ![s] = "locked"]
            /\ locks' = [locks EXCEPT ![s] = {<<"conversation", s>>}]
       ELSE wpc' = [wpc EXCEPT ![s] = "done"] /\ UNCHANGED locks
    /\ UNCHANGED <<rows, eraser, signin, chat>>

(* A draft corrects the memory of the past session.                        *)
Correct(s) ==
    /\ wpc[s] = "locked"
    /\ <<"memory", Past>> \in rows
    /\ wpc' = [wpc EXCEPT ![s] = "correcting"]
    /\ UNCHANGED <<rows, eraser, signin, chat, locks>>

(* What a draft is linked to: the message that it quotes, if any.          *)
Written(s) ==
    \/ wpc' = [wpc EXCEPT ![s] = "written"]
    \/ /\ <<"message", s>> \in rows
       /\ wpc' = [wpc EXCEPT ![s] = "quoting"]

(* Mutant: a row that is gone is taken for one that was updated.           *)
SupersedeUnseen(s) ==
    /\ wpc[s] = "correcting"
    /\ <<"memory", Past>> \notin doomed
    /\ locks' = [locks EXCEPT ![s] = @ \union {<<"memory", Past>>}]
    /\ Written(s)
    /\ UNCHANGED <<rows, eraser, signin, chat>>

(* supersede: the UPDATE of that row, once it is free.                     *)
Supersede(s) ==
    /\ wpc[s] = "correcting"
    /\ Visible(<<"memory", Past>>)
    /\ Writing({<<"memory", Past>>}) = {}
    /\ locks' = [locks EXCEPT ![s] = @ \union {<<"memory", Past>>}]
    /\ Written(s)
    /\ UNCHANGED <<rows, eraser, signin, chat>>

(* A draft that is new.                                                    *)
CreateMemory(s) ==
    /\ wpc[s] = "locked"
    /\ Written(s)
    /\ UNCHANGED <<rows, eraser, signin, chat, locks>>

(* persist_provenance: its foreign key holds the message.                  *)
PersistProvenance(s) ==
    /\ wpc[s] = "quoting"
    /\ <<"message", s>> \notin doomed
    /\ locks' = [locks EXCEPT ![s] = @ \union {<<"message", s>>}]
    /\ wpc' = [wpc EXCEPT ![s] = "written"]
    /\ UNCHANGED <<rows, eraser, signin, chat>>

(* The memory and its lifecycle event, which names its workspace only.     *)
CommitSession(s) ==
    /\ wpc[s] \in {"locked", "written"}
    /\ rows' = rows \union (IF wpc[s] = "written"
                            THEN {<<"memory", s>>, <<"event", s>>} ELSE {})
    /\ wpc' = [wpc EXCEPT ![s] = "chunking"]
    /\ locks' = [locks EXCEPT ![s] = {}]
    /\ UNCHANGED <<eraser, signin, chat>>

StoreChunks(s) ==
    /\ wpc[s] = "chunking"
    /\ <<"conversation", s>> \notin doomed
    /\ rows' = rows \union (IF <<"conversation", s>> \in rows
                            THEN {<<"chunk", s>>} ELSE {})
    /\ wpc' = [wpc EXCEPT ![s] = "done"]
    /\ UNCHANGED <<locks, eraser, signin, chat>>

(* Mutant: the transaction of a call that failed is left open.             *)
AbortKeepsLocks(s) ==
    /\ locks[s] # {}
    /\ wpc' = [wpc EXCEPT ![s] = "idle"]
    /\ UNCHANGED <<rows, locks, eraser, signin, chat>>

(* The transaction is rolled back; the session can be ended again.         *)
Abort(s) ==
    /\ locks[s] # {}
    /\ wpc' = [wpc EXCEPT ![s] = "idle"]
    /\ locks' = [locks EXCEPT ![s] = {}]
    /\ UNCHANGED <<rows, eraser, signin, chat>>

(* The erasure waits for the session, whose transaction waits for a row    *)
(* that the erasure has deleted.                                           *)
Deadlocked(s) ==
    /\ s \in Writing(seen)
    /\ \/ wpc[s] = "correcting" /\ <<"memory", Past>> \in doomed
       \/ wpc[s] = "quoting" /\ <<"message", s>> \in doomed

(* PostgreSQL ends one of the two.                                         *)
DeadlockVictim(s) == Deadlocked(s) /\ (Abort(s) \/ Rollback)

(* The UPDATE finds no row, and the relation refers to nothing.            *)
SupersedeFails(s) ==
    /\ wpc[s] = "correcting"
    /\ <<"memory", Past>> \notin rows
    /\ Abort(s)

-----------------------------------------------------------------------------
(* Signing in.                                                             *)

(* create_magic_link; its foreign key waits for an erasure of the entity.  *)
RequestLink(l) ==
    /\ l \notin asked
    /\ InWorkspace
    /\ Entity \notin doomed
    /\ asked' = asked \union {l}
    /\ rows' = rows \union {<<"link", l>>}
    /\ UNCHANGED <<uses, vpc, vlink, eraser, chat, ending>>

(* Mutant: the link is read without FOR UPDATE.                            *)
LinkUnlocked(l) == l \in Links

(* FOR UPDATE of the link.                                                 *)
LinkFree(l) == Reading({<<"link", l>>}) = {}

(* consume_magic_link finds an unused link, and locks it ...               *)
ReadLink(v, l) ==
    /\ vpc[v] = "idle"
    /\ Visible(<<"link", l>>)
    /\ LinkFree(l)
    /\ uses[l] = 0
    /\ vpc' = [vpc EXCEPT ![v] = "reading"]
    /\ vlink' = [vlink EXCEPT ![v] = l]
    /\ UNCHANGED <<rows, asked, uses, eraser, chat, ending>>

(* ... and makes the workspace its user's, in the same transaction.        *)
ClaimWorkspace(v) ==
    /\ vpc[v] = "reading"
    /\ {User, Entity} \intersect doomed = {}
    /\ rows' = rows \union {User, Entity}
    /\ uses' = [uses EXCEPT ![vlink[v]] = @ + 1]
    /\ vpc' = [vpc EXCEPT ![v] = "claimed"]
    /\ UNCHANGED <<asked, vlink, eraser, chat, ending>>

(* establish_workspace_session, in a transaction of its own: the entity is *)
(* inserted if it is not there, the browser's session refers to the user.  *)
EstablishSession(v) ==
    /\ vpc[v] = "claimed"
    /\ {User, Entity} \intersect doomed = {}
    /\ rows' = rows \union (IF User \in rows THEN {Entity, <<"session", v>>} ELSE {})
    /\ vpc' = [vpc EXCEPT ![v] = "done"]
    /\ UNCHANGED <<vlink, asked, uses, eraser, chat, ending>>

(* The call fails or dies between its transactions.                        *)
SignInDies(v) ==
    /\ vpc[v] \in {"reading", "claimed"}
    /\ vpc' = [vpc EXCEPT ![v] = "done"]
    /\ UNCHANGED <<rows, vlink, asked, uses, eraser, chat, ending>>

-----------------------------------------------------------------------------
EraseStep ==
    \/ DeleteRows \/ WaitForRows \/ (\E r \in Rows : DeleteRow(r))
    \/ CommitErase \/ EraseRefused

EndStep(s) ==
    \/ LockConversation(s) \/ Correct(s) \/ Supersede(s) \/ SupersedeFails(s)
    \/ CreateMemory(s) \/ PersistProvenance(s) \/ CommitSession(s) \/ StoreChunks(s)
    \/ DeadlockVictim(s)

SignInStep(v) == ClaimWorkspace(v) \/ EstablishSession(v)

Next ==
    \/ BeginErase \/ EraseStep \/ EraseDies
    \/ \E s \in Sessions :
          \/ EnterWorkspace(s) \/ StartSession(s)
          \/ CheckOpen(s) \/ PostMessage(s) \/ Reply(s)
          \/ EndSession(s) \/ EndStep(s) \/ Abort(s)
    \/ \E l \in Links : RequestLink(l) \/ \E v \in Verifiers : ReadLink(v, l)
    \/ \E v \in Verifiers : SignInStep(v) \/ SignInDies(v)

Spec == Init /\ [][Next]_vars

(* Transactions that are not blocked go on; PostgreSQL grants locks in the *)
(* order in which they were asked for.                                     *)
Fairness ==
    /\ SF_vars(EraseStep)
    /\ \A s \in Sessions : SF_vars(DeleteRow(<<"conversation", s>>))
    /\ \A s \in Sessions : SF_vars(DeleteRow(<<"message", s>>))
    /\ SF_vars(DeleteRow(<<"memory", Past>>))
    /\ \A s \in Sessions : WF_vars(EndStep(s))
    /\ \A v \in Verifiers : WF_vars(SignInStep(v))

FairSpec == Spec /\ Fairness
-----------------------------------------------------------------------------
(* Properties.                                                             *)

(* After the answer 204 nothing that was said, answered or remembered in   *)
(* the sessions that the erasure found when it began is stored, whatever   *)
(* was being written while its rows were deleted: a row that the           *)
(* statements did not see makes the erasure fail.                          *)
ContentErased ==
    erased => \A t \in {"message", "answer", "trace", "chunk", "memory"}, s \in found :
                 <<t, s>> \notin rows

(* docs/13 section 7: a visitor can permanently delete the workspace.  The *)
(* lifecycle events quote the memories they are about.                     *)
NothingRemembered == erased => \A s \in found : <<"event", s>> \notin rows

(* The erasure of an account is final: a sign-in that was under way does   *)
(* not bring back the workspace, its user or a session.                    *)
AccountErased ==
    erased /\ member => {Entity, User} \intersect rows = {} /\ Table("session") = {}

(* A sign-in link works once, however often it is followed at a time.      *)
LinkUsedOnce == \A l \in Links : uses[l] <= 1

(* An erasure is answered, with 204 or with an error: it does not wait for *)
(* ever for sessions that are being ended.                                 *)
ErasureEnds == stage # 0 ~> stage = 0
=============================================================================
