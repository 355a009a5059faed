----------------------- MODULE WorkspaceErasureProofs -----------------------
(***************************************************************************)
(* Proofs about WorkspaceErasure, for any number of sessions, links and    *)
(* sign-ins.                                                               *)
(***************************************************************************)
EXTENDS WorkspaceErasure, TLAPS

USE PastAssumption, LinksAssumption

-----------------------------------------------------------------------------
(* The inductive invariant.                                                *)

(* A transaction of end_session holds its conversation, and no erasure has *)
(* deleted a row that such a transaction holds.                            *)
LocksHeld ==
    /\ \A s \in Sessions : locks[s] \intersect doomed = {}
    /\ \A s \in Sessions :
          wpc[s] \in {"locked", "correcting", "quoting", "written"}
              => <<"conversation", s>> \in locks[s]
    /\ \A s \in Sessions : wpc[s] = "quoting" => <<"message", s>> \in rows

(* Until the erasure commits rows are only added, and what refers to a row *)
(* comes with it or after it.                                              *)
RowsAgree ==
    /\ \A s \in starting : <<"conversation", s>> \notin rows
    /\ starting \intersect found = {}
    /\ \A s \in Sessions : <<"answer", s>> \in rows => mpc[s] = "done"
    /\ <<"answer", Past>> \notin rows
    /\ ~erased =>
          /\ \A s \in found : <<"conversation", s>> \in rows
          /\ \A s \in Sessions \union {Past} :
                /\ <<"message", s>> \in rows => <<"conversation", s>> \in rows
                /\ <<"trace", s>> \in rows => <<"answer", s>> \in rows
          /\ \A v \in Verifiers : <<"session", v>> \in rows => User \in rows

(* What an open erasure is about, and what its statement waits for.        *)
StatementOpen ==
    /\ stage # 0 => /\ ~erased
                    /\ Entity \in rows
                    /\ member => User \in rows
    /\ stage = 0 => doomed = {}
    /\ stage \notin 1..9 => seen = {}
    /\ \A s \in Sessions \union {Past} :
          /\ <<"message", s>> \in seen \/ <<"answer", s>> \in seen => stage = 4
          /\ <<"conversation", s>> \in seen => stage = 7

(* What the statements that are done have left nothing of.                 *)
PassedBy ==
    /\ stage >= 5 =>
          \A s \in Sessions \union {Past} :
              <<"answer", s>> \in doomed /\ <<"trace", s>> \in rows
                  => <<"trace", s>> \in doomed
    /\ stage = 7 /\ seen # {} =>
          \A s \in Sessions \union {Past} :
              s \in found \/ <<"message", s>> \in doomed
                  => <<"conversation", s>> \in seen \union doomed
    /\ stage >= 8 =>
          \A s \in Sessions \union {Past} :
              /\ s \in found \/ <<"message", s>> \in doomed
                     => <<"conversation", s>> \in doomed
              /\ <<"conversation", s>> \in doomed =>
                     \A t \in {"message", "answer", "chunk"} :
                         <<t, s>> \in rows => <<t, s>> \in doomed
    /\ stage = 8 /\ seen # {} => Entity \in seen \union doomed
    /\ stage >= 9 => /\ Entity \in doomed
                     /\ \A v \in Verifiers :
                            <<"session", v>> \in rows => <<"session", v>> \in doomed
                     /\ \A l \in Links : <<"link", l>> \in rows => <<"link", l>> \in doomed
    /\ stage = 9 /\ seen # {} /\ member => User \in seen \union doomed
    /\ stage = 10 /\ member => User \in doomed

(* After the erasure.                                                      *)
ErasedAll ==
    erased =>
        /\ \A s \in found : <<"conversation", s>> \notin rows
        /\ member => /\ {Entity, User} \intersect rows = {}
                     /\ \A v \in Verifiers : <<"session", v>> \notin rows
                     /\ \A l \in Links : <<"link", l>> \notin rows

(* A sign-in that reads a link holds it, alone.                            *)
LinksHeld ==
    \A v \in Verifiers : vpc[v] = "reading" =>
        /\ vlink[v] \in Links
        /\ <<"link", vlink[v]>> \in rows \ doomed
        /\ uses[vlink[v]] = 0
        /\ \A w \in Verifiers : vpc[w] = "reading" /\ vlink[w] = vlink[v] => w = v

IInv ==
    /\ TypeOK
    /\ LocksHeld /\ RowsAgree /\ StatementOpen /\ PassedBy /\ ErasedAll /\ LinksHeld
    /\ ContentErased /\ LinkUsedOnce

-----------------------------------------------------------------------------
(* Rows and statements.                                                    *)

Conversations == Sessions \union {Past}

(* What a row can be.                                                      *)
LEMMA RowKinds ==
    /\ \A t \in {"event", "trace", "message", "answer", "chunk", "memory", "conversation"},
          s \in Conversations : <<t, s>> \in Rows
    /\ \A l \in Links : <<"link", l>> \in Rows
    /\ \A v \in Verifiers : <<"session", v>> \in Rows
    /\ Entity \in Rows /\ User \in Rows
    /\ \A r \in Rows :
          /\ r = <<r[1], r[2]>>
          /\ r[1] = "conversation" => r[2] \in Conversations
          /\ r[1] = "session" => r[2] \in Verifiers
          /\ r[1] = "link" => r[2] \in Links
          /\ r[1] = "entity" => r = Entity
          /\ r[1] = "user" => r = User
BY DEF Rows, Entity, User, Conversations

(* The statements that the invariant speaks of.                            *)
LEMMA StatementNames ==
    /\ Len(Statements) = 9
    /\ DOMAIN Statements = 1..9
    /\ \A i \in 1..9 :
          /\ Statements[i] = "message" <=> i = 4
          /\ Statements[i] = "conversation" <=> i = 7
          /\ Statements[i] = "entity" <=> i = 8
          /\ Statements[i] = "account" <=> i = 9
    /\ \A i \in 1..9 : Statements[i] \notin {"answer", "session", "user"}
BY DEF Statements

(* What a statement goes through.                                          *)
LEMMA HitsAre ==
    ASSUME TypeOK, InStatement
    PROVE  /\ Hits \subseteq rows
           /\ \A s \in Conversations :
                 /\ <<"message", s>> \in Hits \/ <<"answer", s>> \in Hits => stage = 4
                 /\ <<"conversation", s>> \in Hits => stage = 7
           /\ stage = 7 => \A s \in Conversations :
                  <<"conversation", s>> \in rows => <<"conversation", s>> \in Hits \union doomed
           /\ stage = 8 /\ Entity \in rows => Entity \in Hits \union doomed
           /\ stage = 9 /\ member /\ User \in rows => User \in Hits
BY StatementNames DEF Hits, Table, InStatement, Entity, User, TypeOK

(* What goes with the rows that a statement deletes.                       *)
LEMMA CascadeIs ==
    ASSUME TypeOK, InStatement
    PROVE  /\ Cascade \subseteq rows
           /\ \A t \in {"message", "answer", "conversation"}, s \in Conversations :
                 <<t, s>> \notin Cascade
           /\ stage = 7 => \A s \in Conversations :
                  <<"conversation", s>> \in Going /\ <<"chunk", s>> \in rows
                      => <<"chunk", s>> \in Cascade
           /\ stage = 8 => /\ \A v \in Verifiers :
                                  <<"session", v>> \in rows => <<"session", v>> \in Cascade
                           /\ \A l \in Links :
                                  <<"link", l>> \in rows => <<"link", l>> \in Cascade
BY StatementNames DEF Cascade, Table, InStatement, TypeOK

(* What the foreign keys refuse.                                           *)
LEMMA KeysRefuse ==
    ASSUME TypeOK, InStatement, ~Refused
    PROVE  /\ stage = 4 => \A s \in Conversations :
                  <<"answer", s>> \in Going /\ <<"trace", s>> \in rows => <<"trace", s>> \in Going
           /\ stage = 7 => \A s \in Conversations, t \in {"message", "answer"} :
                  <<"conversation", s>> \in Going /\ <<t, s>> \in rows => <<t, s>> \in Going
<1>1. ASSUME stage = 4, NEW s \in Conversations, <<"answer", s>> \in Going, <<"trace", s>> \in rows
      PROVE  <<"trace", s>> \in Going
  <2>1. Statements[stage] = "message"
    BY <1>1, StatementNames
  <2>2. \A r \in Table("trace") \ Going : <<"answer", r[2]>> \notin Going
    BY <2>1 DEF Refused, Dangling
  <2>3. <<"trace", s>> \in Table("trace")
    BY <1>1 DEF Table
  <2> QED
    BY <1>1, <2>2, <2>3
<1>2. ASSUME stage = 7, NEW s \in Conversations, NEW t \in {"message", "answer"},
             <<"conversation", s>> \in Going, <<t, s>> \in rows
      PROVE  <<t, s>> \in Going
  <2>1. Statements[stage] = "conversation"
    BY <1>2, StatementNames
  <2>2. \A r \in Table("message") \ Going : <<"conversation", r[2]>> \notin Going
    BY <2>1 DEF Refused, Dangling
  <2>3. <<t, s>> \in Table("message")
    BY <1>2 DEF Table
  <2> QED
    BY <1>2, <2>2, <2>3
<1> QED
    BY <1>1, <1>2

-----------------------------------------------------------------------------
(* The steps of the erasure.                                               *)

(* It holds initially.                                                     *)
LEMMA InitInv == Init => IInv
<1> SUFFICES ASSUME Init
             PROVE  IInv
    OBVIOUS
<1>1. TypeOK
  <2>1. rows \subseteq Rows
    BY RowKinds DEF Init, Conversations
  <2>2. stage \in 0..(Len(Statements) + 1)
    BY StatementNames DEF Init
  <2>3. /\ locks \in [Sessions -> SUBSET rows]
        /\ vlink \in [Verifiers -> Links \union {NoLink}]
        /\ uses \in [Links -> Nat]
    BY DEF Init
  <2> QED
    BY <2>1, <2>2, <2>3 DEF Init, TypeOK
<1>2. LocksHeld
    BY DEF Init, LocksHeld
<1>3. RowsAgree
    BY DEF Init, RowsAgree, Entity, User
<1>4. StatementOpen /\ PassedBy /\ ErasedAll /\ ContentErased
    BY DEF Init, StatementOpen, PassedBy, ErasedAll, ContentErased
<1>5. LinksHeld /\ LinkUsedOnce
    BY DEF Init, LinksHeld, LinkUsedOnce
<1> QED
    BY <1>1, <1>2, <1>3, <1>4, <1>5 DEF IInv

(* The end of a statement keeps the invariant: R is what it deletes last.  *)
LEMMA FinishInv ==
    ASSUME IInv, InStatement, NEW R, R \subseteq rows, Going = doomed \union R,
           \/ seen = {} /\ R = Hits
           \/ seen = R /\ R # {},
           Finish(R)
    PROVE  IInv'
<1> USE DEF Conversations
<1>1. /\ doomed' = doomed \union R \union Cascade
      /\ seen' = {} /\ stage' = stage + 1
      /\ UNCHANGED <<rows, found, member, erased, vpc, vlink, asked, uses, starting,
                     mpc, wpc, locks>>
    BY DEF Finish, Doomed, signin, chat, ending
<1>2. TypeOK /\ stage \in 1..9 /\ ~erased /\ Entity \in rows
    BY StatementNames DEF IInv, InStatement, StatementOpen
<1>3. \A s \in Conversations :
          /\ <<"message", s>> \in R \/ <<"answer", s>> \in R => stage = 4
          /\ <<"conversation", s>> \in R => stage = 7
  <2>1. CASE R = Hits
    BY <2>1, <1>2, HitsAre
  <2>2. CASE seen = R
    BY <2>2 DEF IInv, StatementOpen
  <2> QED
    BY <2>1, <2>2
<1>4. /\ \A s \in Sessions : locks[s] \intersect (R \union Cascade) = {}
      /\ \A v \in Verifiers :
             vpc[v] = "reading" => <<"link", vlink[v]>> \notin R \union Cascade
    BY DEF Finish, Free, Writing, Reading
<1>5. ~Refused
    BY DEF Finish
<1>6. stage = 7 => \A s \in Conversations :
          s \in found \/ <<"message", s>> \in doomed => <<"conversation", s>> \in Going
  <2> SUFFICES ASSUME stage = 7, NEW s \in Conversations,
                      s \in found \/ <<"message", s>> \in doomed
               PROVE  <<"conversation", s>> \in Going
    OBVIOUS
  <2>1. CASE seen = {} /\ R = Hits
    <3>1. <<"conversation", s>> \in rows
      BY <1>2 DEF IInv, RowsAgree, TypeOK
    <3> QED
      BY <3>1, <2>1, <1>2, HitsAre
  <2>2. CASE seen = R /\ R # {}
    BY <2>2 DEF IInv, PassedBy
  <2> QED
    BY <2>1, <2>2
<1>7. stage = 8 => Entity \in Going
  <2>1. CASE seen = {} /\ R = Hits
    BY <2>1, <1>2, HitsAre
  <2>2. CASE seen = R /\ R # {}
    BY <2>2 DEF IInv, PassedBy
  <2> QED
    BY <2>1, <2>2
<1>8. stage = 9 /\ member => User \in Going
  <2>1. CASE seen = {} /\ R = Hits
    BY <2>1, <1>2, HitsAre DEF IInv, StatementOpen
  <2>2. CASE seen = R /\ R # {}
    BY <2>2 DEF IInv, PassedBy
  <2> QED
    BY <2>1, <2>2
<1>9. \A s \in Conversations :
          /\ <<"message", s>> \in doomed' => <<"message", s>> \in doomed \union R
          /\ <<"answer", s>> \in doomed' => <<"answer", s>> \in doomed \union R
          /\ <<"conversation", s>> \in doomed' => <<"conversation", s>> \in doomed \union R
    BY <1>1, <1>2, CascadeIs
<1>10. TypeOK'
    BY <1>1, <1>2, CascadeIs, StatementNames DEF TypeOK
<1>11. LocksHeld'
    BY <1>1, <1>4 DEF IInv, LocksHeld
<1>12. RowsAgree'
    BY <1>1 DEF IInv, RowsAgree
<1>13. StatementOpen'
    BY <1>1, <1>2 DEF IInv, StatementOpen
<1>14. PassedBy'
  <2>1. ASSUME stage' >= 5, NEW s \in Conversations, <<"answer", s>> \in doomed', <<"trace", s>> \in rows
        PROVE  <<"trace", s>> \in doomed'
    <3>1. CASE stage = 4
      BY <3>1, <2>1, <1>1, <1>2, <1>5, <1>9, KeysRefuse
    <3>2. CASE stage # 4
      <4>1. <<"answer", s>> \in doomed \union R
        BY <2>1, <1>9
      <4>2. <<"answer", s>> \in doomed
        BY <4>1, <3>2, <1>2, <1>3
      <4>3. stage >= 5
        BY <3>2, <2>1, <1>1, <1>2
      <4> QED
        BY <4>2, <4>3, <2>1, <1>1 DEF IInv, PassedBy
    <3> QED
      BY <3>1, <3>2
  <2>2. ASSUME stage' >= 8, NEW s \in Conversations,
               s \in found \/ <<"message", s>> \in doomed'
        PROVE  <<"conversation", s>> \in doomed'
    <3>0. stage # 4
      BY <2>2, <1>1, <1>2
    <3>1. s \in found \/ <<"message", s>> \in doomed
      BY <3>0, <2>2, <1>3, <1>9
    <3>2. CASE stage = 7
      BY <3>1, <3>2, <1>1, <1>6
    <3>3. CASE stage >= 8
      BY <3>1, <3>3, <1>1 DEF IInv, PassedBy
    <3> QED
      BY <3>2, <3>3, <2>2, <1>1, <1>2
  <2>3. ASSUME stage' >= 8, NEW s \in Conversations, <<"conversation", s>> \in doomed',
               NEW t \in {"message", "answer", "chunk"}, <<t, s>> \in rows
        PROVE  <<t, s>> \in doomed'
    <3>1. CASE stage = 7
      <4>1. <<"conversation", s>> \in Going
        BY <2>3, <1>9
      <4>2. t = "chunk" => <<t, s>> \in Cascade
        BY <4>1, <3>1, <2>3, <1>2, CascadeIs
      <4>3. t # "chunk" => <<t, s>> \in Going
        BY <4>1, <3>1, <2>3, <1>2, <1>5, KeysRefuse
      <4> QED
        BY <4>2, <4>3, <1>1
    <3>2. CASE stage >= 8
      <4>1. <<"conversation", s>> \in doomed \union R
        BY <2>3, <1>9
      <4>2. stage # 7
        BY <3>2, <1>2
      <4>3. <<"conversation", s>> \in doomed
        BY <4>1, <4>2, <1>3
      <4> QED
        BY <4>3, <3>2, <2>3, <1>1 DEF IInv, PassedBy
    <3> QED
      BY <3>1, <3>2, <2>3, <1>1, <1>2
  <2>4. ASSUME stage' >= 9
        PROVE  /\ Entity \in doomed'
               /\ \A v \in Verifiers :
                      <<"session", v>> \in rows => <<"session", v>> \in doomed'
               /\ \A l \in Links : <<"link", l>> \in rows => <<"link", l>> \in doomed'
    <3>1. CASE stage = 8
      BY <3>1, <1>1, <1>2, <1>7, CascadeIs
    <3>2. CASE stage >= 9
      BY <3>2, <1>1 DEF IInv, PassedBy
    <3> QED
      BY <3>1, <3>2, <2>4, <1>1, <1>2
  <2>5. stage' = 10 /\ member' => User \in doomed'
    BY <1>1, <1>2, <1>8
  <2> QED
    BY <2>1, <2>2, <2>3, <2>4, <2>5, <1>1 DEF PassedBy
<1>15. ErasedAll' /\ ContentErased' /\ LinkUsedOnce'
    BY <1>1 DEF IInv, ErasedAll, ContentErased, LinkUsedOnce
<1>16. LinksHeld'
    BY <1>1, <1>4 DEF IInv, LinksHeld
<1> QED
    BY <1>10, <1>11, <1>12, <1>13, <1>14, <1>15, <1>16 DEF IInv

(* An erasure that begins finds conversations whose rows agree.            *)
LEMMA BeginInv ==
    ASSUME IInv, BeginErase
    PROVE  IInv'
<1>1. /\ stage = 0 /\ stage' = 1 /\ ~erased /\ Entity \in rows
      /\ doomed = {} /\ seen = {}
      /\ UNCHANGED <<rows, doomed, seen, erased, vpc, vlink, asked, uses, starting,
                     mpc, wpc, locks>>
    BY DEF IInv, StatementOpen, BeginErase, InWorkspace, signin, chat, ending
<1>2. /\ \A s \in found' : s \in Sessions \union {Past} /\ <<"conversation", s>> \in rows
      /\ member' \in BOOLEAN
      /\ member' => User \in rows
  <2>1. TypeOK
    BY DEF IInv
  <2>2. \A r \in Table("conversation") :
            r[2] \in Sessions \union {Past} /\ <<"conversation", r[2]>> \in rows
    BY <2>1, RowKinds DEF Table, TypeOK, Conversations
  <2>3. Table("session") # {} => User \in rows
    <3> SUFFICES ASSUME NEW r \in Table("session")
                 PROVE  User \in rows
      OBVIOUS
    <3>1. r \in Rows /\ r \in rows /\ r[1] = "session"
      BY <2>1 DEF Table, TypeOK
    <3>2. \E v \in Verifiers : <<"session", v>> \in rows
      BY <3>1, RowKinds
    <3> QED
      BY <3>2, <1>1 DEF IInv, RowsAgree
  <2>4. found' = {r[2] : r \in Table("conversation")}
    BY DEF BeginErase
  <2> QED
    BY <2>2, <2>3, <2>4 DEF BeginErase
<1>3. TypeOK'
  <2>1. stage' \in 0..(Len(Statements) + 1)
    BY <1>1, StatementNames
  <2> QED
    BY <2>1, <1>1, <1>2 DEF IInv, TypeOK
<1>4. LocksHeld' /\ LinksHeld' /\ LinkUsedOnce'
    BY <1>1 DEF IInv, LocksHeld, LinksHeld, LinkUsedOnce
<1>5. RowsAgree'
    BY <1>1, <1>2 DEF IInv, RowsAgree
<1>6. StatementOpen' /\ PassedBy' /\ ErasedAll' /\ ContentErased'
    BY <1>1, <1>2 DEF IInv, StatementOpen, PassedBy, ErasedAll, ContentErased
<1> QED
    BY <1>3, <1>4, <1>5, <1>6 DEF IInv

(* An erasure that is rolled back leaves everything as it was.             *)
LEMMA RollbackInv ==
    ASSUME IInv, Rollback
    PROVE  IInv'
<1>1. /\ stage' = 0 /\ doomed' = {} /\ seen' = {}
      /\ UNCHANGED <<rows, found, member, erased, vpc, vlink, asked, uses, starting,
                     mpc, wpc, locks>>
    BY DEF Rollback, signin, chat, ending
<1>2. TypeOK'
  <2>1. stage' \in 0..(Len(Statements) + 1)
    BY <1>1, StatementNames
  <2> QED
    BY <2>1, <1>1 DEF IInv, TypeOK
<1>3. LocksHeld' /\ LinksHeld' /\ LinkUsedOnce'
    BY <1>1 DEF IInv, LocksHeld, LinksHeld, LinkUsedOnce
<1>4. RowsAgree'
    BY <1>1 DEF IInv, RowsAgree
<1>5. StatementOpen' /\ PassedBy' /\ ErasedAll' /\ ContentErased'
    BY <1>1 DEF IInv, StatementOpen, PassedBy, ErasedAll, ContentErased
<1> QED
    BY <1>2, <1>3, <1>4, <1>5 DEF IInv

(* The erasure commits: everything that refers to its conversations, and   *)
(* all that signs in to its account, is among the rows that go.            *)
LEMMA CommitEraseInv ==
    ASSUME IInv, CommitErase
    PROVE  IInv'
<1>1. /\ stage = 10 /\ rows' = rows \ doomed /\ doomed' = {} /\ stage' = 0 /\ erased' = TRUE
      /\ seen = {} /\ ~erased
      /\ UNCHANGED <<seen, found, member, vpc, vlink, asked, uses, starting, mpc, wpc, locks>>
    BY StatementNames DEF IInv, StatementOpen, CommitErase, signin, chat, ending
<1>2. /\ \A s \in found : s \in Sessions \union {Past} /\ <<"conversation", s>> \in doomed
      /\ Entity \in doomed
      /\ \A v \in Verifiers : <<"session", v>> \in rows => <<"session", v>> \in doomed
      /\ \A l \in Links : <<"link", l>> \in rows => <<"link", l>> \in doomed
      /\ member => User \in doomed
      /\ \A s \in Sessions \union {Past} :
            /\ <<"message", s>> \in doomed => <<"conversation", s>> \in doomed
            /\ <<"conversation", s>> \in doomed =>
                   \A t \in {"message", "answer", "chunk"} :
                       <<t, s>> \in rows => <<t, s>> \in doomed
            /\ <<"answer", s>> \in doomed /\ <<"trace", s>> \in rows
                   => <<"trace", s>> \in doomed
  <2>1. \A s \in found : s \in Sessions \union {Past}
    BY DEF IInv, TypeOK
  <2>2. stage >= 5 /\ stage >= 8 /\ stage >= 9
    BY <1>1
  <2> QED
    BY <2>1, <2>2, <1>1 DEF IInv, PassedBy
<1>3. \A s \in found : <<"memory", s>> \in rows => <<"memory", s>> \in doomed
  <2>1. \A r \in Table("memory") \ doomed : <<"conversation", r[2]>> \notin doomed
    BY DEF CommitErase, Referenced, Dangling
  <2> SUFFICES ASSUME NEW s \in found, <<"memory", s>> \in rows, <<"memory", s>> \notin doomed
               PROVE  FALSE
    OBVIOUS
  <2>2. <<"memory", s>> \in Table("memory")
    BY DEF Table
  <2>3. <<"conversation", s>> \in doomed
    BY <1>2
  <2> QED
    BY <2>1, <2>2, <2>3
<1>4. \A v \in Verifiers : vpc[v] # "reading"
    BY <1>2 DEF IInv, LinksHeld
<1>5. TypeOK'
  <2>1. stage' \in 0..(Len(Statements) + 1)
    BY <1>1, StatementNames
  <2>2. locks' \in [Sessions -> SUBSET rows']
    BY <1>1 DEF IInv, TypeOK, LocksHeld
  <2> QED
    BY <2>1, <2>2, <1>1 DEF IInv, TypeOK
<1>6. LocksHeld'
  <2>1. \A s \in Sessions : wpc[s] = "quoting" => <<"message", s>> \notin doomed
    BY <1>2 DEF IInv, LocksHeld
  <2> QED
    BY <2>1, <1>1 DEF IInv, LocksHeld
<1>7. RowsAgree'
    BY <1>1 DEF IInv, RowsAgree
<1>8. StatementOpen' /\ PassedBy'
    BY <1>1 DEF IInv, StatementOpen, PassedBy
<1>9. ErasedAll'
    BY <1>1, <1>2 DEF ErasedAll
<1>10. ContentErased'
  <2> SUFFICES ASSUME NEW t \in {"message", "answer", "trace", "chunk", "memory"}, NEW s \in found
               PROVE  <<t, s>> \notin rows'
    BY <1>1 DEF ContentErased
  <2>1. s \in Sessions \union {Past} /\ <<"conversation", s>> \in doomed
    BY <1>2
  <2>2. t \in {"message", "answer", "chunk"} => <<t, s>> \notin rows'
    BY <2>1, <1>1, <1>2
  <2>3. t = "memory" => <<t, s>> \notin rows'
    BY <1>1, <1>3
  <2>4. t = "trace" => <<t, s>> \notin rows'
    <3>1. <<"trace", s>> \in rows => <<"answer", s>> \in rows
      BY <2>1, <1>1 DEF IInv, RowsAgree
    <3>2. <<"trace", s>> \in rows => <<"answer", s>> \in doomed
      BY <3>1, <2>1, <1>2
    <3> QED
      BY <3>2, <2>1, <1>1, <1>2
  <2> QED
    BY <2>2, <2>3, <2>4
<1>11. LinksHeld' /\ LinkUsedOnce'
    BY <1>1, <1>4 DEF IInv, LinksHeld, LinkUsedOnce
<1> QED
    BY <1>5, <1>6, <1>7, <1>8, <1>9, <1>10, <1>11 DEF IInv

(* A statement that has to wait remembers the rows that it found.          *)
LEMMA WaitInv ==
    ASSUME IInv, WaitForRows
    PROVE  IInv'
<1>1. /\ InStatement /\ seen = {} /\ seen' = Hits
      /\ UNCHANGED <<rows, doomed, stage, found, member, erased, vpc, vlink, asked,
                     uses, starting, mpc, wpc, locks>>
    BY DEF WaitForRows, signin, chat, ending
<1>2. TypeOK /\ stage \in 1..9 /\ ~erased /\ Entity \in rows /\ (member => User \in rows)
    BY <1>1, StatementNames DEF IInv, InStatement, StatementOpen
<1>3. TypeOK'
    BY <1>1, <1>2, HitsAre DEF TypeOK
<1>4. LocksHeld' /\ LinksHeld' /\ LinkUsedOnce'
    BY <1>1 DEF IInv, LocksHeld, LinksHeld, LinkUsedOnce
<1>5. RowsAgree'
    BY <1>1 DEF IInv, RowsAgree
<1>6. StatementOpen'
  <2>1. \A s \in Sessions \union {Past} :
            /\ <<"message", s>> \in seen' \/ <<"answer", s>> \in seen' => stage' = 4
            /\ <<"conversation", s>> \in seen' => stage' = 7
    BY <1>1, <1>2, HitsAre DEF Conversations
  <2> QED
    BY <2>1, <1>1, <1>2 DEF IInv, StatementOpen
<1>7. PassedBy'
  <2>1. ASSUME stage = 7, NEW s \in Sessions \union {Past},
               s \in found \/ <<"message", s>> \in doomed
        PROVE  <<"conversation", s>> \in seen' \union doomed
    <3>1. <<"conversation", s>> \in rows
      BY <2>1, <1>2 DEF IInv, RowsAgree, TypeOK
    <3> QED
      BY <3>1, <2>1, <1>1, <1>2, HitsAre DEF Conversations
  <2>2. stage = 8 => Entity \in seen' \union doomed
    BY <1>1, <1>2, HitsAre
  <2>3. stage = 9 /\ member => User \in seen' \union doomed
    BY <1>1, <1>2, HitsAre
  <2> QED
    BY <2>1, <2>2, <2>3, <1>1 DEF IInv, PassedBy
<1>8. ErasedAll' /\ ContentErased'
    BY <1>1 DEF IInv, ErasedAll, ContentErased
<1> QED
    BY <1>3, <1>4, <1>5, <1>6, <1>7, <1>8 DEF IInv

(* A statement that has waited deletes one of its rows.                    *)
LEMMA DeleteRowInv ==
    ASSUME IInv, NEW r, DeleteRow(r)
    PROVE  IInv'
<1>1. InStatement
    BY StatementNames DEF IInv, StatementOpen, InStatement, DeleteRow
<1>2. CASE seen = {r} /\ Finish({r})
  <2>1. {r} \subseteq rows
    BY <1>2 DEF IInv, TypeOK
  <2>2. Going = doomed \union {r}
    BY <1>2 DEF Going
  <2>3. seen = {r} /\ {r} # {}
    BY <1>2
  <2> QED
    BY <2>1, <2>2, <2>3, <1>1, <1>2, FinishInv
<1>3. CASE seen # {r}
  <2>1. /\ r \in seen /\ seen # {r} /\ Free({r})
        /\ doomed' = doomed \union {r} /\ seen' = seen \ {r}
        /\ UNCHANGED <<rows, stage, found, member, erased, vpc, vlink, asked, uses,
                       starting, mpc, wpc, locks>>
    BY <1>3 DEF DeleteRow, signin, chat, ending
  <2>2. TypeOK /\ stage \in 1..9 /\ r \in rows
    BY <1>1, <2>1, StatementNames DEF IInv, TypeOK, InStatement
  <2>3. /\ \A s \in Sessions : r \notin locks[s]
        /\ \A v \in Verifiers : vpc[v] = "reading" => <<"link", vlink[v]>> # r
    BY <2>1 DEF Free, Writing, Reading
  <2>4. \A s \in Sessions \union {Past} :
            /\ <<"message", s>> = r \/ <<"answer", s>> = r => stage = 4
            /\ <<"conversation", s>> = r => stage = 7
    BY <2>1 DEF IInv, StatementOpen
  <2>5. TypeOK'
    BY <2>1, <2>2 DEF TypeOK
  <2>6. LocksHeld' /\ LinksHeld' /\ LinkUsedOnce'
    BY <2>1, <2>3 DEF IInv, LocksHeld, LinksHeld, LinkUsedOnce
  <2>7. RowsAgree'
    BY <2>1 DEF IInv, RowsAgree
  <2>8. StatementOpen'
    BY <2>1, <2>2 DEF IInv, StatementOpen
  <2>9. PassedBy'
    <3>1. ASSUME stage >= 5, NEW s \in Sessions \union {Past}
          PROVE  <<"message", s>> # r /\ <<"answer", s>> # r
      BY <3>1, <2>2, <2>4
    <3>2. ASSUME stage >= 8, NEW s \in Sessions \union {Past}
          PROVE  <<"conversation", s>> # r
      BY <3>2, <2>2, <2>4
    <3>3. stage >= 5 =>
              \A s \in Sessions \union {Past} :
                  <<"answer", s>> \in doomed' /\ <<"trace", s>> \in rows
                      => <<"trace", s>> \in doomed'
      BY <3>1, <2>1 DEF IInv, PassedBy
    <3>4. stage = 7 => \A s \in Sessions \union {Past} :
              s \in found \/ <<"message", s>> \in doomed'
                  => <<"conversation", s>> \in seen' \union doomed'
      <4>1. stage = 7 => stage >= 5 /\ seen # {}
        BY <2>1
      <4> QED
        BY <4>1, <3>1, <2>1 DEF IInv, PassedBy
    <3>5. stage >= 8 => \A s \in Sessions \union {Past} :
              /\ s \in found \/ <<"message", s>> \in doomed'
                     => <<"conversation", s>> \in doomed'
              /\ <<"conversation", s>> \in doomed' =>
                     \A t \in {"message", "answer", "chunk"} :
                         <<t, s>> \in rows => <<t, s>> \in doomed'
      <4>1. stage >= 8 => stage >= 5
        BY <2>2
      <4> QED
        BY <4>1, <3>1, <3>2, <2>1 DEF IInv, PassedBy
    <3> QED
      BY <3>3, <3>4, <3>5, <2>1 DEF IInv, PassedBy
  <2>10. ErasedAll' /\ ContentErased'
    BY <2>1 DEF IInv, ErasedAll, ContentErased
  <2> QED
    BY <2>5, <2>6, <2>7, <2>8, <2>9, <2>10 DEF IInv
<1> QED
    BY <1>2, <1>3 DEF DeleteRow

(* Every step of an erasure keeps the invariant.                           *)
LEMMA EraseInv ==
    ASSUME IInv, BeginErase \/ EraseStep \/ EraseDies
    PROVE  IInv'
<1>1. CASE DeleteRows
  <2>1. /\ InStatement /\ seen = {} /\ Finish(Hits)
        /\ Hits \subseteq rows /\ Going = doomed \union Hits
    BY <1>1, HitsAre DEF DeleteRows, Going, IInv
  <2> QED
    BY <2>1, FinishInv
<1>2. CASE EraseRefused \/ EraseDies
    BY <1>2, RollbackInv DEF EraseRefused, EraseDies
<1> QED
    BY <1>1, <1>2, BeginInv, WaitInv, DeleteRowInv, CommitEraseInv DEF EraseStep

-----------------------------------------------------------------------------
(* The steps of everybody else.                                            *)

(* Rows that are added behind an erasure's statements, or after it, do it  *)
(* no harm if they are none of those that it has promised to be gone.      *)
LEMMA AddedRows ==
    ASSUME IInv, UNCHANGED eraser, NEW N, rows' = rows \union N,
           \A s \in Conversations :
               /\ <<"answer", s>> \in doomed => <<"trace", s>> \notin N
               /\ <<"conversation", s>> \in doomed =>
                     \A t \in {"message", "answer", "chunk"} : <<t, s>> \notin N,
           Entity \in doomed =>
               /\ \A v \in Verifiers : <<"session", v>> \notin N
               /\ \A l \in Links : <<"link", l>> \notin N,
           erased =>
               /\ \A s \in found : \A t \in {"conversation", "message", "answer", "trace", "chunk", "memory"} :
                      <<t, s>> \notin N
               /\ member => /\ {Entity, User} \intersect N = {}
                            /\ \A v \in Verifiers : <<"session", v>> \notin N
                            /\ \A l \in Links : <<"link", l>> \notin N
    PROVE  StatementOpen' /\ PassedBy' /\ ErasedAll' /\ ContentErased'
<1> USE DEF Conversations
<1>1. UNCHANGED <<doomed, stage, seen, found, member, erased>>
    BY DEF eraser
<1>2. StatementOpen'
    BY <1>1 DEF IInv, StatementOpen
<1>3. PassedBy'
    BY <1>1 DEF IInv, PassedBy
<1>4. ErasedAll'
    BY <1>1 DEF IInv, ErasedAll
<1>5. ContentErased'
    BY <1>1 DEF IInv, ContentErased
<1> QED
    BY <1>2, <1>3, <1>4, <1>5

(* Nothing changes for the erasure.                                        *)
LEMMA SameRows ==
    ASSUME IInv, UNCHANGED <<rows, eraser>>
    PROVE  StatementOpen' /\ PassedBy' /\ ErasedAll' /\ ContentErased'
BY DEF IInv, eraser, StatementOpen, PassedBy, ErasedAll, ContentErased

(* A session is started: nobody has a row of it yet.                       *)
LEMMA StartInv ==
    ASSUME IInv, NEW s \in Sessions, EnterWorkspace(s) \/ StartSession(s)
    PROVE  IInv'
<1>1. TypeOK
    BY DEF IInv
<1>2. UNCHANGED <<doomed, stage, seen, found, member, erased, vpc, vlink, asked,
                  uses, mpc, wpc, locks>>
    BY DEF EnterWorkspace, StartSession, eraser, signin, ending
<1>3. CASE EnterWorkspace(s)
  <2>1. /\ ~erased /\ <<"conversation", s>> \notin rows /\ rows' = rows
        /\ starting' = starting \union {s}
    BY <1>3 DEF EnterWorkspace, InWorkspace
  <2>2. TypeOK'
    BY <1>1, <1>2, <2>1 DEF TypeOK
  <2>3. RowsAgree' /\ LocksHeld' /\ LinksHeld' /\ LinkUsedOnce'
    BY <1>2, <2>1 DEF IInv, RowsAgree, LocksHeld, LinksHeld, LinkUsedOnce
  <2> QED
    BY <1>2, <2>1, <2>2, <2>3, SameRows DEF IInv, eraser
<1>4. CASE StartSession(s)
  <2>1. /\ s \in starting /\ starting' = starting \ {s}
        /\ rows' = rows \union {<<"conversation", s>>}
        /\ s \notin found
    BY <1>4 DEF StartSession, IInv, RowsAgree
  <2>2. TypeOK'
    BY <1>1, <1>2, <2>1, RowKinds DEF TypeOK, Conversations
  <2>3. RowsAgree'
    BY <1>2, <2>1 DEF IInv, RowsAgree, User
  <2>4. LocksHeld' /\ LinksHeld' /\ LinkUsedOnce'
    BY <1>2, <2>1 DEF IInv, LocksHeld, LinksHeld, LinkUsedOnce
  <2>5. StatementOpen' /\ PassedBy' /\ ErasedAll' /\ ContentErased'
    <3>1. \A x \in Conversations :
              /\ <<"trace", x>> \notin {<<"conversation", s>>}
              /\ \A t \in {"message", "answer", "chunk"} :
                    <<t, x>> \notin {<<"conversation", s>>}
      OBVIOUS
    <3>2. /\ {Entity, User} \intersect {<<"conversation", s>>} = {}
          /\ \A v \in Verifiers : <<"session", v>> \notin {<<"conversation", s>>}
          /\ \A l \in Links : <<"link", l>> \notin {<<"conversation", s>>}
      BY DEF Entity, User
    <3>3. \A x \in found :
              \A t \in {"conversation", "message", "answer", "trace", "chunk", "memory"} :
                  <<t, x>> \notin {<<"conversation", s>>}
      BY <2>1
    <3>4. UNCHANGED eraser
      BY <1>2 DEF eraser
    <3> QED
      BY <2>1, <3>1, <3>2, <3>3, <3>4, AddedRows
  <2> QED
    BY <2>2, <2>3, <2>4, <2>5 DEF IInv
<1> QED
    BY <1>3, <1>4

(* A message is checked, posted and answered: each of its rows is written  *)
(* only while its conversation is there.                                   *)
LEMMA ChatInv ==
    ASSUME IInv, NEW s \in Sessions, CheckOpen(s) \/ PostMessage(s) \/ Reply(s)
    PROVE  IInv'
<1>1. TypeOK
    BY DEF IInv
<1>2. UNCHANGED <<doomed, stage, seen, found, member, erased, vpc, vlink, asked,
                  uses, starting, wpc, locks>>
    BY DEF CheckOpen, PostMessage, Reply, eraser, signin, ending
<1>3. PICK N : /\ N \in {{}, {<<"message", s>>}, {<<"answer", s>>, <<"trace", s>>}}
               /\ rows' = rows \union N
               /\ N # {} => /\ <<"conversation", s>> \in rows
                            /\ <<"conversation", s>> \notin doomed
               /\ mpc' \in [Sessions -> {"idle", "posting", "answering", "done"}]
               /\ \A x \in Sessions \ {s} : mpc'[x] = mpc[x]
               /\ mpc[s] = "done" => mpc'[s] = "done"
               /\ <<"answer", s>> \in N => mpc[s] = "answering" /\ mpc'[s] = "done"
  <2>1. CASE CheckOpen(s)
    <3>1. rows' = rows \union {} /\ mpc[s] = "idle" /\ mpc' = [mpc EXCEPT ![s] = "posting"]
      BY <2>1 DEF CheckOpen
    <3> QED
      BY <3>1, <1>1 DEF TypeOK
  <2>2. CASE PostMessage(s)
    <3>1. CASE <<"conversation", s>> \in rows
      <4>1. /\ mpc[s] = "posting" /\ <<"conversation", s>> \notin doomed
            /\ rows' = rows \union {<<"message", s>>}
            /\ mpc' = [mpc EXCEPT ![s] = "answering"]
        BY <2>2, <3>1 DEF PostMessage
      <4> QED
        BY <4>1, <3>1, <1>1 DEF TypeOK
    <3>2. CASE <<"conversation", s>> \notin rows
      <4>1. /\ mpc[s] = "posting"
            /\ rows' = rows \union {}
            /\ mpc' = [mpc EXCEPT ![s] = "done"]
        BY <2>2, <3>2 DEF PostMessage
      <4> QED
        BY <4>1, <1>1 DEF TypeOK
    <3> QED
      BY <3>1, <3>2
  <2>3. CASE Reply(s)
    <3>1. CASE <<"conversation", s>> \in rows
      <4>1. /\ mpc[s] = "answering" /\ <<"conversation", s>> \notin doomed
            /\ rows' = rows \union {<<"answer", s>>, <<"trace", s>>}
            /\ mpc' = [mpc EXCEPT ![s] = "done"]
        BY <2>3, <3>1 DEF Reply
      <4> QED
        BY <4>1, <3>1, <1>1 DEF TypeOK
    <3>2. CASE <<"conversation", s>> \notin rows
      <4>1. /\ mpc[s] = "answering"
            /\ rows' = rows \union {}
            /\ mpc' = [mpc EXCEPT ![s] = "done"]
        BY <2>3, <3>2 DEF Reply
      <4> QED
        BY <4>1, <1>1 DEF TypeOK
    <3> QED
      BY <3>1, <3>2
  <2> QED
    BY <2>1, <2>2, <2>3
<1>4. N \subseteq Rows
    BY <1>3, RowKinds DEF Conversations
<1>5. <<"answer", s>> \in N => <<"answer", s>> \notin rows
    BY <1>3 DEF IInv, RowsAgree
<1>6. erased /\ s \in found => N = {}
    BY <1>3 DEF IInv, ErasedAll
<1>7. TypeOK'
    BY <1>1, <1>2, <1>3, <1>4 DEF TypeOK
<1>8. LocksHeld' /\ LinksHeld' /\ LinkUsedOnce'
    BY <1>2, <1>3 DEF IInv, LocksHeld, LinksHeld, LinkUsedOnce
<1>9. RowsAgree'
  <2>1. CASE N = {}
    BY <2>1, <1>2, <1>3 DEF IInv, RowsAgree
  <2>2. CASE N = {<<"message", s>>}
    BY <2>2, <1>2, <1>3 DEF IInv, RowsAgree, User
  <2>3. CASE N = {<<"answer", s>>, <<"trace", s>>}
    <3>1. s # Past
      OBVIOUS
    <3> QED
      BY <2>3, <3>1, <1>2, <1>3 DEF IInv, RowsAgree, User
  <2> QED
    BY <2>1, <2>2, <2>3, <1>3
<1>10. StatementOpen' /\ PassedBy' /\ ErasedAll' /\ ContentErased'
  <2>1. CASE N = {}
    BY <2>1, <1>2, <1>3, SameRows DEF eraser
  <2>2. CASE N = {<<"message", s>>}
    BY <2>2, <1>2, <1>3, <1>6, AddedRows DEF eraser, Entity, User
  <2>3. CASE N = {<<"answer", s>>, <<"trace", s>>}
    <3>1. \A x \in Conversations :
              /\ <<"answer", x>> \in doomed => <<"trace", x>> \notin N
              /\ <<"conversation", x>> \in doomed =>
                     \A t \in {"message", "answer", "chunk"} : <<t, x>> \notin N
      BY <2>3, <1>1, <1>3, <1>5 DEF TypeOK
    <3>2. /\ {Entity, User} \intersect N = {}
          /\ \A v \in Verifiers : <<"session", v>> \notin N
          /\ \A l \in Links : <<"link", l>> \notin N
      BY <2>3 DEF Entity, User
    <3>3. erased => \A x \in found :
              \A t \in {"conversation", "message", "answer", "trace", "chunk", "memory"} :
                  <<t, x>> \notin N
      BY <2>3, <1>6
    <3>4. UNCHANGED eraser
      BY <1>2 DEF eraser
    <3> QED
      BY <1>3, <3>1, <3>2, <3>3, <3>4, AddedRows
  <2> QED
    BY <2>1, <2>2, <2>3, <1>3
<1> QED
    BY <1>7, <1>8, <1>9, <1>10 DEF IInv

(* end_session goes on to p, holding the rows L.                           *)
LEMMA HoldInv ==
    ASSUME IInv, NEW s \in Sessions, NEW L, L \subseteq rows, L \intersect doomed = {},
           NEW p \in {"idle", "extracting", "locked", "correcting",
                      "quoting", "written", "chunking", "done"},
           p \in {"locked", "correcting", "quoting", "written"} => <<"conversation", s>> \in L,
           p = "quoting" => <<"message", s>> \in rows,
           UNCHANGED <<rows, eraser, signin, chat>>,
           wpc' = [wpc EXCEPT ![s] = p],
           locks' = [locks EXCEPT ![s] = L]
    PROVE  IInv'
<1>1. UNCHANGED <<rows, doomed, stage, seen, found, member, erased, vpc, vlink,
                  asked, uses, starting, mpc>>
    BY DEF eraser, signin, chat
<1>2. wpc \in [Sessions -> {"idle", "extracting", "locked", "correcting",
                             "quoting", "written", "chunking", "done"}]
      /\ locks \in [Sessions -> SUBSET rows]
    BY DEF IInv, TypeOK
<1>3. TypeOK'
  <2>1. wpc' \in [Sessions -> {"idle", "extracting", "locked", "correcting",
                               "quoting", "written", "chunking", "done"}]
        /\ locks' \in [Sessions -> SUBSET rows]
    BY <1>2
  <2> QED
    BY <1>1, <2>1 DEF IInv, TypeOK
<1>4. LocksHeld'
  <2>1. \A x \in Sessions : /\ x = s => wpc'[x] = p /\ locks'[x] = L
                            /\ x # s => wpc'[x] = wpc[x] /\ locks'[x] = locks[x]
    BY <1>2
  <2> QED
    BY <2>1, <1>1 DEF IInv, LocksHeld
<1>5. RowsAgree' /\ LinksHeld' /\ LinkUsedOnce'
    BY <1>1 DEF IInv, RowsAgree, LinksHeld, LinkUsedOnce
<1> QED
    BY <1>3, <1>4, <1>5, SameRows DEF IInv

(* What a draft is linked to is there, and the conversation is still held. *)
LEMMA WrittenInv ==
    ASSUME IInv, NEW s \in Sessions, Written(s),
           NEW L, L \subseteq rows, L \intersect doomed = {}, <<"conversation", s>> \in L,
           UNCHANGED <<rows, eraser, signin, chat>>,
           locks' = [locks EXCEPT ![s] = L]
    PROVE  IInv'
<1>1. CASE wpc' = [wpc EXCEPT ![s] = "written"]
    BY <1>1, HoldInv
<1>2. CASE <<"message", s>> \in rows /\ wpc' = [wpc EXCEPT ![s] = "quoting"]
    BY <1>2, HoldInv
<1> QED
    BY <1>1, <1>2 DEF Written

(* A transaction of end_session writes its memory or its chunks: not after *)
(* an erasure, which would have deleted the conversation that it holds.    *)
LEMMA WriteInv ==
    ASSUME IInv, NEW s \in Sessions, CommitSession(s) \/ StoreChunks(s)
    PROVE  IInv'
<1>1. TypeOK
    BY DEF IInv
<1>2. UNCHANGED <<doomed, stage, seen, found, member, erased, vpc, vlink, asked,
                  uses, starting, mpc>>
    BY DEF CommitSession, StoreChunks, eraser, signin, chat
<1>3. PICK N : /\ N \in {{}, {<<"memory", s>>, <<"event", s>>}, {<<"chunk", s>>}}
               /\ rows' = rows \union N
               /\ N # {} => <<"conversation", s>> \in rows
               /\ <<"chunk", s>> \in N => <<"conversation", s>> \notin doomed
  <2>1. CASE CommitSession(s) /\ wpc[s] = "written"
    <3>1. <<"conversation", s>> \in rows
      BY <2>1, <1>1 DEF IInv, LocksHeld, TypeOK
    <3>2. rows' = rows \union {<<"memory", s>>, <<"event", s>>}
      BY <2>1 DEF CommitSession
    <3> QED
      BY <3>1, <3>2
  <2>2. CASE CommitSession(s) /\ wpc[s] # "written"
    <3>1. rows' = rows \union {}
      BY <2>2 DEF CommitSession
    <3> QED
      BY <3>1
  <2>3. CASE StoreChunks(s) /\ <<"conversation", s>> \in rows
    <3>1. rows' = rows \union {<<"chunk", s>>} /\ <<"conversation", s>> \notin doomed
      BY <2>3 DEF StoreChunks
    <3> QED
      BY <3>1, <2>3
  <2>4. CASE StoreChunks(s) /\ <<"conversation", s>> \notin rows
    <3>1. rows' = rows \union {}
      BY <2>4 DEF StoreChunks
    <3> QED
      BY <3>1
  <2> QED
    BY <2>1, <2>2, <2>3, <2>4
<1>4. /\ wpc'[s] \in {"chunking", "done"}
      /\ wpc' \in [Sessions -> {"idle", "extracting", "locked", "correcting",
                                "quoting", "written", "chunking", "done"}]
      /\ locks' \in [Sessions -> SUBSET rows]
      /\ locks'[s] \subseteq locks[s]
      /\ \A x \in Sessions \ {s} : wpc'[x] = wpc[x] /\ locks'[x] = locks[x]
    BY <1>1 DEF CommitSession, StoreChunks, TypeOK
<1>5. TypeOK'
  <2>1. N \subseteq Rows
    BY <1>3, RowKinds DEF Conversations
  <2>2. rows \subseteq rows' /\ rows' \subseteq Rows
    BY <1>1, <1>3, <2>1 DEF TypeOK
  <2>3. locks' \in [Sessions -> SUBSET rows']
    BY <1>4, <2>2
  <2> QED
    BY <2>2, <2>3, <1>1, <1>2, <1>4 DEF TypeOK
<1>6. LocksHeld'
    BY <1>2, <1>3, <1>4 DEF IInv, LocksHeld
<1>7. RowsAgree'
  <2>1. \A x \in Sessions \union {Past} :
            \A t \in {"conversation", "message", "answer", "trace"} : <<t, x>> \notin N
    BY <1>3
  <2>2. \A v \in Verifiers : <<"session", v>> \notin N
    BY <1>3
  <2> QED
    BY <2>1, <2>2, <1>1, <1>2, <1>3 DEF IInv, RowsAgree, TypeOK
<1>8. LinksHeld' /\ LinkUsedOnce'
    BY <1>2, <1>3 DEF IInv, LinksHeld, LinkUsedOnce
<1>9. StatementOpen' /\ PassedBy' /\ ErasedAll' /\ ContentErased'
  <2>1. \A x \in Conversations :
            /\ <<"answer", x>> \in doomed => <<"trace", x>> \notin N
            /\ <<"conversation", x>> \in doomed =>
                  \A t \in {"message", "answer", "chunk"} : <<t, x>> \notin N
    BY <1>3
  <2>2. /\ {Entity, User} \intersect N = {}
        /\ \A v \in Verifiers : <<"session", v>> \notin N
        /\ \A l \in Links : <<"link", l>> \notin N
    BY <1>3 DEF Entity, User
  <2>3. erased => \A x \in found :
            \A t \in {"conversation", "message", "answer", "trace", "chunk", "memory"} :
                <<t, x>> \notin N
    <3>1. erased /\ s \in found => N = {}
      BY <1>3 DEF IInv, ErasedAll
    <3> QED
      BY <3>1, <1>3
  <2>4. UNCHANGED eraser
    BY <1>2 DEF eraser
  <2> QED
    BY <1>3, <2>1, <2>2, <2>3, <2>4, AddedRows
<1> QED
    BY <1>5, <1>6, <1>7, <1>8, <1>9 DEF IInv

(* A transaction that is rolled back holds nothing.                        *)
LEMMA AbortInv ==
    ASSUME IInv, NEW s \in Sessions, Abort(s)
    PROVE  IInv'
<1>1. /\ {} \subseteq rows /\ {} \intersect doomed = {}
      /\ wpc' = [wpc EXCEPT ![s] = "idle"]
      /\ locks' = [locks EXCEPT ![s] = {}]
      /\ UNCHANGED <<rows, eraser, signin, chat>>
    BY DEF Abort
<1> QED
    BY <1>1, HoldInv

(* Every step of end_session keeps the invariant.                          *)
LEMMA EndInv ==
    ASSUME IInv, NEW s \in Sessions, EndSession(s) \/ EndStep(s) \/ Abort(s)
    PROVE  IInv'
<1>1. /\ locks[s] \subseteq rows /\ locks[s] \intersect doomed = {}
      /\ locks = [locks EXCEPT ![s] = locks[s]]
      /\ wpc[s] \in {"locked", "correcting", "quoting", "written"}
             => <<"conversation", s>> \in locks[s]
      /\ wpc[s] = "quoting" => <<"message", s>> \in rows
    BY DEF IInv, TypeOK, LocksHeld
<1>2. CASE EndSession(s)
  <2>1. /\ wpc' = [wpc EXCEPT ![s] = "extracting"]
        /\ locks' = [locks EXCEPT ![s] = locks[s]]
        /\ UNCHANGED <<rows, eraser, signin, chat>>
    BY <1>1, <1>2 DEF EndSession
  <2> QED
    BY <1>1, <2>1, HoldInv
<1>3. CASE LockConversation(s)
  <2>1. CASE <<"conversation", s>> \in rows
    <3>1. /\ wpc' = [wpc EXCEPT ![s] = "locked"]
          /\ locks' = [locks EXCEPT ![s] = {<<"conversation", s>>}]
          /\ {<<"conversation", s>>} \subseteq rows
          /\ {<<"conversation", s>>} \intersect doomed = {}
          /\ UNCHANGED <<rows, eraser, signin, chat>>
      BY <1>3, <2>1 DEF LockConversation
    <3> QED
      BY <3>1, HoldInv
  <2>2. CASE <<"conversation", s>> \notin rows
    <3>1. /\ wpc' = [wpc EXCEPT ![s] = "done"]
          /\ locks' = [locks EXCEPT ![s] = locks[s]]
          /\ UNCHANGED <<rows, eraser, signin, chat>>
      BY <1>1, <1>3, <2>2 DEF LockConversation
    <3> QED
      BY <1>1, <3>1, HoldInv
  <2> QED
    BY <2>1, <2>2
<1>4. CASE Correct(s)
  <2>1. /\ wpc' = [wpc EXCEPT ![s] = "correcting"]
        /\ locks' = [locks EXCEPT ![s] = locks[s]]
        /\ <<"conversation", s>> \in locks[s]
        /\ UNCHANGED <<rows, eraser, signin, chat>>
    BY <1>1, <1>4 DEF Correct
  <2> QED
    BY <1>1, <2>1, HoldInv
<1>5. CASE Supersede(s)
  <2>1. /\ locks' = [locks EXCEPT ![s] = locks[s] \union {<<"memory", Past>>}]
        /\ locks[s] \union {<<"memory", Past>>} \subseteq rows
        /\ (locks[s] \union {<<"memory", Past>>}) \intersect doomed = {}
        /\ <<"conversation", s>> \in locks[s] \union {<<"memory", Past>>}
        /\ Written(s)
        /\ UNCHANGED <<rows, eraser, signin, chat>>
    BY <1>1, <1>5 DEF Supersede, Visible, IInv, TypeOK
  <2> QED
    BY <2>1, WrittenInv
<1>6. CASE CreateMemory(s)
  <2>1. /\ locks' = [locks EXCEPT ![s] = locks[s]]
        /\ <<"conversation", s>> \in locks[s]
        /\ Written(s)
        /\ UNCHANGED <<rows, eraser, signin, chat>>
    BY <1>1, <1>6 DEF CreateMemory
  <2> QED
    BY <1>1, <2>1, WrittenInv
<1>7. CASE PersistProvenance(s)
  <2>1. /\ wpc' = [wpc EXCEPT ![s] = "written"]
        /\ locks' = [locks EXCEPT ![s] = locks[s] \union {<<"message", s>>}]
        /\ locks[s] \union {<<"message", s>>} \subseteq rows
        /\ (locks[s] \union {<<"message", s>>}) \intersect doomed = {}
        /\ <<"conversation", s>> \in locks[s] \union {<<"message", s>>}
        /\ UNCHANGED <<rows, eraser, signin, chat>>
    BY <1>1, <1>7 DEF PersistProvenance, IInv, TypeOK
  <2> QED
    BY <2>1, HoldInv
<1>8. CASE SupersedeFails(s) \/ DeadlockVictim(s)
    BY <1>8, AbortInv, RollbackInv DEF SupersedeFails, DeadlockVictim
<1> QED
    BY <1>2, <1>3, <1>4, <1>5, <1>6, <1>7, <1>8, WriteInv, AbortInv DEF EndStep

(* A link is requested: not after the erasure, and not while the entity is *)
(* being deleted.                                                          *)
LEMMA RequestInv ==
    ASSUME IInv, NEW l \in Links, RequestLink(l)
    PROVE  IInv'
<1>1. /\ ~erased /\ Entity \notin doomed
      /\ rows' = rows \union {<<"link", l>>} /\ asked' = asked \union {l}
      /\ UNCHANGED <<uses, vpc, vlink, eraser, chat, ending>>
    BY DEF RequestLink, InWorkspace
<1>2. UNCHANGED <<doomed, stage, seen, found, member, erased, vpc, vlink, uses,
                  starting, mpc, wpc, locks>>
    BY <1>1 DEF eraser, chat, ending
<1>3. TypeOK'
  <2>1. rows \subseteq rows' /\ rows' \subseteq Rows
    BY <1>1, RowKinds DEF IInv, TypeOK
  <2>2. locks' \in [Sessions -> SUBSET rows']
    BY <1>2, <2>1 DEF IInv, TypeOK
  <2> QED
    BY <1>1, <1>2, <2>1, <2>2 DEF IInv, TypeOK
<1>4. LocksHeld' /\ LinksHeld' /\ LinkUsedOnce'
    BY <1>1, <1>2 DEF IInv, LocksHeld, LinksHeld, LinkUsedOnce
<1>5. RowsAgree'
    BY <1>1, <1>2 DEF IInv, RowsAgree, User
<1>6. StatementOpen' /\ PassedBy' /\ ErasedAll' /\ ContentErased'
  <2>1. \A x \in Conversations, t \in {"trace", "message", "answer", "chunk"} :
            <<t, x>> \notin {<<"link", l>>}
    OBVIOUS
  <2> QED
    BY <1>1, <2>1, AddedRows
<1> QED
    BY <1>3, <1>4, <1>5, <1>6 DEF IInv

(* A link is read by one call at a time.                                   *)
LEMMA ReadInv ==
    ASSUME IInv, NEW v \in Verifiers, NEW l \in Links, ReadLink(v, l)
    PROVE  IInv'
<1>1. /\ <<"link", l>> \in rows \ doomed /\ uses[l] = 0
      /\ \A w \in Verifiers : vpc[w] = "reading" => vlink[w] # l
      /\ vpc' = [vpc EXCEPT ![v] = "reading"] /\ vlink' = [vlink EXCEPT ![v] = l]
      /\ UNCHANGED <<rows, asked, uses, eraser, chat, ending>>
    BY DEF ReadLink, Visible, LinkFree, Reading
<1>2. UNCHANGED <<doomed, stage, seen, found, member, erased, starting, mpc, wpc, locks>>
    BY <1>1 DEF eraser, chat, ending
<1>3. /\ vpc' \in [Verifiers -> {"idle", "reading", "claimed", "done"}]
      /\ vlink' \in [Verifiers -> Links \union {NoLink}]
      /\ vlink'[v] = l
      /\ \A w \in Verifiers \ {v} : vpc'[w] = vpc[w] /\ vlink'[w] = vlink[w]
    BY <1>1 DEF IInv, TypeOK
<1>4. TypeOK'
    BY <1>1, <1>2, <1>3 DEF IInv, TypeOK
<1>5. LinksHeld'
  <2>1. ASSUME NEW w \in Verifiers, vpc'[w] = "reading"
        PROVE  /\ vlink'[w] \in Links
               /\ <<"link", vlink'[w]>> \in rows \ doomed
               /\ uses[vlink'[w]] = 0
               /\ \A u \in Verifiers : vpc'[u] = "reading" /\ vlink'[u] = vlink'[w] => u = w
    <3>1. CASE w = v
      BY <3>1, <1>1, <1>3
    <3>2. CASE w # v
      BY <3>2, <2>1, <1>1, <1>3 DEF IInv, LinksHeld
    <3> QED
      BY <3>1, <3>2
  <2> QED
    BY <2>1, <1>1, <1>2 DEF LinksHeld
<1>6. LocksHeld' /\ RowsAgree' /\ LinkUsedOnce'
    BY <1>1, <1>2 DEF IInv, LocksHeld, RowsAgree, LinkUsedOnce
<1> QED
    BY <1>1, <1>4, <1>5, <1>6, SameRows DEF IInv

(* The workspace becomes its user's: the link that was read is still       *)
(* there, so the account is not erased, and is used up.                    *)
LEMMA ClaimInv ==
    ASSUME IInv, NEW v \in Verifiers, ClaimWorkspace(v)
    PROVE  IInv'
<1>1. /\ vpc[v] = "reading" /\ Entity \notin doomed
      /\ rows' = rows \union {User, Entity}
      /\ uses' = [uses EXCEPT ![vlink[v]] = @ + 1]
      /\ vpc' = [vpc EXCEPT ![v] = "claimed"]
      /\ UNCHANGED <<asked, vlink, eraser, chat, ending>>
    BY DEF ClaimWorkspace
<1>2. UNCHANGED <<doomed, stage, seen, found, member, erased, starting, mpc, wpc, locks>>
    BY <1>1 DEF eraser, chat, ending
<1>3. /\ vlink[v] \in Links /\ uses[vlink[v]] = 0 /\ <<"link", vlink[v]>> \in rows
      /\ \A w \in Verifiers : vpc[w] = "reading" /\ vlink[w] = vlink[v] => w = v
    BY <1>1 DEF IInv, LinksHeld
<1>4. /\ vpc' \in [Verifiers -> {"idle", "reading", "claimed", "done"}]
      /\ \A w \in Verifiers : vpc'[w] = "reading" => w # v /\ vpc[w] = "reading"
      /\ uses' \in [Links -> Nat] /\ uses'[vlink[v]] = 1
      /\ \A l \in Links \ {vlink[v]} : uses'[l] = uses[l]
    BY <1>1, <1>3 DEF IInv, TypeOK
<1>5. TypeOK'
  <2>1. rows \subseteq rows' /\ rows' \subseteq Rows
    BY <1>1, RowKinds DEF IInv, TypeOK
  <2>2. locks' \in [Sessions -> SUBSET rows']
    BY <1>2, <2>1 DEF IInv, TypeOK
  <2> QED
    BY <1>1, <1>2, <1>4, <2>1, <2>2 DEF IInv, TypeOK
<1>6. LinksHeld'
    BY <1>1, <1>2, <1>3, <1>4 DEF IInv, LinksHeld
<1>7. LinkUsedOnce'
    BY <1>4 DEF IInv, LinkUsedOnce
<1>8. LocksHeld'
    BY <1>1, <1>2 DEF IInv, LocksHeld
<1>9. RowsAgree'
    BY <1>1, <1>2 DEF IInv, RowsAgree, User, Entity
<1>10. StatementOpen' /\ PassedBy' /\ ErasedAll' /\ ContentErased'
  <2>1. /\ \A x \in Conversations :
              \A t \in {"conversation", "message", "answer", "trace", "chunk", "memory"} :
                  <<t, x>> \notin {User, Entity}
        /\ \A w \in Verifiers : <<"session", w>> \notin {User, Entity}
        /\ \A l \in Links : <<"link", l>> \notin {User, Entity}
    BY DEF User, Entity
  <2>2. erased => ~member
    BY <1>3 DEF IInv, ErasedAll
  <2>3. found \subseteq Conversations
    BY DEF IInv, TypeOK, Conversations
  <2> QED
    BY <1>1, <2>1, <2>2, <2>3, AddedRows
<1> QED
    BY <1>5, <1>6, <1>7, <1>8, <1>9, <1>10 DEF IInv

(* The browser's session is written only for a user that exists.           *)
LEMMA EstablishInv ==
    ASSUME IInv, NEW v \in Verifiers, EstablishSession(v) \/ SignInDies(v)
    PROVE  IInv'
<1>1. UNCHANGED <<doomed, stage, seen, found, member, erased, vlink, asked, uses,
                  starting, mpc, wpc, locks>>
    BY DEF EstablishSession, SignInDies, eraser, chat, ending
<1>2. PICK N : /\ N \in {{}, {Entity, <<"session", v>>}}
               /\ rows' = rows \union N
               /\ N # {} => User \in rows /\ Entity \notin doomed
  <2>1. CASE EstablishSession(v) /\ User \in rows
    <3>1. rows' = rows \union {Entity, <<"session", v>>} /\ Entity \notin doomed
      BY <2>1 DEF EstablishSession
    <3> QED
      BY <3>1, <2>1
  <2>2. CASE SignInDies(v) \/ (EstablishSession(v) /\ User \notin rows)
    <3>1. rows' = rows \union {}
      BY <2>2 DEF EstablishSession, SignInDies
    <3> QED
      BY <3>1
  <2> QED
    BY <2>1, <2>2
<1>3. /\ vpc' \in [Verifiers -> {"idle", "reading", "claimed", "done"}]
      /\ \A w \in Verifiers : vpc'[w] = "reading" => vpc[w] = "reading"
  <2>1. vpc' = [vpc EXCEPT ![v] = "done"]
    BY DEF EstablishSession, SignInDies
  <2> QED
    BY <2>1 DEF IInv, TypeOK
<1>4. TypeOK'
  <2>1. N \subseteq Rows
    BY <1>2, RowKinds
  <2>2. rows \subseteq rows' /\ rows' \subseteq Rows
    BY <1>2, <2>1 DEF IInv, TypeOK
  <2>3. locks' \in [Sessions -> SUBSET rows']
    BY <1>1, <2>2 DEF IInv, TypeOK
  <2> QED
    BY <1>1, <1>3, <2>2, <2>3 DEF IInv, TypeOK
<1>5. LinksHeld' /\ LinkUsedOnce'
    BY <1>1, <1>2, <1>3 DEF IInv, LinksHeld, LinkUsedOnce
<1>6. LocksHeld'
    BY <1>1, <1>2 DEF IInv, LocksHeld
<1>7. /\ \A x \in Conversations :
            \A t \in {"conversation", "message", "answer", "trace", "chunk", "memory"} :
                <<t, x>> \notin N
      /\ \A l \in Links : <<"link", l>> \notin N
    BY <1>2 DEF Entity
<1>8. RowsAgree'
  <2>1. starting \subseteq Conversations /\ found \subseteq Conversations
    BY DEF IInv, TypeOK, Conversations
  <2>2. \A w \in Verifiers : <<"session", w>> \in N => User \in rows
    BY <1>2
  <2> QED
    BY <1>1, <1>2, <1>7, <2>1, <2>2 DEF IInv, RowsAgree, Conversations
<1>9. StatementOpen' /\ PassedBy' /\ ErasedAll' /\ ContentErased'
  <2>1. found \subseteq Conversations
    BY DEF IInv, TypeOK, Conversations
  <2>2. erased /\ member => N = {}
    BY <1>2 DEF IInv, ErasedAll
  <2>3. Entity \in doomed => N = {}
    BY <1>2
  <2>4. UNCHANGED eraser
    BY <1>1 DEF eraser
  <2> QED
    BY <1>2, <1>7, <2>1, <2>2, <2>3, <2>4, AddedRows
<1> QED
    BY <1>4, <1>5, <1>6, <1>8, <1>9 DEF IInv

(* Every step keeps the invariant.                                         *)
LEMMA NextInv == IInv /\ [Next]_vars => IInv'
<1> SUFFICES ASSUME IInv, [Next]_vars
             PROVE  IInv'
    OBVIOUS
<1>1. CASE UNCHANGED vars
  <2>1. UNCHANGED <<rows, doomed, stage, seen, found, member, erased, vpc, vlink, asked, uses,
                    starting, mpc, wpc, locks>>
    BY <1>1 DEF vars, eraser, signin, chat, ending
  <2> QED
    BY <2>1, SameRows DEF IInv, TypeOK, LocksHeld, RowsAgree, LinksHeld, LinkUsedOnce, eraser
<1>2. CASE Next
    BY <1>2, EraseInv, StartInv, ChatInv, EndInv, RequestInv, ReadInv, ClaimInv, EstablishInv
    DEF Next, SignInStep
<1> QED
    BY <1>1, <1>2

(* The inductive invariant holds in every reachable state.                 *)
THEOREM InvariantHolds == Spec => []IInv
BY InitInv, NextInv, PTL DEF Spec

(* Rows, locks and statements are what they are said to be.                *)
THEOREM TypeCorrect == Spec => []TypeOK
<1>1. IInv => TypeOK
    BY DEF IInv
<1> QED
    BY <1>1, InvariantHolds, PTL

(* What was said and remembered is gone when the erasure is answered, with *)
(* any number of sessions that are started, used and ended meanwhile.      *)
THEOREM ErasureComplete == Spec => []ContentErased
<1>1. IInv => ContentErased
    BY DEF IInv
<1> QED
    BY <1>1, InvariantHolds, PTL

(* An account does not come back, however many sign-ins are under way.     *)
THEOREM AccountStaysErased == Spec => []AccountErased
<1>1. IInv => AccountErased
  <2> SUFFICES ASSUME IInv, erased, member
               PROVE  {Entity, User} \intersect rows = {} /\ Table("session") = {}
    BY DEF AccountErased
  <2>1. \A r \in Table("session") : FALSE
    <3> SUFFICES ASSUME NEW r \in Table("session")
                 PROVE  FALSE
      OBVIOUS
    <3>1. r \in rows /\ r \in Rows /\ r[1] = "session"
      BY DEF Table, IInv, TypeOK
    <3>2. \E v \in Verifiers : <<"session", v>> \in rows
      BY <3>1, RowKinds
    <3> QED
      BY <3>2 DEF IInv, ErasedAll
  <2> QED
    BY <2>1 DEF IInv, ErasedAll
<1> QED
    BY <1>1, InvariantHolds, PTL

(* A link works once, however many calls follow it at a time.              *)
THEOREM LinksSingleUse == Spec => []LinkUsedOnce
<1>1. IInv => LinkUsedOnce
    BY DEF IInv
<1> QED
    BY <1>1, InvariantHolds, PTL
=============================================================================
