------------------------ MODULE PageWorkspaceProofs ------------------------
(***************************************************************************)
(* Proofs about ConsultationClient, for any budget of what may happen: the *)
(* workspaces that the page, its cookies, its token, its trial and its     *)
(* session belong to.                                                      *)
(***************************************************************************)
EXTENDS ConsultationProofs

-----------------------------------------------------------------------------
(* The workspace of the page: its cookies, its token, its trial.  The user *)
(* waits for the page, and does not follow links away from it.             *)
Calm == Patient /\ Budget["leave"] = 0

Context == {"profile", "memories"}
WaitsIn(N) == {q \in N : q.by = "page"}
SignIns == budget["signin"]

(* One request of the page at a time, or the two of a refresh.  Nobody     *)
(* waits for the others.                                                   *)
AloneAt(N, p) ==
    /\ \A q \in N : q.by = "page" \/ (q.by = "gone" /\ q.status = "sent")
    /\ \A q, o \in WaitsIn(N) : q.flow = o.flow /\ (q = o \/ q.op \in Context)
    /\ ~p.api => WaitsIn(N) = {} /\ ~p.deleted /\ p.csrf = 0

Alone == AloneAt(net, page)

(* What each flow asks for.                                                *)
FlowOf(q) ==
    /\ q.op = "me" => q.flow \in {"boot", "link", "delete", "reset"}
    /\ q.op = "try" => q.flow \in {"boot", "reset"}
    /\ q.op \in {"link", "delete", "export"} => q.flow = q.op
    /\ q.op \in {"start", "send", "end"} => q.flow = "chat"
    /\ q.op \in Context => q.flow \in {"boot", "chat", "reset"}

Made(q) == q.status = "ok" /\ q.op \in Reads /\ q.val # q.ws

(* Tokens and cookies are of one workspace, unless the token's is gone.    *)
TokensAt(N, p, t, j, A, k) ==
    /\ t \in 0..k
    /\ p.csrf \in {0, j} \/ p.csrf \notin A
    /\ \A q \in WaitsIn(N) :
          /\ FlowOf(q)
          /\ \/ q.ws = j
             \/ /\ q.op \in Context /\ (p.csrf = 0 \/ p.csrf \notin A)
                /\ t = j => j \notin A
          /\ q.op \in Writes => q.tok = q.ws \/ q.tok \in (0..k) \ A
          /\ Made(q) => q.ws \notin A /\ q.val # t
          /\ q.op = "try" => t # j
          /\ q.op = "delete" /\ q.status = "ok" => q.ws \notin A
          /\ q.op \in {"me", "try"} /\ q.flow = "reset" => t = 0

Tokens == TokensAt(net, page, storage.trial, jar, alive, issued)

-----------------------------------------------------------------------------
(* Kinds of steps, by what they do to workspaces.                          *)
SameSpace == UNCHANGED <<issued, alive, owner>> /\ SignIns' = SignIns

Mirrored == storage.session = page.session => storage'.session = page'.session

SameScreen ==
    /\ page'.csrf = page.csrf /\ page'.session = page.session
    /\ page'.profile = page.profile /\ page'.memories = page.memories

(* Nothing is asked and nothing is answered.                               *)
Rests ==
    /\ SameSpace /\ SameScreen /\ Mirrored /\ jar' = jar /\ net' = net
    /\ storage'.trial = storage.trial
    /\ page'.api = page.api /\ page'.deleted = page.deleted

(* The page or the user asks for something.                                *)
Asks(C) ==
    /\ SameSpace /\ SameScreen /\ Mirrored /\ jar' = jar
    /\ storage'.trial = storage.trial
    /\ WaitsIn(net) = {} /\ net' = net \union C /\ page'.api
    /\ \A c \in C : /\ c.by = "page" /\ c.status = "sent" /\ c.ws = jar /\ FlowOf(c)
                    /\ c.op \in Writes => c.tok = Token
                    /\ c.op \notin {"try", "delete", "link"} /\ c.flow # "reset"
                    /\ c.flow # "chat" => ~page'.deleted
    /\ \A c, d \in C : c.flow = d.flow /\ (c = d \/ c.op \in Context)
    /\ page'.deleted \in {page.deleted, FALSE}

(* The page has the answer to q, and asks for more.                        *)
Receives(q, C) ==
    /\ SameSpace /\ Mirrored /\ q \in WaitsIn(net)
    /\ net' = (net \ {q}) \union C /\ page'.api = page.api

(* The reset has loaded all that there is to load.                         *)
MayBeDone(q) ==
    page'.deleted => \/ page.deleted
                     \/ q.flow = "reset" /\ \A o \in WaitsIn(net) \ {q} : o.flow # "reset"

Loads(q) ==
    /\ Receives(q, {}) /\ q.status = "ok" /\ q.op \in Context /\ MayBeDone(q)
    /\ jar' = IF q.val # q.ws THEN q.val ELSE jar
    /\ page'.csrf = page.csrf /\ page'.session = page.session
    /\ page'.profile \in {page.profile, q.val} /\ page'.memories \in {page.memories, q.val}
    /\ storage'.trial = storage.trial

Knows(q, C) ==
    /\ Receives(q, C) /\ q.status = "ok" /\ q.op = "me"
    /\ jar' = IF q.val # q.ws THEN q.val ELSE jar
    /\ page'.csrf = q.val /\ page'.session = page.session /\ page'.deleted = page.deleted
    /\ page'.profile = page.profile /\ page'.memories = page.memories
    /\ storage'.trial = storage.trial
    /\ \/ q.flow \in {"link", "delete"} /\ C = {Call(q.flow, q.flow, "page", jar', q.val)}
       \/ /\ q.flow \notin {"link", "delete"}
          /\ q.flow = "boot" => storage.trial # q.val
          /\ C = {Call("try", q.flow, "page", jar', q.val)}
       \/ q.flow \notin {"link", "delete"} /\ C = Refresh(q.flow, "page", jar')

Founds(q) ==
    /\ Receives(q, Refresh(q.flow, "page", q.val)) /\ q.status = "ok" /\ q.op = "try"
    /\ jar' = q.val /\ storage'.trial = q.val /\ page'.csrf = q.val
    /\ page'.session = IF q.flow = "boot" THEN 0 ELSE page.session
    /\ page'.deleted = page.deleted
    /\ page'.profile = page.profile /\ page'.memories = page.memories

(* A session begins, goes on or ends.                                      *)
Converses(q) ==
    /\ Receives(q, Refresh("chat", "page", jar)) /\ q.status = "ok"
    /\ q.op \in {"start", "send", "end"} /\ jar' = jar
    /\ page'.session = IF q.op = "start" THEN q.val
                       ELSE IF q.op = "end" THEN 0 ELSE page.session
    /\ page'.csrf = page.csrf /\ page'.deleted = page.deleted
    /\ page'.profile = page.profile /\ page'.memories = page.memories
    /\ storage'.trial = storage.trial

Erases(q) ==
    /\ Receives(q, {Call("me", "reset", "page", 0, 0)}) /\ q.status = "ok" /\ q.op = "delete"
    /\ jar' = 0 /\ storage'.trial = 0 /\ page'.csrf = 0 /\ page'.session = 0
    /\ page'.profile = 0 /\ page'.memories = 0 /\ page'.deleted = page.deleted

(* A link was sent or an export is there, or q failed, and may go on by    *)
(* itself.                                                                 *)
Behind(q, L) == \A c \in L : c.by = "gone" /\ c.status = "sent" /\ c.op = q.op

Finishes(q) ==
    /\ \E L : Behind(q, L) /\ Receives(q, L)
    /\ SameScreen /\ MayBeDone(q)
    /\ \/ jar' = jar
       \/ q.status = "ok" /\ q.op = "export" /\ q.val # q.ws /\ jar' = q.val
    /\ storage'.trial = storage.trial

(* The service answers q with r, or does what nobody waits for.            *)
Answers(q, r) ==
    /\ UNCHANGED <<page, storage, jar>> /\ SignIns' = SignIns
    /\ q \in net /\ q.status = "sent"
    /\ r.op = q.op /\ r.flow = q.flow /\ r.by = q.by /\ r.ws = q.ws /\ r.tok = q.tok
    /\ net' = (net \ {q}) \union IF q.by = "gone" THEN {} ELSE {r}
    /\ \/ r.status = "refused" /\ UNCHANGED <<issued, alive, owner>>
       \/ /\ r.status = "ok" /\ Allowed(q) /\ r.val = Result(q)
          /\ issued' = IF Creates(q) THEN issued + 1 ELSE issued
          /\ alive' = IF Creates(q) THEN alive \union {issued + 1}
                      ELSE IF q.op = "delete" THEN alive \ {q.ws} ELSE alive
          /\ owner' = IF q.op = "start" THEN Append(owner, q.ws) ELSE owner

(* The page is mounted anew, perhaps with other cookies.                   *)
Begins ==
    /\ storage' = storage /\ page'.session = storage.session
    /\ ~page'.api /\ ~page'.deleted /\ page'.csrf = 0
    /\ page'.profile = 0 /\ page'.memories = 0 /\ UNCHANGED owner
    /\ \A q \in net' : q.by = "gone" /\ q.status = "sent"
    /\ \/ SameSpace /\ jar' = jar
       \/ /\ SignIns > 0 /\ SignIns' = SignIns - 1
          /\ \/ jar' \in alive /\ UNCHANGED <<issued, alive>>
             \/ jar' = issued + 1 /\ issued' = issued + 1 /\ alive' = alive \union {issued + 1}

SpaceSteps ==
    \/ Rests \/ Begins
    \/ \E C : Asks(C)
    \/ \E q : \/ Loads(q) \/ Founds(q) \/ Converses(q) \/ Erases(q) \/ Finishes(q)
              \/ \E C : Knows(q, C)
    \/ \E q, r : Answers(q, r)
-----------------------------------------------------------------------------
(* No kind of step makes the page wait for two things at once.             *)
LEMMA AloneStep ==
    ASSUME Typed, Alone, SpaceSteps
    PROVE  Alone'
<1>1. PICK N, p, M, o : N = net /\ p = page /\ M = net' /\ o = page'
    OBVIOUS
<1>2. AloneAt(N, p)
    BY <1>1 DEF Alone
<1>3. SUFFICES AloneAt(M, o)
    BY <1>1 DEF Alone
<1>4. CASE Rests
    BY <1>1, <1>2, <1>4 DEF Rests, SameScreen, AloneAt
<1>5. CASE Begins
    BY <1>1, <1>5 DEF Begins, AloneAt, WaitsIn
<1>6. ASSUME NEW C, Asks(C)
      PROVE  AloneAt(M, o)
    BY <1>1, <1>2, <1>6 DEF Asks, AloneAt, WaitsIn
<1>7. ASSUME NEW q, NEW C, Receives(q, C), q.op \in Context => C = {},
             \A c \in C : c.by = "page",
             \A c, d \in C : c.flow = d.flow /\ (c = d \/ c.op \in Context)
      PROVE  AloneAt(M, o)
  <2>1. /\ q \in WaitsIn(N) /\ M = (N \ {q}) \union C /\ o.api = p.api /\ p.api
    BY <1>1, <1>2, <1>7 DEF Receives, AloneAt
  <2>2. WaitsIn(M) = (WaitsIn(N) \ {q}) \union C
    BY <1>7, <2>1 DEF WaitsIn
  <2>3. CASE q.op \in Context
    BY <1>2, <1>7, <2>1, <2>2, <2>3 DEF AloneAt
  <2>4. CASE q.op \notin Context
    <3>1. WaitsIn(M) = C
      BY <1>2, <2>1, <2>2, <2>4 DEF AloneAt
    <3> QED
      BY <1>2, <1>7, <2>1, <3>1 DEF AloneAt
  <2> QED
    BY <2>3, <2>4
<1>8. ASSUME NEW flow, NEW ws
      PROVE  LET C == Refresh(flow, "page", ws)
             IN  /\ \A c \in C : c.by = "page"
                 /\ \A c, d \in C : c.flow = d.flow /\ (c = d \/ c.op \in Context)
    BY DEF Refresh, Call, Context
<1>9. ASSUME NEW op, NEW flow, NEW ws, NEW tok
      PROVE  Call(op, flow, "page", ws, tok).by = "page"
    BY DEF Call
<1>10. ASSUME NEW q, Loads(q) \/ Finishes(q)
       PROVE  AloneAt(M, o)
  <2>1. PICK L : Behind(q, L) /\ Receives(q, L)
    BY <1>10 DEF Loads, Finishes, Behind
  <2>2. /\ q \in WaitsIn(N) /\ M = (N \ {q}) \union L /\ o.api = p.api /\ p.api
        /\ WaitsIn(M) = WaitsIn(N) \ {q}
    BY <1>1, <1>2, <2>1 DEF Receives, Behind, AloneAt, WaitsIn
  <2> QED
    BY <1>2, <2>1, <2>2 DEF AloneAt, Behind
<1>11. ASSUME NEW q, Founds(q)
       PROVE  AloneAt(M, o)
    BY <1>7, <1>8, <1>11 DEF Founds, Context
<1>12. ASSUME NEW q, Converses(q)
       PROVE  AloneAt(M, o)
    BY <1>7, <1>8, <1>12 DEF Converses, Context
<1>13. ASSUME NEW q, Erases(q)
       PROVE  AloneAt(M, o)
    BY <1>7, <1>9, <1>13 DEF Erases, Context
<1>14. ASSUME NEW q, NEW C, Knows(q, C)
       PROVE  AloneAt(M, o)
    BY <1>7, <1>8, <1>9, <1>14 DEF Knows, Context
<1>15. ASSUME NEW q, NEW r, Answers(q, r)
       PROVE  AloneAt(M, o)
  <2>1. /\ q \in N /\ r.op = q.op /\ r.flow = q.flow /\ r.by = q.by /\ o = p
        /\ M = (N \ {q}) \union IF q.by = "gone" THEN {} ELSE {r}
    BY <1>1, <1>15 DEF Answers
  <2>2. WaitsIn(M) = IF q \in WaitsIn(N) THEN (WaitsIn(N) \ {q}) \union {r} ELSE WaitsIn(N)
    BY <1>2, <2>1 DEF WaitsIn, AloneAt
  <2>3. q.by = "page" \/ q.by = "gone"
    BY <1>2, <2>1 DEF AloneAt
  <2>4. CASE q \in WaitsIn(N)
    <3>1. \A c, d \in WaitsIn(M) : c.flow = d.flow /\ (c = d \/ c.op \in Context)
      BY <1>2, <2>1, <2>2, <2>4 DEF AloneAt
    <3>2. \A c \in M : c.by = "page" \/ (c.by = "gone" /\ c.status = "sent")
      BY <1>2, <2>1, <2>4 DEF AloneAt, WaitsIn
    <3> QED
      BY <1>2, <2>1, <2>4, <3>1, <3>2 DEF AloneAt
  <2>5. CASE q \notin WaitsIn(N)
    <3>1. M = N \ {q}
      BY <2>1, <2>3, <2>5 DEF WaitsIn
    <3> QED
      BY <1>2, <2>1, <2>2, <2>5, <3>1 DEF AloneAt
  <2> QED
    BY <2>4, <2>5
<1> QED
    BY <1>4, <1>5, <1>6, <1>10, <1>11, <1>12, <1>13, <1>14, <1>15 DEF SpaceSteps

(* Numbers of workspaces.                                                  *)
LEMMA SpaceTypes ==
    ASSUME Typed
    PROVE  /\ issued \in Nat /\ alive \subseteq 1..issued /\ jar \in 0..issued
           /\ page.csrf \in 0..issued /\ owner \in Seq(1..issued) /\ Len(owner) \in Nat
           /\ page.session \in 0..Len(owner)
           /\ \A q \in net : /\ q.ws \in 0..issued
                             /\ q.op # "start" => q.val \in 0..issued
                             /\ q.op = "start" => q.val \in 0..Len(owner)
                             /\ q.status = "ok" /\ q.op \in {"start", "me", "try"} => q.val # 0
BY DEF Typed, ServiceOK, PageOK, RequestOK

(* Nor does one bring a token, a cookie or an answer of a workspace that   *)
(* it should not, while the token's is alive.                              *)
LEMMA TokensStep ==
    ASSUME Typed, Alone, Tokens, SpaceSteps
    PROVE  Tokens'
<1>1. PICK N, p, t, j, A, k : /\ N = net /\ p = page /\ t = storage.trial /\ j = jar
                              /\ A = alive /\ k = issued
    OBVIOUS
<1>2. PICK N2, p2, t2, j2, A2, k2 : /\ N2 = net' /\ p2 = page' /\ t2 = storage'.trial
                                    /\ j2 = jar' /\ A2 = alive' /\ k2 = issued'
    OBVIOUS
<1>3. AloneAt(N, p) /\ TokensAt(N, p, t, j, A, k)
    BY <1>1 DEF Alone, Tokens
<1>4. SUFFICES TokensAt(N2, p2, t2, j2, A2, k2)
    BY <1>2 DEF Tokens
<1>5. /\ k \in Nat /\ A \subseteq 1..k /\ j \in 0..k /\ p.csrf \in 0..k
      /\ \A q \in N : /\ q.ws \in 0..k
                      /\ q.op # "start" => q.val \in 0..k
                      /\ q.status = "ok" /\ q.op \in {"me", "try"} => q.val # 0
    BY <1>1, SpaceTypes
<1>6. CASE Rests
    BY <1>1, <1>2, <1>3, <1>6 DEF Rests, SameScreen, SameSpace, TokensAt
<1>7. CASE Begins
  <2>1. WaitsIn(N2) = {} /\ p2.csrf = 0 /\ t2 = t /\ k2 >= k /\ k2 \in Nat
    BY <1>1, <1>2, <1>5, <1>7 DEF Begins, SameSpace, WaitsIn
  <2> QED
    BY <1>3, <1>5, <2>1 DEF TokensAt
<1>8. ASSUME NEW C, Asks(C)
      PROVE  TokensAt(N2, p2, t2, j2, A2, k2)
  <2>1. /\ j2 = j /\ t2 = t /\ A2 = A /\ k2 = k /\ p2.csrf = p.csrf /\ WaitsIn(N2) = C
        /\ \A c \in C : /\ c.status = "sent" /\ c.ws = j /\ FlowOf(c) /\ c.flow # "reset"
                        /\ c.op \in Writes => c.tok = IF p.csrf # 0 THEN p.csrf ELSE j
                        /\ c.op \notin {"try", "delete", "link"}
    BY <1>1, <1>2, <1>8 DEF Asks, SameSpace, SameScreen, WaitsIn, Token
  <2> QED
    BY <1>3, <1>5, <2>1 DEF TokensAt, Made
<1>9. ASSUME NEW q, Loads(q)
      PROVE  TokensAt(N2, p2, t2, j2, A2, k2)
  <2>1. /\ q \in WaitsIn(N) /\ WaitsIn(N2) = WaitsIn(N) \ {q} /\ q.op \in Context
        /\ q.status = "ok" /\ j2 = (IF q.val # q.ws THEN q.val ELSE j)
        /\ p2.csrf = p.csrf /\ t2 = t /\ A2 = A /\ k2 = k
    BY <1>1, <1>2, <1>9 DEF Loads, Receives, SameSpace, WaitsIn
  <2>2. CASE q.val = q.ws
    BY <1>3, <2>1, <2>2 DEF TokensAt
  <2>3. CASE q.val # q.ws
    <3>1. j2 = q.val /\ q.val # t /\ q.ws \notin A /\ q \in N
      BY <1>3, <2>1, <2>3 DEF TokensAt, Made, Context, Reads, WaitsIn
    <3>2. p.csrf = 0 \/ p.csrf \notin A
      BY <1>3, <2>1, <3>1 DEF TokensAt
    <3>3. \A c \in WaitsIn(N) \ {q} : c.op \in Context
      BY <1>3, <2>1 DEF AloneAt
    <3> QED
      BY <1>3, <2>1, <3>1, <3>2, <3>3 DEF TokensAt, Context
  <2> QED
    BY <2>2, <2>3
<1>10. ASSUME NEW q, NEW C, Knows(q, C)
       PROVE  TokensAt(N2, p2, t2, j2, A2, k2)
  <2>1. /\ q \in WaitsIn(N) /\ q \in N /\ q.op = "me" /\ q.status = "ok"
        /\ N2 = (N \ {q}) \union C
        /\ j2 = (IF q.val # q.ws THEN q.val ELSE j)
        /\ p2.csrf = q.val /\ t2 = t /\ A2 = A /\ k2 = k
    BY <1>1, <1>2, <1>10 DEF Knows, Receives, SameSpace, WaitsIn
  <2>2. /\ q.ws = j /\ q.flow \in {"boot", "link", "delete", "reset"} /\ q.val # 0
        /\ q.flow = "reset" => t = 0
    BY <1>3, <1>5, <2>1 DEF TokensAt, FlowOf, Context
  <2>3. j2 = q.val
    BY <2>1, <2>2
  <2>4. \A c \in C : /\ c.by = "page" /\ c.status = "sent" /\ c.ws = j2 /\ FlowOf(c)
                     /\ c.op \in Writes => c.tok = c.ws
                     /\ c.op = "try" => t # j2
                     /\ c.op \in {"me", "try"} /\ c.flow = "reset" => t = 0
    BY <1>1, <1>2, <1>10, <2>1, <2>2, <2>3 DEF Knows, Call, Refresh, FlowOf, Context, Reads, Writes
  <2>5. WaitsIn(N2) = C
    <3>1. q.op \notin Context /\ \A c \in C : c.by = "page"
      BY <2>1, <2>4 DEF Context
    <3>2. WaitsIn(N) \subseteq {q}
      BY <1>3, <2>1, <3>1 DEF AloneAt
    <3> QED
      BY <2>1, <3>1, <3>2 DEF WaitsIn
  <2> QED
    BY <1>3, <2>1, <2>3, <2>4, <2>5 DEF TokensAt, Made
<1>11. ASSUME NEW q, Founds(q)
       PROVE  TokensAt(N2, p2, t2, j2, A2, k2)
  <2>1. PICK C : C = Refresh(q.flow, "page", q.val)
    OBVIOUS
  <2>2. /\ q \in WaitsIn(N) /\ q \in N /\ q.op = "try" /\ N2 = (N \ {q}) \union C
        /\ j2 = q.val /\ p2.csrf = q.val /\ t2 = q.val /\ A2 = A /\ k2 = k /\ q.val \in 0..k
    BY <1>1, <1>2, <1>5, <1>11, <2>1 DEF Founds, Receives, SameSpace, WaitsIn
  <2>3. q.flow \in {"boot", "reset"}
    BY <1>3, <2>2 DEF TokensAt, FlowOf
  <2>4. \A c \in C : /\ c.by = "page" /\ c.status = "sent" /\ c.ws = j2 /\ FlowOf(c)
                     /\ c.op \in Context
    BY <2>1, <2>2, <2>3 DEF Call, Refresh, FlowOf, Context
  <2>5. WaitsIn(N2) = C
    <3>1. q.op \notin Context /\ \A c \in C : c.by = "page"
      BY <2>2, <2>4 DEF Context
    <3>2. WaitsIn(N) \subseteq {q}
      BY <1>3, <2>2, <3>1 DEF AloneAt
    <3> QED
      BY <2>2, <3>1, <3>2 DEF WaitsIn
  <2> QED
    BY <2>2, <2>4, <2>5 DEF TokensAt, Made, Context, Writes
<1>12. ASSUME NEW q, Converses(q)
       PROVE  TokensAt(N2, p2, t2, j2, A2, k2)
  <2>1. PICK C : C = Refresh("chat", "page", j)
    OBVIOUS
  <2>2. /\ q \in WaitsIn(N) /\ q.op \in {"start", "send", "end"} /\ N2 = (N \ {q}) \union C
        /\ j2 = j /\ p2.csrf = p.csrf /\ t2 = t /\ A2 = A /\ k2 = k
    BY <1>1, <1>2, <1>12, <2>1 DEF Converses, Receives, SameSpace
  <2>3. \A c \in C : /\ c.by = "page" /\ c.status = "sent" /\ c.ws = j2 /\ FlowOf(c)
                     /\ c.op \in Context
    BY <2>1, <2>2 DEF Call, Refresh, FlowOf, Context
  <2>4. WaitsIn(N2) = C
    <3>1. q.op \notin Context /\ \A c \in C : c.by = "page"
      BY <2>2, <2>3 DEF Context
    <3>2. WaitsIn(N) \subseteq {q}
      BY <1>3, <2>2, <3>1 DEF AloneAt
    <3> QED
      BY <2>2, <3>1, <3>2 DEF WaitsIn
  <2> QED
    BY <1>3, <2>2, <2>3, <2>4 DEF TokensAt, Made, Context, Writes
<1>13. ASSUME NEW q, Erases(q)
       PROVE  TokensAt(N2, p2, t2, j2, A2, k2)
  <2>1. PICK c : c = Call("me", "reset", "page", 0, 0)
    OBVIOUS
  <2>2. /\ q \in WaitsIn(N) /\ q.op = "delete" /\ N2 = (N \ {q}) \union {c}
        /\ j2 = 0 /\ p2.csrf = 0 /\ t2 = 0 /\ A2 = A /\ k2 = k
    BY <1>1, <1>2, <1>13, <2>1 DEF Erases, Receives, SameSpace
  <2>3. c.by = "page" /\ c.status = "sent" /\ c.ws = 0 /\ FlowOf(c) /\ c.op = "me"
    BY <2>1 DEF Call, FlowOf, Context
  <2>4. WaitsIn(N2) = {c}
    <3>1. WaitsIn(N) \subseteq {q}
      BY <1>3, <2>2 DEF AloneAt, Context
    <3> QED
      BY <2>2, <2>3, <3>1 DEF WaitsIn
  <2> QED
    BY <1>5, <2>2, <2>3, <2>4 DEF TokensAt, Made, Context, Writes
<1>14. ASSUME NEW q, Finishes(q)
       PROVE  TokensAt(N2, p2, t2, j2, A2, k2)
  <2>1. /\ q \in WaitsIn(N) /\ WaitsIn(N2) = WaitsIn(N) \ {q}
        /\ p2.csrf = p.csrf /\ t2 = t /\ A2 = A /\ k2 = k
        /\ \/ j2 = j
           \/ q.status = "ok" /\ q.op = "export" /\ q.val # q.ws /\ j2 = q.val
    BY <1>1, <1>2, <1>14 DEF Finishes, Behind, Receives, SameSpace, SameScreen, WaitsIn
  <2>2. CASE j2 = j
    BY <1>3, <2>1, <2>2 DEF TokensAt
  <2>3. CASE q.status = "ok" /\ q.op = "export" /\ q.val # q.ws /\ j2 = q.val
    <3>1. WaitsIn(N2) = {}
      BY <1>3, <2>1, <2>3 DEF AloneAt, Context
    <3>2. q.ws = j /\ q.ws \notin A
      BY <1>3, <2>1, <2>3 DEF TokensAt, Made, Context, Reads
    <3> QED
      BY <1>3, <2>1, <3>1, <3>2 DEF TokensAt
  <2> QED
    BY <2>1, <2>2, <2>3
<1>15. ASSUME NEW q, NEW r, Answers(q, r)
       PROVE  TokensAt(N2, p2, t2, j2, A2, k2)
  <2>1. /\ q \in N /\ r.op = q.op /\ r.flow = q.flow /\ r.by = q.by /\ r.ws = q.ws /\ r.tok = q.tok
        /\ N2 = (N \ {q}) \union IF q.by = "gone" THEN {} ELSE {r}
        /\ p2 = p /\ t2 = t /\ j2 = j
    BY <1>1, <1>2, <1>15 DEF Answers
  <2>2. /\ WaitsIn(N2) \subseteq (WaitsIn(N) \ {q}) \union {r}
        /\ q \notin WaitsIn(N) => r \notin WaitsIn(N2)
    BY <1>3, <2>1 DEF WaitsIn, AloneAt
  <2>3. CASE r.status = "refused" /\ A2 = A /\ k2 = k
    BY <1>3, <2>1, <2>2, <2>3 DEF TokensAt, Made, FlowOf
  <2>4. CASE r.status # "refused" 
    <3>1. /\ r.status = "ok" /\ Allowed(q) /\ r.val = Result(q)
          /\ k2 = IF q.op = "try" \/ q.ws \notin A THEN k + 1 ELSE k
          /\ A2 = IF q.op = "try" \/ q.ws \notin A THEN A \union {k + 1}
                  ELSE IF q.op = "delete" THEN A \ {q.ws} ELSE A
      BY <1>1, <1>2, <1>15, <2>4 DEF Answers, Creates, HasWorkspace
    <3>2. /\ k2 \in Nat /\ k <= k2 /\ A2 \subseteq A \union {k + 1}
          /\ k + 1 \notin A /\ (k2 = k => A2 \subseteq A)
      BY <1>5, <3>1
    <3>3. r.op \in Reads => r.val = IF q.ws \notin A THEN k + 1 ELSE q.ws
      BY <1>1, <2>1, <3>1, ResultIs DEF Creates, HasWorkspace, Reads
    <3>4. r.op = "delete" => q.ws \notin A2
      BY <1>1, <1>5, <2>1, <3>1 DEF Allowed, HasWorkspace, Reads
    <3>5. Made(r) => r.ws \notin A2 /\ r.val = k + 1
      BY <1>5, <2>1, <3>1, <3>3 DEF Made, Reads
    <3>6. \A x \in 0..k : x \notin A => x \notin A2
      BY <1>5, <3>1
    <3>7. t \in 0..k /\ t \in 0..k2 /\ t # k + 1
      BY <1>3, <1>5, <3>2 DEF TokensAt
    <3>9. ASSUME NEW c \in WaitsIn(N) \ {q}
          PROVE  /\ FlowOf(c)
                 /\ \/ c.ws = j
                    \/ /\ c.op \in Context /\ (p.csrf = 0 \/ p.csrf \notin A2)
                       /\ t = j => j \notin A2
                 /\ c.op \in Writes => c.tok = c.ws \/ c.tok \in (0..k2) \ A2
                 /\ Made(c) => c.ws \notin A2 /\ c.val # t
                 /\ c.op = "try" => t # j
                 /\ c.op = "delete" /\ c.status = "ok" => c.ws \notin A2
                 /\ c.op \in {"me", "try"} /\ c.flow = "reset" => t = 0
      BY <1>3, <1>5, <3>2, <3>6 DEF TokensAt, WaitsIn
    <3>10. ASSUME r \in WaitsIn(N2)
           PROVE  /\ FlowOf(r)
                  /\ \/ r.ws = j
                     \/ /\ r.op \in Context /\ (p.csrf = 0 \/ p.csrf \notin A2)
                        /\ t = j => j \notin A2
                  /\ r.op \in Writes => r.tok = r.ws \/ r.tok \in (0..k2) \ A2
                  /\ Made(r) => r.ws \notin A2 /\ r.val # t
                  /\ r.op = "try" => t # j
                  /\ r.op = "delete" /\ r.status = "ok" => r.ws \notin A2
                  /\ r.op \in {"me", "try"} /\ r.flow = "reset" => t = 0
      <4>1. q \in WaitsIn(N)
        BY <2>2, <3>10
      <4> QED
        BY <1>3, <1>5, <2>1, <3>2, <3>4, <3>5, <3>6, <3>7, <4>1 DEF TokensAt, WaitsIn, FlowOf
    <3>11. p.csrf \in {0, j} \/ p.csrf \notin A2
      BY <1>3, <1>5, <3>6 DEF TokensAt
    <3> QED
      BY <2>1, <2>2, <3>7, <3>9, <3>10, <3>11 DEF TokensAt
  <2> QED
    BY <1>1, <1>2, <1>15, <2>3, <2>4 DEF Answers
<1> QED
    BY <1>6, <1>7, <1>8, <1>9, <1>10, <1>11, <1>12, <1>13, <1>14, <1>15 DEF SpaceSteps

-----------------------------------------------------------------------------
(* After a deletion.  A reload or a failure may have left another deletion *)
(* behind, which still takes its workspace away; it is not one of those    *)
(* that the page has found since.                                          *)
DoomedIn(N) == {q.ws : q \in {o \in N : o.by = "gone" /\ o.op = "delete"}}

Renewed(N, p) == p.deleted \/ \E q \in WaitsIn(N) : q.flow = "reset"

SafeIn(N, p, j, S, D, o) ==
    /\ {p.profile, p.memories} \subseteq S \union {0}
    /\ p.session # 0 => o[p.session] \in S
    /\ j \notin D
    /\ \A q \in WaitsIn(N) :
          /\ q.flow \in {"chat", "reset"} /\ q.ws \notin D
          /\ q.status = "ok" /\ q.op \in Reads \union {"try"} => q.val \in S
          /\ q.status = "ok" /\ q.op = "start" => o[q.val] \in S

FreshAt(N, p, j, A, o) ==
    LET D == DoomedIn(N) \ {0} IN
    /\ p.deleted => \A q \in WaitsIn(N) : q.flow = "chat"
    /\ Renewed(N, p) => SafeIn(N, p, j, A \ D, D, o)

Fresh == FreshAt(net, page, jar, alive, owner)

(* Nor one that was erased back onto the page.                             *)
LEMMA FreshStep ==
    ASSUME Typed, Alone, Tokens, Fresh, SpaceSteps
    PROVE  Fresh'
<1>1. PICK N, p, j, A, k, o, t : /\ N = net /\ p = page /\ j = jar /\ A = alive /\ k = issued
                                 /\ o = owner /\ t = storage.trial
    OBVIOUS
<1>2. PICK N2, p2, j2, A2, k2, o2 : /\ N2 = net' /\ p2 = page' /\ j2 = jar' /\ A2 = alive'
                                    /\ k2 = issued' /\ o2 = owner'
    OBVIOUS
<1>3. AloneAt(N, p) /\ TokensAt(N, p, t, j, A, k) /\ FreshAt(N, p, j, A, o)
    BY <1>1 DEF Alone, Tokens, Fresh
<1>4. PICK D, D2 : D = DoomedIn(N) \ {0} /\ D2 = DoomedIn(N2) \ {0}
    OBVIOUS
<1>5. /\ p.deleted => \A q \in WaitsIn(N) : q.flow = "chat"
      /\ Renewed(N, p) => SafeIn(N, p, j, A \ D, D, o)
    BY <1>3, <1>4 DEF FreshAt
<1>6. SUFFICES /\ p2.deleted => \A q \in WaitsIn(N2) : q.flow = "chat"
               /\ Renewed(N2, p2) => SafeIn(N2, p2, j2, A2 \ D2, D2, o2)
    BY <1>2, <1>4 DEF Fresh, FreshAt
<1>7. /\ k \in Nat /\ A \subseteq 1..k /\ j \in 0..k /\ o \in Seq(1..k) /\ Len(o) \in Nat
      /\ p.session \in 0..Len(o) /\ 0 \notin D /\ D \subseteq 1..k
      /\ \A q \in N : /\ q.ws \in 0..k
                      /\ q.op # "start" => q.val \in 0..k
                      /\ q.op = "start" => q.val \in 0..Len(o)
                      /\ q.status = "ok" /\ q.op \in {"start", "me", "try"} => q.val # 0
    BY <1>1, <1>4, SpaceTypes DEF DoomedIn
<1>8. CASE Rests
    BY <1>1, <1>2, <1>4, <1>5, <1>8 DEF Rests, SameScreen, SameSpace, Renewed, SafeIn
<1>9. CASE Begins
  <2>1. WaitsIn(N2) = {} /\ ~p2.deleted
    BY <1>2, <1>9 DEF Begins, WaitsIn
  <2> QED
    BY <2>1 DEF Renewed
<1>10. ASSUME NEW C, Asks(C)
       PROVE  /\ p2.deleted => \A q \in WaitsIn(N2) : q.flow = "chat"
              /\ Renewed(N2, p2) => SafeIn(N2, p2, j2, A2 \ D2, D2, o2)
  <2>1. /\ j2 = j /\ A2 = A /\ o2 = o /\ WaitsIn(N2) = C /\ D2 = D
        /\ p2.session = p.session /\ p2.profile = p.profile /\ p2.memories = p.memories
        /\ p2.deleted \in {p.deleted, FALSE}
        /\ \A c \in C : /\ c.status = "sent" /\ c.ws = j /\ c.flow # "reset"
                        /\ c.flow # "chat" => ~p2.deleted
    BY <1>1, <1>2, <1>4, <1>10 DEF Asks, SameSpace, SameScreen, WaitsIn, DoomedIn
  <2> QED
    BY <1>5, <2>1 DEF Renewed, SafeIn
<1>11. ASSUME NEW q, NEW C, Receives(q, C), \A c \in C : c.by = "page"
       PROVE  /\ q \in WaitsIn(N) /\ q \in N /\ N2 = (N \ {q}) \union C
              /\ D2 = D /\ A2 = A /\ o2 = o
              /\ WaitsIn(N2) = (WaitsIn(N) \ {q}) \union C
  <2>1. q \in WaitsIn(N) /\ N2 = (N \ {q}) \union C /\ A2 = A /\ o2 = o
    BY <1>1, <1>2, <1>11 DEF Receives, SameSpace
  <2>2. DoomedIn(N2) = DoomedIn(N)
    BY <1>11, <2>1 DEF DoomedIn, WaitsIn
  <2> QED
    BY <1>4, <1>11, <2>1, <2>2 DEF WaitsIn
<1>12. ASSUME NEW q, Loads(q) \/ Finishes(q)
       PROVE  /\ p2.deleted => \A c \in WaitsIn(N2) : c.flow = "chat"
              /\ Renewed(N2, p2) => SafeIn(N2, p2, j2, A2 \ D2, D2, o2)
  <2>0. PICK L : Behind(q, L) /\ Receives(q, L)
    BY <1>12 DEF Loads, Finishes, Behind
  <2>1. /\ q \in WaitsIn(N) /\ WaitsIn(N2) = WaitsIn(N) \ {q} /\ A2 = A /\ o2 = o
        /\ N2 = (N \ {q}) \union L
    BY <1>1, <1>2, <2>0 DEF Receives, Behind, SameSpace, WaitsIn
  <2>5. Renewed(N, p) => D2 = D
    <3>1. Renewed(N, p) => q.op # "delete"
      BY <1>3, <1>5, <2>1 DEF SafeIn, TokensAt, FlowOf
    <3>2. q.op # "delete" => DoomedIn(N2) = DoomedIn(N)
      BY <2>0, <2>1 DEF DoomedIn, Behind, WaitsIn
    <3> QED
      BY <1>4, <3>1, <3>2
  <2>2. /\ p2.session = p.session
        /\ \/ p2.profile = p.profile /\ p2.memories = p.memories
           \/ /\ p2.profile \in {p.profile, q.val} /\ p2.memories \in {p.memories, q.val}
              /\ q.status = "ok" /\ q.op \in Reads
        /\ j2 = j \/ (j2 = q.val /\ q.status = "ok" /\ q.op \in Reads)
        /\ p2.deleted => \/ p.deleted
                         \/ q.flow = "reset" /\ \A c \in WaitsIn(N) \ {q} : c.flow # "reset"
    BY <1>1, <1>2, <1>12 DEF Loads, Finishes, SameScreen, MayBeDone, Context, Reads
  <2>3. Renewed(N2, p2) => Renewed(N, p)
    BY <2>1, <2>2 DEF Renewed
  <2>4. p2.deleted => \A c \in WaitsIn(N2) : c.flow = "chat"
    BY <1>3, <1>5, <2>1, <2>2 DEF AloneAt
  <2> QED
    BY <1>5, <1>7, <2>1, <2>2, <2>3, <2>4, <2>5 DEF SafeIn
<1>13. ASSUME NEW q, NEW C, Knows(q, C)
       PROVE  /\ p2.deleted => \A c \in WaitsIn(N2) : c.flow = "chat"
              /\ Renewed(N2, p2) => SafeIn(N2, p2, j2, A2 \ D2, D2, o2)
  <2>1. \A c \in C : /\ c.by = "page" /\ c.status = "sent" /\ c.ws = j2
                     /\ c.flow = q.flow
    BY <1>2, <1>13 DEF Knows, Call, Refresh
  <2>2. /\ q \in WaitsIn(N) /\ WaitsIn(N2) = (WaitsIn(N) \ {q}) \union C /\ D2 = D
        /\ A2 = A /\ o2 = o
    BY <1>11, <1>13, <2>1 DEF Knows
  <2>3. /\ p2.session = p.session /\ p2.profile = p.profile /\ p2.memories = p.memories
        /\ p2.deleted = p.deleted /\ q.status = "ok" /\ q.op = "me"
        /\ j2 = j \/ j2 = q.val
    BY <1>1, <1>2, <1>13 DEF Knows
  <2>4. Renewed(N2, p2) => Renewed(N, p)
    BY <2>1, <2>2, <2>3 DEF Renewed
  <2> QED
    BY <1>5, <1>7, <2>1, <2>2, <2>3, <2>4 DEF SafeIn, Reads
<1>14. ASSUME NEW q, Founds(q)
       PROVE  /\ p2.deleted => \A c \in WaitsIn(N2) : c.flow = "chat"
              /\ Renewed(N2, p2) => SafeIn(N2, p2, j2, A2 \ D2, D2, o2)
  <2>1. PICK C : C = Refresh(q.flow, "page", q.val)
    OBVIOUS
  <2>2. \A c \in C : c.by = "page" /\ c.status = "sent" /\ c.ws = q.val /\ c.flow = q.flow
    BY <2>1 DEF Call, Refresh
  <2>3. /\ q \in WaitsIn(N) /\ WaitsIn(N2) = (WaitsIn(N) \ {q}) \union C /\ D2 = D
        /\ A2 = A /\ o2 = o
    BY <1>11, <1>14, <2>1, <2>2 DEF Founds
  <2>4. /\ p2.session \in {p.session, 0} /\ p2.profile = p.profile /\ p2.memories = p.memories
        /\ p2.deleted = p.deleted /\ q.status = "ok" /\ q.op = "try" /\ j2 = q.val
    BY <1>1, <1>2, <1>14 DEF Founds
  <2>5. Renewed(N2, p2) => Renewed(N, p)
    BY <2>2, <2>3, <2>4 DEF Renewed
  <2> QED
    BY <1>5, <1>7, <2>2, <2>3, <2>4, <2>5 DEF SafeIn
<1>15. ASSUME NEW q, Converses(q)
       PROVE  /\ p2.deleted => \A c \in WaitsIn(N2) : c.flow = "chat"
              /\ Renewed(N2, p2) => SafeIn(N2, p2, j2, A2 \ D2, D2, o2)
  <2>1. PICK C : C = Refresh("chat", "page", j)
    OBVIOUS
  <2>2. \A c \in C : c.by = "page" /\ c.status = "sent" /\ c.ws = j /\ c.flow = "chat"
    BY <2>1 DEF Call, Refresh
  <2>3. /\ q \in WaitsIn(N) /\ WaitsIn(N2) = (WaitsIn(N) \ {q}) \union C /\ D2 = D
        /\ A2 = A /\ o2 = o
    BY <1>1, <1>11, <1>15, <2>1, <2>2 DEF Converses
  <2>4. /\ p2.session = (IF q.op = "start" THEN q.val ELSE IF q.op = "end" THEN 0 ELSE p.session)
        /\ p2.profile = p.profile /\ p2.memories = p.memories
        /\ p2.deleted = p.deleted /\ q.status = "ok" /\ j2 = j
    BY <1>1, <1>2, <1>15 DEF Converses
  <2>5. Renewed(N2, p2) => Renewed(N, p)
    BY <2>2, <2>3, <2>4 DEF Renewed
  <2> QED
    BY <1>5, <1>7, <2>2, <2>3, <2>4, <2>5 DEF SafeIn
<1>16. ASSUME NEW q, Erases(q)
       PROVE  /\ p2.deleted => \A c \in WaitsIn(N2) : c.flow = "chat"
              /\ Renewed(N2, p2) => SafeIn(N2, p2, j2, A2 \ D2, D2, o2)
  <2>1. PICK c : c = Call("me", "reset", "page", 0, 0)
    OBVIOUS
  <2>2. c.by = "page" /\ c.status = "sent" /\ c.ws = 0 /\ c.flow = "reset"
    BY <2>1 DEF Call
  <2>3. /\ q \in WaitsIn(N) /\ WaitsIn(N2) = (WaitsIn(N) \ {q}) \union {c} /\ D2 = D
        /\ A2 = A /\ o2 = o
    BY <1>11, <1>16, <2>1, <2>2 DEF Erases
  <2>4. /\ p2.session = 0 /\ p2.profile = 0 /\ p2.memories = 0 /\ j2 = 0
        /\ p2.deleted = p.deleted /\ q.op = "delete"
    BY <1>1, <1>2, <1>16 DEF Erases
  <2>5. WaitsIn(N) = {q} /\ q.flow = "delete"
    BY <1>3, <2>3, <2>4 DEF AloneAt, TokensAt, FlowOf, Context
  <2> QED
    BY <1>5, <1>7, <2>2, <2>3, <2>4, <2>5 DEF SafeIn
<1>17. ASSUME NEW q, NEW r, Answers(q, r)
       PROVE  /\ p2.deleted => \A c \in WaitsIn(N2) : c.flow = "chat"
              /\ Renewed(N2, p2) => SafeIn(N2, p2, j2, A2 \ D2, D2, o2)
  <2>1. /\ q \in N /\ r.op = q.op /\ r.flow = q.flow /\ r.by = q.by /\ r.ws = q.ws
        /\ N2 = (N \ {q}) \union IF q.by = "gone" THEN {} ELSE {r}
        /\ p2 = p /\ j2 = j
    BY <1>1, <1>2, <1>17 DEF Answers
  <2>2. WaitsIn(N2) = IF q \in WaitsIn(N) THEN (WaitsIn(N) \ {q}) \union {r} ELSE WaitsIn(N)
    BY <1>3, <2>1 DEF WaitsIn, AloneAt
  <2>3. D2 \subseteq D
    BY <1>4, <2>1 DEF DoomedIn
  <2>4. Renewed(N2, p2) => Renewed(N, p)
    BY <2>1, <2>2 DEF Renewed
  <2>5. p2.deleted => \A c \in WaitsIn(N2) : c.flow = "chat"
    BY <1>5, <2>1, <2>2
  <2>6. ASSUME Renewed(N, p)
        PROVE  SafeIn(N2, p2, j2, A2 \ D2, D2, o2)
    <3>1. SafeIn(N, p, j, A \ D, D, o)
      BY <1>5, <2>6
    <3>2. CASE r.status = "refused" /\ A2 = A /\ o2 = o
      <4>1. A \ D \subseteq A2 \ D2
        BY <2>3, <3>2
      <4> QED
        BY <2>1, <2>2, <2>3, <3>1, <3>2, <4>1 DEF SafeIn
    <3>3. CASE r.status # "refused"
      <4>1. /\ r.status = "ok" /\ Allowed(q) /\ r.val = Result(q)
            /\ k2 = IF q.op = "try" \/ q.ws \notin A THEN k + 1 ELSE k
            /\ A2 = IF q.op = "try" \/ q.ws \notin A THEN A \union {k + 1}
                    ELSE IF q.op = "delete" THEN A \ {q.ws} ELSE A
            /\ o2 = IF q.op = "start" THEN Append(o, q.ws) ELSE o
        BY <1>1, <1>2, <1>17, <3>3 DEF Answers, Creates, HasWorkspace
      <4>2. k + 1 \notin D
        BY <1>7
      <4>3. q \in WaitsIn(N) => q.op # "delete"
        BY <1>3, <3>1 DEF SafeIn, TokensAt, FlowOf
      <4>4. q.op = "delete" => q.ws = 0 \/ q.ws \in D
        BY <1>3, <1>4, <2>1, <4>3 DEF DoomedIn, AloneAt, WaitsIn
      <4>5. A \ D \subseteq A2 \ D2
        BY <1>7, <2>3, <4>1, <4>4
      <4>6. \A s \in 1..Len(o) : o2[s] = o[s]
        BY <1>7, <4>1
      <4>7. ASSUME q \in WaitsIn(N)
            PROVE  /\ r.op \in Reads \union {"try"} => r.val \in A2 \ D2
                   /\ r.op = "start" => o2[r.val] \in A2 \ D2
        <5>1. q.ws \notin D
          BY <3>1, <4>7 DEF SafeIn
        <5>2. CASE q.op = "start"
          <6>1. r.val = Len(o) + 1 /\ q.ws \in A
            BY <1>1, <4>1, <5>2, ResultIs DEF Allowed, HasWorkspace, Reads
          <6>2. o2[r.val] = q.ws
            BY <1>7, <2>1, <4>1, <5>2, <6>1
          <6> QED
            BY <2>1, <4>5, <5>1, <5>2, <6>1, <6>2 DEF Reads
        <5>3. CASE q.op \in Reads \union {"try"}
          <6>1. r.val = IF q.op = "try" \/ q.ws \notin A THEN k + 1 ELSE q.ws
            BY <1>1, <4>1, <5>3, ResultIs DEF Creates, HasWorkspace, Reads
          <6> QED
            BY <2>1, <2>3, <4>1, <4>2, <4>5, <5>1, <5>3, <6>1 DEF Reads
        <5> QED
          BY <2>1, <5>2, <5>3
      <4>8. ASSUME NEW s \in 1..Len(o), o[s] \in A \ D
            PROVE  o2[s] \in A2 \ D2
        BY <4>5, <4>6, <4>8
      <4>9. \A c \in WaitsIn(N) : c \in N
        BY DEF WaitsIn
      <4>10. /\ {p2.profile, p2.memories} \subseteq (A2 \ D2) \union {0}
             /\ p2.session # 0 => o2[p2.session] \in A2 \ D2
             /\ j2 \notin D2
        <5>1. p2.session # 0 => p2.session \in 1..Len(o) /\ o[p2.session] \in A \ D
          BY <1>7, <2>1, <3>1 DEF SafeIn
        <5>2. {p2.profile, p2.memories} \subseteq (A \ D) \union {0} /\ j2 \notin D
          BY <2>1, <3>1 DEF SafeIn
        <5> QED
          BY <2>3, <4>5, <4>8, <5>1, <5>2
      <4>11. ASSUME NEW c \in WaitsIn(N) \ {q}
             PROVE  /\ c.flow \in {"chat", "reset"} /\ c.ws \notin D2
                    /\ c.status = "ok" /\ c.op \in Reads \union {"try"} => c.val \in A2 \ D2
                    /\ c.status = "ok" /\ c.op = "start" => o2[c.val] \in A2 \ D2
        BY <1>7, <2>3, <3>1, <4>5, <4>8, <4>9 DEF SafeIn
      <4>12. q \in WaitsIn(N) => r.flow \in {"chat", "reset"} /\ r.ws \notin D2
        BY <2>1, <2>3, <3>1 DEF SafeIn
      <4> QED
        BY <2>2, <4>7, <4>10, <4>11, <4>12 DEF SafeIn
    <3> QED
      BY <1>1, <1>2, <1>17, <3>2, <3>3 DEF Answers
  <2> QED
    BY <2>4, <2>5, <2>6
<1> QED
    BY <1>8, <1>9, <1>10, <1>12, <1>13, <1>14, <1>15, <1>16, <1>17 DEF SpaceSteps

-----------------------------------------------------------------------------
(* The cookies of a living trial stay, but for a sign-in.                  *)
LEMMA TrialKept ==
    ASSUME Typed, Alone, Tokens, SpaceSteps, jar = storage.trial, jar \in alive
    PROVE  jar' = jar \/ SignIns' = SignIns - 1
<1>1. PICK N, p, j, A : N = net /\ p = page /\ j = jar /\ A = alive
    OBVIOUS
<1>2. \A q \in WaitsIn(N) :
          /\ q.ws = j
          /\ Made(q) => q.ws \notin A
          /\ q.op # "try"
          /\ q.op = "delete" /\ q.status = "ok" => q.ws \notin A
    BY <1>1 DEF Tokens, TokensAt
<1>3. SUFFICES jar' = j \/ SignIns' = SignIns - 1
    BY <1>1
<1>4. CASE Rests
    BY <1>1, <1>4 DEF Rests
<1>5. CASE Begins
    BY <1>1, <1>5 DEF Begins
<1>6. ASSUME NEW C, Asks(C)
      PROVE  jar' = j
    BY <1>1, <1>6 DEF Asks
<1>7. ASSUME NEW q, Loads(q)
      PROVE  jar' = j
    BY <1>1, <1>2, <1>7 DEF Loads, Receives, Made, Context, Reads
<1>8. ASSUME NEW q, NEW C, Knows(q, C)
      PROVE  jar' = j
    BY <1>1, <1>2, <1>8 DEF Knows, Receives, Made, Reads
<1>9. ASSUME NEW q, Founds(q) \/ Erases(q)
      PROVE  jar' = j
    BY <1>1, <1>2, <1>9 DEF Founds, Erases, Receives
<1>10. ASSUME NEW q, Converses(q)
       PROVE  jar' = j
    BY <1>1, <1>10 DEF Converses
<1>11. ASSUME NEW q, Finishes(q)
       PROVE  jar' = j
    BY <1>1, <1>2, <1>11 DEF Finishes, Receives, Made, Reads
<1>12. ASSUME NEW q, NEW r, Answers(q, r)
       PROVE  jar' = j
    BY <1>1, <1>12 DEF Answers
<1> QED
    BY <1>4, <1>5, <1>6, <1>7, <1>8, <1>9, <1>10, <1>11, <1>12 DEF SpaceSteps

(* The session on the page was started in the trial, or cannot be mixed up *)
(* with it any more: with one sign-in nobody comes back to a trial that    *)
(* lives after its cookies have been replaced.                             *)
Final(t, j, A, b) == t # j /\ (t \in A => b = 0)

SessionsAt(N, p, s, t, j, A, o, b) ==
    /\ s = p.session
    /\ \A q \in WaitsIn(N) :
          /\ q.flow = "reset" => p.session = 0
          /\ q.op = "start" /\ q.status = "ok" => o[q.val] = j
    /\ t = j \/ Final(t, j, A, b)
    /\ p.session # 0 => o[p.session] = t \/ o[p.session] \notin A \/ Final(t, j, A, b)

Sessions ==
    SessionsAt(net, page, storage.session, storage.trial, jar, alive, owner, SignIns)

(* The session on the page stays the trial's.                              *)
LEMMA SessionsStep ==
    ASSUME Typed, Alone, Tokens, Sessions, SpaceSteps, Budget["signin"] <= 1
    PROVE  Sessions'
<1>1. PICK N, p, s, t, j, A, k, o, b :
          /\ N = net /\ p = page /\ s = storage.session /\ t = storage.trial /\ j = jar
          /\ A = alive /\ k = issued /\ o = owner /\ b = SignIns
    OBVIOUS
<1>2. PICK N2, p2, s2, t2, j2, A2, k2, o2, b2 :
          /\ N2 = net' /\ p2 = page' /\ s2 = storage'.session /\ t2 = storage'.trial /\ j2 = jar'
          /\ A2 = alive' /\ k2 = issued' /\ o2 = owner' /\ b2 = SignIns'
    OBVIOUS
<1>3. AloneAt(N, p) /\ TokensAt(N, p, t, j, A, k) /\ SessionsAt(N, p, s, t, j, A, o, b)
    BY <1>1 DEF Alone, Tokens, Sessions
<1>4. SUFFICES SessionsAt(N2, p2, s2, t2, j2, A2, o2, b2)
    BY <1>2 DEF Sessions
<1>5. /\ k \in Nat /\ A \subseteq 1..k /\ j \in 0..k /\ o \in Seq(1..k) /\ Len(o) \in Nat
      /\ p.session \in 0..Len(o) /\ t \in 0..k
      /\ \A q \in N : /\ q.op # "start" => q.val \in 0..k
                      /\ q.op = "start" => q.val \in 0..Len(o)
                      /\ q.status = "ok" /\ q.op \in {"start", "me", "try"} => q.val # 0
    BY <1>1, <1>3, SpaceTypes DEF TokensAt
<1>6. b \in Nat /\ b <= 1
    BY <1>1, Kind, BudgetAssumption DEF Typed, BudgetOK, SignIns
<1>7. CASE Rests
    BY <1>1, <1>2, <1>3, <1>7 DEF Rests, SameScreen, SameSpace, Mirrored, SessionsAt
<1>8. CASE Begins
  <2>1. WaitsIn(N2) = {} /\ s2 = s /\ p2.session = s /\ t2 = t /\ o2 = o
    BY <1>1, <1>2, <1>8 DEF Begins, WaitsIn
  <2>2. CASE SameSpace /\ jar' = jar
    BY <1>1, <1>2, <1>3, <2>1, <2>2 DEF SameSpace, SessionsAt
  <2>3. CASE SignIns > 0 /\ SignIns' = SignIns - 1
    <3>1. /\ b2 = 0 /\ b # 0
          /\ \/ j2 \in A /\ A2 = A
             \/ j2 = k + 1 /\ A2 = A \union {k + 1}
      BY <1>1, <1>2, <1>6, <1>8, <2>3 DEF Begins, SameSpace
    <3>2. p.session # 0 => o[p.session] \in 1..k
      BY <1>5
    <3> QED
      BY <1>3, <1>5, <2>1, <3>1, <3>2 DEF SessionsAt, Final
  <2> QED
    BY <1>8, <2>2, <2>3 DEF Begins
<1>9. ASSUME NEW C, Asks(C)
      PROVE  SessionsAt(N2, p2, s2, t2, j2, A2, o2, b2)
  <2>1. /\ j2 = j /\ t2 = t /\ A2 = A /\ o2 = o /\ b2 = b /\ p2.session = p.session
        /\ WaitsIn(N2) = C
        /\ \A c \in C : c.status = "sent" /\ c.flow # "reset"
    BY <1>1, <1>2, <1>9 DEF Asks, SameSpace, SameScreen, WaitsIn
  <2>2. s2 = p2.session
    BY <1>1, <1>2, <1>3, <1>9 DEF Asks, Mirrored, SessionsAt
  <2> QED
    BY <1>3, <2>1, <2>2 DEF SessionsAt
<1>10. ASSUME NEW q, NEW C, Receives(q, C), \A c \in C : c.by = "page"
       PROVE  /\ q \in WaitsIn(N) /\ q \in N /\ A2 = A /\ o2 = o /\ b2 = b /\ s2 = p2.session
              /\ WaitsIn(N2) = (WaitsIn(N) \ {q}) \union C
  <2>1. /\ q \in WaitsIn(N) /\ N2 = (N \ {q}) \union C /\ A2 = A /\ o2 = o /\ b2 = b
        /\ s2 = p2.session
    BY <1>1, <1>2, <1>3, <1>10 DEF Receives, SameSpace, Mirrored, SessionsAt
  <2> QED
    BY <1>10, <2>1 DEF WaitsIn
<1>11. ASSUME NEW q, Loads(q) \/ Finishes(q)
       PROVE  SessionsAt(N2, p2, s2, t2, j2, A2, o2, b2)
  <2>0. PICK L : Behind(q, L) /\ Receives(q, L)
    BY <1>11 DEF Loads, Finishes, Behind
  <2>1. /\ q \in WaitsIn(N) /\ WaitsIn(N2) = WaitsIn(N) \ {q} /\ A2 = A /\ o2 = o /\ b2 = b
        /\ s2 = p2.session
    BY <1>1, <1>2, <1>3, <2>0
       DEF Receives, Behind, SameSpace, Mirrored, SessionsAt, WaitsIn
  <2>2. /\ p2.session = p.session /\ t2 = t
        /\ j2 = j \/ (j2 = q.val /\ Made(q) /\ q.op \in Context \union {"export"})
    BY <1>1, <1>2, <1>11 DEF Loads, Finishes, SameScreen, Made, Context, Reads
  <2>3. CASE j2 = j
    BY <1>3, <2>1, <2>2, <2>3 DEF SessionsAt
  <2>4. CASE j2 = q.val /\ Made(q) /\ q.op \in Context \union {"export"}
    <3>1. t # j2 /\ q.ws \notin A
      BY <1>3, <2>1, <2>4 DEF TokensAt
    <3>2. \A c \in WaitsIn(N) \ {q} : c.op # "start"
      BY <1>3, <2>1, <2>4 DEF AloneAt, Context
    <3>3. t \in A => b = 0
      BY <1>3, <2>1, <3>1 DEF SessionsAt, TokensAt, Final
    <3> QED
      BY <1>3, <2>1, <2>2, <3>1, <3>2, <3>3 DEF SessionsAt, Final
  <2> QED
    BY <2>2, <2>3, <2>4
<1>12. ASSUME NEW q, NEW C, Knows(q, C)
       PROVE  SessionsAt(N2, p2, s2, t2, j2, A2, o2, b2)
  <2>1. \A c \in C : c.by = "page" /\ c.status = "sent" /\ c.flow = q.flow
    BY <1>12 DEF Knows, Call, Refresh
  <2>2. /\ q \in WaitsIn(N) /\ WaitsIn(N2) = (WaitsIn(N) \ {q}) \union C
        /\ A2 = A /\ o2 = o /\ b2 = b /\ s2 = p2.session
    BY <1>10, <1>12, <2>1 DEF Knows
  <2>3. /\ p2.session = p.session /\ t2 = t /\ q.op = "me"
        /\ j2 = j \/ (j2 = q.val /\ Made(q))
    BY <1>1, <1>2, <1>12 DEF Knows, Made, Reads
  <2>4. WaitsIn(N) \subseteq {q}
    BY <1>3, <2>2, <2>3 DEF AloneAt, Context
  <2>5. CASE j2 = j
    BY <1>3, <2>1, <2>2, <2>3, <2>5 DEF SessionsAt
  <2>6. CASE j2 = q.val /\ Made(q)
    <3>1. t # j2 /\ q.ws \notin A /\ q.ws = j
      BY <1>3, <2>2, <2>3, <2>6 DEF TokensAt, Context
    <3>2. t \in A => b = 0
      BY <1>3, <3>1 DEF SessionsAt, Final
    <3> QED
      BY <1>3, <2>1, <2>2, <2>3, <2>4, <3>1, <3>2 DEF SessionsAt, Final
  <2> QED
    BY <2>3, <2>5, <2>6
<1>13. ASSUME NEW q, Founds(q)
       PROVE  SessionsAt(N2, p2, s2, t2, j2, A2, o2, b2)
  <2>1. PICK C : C = Refresh(q.flow, "page", q.val)
    OBVIOUS
  <2>2. \A c \in C : c.by = "page" /\ c.status = "sent" /\ c.flow = q.flow
    BY <2>1 DEF Call, Refresh
  <2>3. /\ q \in WaitsIn(N) /\ WaitsIn(N2) = (WaitsIn(N) \ {q}) \union C
        /\ A2 = A /\ o2 = o /\ b2 = b /\ s2 = p2.session
    BY <1>10, <1>13, <2>1, <2>2 DEF Founds
  <2>4. /\ q.op = "try" /\ j2 = q.val /\ t2 = q.val
        /\ p2.session = IF q.flow = "boot" THEN 0 ELSE p.session
    BY <1>1, <1>2, <1>13 DEF Founds
  <2>5. WaitsIn(N) = {q} /\ p2.session = 0
    BY <1>3, <2>3, <2>4 DEF AloneAt, TokensAt, FlowOf, Context, SessionsAt
  <2> QED
    BY <2>2, <2>3, <2>4, <2>5 DEF SessionsAt
<1>14. ASSUME NEW q, Converses(q)
       PROVE  SessionsAt(N2, p2, s2, t2, j2, A2, o2, b2)
  <2>1. PICK C : C = Refresh("chat", "page", j)
    OBVIOUS
  <2>2. \A c \in C : c.by = "page" /\ c.status = "sent" /\ c.flow = "chat"
    BY <2>1 DEF Call, Refresh
  <2>3. /\ q \in WaitsIn(N) /\ WaitsIn(N2) = (WaitsIn(N) \ {q}) \union C
        /\ A2 = A /\ o2 = o /\ b2 = b /\ s2 = p2.session
    BY <1>1, <1>10, <1>14, <2>1, <2>2 DEF Converses
  <2>4. /\ q.op \in {"start", "send", "end"} /\ q.status = "ok" /\ j2 = j /\ t2 = t
        /\ p2.session = (IF q.op = "start" THEN q.val ELSE IF q.op = "end" THEN 0 ELSE p.session)
    BY <1>1, <1>2, <1>14 DEF Converses
  <2>5. WaitsIn(N) = {q}
    BY <1>3, <2>3, <2>4 DEF AloneAt, Context
  <2>6. q.op = "start" => o[q.val] = j
    BY <1>3, <2>4, <2>5 DEF SessionsAt
  <2> QED
    BY <1>3, <2>2, <2>3, <2>4, <2>5, <2>6 DEF SessionsAt, Final
<1>15. ASSUME NEW q, Erases(q)
       PROVE  SessionsAt(N2, p2, s2, t2, j2, A2, o2, b2)
  <2>1. PICK c : c = Call("me", "reset", "page", 0, 0)
    OBVIOUS
  <2>2. c.by = "page" /\ c.status = "sent"
    BY <2>1 DEF Call
  <2>3. /\ q \in WaitsIn(N) /\ WaitsIn(N2) = (WaitsIn(N) \ {q}) \union {c} /\ s2 = p2.session
    BY <1>10, <1>15, <2>1, <2>2 DEF Erases
  <2>4. p2.session = 0 /\ j2 = 0 /\ t2 = 0 /\ q.op = "delete"
    BY <1>1, <1>2, <1>15 DEF Erases
  <2>5. WaitsIn(N) = {q}
    BY <1>3, <2>3, <2>4 DEF AloneAt, Context
  <2> QED
    BY <2>2, <2>3, <2>4, <2>5 DEF SessionsAt
<1>16. ASSUME NEW q, NEW r, Answers(q, r)
       PROVE  SessionsAt(N2, p2, s2, t2, j2, A2, o2, b2)
  <2>1. /\ q \in N /\ r.op = q.op /\ r.flow = q.flow /\ r.by = q.by /\ r.ws = q.ws
        /\ N2 = (N \ {q}) \union IF q.by = "gone" THEN {} ELSE {r}
        /\ p2 = p /\ j2 = j /\ t2 = t /\ s2 = s /\ b2 = b
    BY <1>1, <1>2, <1>16 DEF Answers
  <2>2. WaitsIn(N2) = IF q \in WaitsIn(N) THEN (WaitsIn(N) \ {q}) \union {r} ELSE WaitsIn(N)
    BY <1>3, <2>1 DEF WaitsIn, AloneAt
  <2>3. CASE r.status = "refused" /\ A2 = A /\ o2 = o
    BY <1>3, <2>1, <2>2, <2>3 DEF SessionsAt
  <2>4. CASE r.status # "refused"
    <3>1. /\ r.status = "ok" /\ r.val = Result(q)
          /\ k2 = IF q.op = "try" \/ q.ws \notin A THEN k + 1 ELSE k
          /\ A2 = IF q.op = "try" \/ q.ws \notin A THEN A \union {k + 1}
                  ELSE IF q.op = "delete" THEN A \ {q.ws} ELSE A
          /\ o2 = IF q.op = "start" THEN Append(o, q.ws) ELSE o
      BY <1>1, <1>2, <1>16, <2>4 DEF Answers, Creates, HasWorkspace
    <3>2. \A x \in 0..k : x \notin A => x \notin A2
      BY <1>5, <3>1
    <3>3. \A x \in 1..Len(o) : o2[x] = o[x] /\ o[x] \in 1..k
      BY <1>5, <3>1
    <3>4. q \in WaitsIn(N) /\ q.op = "start" => o2[r.val] = j
      <4>1. CASE q \in WaitsIn(N) /\ q.op = "start"
        <5>1. r.val = Len(o) + 1
          BY <1>1, <3>1, <4>1, ResultIs
        <5>2. o2 = Append(o, q.ws) /\ q.ws = j
          BY <1>3, <3>1, <4>1 DEF TokensAt, Context
        <5> QED
          BY <1>5, <5>1, <5>2
      <4> QED
        BY <4>1
    <3>5. \A c \in WaitsIn(N) : c \in N
      BY DEF WaitsIn
    <3>6. ASSUME NEW c \in WaitsIn(N) \ {q}
          PROVE  /\ c.flow = "reset" => p.session = 0
                 /\ c.op = "start" /\ c.status = "ok" => o2[c.val] = j
      BY <1>3, <1>5, <3>3, <3>5 DEF SessionsAt
    <3>7. Final(t, j, A, b) => Final(t, j, A2, b)
      BY <1>5, <3>2 DEF Final
    <3>8. p.session # 0 => o2[p.session] = o[p.session] /\ o[p.session] \in 1..k
      BY <1>5, <3>3
    <3>9. p.session # 0 => o2[p.session] = t \/ o2[p.session] \notin A2 \/ Final(t, j, A2, b)
      BY <1>3, <3>2, <3>7, <3>8 DEF SessionsAt
    <3>10. q \in WaitsIn(N) /\ q.flow = "reset" => p.session = 0
      BY <1>3 DEF SessionsAt
    <3> QED
      BY <1>3, <2>1, <2>2, <3>4, <3>6, <3>7, <3>9, <3>10 DEF SessionsAt
  <2> QED
    BY <1>1, <1>2, <1>16, <2>3, <2>4 DEF Answers
<1> QED
    BY <1>7, <1>8, <1>9, <1>11, <1>12, <1>13, <1>14, <1>15, <1>16 DEF SpaceSteps

-----------------------------------------------------------------------------
(* Every step is of one of these kinds.                                    *)

(* What a page says of workspaces.                                         *)
SameSpot(r, p) ==
    /\ r.api = p.api /\ r.csrf = p.csrf /\ r.session = p.session
    /\ r.profile = p.profile /\ r.memories = p.memories

(* Pages that differ in nothing of the workspace.                           *)
SameLook(r, p) == SameSpot(r, p) /\ r.deleted = p.deleted

(* Edits of the page that do not show.                                     *)
LEMMA PlainEdits ==
    ASSUME NEW p \in Page
    PROVE  /\ SameLook(p, p)
           /\ SameLook([p EXCEPT !.recording = FALSE], p)
           /\ SameLook([p EXCEPT !.receipt = 0], p)
           /\ SameLook([p EXCEPT !.error = TRUE], p)
           /\ SameLook([p EXCEPT !.error = FALSE, !.recording = TRUE], p)
           /\ SameLook([p EXCEPT !.action = "starting", !.error = FALSE], p)
           /\ SameLook([p EXCEPT !.action = "ending", !.state = "ending", !.error = FALSE], p)
           /\ SameLook([p EXCEPT !.action = "none"], p)
           /\ SameLook([p EXCEPT !.working = "none"], p)
           /\ SameLook([p EXCEPT !.error = TRUE, !.state = "error"], p)
           /\ SameLook([p EXCEPT !.error = TRUE, !.state = "error", !.action = "none"], p)
           /\ SameLook([p EXCEPT !.error = TRUE, !.state = "active", !.action = "none"], p)
BY DEF Page, SameLook, SameSpot

(* Those with a value.                                                     *)
LEMMA TextEdits ==
    ASSUME NEW p \in Page, NEW v
    PROVE  /\ SameLook([p EXCEPT !.input = v], p)
           /\ SameLook([p EXCEPT !.input = v, !.recording = FALSE], p)
           /\ SameLook([Sending(p) EXCEPT !.messages = v], p)
           /\ SameSpot([p EXCEPT !.working = v, !.deleted = FALSE], p)
           /\ [p EXCEPT !.working = v, !.deleted = FALSE].deleted = FALSE
BY DEF Page, SameLook, SameSpot, Sending

(* What the storage mirrors.                                               *)
LEMMA ShowMirrors ==
    ASSUME Typed, NEW p, Show(p)
    PROVE  page' = p /\ Mirrored /\ storage'.trial = storage.trial
<1>1. storage \in [session : Nat, messages : Seq(Entry), trial : Nat]
    BY DEF Typed, StorageOK
<1>2. page' = p /\ storage' = Mirror(storage, p)
    BY DEF Show
<1>3. /\ storage'.trial = storage.trial
      /\ storage'.session = IF p.session # page.session THEN p.session ELSE storage.session
    BY <1>1, <1>2 DEF Mirror
<1> QED
    BY <1>2, <1>3 DEF Mirrored

(* Signing in is counted apart.                                            *)
LEMMA Unspent ==
    ASSUME Typed, \/ UNCHANGED budget
                  \/ Spend("fault") \/ Spend("start") \/ Spend("say") \/ Spend("send")
                  \/ Spend("account") \/ Spend("reload")
    PROVE  SignIns' = SignIns
<1>1. budget \in [Kinds -> Nat]
    BY DEF Typed, BudgetOK
<1> QED
    BY <1>1, Kind DEF Spend, SignIns

(* Buttons, typing and dictation.                                          *)
LEMMA RestsOf ==
    ASSUME Typed, NEW p, Show(p), SameLook(p, page), UNCHANGED <<jar, net, service>>,
           SignIns' = SignIns
    PROVE  Rests
BY ShowMirrors DEF Rests, SameLook, SameSpot, SameSpace, SameScreen, service

LEMMA RestStep ==
    ASSUME Typed, \/ Type \/ Listen \/ ToggleRecording \/ Dictate \/ StopRecording
                  \/ CloseReceipt \/ UNCHANGED vars
    PROVE  SpaceSteps
<1>1. PICK p, v : p = page /\ v = Said
    OBVIOUS
<1>2. p \in Page
    BY <1>1, HereNow
<1>3. CASE UNCHANGED vars
  <2>1. Rests
    BY <1>3 DEF vars, service, Rests, SameSpace, SameScreen, Mirrored, SignIns
  <2> QED
    BY <2>1 DEF SpaceSteps
<1>4. CASE Type \/ Listen \/ ToggleRecording \/ Dictate \/ StopRecording \/ CloseReceipt
  <2>1. PICK r : Show(r) /\ SameLook(r, p)
    <3>1. CASE Type \/ Dictate
      <4>1. Show([p EXCEPT !.input = v]) \/ Show([p EXCEPT !.input = v, !.recording = FALSE])
        BY <1>1, <3>1 DEF Type, Dictate
      <4> QED
        BY <1>2, <4>1, TextEdits
    <3>2. CASE Listen \/ ToggleRecording \/ StopRecording \/ CloseReceipt
      <4>1. \/ Show([p EXCEPT !.error = FALSE, !.recording = TRUE])
            \/ Show([p EXCEPT !.error = TRUE]) \/ Show([p EXCEPT !.recording = FALSE])
            \/ Show([p EXCEPT !.receipt = 0])
        BY <1>1, <3>2 DEF Listen, ToggleRecording, StopRecording, CloseReceipt
      <4> QED
        BY <1>2, <4>1, PlainEdits
    <3> QED
      BY <1>4, <3>1, <3>2
  <2>2. UNCHANGED <<jar, net, service>> /\ (Spend("say") \/ UNCHANGED budget)
    BY <1>4 DEF Type, Listen, ToggleRecording, Dictate, StopRecording, CloseReceipt
  <2>3. Rests
    BY <1>1, <2>1, <2>2, Unspent, RestsOf
  <2> QED
    BY <2>3 DEF SpaceSteps
<1> QED
    BY <1>3, <1>4

(* What the user asks for, who waits until the page has done the last      *)
(* thing.                                                                  *)
LEMMA AsksOf ==
    ASSUME Typed, Alone, Calm, MayAct, NEW p, Show(p), SameSpot(p, page), NEW c,
           net' = net \union {c}, UNCHANGED <<jar, service>>, SignIns' = SignIns,
           p.deleted \in {page.deleted, FALSE}, c.by = "page", c.status = "sent", c.ws = jar,
           FlowOf(c), c.op \in Writes => c.tok = Token,
           c.op \notin {"try", "delete", "link"}, c.flow # "reset",
           c.flow # "chat" => ~p.deleted
    PROVE  SpaceSteps
<1>1. page' = p /\ Mirrored /\ storage'.trial = storage.trial
    BY ShowMirrors
<1>2. page.api /\ WaitsIn(net) = {}
    BY DEF MayAct, Calm, Waiting, WaitsIn
<1>3. /\ page'.api /\ page'.deleted \in {page.deleted, FALSE} /\ SameScreen /\ SameSpace
      /\ jar' = jar
    BY <1>1, <1>2 DEF SameSpot, SameScreen, SameSpace, service
<1>4. Asks({c})
    BY <1>1, <1>2, <1>3 DEF Asks
<1> QED
    BY <1>4 DEF SpaceSteps

LEMMA TalkStep ==
    ASSUME Typed, Alone, Calm, StartSession \/ SendMessage \/ RetryMessage \/ EndSession
    PROVE  SpaceSteps
<1>1. PICK p, ws, tok, s : p = page /\ ws = jar /\ tok = Token /\ s = page.session
    OBVIOUS
<1>2. p \in Page
    BY <1>1, HereNow
<1>3. PICK r, c :
         /\ Show(r) /\ SameLook(r, p) /\ net' = net \union {c}
         /\ c.by = "page" /\ c.status = "sent" /\ c.ws = ws /\ c.tok = tok /\ c.flow = "chat"
         /\ c.op \in {"start", "send", "end"}
  <2>1. CASE StartSession
    <3>1. PICK c : c = Call("start", "chat", "page", ws, tok)
      OBVIOUS
    <3>2. Show([p EXCEPT !.action = "starting", !.error = FALSE]) /\ net' = net \union {c}
      BY <1>1, <2>1, <3>1 DEF StartSession
    <3>3. /\ c.by = "page" /\ c.status = "sent" /\ c.ws = ws /\ c.tok = tok
          /\ c.flow = "chat" /\ c.op = "start"
      BY <3>1 DEF Call
    <3> QED
      BY <1>2, <3>2, <3>3, PlainEdits
  <2>2. ASSUME NEW ms, NEW id, NEW text, Show([Sending(p) EXCEPT !.messages = ms]),
               Post(id, text)
        PROVE  \E r, c :
                 /\ Show(r) /\ SameLook(r, p) /\ net' = net \union {c}
                 /\ c.by = "page" /\ c.status = "sent" /\ c.ws = ws /\ c.tok = tok
                 /\ c.flow = "chat" /\ c.op \in {"start", "send", "end"}
    <3>1. PICK c : c = [Call("send", "chat", "page", ws, tok) EXCEPT
                           !.session = s, !.id = id, !.text = text]
      OBVIOUS
    <3>2. net' = net \union {c}
      BY <1>1, <2>2, <3>1 DEF Post
    <3>3. /\ c.by = "page" /\ c.status = "sent" /\ c.ws = ws /\ c.tok = tok
          /\ c.flow = "chat" /\ c.op = "send"
      BY <3>1 DEF Call
    <3> QED
      BY <1>2, <2>2, <3>2, <3>3, TextEdits
  <2>3. Sending(p).messages = p.messages /\ Sending(page) = Sending(p)
    BY <1>1, <1>2 DEF Page, Sending
  <2>4. CASE SendMessage
    <3>1. PICK id, text : id = <<page.session, Len(page.messages) + 1>> /\ text = page.input
      OBVIOUS
    <3>2. /\ Show([Sending(page) EXCEPT !.messages = Append(@,
                   [by |-> "user", id |-> id, text |-> text, failed |-> FALSE])])
          /\ Post(id, text)
      BY <2>4, <3>1 DEF SendMessage
    <3> QED
      BY <2>2, <2>3, <3>2
  <2>5. CASE RetryMessage
    <3>1. PICK id, text : id = page.retry.id /\ text = page.retry.text
      OBVIOUS
    <3>2. Show([Sending(page) EXCEPT !.messages = Mark(@, id, FALSE)]) /\ Post(id, text)
      BY <2>5, <3>1 DEF RetryMessage
    <3> QED
      BY <2>2, <2>3, <3>2
  <2>6. CASE EndSession
    <3>1. PICK c : c = [Call("end", "chat", "page", ws, tok) EXCEPT !.session = s]
      OBVIOUS
    <3>2. /\ Show([p EXCEPT !.action = "ending", !.state = "ending", !.error = FALSE])
          /\ net' = net \union {c}
      BY <1>1, <2>6, <3>1 DEF EndSession
    <3>3. /\ c.by = "page" /\ c.status = "sent" /\ c.ws = ws /\ c.tok = tok
          /\ c.flow = "chat" /\ c.op = "end"
      BY <3>1 DEF Call
    <3> QED
      BY <1>2, <3>2, <3>3, PlainEdits
  <2> QED
    BY <2>1, <2>4, <2>5, <2>6
<1>4. /\ MayAct /\ UNCHANGED <<jar, service>>
      /\ Spend("start") \/ Spend("send") \/ UNCHANGED budget
    BY DEF StartSession, SendMessage, RetryMessage, EndSession
<1>5. SignIns' = SignIns
    BY <1>4, Unspent
<1>6. FlowOf(c) /\ c.op \notin {"try", "delete", "link"} /\ c.flow # "reset"
    BY <1>3 DEF FlowOf, Context
<1> QED
    BY <1>1, <1>3, <1>4, <1>5, <1>6, AsksOf DEF SameLook

LEMMA AccountAsks ==
    ASSUME Typed, Alone, Calm, RequestLink \/ ExportWorkspace \/ DeleteWorkspace
    PROVE  SpaceSteps
<1>1. PICK p, ws : p = page /\ ws = jar
    OBVIOUS
<1>2. p \in Page
    BY <1>1, HereNow
<1>3. PICK kind, op, flow :
         /\ Account(kind, op, flow)
         /\ \/ op = "me" /\ flow \in {"link", "delete"}
            \/ op = "export" /\ flow = "export"
    BY DEF RequestLink, ExportWorkspace, DeleteWorkspace
<1>4. PICK r, c : /\ r = [p EXCEPT !.working = kind, !.deleted = FALSE]
                  /\ c = Call(op, flow, "page", ws, 0)
    OBVIOUS
<1>5. /\ Show(r) /\ net' = net \union {c} /\ Spend("account") /\ UNCHANGED <<jar, service>>
      /\ MayAct
    BY <1>1, <1>3, <1>4 DEF Account
<1>6. SameSpot(r, page) /\ r.deleted = FALSE
    BY <1>1, <1>2, <1>4, TextEdits
<1>7. c.by = "page" /\ c.status = "sent" /\ c.ws = jar /\ c.op = op /\ c.flow = flow
    BY <1>1, <1>4 DEF Call
<1>8. /\ FlowOf(c) /\ c.op \notin Writes /\ c.op \notin {"try", "delete", "link"}
      /\ c.flow # "reset"
    BY <1>3, <1>7 DEF FlowOf, Context, Writes
<1>9. SignIns' = SignIns
    BY <1>5, Unspent
<1> QED
    BY <1>5, <1>6, <1>7, <1>8, <1>9, AsksOf

LEMMA ConfigAsks ==
    ASSUME Typed, Alone, ConfigLoaded
    PROVE  SpaceSteps
<1>1. PICK p, ws : p = page /\ ws = jar
    OBVIOUS
<1>2. PICK r, C : /\ r = [p EXCEPT !.api = TRUE]
                  /\ C = IF Mode = "try" THEN {Call("me", "boot", "page", ws, 0)}
                         ELSE Refresh("boot", "page", ws)
    OBVIOUS
<1>3. /\ ~page.api /\ page' = r /\ net' = net \union C /\ storage' = storage
      /\ UNCHANGED <<jar, service>> /\ UNCHANGED budget
    BY <1>1, <1>2 DEF ConfigLoaded
<1>4. p \in Page
    BY <1>1, HereNow
<1>5. /\ r.api /\ r.csrf = p.csrf /\ r.session = p.session /\ r.profile = p.profile
      /\ r.memories = p.memories /\ r.deleted = p.deleted
    BY <1>2, <1>4 DEF Page
<1>6. WaitsIn(net) = {} /\ ~page.deleted
    BY <1>3 DEF Alone, AloneAt
<1>7. /\ \A c \in C : /\ c.by = "page" /\ c.status = "sent" /\ c.ws = ws /\ FlowOf(c)
                      /\ c.flow = "boot" /\ c.op \in {"me", "profile", "memories"}
      /\ \A c, d \in C : c.flow = d.flow /\ (c = d \/ c.op \in Context)
    BY <1>2 DEF Call, Refresh, FlowOf, Context
<1>8. SameSpace /\ SameScreen /\ Mirrored
    BY <1>1, <1>3, <1>5, Unspent DEF SameSpace, SameScreen, Mirrored, service
<1>9. \A c \in C : c.op \notin Writes /\ c.op \notin {"try", "delete", "link"}
    BY <1>7 DEF Writes
<1>10. Asks(C)
    BY <1>1, <1>3, <1>5, <1>6, <1>7, <1>8, <1>9 DEF Asks
<1> QED
    BY <1>10 DEF SpaceSteps

(* The page has an answer.                                                 *)
LEMMA ArrivesAt ==
    ASSUME Typed, Alone, NEW q \in net, NEW C, Take(q, C)
    PROVE  /\ q \in WaitsIn(net) /\ q.by = "page" /\ q.status = "ok" /\ SameSpace
           /\ net' = (net \ {q}) \union C
           /\ jar' = IF q.op = "delete" THEN 0
                     ELSE IF q.op = "try" \/ (q.op \in Reads /\ q.val # q.ws) THEN q.val
                     ELSE jar
<1>1. /\ q.status = "ok" /\ jar' = Cookies(q) /\ net' = (net \ {q}) \union C
      /\ UNCHANGED service /\ UNCHANGED budget
    BY DEF Take
<1>2. q.by = "page" /\ q \in WaitsIn(net)
    BY <1>1 DEF Alone, AloneAt, WaitsIn
<1>3. SameSpace
    BY <1>1, Unspent DEF SameSpace, service
<1>4. Cookies(q) = IF q.op = "delete" THEN 0
                   ELSE IF q.op = "try" \/ (q.op \in Reads /\ q.val # q.ws) THEN q.val
                   ELSE jar
  <2>1. CASE q.op = "delete"
    BY <2>1 DEF Cookies, Reads
  <2>2. CASE q.op # "delete" /\ (q.op = "try" \/ (q.op \in Reads /\ q.val # q.ws))
    BY <2>2, Zenon DEF Cookies
  <2>3. CASE q.op # "delete" /\ ~(q.op = "try" \/ (q.op \in Reads /\ q.val # q.ws))
    BY <2>3, Zenon DEF Cookies
  <2> QED
    BY <2>1, <2>2, <2>3
<1> QED
    BY <1>1, <1>2, <1>3, <1>4

(* The end of a refresh, and of the new life after a deletion.             *)
LEMMA SettledSpot ==
    ASSUME Typed, Alone, NEW p \in Page, NEW q \in WaitsIn(net)
    PROVE  /\ SameSpot(Settled(p, q), p)
           /\ Settled(p, q).deleted =>
                 \/ p.deleted
                 \/ q.flow = "reset" /\ \A o \in WaitsIn(net) \ {q} : o.flow # "reset"
<1>1. CASE OtherPending(q) \/ q.flow \notin {"chat", "reset"}
  <2>1. Settled(p, q) = p
    BY <1>1 DEF Settled
  <2> QED
    BY <2>1 DEF SameSpot
<1>2. CASE ~OtherPending(q) /\ q.flow = "chat"
  <2>1. Settled(p, q) = [p EXCEPT !.action = "none"]
    BY <1>2 DEF Settled
  <2> QED
    BY <2>1, PlainEdits DEF SameLook
<1>3. CASE ~OtherPending(q) /\ q.flow = "reset"
  <2>1. Settled(p, q) = [p EXCEPT !.working = "none", !.deleted = TRUE]
    BY <1>3 DEF Settled
  <2>2. SameSpot([p EXCEPT !.working = "none", !.deleted = TRUE], p)
    BY DEF Page, SameSpot
  <2>3. \A o \in WaitsIn(net) \ {q} : o.flow # "reset"
    BY <1>3 DEF OtherPending, WaitsIn
  <2> QED
    BY <1>3, <2>1, <2>2, <2>3
<1> QED
    BY <1>1, <1>2, <1>3

LEMMA ContextArrives ==
    ASSUME Typed, Alone, NEW q \in net, ContextLoaded(q)
    PROVE  SpaceSteps
<1>1. PICK p, v : p = page /\ v = q.val
    OBVIOUS
<1>2. q.op \in {"profile", "memories"} /\ Take(q, {})
    BY DEF ContextLoaded
<1>3. /\ q \in WaitsIn(net) /\ q.by = "page" /\ q.status = "ok" /\ SameSpace
      /\ net' = (net \ {q}) \union {} /\ jar' = IF q.val # q.ws THEN q.val ELSE jar
    BY <1>2, ArrivesAt DEF Reads
<1>4. p \in Page /\ q \in Request
    BY <1>1, HereNow
<1>5. PICK r : r = IF q.op = "profile" THEN [p EXCEPT !.profile = v] ELSE [p EXCEPT !.memories = v]
    OBVIOUS
<1>6. /\ r \in Page /\ r.csrf = p.csrf /\ r.session = p.session /\ r.api = p.api
      /\ r.deleted = p.deleted /\ r.profile \in {p.profile, v} /\ r.memories \in {p.memories, v}
  <2>1. v \in Nat
    BY <1>1, <1>4 DEF Request
  <2> QED
    BY <1>4, <1>5, <2>1 DEF Page
<1>7. Show(Settled(r, q))
    BY <1>1, <1>2, <1>3, <1>5 DEF ContextLoaded
<1>8. page' = Settled(r, q) /\ Mirrored /\ storage'.trial = storage.trial
    BY <1>7, ShowMirrors
<1>9. /\ SameSpot(page', r)
      /\ page'.deleted => \/ r.deleted
                          \/ q.flow = "reset" /\ \A o \in WaitsIn(net) \ {q} : o.flow # "reset"
    BY <1>3, <1>6, <1>8, SettledSpot
<1>10. MayBeDone(q)
    BY <1>1, <1>6, <1>9 DEF MayBeDone
<1>11. Loads(q)
    BY <1>1, <1>2, <1>3, <1>6, <1>8, <1>9, <1>10 DEF Loads, Receives, SameSpot, Context
<1> QED
    BY <1>11 DEF SpaceSteps

LEMMA WorkspaceArrives ==
    ASSUME Typed, Alone, NEW q \in net, WorkspaceKnown(q)
    PROVE  SpaceSteps
<1>1. PICK p, v : p = page /\ v = q.val
    OBVIOUS
<1>2. PICK C :
         /\ C = IF q.flow \in {"link", "delete"}
                THEN {Call(q.flow, q.flow, q.by, Cookies(q), q.val)}
                ELSE IF Mode = "try" /\ (q.flow = "boot" => NeedsTrial(q))
                THEN {Call("try", q.flow, q.by, Cookies(q), q.val)}
                ELSE IF q.flow = "boot" /\ q.by = "left" THEN {}
                ELSE Refresh(q.flow, q.by, Cookies(q))
         /\ Take(q, C) /\ q.op = "me"
    BY DEF WorkspaceKnown
<1>3. /\ q \in WaitsIn(net) /\ q.by = "page" /\ q.status = "ok" /\ SameSpace
      /\ net' = (net \ {q}) \union C /\ jar' = IF q.val # q.ws THEN q.val ELSE jar
    BY <1>2, ArrivesAt DEF Reads
<1>4. jar' = Cookies(q)
    BY <1>2 DEF Take
<1>5. p \in Page
    BY <1>1, HereNow
<1>6. PICK r : r = [p EXCEPT !.csrf = v]
    OBVIOUS
<1>7. /\ r.csrf = v /\ r.session = p.session /\ r.api = p.api /\ r.deleted = p.deleted
      /\ r.profile = p.profile /\ r.memories = p.memories
    BY <1>5, <1>6 DEF Page
<1>8. Show(r)
    BY <1>1, <1>3, <1>6 DEF WorkspaceKnown
<1>9. page' = r /\ Mirrored /\ storage'.trial = storage.trial
    BY <1>8, ShowMirrors
<1>10. PICK ws, flow : ws = jar' /\ flow = q.flow
    OBVIOUS
<1>11. \/ flow \in {"link", "delete"} /\ C = {Call(flow, flow, "page", ws, v)}
       \/ /\ flow \notin {"link", "delete"}
          /\ flow = "boot" => storage.trial # v
          /\ C = {Call("try", flow, "page", ws, v)}
       \/ flow \notin {"link", "delete"} /\ C = Refresh(flow, "page", ws)
  BY <1>1, <1>2, <1>3, <1>4, <1>10 DEF NeedsTrial
<1>12. Knows(q, C)
    BY <1>1, <1>2, <1>3, <1>7, <1>9, <1>10, <1>11 DEF Knows, Receives
<1> QED
    BY <1>12 DEF SpaceSteps

LEMMA TryArrives ==
    ASSUME Typed, Alone, NEW q \in net, TryCreated(q)
    PROVE  SpaceSteps
<1>1. PICK p, v, s : p = page /\ v = q.val /\ s = storage
    OBVIOUS
<1>2. PICK C : /\ C = IF q.flow = "boot" /\ q.by = "left" THEN {} ELSE Refresh(q.flow, q.by, v)
               /\ Take(q, C) /\ q.op = "try"
    BY <1>1 DEF TryCreated
<1>3. /\ q \in WaitsIn(net) /\ q.by = "page" /\ q.status = "ok" /\ SameSpace
      /\ net' = (net \ {q}) \union C /\ jar' = q.val
    BY <1>2, ArrivesAt
<1>4. C = Refresh(q.flow, "page", q.val)
    BY <1>1, <1>2, <1>3
<1>5. p \in Page /\ s \in [session : Nat, messages : Seq(Entry), trial : Nat]
    BY <1>1, HereNow DEF StorageOK
<1>6. CASE q.flow = "boot"
  <2>1. /\ page' = [Cleared(p) EXCEPT !.csrf = v]
        /\ storage' = [session |-> 0, messages |-> <<>>, trial |-> v]
    BY <1>1, <1>3, <1>6 DEF TryCreated, CacheToken
  <2>2. /\ page'.csrf = v /\ page'.session = 0 /\ page'.api = p.api /\ page'.deleted = p.deleted
        /\ page'.profile = p.profile /\ page'.memories = p.memories
    BY <1>5, <2>1 DEF Page, Cleared
  <2>3. storage'.session = 0 /\ storage'.trial = v
    BY <2>1
  <2>4. Founds(q)
    BY <1>1, <1>2, <1>3, <1>4, <1>6, <2>2, <2>3 DEF Founds, Receives, Mirrored
  <2> QED
    BY <2>4 DEF SpaceSteps
<1>7. CASE q.flow # "boot"
  <2>1. page' = [p EXCEPT !.csrf = v] /\ storage' = [s EXCEPT !.trial = v]
    BY <1>1, <1>3, <1>7 DEF TryCreated, CacheToken
  <2>2. /\ page'.csrf = v /\ page'.session = p.session /\ page'.api = p.api
        /\ page'.deleted = p.deleted
        /\ page'.profile = p.profile /\ page'.memories = p.memories
    BY <1>5, <2>1 DEF Page
  <2>3. storage'.session = s.session /\ storage'.trial = v
    BY <1>5, <2>1
  <2>4. Founds(q)
    BY <1>1, <1>2, <1>3, <1>4, <1>7, <2>2, <2>3 DEF Founds, Receives, Mirrored
  <2> QED
    BY <2>4 DEF SpaceSteps
<1> QED
    BY <1>6, <1>7

LEMMA TalkArrives ==
    ASSUME Typed, Alone, NEW q \in net, Started(q) \/ Replied(q) \/ Ended(q)
    PROVE  SpaceSteps
<1>1. PICK p, v, id, s : p = page /\ v = q.val /\ id = q.id /\ s = q.session
    OBVIOUS
<1>2. /\ q.op \in {"start", "send", "end"} /\ Take(q, Refresh("chat", "page", jar))
      /\ Started(q) => q.op = "start"
      /\ Replied(q) => q.op = "send"
      /\ Ended(q) => q.op = "end"
    BY DEF Started, Replied, Ended
<1>3. /\ q \in WaitsIn(net) /\ q.status = "ok" /\ SameSpace
      /\ net' = (net \ {q}) \union Refresh("chat", "page", jar) /\ jar' = jar
    BY <1>2, ArrivesAt DEF Reads
<1>4. p \in Page
    BY <1>1, HereNow
<1>5. PICK r : /\ Show(r) /\ r.csrf = p.csrf /\ r.api = p.api /\ r.deleted = p.deleted
               /\ r.profile = p.profile /\ r.memories = p.memories
               /\ r.session = IF q.op = "start" THEN v
                              ELSE IF q.op = "end" THEN 0 ELSE p.session
  <2>1. CASE Started(q)
    <3>1. PICK ms : ms = <<[by |-> "volta", id |-> NoEntry, text |-> 0, failed |-> FALSE]>>
      OBVIOUS
    <3>2. PICK r : r = [p EXCEPT !.session = v, !.state = "active", !.messages = ms]
      OBVIOUS
    <3>3. Show(r)
      BY <1>1, <2>1, <3>1, <3>2 DEF Started
    <3>4. /\ r.csrf = p.csrf /\ r.api = p.api /\ r.deleted = p.deleted
          /\ r.profile = p.profile /\ r.memories = p.memories /\ r.session = v
      BY <1>4, <3>2 DEF Page
    <3> QED
      BY <1>2, <2>1, <3>3, <3>4
  <2>2. CASE Replied(q)
    <3>1. PICK m : m = [by |-> "volta", id |-> id, text |-> 0, failed |-> FALSE]
      OBVIOUS
    <3>2. PICK r : r = [p EXCEPT !.messages = Append(@, m)]
      OBVIOUS
    <3>3. Show(r)
      BY <1>1, <2>2, <3>1, <3>2 DEF Replied
    <3>4. /\ r.csrf = p.csrf /\ r.api = p.api /\ r.deleted = p.deleted
          /\ r.profile = p.profile /\ r.memories = p.memories /\ r.session = p.session
      BY <1>4, <3>2 DEF Page
    <3> QED
      BY <1>2, <2>2, <3>3, <3>4
  <2>3. CASE Ended(q)
    <3>1. PICK r : r = [p EXCEPT !.receipt = s, !.session = 0, !.state = "complete"]
      OBVIOUS
    <3>2. Show(r)
      BY <1>1, <2>3, <3>1 DEF Ended, Concluded
    <3>3. /\ r.csrf = p.csrf /\ r.api = p.api /\ r.deleted = p.deleted
          /\ r.profile = p.profile /\ r.memories = p.memories /\ r.session = 0
      BY <1>4, <3>1 DEF Page
    <3> QED
      BY <1>2, <2>3, <3>2, <3>3
  <2> QED
    BY <2>1, <2>2, <2>3
<1>6. page' = r /\ Mirrored /\ storage'.trial = storage.trial
    BY <1>5, ShowMirrors
<1>7. Converses(q)
    BY <1>1, <1>2, <1>3, <1>5, <1>6 DEF Converses, Receives
<1> QED
    BY <1>7 DEF SpaceSteps

LEMMA DeletionArrives ==
    ASSUME Typed, Alone, NEW q \in net, Deleted(q)
    PROVE  SpaceSteps
<1>1. PICK p : p = page
    OBVIOUS
<1>2. /\ q.op = "delete" /\ Take(q, {Call("me", "reset", q.by, 0, 0)})
      /\ page' = (IF q.by = "page" THEN Reset(p) ELSE p)
      /\ storage' = [session |-> 0, messages |-> <<>>, trial |-> 0]
    BY <1>1 DEF Deleted
<1>3. /\ q \in WaitsIn(net) /\ q.by = "page" /\ q.status = "ok" /\ SameSpace
      /\ net' = (net \ {q}) \union {Call("me", "reset", "page", 0, 0)} /\ jar' = 0
    BY <1>2, ArrivesAt
<1>4. p \in Page
    BY <1>1, HereNow
<1>5. page' = Reset(p)
    BY <1>2, <1>3
<1>6. /\ page'.csrf = 0 /\ page'.session = 0 /\ page'.profile = 0 /\ page'.memories = 0
      /\ page'.api = p.api /\ page'.deleted = p.deleted
    BY <1>4, <1>5 DEF Page, Reset, Cleared
<1>7. storage'.session = 0 /\ storage'.trial = 0
    BY <1>2
<1>8. Erases(q)
    BY <1>1, <1>2, <1>3, <1>6, <1>7 DEF Erases, Receives, Mirrored
<1> QED
    BY <1>8 DEF SpaceSteps

(* A link that was sent, an export, a failure.                             *)
LEMMA FinishesOf ==
    ASSUME Typed, Alone, NEW q \in WaitsIn(net), NEW r, Show(r), SameSpot(r, page),
           NEW L, Behind(q, L), net' = (net \ {q}) \union L, SameSpace,
           \/ jar' = jar
           \/ q.status = "ok" /\ q.op = "export" /\ q.val # q.ws /\ jar' = q.val,
           r.deleted => \/ page.deleted
                        \/ q.flow = "reset" /\ \A o \in WaitsIn(net) \ {q} : o.flow # "reset"
    PROVE  SpaceSteps
<1>1. page' = r /\ Mirrored /\ storage'.trial = storage.trial
    BY ShowMirrors
<1>2. SameScreen /\ MayBeDone(q) /\ Receives(q, L)
    BY <1>1 DEF SameSpot, SameScreen, MayBeDone, Receives
<1>3. Finishes(q)
    BY <1>1, <1>2 DEF Finishes
<1> QED
    BY <1>3 DEF SpaceSteps

LEMMA AccountArrives ==
    ASSUME Typed, Alone, NEW q \in net, AccountDone(q)
    PROVE  SpaceSteps
<1>1. PICK p : p = page
    OBVIOUS
<1>2. q.op \in {"link", "export"} /\ Take(q, {})
    BY DEF AccountDone
<1>3. /\ q \in WaitsIn(net) /\ q.by = "page" /\ q.status = "ok" /\ SameSpace
      /\ net' = net \ {q}
      /\ jar' = IF q.op \in Reads /\ q.val # q.ws THEN q.val ELSE jar
    BY <1>2, ArrivesAt
<1>4. \/ jar' = jar
      \/ q.op = "export" /\ q.val # q.ws /\ jar' = q.val
    BY <1>2, <1>3 DEF Reads
<1>5. Show([p EXCEPT !.working = "none"]) /\ p \in Page
    BY <1>1, <1>3, HereNow DEF AccountDone
<1>6. PICK r : Show(r) /\ SameLook(r, p)
    BY <1>5, PlainEdits
<1>7. PICK L : Behind(q, L) /\ net' = (net \ {q}) \union L
  <2>1. Behind(q, {}) /\ net' = (net \ {q}) \union {}
    BY <1>3 DEF Behind
  <2> QED
    BY <2>1
<1> QED
    BY <1>1, <1>3, <1>4, <1>6, <1>7, FinishesOf DEF SameLook

LEMMA FailArrives ==
    ASSUME Typed, Alone, NEW q \in net, Fail(q)
    PROVE  SpaceSteps
<1>1. PICK p : p = page
    OBVIOUS
<1>2. /\ q.by # "gone" /\ UNCHANGED <<jar, service>>
      /\ UNCHANGED budget \/ Spend("fault")
      /\ Show(IF q.by = "page" THEN Caught(q) ELSE page)
    BY DEF Fail
<1>3. q.by = "page" /\ q \in WaitsIn(net)
    BY <1>2 DEF Alone, AloneAt, WaitsIn
<1>4. SameSpace
    BY <1>2, Unspent DEF SameSpace, service
<1>5. p \in Page
    BY <1>1, HereNow
<1>6. PICK r : /\ Show(r) /\ SameSpot(r, p)
               /\ r.deleted =>
                     \/ p.deleted
                     \/ q.flow = "reset" /\ \A o \in WaitsIn(net) \ {q} : o.flow # "reset"
  <2>1. CASE q.op \in {"profile", "memories"}
    <3>1. Show(Settled(p, q))
      BY <1>1, <1>2, <1>3, <2>1 DEF Caught
    <3> QED
      BY <1>3, <1>5, <3>1, SettledSpot
  <2>2. CASE q.op = "send"
    <3>1. PICK ms, text, retry : /\ ms = Mark(p.messages, q.id, TRUE) /\ text = q.text
                                 /\ retry = [id |-> q.id, text |-> q.text]
      OBVIOUS
    <3>2. PICK r : r = [p EXCEPT !.messages = ms, !.input = text, !.retry = retry,
                                 !.error = TRUE, !.state = "error", !.action = "none"]
      OBVIOUS
    <3>3. Caught(q) =
            [page EXCEPT !.messages = Mark(@, q.id, TRUE), !.input = q.text,
                         !.retry = [id |-> q.id, text |-> q.text],
                         !.error = TRUE, !.state = "error", !.action = "none"]
      BY <2>2 DEF Caught
    <3>4. Show(r)
      BY <1>1, <1>2, <1>3, <3>1, <3>2, <3>3
    <3>5. SameLook(r, p)
      BY <1>5, <3>2 DEF Page, SameLook, SameSpot
    <3> QED
      BY <3>4, <3>5 DEF SameLook
  <2>3. CASE q.op \notin {"profile", "memories", "send"}
    <3>1. \/ Caught(q) = [p EXCEPT !.error = TRUE, !.state = "error"]
          \/ Caught(q) = [p EXCEPT !.error = TRUE, !.state = "error", !.action = "none"]
          \/ Caught(q) = [p EXCEPT !.error = TRUE, !.state = "active", !.action = "none"]
          \/ Caught(q) = [p EXCEPT !.working = "none"]
      BY <1>1, <2>3 DEF Caught
    <3>2. Show(Caught(q)) /\ SameLook(Caught(q), p)
      BY <1>2, <1>3, <1>5, <3>1, PlainEdits
    <3> QED
      BY <3>2 DEF SameLook
  <2> QED
    BY <2>1, <2>2, <2>3
<1>7. PICK L : Behind(q, L) /\ net' = (net \ {q}) \union L
  <2>1. PICK c : /\ c.by = "gone" /\ c.op = q.op /\ c.status = q.status
                 /\ \/ net' = net \ {q}
                    \/ q.status = "sent" /\ net' = (net \ {q}) \union {c}
    BY FailNet
  <2>2. CASE net' = net \ {q}
    <3>1. Behind(q, {}) /\ net' = (net \ {q}) \union {}
      BY <2>2 DEF Behind
    <3> QED
      BY <3>1
  <2>3. CASE q.status = "sent" /\ net' = (net \ {q}) \union {c}
    BY <2>1, <2>3 DEF Behind
  <2> QED
    BY <2>1, <2>2, <2>3
<1> QED
    BY <1>1, <1>2, <1>3, <1>4, <1>6, <1>7, FinishesOf

(* The service.                                                            *)
LEMMA ServiceAnswers ==
    ASSUME Typed, NEW q \in net, Serve(q) \/ Refuse(q)
    PROVE  SpaceSteps
<1>1. PICK status, v : /\ Answer(q, status, v)
                       /\ \/ status = "ok" /\ v = Result(q) /\ Serve(q)
                          \/ status = "refused" /\ v = 0 /\ Refuse(q)
    BY DEF Serve, Refuse
<1>2. PICK r : r = [q EXCEPT !.status = status, !.val = v]
    OBVIOUS
<1>3. q \in Request
    BY HereNow
<1>4. /\ r.op = q.op /\ r.flow = q.flow /\ r.by = q.by /\ r.ws = q.ws /\ r.tok = q.tok
      /\ r.status = status /\ r.val = v
    BY <1>2, <1>3 DEF Request
<1>5. net' = (net \ {q}) \union IF q.by = "gone" THEN {} ELSE {r}
    BY <1>1, <1>2 DEF Answer
<1>6. /\ q.status = "sent" /\ UNCHANGED <<page, storage, jar>> /\ UNCHANGED budget
      /\ status = "refused" => UNCHANGED service
      /\ status = "ok" =>
            /\ Allowed(q)
            /\ issued' = IF Creates(q) THEN issued + 1 ELSE issued
            /\ alive' = IF Creates(q) THEN alive \union {issued + 1}
                        ELSE IF q.op = "delete" THEN alive \ {q.ws} ELSE alive
            /\ owner' = IF q.op = "start" THEN Append(owner, q.ws) ELSE owner
    BY <1>1 DEF Serve, Refuse
<1>7. SignIns' = SignIns
    BY <1>6, Unspent
<1>8. Answers(q, r)
    BY <1>1, <1>4, <1>5, <1>6, <1>7 DEF Answers, service
<1> QED
    BY <1>8 DEF SpaceSteps

(* A new document.                                                         *)
LEMMA DocumentBegins ==
    ASSUME Typed, Alone, Reload \/ SignIn
    PROVE  SpaceSteps
<1>1. PICK m : m = Mounted(storage)
    OBVIOUS
<1>2. /\ ~m.api /\ ~m.deleted /\ m.csrf = 0 /\ m.profile = 0 /\ m.memories = 0
      /\ m.session = storage.session
    BY <1>1 DEF Mounted
<1>3. NewDocument /\ storage' = storage /\ UNCHANGED owner
    BY DEF Reload, SignIn, service
<1>4. PICK sent \in SUBSET {q \in net : q.status = "sent" /\ q.op \in Writes} :
         page' = m /\ net' = {[q EXCEPT !.by = "gone"] : q \in sent}
    BY <1>1, <1>3 DEF NewDocument
<1>5. ASSUME NEW q \in net'
      PROVE  q.by = "gone" /\ q.status = "sent"
  <2>1. PICK c \in sent : q = [c EXCEPT !.by = "gone"]
    BY <1>4, <1>5
  <2>2. c \in Request /\ c.status = "sent"
    BY <1>4, <2>1, HereNow
  <2> QED
    BY <2>1, <2>2 DEF Request
<1>6. \/ SameSpace /\ jar' = jar
      \/ /\ SignIns > 0 /\ SignIns' = SignIns - 1
         /\ \/ jar' \in alive /\ UNCHANGED <<issued, alive>>
            \/ jar' = issued + 1 /\ issued' = issued + 1 /\ alive' = alive \union {issued + 1}
  <2>1. CASE Reload
    <3>1. SignIns' = SignIns
      BY <2>1, Unspent DEF Reload
    <3> QED
      BY <2>1, <3>1 DEF Reload, SameSpace, service
  <2>2. CASE SignIn
    <3>1. budget \in [Kinds -> Nat]
      BY DEF Typed, BudgetOK
    <3>2. SignIns > 0 /\ SignIns' = SignIns - 1
      BY <2>2, <3>1, Kind DEF SignIn, Spend, SignIns
    <3> QED
      BY <2>2, <3>2 DEF SignIn
  <2> QED
    BY <2>1, <2>2
<1>7. Begins
    BY <1>2, <1>3, <1>4, <1>5, <1>6 DEF Begins
<1> QED
    BY <1>7 DEF SpaceSteps

LEMMA NobodyLeaves ==
    ASSUME Typed, Calm
    PROVE  ~LeavePage
<1>1. budget["leave"] \in Nat /\ budget["leave"] <= 0
    BY Kind DEF Typed, BudgetOK, Calm
<1> QED
    BY <1>1 DEF LeavePage, Spend

(* All there is.                                                           *)
LEMMA SpaceKinds ==
    ASSUME Typed, Alone, Calm, [Next]_vars
    PROVE  SpaceSteps
<1>1. CASE Progress
  <2>1. PICK q \in net : Serve(q) \/ Refuse(q) \/ Arrive(q) \/ Fail(q)
    BY <1>1 DEF Progress
  <2>2. CASE Serve(q) \/ Refuse(q)
    BY <2>2, ServiceAnswers
  <2>3. CASE Arrive(q)
    <3>1. ~Unseen(q)
      BY DEF Unseen, Take, Alone, AloneAt
    <3> QED
      BY <2>3, <3>1, ContextArrives, WorkspaceArrives, TryArrives, TalkArrives,
         DeletionArrives, AccountArrives DEF Arrive
  <2>4. CASE Fail(q)
    BY <2>4, FailArrives
  <2> QED
    BY <2>1, <2>2, <2>3, <2>4
<1>2. CASE \/ Type \/ Listen \/ ToggleRecording \/ Dictate \/ StopRecording
           \/ CloseReceipt \/ UNCHANGED vars
    BY <1>2, RestStep
<1>3. CASE \/ ConfigLoaded \/ StartSession \/ SendMessage \/ RetryMessage \/ EndSession
           \/ RequestLink \/ ExportWorkspace \/ DeleteWorkspace
    BY <1>3, ConfigAsks, TalkStep, AccountAsks
<1>4. CASE LeavePage \/ Reload \/ SignIn
    BY <1>4, NobodyLeaves, DocumentBegins
<1> QED
    BY <1>1, <1>2, <1>3, <1>4 DEF Next

-----------------------------------------------------------------------------
(* TokenMatches, FreshAfterDelete, TrialStays and ActiveSessionIsOurs.     *)

(* The workspaces of the page, its requests and its storage.               *)
Tracked == Typed /\ Alone /\ Tokens /\ Fresh

LEMMA TrackedStep == Calm /\ Tracked /\ [Next]_vars => Tracked'
BY StepKinds, StepsTyped, SpaceKinds, AloneStep, TokensStep, FreshStep DEF Tracked

(* Nothing is there to be of the wrong workspace.                          *)
LEMMA InitWorkspace ==
    ASSUME Init
    PROVE  /\ net = {} /\ ~page.api /\ ~page.deleted /\ page.csrf = 0 /\ page.session = 0
           /\ storage.session = 0 /\ storage.trial = 0 /\ issued \in Nat
<1>1. /\ storage = [session |-> 0, messages |-> <<>>, trial |-> 0] /\ page = Mounted(storage)
      /\ net = {} /\ issued = jar /\ jar = IF Returning THEN 1 ELSE 0
    BY DEF Init
<1>2. storage.session = 0 /\ storage.trial = 0 /\ issued \in Nat
    BY <1>1
<1>3. PICK old : old = storage
    OBVIOUS
<1>4. page = Mounted(old) /\ old.session = 0
    BY <1>1, <1>2, <1>3
<1>5. ~page.api /\ ~page.deleted /\ page.csrf = 0 /\ page.session = 0
    BY <1>4 DEF Mounted
<1> QED
    BY <1>1, <1>2, <1>5

LEMMA TrackedInit == Init => Tracked
<1> SUFFICES ASSUME Init PROVE Tracked
    OBVIOUS
<1>1. Alone
    BY InitWorkspace DEF Alone, AloneAt, WaitsIn
<1>2. Tokens
    BY InitWorkspace DEF Tokens, TokensAt, WaitsIn
<1>3. Fresh
    BY InitWorkspace DEF Fresh, FreshAt, Renewed, WaitsIn
<1> QED
    BY <1>1, <1>2, <1>3, InitTyped DEF Tracked

(* VoltaApi: for a user who waits and stays, an unsafe request carries the *)
(* token of its own workspace, unless the token's is gone.                 *)
THEOREM TokensAreOurs ==
    ASSUME Calm
    PROVE  Spec => []TokenMatches
<1>1. Tracked => TokenMatches
  <2> SUFFICES ASSUME Tracked, NEW q \in net, q.op \in Writes, q.by = "page", q.tok # q.ws
               PROVE  q.tok \notin alive
    BY DEF TokenMatches
  <2>1. q \in WaitsIn(net)
    BY DEF WaitsIn
  <2> QED
    BY <2>1 DEF Tracked, Tokens, TokensAt
<1>2. Tracked /\ [Next]_vars => Tracked'
    BY TrackedStep
<1> QED
    BY <1>1, <1>2, TrackedInit, PTL DEF Spec

(* resetDeletedWorkspace: for such a user, once the page says that the     *)
(* workspace is gone it shows nothing of it, whatever comes in since.      *)
THEOREM NothingComesBack ==
    ASSUME Calm
    PROVE  Spec => []FreshAfterDelete
<1>1. Tracked => FreshAfterDelete
  <2> SUFFICES ASSUME Tracked, page.deleted
               PROVE  /\ {page.profile, page.memories} \subseteq alive \union {0}
                      /\ page.session # 0 => owner[page.session] \in alive
    BY DEF FreshAfterDelete
  <2>1. PICK D : SafeIn(net, page, jar, alive \ D, D, owner)
    BY DEF Tracked, Fresh, FreshAt, Renewed
  <2> QED
    BY <2>1 DEF SafeIn
<1>2. Tracked /\ [Next]_vars => Tracked'
    BY TrackedStep
<1> QED
    BY <1>1, <1>2, TrackedInit, PTL DEF Spec

(* The setup of /try: for such a user, only a deletion or a sign-in takes  *)
(* the cookies of a trial that is there away.                              *)
THEOREM TrialIsKept ==
    ASSUME Calm
    PROVE  Spec => TrialStays
<1>1. Tracked /\ [Next]_vars =>
          [jar = storage.trial /\ jar \in alive =>
              (jar' = jar \/ budget'["signin"] < budget["signin"])]_vars
  <2> SUFFICES ASSUME Tracked, [Next]_vars, jar = storage.trial, jar \in alive
               PROVE  jar' = jar \/ budget'["signin"] < budget["signin"]
    OBVIOUS
  <2>1. jar' = jar \/ SignIns' = SignIns - 1
    BY SpaceKinds, TrialKept DEF Tracked
  <2>2. budget["signin"] \in Nat
    BY Kind DEF Tracked, Typed, BudgetOK
  <2> QED
    BY <2>1, <2>2 DEF SignIns
<1>2. Tracked /\ [Next]_vars => Tracked'
    BY TrackedStep
<1> QED
    BY <1>1, <1>2, TrackedInit, PTL DEF Spec, TrialStays

(* Where a trial is set up, and nobody signs in twice, the consultation on *)
(* the page belongs to the workspace of the browser's cookies.             *)
THEOREM SessionIsOurs ==
    ASSUME Calm, Mode = "try", Budget["signin"] <= 1
    PROVE  Spec => []ActiveSessionIsOurs
<1>1. Init => Sessions
    BY InitWorkspace DEF Sessions, SessionsAt, WaitsIn, Final, Init
<1>2. Tracked /\ Sessions /\ [Next]_vars => Sessions'
    BY SpaceKinds, SessionsStep DEF Tracked
<1>3. Tracked /\ Sessions => ActiveSessionIsOurs
  <2> SUFFICES ASSUME Sessions, page.session # 0, storage.trial = jar
               PROVE  owner[page.session] = jar \/ owner[page.session] \notin alive
    BY DEF ActiveSessionIsOurs
  <2> QED
    BY DEF Sessions, SessionsAt, Final
<1>4. Tracked /\ [Next]_vars => Tracked'
    BY TrackedStep
<1> QED
    BY <1>1, <1>2, <1>3, <1>4, TrackedInit, PTL DEF Spec

=============================================================================
