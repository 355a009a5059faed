------------------------- MODULE ConsultationProofs -------------------------
(***************************************************************************)
(* Proofs about ConsultationClient, for any budget of what may happen: the *)
(* transcript that the page shows and the one that the service keeps.      *)
(***************************************************************************)
EXTENDS ConsultationClient, FiniteSetTheorems, SequenceTheorems, TLAPS

-----------------------------------------------------------------------------
(* What the page and its requests may hold, when there are n sessions, k   *)
(* workspaces, and the user has said w things.                             *)

(* Ids of things said: their session and their place.                      *)
EntryIds(n) == (1..n) \X (Nat \ {0})

PageOK(p, n, k, w) ==
    /\ p \in Page
    /\ p.session \in 0..n
    /\ p.csrf \in 0..k
    /\ p.input \in 0..w
    /\ p.retry.text \in 0..w
    /\ p.retry.text = 0 => p.retry.id = NoEntry
    /\ p.retry.text # 0 => p.retry.id \in EntryIds(n)

RequestOK(q, n, k, w) ==
    /\ q \in Request
    /\ q.ws \in 0..k
    /\ q.flow = "chat" => q.op \in {"start", "send", "end", "profile", "memories"}
    /\ q.op \in {"start", "send", "end"} => q.flow = "chat"
    /\ q.op # "start" => q.val \in 0..k
    /\ q.op = "start" => q.val \in 0..n
    /\ q.status = "ok" /\ q.op \in {"start", "me", "try"} => q.val # 0
    /\ q.op \in {"send", "end"} => q.session \in 1..n
    /\ q.op = "send" => q.id \in EntryIds(n) /\ q.text \in 1..w

ServiceOK ==
    /\ issued \in Nat
    /\ alive \subseteq 1..issued
    /\ owner \in Seq(1..issued)
    /\ ended \subseteq 1..Len(owner)
    /\ stored \in Seq((1..Len(owner)) \X (1..Used("say")))

BudgetOK == budget \in [Kinds -> Nat] /\ \A k \in Kinds : budget[k] <= Budget[k]

(* The session storage mirrors the page, or was cleared behind it.         *)
StorageOK ==
    /\ storage \in [session : Nat, messages : Seq(Entry), trial : Nat]
    /\ storage.session \in {page.session, 0}
    /\ storage.messages \in {page.messages, <<>>}

Typed ==
    /\ PageOK(page, Len(owner), issued, Used("say"))
    /\ StorageOK
    /\ jar \in 0..issued
    /\ IsFiniteSet(net)
    /\ \A q \in net : RequestOK(q, Len(owner), issued, Used("say"))
    /\ ServiceOK /\ BudgetOK

-----------------------------------------------------------------------------
(* Pages and requests.                                                     *)

(* Every change of the page that an action makes, the transcript's aside.  *)
LEMMA PageEdits ==
    ASSUME NEW n \in Nat, NEW k \in Nat, NEW w \in Nat, NEW p, PageOK(p, n, k, w)
    PROVE
        /\ PageOK([p EXCEPT !.api = TRUE], n, k, w)
        /\ PageOK([p EXCEPT !.action = "none"], n, k, w)
        /\ PageOK([p EXCEPT !.working = "none"], n, k, w)
        /\ PageOK([p EXCEPT !.working = "none", !.deleted = TRUE], n, k, w)
        /\ PageOK([p EXCEPT !.recording = FALSE], n, k, w)
        /\ PageOK([p EXCEPT !.receipt = 0], n, k, w)
        /\ PageOK([p EXCEPT !.error = TRUE], n, k, w)
        /\ PageOK([p EXCEPT !.error = FALSE, !.recording = TRUE], n, k, w)
        /\ PageOK([p EXCEPT !.error = TRUE, !.state = "error"], n, k, w)
        /\ PageOK([p EXCEPT !.error = TRUE, !.state = "error", !.action = "none"], n, k, w)
        /\ PageOK([p EXCEPT !.error = TRUE, !.state = "active", !.action = "none"], n, k, w)
        /\ PageOK([p EXCEPT !.action = "starting", !.error = FALSE], n, k, w)
        /\ PageOK([p EXCEPT !.action = "ending", !.state = "ending", !.error = FALSE], n, k, w)
        /\ PageOK(Cleared(p), n, k, w)
        /\ PageOK(Reset(p), n, k, w)
        /\ PageOK(Sending(p), n, k, w)
<1>0. <<>> \in Seq(Entry)
    OBVIOUS
<1>1. PageOK([p EXCEPT !.api = TRUE], n, k, w)
    BY DEF PageOK, Page
<1>2. PageOK([p EXCEPT !.action = "none"], n, k, w)
    BY DEF PageOK, Page
<1>3. PageOK([p EXCEPT !.working = "none"], n, k, w)
    BY DEF PageOK, Page
<1>4. PageOK([p EXCEPT !.working = "none", !.deleted = TRUE], n, k, w)
    BY DEF PageOK, Page
<1>5. PageOK([p EXCEPT !.recording = FALSE], n, k, w)
    BY DEF PageOK, Page
<1>6. PageOK([p EXCEPT !.receipt = 0], n, k, w)
    BY DEF PageOK, Page
<1>7. PageOK([p EXCEPT !.error = TRUE], n, k, w)
    BY DEF PageOK, Page
<1>8. PageOK([p EXCEPT !.error = FALSE, !.recording = TRUE], n, k, w)
    BY DEF PageOK, Page
<1>9. PageOK([p EXCEPT !.error = TRUE, !.state = "error"], n, k, w)
    BY DEF PageOK, Page
<1>10. PageOK([p EXCEPT !.error = TRUE, !.state = "error", !.action = "none"], n, k, w)
    BY DEF PageOK, Page
<1>11. PageOK([p EXCEPT !.error = TRUE, !.state = "active", !.action = "none"], n, k, w)
    BY DEF PageOK, Page
<1>12. PageOK([p EXCEPT !.action = "starting", !.error = FALSE], n, k, w)
    BY DEF PageOK, Page
<1>13. PageOK([p EXCEPT !.action = "ending", !.state = "ending", !.error = FALSE], n, k, w)
    BY DEF PageOK, Page
<1>14. PageOK(Cleared(p), n, k, w)
  <2> DEFINE r == Cleared(p)
  <2>1. p \in Page
    BY DEF PageOK
  <2>2. r \in Page
    BY <2>1, <1>0 DEF Page, Cleared
  <2>3. r.session = 0 /\ r.csrf = p.csrf
        /\ r.input = p.input /\ r.retry = p.retry
    BY <2>1, <1>0 DEF Page, Cleared
  <2> HIDE DEF r
  <2>4. PageOK(r, n, k, w)
    BY <2>2, <2>3 DEF PageOK
  <2> QED
    BY <2>4 DEF r
<1>15. PageOK(Reset(p), n, k, w)
  <2> DEFINE r == Reset(p)
  <2>1. p \in Page
    BY DEF PageOK
  <2>2. r \in Page
    BY <2>1, <1>0 DEF Page, Cleared, Reset
  <2>3. r.session = 0 /\ r.csrf = 0
        /\ r.input = p.input /\ r.retry = p.retry
    BY <2>1, <1>0 DEF Page, Cleared, Reset
  <2> HIDE DEF r
  <2>4. PageOK(r, n, k, w)
    BY <2>2, <2>3 DEF PageOK
  <2> QED
    BY <2>4 DEF r
<1>16. PageOK(Sending(p), n, k, w)
  <2> DEFINE r == Sending(p)
  <2>1. p \in Page
    BY DEF PageOK
  <2>2. r \in Page
    BY <2>1 DEF Page, Sending, NoRetry, NoEntry
  <2>3. r.session = p.session /\ r.csrf = p.csrf
        /\ r.input = 0 /\ r.retry = NoRetry
    BY <2>1 DEF Page, Sending, NoRetry, NoEntry
  <2> HIDE DEF r
  <2>4. PageOK(r, n, k, w)
    BY <2>2, <2>3 DEF PageOK, NoRetry
  <2> QED
    BY <2>4 DEF r
<1> QED
    BY <1>1, <1>2, <1>3, <1>4, <1>5, <1>6, <1>7, <1>8, <1>9, <1>10, <1>11, <1>12, <1>13, <1>14, <1>15, <1>16

LEMMA PageValues ==
    ASSUME NEW n \in Nat, NEW k \in Nat, NEW w \in Nat, NEW p, PageOK(p, n, k, w)
    PROVE
        /\ \A v \in Nat :
              PageOK([p EXCEPT !.profile = v], n, k, w)
        /\ \A v \in Nat :
              PageOK([p EXCEPT !.memories = v], n, k, w)
        /\ \A v \in 0..k :
              PageOK([p EXCEPT !.csrf = v], n, k, w)
        /\ \A v \in 0..w :
              PageOK([p EXCEPT !.input = v], n, k, w)
        /\ \A v \in 0..w :
              PageOK([p EXCEPT !.input = v, !.recording = FALSE], n, k, w)
        /\ \A kind \in {"link", "export", "delete"} :
              PageOK([p EXCEPT !.working = kind, !.deleted = FALSE], n, k, w)
        /\ \A v \in Nat :
              PageOK([p EXCEPT !.receipt = v, !.session = 0, !.state = "complete"], n, k, w)
        /\ \A ms \in Seq(Entry) :
              PageOK([p EXCEPT !.messages = ms], n, k, w)
        /\ \A v \in 0..n, ms \in Seq(Entry) :
              PageOK([p EXCEPT !.session = v, !.state = "active", !.messages = ms], n, k, w)
        /\ \A id \in EntryIds(n), text \in 1..w, ms \in Seq(Entry) :
              PageOK([p EXCEPT !.messages = ms, !.input = text,
                               !.retry = [id |-> id, text |-> text],
                               !.error = TRUE, !.state = "error", !.action = "none"], n, k, w)
<1>1. ASSUME NEW v \in Nat
      PROVE  PageOK([p EXCEPT !.profile = v], n, k, w)
    BY <1>1 DEF PageOK, Page
<1>2. ASSUME NEW v \in Nat
      PROVE  PageOK([p EXCEPT !.memories = v], n, k, w)
    BY <1>2 DEF PageOK, Page
<1>3. ASSUME NEW v \in 0..k
      PROVE  PageOK([p EXCEPT !.csrf = v], n, k, w)
  <2> DEFINE r == [p EXCEPT !.csrf = v]
  <2>1. p \in Page
    BY DEF PageOK
  <2>0. v \in Nat
    OBVIOUS
  <2>2. r \in Page
    BY <2>1, <2>0 DEF Page
  <2>3. r.session = p.session /\ r.csrf = v
        /\ r.input = p.input /\ r.retry = p.retry
    BY <2>1, <2>0 DEF Page
  <2> HIDE DEF r
  <2>4. PageOK(r, n, k, w)
    BY <2>2, <2>3 DEF PageOK
  <2> QED
    BY <2>4 DEF r
<1>4. ASSUME NEW v \in 0..w
      PROVE  PageOK([p EXCEPT !.input = v], n, k, w)
  <2> DEFINE r == [p EXCEPT !.input = v]
  <2>1. p \in Page
    BY DEF PageOK
  <2>0. v \in Nat
    OBVIOUS
  <2>2. r \in Page
    BY <2>1, <2>0 DEF Page
  <2>3. r.session = p.session /\ r.csrf = p.csrf
        /\ r.input = v /\ r.retry = p.retry
    BY <2>1, <2>0 DEF Page
  <2> HIDE DEF r
  <2>4. PageOK(r, n, k, w)
    BY <2>2, <2>3 DEF PageOK
  <2> QED
    BY <2>4 DEF r
<1>5. ASSUME NEW v \in 0..w
      PROVE  PageOK([p EXCEPT !.input = v, !.recording = FALSE], n, k, w)
  <2> DEFINE r == [p EXCEPT !.input = v, !.recording = FALSE]
  <2>1. p \in Page
    BY DEF PageOK
  <2>0. v \in Nat
    OBVIOUS
  <2>2. r \in Page
    BY <2>1, <2>0 DEF Page
  <2>3. r.session = p.session /\ r.csrf = p.csrf
        /\ r.input = v /\ r.retry = p.retry
    BY <2>1, <2>0 DEF Page
  <2> HIDE DEF r
  <2>4. PageOK(r, n, k, w)
    BY <2>2, <2>3 DEF PageOK
  <2> QED
    BY <2>4 DEF r
<1>6. ASSUME NEW kind \in {"link", "export", "delete"}
      PROVE  PageOK([p EXCEPT !.working = kind, !.deleted = FALSE], n, k, w)
    BY <1>6 DEF PageOK, Page
<1>7. ASSUME NEW v \in Nat
      PROVE  PageOK([p EXCEPT !.receipt = v, !.session = 0, !.state = "complete"], n, k, w)
  <2> DEFINE r == [p EXCEPT !.receipt = v, !.session = 0, !.state = "complete"]
  <2>1. p \in Page
    BY DEF PageOK
  <2>0. v \in Nat
    OBVIOUS
  <2>2. r \in Page
    BY <2>1, <2>0 DEF Page
  <2>3. r.session = 0 /\ r.csrf = p.csrf
        /\ r.input = p.input /\ r.retry = p.retry
    BY <2>1, <2>0 DEF Page
  <2> HIDE DEF r
  <2>4. PageOK(r, n, k, w)
    BY <2>2, <2>3 DEF PageOK
  <2> QED
    BY <2>4 DEF r
<1>8. ASSUME NEW ms \in Seq(Entry)
      PROVE  PageOK([p EXCEPT !.messages = ms], n, k, w)
    BY <1>8 DEF PageOK, Page
<1>9. ASSUME NEW v \in 0..n, NEW ms \in Seq(Entry)
      PROVE  PageOK([p EXCEPT !.session = v, !.state = "active", !.messages = ms], n, k, w)
  <2> DEFINE r == [p EXCEPT !.session = v, !.state = "active", !.messages = ms]
  <2>1. p \in Page
    BY DEF PageOK
  <2>0. v \in Nat
    OBVIOUS
  <2>2. r \in Page
    BY <2>1, <2>0 DEF Page
  <2>3. r.session = v /\ r.csrf = p.csrf
        /\ r.input = p.input /\ r.retry = p.retry
    BY <2>1, <2>0 DEF Page
  <2> HIDE DEF r
  <2>4. PageOK(r, n, k, w)
    BY <2>2, <2>3 DEF PageOK
  <2> QED
    BY <2>4 DEF r
<1>10. ASSUME NEW id \in EntryIds(n), NEW text \in 1..w, NEW ms \in Seq(Entry)
      PROVE  PageOK([p EXCEPT !.messages = ms, !.input = text,
                             !.retry = [id |-> id, text |-> text],
                             !.error = TRUE, !.state = "error", !.action = "none"], n, k, w)
  <2> DEFINE r == [p EXCEPT !.messages = ms, !.input = text,
                          !.retry = [id |-> id, text |-> text],
                          !.error = TRUE, !.state = "error", !.action = "none"]
  <2>1. p \in Page
    BY DEF PageOK
  <2>0. text \in Nat /\ id \in Nat \X Nat
    BY DEF EntryIds
  <2>2. r \in Page
    BY <2>1, <2>0 DEF Page
  <2>3. r.session = p.session /\ r.csrf = p.csrf
        /\ r.input = text /\ r.retry = [id |-> id, text |-> text]
    BY <2>1, <2>0 DEF Page
  <2> HIDE DEF r
  <2>4. PageOK(r, n, k, w)
    BY <2>2, <2>3 DEF PageOK
  <2> QED
    BY <2>4 DEF r
<1> QED
    BY <1>1, <1>2, <1>3, <1>4, <1>5, <1>6, <1>7, <1>8, <1>9, <1>10

(* More sessions, workspaces and texts do no harm.                         *)
LEMMA PageStays ==
    ASSUME NEW n \in Nat, NEW k \in Nat, NEW w \in Nat, NEW p, PageOK(p, n, k, w),
           NEW a \in Nat, NEW b \in Nat, NEW c \in Nat, n <= a, k <= b, w <= c
    PROVE  PageOK(p, a, b, c)
BY DEF PageOK, EntryIds

LEMMA RequestStays ==
    ASSUME NEW n \in Nat, NEW k \in Nat, NEW w \in Nat, NEW q, RequestOK(q, n, k, w),
           NEW a \in Nat, NEW b \in Nat, NEW c \in Nat, n <= a, k <= b, w <= c
    PROVE  RequestOK(q, a, b, c)
BY DEF RequestOK, EntryIds

(* The requests that the page makes.                                       *)
LEMMA CallOK ==
    ASSUME NEW n \in Nat, NEW k \in Nat, NEW w \in Nat,
           NEW ws \in 0..k, NEW tok \in Nat, NEW by \in {"page", "left", "gone"}
    PROVE  /\ RequestOK(Call("start", "chat", by, ws, tok), n, k, w)
           /\ \A flow \in Flows, op \in {"profile", "memories"} :
                 RequestOK(Call(op, flow, by, ws, tok), n, k, w)
           /\ \A flow \in Flows \ {"chat"}, op \in {"me", "export", "try", "delete", "link"} :
                 RequestOK(Call(op, flow, by, ws, tok), n, k, w)
           /\ \A s \in 1..n :
                 RequestOK([Call("end", "chat", by, ws, tok) EXCEPT !.session = s], n, k, w)
           /\ \A s \in 1..n, id \in EntryIds(n), text \in 1..w :
                 RequestOK([Call("send", "chat", by, ws, tok) EXCEPT
                               !.session = s, !.id = id, !.text = text], n, k, w)
<1>1. RequestOK(Call("start", "chat", by, ws, tok), n, k, w)
    BY DEF RequestOK, Request, Call, Reads, Writes, Flows, NoEntry, EntryIds
<1>2. \A flow \in Flows, op \in {"profile", "memories"} :
          RequestOK(Call(op, flow, by, ws, tok), n, k, w)
    BY DEF RequestOK, Request, Call, Reads, Writes, Flows, NoEntry, EntryIds
<1>3. \A flow \in Flows \ {"chat"}, op \in {"me", "export", "try", "delete", "link"} :
          RequestOK(Call(op, flow, by, ws, tok), n, k, w)
    BY DEF RequestOK, Request, Call, Reads, Writes, Flows, NoEntry, EntryIds
<1>4. \A s \in 1..n :
          RequestOK([Call("end", "chat", by, ws, tok) EXCEPT !.session = s], n, k, w)
    BY DEF RequestOK, Request, Call, Reads, Writes, Flows, NoEntry, EntryIds
<1>5. ASSUME NEW s \in 1..n, NEW id \in EntryIds(n), NEW text \in 1..w
      PROVE  RequestOK([Call("send", "chat", by, ws, tok) EXCEPT
                           !.session = s, !.id = id, !.text = text], n, k, w)
  <2> DEFINE c == Call("send", "chat", by, ws, tok)
             r == [c EXCEPT !.session = s, !.id = id, !.text = text]
  <2>1. ws \in Nat /\ s \in Nat /\ text \in Nat /\ id \in Nat \X Nat
    BY DEF EntryIds
  <2>2. /\ c \in Request /\ c.op = "send" /\ c.flow = "chat" /\ c.ws = ws
        /\ c.status = "sent" /\ c.val = 0
    BY <2>1 DEF Call, Request, Reads, Writes, Flows, NoEntry
  <2> HIDE DEF c
  <2>3. r \in Request
    BY <2>1, <2>2 DEF Request
  <2>4. /\ r.op = "send" /\ r.flow = "chat" /\ r.ws = ws /\ r.session = s
        /\ r.id = id /\ r.text = text /\ r.status = "sent" /\ r.val = 0
    BY <2>2 DEF Request
  <2> HIDE DEF r
  <2>5. RequestOK(r, n, k, w)
    BY <2>3, <2>4 DEF RequestOK
  <2> QED
    BY <2>5 DEF r, c
<1> QED
    BY <1>1, <1>2, <1>3, <1>4, <1>5

(* Requests that are left, or answered.                                    *)
LEMMA RequestEdits ==
    ASSUME NEW n \in Nat, NEW k \in Nat, NEW w \in Nat, NEW q, RequestOK(q, n, k, w)
    PROVE  /\ RequestOK([q EXCEPT !.by = "left"], n, k, w)
           /\ RequestOK([q EXCEPT !.by = "gone"], n, k, w)
           /\ RequestOK([q EXCEPT !.status = "refused", !.val = 0], n, k, w)
           /\ \A v : /\ q.op # "start" => v \in 0..k
                     /\ q.op = "start" => v \in 1..n
                     /\ q.op \in {"me", "try"} => v # 0
                     => RequestOK([q EXCEPT !.status = "ok", !.val = v], n, k, w)
<1>1. RequestOK([q EXCEPT !.by = "left"], n, k, w)
    BY DEF RequestOK, Request, EntryIds
<1>2. RequestOK([q EXCEPT !.by = "gone"], n, k, w)
    BY DEF RequestOK, Request, EntryIds
<1>3. RequestOK([q EXCEPT !.status = "refused", !.val = 0], n, k, w)
  <2> DEFINE r == [q EXCEPT !.status = "refused", !.val = 0]
  <2>1. q \in Request
    BY DEF RequestOK
  <2>2. r \in Request
    BY <2>1 DEF Request
  <2>3. /\ r.op = q.op /\ r.flow = q.flow /\ r.ws = q.ws /\ r.session = q.session
        /\ r.id = q.id /\ r.text = q.text /\ r.status = "refused" /\ r.val = 0
    BY <2>1 DEF Request
  <2> HIDE DEF r
  <2>4. RequestOK(r, n, k, w)
    BY <2>2, <2>3 DEF RequestOK
  <2> QED
    BY <2>4 DEF r
<1>4. ASSUME NEW v, q.op # "start" => v \in 0..k, q.op = "start" => v \in 1..n,
             q.op \in {"me", "try"} => v # 0
      PROVE  RequestOK([q EXCEPT !.status = "ok", !.val = v], n, k, w)
  <2> DEFINE r == [q EXCEPT !.status = "ok", !.val = v]
  <2>1. q \in Request /\ v \in Nat
    BY <1>4 DEF RequestOK
  <2>2. r \in Request
    BY <2>1 DEF Request
  <2>3. /\ r.op = q.op /\ r.flow = q.flow /\ r.ws = q.ws /\ r.session = q.session
        /\ r.id = q.id /\ r.text = q.text /\ r.status = "ok" /\ r.val = v
    BY <2>1 DEF Request
  <2> HIDE DEF r
  <2>4. RequestOK(r, n, k, w)
    BY <2>2, <2>3, <1>4 DEF RequestOK
  <2> QED
    BY <2>4 DEF r
<1> QED
    BY <1>1, <1>2, <1>3, <1>4

-----------------------------------------------------------------------------
(* The types are kept.                                                     *)

(* There are ever more sessions, workspaces and texts.                     *)
Grown ==
    /\ Len(owner) \in Nat /\ Len(owner') \in Nat /\ Len(owner) <= Len(owner')
    /\ issued \in Nat /\ issued' \in Nat /\ issued <= issued'
    /\ Used("say") \in Nat /\ Used("say")' \in Nat /\ Used("say") <= Used("say")'
    /\ ServiceOK' /\ BudgetOK'

(* Nothing that happened is taken back.                                    *)
Counted == \A k \in Kinds : Used(k) \in Nat /\ Used(k)' \in Nat /\ Used(k) <= Used(k)'

LEMMA SeqGrows ==
    ASSUME NEW S, NEW T, S \subseteq T, NEW s \in Seq(S)
    PROVE  s \in Seq(T)
<1>1. s \in [1..Len(s) -> S] /\ Len(s) \in Nat
    OBVIOUS
<1>2. s \in [1..Len(s) -> T]
    BY <1>1
<1> QED
    BY <1>1, <1>2

LEMMA Kind ==
    /\ "fault" \in Kinds /\ "leave" \in Kinds /\ "reload" \in Kinds /\ "signin" \in Kinds
    /\ "start" \in Kinds /\ "say" \in Kinds /\ "send" \in Kinds /\ "account" \in Kinds
BY DEF Kinds

LEMMA UsedType ==
    ASSUME BudgetOK, NEW k \in Kinds
    PROVE  Used(k) \in Nat
BY BudgetAssumption DEF BudgetOK, Used

LEMMA SpendOne ==
    ASSUME BudgetOK, NEW k \in Kinds, Spend(k)
    PROVE  /\ BudgetOK'
           /\ Used(k)' = Used(k) + 1
           /\ \A o \in Kinds \ {k} : Used(o)' = Used(o)
           /\ Counted
<1>1. budget \in [Kinds -> Nat] /\ budget[k] \in Nat /\ budget[k] > 0
    BY DEF BudgetOK, Spend
<1>2. budget[k] - 1 \in Nat
    BY <1>1
<1>3. /\ budget' \in [Kinds -> Nat] /\ budget'[k] = budget[k] - 1
      /\ \A o \in Kinds \ {k} : budget'[o] = budget[o]
    BY <1>1, <1>2 DEF Spend
<1>4. /\ \A o \in Kinds : budget[o] \in Nat /\ budget'[o] \in Nat /\ Budget[o] \in Nat
      /\ \A o \in Kinds : budget[o] <= Budget[o]
    BY <1>1, <1>3, BudgetAssumption DEF BudgetOK
<1>5. /\ budget' \in [Kinds -> Nat] /\ budget'[k] = budget[k] - 1 /\ budget[k] > 0
      /\ \A o \in Kinds \ {k} : budget'[o] = budget[o]
      /\ \A o \in Kinds : budget[o] \in Nat /\ budget'[o] \in Nat /\ Budget[o] \in Nat
      /\ \A o \in Kinds : budget[o] <= Budget[o]
    BY <1>1, <1>3, <1>4
<1>6. \A o \in Kinds : budget'[o] <= budget[o]
    BY <1>5
<1>7. BudgetOK'
    BY <1>5, <1>6 DEF BudgetOK
<1>8. Used(k)' = Used(k) + 1
    BY <1>5 DEF Used
<1>9. \A o \in Kinds \ {k} : Used(o)' = Used(o)
    BY <1>5 DEF Used
<1>10. Counted
    BY <1>5, <1>6 DEF Counted, Used
<1> QED
    BY <1>7, <1>8, <1>9, <1>10

LEMMA SameBudget ==
    ASSUME BudgetOK, UNCHANGED budget
    PROVE  BudgetOK' /\ Counted /\ \A k \in Kinds : Used(k)' = Used(k)
<1>1. BudgetOK' /\ \A k \in Kinds : Used(k)' = Used(k)
    BY DEF BudgetOK, Used
<1>2. \A k \in Kinds : Used(k) \in Nat
    BY UsedType
<1> QED
    BY <1>1, <1>2 DEF Counted

(* The service does nothing.                                               *)
LEMMA SameService ==
    ASSUME Typed, UNCHANGED service, BudgetOK', Counted
    PROVE  Grown
<1>1. /\ issued' = issued /\ alive' = alive /\ owner' = owner /\ ended' = ended
      /\ stored' = stored
    BY DEF service
<1>2. Used("say") \in Nat /\ Used("say")' \in Nat /\ Used("say") <= Used("say")'
    BY Kind DEF Counted
<1>3. Len(owner) \in Nat
    BY DEF Typed, ServiceOK
<1>4. stored \in Seq((1..Len(owner)) \X (1..(Used("say")')))
  <2>1. (1..Len(owner)) \X (1..Used("say")) \subseteq (1..Len(owner)) \X (1..(Used("say")'))
    BY <1>2, <1>3
  <2> QED
    <3>1. PICK S : S = (1..Len(owner)) \X (1..Used("say"))
      OBVIOUS
    <3>2. PICK T : T = (1..Len(owner)) \X (1..(Used("say")'))
      OBVIOUS
    <3>3. PICK st : st = stored
      OBVIOUS
    <3>4. S \subseteq T /\ st \in Seq(S)
      BY <2>1, <3>1, <3>2, <3>3 DEF Typed, ServiceOK
    <3>5. st \in Seq(T)
      BY <3>4, SeqGrows
    <3> QED
      BY <3>2, <3>3, <3>5
<1> QED
    BY <1>1, <1>2, <1>3, <1>4 DEF Grown, Typed, ServiceOK

(* What is put on the screen is put into the storage.                      *)
LEMMA ShowStores ==
    ASSUME StorageOK, NEW p, p.session \in Nat, p.messages \in Seq(Entry), Show(p)
    PROVE  StorageOK' /\ page' = p
<1>1. page' = p /\ storage' = Mirror(storage, p)
    BY DEF Show
<1>2. /\ storage'.session = IF p.session # page.session THEN p.session ELSE storage.session
      /\ storage'.messages = IF p.messages # page.messages THEN p.messages ELSE storage.messages
      /\ storage'.trial = storage.trial
      /\ storage' \in [session : Nat, messages : Seq(Entry), trial : Nat]
    BY <1>1 DEF Mirror, StorageOK
<1> QED
    BY <1>1, <1>2 DEF StorageOK

(* A step keeps the types if what is new has them.                         *)
LEMMA StepTyped ==
    ASSUME Typed, Grown, jar' \in 0..issued', StorageOK', IsFiniteSet(net'),
           PageOK(page', Len(owner'), issued', Used("say")'),
           \A q \in net' \ net : RequestOK(q, Len(owner'), issued', Used("say")')
    PROVE  Typed'
<1>1. PICK n, k, w : n = Len(owner) /\ k = issued /\ w = Used("say")
    OBVIOUS
<1>2. PICK a, b, c : a = Len(owner') /\ b = issued' /\ c = Used("say")'
    OBVIOUS
<1>3. /\ n \in Nat /\ k \in Nat /\ w \in Nat /\ a \in Nat /\ b \in Nat /\ c \in Nat
      /\ n <= a /\ k <= b /\ w <= c
    BY <1>1, <1>2 DEF Grown
<1>4. \A q \in net : RequestOK(q, n, k, w)
    BY <1>1 DEF Typed
<1>5. \A q \in net : RequestOK(q, a, b, c)
    BY <1>3, <1>4, RequestStays
<1>6. \A q \in net' : RequestOK(q, a, b, c)
    BY <1>2, <1>5
<1>7. \A q \in net' : RequestOK(q, Len(owner'), issued', Used("say")')
    BY <1>2, <1>6
<1> QED
    BY <1>7 DEF Typed, Grown

(* A page that was right stays so.                                         *)
LEMMA PageGrown ==
    ASSUME Grown, NEW p, PageOK(p, Len(owner), issued, Used("say"))
    PROVE  PageOK(p, Len(owner'), issued', Used("say")')
<1>1. PICK n, k, w : n = Len(owner) /\ k = issued /\ w = Used("say")
    OBVIOUS
<1>2. PICK a, b, c : a = Len(owner') /\ b = issued' /\ c = Used("say")'
    OBVIOUS
<1>3. /\ n \in Nat /\ k \in Nat /\ w \in Nat /\ a \in Nat /\ b \in Nat /\ c \in Nat
      /\ n <= a /\ k <= b /\ w <= c
    BY <1>1, <1>2 DEF Grown
<1>4. PageOK(p, n, k, w)
    BY <1>1
<1>5. PageOK(p, a, b, c)
    BY <1>3, <1>4, PageStays
<1> QED
    BY <1>2, <1>5

(* An answer is taken in, and something else is asked.                     *)
LEMMA CookiesType ==
    ASSUME Typed, NEW q \in net, q.status = "ok"
    PROVE  Cookies(q) \in 0..issued
<1>1. q.op # "start" => q.val \in 0..issued
    BY DEF Typed, RequestOK
<1>2. jar \in 0..issued /\ issued \in Nat
    BY DEF Typed, ServiceOK
<1>3. CASE q.op = "delete"
    BY <1>3, <1>2 DEF Cookies, Reads
<1>4. CASE q.op # "delete" /\ (q.op = "try" \/ (q.op \in Reads /\ q.val # q.ws))
    BY <1>1, <1>4 DEF Cookies, Reads
<1>5. CASE ~(q.op = "delete" \/ q.op = "try" \/ (q.op \in Reads /\ q.val # q.ws))
    BY <1>2, <1>5 DEF Cookies
<1> QED
    BY <1>3, <1>4, <1>5

LEMMA ArrivalKept ==
    ASSUME Typed, NEW q \in net, NEW calls, Take(q, calls), IsFiniteSet(calls),
           \A c \in calls : RequestOK(c, Len(owner), issued, Used("say")),
           PageOK(page', Len(owner), issued, Used("say")), StorageOK'
    PROVE  /\ Typed' /\ Counted /\ net' = (net \ {q}) \union calls /\ q.status = "ok"
           /\ UNCHANGED <<owner, ended, stored>> /\ \A k \in Kinds : Used(k)' = Used(k)
<1>1. /\ q.status = "ok" /\ jar' = Cookies(q) /\ net' = (net \ {q}) \union calls
      /\ UNCHANGED service /\ UNCHANGED budget
    BY DEF Take
<1>2. BudgetOK' /\ Counted /\ \A k \in Kinds : Used(k)' = Used(k)
    BY <1>1, SameBudget DEF Typed
<1>3. Grown
    BY <1>1, <1>2, SameService
<1>4. /\ owner' = owner /\ ended' = ended /\ stored' = stored /\ issued' = issued
    BY <1>1 DEF service
<1>5. Used("say")' = Used("say")
    BY <1>2, Kind
<1>6. jar' \in 0..issued'
    BY <1>1, <1>4, CookiesType
<1>7. IsFiniteSet(net')
  <2>1. IsFiniteSet(net)
    BY DEF Typed
  <2>2. IsFiniteSet(net \ {q})
    BY <2>1, FS_Subset
  <2> QED
    BY <1>1, <2>2, FS_Union
<1>8. \A r \in net' \ net : RequestOK(r, Len(owner'), issued', Used("say")')
    BY <1>1, <1>4, <1>5
<1>9. PageOK(page', Len(owner'), issued', Used("say")')
    BY <1>4, <1>5
<1>10. Typed'
    BY <1>3, <1>6, <1>7, <1>8, <1>9, StepTyped
<1> QED
    BY <1>1, <1>2, <1>4, <1>10

(* The page does something of its own.                                     *)
LEMMA OwnKept ==
    ASSUME Typed, NEW calls, net' \subseteq net \union calls, IsFiniteSet(calls),
           UNCHANGED <<jar, service>>, BudgetOK', Counted,
           \A c \in calls : RequestOK(c, Len(owner), issued, Used("say")'),
           PageOK(page', Len(owner), issued, Used("say")'), StorageOK'
    PROVE  Typed' /\ UNCHANGED <<owner, ended, stored>>
<1>1. UNCHANGED service /\ jar' = jar
    OBVIOUS
<1>2. Grown
    BY <1>1, SameService
<1>3. /\ owner' = owner /\ ended' = ended /\ stored' = stored /\ issued' = issued
    BY <1>1 DEF service
<1>4. jar' \in 0..issued'
    BY <1>1, <1>3 DEF Typed
<1>5. IsFiniteSet(net')
  <2>1. IsFiniteSet(net \union calls)
    BY FS_Union DEF Typed
  <2> QED
    BY <2>1, FS_Subset
<1>6. \A r \in net' \ net : RequestOK(r, Len(owner'), issued', Used("say")')
    BY <1>3
<1>7. PageOK(page', Len(owner'), issued', Used("say")')
    BY <1>3
<1>8. Typed'
    BY <1>2, <1>4, <1>5, <1>6, <1>7, StepTyped
<1> QED
    BY <1>3, <1>8

-----------------------------------------------------------------------------
(* Kinds of steps, for what is said.                                       *)

(* What the page awaits for the consultation.                              *)
ChatsIn(N) == {q \in N : q.by = "page" /\ q.flow = "chat"}

(* The messages that may still be stored, or come back as refused.         *)
SendsIn(N) == {q \in N : q.op = "send" /\ q.status # "ok"}

OnlyPage(N) == \A q \in N : q.by = "page"

SameTalk ==
    /\ page'.session = page.session /\ page'.messages = page.messages
    /\ page'.retry = page.retry /\ page'.input = page.input

(* All steps but those of the service keep what it has, all but those that *)
(* mount the page anew keep that the requests are the page's, unless one   *)
(* fails and goes on by itself.                                            *)
Kept ==
    /\ Typed' /\ Counted /\ UNCHANGED <<owner, ended, stored>>
    /\ OnlyPage(net) => OnlyPage(net') \/ Used("fault")' > 0

(* The request q comes to nothing, or nobody waits for its answer.         *)
Forgets(q) ==
    \/ SendsIn(net') \subseteq SendsIn(net) \ {q}
    \/ /\ q \in SendsIn(net) /\ q.status = "sent"
       /\ \E r : r.text = q.text /\ SendsIn(net') \subseteq (SendsIn(net) \ {q}) \union {r}

(* Nothing happens to the consultation.                                    *)
Quiet ==
    /\ Kept /\ SameTalk /\ page'.action = page.action
    /\ ChatsIn(net') = ChatsIn(net)
    /\ SendsIn(net') \subseteq SendsIn(net) \/ \E q : Forgets(q)
    /\ Used("say")' = Used("say")

(* The input changes.                                                      *)
Utters ==
    /\ Kept /\ page'.session = page.session /\ page'.messages = page.messages
    /\ page'.retry = page.retry /\ page'.action = page.action
    /\ page'.input = Used("say")' /\ Used("say")' = Used("say") + 1
    /\ net' = net

(* A read of the refresh, a start or an end comes to nothing, or is over.  *)
Drops(q) ==
    /\ Kept /\ SameTalk /\ Used("say")' = Used("say")
    /\ q \in ChatsIn(net) /\ q.op # "send"
    /\ ChatsIn(net') = ChatsIn(net) \ {q} /\ SendsIn(net') \subseteq SendsIn(net)
    /\ page'.action = IF q.op \in {"start", "end"} \/ ChatsIn(net) \ {q} = {} THEN "none"
                      ELSE page.action
    /\ q.op = "end" => q.status = "refused" \/ Used("fault")' > 0

(* A message was not answered.                                             *)
Misses(q) ==
    /\ Kept /\ Used("say")' = Used("say")
    /\ q \in ChatsIn(net) /\ q.op = "send"
    /\ ChatsIn(net') = ChatsIn(net) \ {q} /\ Forgets(q)
    /\ page'.session = page.session /\ page'.messages = Mark(page.messages, q.id, TRUE)
    /\ page'.input = q.text /\ page'.retry = [id |-> q.id, text |-> q.text]
    /\ page'.action = "none"
    /\ q.status = "refused" \/ Used("fault")' = Used("fault") + 1

(* A session is asked for.                                                 *)
Starts(q) ==
    /\ Kept /\ SameTalk /\ Used("say")' = Used("say")
    /\ page.action = "none" /\ page'.action = "starting"
    /\ net' = net \union {q} /\ q.by = "page" /\ q.flow = "chat" /\ q.op = "start"
    /\ q.status = "sent"

(* A message is sent.                                                      *)
Sends(q) ==
    /\ Kept /\ Used("say")' = Used("say")
    /\ page.action = "none" /\ page'.action = "sending"
    /\ page.session # 0 /\ page'.session = page.session
    /\ net' = net \union {q} /\ q.by = "page" /\ q.flow = "chat" /\ q.op = "send"
    /\ q.status = "sent" /\ q.session = page.session
    /\ page'.input = 0 /\ page'.retry = NoRetry

SendsNew(q) ==
    /\ Sends(q) /\ page.input # 0
    /\ q.id = <<page.session, Len(page.messages) + 1>> /\ q.text = page.input
    /\ page'.messages = Append(page.messages,
           [by |-> "user", id |-> q.id, text |-> q.text, failed |-> FALSE])

SendsAgain(q) ==
    /\ Sends(q) /\ page.retry # NoRetry
    /\ q.id = page.retry.id /\ q.text = page.retry.text
    /\ page'.messages = Mark(page.messages, q.id, FALSE)

(* The end is asked for.                                                   *)
Ends(q) ==
    /\ Kept /\ SameTalk /\ Used("say")' = Used("say")
    /\ page.action = "none" /\ page'.action = "ending"
    /\ net' = net \union {q} /\ q.by = "page" /\ q.flow = "chat" /\ q.op = "end"
    /\ q.status = "sent" /\ q.session = page.session /\ page.session # 0

(* An answer is followed by a refresh.                                     *)
Refreshes(q) ==
    /\ Kept /\ Used("say")' = Used("say") /\ q.status = "ok"
    /\ q \in ChatsIn(net) /\ page'.action = page.action
    /\ page'.retry = page.retry /\ page'.input = page.input
    /\ \E ws : net' = (net \ {q}) \union Refresh("chat", "page", ws)

Volta(id) == [by |-> "volta", id |-> id, text |-> 0, failed |-> FALSE]

HasStarted(q) ==
    /\ Refreshes(q) /\ q.op = "start"
    /\ page'.session = q.val /\ page'.messages = <<Volta(NoEntry)>>

HasReply(q) ==
    /\ Refreshes(q) /\ q.op = "send"
    /\ page'.session = page.session
    /\ page'.messages = Append(page.messages, Volta(q.id))

HasEnded(q) ==
    /\ Refreshes(q) /\ q.op = "end"
    /\ page'.session = 0 /\ page'.messages = page.messages

(* A new trial, or a deletion.                                             *)
Clears ==
    /\ Kept /\ Used("say")' = Used("say")
    /\ page'.session = 0 /\ page'.messages = <<>> /\ page'.action = page.action
    /\ page'.retry = page.retry /\ page'.input = page.input
    /\ ChatsIn(net') = ChatsIn(net) /\ SendsIn(net') \subseteq SendsIn(net)

(* The page is mounted anew; what it awaited goes on without it.           *)
Relabelled(N) ==
    \E by \in {"left", "gone"}, B \in SUBSET N : 
        net' = {[q EXCEPT !.by = IF by = "gone" \/ @ = "page" THEN by ELSE @] : q \in B}

Mounts ==
    /\ Typed' /\ Counted /\ UNCHANGED <<owner, ended, stored>>
    /\ page' = Mounted(storage) /\ Used("say")' = Used("say")
    /\ Remounts' = Remounts + 1 /\ Used("fault")' = Used("fault")
    /\ Relabelled(net)

(* The service answers q with r, which goes nowhere if nobody waits.       *)
AnswerTo(q, r) ==
    /\ r.op = q.op /\ r.flow = q.flow /\ r.by = q.by /\ r.session = q.session
    /\ r.id = q.id /\ r.text = q.text /\ r.status \in {"ok", "refused"}

Serves(q, r) ==
    /\ Typed' /\ Counted /\ \A k \in Kinds : Used(k)' = Used(k)
    /\ page' = page /\ storage' = storage
    /\ q \in net /\ q.status = "sent" /\ AnswerTo(q, r)
    /\ net' = (net \ {q}) \union IF q.by = "gone" THEN {} ELSE {r}
    /\ owner' = IF r.status = "ok" /\ q.op = "start" THEN Append(owner, q.ws) ELSE owner
    /\ r.status = "ok" /\ q.op = "start" => r.val = Len(owner) + 1
    /\ ended' = IF r.status = "ok" /\ q.op = "end" THEN ended \union {q.session} ELSE ended
    /\ stored' = IF r.status = "ok" /\ q.op = "send"
                 THEN Append(stored, <<q.session, q.text>>) ELSE stored

-----------------------------------------------------------------------------
(* Each action is a step of one of the kinds.                              *)
Here(p) == PageOK(p, Len(owner), issued, Used("say"))

LEMMA EditsHere ==
    ASSUME Typed, NEW p, Here(p)
    PROVE
        /\ Here([p EXCEPT !.api = TRUE])
        /\ Here([p EXCEPT !.action = "none"])
        /\ Here([p EXCEPT !.working = "none"])
        /\ Here([p EXCEPT !.working = "none", !.deleted = TRUE])
        /\ Here([p EXCEPT !.recording = FALSE])
        /\ Here([p EXCEPT !.receipt = 0])
        /\ Here([p EXCEPT !.error = TRUE])
        /\ Here([p EXCEPT !.error = FALSE, !.recording = TRUE])
        /\ Here([p EXCEPT !.error = TRUE, !.state = "error"])
        /\ Here([p EXCEPT !.error = TRUE, !.state = "error", !.action = "none"])
        /\ Here([p EXCEPT !.error = TRUE, !.state = "active", !.action = "none"])
        /\ Here([p EXCEPT !.action = "starting", !.error = FALSE])
        /\ Here([p EXCEPT !.action = "ending", !.state = "ending", !.error = FALSE])
        /\ Here(Cleared(p))
        /\ Here(Reset(p))
        /\ Here(Sending(p))
        /\ \A v \in Nat :
              Here([p EXCEPT !.profile = v])
        /\ \A v \in Nat :
              Here([p EXCEPT !.memories = v])
        /\ \A v \in 0..issued :
              Here([p EXCEPT !.csrf = v])
        /\ \A v \in 0..Used("say") :
              Here([p EXCEPT !.input = v])
        /\ \A v \in 0..Used("say") :
              Here([p EXCEPT !.input = v, !.recording = FALSE])
        /\ \A kind \in {"link", "export", "delete"} :
              Here([p EXCEPT !.working = kind, !.deleted = FALSE])
        /\ \A v \in Nat :
              Here([p EXCEPT !.receipt = v, !.session = 0, !.state = "complete"])
        /\ \A ms \in Seq(Entry) :
              Here([p EXCEPT !.messages = ms])
        /\ \A v \in 0..Len(owner), ms \in Seq(Entry) :
              Here([p EXCEPT !.session = v, !.state = "active", !.messages = ms])
        /\ \A id \in EntryIds(Len(owner)), text \in 1..Used("say"), ms \in Seq(Entry) :
              Here([p EXCEPT !.messages = ms, !.input = text,
                               !.retry = [id |-> id, text |-> text],
                               !.error = TRUE, !.state = "error", !.action = "none"])
<1>1. PICK n, k, w : n = Len(owner) /\ k = issued /\ w = Used("say")
    OBVIOUS
<1>2. n \in Nat /\ k \in Nat /\ w \in Nat
    BY <1>1, UsedType, Kind DEF Typed, ServiceOK
<1>3. PageOK(p, n, k, w)
    BY <1>1 DEF Here
<1> QED
    BY <1>1, <1>2, <1>3, PageEdits, PageValues DEF Here

Asked(q) == RequestOK(q, Len(owner), issued, Used("say"))

LEMMA CallsHere ==
    ASSUME Typed, NEW ws \in 0..issued, NEW tok \in Nat, NEW by \in {"page", "left", "gone"}
    PROVE  /\ Asked(Call("start", "chat", by, ws, tok))
           /\ \A flow \in Flows, op \in {"profile", "memories"} :
                 Asked(Call(op, flow, by, ws, tok))
           /\ \A flow \in Flows \ {"chat"}, op \in {"me", "export", "try", "delete", "link"} :
                 Asked(Call(op, flow, by, ws, tok))
           /\ \A s \in 1..Len(owner) :
                 Asked([Call("end", "chat", by, ws, tok) EXCEPT !.session = s])
           /\ \A s \in 1..Len(owner), id \in EntryIds(Len(owner)), text \in 1..Used("say") :
                 Asked([Call("send", "chat", by, ws, tok) EXCEPT
                               !.session = s, !.id = id, !.text = text])
<1>1. PICK n, k, w : n = Len(owner) /\ k = issued /\ w = Used("say")
    OBVIOUS
<1>2. n \in Nat /\ k \in Nat /\ w \in Nat /\ ws \in 0..k
    BY <1>1, UsedType, Kind DEF Typed, ServiceOK
<1> QED
    BY <1>1, <1>2, CallOK DEF Asked

LEMMA FinitePair ==
    ASSUME NEW a, NEW b
    PROVE  IsFiniteSet({a}) /\ IsFiniteSet({a, b})
<1>1. {} \union {a} = {a} /\ {a} \union {b} = {a, b}
    OBVIOUS
<1>2. IsFiniteSet({} \union {a})
    BY FS_EmptySet, FS_AddElement
<1>3. IsFiniteSet({a} \union {b})
    BY <1>1, <1>2, FS_AddElement
<1> QED
    BY <1>1, <1>2, <1>3

LEMMA RefreshHere ==
    ASSUME Typed, NEW ws \in 0..issued, NEW flow \in Flows, NEW by \in {"page", "left", "gone"}
    PROVE  /\ IsFiniteSet(Refresh(flow, by, ws))
           /\ \A c \in Refresh(flow, by, ws) :
                 /\ Asked(c) /\ c.flow = flow /\ c.by = by /\ c.status = "sent"
                 /\ c.op \in {"profile", "memories"}
<1>1. Refresh(flow, by, ws) = {Call("profile", flow, by, ws, 0), Call("memories", flow, by, ws, 0)}
    BY DEF Refresh
<1>2. IsFiniteSet(Refresh(flow, by, ws))
    BY <1>1, FinitePair
<1>3. \A op \in {"profile", "memories"} : Asked(Call(op, flow, by, ws, 0))
    BY CallsHere
<1> QED
    BY <1>1, <1>2, <1>3 DEF Call

(* A request of another flow than the consultation's is answered.          *)
LEMMA QuietArrival ==
    ASSUME Typed, NEW q \in net, NEW calls, Take(q, calls), IsFiniteSet(calls),
           \A c \in calls : Asked(c) /\ c.by = q.by /\ c.flow # "chat",
           q \notin ChatsIn(net), Here(page'), StorageOK'
    PROVE  /\ Kept /\ Used("say")' = Used("say")
           /\ ChatsIn(net') = ChatsIn(net) /\ SendsIn(net') \subseteq SendsIn(net)
<1>1. /\ Typed' /\ Counted /\ net' = (net \ {q}) \union calls /\ q.status = "ok"
      /\ UNCHANGED <<owner, ended, stored>> /\ Used("say")' = Used("say")
    BY ArrivalKept, Kind DEF Here, Asked
<1>2. \A c \in calls : c.op # "send"
    BY DEF Asked, RequestOK
<1> QED
    BY <1>1, <1>2 DEF Kept, OnlyPage, ChatsIn, SendsIn

(* Settled changes what the reads of a flow are awaited for.               *)
LEMMA SettledIs ==
    ASSUME NEW p, NEW q
    PROVE  Settled(p, q) = IF ChatsIn(net) \ {q} # {} /\ q.flow = "chat" THEN p
                           ELSE IF q.flow = "chat" THEN [p EXCEPT !.action = "none"]
                           ELSE Settled(p, q)
<1>1. q.flow = "chat" => (OtherPending(q) <=> ChatsIn(net) \ {q} # {})
    BY DEF OtherPending, ChatsIn
<1> QED
    BY <1>1 DEF Settled

LEMMA SettledHere ==
    ASSUME Typed, NEW p, Here(p), NEW q
    PROVE  /\ Here(Settled(p, q)) 
           /\ Settled(p, q).session = p.session /\ Settled(p, q).messages = p.messages
           /\ Settled(p, q).retry = p.retry /\ Settled(p, q).input = p.input
           /\ q.flow # "chat" => Settled(p, q).action = p.action
           /\ q.flow = "chat" => Settled(p, q).action =
                                     IF ChatsIn(net) \ {q} = {} THEN "none" ELSE p.action
<1>1. Settled(p, q) \in {p, [p EXCEPT !.action = "none"],
                         [p EXCEPT !.working = "none", !.deleted = TRUE]}
    BY DEF Settled
<1>2. Here(Settled(p, q))
    BY <1>1, EditsHere
<1>3. p \in Page
    BY DEF Here, PageOK
<1>4. CASE q.flow = "chat"
  <2>1. Settled(p, q) = IF ChatsIn(net) \ {q} # {} THEN p ELSE [p EXCEPT !.action = "none"]
    BY <1>4, SettledIs
  <2> QED
    BY <2>1, <1>2, <1>3, <1>4 DEF Page
<1>5. CASE q.flow # "chat"
  <2>1. Settled(p, q) \in {p, [p EXCEPT !.working = "none", !.deleted = TRUE]}
    BY <1>5 DEF Settled
  <2> QED
    BY <2>1, <1>2, <1>3, <1>5 DEF Page
<1> QED
    BY <1>4, <1>5

LEMMA ContextStep ==
    ASSUME Typed, NEW q \in net, ContextLoaded(q)
    PROVE  Quiet \/ Drops(q)
<1>1. PICK p : p = page
    OBVIOUS
<1>2. PICK v : v = q.val
    OBVIOUS
<1>3. /\ q.op \in {"profile", "memories"} /\ Take(q, {})
      /\ Show(IF q.by # "page" THEN p
              ELSE IF q.op = "profile" THEN Settled([p EXCEPT !.profile = v], q)
              ELSE Settled([p EXCEPT !.memories = v], q))
    BY <1>1, <1>2 DEF ContextLoaded
<1>4. Here(p) /\ v \in Nat /\ p \in Page /\ StorageOK
  <2>1. q \in Request
    BY DEF Typed, RequestOK
  <2>2. Here(p)
    BY <1>1 DEF Typed, Here
  <2> QED
    BY <2>1, <2>2, <1>2 DEF Typed, Here, PageOK, Request
<1>5. /\ Here([p EXCEPT !.profile = v]) /\ Here([p EXCEPT !.memories = v])
    BY <1>4, EditsHere
<1>6. PICK r : r = IF q.by # "page" THEN p
                   ELSE IF q.op = "profile" THEN Settled([p EXCEPT !.profile = v], q)
                   ELSE Settled([p EXCEPT !.memories = v], q)
    OBVIOUS
<1>7. /\ Here(r) /\ r.session = p.session /\ r.messages = p.messages
      /\ r.retry = p.retry /\ r.input = p.input
      /\ q.by # "page" \/ q.flow # "chat" => r.action = p.action
      /\ q.by = "page" /\ q.flow = "chat" =>
             r.action = IF ChatsIn(net) \ {q} = {} THEN "none" ELSE p.action
  <2>1. CASE q.by # "page"
    BY <2>1, <1>4, <1>6
  <2>2. CASE q.by = "page" /\ q.op = "profile"
    <3>1. PICK o : o = [p EXCEPT !.profile = v]
      OBVIOUS
    <3>2. /\ Here(o) /\ o.session = p.session /\ o.messages = p.messages
          /\ o.retry = p.retry /\ o.input = p.input /\ o.action = p.action
      BY <3>1, <1>4, <1>5 DEF Page
    <3>3. r = Settled(o, q)
      BY <2>2, <3>1, <1>6
    <3>4. /\ Here(r) /\ r.session = o.session /\ r.messages = o.messages
          /\ r.retry = o.retry /\ r.input = o.input
          /\ q.flow # "chat" => r.action = o.action
          /\ q.flow = "chat" => r.action = IF ChatsIn(net) \ {q} = {} THEN "none" ELSE o.action
      BY <3>2, <3>3, SettledHere
    <3> QED
      BY <2>2, <3>2, <3>4
  <2>3. CASE q.by = "page" /\ q.op = "memories"
    <3>1. PICK o : o = [p EXCEPT !.memories = v]
      OBVIOUS
    <3>2. /\ Here(o) /\ o.session = p.session /\ o.messages = p.messages
          /\ o.retry = p.retry /\ o.input = p.input /\ o.action = p.action
      BY <3>1, <1>4, <1>5 DEF Page
    <3>3. r = Settled(o, q)
      BY <2>3, <3>1, <1>6
    <3>4. /\ Here(r) /\ r.session = o.session /\ r.messages = o.messages
          /\ r.retry = o.retry /\ r.input = o.input
          /\ q.flow # "chat" => r.action = o.action
          /\ q.flow = "chat" => r.action = IF ChatsIn(net) \ {q} = {} THEN "none" ELSE o.action
      BY <3>2, <3>3, SettledHere
    <3> QED
      BY <2>3, <3>2, <3>4
  <2> QED
    BY <2>1, <2>2, <2>3, <1>3
<1>8. StorageOK' /\ page' = r
  <2>1. r.session \in Nat /\ r.messages \in Seq(Entry) /\ Show(r)
    BY <1>3, <1>6, <1>7 DEF Here, PageOK, Page
  <2> QED
    BY <2>1, <1>4, ShowStores
<1>9. SameTalk
    BY <1>1, <1>7, <1>8 DEF SameTalk
<1>10. IsFiniteSet({}) /\ Here(page')
    BY <1>7, <1>8, FS_EmptySet
<1>11. CASE q \notin ChatsIn(net)
  <2>1. /\ Kept /\ Used("say")' = Used("say")
        /\ ChatsIn(net') = ChatsIn(net) /\ SendsIn(net') \subseteq SendsIn(net)
    BY <1>3, <1>8, <1>10, <1>11, QuietArrival
  <2>2. page'.action = page.action
    BY <1>1, <1>7, <1>8, <1>11 DEF ChatsIn
  <2> QED
    BY <2>1, <2>2, <1>9 DEF Quiet
<1>12. CASE q \in ChatsIn(net)
  <2>1. /\ Typed' /\ Counted /\ net' = (net \ {q}) \union {} /\ q.status = "ok"
        /\ UNCHANGED <<owner, ended, stored>> /\ Used("say")' = Used("say")
    BY <1>3, <1>8, <1>10, ArrivalKept, Kind DEF Here
  <2>2. net' = net \ {q}
    BY <2>1
  <2>3. Kept
    BY <2>1, <2>2 DEF Kept, OnlyPage
  <2>4. ChatsIn(net') = ChatsIn(net) \ {q} /\ SendsIn(net') \subseteq SendsIn(net)
    BY <2>2 DEF ChatsIn, SendsIn
  <2>5. page'.action = IF ChatsIn(net) \ {q} = {} THEN "none" ELSE page.action
    BY <1>1, <1>7, <1>8, <1>12 DEF ChatsIn
  <2> QED
    BY <1>3, <1>9, <1>12, <2>1, <2>3, <2>4, <2>5 DEF Drops
<1> QED
    BY <1>11, <1>12

LEMMA ShownHere ==
    ASSUME Typed, NEW p, Here(p), Show(p)
    PROVE  StorageOK' /\ page' = p /\ Here(page')
<1>1. p.session \in Nat /\ p.messages \in Seq(Entry) /\ StorageOK
    BY DEF Typed, Here, PageOK, Page
<1> QED
    BY <1>1, ShowStores

LEMMA HereNow ==
    ASSUME Typed
    PROVE  /\ Here(page) /\ page \in Page /\ StorageOK /\ jar \in 0..issued /\ issued \in Nat
           /\ Len(owner) \in Nat /\ Used("say") \in Nat /\ BudgetOK
           /\ \A q \in net : Asked(q) /\ q \in Request
BY UsedType, Kind DEF Typed, Here, PageOK, ServiceOK, RequestOK, Asked

(* The talk of a page whose other fields changed.                          *)
SameFields(r, p) ==
    /\ r.session = p.session /\ r.messages = p.messages /\ r.retry = p.retry
    /\ r.input = p.input /\ r.action = p.action

LEMMA OtherFields ==
    ASSUME NEW p \in Page, NEW v \in Nat, NEW kind
    PROVE  /\ SameFields([p EXCEPT !.api = TRUE], p)
           /\ SameFields([p EXCEPT !.working = "none"], p)
           /\ SameFields([p EXCEPT !.recording = FALSE], p)
           /\ SameFields([p EXCEPT !.receipt = 0], p)
           /\ SameFields([p EXCEPT !.error = TRUE], p)
           /\ SameFields([p EXCEPT !.error = FALSE, !.recording = TRUE], p)
           /\ SameFields([p EXCEPT !.error = TRUE, !.state = "error"], p)
           /\ SameFields([p EXCEPT !.csrf = v], p)
           /\ SameFields([p EXCEPT !.working = kind, !.deleted = FALSE], p)
BY DEF Page, SameFields

(* Calls that getWorkspace is followed by.                                 *)
LEMMA FollowCalls ==
    ASSUME Typed, NEW q \in net, q.op = "me", q.status = "ok", NEW calls,
           calls = IF q.flow \in {"link", "delete"}
                   THEN {Call(q.flow, q.flow, q.by, Cookies(q), q.val)}
                   ELSE IF Mode = "try" /\ (q.flow = "boot" => NeedsTrial(q))
                   THEN {Call("try", q.flow, q.by, Cookies(q), q.val)}
                   ELSE IF q.flow = "boot" /\ q.by = "left" THEN {}
                   ELSE Refresh(q.flow, q.by, Cookies(q))
    PROVE  /\ IsFiniteSet(calls) /\ q \notin ChatsIn(net)
           /\ \A c \in calls : Asked(c) /\ c.by = q.by /\ c.flow # "chat"
<1>1. q \in Request /\ Asked(q)
    BY HereNow
<1>2. /\ q.flow \in Flows \ {"chat"} /\ q.by \in {"page", "left", "gone"}
      /\ q.val \in Nat
    BY <1>1 DEF Asked, RequestOK, Request
<1>3. q \notin ChatsIn(net)
    BY <1>2 DEF ChatsIn
<1>4. PICK ws : ws = Cookies(q) /\ ws \in 0..issued
    BY CookiesType
<1>5. PICK by, flow, v : by = q.by /\ flow = q.flow /\ v = q.val
    OBVIOUS
<1>6. /\ by \in {"page", "left", "gone"} /\ flow \in Flows \ {"chat"} /\ v \in Nat
    BY <1>2, <1>5
<1>7. \A op \in {"try", "delete", "link"} :
         LET c == Call(op, flow, by, ws, v) IN Asked(c) /\ c.by = by /\ c.flow = flow
    BY <1>4, <1>6, CallsHere DEF Call
<1>8. \/ calls = {}
      \/ flow \in {"link", "delete"} /\ calls = {Call(flow, flow, by, ws, v)}
      \/ calls = {Call("try", flow, by, ws, v)}
      \/ calls = Refresh(flow, by, ws)
    BY <1>4, <1>5
<1>9. CASE calls = {}
    BY <1>3, <1>9, FS_EmptySet
<1>10. CASE flow \in {"link", "delete"} /\ calls = {Call(flow, flow, by, ws, v)}
    BY <1>3, <1>5, <1>6, <1>7, <1>10, FinitePair
<1>11. CASE calls = {Call("try", flow, by, ws, v)}
  <2>1. PICK c : c = Call("try", flow, by, ws, v)
    OBVIOUS
  <2>2. Asked(c) /\ c.by = by /\ c.flow = flow
    BY <1>7, <2>1
  <2> QED
    BY <1>3, <1>5, <1>6, <1>11, <2>1, <2>2, FinitePair
<1>12. CASE calls = Refresh(flow, by, ws)
  <2>1. /\ IsFiniteSet(Refresh(flow, by, ws))
        /\ \A c \in Refresh(flow, by, ws) : Asked(c) /\ c.flow = flow /\ c.by = by
    BY <1>4, <1>6, RefreshHere
  <2> QED
    BY <1>3, <1>5, <1>6, <1>12, <2>1
<1> QED
    BY <1>8, <1>9, <1>10, <1>11, <1>12

LEMMA WorkspaceStep ==
    ASSUME Typed, NEW q \in net, WorkspaceKnown(q)
    PROVE  Quiet
<1>1. PICK calls :
         /\ calls = IF q.flow \in {"link", "delete"}
                    THEN {Call(q.flow, q.flow, q.by, Cookies(q), q.val)}
                    ELSE IF Mode = "try" /\ (q.flow = "boot" => NeedsTrial(q))
                    THEN {Call("try", q.flow, q.by, Cookies(q), q.val)}
                    ELSE IF q.flow = "boot" /\ q.by = "left" THEN {}
                    ELSE Refresh(q.flow, q.by, Cookies(q))
         /\ Take(q, calls)
    BY DEF WorkspaceKnown
<1>2. PICK p, v : p = page /\ v = q.val
    OBVIOUS
<1>3. q.op = "me" /\ Show(IF q.by = "page" THEN [p EXCEPT !.csrf = v] ELSE p)
    BY <1>2 DEF WorkspaceKnown
<1>4. q.status = "ok"
    BY <1>1 DEF Take
<1>5. /\ IsFiniteSet(calls) /\ q \notin ChatsIn(net)
      /\ \A c \in calls : Asked(c) /\ c.by = q.by /\ c.flow # "chat"
    BY <1>1, <1>3, <1>4, FollowCalls
<1>6. Here(p) /\ p \in Page /\ v \in 0..issued /\ v \in Nat
  <2>1. Asked(q) /\ issued \in Nat /\ Here(page) /\ page \in Page
    BY HereNow
  <2> QED
    BY <2>1, <1>2, <1>3 DEF Asked, RequestOK
<1>7. PICK r : r = IF q.by = "page" THEN [p EXCEPT !.csrf = v] ELSE p
    OBVIOUS
<1>8. Here(r)
    BY <1>6, <1>7, EditsHere
<1>9. /\ r.session = p.session /\ r.messages = p.messages /\ r.retry = p.retry
      /\ r.input = p.input /\ r.action = p.action
    BY <1>6, <1>7, OtherFields DEF SameFields
<1>10. StorageOK' /\ page' = r /\ Here(page')
    BY <1>3, <1>7, <1>8, ShownHere
<1>11. /\ Kept /\ Used("say")' = Used("say")
       /\ ChatsIn(net') = ChatsIn(net) /\ SendsIn(net') \subseteq SendsIn(net)
    BY <1>1, <1>5, <1>10, QuietArrival
<1> QED
    BY <1>2, <1>9, <1>10, <1>11 DEF Quiet, SameTalk

LEMMA AccountStep ==
    ASSUME Typed, NEW q \in net, AccountDone(q)
    PROVE  Quiet
<1>1. PICK p : p = page
    OBVIOUS
<1>2. /\ q.op \in {"link", "export"} /\ Take(q, {})
      /\ Show(IF q.by = "page" THEN [p EXCEPT !.working = "none"] ELSE p)
    BY <1>1 DEF AccountDone
<1>3. Here(p) /\ p \in Page /\ Asked(q)
    BY <1>1, HereNow
<1>4. q \notin ChatsIn(net)
    BY <1>2, <1>3 DEF Asked, RequestOK, ChatsIn
<1>5. PICK r : r = IF q.by = "page" THEN [p EXCEPT !.working = "none"] ELSE p
    OBVIOUS
<1>6. Here(r)
    BY <1>3, <1>5, EditsHere
<1>7. /\ r.session = p.session /\ r.messages = p.messages /\ r.retry = p.retry
      /\ r.input = p.input /\ r.action = p.action
    BY <1>3, <1>5, OtherFields DEF SameFields
<1>8. StorageOK' /\ page' = r /\ Here(page')
    BY <1>2, <1>5, <1>6, ShownHere
<1>9. /\ Kept /\ Used("say")' = Used("say")
      /\ ChatsIn(net') = ChatsIn(net) /\ SendsIn(net') \subseteq SendsIn(net)
    BY <1>2, <1>4, <1>8, FS_EmptySet, QuietArrival
<1> QED
    BY <1>1, <1>7, <1>8, <1>9 DEF Quiet, SameTalk

LEMMA UnseenStep ==
    ASSUME Typed, NEW q \in net, Unseen(q)
    PROVE  Quiet
<1>1. /\ q.by = "left" /\ Take(q, {}) /\ page' = page /\ storage' = storage
    BY DEF Unseen
<1>2. q \notin ChatsIn(net)
    BY <1>1 DEF ChatsIn
<1>3. StorageOK' /\ Here(page')
    BY <1>1, HereNow DEF StorageOK
<1>4. /\ Kept /\ Used("say")' = Used("say")
      /\ ChatsIn(net') = ChatsIn(net) /\ SendsIn(net') \subseteq SendsIn(net)
    BY <1>1, <1>2, <1>3, FS_EmptySet, QuietArrival
<1> QED
    BY <1>1, <1>4 DEF Quiet, SameTalk

(* A new trial, and a deletion, empty the page of it they are made for.    *)
LEMMA ClearedFields ==
    ASSUME NEW p \in Page, NEW v \in Nat
    PROVE  \A r \in {Cleared(p), Reset(p), [Cleared(p) EXCEPT !.csrf = v]} :
               /\ r.session = 0 /\ r.messages = <<>> /\ r.retry = p.retry
               /\ r.input = p.input /\ r.action = p.action
BY DEF Page, Cleared, Reset

LEMMA TryStep ==
    ASSUME Typed, NEW q \in net, TryCreated(q)
    PROVE  Quiet \/ Clears
<1>1. PICK p, v : p = page /\ v = q.val
    OBVIOUS
<1>2. PICK calls : /\ calls = IF q.flow = "boot" /\ q.by = "left" THEN {}
                              ELSE Refresh(q.flow, q.by, v)
                   /\ Take(q, calls) /\ q.op = "try"
    BY <1>1 DEF TryCreated
<1>3. PICK r : r = IF q.by # "page" THEN p
                   ELSE IF q.flow = "boot" THEN CacheToken(Cleared(p), q)
                   ELSE CacheToken(p, q)
    OBVIOUS
<1>4. /\ page' = r
      /\ storage' = IF q.flow = "boot" THEN [session |-> 0, messages |-> <<>>, trial |-> v]
                    ELSE [storage EXCEPT !.trial = v]
    BY <1>1, <1>3 DEF TryCreated
<1>5. /\ Here(p) /\ p \in Page /\ Asked(q) /\ q \in Request /\ StorageOK /\ issued \in Nat
    BY <1>1, HereNow
<1>6. /\ v \in 0..issued /\ v \in Nat /\ q.flow \in Flows \ {"chat"}
      /\ q.by \in {"page", "left", "gone"}
    BY <1>1, <1>2, <1>5 DEF Asked, RequestOK, Request
<1>7. q \notin ChatsIn(net)
    BY <1>6 DEF ChatsIn
<1>8. /\ IsFiniteSet(calls)
      /\ \A c \in calls : Asked(c) /\ c.by = q.by /\ c.flow # "chat"
  <2>1. PICK by, flow : by = q.by /\ flow = q.flow
    OBVIOUS
  <2>2. CASE calls = {}
    BY <2>2, FS_EmptySet
  <2>3. CASE calls = Refresh(flow, by, v)
    BY <1>6, <2>1, <2>3, RefreshHere
  <2> QED
    BY <1>2, <2>1, <2>2, <2>3
<1>9. Here(Cleared(p)) /\ Cleared(p) \in Page
  <2>1. Here(Cleared(p))
    BY <1>5, EditsHere
  <2> QED
    BY <2>1 DEF Here, PageOK
<1>10. Here(r)
  <2>1. PICK c : c = Cleared(p)
    OBVIOUS
  <2>2. Here([c EXCEPT !.csrf = v]) /\ Here([p EXCEPT !.csrf = v])
    BY <1>5, <1>6, <1>9, <2>1, EditsHere
  <2> QED
    BY <1>1, <1>3, <1>5, <2>1, <2>2 DEF CacheToken
<1>11. StorageOK'
  <2>1. CASE q.flow = "boot"
    <3>1. storage' = [session |-> 0, messages |-> <<>>, trial |-> v]
      BY <1>4, <2>1
    <3> QED
      BY <3>1, <1>6 DEF StorageOK
  <2>2. CASE q.flow # "boot"
    <3>1. storage' = [storage EXCEPT !.trial = v]
      BY <1>4, <2>2
    <3>2. r.session = p.session /\ r.messages = p.messages
      BY <1>3, <1>5, <2>2 DEF CacheToken, Page
    <3> QED
      BY <3>1, <3>2, <1>1, <1>4, <1>5, <1>6 DEF StorageOK
  <2> QED
    BY <2>1, <2>2
<1>12. /\ Kept /\ Used("say")' = Used("say")
       /\ ChatsIn(net') = ChatsIn(net) /\ SendsIn(net') \subseteq SendsIn(net)
    BY <1>2, <1>4, <1>7, <1>8, <1>10, <1>11, QuietArrival
<1>13. CASE q.by = "page" /\ q.flow = "boot"
  <2>1. r = [Cleared(p) EXCEPT !.csrf = v]
    BY <1>1, <1>3, <1>13 DEF CacheToken
  <2>2. /\ r.session = 0 /\ r.messages = <<>> /\ r.retry = p.retry
        /\ r.input = p.input /\ r.action = p.action
    BY <1>5, <1>6, <2>1, ClearedFields
  <2> QED
    BY <1>1, <1>4, <1>12, <2>2 DEF Clears
<1>14. CASE ~(q.by = "page" /\ q.flow = "boot")
  <2>1. r \in {p, [p EXCEPT !.csrf = v]}
    BY <1>1, <1>3, <1>14 DEF CacheToken
  <2>2. /\ r.session = p.session /\ r.messages = p.messages /\ r.retry = p.retry
        /\ r.input = p.input /\ r.action = p.action
    <3>1. SameFields([p EXCEPT !.csrf = v], p)
      BY <1>5, <1>6, OtherFields
    <3>2. SameFields(r, p)
      BY <2>1, <3>1 DEF SameFields
    <3> QED
      BY <3>2 DEF SameFields
  <2> QED
    BY <1>1, <1>4, <1>12, <2>2 DEF Quiet, SameTalk
<1> QED
    BY <1>13, <1>14

LEMMA DeletedStep ==
    ASSUME Typed, NEW q \in net, Deleted(q)
    PROVE  Quiet \/ Clears
<1>1. PICK p, by : p = page /\ by = q.by
    OBVIOUS
<1>2. PICK c : c = Call("me", "reset", by, 0, 0)
    OBVIOUS
<1>3. /\ q.op = "delete" /\ Take(q, {c})
      /\ page' = IF by = "page" THEN Reset(p) ELSE p
      /\ storage' = [session |-> 0, messages |-> <<>>, trial |-> 0]
    BY <1>1, <1>2 DEF Deleted
<1>4. /\ Here(p) /\ p \in Page /\ Asked(q) /\ q \in Request /\ issued \in Nat
    BY <1>1, HereNow
<1>5. q \notin ChatsIn(net) /\ by \in {"page", "left", "gone"}
    BY <1>1, <1>3, <1>4 DEF Asked, RequestOK, Request, ChatsIn
<1>6. Asked(c) /\ c.by = by /\ c.flow = "reset"
  <2>1. 0 \in 0..issued /\ 0 \in Nat /\ "reset" \in Flows \ {"chat"}
    BY <1>4 DEF Flows
  <2>2. Asked(c)
    BY <1>2, <1>5, <2>1, CallsHere
  <2> QED
    BY <1>2, <2>2 DEF Call
<1>7. Here(page')
    BY <1>3, <1>4, EditsHere
<1>8. StorageOK'
    BY <1>3 DEF StorageOK
<1>9. /\ Kept /\ Used("say")' = Used("say")
      /\ ChatsIn(net') = ChatsIn(net) /\ SendsIn(net') \subseteq SendsIn(net)
    BY <1>1, <1>3, <1>5, <1>6, <1>7, <1>8, FinitePair, QuietArrival
<1>10. CASE by = "page"
    BY <1>1, <1>3, <1>4, <1>9, <1>10, ClearedFields DEF Clears
<1>11. CASE by # "page"
    BY <1>1, <1>3, <1>9, <1>11 DEF Quiet, SameTalk
<1> QED
    BY <1>10, <1>11

(* The consultation's own requests are answered.                           *)
LEMMA RefreshArrival ==
    ASSUME Typed, NEW q \in net, q.by = "page", q.op \in {"start", "send", "end"},
           Take(q, Refresh("chat", "page", jar)), Here(page'), StorageOK'
    PROVE  /\ Kept /\ Used("say")' = Used("say") /\ q.status = "ok" /\ q \in ChatsIn(net)
           /\ \E ws : net' = (net \ {q}) \union Refresh("chat", "page", ws)
<1>1. PICK ws, calls : ws = jar /\ calls = Refresh("chat", "page", ws)
    OBVIOUS
<1>2. q \in ChatsIn(net) /\ ws \in 0..issued
    BY <1>1, HereNow DEF Asked, RequestOK, ChatsIn
<1>3. IsFiniteSet(calls) /\ \A c \in calls : Asked(c) /\ c.by = "page"
    BY <1>1, <1>2, RefreshHere DEF Flows
<1>4. /\ Typed' /\ Counted /\ net' = (net \ {q}) \union calls /\ q.status = "ok"
      /\ UNCHANGED <<owner, ended, stored>> /\ Used("say")' = Used("say")
    BY <1>1, <1>3, ArrivalKept, Kind DEF Here, Asked
<1> QED
    BY <1>1, <1>2, <1>3, <1>4 DEF Kept, OnlyPage

LEMMA StartedStep ==
    ASSUME Typed, NEW q \in net, Started(q)
    PROVE  HasStarted(q)
<1>1. PICK p, v, ms : p = page /\ v = q.val /\ ms = <<Volta(NoEntry)>>
    OBVIOUS
<1>2. /\ q.op = "start" /\ q.by = "page" /\ Take(q, Refresh("chat", "page", jar))
      /\ Show([p EXCEPT !.session = v, !.state = "active", !.messages = ms])
    BY <1>1 DEF Started, Volta
<1>3. /\ Here(p) /\ p \in Page /\ v \in 0..Len(owner)
    BY <1>1, <1>2, HereNow DEF Asked, RequestOK
<1>4. ms \in Seq(Entry)
  <2>1. Volta(NoEntry) \in Entry
    BY DEF Volta, Entry, NoEntry
  <2> QED
    BY <1>1, <2>1
<1>5. PICK r : r = [p EXCEPT !.session = v, !.state = "active", !.messages = ms]
    OBVIOUS
<1>6. Here(r)
    BY <1>3, <1>4, <1>5, EditsHere
<1>7. /\ r.session = v /\ r.messages = ms /\ r.retry = p.retry
      /\ r.input = p.input /\ r.action = p.action
    BY <1>3, <1>5 DEF Page
<1>8. StorageOK' /\ page' = r /\ Here(page')
    BY <1>2, <1>5, <1>6, ShownHere
<1>9. Refreshes(q)
    BY <1>1, <1>2, <1>7, <1>8, RefreshArrival DEF Refreshes
<1> QED
    BY <1>1, <1>2, <1>7, <1>8, <1>9 DEF HasStarted

LEMMA RepliedStep ==
    ASSUME Typed, NEW q \in net, Replied(q)
    PROVE  HasReply(q)
<1>1. PICK p, ms : p = page /\ ms = Append(p.messages, Volta(q.id))
    OBVIOUS
<1>2. /\ q.op = "send" /\ q.by = "page" /\ Take(q, Refresh("chat", "page", jar))
      /\ Show([p EXCEPT !.messages = ms])
    BY <1>1 DEF Replied, Volta
<1>3. /\ Here(p) /\ p \in Page /\ q.id \in Nat \X Nat
    BY <1>1, <1>2, HereNow DEF Request
<1>4. ms \in Seq(Entry)
  <2>1. Volta(q.id) \in Entry
    BY <1>3 DEF Volta, Entry
  <2> QED
    BY <1>1, <1>3, <2>1 DEF Page
<1>5. PICK r : r = [p EXCEPT !.messages = ms]
    OBVIOUS
<1>6. Here(r)
    BY <1>3, <1>4, <1>5, EditsHere
<1>7. /\ r.session = p.session /\ r.messages = ms /\ r.retry = p.retry
      /\ r.input = p.input /\ r.action = p.action
    BY <1>3, <1>5 DEF Page
<1>8. StorageOK' /\ page' = r /\ Here(page')
    BY <1>2, <1>5, <1>6, ShownHere
<1>9. Refreshes(q)
    BY <1>1, <1>2, <1>7, <1>8, RefreshArrival DEF Refreshes
<1> QED
    BY <1>1, <1>2, <1>7, <1>8, <1>9 DEF HasReply

LEMMA EndedStep ==
    ASSUME Typed, NEW q \in net, Ended(q)
    PROVE  HasEnded(q)
<1>1. PICK p, v : p = page /\ v = q.session
    OBVIOUS
<1>2. PICK r : r = [p EXCEPT !.receipt = v, !.session = 0, !.state = "complete"]
    OBVIOUS
<1>3. /\ q.op = "end" /\ q.by = "page" /\ Take(q, Refresh("chat", "page", jar)) /\ Show(r)
    BY <1>1, <1>2 DEF Ended, Concluded
<1>4. /\ Here(p) /\ p \in Page /\ v \in Nat
    BY <1>1, HereNow DEF Request
<1>5. Here(r)
    BY <1>2, <1>4, EditsHere
<1>6. /\ r.session = 0 /\ r.messages = p.messages /\ r.retry = p.retry
      /\ r.input = p.input /\ r.action = p.action
    BY <1>2, <1>4 DEF Page
<1>7. StorageOK' /\ page' = r /\ Here(page')
    BY <1>3, <1>5, ShownHere
<1>8. Refreshes(q)
    BY <1>1, <1>3, <1>6, <1>7, RefreshArrival DEF Refreshes
<1> QED
    BY <1>1, <1>3, <1>6, <1>7, <1>8 DEF HasEnded

(* A request that fails is gone, or goes on as one that nobody awaits.     *)
LEMMA FailNet ==
    ASSUME Typed, NEW q \in net, Fail(q)
    PROVE  \E r : /\ Asked(r) /\ r.by = "gone" /\ r.op = q.op /\ r.text = q.text
                 /\ r.status = q.status
                 /\ \/ net' = net \ {q}
                    \/ q.status = "sent" /\ net' = (net \ {q}) \union {r}
<1>1. PICK r : r = [q EXCEPT !.by = "gone"]
    OBVIOUS
<1>2. q \in Request /\ Asked(q)
    BY HereNow
<1>3. /\ r \in Request /\ r.by = "gone" /\ r.op = q.op /\ r.text = q.text
      /\ r.flow = q.flow /\ r.ws = q.ws /\ r.session = q.session /\ r.id = q.id
      /\ r.status = q.status /\ r.val = q.val
    BY <1>1, <1>2 DEF Request
<1>4. Asked(r)
    BY <1>2, <1>3 DEF Asked, RequestOK
<1>5. PICK late \in Late(q) : net' = (net \ {q}) \union late
    BY DEF Fail
<1>6. late = {} \/ (q.status = "sent" /\ late = {r})
    BY <1>1, <1>5 DEF Late
<1> QED
    BY <1>3, <1>4, <1>5, <1>6

LEMMA FailForgets ==
    ASSUME Typed, NEW q \in net, Fail(q)
    PROVE  /\ ChatsIn(net') = ChatsIn(net) \ {q} /\ Forgets(q)
           /\ q.op # "send" => SendsIn(net') \subseteq SendsIn(net)
<1>1. PICK r : /\ r.by = "gone" /\ r.op = q.op /\ r.text = q.text
               /\ \/ net' = net \ {q}
                  \/ q.status = "sent" /\ net' = (net \ {q}) \union {r}
    BY FailNet
<1>2. ChatsIn(net') = ChatsIn(net) \ {q}
    BY <1>1 DEF ChatsIn
<1>3. SendsIn(net') \subseteq (SendsIn(net) \ {q}) \union {r}
    BY <1>1 DEF SendsIn
<1>4. q.op # "send" \/ net' = net \ {q} => SendsIn(net') \subseteq SendsIn(net) \ {q}
    BY <1>1 DEF SendsIn
<1>5. q.op = "send" /\ q.status = "sent" => q \in SendsIn(net)
    BY DEF SendsIn
<1>6. Forgets(q)
    BY <1>1, <1>3, <1>4, <1>5 DEF Forgets
<1> QED
    BY <1>2, <1>4, <1>6

LEMMA FailKept ==
    ASSUME Typed, NEW q \in net, Fail(q), Here(page'), StorageOK'
    PROVE  /\ Kept /\ Used("say")' = Used("say")
           /\ q.status = "refused" \/ Used("fault")' = Used("fault") + 1
           /\ Used("fault") \in Nat
<1>0. PICK r : /\ Asked(r)
               /\ net' = net \ {q} \/ (q.status = "sent" /\ net' = (net \ {q}) \union {r})
    BY FailNet
<1>1. /\ UNCHANGED <<jar, service>>
      /\ \/ q.status = "refused" /\ UNCHANGED budget
         \/ q.status # "refused" /\ Spend("fault")
    BY DEF Fail
<1>2. /\ BudgetOK' /\ Counted /\ Used("say")' = Used("say")
      /\ q.status = "refused" \/ Used("fault")' = Used("fault") + 1
  <2>1. CASE q.status = "refused"
    BY <2>1, <1>1, HereNow, SameBudget, Kind
  <2>2. CASE q.status # "refused"
    <3>1. Spend("fault") /\ BudgetOK /\ "fault" \in Kinds
          /\ "say" \in Kinds \ {"fault"}
      BY <2>2, <1>1, HereNow, Kind
    <3> QED
      BY <2>2, <3>1, SpendOne
  <2> QED
    BY <2>1, <2>2
<1>3. IsFiniteSet({r}) /\ net' \subseteq net \union {r}
    BY <1>0, FinitePair
<1>4. /\ PageOK(page', Len(owner), issued, Used("say")')
      /\ RequestOK(r, Len(owner), issued, Used("say")')
    BY <1>0, <1>2 DEF Here, Asked
<1>5. Typed' /\ UNCHANGED <<owner, ended, stored>>
    BY <1>1, <1>2, <1>3, <1>4, OwnKept
<1>6. Used("fault") \in Nat
    BY HereNow, UsedType, Kind
<1>7. OnlyPage(net) => OnlyPage(net') \/ Used("fault")' > 0
  <2>1. CASE net' = net \ {q}
    BY <2>1 DEF OnlyPage
  <2>2. CASE q.status = "sent"
    BY <1>2, <1>6, <2>2
  <2> QED
    BY <1>0, <2>1, <2>2
<1> QED
    BY <1>2, <1>5, <1>6, <1>7 DEF Kept

LEMMA MarkType ==
    ASSUME NEW ms \in Seq(Entry), NEW id, NEW failed \in BOOLEAN
    PROVE  /\ Mark(ms, id, failed) \in Seq(Entry) /\ Len(Mark(ms, id, failed)) = Len(ms)
           /\ \A i \in 1..Len(ms) :
                 /\ Mark(ms, id, failed)[i].by = ms[i].by
                 /\ Mark(ms, id, failed)[i].id = ms[i].id
                 /\ Mark(ms, id, failed)[i].text = ms[i].text
                 /\ Mark(ms, id, failed)[i].failed =
                       IF ms[i].by = "user" /\ ms[i].id = id THEN failed ELSE ms[i].failed
<1>1. DOMAIN ms = 1..Len(ms) /\ Len(ms) \in Nat
    OBVIOUS
<1>2. Mark(ms, id, failed) = [i \in 1..Len(ms) |->
          IF ms[i].by = "user" /\ ms[i].id = id THEN [ms[i] EXCEPT !.failed = failed] ELSE ms[i]]
    BY <1>1 DEF Mark
<1>3. ASSUME NEW i \in 1..Len(ms)
      PROVE  /\ ms[i] \in Entry /\ Mark(ms, id, failed)[i] \in Entry
             /\ Mark(ms, id, failed)[i].by = ms[i].by
             /\ Mark(ms, id, failed)[i].id = ms[i].id
             /\ Mark(ms, id, failed)[i].text = ms[i].text
             /\ Mark(ms, id, failed)[i].failed =
                   IF ms[i].by = "user" /\ ms[i].id = id THEN failed ELSE ms[i].failed
  <2>1. PICK m : m = ms[i]
    OBVIOUS
  <2>2. m \in Entry
    BY <2>1
  <2>3. [m EXCEPT !.failed = failed] \in Entry
    BY <2>2 DEF Entry
  <2>4. /\ [m EXCEPT !.failed = failed].by = m.by /\ [m EXCEPT !.failed = failed].id = m.id
        /\ [m EXCEPT !.failed = failed].text = m.text
        /\ [m EXCEPT !.failed = failed].failed = failed
    BY <2>2 DEF Entry
  <2> QED
    BY <1>2, <2>1, <2>2, <2>3, <2>4
<1>4. Mark(ms, id, failed) \in [1..Len(ms) -> Entry]
    BY <1>2, <1>3
<1> QED
    BY <1>1, <1>3, <1>4

LEMMA FailStep ==
    ASSUME Typed, NEW q \in net, Fail(q)
    PROVE  Quiet \/ Drops(q) \/ Misses(q)
<1>1. PICK p : p = page
    OBVIOUS
<1>2. /\ Here(p) /\ p \in Page /\ Asked(q) /\ q \in Request
    BY <1>1, HereNow
<1>3. Show(IF q.by = "page" THEN Caught(q) ELSE page)
    BY DEF Fail
<1>4. /\ ChatsIn(net') = ChatsIn(net) \ {q} /\ Forgets(q)
      /\ q.op # "send" => SendsIn(net') \subseteq SendsIn(net)
    BY FailForgets
<1>5. ASSUME NEW r, Here(r), Show(r)
      PROVE  /\ Kept /\ Used("say")' = Used("say") /\ page' = r
             /\ q.status = "refused" \/ Used("fault")' = Used("fault") + 1
             /\ Used("fault") \in Nat
  <2>1. StorageOK' /\ page' = r /\ Here(page')
    BY <1>5, ShownHere
  <2> QED
    BY <2>1, FailKept
<1>6. ASSUME NEW r, Here(r), Show(r), SameFields(r, p), q \notin ChatsIn(net)
      PROVE  Quiet
  <2>1. Kept /\ Used("say")' = Used("say") /\ page' = r
    BY <1>5, <1>6
  <2>2. ChatsIn(net') = ChatsIn(net)
    BY <1>4, <1>6
  <2> QED
    BY <1>1, <1>4, <1>6, <2>1, <2>2 DEF Quiet, SameTalk, SameFields
<1>7. CASE q.by # "page"
  <2>1. Show(p) /\ q \notin ChatsIn(net) /\ SameFields(p, p)
    BY <1>1, <1>3, <1>7 DEF ChatsIn, SameFields
  <2> QED
    BY <1>2, <1>6, <2>1
<1>8. CASE q.by = "page" /\ q.op \in {"profile", "memories"}
  <2>1. PICK r : r = Settled(p, q)
    OBVIOUS
  <2>2. Show(r)
    BY <1>1, <1>3, <1>8, <2>1 DEF Caught
  <2>3. /\ Here(r) /\ r.session = p.session /\ r.messages = p.messages
        /\ r.retry = p.retry /\ r.input = p.input
        /\ q.flow # "chat" => r.action = p.action
        /\ q.flow = "chat" => r.action = IF ChatsIn(net) \ {q} = {} THEN "none" ELSE p.action
    BY <1>2, <2>1, SettledHere
  <2>4. CASE q.flow # "chat"
    <3>1. SameFields(r, p) /\ q \notin ChatsIn(net)
      BY <2>3, <2>4 DEF SameFields, ChatsIn
    <3> QED
      BY <1>6, <2>2, <2>3, <3>1
  <2>5. CASE q.flow = "chat"
    <3>1. Kept /\ Used("say")' = Used("say") /\ page' = r
      BY <1>5, <2>2, <2>3
    <3>2. q \in ChatsIn(net)
      BY <1>8, <2>5 DEF ChatsIn
    <3> QED
      BY <1>1, <1>4, <1>8, <2>3, <2>5, <3>1, <3>2 DEF Drops, SameTalk
  <2> QED
    BY <2>4, <2>5
<1>9. CASE q.by = "page" /\ q.flow = "boot" /\ q.op \in {"me", "try"}
  <2>1. PICK r : r = [p EXCEPT !.error = TRUE, !.state = "error"]
    OBVIOUS
  <2>2. Show(r)
    BY <1>1, <1>3, <1>9, <2>1 DEF Caught
  <2>3. Here(r) /\ SameFields(r, p)
    BY <1>2, <2>1, EditsHere, OtherFields
  <2> QED
    BY <1>6, <1>9, <2>2, <2>3 DEF ChatsIn
<1>10. CASE q.by = "page" /\ q.op \in {"start", "end"}
  <2>1. PICK r : r = IF q.op = "start"
                     THEN [p EXCEPT !.error = TRUE, !.state = "error", !.action = "none"]
                     ELSE [p EXCEPT !.error = TRUE, !.state = "active", !.action = "none"]
    OBVIOUS
  <2>2. Show(r)
    BY <1>1, <1>3, <1>10, <2>1 DEF Caught
  <2>3. Here(r)
    BY <1>2, <2>1, EditsHere
  <2>4. /\ r.session = p.session /\ r.messages = p.messages
        /\ r.retry = p.retry /\ r.input = p.input /\ r.action = "none"
    BY <1>2, <2>1 DEF Page
  <2>5. /\ Kept /\ Used("say")' = Used("say") /\ page' = r
        /\ q.status = "refused" \/ Used("fault")' = Used("fault") + 1
        /\ Used("fault") \in Nat
    BY <1>5, <2>2, <2>3
  <2>6. q \in ChatsIn(net) /\ q.op # "send"
    BY <1>2, <1>10 DEF Asked, RequestOK, ChatsIn
  <2> QED
    BY <1>1, <1>4, <1>10, <2>4, <2>5, <2>6 DEF Drops, SameTalk
<1>11. CASE q.by = "page" /\ q.op = "send"
  <2>1. PICK ms : ms = Mark(p.messages, q.id, TRUE)
    OBVIOUS
  <2>2. PICK id, text : id = q.id /\ text = q.text
    OBVIOUS
  <2>3. PICK r : r = [p EXCEPT !.messages = ms, !.input = text,
                               !.retry = [id |-> id, text |-> text],
                               !.error = TRUE, !.state = "error", !.action = "none"]
    OBVIOUS
  <2>4. Show(r)
    BY <1>1, <1>3, <1>11, <2>1, <2>2, <2>3 DEF Caught
  <2>5. ms \in Seq(Entry) /\ id \in EntryIds(Len(owner)) /\ text \in 1..Used("say")
    BY <1>2, <1>11, <2>1, <2>2, MarkType DEF Page, Asked, RequestOK
  <2>6. Here(r)
    BY <1>2, <2>3, <2>5, EditsHere
  <2>7. /\ r.session = p.session /\ r.messages = ms /\ r.action = "none"
        /\ r.retry = [id |-> id, text |-> text] /\ r.input = text
    BY <1>2, <2>3 DEF Page
  <2>8. /\ Kept /\ Used("say")' = Used("say") /\ page' = r
        /\ q.status = "refused" \/ Used("fault")' = Used("fault") + 1
    BY <1>5, <2>4, <2>6
  <2>9. q \in ChatsIn(net)
    BY <1>2, <1>11 DEF Asked, RequestOK, ChatsIn
  <2> QED
    BY <1>1, <1>4, <1>11, <2>1, <2>2, <2>7, <2>8, <2>9 DEF Misses
<1>12. CASE /\ q.by = "page" /\ q.op \notin {"profile", "memories", "start", "end", "send"}
            /\ ~(q.flow = "boot" /\ q.op \in {"me", "try"})
  <2>1. PICK r : r = [p EXCEPT !.working = "none"]
    OBVIOUS
  <2>2. Show(r)
    BY <1>1, <1>3, <1>12, <2>1 DEF Caught
  <2>3. Here(r) /\ SameFields(r, p)
    BY <1>2, <2>1, EditsHere, OtherFields
  <2>4. q \notin ChatsIn(net)
    BY <1>2, <1>12 DEF Asked, RequestOK, ChatsIn
  <2> QED
    BY <1>6, <2>2, <2>3, <2>4
<1> QED
  <2>1. \/ q.by # "page" \/ q.op \in {"profile", "memories"} \/ q.op \in {"start", "end"}
        \/ q.op = "send" \/ (q.flow = "boot" /\ q.op \in {"me", "try"})
        \/ /\ q.op \notin {"profile", "memories", "start", "end", "send"}
           /\ ~(q.flow = "boot" /\ q.op \in {"me", "try"})
    OBVIOUS
  <2> QED
    BY <2>1, <1>7, <1>8, <1>9, <1>10, <1>11, <1>12

-----------------------------------------------------------------------------
(* What the user does.                                                     *)

(* Steps that ask nothing, or nothing of the consultation.                 *)
LEMMA QuietOwn ==
    ASSUME Typed, NEW r, Here(r), SameFields(r, page), page' = r, StorageOK',
           NEW calls, net' = net \union calls, IsFiniteSet(calls),
           \A c \in calls : Asked(c) /\ c.by = "page" /\ c.flow # "chat",
           UNCHANGED <<jar, service>>, UNCHANGED budget \/ Spend("account")
    PROVE  Quiet
<1>1. BudgetOK' /\ Counted /\ Used("say")' = Used("say")
  <2>1. CASE UNCHANGED budget
    BY <2>1, HereNow, SameBudget, Kind
  <2>2. CASE Spend("account")
    <3>1. BudgetOK /\ "account" \in Kinds /\ "say" \in Kinds \ {"account"}
      BY HereNow, Kind
    <3> QED
      BY <2>2, <3>1, SpendOne
  <2> QED
    BY <2>1, <2>2
<1>2. PageOK(page', Len(owner), issued, Used("say")')
    BY <1>1 DEF Here
<1>3. \A c \in calls : RequestOK(c, Len(owner), issued, Used("say")')
    BY <1>1 DEF Asked
<1>4. Typed' /\ UNCHANGED <<owner, ended, stored>>
    BY <1>1, <1>2, <1>3, OwnKept
<1>5. \A c \in calls : c.op # "send"
    BY DEF Asked, RequestOK
<1>6. ChatsIn(net') = ChatsIn(net) /\ SendsIn(net') = SendsIn(net)
    BY <1>5 DEF ChatsIn, SendsIn
<1> QED
    BY <1>1, <1>4, <1>6 DEF Quiet, SameTalk, SameFields, Kept, OnlyPage

LEMMA ConfigStep == Typed /\ ConfigLoaded => Quiet
<1> SUFFICES ASSUME Typed, ConfigLoaded
             PROVE  Quiet
    OBVIOUS
<1>1. PICK p, ws : p = page /\ ws = jar
    OBVIOUS
<1>2. PICK r : r = [p EXCEPT !.api = TRUE]
    OBVIOUS
<1>3. PICK calls : /\ calls = IF Mode = "try" THEN {Call("me", "boot", "page", ws, 0)}
                              ELSE Refresh("boot", "page", ws)
                   /\ net' = net \union calls
    BY <1>1 DEF ConfigLoaded
<1>4. page' = r /\ storage' = storage /\ UNCHANGED <<jar, service>> /\ UNCHANGED budget
    BY <1>1, <1>2 DEF ConfigLoaded
<1>5. Here(p) /\ p \in Page /\ ws \in 0..issued /\ StorageOK
    BY <1>1, HereNow
<1>6. Here(r) /\ SameFields(r, p)
    BY <1>2, <1>5, EditsHere, OtherFields
<1>7. StorageOK'
    BY <1>1, <1>4, <1>5, <1>6 DEF StorageOK, SameFields
<1>8. IsFiniteSet(calls) /\ \A c \in calls : Asked(c) /\ c.by = "page" /\ c.flow # "chat"
  <2>1. CASE Mode = "try"
    <3>1. PICK c : c = Call("me", "boot", "page", ws, 0)
      OBVIOUS
    <3>2. Asked(c)
      BY <3>1, <1>5, CallsHere DEF Flows
    <3>3. c.by = "page" /\ c.flow = "boot"
      BY <3>1 DEF Call
    <3> QED
      BY <1>3, <2>1, <3>1, <3>2, <3>3, FinitePair
  <2>2. CASE Mode # "try"
    <3>1. /\ IsFiniteSet(Refresh("boot", "page", ws))
          /\ \A c \in Refresh("boot", "page", ws) : Asked(c) /\ c.by = "page" /\ c.flow = "boot"
      BY <1>5, RefreshHere DEF Flows
    <3> QED
      BY <1>3, <2>2, <3>1
  <2> QED
    BY <2>1, <2>2
<1>9. SameFields(r, page)
    BY <1>1, <1>6
<1> QED
    BY <1>3, <1>4, <1>6, <1>7, <1>8, <1>9, QuietOwn

(* Buttons that only change what is shown.                                 *)
LEMMA ButtonStep ==
    ASSUME Typed, ToggleRecording \/ Listen \/ StopRecording \/ CloseReceipt
    PROVE  Quiet
<1>1. PICK p : p = page
    OBVIOUS
<1>2. Here(p) /\ p \in Page
    BY <1>1, HereNow
<1>3. PICK r : /\ Show(r)
               /\ r \in {[p EXCEPT !.error = FALSE, !.recording = TRUE], [p EXCEPT !.error = TRUE],
                         [p EXCEPT !.recording = FALSE], [p EXCEPT !.receipt = 0]}
    BY <1>1 DEF ToggleRecording, Listen, StopRecording, CloseReceipt
<1>4. Here(r) /\ SameFields(r, p)
    BY <1>2, <1>3, EditsHere, OtherFields
<1>5. StorageOK' /\ page' = r
    BY <1>3, <1>4, ShownHere
<1>6. UNCHANGED <<jar, service>> /\ UNCHANGED budget /\ net' = net \union {}
    BY DEF ToggleRecording, Listen, StopRecording, CloseReceipt
<1>7. SameFields(r, page) /\ IsFiniteSet({})
    BY <1>1, <1>4, FS_EmptySet
<1> QED
    BY <1>4, <1>5, <1>6, <1>7, QuietOwn

LEMMA AccountButtons ==
    ASSUME Typed, RequestLink \/ ExportWorkspace \/ DeleteWorkspace
    PROVE  Quiet
<1>1. PICK p, ws : p = page /\ ws = jar
    OBVIOUS
<1>2. Here(p) /\ p \in Page /\ ws \in 0..issued
    BY <1>1, HereNow
<1>3. PICK kind \in {"link", "export", "delete"}, op \in {"me", "export"},
           flow \in {"link", "export", "delete"} : Account(kind, op, flow)
    BY DEF RequestLink, ExportWorkspace, DeleteWorkspace
<1>4. PICK r, c : /\ r = [p EXCEPT !.working = kind, !.deleted = FALSE]
                  /\ c = Call(op, flow, "page", ws, 0)
    OBVIOUS
<1>5. /\ Show(r) /\ net' = net \union {c} /\ Spend("account") /\ UNCHANGED <<jar, service>>
    BY <1>1, <1>3, <1>4 DEF Account
<1>6. Here(r)
    BY <1>2, <1>4, EditsHere
<1>7. SameFields(r, page)
    BY <1>1, <1>2, <1>4, OtherFields
<1>8. StorageOK' /\ page' = r
    BY <1>5, <1>6, ShownHere
<1>9. Asked(c) /\ c.by = "page" /\ c.flow # "chat"
  <2>1. flow \in Flows \ {"chat"} /\ op \in {"me", "export", "try", "delete", "link"} /\ 0 \in Nat
    BY DEF Flows
  <2>2. Asked(Call(op, flow, "page", ws, 0))
    BY <2>1, <1>2, CallsHere
  <2> QED
    BY <2>1, <2>2, <1>4 DEF Call
<1> QED
    BY <1>5, <1>6, <1>7, <1>8, <1>9, FinitePair, QuietOwn

(* What is said next.                                                      *)
LEMMA SayStep ==
    ASSUME Typed, Type \/ Dictate
    PROVE  Utters
<1>1. PICK p, v : p = page /\ v = Said
    OBVIOUS
<1>2. /\ Spend("say") /\ UNCHANGED <<jar, net, service>>
    BY DEF Type, Dictate
<1>3. PICK r : /\ Show(r)
               /\ r \in {[p EXCEPT !.input = v], [p EXCEPT !.input = v, !.recording = FALSE]}
    BY <1>1 DEF Type, Dictate
<1>4. BudgetOK' /\ Counted /\ Used("say")' = Used("say") + 1
    BY <1>2, HereNow, Kind, SpendOne
<1>5. PICK n, k, w : n = Len(owner) /\ k = issued /\ w = Used("say")'
    OBVIOUS
<1>6. n \in Nat /\ k \in Nat /\ w \in Nat /\ w = Used("say") + 1 /\ v = w
  <2>1. Used("say") \in Nat
    BY HereNow
  <2>2. v = Used("say") + 1
    BY <1>1 DEF Said, Used
  <2> QED
    BY <2>1, <2>2, <1>4, <1>5, HereNow
<1>7. PageOK(p, n, k, w) /\ p \in Page
  <2>1. PICK u : u = Used("say")
    OBVIOUS
  <2>2. PageOK(p, n, k, u) /\ u \in Nat /\ u <= w
    BY <1>1, <1>5, <1>6, <2>1, HereNow DEF Here
  <2> QED
    BY <1>6, <2>2, PageStays DEF PageOK
<1>8. PageOK(r, n, k, w)
  <2>1. v \in 0..w
    BY <1>6
  <2>2. /\ PageOK([p EXCEPT !.input = v], n, k, w)
        /\ PageOK([p EXCEPT !.input = v, !.recording = FALSE], n, k, w)
    BY <2>1, <1>6, <1>7, PageValues
  <2> QED
    BY <2>2, <1>3
<1>9. /\ r.session = p.session /\ r.messages = p.messages /\ r.retry = p.retry
      /\ r.action = p.action /\ r.input = v
    BY <1>3, <1>7 DEF Page
<1>10. StorageOK' /\ page' = r
  <2>1. r.session \in Nat /\ r.messages \in Seq(Entry)
    BY <1>8 DEF PageOK, Page
  <2> QED
    BY <2>1, <1>3, HereNow, ShowStores
<1>11. PageOK(page', Len(owner), issued, Used("say")')
    BY <1>5, <1>8, <1>10
<1>12. net' \subseteq net \union {} /\ net' = net /\ UNCHANGED <<jar, service>>
    BY <1>2
<1>13. Typed' /\ UNCHANGED <<owner, ended, stored>>
    BY <1>4, <1>10, <1>11, <1>12, FS_EmptySet, OwnKept
<1> QED
    BY <1>1, <1>4, <1>5, <1>6, <1>9, <1>10, <1>12, <1>13 DEF Utters, Kept, OnlyPage

(* The page asks something of the consultation.                            *)
LEMMA AskKept ==
    ASSUME Typed, NEW r, Here(r), Show(r), NEW c, Asked(c), c.by = "page",
           net' = net \union {c}, UNCHANGED <<jar, service>>,
           NEW k \in {"start", "send", "end"}, IF k = "end" THEN UNCHANGED budget ELSE Spend(k)
    PROVE  Kept /\ Used("say")' = Used("say") /\ page' = r
<1>1. BudgetOK' /\ Counted /\ Used("say")' = Used("say")
  <2>1. CASE k = "end"
    BY <2>1, HereNow, SameBudget, Kind
  <2>2. CASE k # "end"
    <3>1. BudgetOK /\ k \in Kinds /\ "say" \in Kinds \ {k} /\ Spend(k)
      BY <2>2, HereNow, Kind
    <3> QED
      BY <3>1, SpendOne
  <2> QED
    BY <2>1, <2>2
<1>2. StorageOK' /\ page' = r /\ Here(page')
    BY ShownHere
<1>3. PageOK(page', Len(owner), issued, Used("say")')
    BY <1>1, <1>2 DEF Here
<1>4. RequestOK(c, Len(owner), issued, Used("say")')
    BY <1>1 DEF Asked
<1>5. Typed' /\ UNCHANGED <<owner, ended, stored>>
    BY <1>1, <1>2, <1>3, <1>4, FinitePair, OwnKept
<1> QED
    BY <1>1, <1>2, <1>5 DEF Kept, OnlyPage

LEMMA TokenType ==
    ASSUME Typed
    PROVE  Token \in Nat
BY HereNow DEF Token, Page

LEMMA StartStep ==
    ASSUME Typed, StartSession
    PROVE  \E q : Starts(q)
<1>1. PICK p, ws, tok : p = page /\ ws = jar /\ tok = Token
    OBVIOUS
<1>2. Here(p) /\ p \in Page /\ ws \in 0..issued /\ tok \in Nat
    BY <1>1, HereNow, TokenType
<1>3. PICK r, c : /\ r = [p EXCEPT !.action = "starting", !.error = FALSE]
                  /\ c = Call("start", "chat", "page", ws, tok)
    OBVIOUS
<1>4. /\ Show(r) /\ net' = net \union {c} /\ Spend("start") /\ UNCHANGED <<jar, service>>
      /\ page.action = "none"
    BY <1>1, <1>3 DEF StartSession, Free
<1>5. Here(r) /\ Asked(c)
    BY <1>2, <1>3, EditsHere, CallsHere
<1>6. c.by = "page" /\ c.flow = "chat" /\ c.op = "start" /\ c.status = "sent"
    BY <1>3 DEF Call
<1>7. /\ r.session = p.session /\ r.messages = p.messages /\ r.retry = p.retry
      /\ r.input = p.input /\ r.action = "starting"
    BY <1>2, <1>3 DEF Page
<1>8. Kept /\ Used("say")' = Used("say") /\ page' = r
    BY <1>4, <1>5, <1>6, AskKept
<1>9. Starts(c)
    BY <1>1, <1>4, <1>6, <1>7, <1>8 DEF Starts, SameTalk
<1> QED
    BY <1>9

LEMMA EndStep ==
    ASSUME Typed, EndSession
    PROVE  \E q : Ends(q)
<1>1. PICK p, ws, tok, s : p = page /\ ws = jar /\ tok = Token /\ s = page.session
    OBVIOUS
<1>2. Here(p) /\ p \in Page /\ ws \in 0..issued /\ tok \in Nat
    BY <1>1, HereNow, TokenType
<1>3. PICK r, d, c :
         /\ r = [p EXCEPT !.action = "ending", !.state = "ending", !.error = FALSE]
         /\ d = Call("end", "chat", "page", ws, tok) /\ c = [d EXCEPT !.session = s]
    OBVIOUS
<1>4. /\ Show(r) /\ net' = net \union {c} /\ UNCHANGED budget /\ UNCHANGED <<jar, service>>
      /\ page.action = "none" /\ page.session # 0
    BY <1>1, <1>3 DEF EndSession, Free, Active
<1>5. s \in 1..Len(owner)
    BY <1>1, <1>2, <1>4, HereNow DEF Here, PageOK
<1>6. Here(r) /\ Asked(c)
    BY <1>2, <1>3, <1>5, EditsHere, CallsHere
<1>7. /\ c.by = "page" /\ c.flow = "chat" /\ c.op = "end" /\ c.status = "sent"
      /\ c.session = s
    BY <1>3 DEF Call
<1>8. /\ r.session = p.session /\ r.messages = p.messages /\ r.retry = p.retry
      /\ r.input = p.input /\ r.action = "ending"
    BY <1>2, <1>3 DEF Page
<1>9. Kept /\ Used("say")' = Used("say") /\ page' = r
    BY <1>4, <1>6, <1>7, AskKept
<1>10. Ends(c)
    BY <1>1, <1>4, <1>7, <1>8, <1>9 DEF Ends, SameTalk
<1> QED
    BY <1>10

(* Sending, but for what is written into the transcript.                   *)
LEMMA SendingStep ==
    ASSUME Typed, NEW ms \in Seq(Entry), NEW id \in EntryIds(Len(owner)),
           NEW text \in 1..Used("say"), Show([Sending(page) EXCEPT !.messages = ms]),
           Post(id, text), Spend("send"), page.action = "none", page.session # 0,
           UNCHANGED <<jar, service>>
    PROVE  \E q : /\ Sends(q) /\ q.id = id /\ q.text = text
                  /\ page'.messages = ms
<1>1. PICK p, ws, tok, s : p = page /\ ws = jar /\ tok = Token /\ s = page.session
    OBVIOUS
<1>2. Here(p) /\ p \in Page /\ ws \in 0..issued /\ tok \in Nat
    BY <1>1, HereNow, TokenType
<1>3. PICK o, r, d, c :
         /\ o = Sending(p) /\ r = [o EXCEPT !.messages = ms]
         /\ d = Call("send", "chat", "page", ws, tok)
         /\ c = [d EXCEPT !.session = s, !.id = id, !.text = text]
    OBVIOUS
<1>4. Show(r) /\ net' = net \union {c}
    BY <1>1, <1>3 DEF Post
<1>5. s \in 1..Len(owner)
    BY <1>1, <1>2, HereNow DEF Here, PageOK
<1>6. Here(r) /\ Asked(c)
  <2>1. Here(o)
    BY <1>2, <1>3, EditsHere
  <2>2. Here(r)
    BY <2>1, <1>3, EditsHere
  <2>3. Asked([Call("send", "chat", "page", ws, tok) EXCEPT
                  !.session = s, !.id = id, !.text = text])
    BY <1>2, <1>5, CallsHere
  <2> QED
    BY <2>2, <2>3, <1>3
<1>7. /\ c.by = "page" /\ c.flow = "chat" /\ c.op = "send" /\ c.status = "sent"
      /\ c.session = s /\ c.id = id /\ c.text = text
    BY <1>3 DEF Call
<1>8. /\ r.session = p.session /\ r.messages = ms /\ r.retry = NoRetry
      /\ r.input = 0 /\ r.action = "sending"
  <2>1. /\ o.session = p.session /\ o.retry = NoRetry /\ o.input = 0
        /\ o.action = "sending" /\ o \in Page
    <3>1. Here(o)
      BY <1>2, <1>3, EditsHere
    <3> QED
      BY <3>1, <1>2, <1>3 DEF Page, Sending, Here, PageOK
  <2> QED
    BY <2>1, <1>3 DEF Page
<1>9. Kept /\ Used("say")' = Used("say") /\ page' = r
    BY <1>4, <1>6, <1>7, AskKept
<1>10. Sends(c)
    BY <1>1, <1>4, <1>7, <1>8, <1>9 DEF Sends
<1> QED
    BY <1>7, <1>8, <1>9, <1>10

LEMMA SendStep ==
    ASSUME Typed, SendMessage
    PROVE  \E q : SendsNew(q)
<1>1. PICK p, id, text, s : /\ p = page /\ text = page.input /\ s = page.session
                            /\ id = <<page.session, Len(page.messages) + 1>>
    OBVIOUS
<1>2. PICK ms : ms = Append(p.messages,
                       [by |-> "user", id |-> id, text |-> text, failed |-> FALSE])
    OBVIOUS
<1>3. /\ Show([Sending(page) EXCEPT !.messages = Append(@,
               [by |-> "user", id |-> id, text |-> text, failed |-> FALSE])])
      /\ Post(id, text) /\ Spend("send") /\ page.action = "none" /\ page.session # 0
      /\ UNCHANGED <<jar, service>> /\ page.input # 0
    BY <1>1 DEF SendMessage, Free, Active
<1>4. Here(p) /\ p \in Page
    BY <1>1, HereNow
<1>5. Sending(p).messages = p.messages
    BY <1>4 DEF Page, Sending
<1>6. Show([Sending(page) EXCEPT !.messages = ms])
    BY <1>1, <1>2, <1>3, <1>5
<1>7. text \in 1..Used("say") /\ s \in 1..Len(owner) /\ p.messages \in Seq(Entry)
    BY <1>1, <1>3, <1>4, HereNow DEF Here, PageOK, Page
<1>8. id \in EntryIds(Len(owner)) /\ id \in Nat \X Nat
    BY <1>1, <1>7 DEF EntryIds
<1>9. ms \in Seq(Entry)
  <2>1. [by |-> "user", id |-> id, text |-> text, failed |-> FALSE] \in Entry
    BY <1>7, <1>8, HereNow DEF Entry
  <2> QED
    BY <1>2, <1>7, <2>1
<1>10. PICK q : Sends(q) /\ q.id = id /\ q.text = text /\ page'.messages = ms
    BY <1>3, <1>6, <1>7, <1>8, <1>9, SendingStep
<1>11. SendsNew(q)
    BY <1>1, <1>2, <1>3, <1>10 DEF SendsNew
<1> QED
    BY <1>11

LEMMA RetryStep ==
    ASSUME Typed, RetryMessage
    PROVE  \E q : SendsAgain(q)
<1>1. PICK p, id, text : p = page /\ id = page.retry.id /\ text = page.retry.text
    OBVIOUS
<1>2. PICK ms : ms = Mark(p.messages, id, FALSE)
    OBVIOUS
<1>3. /\ Show([Sending(page) EXCEPT !.messages = Mark(@, id, FALSE)])
      /\ Post(id, text) /\ Spend("send") /\ page.action = "none" /\ page.session # 0
      /\ UNCHANGED <<jar, service>> /\ page.retry # NoRetry
    BY <1>1 DEF RetryMessage, Free
<1>4. Here(p) /\ p \in Page
    BY <1>1, HereNow
<1>5. Sending(p).messages = p.messages
    BY <1>4 DEF Page, Sending
<1>6. Show([Sending(page) EXCEPT !.messages = ms])
    BY <1>1, <1>2, <1>3, <1>5
<1>7. p.messages \in Seq(Entry) /\ ms \in Seq(Entry)
    BY <1>2, <1>4, MarkType DEF Page
<1>8. text \in 1..Used("say") /\ id \in EntryIds(Len(owner))
  <2>1. p.retry \in [id : Nat \X Nat, text : Nat] /\ p.retry # NoRetry
    BY <1>1, <1>3, <1>4 DEF Page
  <2>2. p.retry = [id |-> p.retry.id, text |-> p.retry.text]
    BY <2>1
  <2>3. p.retry.text # 0
    BY <2>1, <2>2, <1>4 DEF Here, PageOK, NoRetry
  <2> QED
    BY <2>3, <1>1, <1>4, HereNow DEF Here, PageOK
<1>9. PICK q : Sends(q) /\ q.id = id /\ q.text = text /\ page'.messages = ms
    BY <1>3, <1>6, <1>7, <1>8, SendingStep
<1>10. SendsAgain(q)
    BY <1>1, <1>2, <1>3, <1>9 DEF SendsAgain
<1> QED
    BY <1>10

(* The page is mounted anew.                                               *)
LEMMA MountedHere ==
    ASSUME Typed
    PROVE  /\ Here(Mounted(storage)) /\ Mounted(storage).session = storage.session
           /\ Mounted(storage).messages = storage.messages
           /\ Mounted(storage).retry = NoRetry /\ Mounted(storage).input = 0
           /\ Mounted(storage).action = "none"
<1>1. PICK s, n : s = storage.session /\ n = Len(owner)
    OBVIOUS
<1>2. PICK ms, k, w : ms = storage.messages /\ k = issued /\ w = Used("say")
    OBVIOUS
<1>3. s \in 0..n /\ s \in Nat /\ n \in Nat /\ ms \in Seq(Entry) /\ k \in Nat /\ w \in Nat
    BY <1>1, <1>2, HereNow DEF StorageOK, Here, PageOK
<1>4. PICK m : m = Mounted(storage)
    OBVIOUS
<1>5. m = [api |-> FALSE, csrf |-> 0, state |-> IF s # 0 THEN "active" ELSE "idle",
           action |-> "none", session |-> s, messages |-> ms,
           input |-> 0, retry |-> NoRetry, error |-> FALSE, receipt |-> 0, profile |-> 0,
           memories |-> 0, working |-> "none", deleted |-> FALSE, recording |-> FALSE]
    BY <1>1, <1>2, <1>4 DEF Mounted
<1>6. m \in Page
    BY <1>3, <1>5 DEF Page, NoRetry, NoEntry
<1>7. /\ m.session = s /\ m.csrf = 0 /\ m.input = 0 /\ m.retry = NoRetry /\ m.messages = ms
      /\ m.action = "none"
    BY <1>5
<1>8. PageOK(m, n, k, w)
    BY <1>3, <1>6, <1>7 DEF PageOK, NoRetry
<1> QED
    BY <1>1, <1>2, <1>4, <1>7, <1>8 DEF Here

LEMMA RelabelledFinite ==
    ASSUME Typed, Relabelled(net)
    PROVE  IsFiniteSet(net') /\ \A q \in net' : Asked(q) /\ q.by # "page"
<1>1. PICK by \in {"left", "gone"}, B \in SUBSET net :
         net' = {[q EXCEPT !.by = IF by = "gone" \/ @ = "page" THEN by ELSE @] : q \in B}
    BY DEF Relabelled
<1>2. IsFiniteSet(B)
    BY FS_Subset DEF Typed
<1>3. IsFiniteSet(net')
  <2> DEFINE f == [q \in B |-> [q EXCEPT !.by = IF by = "gone" \/ @ = "page" THEN by ELSE @]]
  <2>1. net' = {f[q] : q \in B}
    BY <1>1
  <2>2. DOMAIN f = B
    OBVIOUS
  <2>3. f \in Surjection(B, net')
    BY <2>1, <2>2 DEF Surjection
  <2> QED
    BY <1>2, <2>3, FS_Surjection
<1>4. ASSUME NEW q \in B
      PROVE  LET r == [q EXCEPT !.by = IF by = "gone" \/ @ = "page" THEN by ELSE @]
             IN Asked(r) /\ r.by # "page"
  <2>1. Asked(q) /\ q \in Request
    BY HereNow
  <2>2. PICK n, k, w : n = Len(owner) /\ k = issued /\ w = Used("say")
    OBVIOUS
  <2>3. n \in Nat /\ k \in Nat /\ w \in Nat /\ RequestOK(q, n, k, w)
    BY <2>1, <2>2, HereNow DEF Asked
  <2>4. RequestOK([q EXCEPT !.by = "left"], n, k, w) /\ RequestOK([q EXCEPT !.by = "gone"], n, k, w)
    BY <2>3, RequestEdits
  <2>5. q = [q EXCEPT !.by = q.by]
    BY <2>1 DEF Request
  <2>6. PICK r : r = [q EXCEPT !.by = IF by = "gone" \/ q.by = "page" THEN by ELSE q.by]
    OBVIOUS
  <2>7. r \in {[q EXCEPT !.by = "left"], [q EXCEPT !.by = "gone"], q}
    BY <2>5, <2>6
  <2>8. r.by # "page"
    BY <2>1, <2>6 DEF Request
  <2> QED
    BY <2>2, <2>3, <2>4, <2>6, <2>7, <2>8 DEF Asked
<1> QED
    BY <1>1, <1>3, <1>4

LEMMA MountStep ==
    ASSUME Typed, LeavePage \/ Reload \/ SignIn
    PROVE  Mounts
<1>1. PICK k \in {"leave", "reload", "signin"} : Spend(k)
    BY DEF LeavePage, Reload, SignIn
<1>2. /\ BudgetOK' /\ Counted /\ Used(k)' = Used(k) + 1
      /\ \A o \in Kinds \ {k} : Used(o)' = Used(o)
    BY <1>1, HereNow, Kind, SpendOne
<1>3. Used("say")' = Used("say") /\ Used("fault")' = Used("fault")
    BY <1>2, Kind
<1>4. Remounts' = Remounts + 1
  <2>1. Used("leave") \in Nat /\ Used("reload") \in Nat /\ Used("signin") \in Nat
    BY <1>2, Kind DEF Counted
  <2>2. CASE k = "leave"
    BY <2>1, <2>2, <1>2, Kind DEF Remounts
  <2>3. CASE k = "reload"
    BY <2>1, <2>3, <1>2, Kind DEF Remounts
  <2>4. CASE k = "signin"
    BY <2>1, <2>4, <1>2, Kind DEF Remounts
  <2> QED
    BY <2>2, <2>3, <2>4
<1>5. page' = Mounted(storage) /\ storage' = storage /\ UNCHANGED <<owner, ended, stored>>
    BY DEF LeavePage, Reload, SignIn, NewDocument, service
<1>6. Relabelled(net)
  <2>1. CASE LeavePage
    <3>1. PICK B \in SUBSET net :
             net' = {[q EXCEPT !.by = IF @ = "page" THEN "left" ELSE @] : q \in B}
      BY <2>1 DEF LeavePage
    <3>2. net' = {[q EXCEPT !.by = IF "left" = "gone" \/ @ = "page" THEN "left" ELSE @] : q \in B}
      BY <3>1
    <3> QED
      BY <3>2 DEF Relabelled
  <2>2. CASE NewDocument
    <3>1. PICK B \in SUBSET net : net' = {[q EXCEPT !.by = "gone"] : q \in B}
      BY <2>2 DEF NewDocument
    <3>2. net' = {[q EXCEPT !.by = IF "gone" = "gone" \/ @ = "page" THEN "gone" ELSE @] : q \in B}
      BY <3>1
    <3> QED
      BY <3>2 DEF Relabelled
  <2> QED
    BY <2>1, <2>2 DEF Reload, SignIn
<1>7. /\ issued' \in Nat /\ issued <= issued' /\ alive' \subseteq 1..issued'
      /\ jar' \in 0..issued'
  <2>1. issued \in Nat /\ alive \subseteq 1..issued /\ jar \in 0..issued
    BY DEF Typed, ServiceOK
  <2>2. CASE LeavePage \/ Reload
    BY <2>1, <2>2 DEF LeavePage, Reload, service
  <2>3. CASE SignIn
    <3>1. CASE jar' \in alive /\ UNCHANGED <<issued, alive>>
      BY <2>1, <3>1
    <3>2. CASE jar' = issued + 1 /\ issued' = jar' /\ alive' = alive \union {jar'}
      <4>1. 1..issued \subseteq 1..issued' /\ jar' \in 1..issued'
        BY <2>1, <3>2
      <4> QED
        BY <2>1, <3>2, <4>1
    <3> QED
      BY <2>3, <3>1, <3>2 DEF SignIn
  <2> QED
    BY <2>2, <2>3
<1>8. Grown
  <2>1. owner' \in Seq(1..issued')
    <3>1. PICK S, T, o : S = 1..issued /\ T = 1..issued' /\ o = owner
      OBVIOUS
    <3>2. S \subseteq T /\ o \in Seq(S)
      BY <3>1, <1>7 DEF Typed, ServiceOK
    <3>3. o \in Seq(T)
      BY <3>2, SeqGrows
    <3> QED
      BY <3>1, <3>3, <1>5
  <2>2. /\ ended' \subseteq 1..Len(owner')
        /\ stored' \in Seq((1..Len(owner')) \X (1..(Used("say")')))
    BY <1>3, <1>5 DEF Typed, ServiceOK
  <2>3. ServiceOK'
    BY <1>7, <2>1, <2>2 DEF ServiceOK
  <2>4. Len(owner) \in Nat /\ issued \in Nat /\ Used("say") \in Nat
    BY HereNow
  <2> QED
    BY <1>2, <1>3, <1>5, <1>7, <2>3, <2>4 DEF Grown
<1>9. StorageOK' /\ Here(page')
    BY <1>5, MountedHere, HereNow DEF StorageOK
<1>10. PageOK(page', Len(owner'), issued', Used("say")')
    BY <1>8, <1>9, PageGrown DEF Here
<1>11. IsFiniteSet(net') /\ \A q \in net' : RequestOK(q, Len(owner'), issued', Used("say")')
  <2>1. PICK n, i, w : n = Len(owner) /\ i = issued /\ w = Used("say")
    OBVIOUS
  <2>2. PICK a, b, c : a = Len(owner') /\ b = issued' /\ c = Used("say")'
    OBVIOUS
  <2>3. /\ n \in Nat /\ i \in Nat /\ w \in Nat /\ a \in Nat /\ b \in Nat /\ c \in Nat
        /\ n <= a /\ i <= b /\ w <= c
    BY <2>1, <2>2, <1>8 DEF Grown
  <2>4. IsFiniteSet(net') /\ \A q \in net' : RequestOK(q, n, i, w)
    BY <2>1, <1>6, RelabelledFinite DEF Asked
  <2>5. \A q \in net' : RequestOK(q, a, b, c)
    BY <2>3, <2>4, RequestStays
  <2> QED
    BY <2>2, <2>4, <2>5
<1>12. Typed'
    BY <1>7, <1>8, <1>9, <1>10, <1>11, StepTyped
<1> QED
    BY <1>2, <1>3, <1>4, <1>5, <1>6, <1>12 DEF Mounts

-----------------------------------------------------------------------------
(* The service.                                                            *)
LEMMA AnswerFields ==
    ASSUME NEW q \in Request, NEW v
    PROVE  /\ AnswerTo(q, [q EXCEPT !.status = "ok", !.val = v])
           /\ [q EXCEPT !.status = "ok", !.val = v].val = v
           /\ [q EXCEPT !.status = "ok", !.val = v].status = "ok"
           /\ AnswerTo(q, [q EXCEPT !.status = "refused", !.val = v])
           /\ [q EXCEPT !.status = "refused", !.val = v].status = "refused"
BY DEF Request, AnswerTo

LEMMA AnswerFinite ==
    ASSUME Typed, NEW q, NEW r, net' = (net \ {q}) \union IF q.by = "gone" THEN {} ELSE {r}
    PROVE  IsFiniteSet(net')
<1>1. IsFiniteSet(net \ {q})
    BY FS_Subset DEF Typed
<1>2. IsFiniteSet((net \ {q}) \union {r})
    BY <1>1, FinitePair, FS_Union
<1>3. net' \subseteq (net \ {q}) \union {r}
    OBVIOUS
<1> QED
    BY <1>2, <1>3, FS_Subset

LEMMA RefuseStep ==
    ASSUME Typed, NEW q \in net, Refuse(q)
    PROVE  \E r : Serves(q, r)
<1>1. PICK r : r = [q EXCEPT !.status = "refused", !.val = 0]
    OBVIOUS
<1>2. /\ q.status = "sent" /\ page' = page /\ storage' = storage /\ jar' = jar
      /\ UNCHANGED service /\ UNCHANGED budget
      /\ net' = (net \ {q}) \union IF q.by = "gone" THEN {} ELSE {r}
    BY <1>1 DEF Refuse, Answer
<1>3. q \in Request /\ Asked(q)
    BY HereNow
<1>4. AnswerTo(q, r) /\ r.status = "refused"
    BY <1>1, <1>3, AnswerFields
<1>5. BudgetOK' /\ Counted /\ \A k \in Kinds : Used(k)' = Used(k)
    BY <1>2, HereNow, SameBudget
<1>6. Grown
    BY <1>2, <1>5, SameService
<1>7. /\ owner' = owner /\ ended' = ended /\ stored' = stored /\ issued' = issued
      /\ Used("say")' = Used("say")
    BY <1>2, <1>5, Kind DEF service
<1>8. Asked(r)
  <2>1. PICK n, k, w : n = Len(owner) /\ k = issued /\ w = Used("say")
    OBVIOUS
  <2>2. n \in Nat /\ k \in Nat /\ w \in Nat /\ RequestOK(q, n, k, w)
    BY <1>3, <2>1, HereNow DEF Asked
  <2>3. RequestOK(r, n, k, w)
    BY <1>1, <2>2, RequestEdits
  <2> QED
    BY <2>1, <2>3 DEF Asked
<1>9. \A c \in net' \ net : RequestOK(c, Len(owner'), issued', Used("say")')
    BY <1>2, <1>7, <1>8 DEF Asked
<1>10. /\ StorageOK' /\ jar' \in 0..issued' /\ IsFiniteSet(net')
       /\ PageOK(page', Len(owner'), issued', Used("say")')
    BY <1>2, <1>7, HereNow, AnswerFinite DEF StorageOK, Here
<1>11. Typed'
    BY <1>6, <1>9, <1>10, StepTyped
<1>12. Serves(q, r)
    BY <1>2, <1>4, <1>5, <1>7, <1>11 DEF Serves
<1> QED
    BY <1>12

LEMMA ResultIs ==
    ASSUME NEW q
    PROVE  Result(q) = IF q.op = "start" THEN Len(owner) + 1
                       ELSE IF Creates(q) THEN issued + 1
                       ELSE IF q.op \in Reads THEN q.ws ELSE 0
<1>1. PICK a, b : a = Len(owner) + 1 /\ b = issued + 1
    OBVIOUS
<1>2. CASE q.op = "start"
  <2>1. q.op \notin Reads
    BY <1>2 DEF Reads
  <2> QED
    BY <1>1, <1>2, <2>1, Zenon DEF Result
<1>3. CASE q.op # "start" /\ Creates(q)
    BY <1>1, <1>3, Zenon DEF Result
<1>4. CASE q.op # "start" /\ ~Creates(q)
    BY <1>1, <1>4, Zenon DEF Result
<1> QED
    BY <1>2, <1>3, <1>4

LEMMA ServeStep ==
    ASSUME Typed, NEW q \in net, Serve(q)
    PROVE  \E r : Serves(q, r)
<1>1. PICK v : v = Result(q)
    OBVIOUS
<1>2. PICK r : r = [q EXCEPT !.status = "ok", !.val = v]
    OBVIOUS
<1>3. /\ q.status = "sent" /\ page' = page /\ storage' = storage /\ jar' = jar
      /\ UNCHANGED budget /\ Allowed(q)
      /\ net' = (net \ {q}) \union IF q.by = "gone" THEN {} ELSE {r}
      /\ owner' = IF q.op = "start" THEN Append(owner, q.ws) ELSE owner
      /\ ended' = IF q.op = "end" THEN ended \union {q.session} ELSE ended
      /\ stored' = IF q.op = "send" THEN Append(stored, <<q.session, q.text>>) ELSE stored
    BY <1>1, <1>2 DEF Serve, Answer
<1>4. /\ issued' = IF Creates(q) THEN issued + 1 ELSE issued
      /\ alive' = IF Creates(q) THEN alive \union {issued + 1}
                  ELSE IF q.op = "delete" THEN alive \ {q.ws} ELSE alive
    BY DEF Serve
<1>5. /\ q \in Request /\ Asked(q) /\ issued \in Nat /\ Len(owner) \in Nat
      /\ Used("say") \in Nat
    BY HereNow
<1>6. AnswerTo(q, r) /\ r.status = "ok" /\ r.val = v
    BY <1>2, <1>5, AnswerFields
<1>7. BudgetOK' /\ Counted /\ \A k \in Kinds : Used(k)' = Used(k)
    BY <1>3, HereNow, SameBudget
<1>8. Used("say")' = Used("say")
    BY <1>7, Kind
<1>9. /\ alive \subseteq 1..issued /\ owner \in Seq(1..issued) /\ ended \subseteq 1..Len(owner)
      /\ stored \in Seq((1..Len(owner)) \X (1..Used("say")))
    BY DEF Typed, ServiceOK
<1>10. q.op \notin Reads \union {"try"} => ~Creates(q) /\ q.ws \in 1..issued
    BY <1>3, <1>9 DEF Allowed, Creates, HasWorkspace
<1>11. issued' \in Nat /\ issued <= issued' /\ alive' \subseteq 1..issued'
  <2>1. CASE Creates(q)
    <3>1. issued' = issued + 1 /\ alive' = alive \union {issued + 1}
      BY <1>4, <2>1
    <3>2. 1..issued \subseteq 1..issued' /\ issued + 1 \in 1..issued'
      BY <1>5, <3>1
    <3> QED
      BY <1>5, <1>9, <3>1, <3>2
  <2>2. CASE ~Creates(q)
    <3>1. issued' = issued /\ alive' \subseteq alive
      BY <1>4, <2>2
    <3> QED
      BY <1>5, <1>9, <3>1
  <2> QED
    BY <2>1, <2>2
<1>12. /\ owner' \in Seq(1..issued') /\ Len(owner') \in Nat /\ Len(owner) <= Len(owner')
       /\ q.op = "start" => Len(owner') = Len(owner) + 1
       /\ q.op # "start" => owner' = owner
  <2>1. CASE q.op = "start"
    <3>1. q.ws \in 1..issued /\ issued' = issued
      BY <1>4, <1>10, <2>1 DEF Reads
    <3> QED
      BY <1>3, <1>9, <2>1, <3>1
  <2>2. CASE q.op # "start"
    <3>1. PICK S, T, o : S = 1..issued /\ T = 1..issued' /\ o = owner
      OBVIOUS
    <3>2. S \subseteq T /\ o \in Seq(S)
      BY <1>5, <1>9, <1>11, <3>1
    <3>3. o \in Seq(T)
      BY <3>2, SeqGrows
    <3> QED
      BY <1>3, <1>5, <2>2, <3>1, <3>3
  <2> QED
    BY <2>1, <2>2
<1>13. ended' \subseteq 1..Len(owner')
  <2>1. 1..Len(owner) \subseteq 1..Len(owner')
    BY <1>5, <1>12
  <2>2. q.op = "end" => q.session \in 1..Len(owner)
    BY <1>5 DEF Asked, RequestOK
  <2> QED
    BY <1>3, <1>9, <2>1, <2>2
<1>14. stored' \in Seq((1..Len(owner')) \X (1..(Used("say")')))
  <2>1. PICK S, T, st : /\ S = (1..Len(owner)) \X (1..Used("say"))
                        /\ T = (1..Len(owner')) \X (1..(Used("say")')) /\ st = stored
    OBVIOUS
  <2>2. S \subseteq T /\ st \in Seq(S)
    BY <1>5, <1>8, <1>9, <1>12, <2>1
  <2>3. st \in Seq(T)
    BY <2>2, SeqGrows
  <2>4. q.op = "send" => <<q.session, q.text>> \in T
    BY <1>5, <2>1, <2>2 DEF Asked, RequestOK
  <2> QED
    BY <1>3, <2>1, <2>3, <2>4
<1>15. Grown
    BY <1>5, <1>7, <1>8, <1>11, <1>12, <1>13, <1>14 DEF Grown, ServiceOK
<1>16. RequestOK(r, Len(owner'), issued', Used("say")')
  <2>1. PICK n, k, w : n = Len(owner') /\ k = issued' /\ w = Used("say")'
    OBVIOUS
  <2>2. n \in Nat /\ k \in Nat /\ w \in Nat /\ RequestOK(q, n, k, w)
    <3>1. PICK a, b, c : a = Len(owner) /\ b = issued /\ c = Used("say")
      OBVIOUS
    <3>2. /\ a \in Nat /\ b \in Nat /\ c \in Nat /\ n \in Nat /\ k \in Nat /\ w \in Nat
          /\ a <= n /\ b <= k /\ c <= w /\ RequestOK(q, a, b, c)
      BY <1>5, <1>8, <1>11, <1>12, <2>1, <3>1 DEF Asked
    <3> QED
      BY <3>2, RequestStays
  <2>3. /\ q.op # "start" => v \in 0..k
        /\ q.op = "start" => v \in 1..n
        /\ q.op \in {"me", "try"} => v # 0
    <3>1. CASE q.op = "start"
      <4>1. v = Len(owner) + 1
        BY <1>1, <3>1, ResultIs
      <4> QED
        BY <1>5, <1>12, <2>1, <3>1, <4>1
    <3>2. CASE q.op # "start" /\ Creates(q)
      <4>1. v = issued + 1 /\ k = issued + 1
        BY <1>1, <1>4, <2>1, <3>2, ResultIs
      <4> QED
        BY <1>5, <3>2, <4>1
    <3>3. CASE q.op # "start" /\ ~Creates(q)
      <4>1. q.op # "try" /\ q.ws \in 1..issued /\ k = issued
        BY <1>4, <1>9, <2>1, <3>3 DEF Creates, HasWorkspace
      <4>2. v = IF q.op \in Reads THEN q.ws ELSE 0
        BY <1>1, <3>3, ResultIs
      <4> QED
        BY <1>5, <3>3, <4>1, <4>2 DEF Reads
    <3> QED
      BY <3>1, <3>2, <3>3
  <2>4. RequestOK([q EXCEPT !.status = "ok", !.val = v], n, k, w)
    BY <2>2, <2>3, RequestEdits
  <2> QED
    BY <1>2, <2>1, <2>4
<1>17. /\ StorageOK' /\ jar' \in 0..issued' /\ IsFiniteSet(net')
  <2>1. jar \in 0..issued /\ StorageOK
    BY HereNow
  <2>2. StorageOK'
    BY <1>3, <2>1 DEF StorageOK
  <2>3. jar' \in 0..issued'
    BY <1>3, <1>5, <1>11, <2>1
  <2>4. IsFiniteSet(net')
    BY <1>3, AnswerFinite
  <2> QED
    BY <2>2, <2>3, <2>4
<1>18. PageOK(page', Len(owner'), issued', Used("say")')
    BY <1>3, <1>15, PageGrown, HereNow DEF Here
<1>19. \A c \in net' \ net : RequestOK(c, Len(owner'), issued', Used("say")')
    BY <1>3, <1>16
<1>20. Typed'
    BY <1>15, <1>17, <1>18, <1>19, StepTyped
<1>21. q.op = "start" => r.val = Len(owner) + 1
    BY <1>1, <1>6, ResultIs
<1>22. Serves(q, r)
    BY <1>3, <1>6, <1>7, <1>20, <1>21 DEF Serves
<1> QED
    BY <1>22

(* All there is.                                                           *)
Steps ==
    \/ Quiet \/ Utters \/ Clears \/ Mounts
    \/ \E q : \/ Drops(q) \/ Misses(q) \/ Starts(q) \/ SendsNew(q) \/ SendsAgain(q) \/ Ends(q)
              \/ HasStarted(q) \/ HasReply(q) \/ HasEnded(q)
    \/ \E q, r : Serves(q, r)

LEMMA StepKinds ==
    ASSUME Typed, [Next]_vars
    PROVE  Steps
<1>1. CASE UNCHANGED vars
  <2>1. /\ page' = page /\ storage' = storage /\ jar' = jar /\ net' = net /\ UNCHANGED service
        /\ UNCHANGED budget
    BY <1>1 DEF vars
  <2>2. /\ Here(page) /\ StorageOK' /\ net' = net \union {} /\ SameFields(page, page)
    BY <2>1, HereNow DEF StorageOK, SameFields
  <2>3. PICK p : p = page
    OBVIOUS
  <2>4. Quiet
    BY <2>1, <2>2, <2>3, FS_EmptySet, QuietOwn
  <2> QED
    BY <2>4 DEF Steps
<1>2. CASE Progress
  <2>1. PICK q \in net : Serve(q) \/ Refuse(q) \/ Arrive(q) \/ Fail(q)
    BY <1>2 DEF Progress
  <2>2. CASE Serve(q) \/ Refuse(q)
    BY <2>2, ServeStep, RefuseStep DEF Steps
  <2>3. CASE Arrive(q)
    BY <2>3, ContextStep, WorkspaceStep, TryStep, StartedStep, RepliedStep, EndedStep,
       DeletedStep, AccountStep, UnseenStep DEF Arrive, Steps
  <2>4. CASE Fail(q)
    BY <2>4, FailStep DEF Steps
  <2> QED
    BY <2>1, <2>2, <2>3, <2>4
<1>3. CASE ConfigLoaded \/ ToggleRecording \/ Listen \/ StopRecording \/ CloseReceipt
           \/ RequestLink \/ ExportWorkspace \/ DeleteWorkspace
    BY <1>3, ConfigStep, ButtonStep, AccountButtons DEF Steps
<1>4. CASE Type \/ Dictate
    BY <1>4, SayStep DEF Steps
<1>5. CASE StartSession \/ SendMessage \/ RetryMessage \/ EndSession
    BY <1>5, StartStep, SendStep, RetryStep, EndStep DEF Steps
<1>6. CASE LeavePage \/ Reload \/ SignIn
    BY <1>6, MountStep DEF Steps
<1> QED
    BY <1>1, <1>2, <1>3, <1>4, <1>5, <1>6 DEF Next

LEMMA StepsTyped == Steps => Typed' /\ Counted
BY DEF Steps, Quiet, Utters, Clears, Mounts, Drops, Misses, Starts, Sends, SendsNew, SendsAgain,
       Ends, HasStarted, HasReply, HasEnded, Refreshes, Serves, Kept

LEMMA InitTyped == Init => Typed
<1> SUFFICES ASSUME Init PROVE Typed
    OBVIOUS
<1>1. /\ storage = [session |-> 0, messages |-> <<>>, trial |-> 0] /\ page = Mounted(storage)
      /\ jar = (IF Returning THEN 1 ELSE 0) /\ net = {} /\ issued = jar /\ alive = 1..jar
      /\ owner = <<>> /\ ended = {} /\ stored = <<>> /\ budget = Budget
    BY DEF Init
<1>2. Len(owner) = 0 /\ jar \in Nat /\ <<>> \in Seq(Entry) /\ <<>> \in Seq(1..issued)
      /\ <<>> \in Seq((1..Len(owner)) \X (1..Used("say")))
    BY <1>1
<1>3. BudgetOK /\ Used("say") = 0
  <2>1. BudgetOK
    BY <1>1, BudgetAssumption DEF BudgetOK
  <2>2. Budget["say"] \in Nat
    BY Kind, BudgetAssumption
  <2> QED
    BY <1>1, <2>1, <2>2 DEF Used
<1>4. ServiceOK
    BY <1>1, <1>2 DEF ServiceOK
<1>5. PICK old : old = storage
    OBVIOUS
<1>6. /\ page = Mounted(old) /\ old.session = 0 /\ old.messages = <<>>
      /\ old \in [session : Nat, messages : Seq(Entry), trial : Nat]
    BY <1>1, <1>2, <1>5
<1>7. PICK p : p = Mounted(old)
    OBVIOUS
<1>8. /\ p \in Page /\ p.session = 0 /\ p.csrf = 0 /\ p.input = 0 /\ p.retry = NoRetry
      /\ p.messages = <<>>
    BY <1>6, <1>7 DEF Mounted, Page, NoRetry, NoEntry
<1>9. PICK n, k, w : n = Len(owner) /\ k = issued /\ w = Used("say")
    OBVIOUS
<1>10. n \in Nat /\ k \in Nat /\ w \in Nat
    BY <1>1, <1>2, <1>3, <1>9
<1>11. PageOK(p, n, k, w)
    BY <1>8, <1>10 DEF PageOK, NoRetry
<1>12. StorageOK
    BY <1>5, <1>6, <1>7, <1>8 DEF StorageOK
<1> QED
    BY <1>1, <1>2, <1>3, <1>4, <1>6, <1>7, <1>9, <1>11, <1>12, FS_EmptySet DEF Typed

(* The page, its storage and cookies, the requests under way and what the  *)
(* service keeps are what their types say, within their budgets.           *)
THEOREM PageTyped == Spec => []TypeOK
<1>1. Typed /\ [Next]_vars => Typed'
    BY StepKinds, StepsTyped
<1>2. Typed => TypeOK
  <2> SUFFICES ASSUME Typed PROVE TypeOK
    OBVIOUS
  <2>1. page \in Page /\ page.session \in 0..Len(owner)
    BY DEF Typed, PageOK
  <2>2. page.retry.id = NoEntry <=> page.retry.text = 0
    BY DEF Typed, PageOK, EntryIds, NoEntry
  <2>3. net \subseteq Request
    BY DEF Typed, RequestOK
  <2>4. stored \in Seq((1..Len(owner)) \X Nat)
    <3>1. PICK S, T, st : /\ S = (1..Len(owner)) \X (1..Used("say"))
                          /\ T = (1..Len(owner)) \X Nat /\ st = stored
      OBVIOUS
    <3>2. S \subseteq T /\ st \in Seq(S)
      BY <3>1 DEF Typed, ServiceOK
    <3> QED
      BY <3>1, <3>2, SeqGrows
  <2> QED
    BY <2>1, <2>2, <2>3, <2>4 DEF TypeOK, Typed, StorageOK, ServiceOK, BudgetOK
<1> QED
    BY <1>1, <1>2, InitTyped, PTL DEF Spec

-----------------------------------------------------------------------------
(* One request of the consultation at a time.                              *)

(* Unless something is done the page awaits nothing; a start, a message or *)
(* an end is awaited alone.                                                *)
OneOf(action, C) ==
    /\ action = "none" => C = {}
    /\ \A q \in C :
          /\ q.op \in {"start", "send", "end"} => C = {q}
          /\ q.op = "send" => action = "sending"
          /\ q.op = "end" => action = "ending"

OneChat == OneOf(page.action, ChatsIn(net))

(* What the kinds of steps make of the requests that are awaited.          *)
LEMMA ChatAdded ==
    ASSUME NEW N, NEW q, q.by = "page", q.flow = "chat"
    PROVE  ChatsIn(N \union {q}) = ChatsIn(N) \union {q}
BY DEF ChatsIn

LEMMA ChatRefreshed ==
    ASSUME NEW N, NEW q \in ChatsIn(N), NEW ws
    PROVE  \E R : /\ ChatsIn((N \ {q}) \union Refresh("chat", "page", ws))
                         = (ChatsIn(N) \ {q}) \union R
                  /\ \A c \in R : c.op \in {"profile", "memories"} /\ c.by = "page"
<1>1. \A c \in Refresh("chat", "page", ws) :
          c.op \in {"profile", "memories"} /\ c.by = "page" /\ c.flow = "chat"
    BY DEF Refresh, Call
<1>2. ChatsIn((N \ {q}) \union Refresh("chat", "page", ws))
          = (ChatsIn(N) \ {q}) \union Refresh("chat", "page", ws)
    BY <1>1 DEF ChatsIn
<1> QED
    BY <1>1, <1>2

LEMMA ChatServed ==
    ASSUME NEW N, NEW q \in N, NEW r, AnswerTo(q, r)
    PROVE  ChatsIn((N \ {q}) \union IF q.by = "gone" THEN {} ELSE {r})
               = IF q \in ChatsIn(N) THEN (ChatsIn(N) \ {q}) \union {r} ELSE ChatsIn(N)
<1>1. CASE q \in ChatsIn(N)
    BY <1>1 DEF ChatsIn, AnswerTo
<1>2. CASE q \notin ChatsIn(N)
    BY <1>2 DEF ChatsIn, AnswerTo
<1> QED
    BY <1>1, <1>2

LEMMA ChatsMounted ==
    ASSUME NEW N, \A q \in N : q \in Request, Relabelled(N)
    PROVE  ChatsIn(net') = {}
<1>1. PICK by \in {"left", "gone"}, B \in SUBSET N :
          net' = {[q EXCEPT !.by = IF by = "gone" \/ @ = "page" THEN by ELSE @] : q \in B}
    BY DEF Relabelled
<1>2. ASSUME NEW q \in B
      PROVE  [q EXCEPT !.by = IF by = "gone" \/ @ = "page" THEN by ELSE @].by # "page"
  <2>1. q \in Request
    OBVIOUS
  <2> QED
    BY <2>1 DEF Request
<1> QED
    BY <1>1, <1>2 DEF ChatsIn

(* What the page awaits, before and after.                                 *)
LEMMA ChatsGo ==
    ASSUME Typed, OneChat
    PROVE  /\ \A q : Drops(q) => q \in ChatsIn(net) /\ ChatsIn(net') = ChatsIn(net) \ {q}
           /\ \A q : Misses(q) => ChatsIn(net) = {q} /\ ChatsIn(net') = {}
           /\ \A q : Starts(q) \/ Sends(q) \/ Ends(q) =>
                 ChatsIn(net) = {} /\ ChatsIn(net') = {q}
           /\ \A q : Refreshes(q) /\ q.op \in {"start", "send", "end"} =>
                 /\ ChatsIn(net) = {q}
                 /\ \A c \in ChatsIn(net') : c.op \in {"profile", "memories"}
           /\ Mounts => ChatsIn(net') = {}
           /\ \A q, r : Serves(q, r) =>
                 ChatsIn(net') = IF q \in ChatsIn(net) THEN (ChatsIn(net) \ {q}) \union {r}
                                 ELSE ChatsIn(net)
<1>1. PICK C, N, a : C = ChatsIn(net) /\ N = net /\ a = page.action
    OBVIOUS
<1>2. OneOf(a, C)
    BY <1>1 DEF OneChat
<1>3. ASSUME NEW q, Misses(q)
      PROVE  C = {q} /\ ChatsIn(net') = {}
  <2>1. q \in C /\ q.op = "send" /\ ChatsIn(net') = C \ {q}
    BY <1>1, <1>3 DEF Misses
  <2>2. C = {q}
    BY <1>2, <2>1 DEF OneOf
  <2> QED
    BY <2>1, <2>2
<1>4. ASSUME NEW q, Starts(q) \/ Sends(q) \/ Ends(q)
      PROVE  C = {} /\ ChatsIn(net') = {q}
  <2>1. a = "none" /\ net' = N \union {q} /\ q.by = "page" /\ q.flow = "chat"
    BY <1>1, <1>4 DEF Starts, Sends, Ends
  <2>2. C = {}
    BY <1>2, <2>1 DEF OneOf
  <2>3. ChatsIn(N \union {q}) = ChatsIn(N) \union {q}
    BY <2>1, ChatAdded
  <2> QED
    BY <1>1, <2>1, <2>2, <2>3
<1>5. ASSUME NEW q, Refreshes(q), q.op \in {"start", "send", "end"}
      PROVE  C = {q} /\ \A c \in ChatsIn(net') : c.op \in {"profile", "memories"}
  <2>1. PICK ws : net' = (net \ {q}) \union Refresh("chat", "page", ws)
    BY <1>5 DEF Refreshes
  <2>2. q \in C /\ q \in ChatsIn(N)
    BY <1>1, <1>5 DEF Refreshes
  <2>3. C = {q}
    BY <1>2, <1>5, <2>2 DEF OneOf
  <2>4. PICK R : /\ ChatsIn((N \ {q}) \union Refresh("chat", "page", ws))
                        = (ChatsIn(N) \ {q}) \union R
                 /\ \A c \in R : c.op \in {"profile", "memories"} /\ c.by = "page"
    BY <2>2, ChatRefreshed
  <2> QED
    BY <1>1, <2>1, <2>3, <2>4
<1>6. Mounts => ChatsIn(net') = {}
    BY ChatsMounted DEF Mounts, Typed, RequestOK
<1>7. ASSUME NEW q, NEW r, Serves(q, r)
      PROVE  ChatsIn(net') = IF q \in C THEN (C \ {q}) \union {r} ELSE C
  <2>1. q \in N /\ AnswerTo(q, r)
        /\ net' = (N \ {q}) \union IF q.by = "gone" THEN {} ELSE {r}
    BY <1>1, <1>7 DEF Serves
  <2>2. ChatsIn((N \ {q}) \union IF q.by = "gone" THEN {} ELSE {r})
            = IF q \in ChatsIn(N) THEN (ChatsIn(N) \ {q}) \union {r} ELSE ChatsIn(N)
    BY <2>1, ChatServed
  <2> QED
    BY <1>1, <2>1, <2>2
<1>8. ASSUME NEW q, Drops(q)
      PROVE  q \in ChatsIn(net) /\ ChatsIn(net') = ChatsIn(net) \ {q}
    BY <1>8 DEF Drops
<1> QED
    BY <1>1, <1>3, <1>4, <1>5, <1>6, <1>7, <1>8

LEMMA OneChatStep ==
    ASSUME Typed, OneChat, Steps
    PROVE  OneChat'
<1>1. PICK C, D, a, b : C = ChatsIn(net) /\ D = ChatsIn(net') /\ a = page.action /\ b = page'.action
    OBVIOUS
<1>2. OneOf(a, C)
    BY <1>1 DEF OneChat
<1>3. SUFFICES OneOf(b, D)
    BY <1>1 DEF OneChat
<1>4. CASE Quiet \/ Clears \/ Utters
    BY <1>1, <1>2, <1>4 DEF Quiet, Clears, Utters
<1>5. CASE Mounts
    BY <1>1, <1>5, ChatsGo DEF OneOf
<1>6. ASSUME NEW q, Drops(q)
      PROVE  OneOf(b, D)
  <2>1. /\ q \in C /\ D = C \ {q}
        /\ b = IF q.op \in {"start", "end"} \/ D = {} THEN "none" ELSE a
    BY <1>1, <1>6 DEF Drops
  <2> QED
    BY <1>2, <2>1 DEF OneOf
<1>7. CASE \E q : Misses(q)
    BY <1>1, <1>7, ChatsGo DEF OneOf
<1>8. ASSUME NEW q, Starts(q) \/ Sends(q) \/ Ends(q)
      PROVE  OneOf(b, D)
  <2>1. D = {q}
    BY <1>1, <1>8, ChatsGo
  <2>2. /\ q.op = "send" => b = "sending"
        /\ q.op = "end" => b = "ending"
        /\ b # "none"
    BY <1>1, <1>8 DEF Starts, Sends, Ends
  <2> QED
    BY <2>1, <2>2 DEF OneOf
<1>9. ASSUME NEW q, Refreshes(q), q.op \in {"start", "send", "end"}
      PROVE  OneOf(b, D)
  <2>1. q \in C /\ b = a
    BY <1>1, <1>9 DEF Refreshes
  <2>2. \A c \in D : c.op \in {"profile", "memories"}
    BY <1>1, <1>9, ChatsGo
  <2> QED
    BY <1>2, <2>1, <2>2 DEF OneOf
<1>10. ASSUME NEW q, NEW r, Serves(q, r)
       PROVE  OneOf(b, D)
  <2>1. D = IF q \in C THEN (C \ {q}) \union {r} ELSE C
    BY <1>1, <1>10, ChatsGo
  <2>2. b = a /\ r.op = q.op
    BY <1>1, <1>10 DEF Serves, AnswerTo
  <2> QED
    BY <1>2, <2>1, <2>2 DEF OneOf
<1> QED
    BY <1>4, <1>5, <1>6, <1>7, <1>8, <1>9, <1>10
       DEF Steps, SendsNew, SendsAgain, HasStarted, HasReply, HasEnded

LEMMA InitQuiet == Init => /\ page.action = "none" /\ ChatsIn(net) = {} /\ page.session = 0
                           /\ page.messages = <<>> /\ page.retry = NoRetry /\ page.input = 0
<1> SUFFICES ASSUME Init
             PROVE  /\ page.action = "none" /\ ChatsIn(net) = {} /\ page.session = 0
                    /\ page.messages = <<>> /\ page.retry = NoRetry /\ page.input = 0
    OBVIOUS
<1>1. PICK old : old = storage
    OBVIOUS
<1>2. page = Mounted(old) /\ old.session = 0 /\ old.messages = <<>> /\ net = {}
    BY <1>1 DEF Init
<1> QED
    BY <1>2 DEF Mounted, ChatsIn
-----------------------------------------------------------------------------
(* AnswersInOrder.                                                         *)

SaidAt(ms, i, id) == ms[i].by = "user" /\ ms[i].id = id

(* The last message is this one of the user.                               *)
LastIs(ms, id, text, failed) ==
    /\ Len(ms) > 0 /\ SaidAt(ms, Len(ms), id)
    /\ ms[Len(ms)].text = text /\ ms[Len(ms)].failed = failed

(* What was said in another session than the one on the page.              *)
Elsewhere(s, ms, id) ==
    /\ id[1] # s /\ id[1] # 0
    /\ \A i \in 1..Len(ms) : ~SaidAt(ms, i, id)

(* The user's messages are of the page's session, and know their place.    *)
EntriesAt(s, ms) ==
    \A i \in 1..Len(ms) : ms[i].by = "user" =>
        ms[i].id[2] = i /\ (s # 0 => ms[i].id[1] = s)

AnswersAt(s, ms) ==
    \A j \in 1..Len(ms) : ms[j].by = "volta" /\ ms[j].id # NoEntry =>
        \/ j > 1 /\ SaidAt(ms, j - 1, ms[j].id)
        \/ Elsewhere(s, ms, ms[j].id)

(* A message that is awaited, and one to be retried, is the last one, or   *)
(* outlived its session.  What is awaited cannot be retried meanwhile, and *)
(* a session that starts is not that of the retry.                         *)
AwaitedAt(s, ms, q) ==
    \/ LastIs(ms, q.id, q.text, FALSE) /\ q.session = q.id[1]
    \/ Elsewhere(s, ms, q.id)

RetryAt(s, ms, retry) ==
    LastIs(ms, retry.id, retry.text, TRUE) \/ Elsewhere(s, ms, retry.id)

PlacesAt(s, ms, retry, C) ==
    /\ EntriesAt(s, ms) /\ AnswersAt(s, ms)
    /\ \A q \in C : q.op = "send" => retry = NoRetry /\ AwaitedAt(s, ms, q)
    /\ \A q \in C : q.op = "start" /\ q.status = "ok" => q.val # retry.id[1]
    /\ retry # NoRetry => RetryAt(s, ms, retry)

Places == PlacesAt(page.session, page.messages, page.retry, ChatsIn(net))

(* What was said stays elsewhere, and places stay, when nothing is said.   *)
LEMMA MarkPlaces ==
    ASSUME NEW ms \in Seq(Entry), NEW id, NEW failed \in BOOLEAN, NEW s \in Nat,
           EntriesAt(s, ms), AnswersAt(s, ms)
    PROVE  /\ EntriesAt(s, Mark(ms, id, failed)) /\ AnswersAt(s, Mark(ms, id, failed))
           /\ \A o : Elsewhere(s, ms, o) => Elsewhere(s, Mark(ms, id, failed), o)
           /\ \A text, was : LastIs(ms, id, text, was)
                  => LastIs(Mark(ms, id, failed), id, text, failed)
<1>1. PICK m2 : m2 = Mark(ms, id, failed)
    OBVIOUS
<1>2. /\ m2 \in Seq(Entry) /\ Len(m2) = Len(ms) /\ Len(ms) \in Nat
      /\ \A i \in 1..Len(ms) :
            /\ m2[i].by = ms[i].by /\ m2[i].id = ms[i].id /\ m2[i].text = ms[i].text
            /\ ms[i].by = "user" /\ ms[i].id = id => m2[i].failed = failed
    BY <1>1, MarkType
<1>3. \A i \in 1..Len(ms) : \A o : SaidAt(m2, i, o) <=> SaidAt(ms, i, o)
    BY <1>2 DEF SaidAt
<1>4. EntriesAt(s, m2)
    BY <1>2 DEF EntriesAt
<1>5. \A o : Elsewhere(s, ms, o) => Elsewhere(s, m2, o)
    BY <1>2, <1>3 DEF Elsewhere
<1>6. AnswersAt(s, m2)
  <2> SUFFICES ASSUME NEW j \in 1..Len(ms), ms[j].by = "volta", ms[j].id # NoEntry
               PROVE  (j > 1 /\ SaidAt(m2, j - 1, ms[j].id)) \/ Elsewhere(s, m2, ms[j].id)
    BY <1>2 DEF AnswersAt
  <2>1. CASE j > 1 /\ SaidAt(ms, j - 1, ms[j].id)
    BY <2>1, <1>2, <1>3
  <2>2. CASE Elsewhere(s, ms, ms[j].id)
    BY <2>2, <1>5
  <2> QED
    BY <2>1, <2>2 DEF AnswersAt
<1>7. \A text, was : LastIs(ms, id, text, was) => LastIs(m2, id, text, failed)
    BY <1>2, <1>3 DEF LastIs, SaidAt
<1> QED
    BY <1>1, <1>4, <1>5, <1>6, <1>7

(* A message is appended that is not one of these.                         *)
LEMMA AppendPlaces ==
    ASSUME NEW ms \in Seq(Entry), NEW s \in Nat, NEW e \in Entry,
           EntriesAt(s, ms), AnswersAt(s, ms),
           e.by = "user" => e.id[2] = Len(ms) + 1 /\ e.id[1] = s,
           e.by = "volta" /\ e.id # NoEntry =>
               (Len(ms) > 0 /\ SaidAt(ms, Len(ms), e.id)) \/ Elsewhere(s, ms, e.id)
    PROVE  /\ EntriesAt(s, Append(ms, e)) /\ AnswersAt(s, Append(ms, e))
<1>1. PICK m2 : m2 = Append(ms, e)
    OBVIOUS
<1>2. /\ m2 \in Seq(Entry) /\ Len(m2) = Len(ms) + 1 /\ Len(ms) \in Nat
      /\ \A i \in 1..Len(ms) : m2[i] = ms[i]
      /\ m2[Len(ms) + 1] = e
    BY <1>1
<1>3. \A i \in 1..Len(ms) : \A o : SaidAt(m2, i, o) <=> SaidAt(ms, i, o)
    BY <1>2 DEF SaidAt
<1>4. EntriesAt(s, m2)
  <2> SUFFICES ASSUME NEW i \in 1..(Len(ms) + 1), m2[i].by = "user"
               PROVE  m2[i].id[2] = i /\ (s # 0 => m2[i].id[1] = s)
    BY <1>2 DEF EntriesAt
  <2>1. CASE i \in 1..Len(ms)
    BY <2>1, <1>2 DEF EntriesAt
  <2>2. CASE i = Len(ms) + 1
    BY <2>2, <1>2
  <2> QED
    BY <1>2, <2>1, <2>2
<1>5. \A o : Elsewhere(s, ms, o) => Elsewhere(s, m2, o)
  <2> SUFFICES ASSUME NEW o, Elsewhere(s, ms, o), NEW i \in 1..(Len(ms) + 1), SaidAt(m2, i, o)
               PROVE  FALSE
    BY <1>2 DEF Elsewhere
  <2>1. CASE i \in 1..Len(ms)
    BY <2>1, <1>3 DEF Elsewhere
  <2>2. CASE i = Len(ms) + 1
    BY <2>2, <1>2 DEF Elsewhere, SaidAt
  <2> QED
    BY <1>2, <2>1, <2>2
<1>6. AnswersAt(s, m2)
  <2> SUFFICES ASSUME NEW j \in 1..(Len(ms) + 1), m2[j].by = "volta", m2[j].id # NoEntry
               PROVE  (j > 1 /\ SaidAt(m2, j - 1, m2[j].id)) \/ Elsewhere(s, m2, m2[j].id)
    BY <1>2 DEF AnswersAt
  <2>1. CASE j \in 1..Len(ms)
    <3>1. m2[j] = ms[j]
      BY <2>1, <1>2
    <3>2. CASE j > 1 /\ SaidAt(ms, j - 1, ms[j].id)
      BY <2>1, <3>1, <3>2, <1>2, <1>3
    <3>3. CASE Elsewhere(s, ms, ms[j].id)
      BY <3>1, <3>3, <1>5
    <3> QED
      BY <2>1, <3>1, <3>2, <3>3 DEF AnswersAt
  <2>2. CASE j = Len(ms) + 1
    <3>1. m2[j] = e
      BY <2>2, <1>2
    <3>2. CASE Len(ms) > 0 /\ SaidAt(ms, Len(ms), e.id)
      BY <2>2, <3>1, <3>2, <1>2, <1>3
    <3>3. CASE Elsewhere(s, ms, e.id)
      BY <3>1, <3>3, <1>5
    <3> QED
      BY <3>1, <3>2, <3>3
  <2> QED
    BY <1>2, <2>1, <2>2
<1> QED
    BY <1>1, <1>4, <1>6

(* What is known of a session that awaits one thing at a time.             *)
LEMMA TalkTypes ==
    ASSUME Typed
    PROVE  /\ page.session \in Nat /\ page.session <= Len(owner) /\ Len(owner) \in Nat
           /\ page.messages \in Seq(Entry)
           /\ page.input \in Nat
           /\ page.retry.id \in Nat \X Nat /\ page.retry.text \in Nat
           /\ page.retry # NoRetry =>
                 page.retry.text # 0 /\ page.retry.id[1] # 0 /\ page.retry.id[1] <= Len(owner)
           /\ \A q \in net : /\ q \in Request
                             /\ q.op = "send" => q.id \in Nat \X Nat /\ q.id[1] # 0
                             /\ q.op \in {"start", "send", "end"} => q.flow = "chat"
                             /\ q.flow = "chat" =>
                                   q.op \in {"start", "send", "end", "profile", "memories"}
<1>1. PICK p : p = page
    OBVIOUS
<1>2. PICK n, k, w : n = Len(owner) /\ k = issued /\ w = Used("say")
    OBVIOUS
<1>3. PageOK(p, n, k, w) /\ n \in Nat
    BY <1>1, <1>2 DEF Typed, ServiceOK
<1>4. /\ p.session \in Nat /\ p.session <= n /\ p.messages \in Seq(Entry) /\ p.input \in Nat
      /\ p.retry \in [id : Nat \X Nat, text : Nat]
    BY <1>3 DEF PageOK, Page
<1>5. p.retry # NoRetry => p.retry.text # 0
    BY <1>3, <1>4 DEF PageOK, NoRetry
<1>6. p.retry # NoRetry => p.retry.id[1] # 0 /\ p.retry.id[1] <= n
    BY <1>3, <1>5 DEF PageOK, EntryIds
<1>7. \A q \in net : RequestOK(q, n, k, w)
    BY <1>2 DEF Typed
<1>8. \A q \in net : /\ q \in Request
                     /\ q.op = "send" => q.id \in Nat \X Nat /\ q.id[1] # 0
                     /\ q.op \in {"start", "send", "end"} => q.flow = "chat"
                     /\ q.flow = "chat" =>
                           q.op \in {"start", "send", "end", "profile", "memories"}
    BY <1>7 DEF RequestOK, EntryIds
<1> QED
    BY <1>1, <1>2, <1>3, <1>4, <1>5, <1>6, <1>8

LEMMA PlacesStep ==
    ASSUME Typed, OneChat, Places, Steps
    PROVE  Places'
<1>1. PICK s, ms, t, C : /\ s = page.session /\ ms = page.messages /\ t = page.retry
                         /\ C = ChatsIn(net)
    OBVIOUS
<1>2. PICK s2, m2, t2, D : /\ s2 = page'.session /\ m2 = page'.messages /\ t2 = page'.retry
                           /\ D = ChatsIn(net')
    OBVIOUS
<1>3. PlacesAt(s, ms, t, C)
    BY <1>1 DEF Places
<1>4. SUFFICES PlacesAt(s2, m2, t2, D)
    BY <1>2 DEF Places
<1>5. /\ s \in Nat /\ s <= Len(owner) /\ Len(owner) \in Nat /\ ms \in Seq(Entry)
      /\ Len(ms) \in Nat /\ page.input \in Nat
      /\ t.id \in Nat \X Nat /\ t.text \in Nat
      /\ t # NoRetry => t.text # 0 /\ t.id[1] # 0 /\ t.id[1] <= Len(owner)
      /\ \A q \in C : /\ q \in Request
                      /\ q.op = "send" => q.id \in Nat \X Nat /\ q.id[1] # 0
    BY <1>1, TalkTypes DEF ChatsIn
<1>6. NoRetry.id = NoEntry /\ NoRetry.text = 0
    BY DEF NoRetry
<1>7. CASE Quiet \/ Utters
  <2>1. s2 = s /\ m2 = ms /\ t2 = t /\ D = C
    BY <1>1, <1>2, <1>7 DEF Quiet, Utters, SameTalk
  <2> QED
    BY <1>3, <2>1
<1>8. CASE Clears
  <2>1. s2 = 0 /\ m2 = <<>> /\ t2 = t /\ D = C
    BY <1>1, <1>2, <1>8 DEF Clears
  <2>2. Len(m2) = 0
    BY <2>1
  <2>3. \A id : id[1] # 0 => Elsewhere(0, m2, id)
    BY <2>2 DEF Elsewhere
  <2>4. EntriesAt(0, m2) /\ AnswersAt(0, m2)
    BY <2>2 DEF EntriesAt, AnswersAt
  <2>5. t2 # NoRetry => RetryAt(0, m2, t2)
    BY <1>5, <2>1, <2>3 DEF RetryAt
  <2>6. \A q \in D : q.op = "send" => t2 = NoRetry /\ AwaitedAt(0, m2, q)
    BY <1>3, <1>5, <2>1, <2>3 DEF PlacesAt, AwaitedAt
  <2> QED
    BY <1>3, <2>1, <2>4, <2>5, <2>6 DEF PlacesAt
<1>9. CASE Mounts
  <2>1. page' = Mounted(storage) /\ D = {}
    BY <1>2, <1>9, ChatsGo DEF Mounts
  <2>2. PICK old : old = storage
    OBVIOUS
  <2>3. s2 = old.session /\ m2 = old.messages /\ t2 = NoRetry
    BY <1>2, <2>1, <2>2 DEF Mounted
  <2>4. s2 \in {s, 0} /\ m2 \in {ms, <<>>}
    BY <1>1, <2>2, <2>3 DEF Typed, StorageOK
  <2>5. EntriesAt(s2, ms) /\ AnswersAt(s2, ms)
    BY <1>3, <2>4 DEF PlacesAt, EntriesAt, AnswersAt, Elsewhere
  <2>6. EntriesAt(s2, <<>>) /\ AnswersAt(s2, <<>>)
    BY DEF EntriesAt, AnswersAt
  <2> QED
    BY <2>1, <2>3, <2>4, <2>5, <2>6 DEF PlacesAt
<1>10. ASSUME NEW q, Drops(q)
       PROVE  PlacesAt(s2, m2, t2, D)
  <2>1. s2 = s /\ m2 = ms /\ t2 = t /\ D = C \ {q}
    BY <1>1, <1>2, <1>10 DEF Drops, SameTalk
  <2> QED
    BY <1>3, <2>1 DEF PlacesAt
<1>11. ASSUME NEW q, Misses(q)
       PROVE  PlacesAt(s2, m2, t2, D)
  <2>1. /\ C = {q} /\ D = {} /\ q.op = "send" /\ s2 = s /\ m2 = Mark(ms, q.id, TRUE)
        /\ t2 = [id |-> q.id, text |-> q.text]
    BY <1>1, <1>2, <1>11, ChatsGo DEF Misses
  <2>2. t2.id = q.id /\ t2.text = q.text
    BY <2>1
  <2>3. AwaitedAt(s, ms, q)
    BY <1>3, <2>1 DEF PlacesAt
  <2>4. /\ EntriesAt(s, m2) /\ AnswersAt(s, m2)
        /\ Elsewhere(s, ms, q.id) => Elsewhere(s, m2, q.id)
        /\ LastIs(ms, q.id, q.text, FALSE) => LastIs(m2, q.id, q.text, TRUE)
    BY <1>3, <1>5, <2>1, MarkPlaces DEF PlacesAt
  <2>5. RetryAt(s, m2, t2)
    BY <2>2, <2>3, <2>4 DEF RetryAt, AwaitedAt
  <2> QED
    BY <2>1, <2>4, <2>5 DEF PlacesAt
<1>12. ASSUME NEW q, Starts(q) \/ Ends(q)
       PROVE  PlacesAt(s2, m2, t2, D)
  <2>1. /\ C = {} /\ D = {q} /\ q.op \in {"start", "end"} /\ q.status = "sent"
        /\ s2 = s /\ m2 = ms /\ t2 = t
    BY <1>1, <1>2, <1>12, ChatsGo DEF Starts, Ends, SameTalk
  <2> QED
    BY <1>3, <2>1 DEF PlacesAt
<1>13. ASSUME NEW q, SendsNew(q)
       PROVE  PlacesAt(s2, m2, t2, D)
  <2>1. PICK e : e = [by |-> "user", id |-> q.id, text |-> q.text, failed |-> FALSE]
    OBVIOUS
  <2>2. /\ D = {q} /\ q.op = "send" /\ q.session = s /\ s # 0 /\ q.status = "sent"
        /\ q.id = <<s, Len(ms) + 1>> /\ q.text = page.input /\ s2 = s
        /\ m2 = Append(ms, e) /\ t2 = NoRetry
    BY <1>1, <1>2, <1>13, <2>1, ChatsGo DEF SendsNew, Sends
  <2>3. /\ e \in Entry /\ e.by = "user" /\ e.id = q.id /\ e.text = q.text /\ e.failed = FALSE
        /\ q.id[2] = Len(ms) + 1 /\ q.id[1] = s
    BY <1>5, <2>1, <2>2 DEF Entry
  <2>4. EntriesAt(s, m2) /\ AnswersAt(s, m2)
    BY <1>3, <1>5, <2>2, <2>3, AppendPlaces DEF PlacesAt
  <2>5. Len(m2) = Len(ms) + 1 /\ m2[Len(ms) + 1] = e
    BY <1>5, <2>2, <2>3
  <2>6. LastIs(m2, q.id, q.text, FALSE)
    BY <1>5, <2>3, <2>5 DEF LastIs, SaidAt
  <2> QED
    BY <2>2, <2>3, <2>4, <2>6 DEF PlacesAt, AwaitedAt
<1>14. ASSUME NEW q, SendsAgain(q)
       PROVE  PlacesAt(s2, m2, t2, D)
  <2>1. /\ D = {q} /\ q.op = "send" /\ q.session = s /\ s # 0 /\ q.status = "sent"
        /\ t # NoRetry /\ q.id = t.id /\ q.text = t.text /\ s2 = s
        /\ m2 = Mark(ms, q.id, FALSE) /\ t2 = NoRetry
    BY <1>1, <1>2, <1>14, ChatsGo DEF SendsAgain, Sends
  <2>2. RetryAt(s, ms, t)
    BY <1>3, <2>1 DEF PlacesAt
  <2>3. /\ EntriesAt(s, m2) /\ AnswersAt(s, m2)
        /\ Elsewhere(s, ms, q.id) => Elsewhere(s, m2, q.id)
        /\ LastIs(ms, q.id, q.text, TRUE) => LastIs(m2, q.id, q.text, FALSE)
    BY <1>3, <1>5, <2>1, MarkPlaces DEF PlacesAt
  <2>4. LastIs(ms, q.id, q.text, TRUE) => q.id[1] = s
    BY <1>3, <1>5, <2>1 DEF PlacesAt, EntriesAt, LastIs, SaidAt
  <2>5. AwaitedAt(s, m2, q)
    BY <2>1, <2>2, <2>3, <2>4 DEF RetryAt, AwaitedAt
  <2> QED
    BY <2>1, <2>3, <2>5 DEF PlacesAt
<1>15. ASSUME NEW q, HasStarted(q)
       PROVE  PlacesAt(s2, m2, t2, D)
  <2>1. /\ C = {q} /\ q.op = "start" /\ q.status = "ok" /\ s2 = q.val /\ t2 = t
        /\ m2 = <<Volta(NoEntry)>> /\ \A c \in D : c.op \in {"profile", "memories"}
    BY <1>1, <1>2, <1>15, ChatsGo DEF HasStarted, Refreshes
  <2>2. Len(m2) = 1 /\ m2[1].by = "volta" /\ m2[1].id = NoEntry
    BY <2>1 DEF Volta
  <2>3. EntriesAt(s2, m2) /\ AnswersAt(s2, m2)
    BY <2>2 DEF EntriesAt, AnswersAt
  <2>4. t # NoRetry => RetryAt(s2, m2, t)
    <3>1. t # NoRetry => t.id[1] # 0 /\ t.id[1] # s2
      BY <1>3, <1>5, <2>1 DEF PlacesAt
    <3>2. \A i \in 1..Len(m2) : ~SaidAt(m2, i, t.id)
      BY <2>2 DEF SaidAt
    <3> QED
      BY <3>1, <3>2 DEF RetryAt, Elsewhere
  <2> QED
    BY <2>1, <2>3, <2>4 DEF PlacesAt
<1>16. ASSUME NEW q, HasReply(q)
       PROVE  PlacesAt(s2, m2, t2, D)
  <2>1. PICK e : e = Volta(q.id)
    OBVIOUS
  <2>2. /\ C = {q} /\ q.op = "send" /\ s2 = s /\ t2 = t
        /\ m2 = Append(ms, e) /\ \A c \in D : c.op \in {"profile", "memories"}
    BY <1>1, <1>2, <1>16, <2>1, ChatsGo DEF HasReply, Refreshes
  <2>3. e \in Entry /\ e.by = "volta" /\ e.id = q.id
    BY <1>5, <2>1, <2>2 DEF Volta, Entry
  <2>4. t = NoRetry /\ AwaitedAt(s, ms, q)
    BY <1>3, <2>2 DEF PlacesAt
  <2>5. EntriesAt(s, m2) /\ AnswersAt(s, m2)
    BY <1>3, <1>5, <2>2, <2>3, <2>4, AppendPlaces DEF PlacesAt, AwaitedAt, LastIs
  <2> QED
    BY <2>2, <2>4, <2>5 DEF PlacesAt
<1>17. ASSUME NEW q, HasEnded(q)
       PROVE  PlacesAt(s2, m2, t2, D)
  <2>1. /\ s2 = 0 /\ t2 = t /\ m2 = ms /\ \A c \in D : c.op \in {"profile", "memories"}
    BY <1>1, <1>2, <1>17, ChatsGo DEF HasEnded, Refreshes
  <2>2. \A o : Elsewhere(s, ms, o) => Elsewhere(0, ms, o)
    BY DEF Elsewhere
  <2>3. EntriesAt(0, ms) /\ AnswersAt(0, ms)
    BY <1>3, <2>2 DEF PlacesAt, EntriesAt, AnswersAt
  <2>4. t # NoRetry => RetryAt(0, ms, t)
    BY <1>3, <2>2 DEF PlacesAt, RetryAt
  <2> QED
    BY <2>1, <2>3, <2>4 DEF PlacesAt
<1>18. ASSUME NEW q, NEW r, Serves(q, r)
       PROVE  PlacesAt(s2, m2, t2, D)
  <2>1. /\ s2 = s /\ t2 = t /\ m2 = ms /\ AnswerTo(q, r)
        /\ r.status = "ok" /\ q.op = "start" => r.val = Len(owner) + 1
        /\ D = IF q \in C THEN (C \ {q}) \union {r} ELSE C
    BY <1>1, <1>2, <1>18, ChatsGo DEF Serves
  <2>2. CASE q \notin C
    BY <1>3, <2>1, <2>2
  <2>3. CASE q \in C
    <3>1. r.op = q.op /\ r.id = q.id /\ r.text = q.text /\ r.session = q.session
      BY <2>1 DEF AnswerTo
    <3>2. r.op = "start" /\ r.status = "ok" => r.val # t.id[1]
      <4>1. t = NoRetry => t.id[1] = 0
        BY <1>6 DEF NoEntry
      <4> QED
        BY <1>5, <2>1, <3>1, <4>1
    <3>3. r.op = "send" => t = NoRetry /\ AwaitedAt(s, ms, r)
      BY <1>3, <2>3, <3>1 DEF PlacesAt, AwaitedAt
    <3>4. \A c \in D : c \in C \/ c = r
      BY <2>1, <2>3
    <3> QED
      BY <1>3, <2>1, <3>2, <3>3, <3>4 DEF PlacesAt
  <2> QED
    BY <2>2, <2>3
<1> QED
    BY <1>7, <1>8, <1>9, <1>10, <1>11, <1>12, <1>13, <1>14, <1>15, <1>16, <1>17, <1>18 DEF Steps

(* What the page shows, from which AnswersInOrder follows.                 *)
Placed == Typed /\ OneChat /\ Places

LEMMA PlacedStep == Placed /\ [Next]_vars => Placed'
BY StepKinds, StepsTyped, OneChatStep, PlacesStep DEF Placed

LEMMA PlacedInit == Init => Placed
<1> SUFFICES ASSUME Init PROVE Placed
    OBVIOUS
<1>1. Typed /\ OneChat
    BY InitTyped, InitQuiet DEF OneChat, OneOf
<1>2. PlacesAt(0, <<>>, NoRetry, {})
    BY DEF PlacesAt, EntriesAt, AnswersAt
<1> QED
    BY <1>1, <1>2, InitQuiet DEF Placed, Places

(* sendMessage: an answer stands right behind the message it answers.      *)
THEOREM AnswersStandBehind == Spec => []AnswersInOrder
<1>1. Placed => AnswersInOrder
  <2> SUFFICES ASSUME Placed, NEW j \in DOMAIN page.messages,
                      page.messages[j].by = "volta", page.messages[j].id # NoEntry,
                      Shown(page.messages[j].id)
               PROVE  /\ j > 1 /\ page.messages[j - 1].by = "user"
                      /\ page.messages[j - 1].id = page.messages[j].id
    BY DEF AnswersInOrder
  <2>1. PICK s, ms : s = page.session /\ ms = page.messages
    OBVIOUS
  <2>2. ms \in Seq(Entry) /\ AnswersAt(s, ms)
    BY <2>1, TalkTypes DEF Placed, Places, PlacesAt
  <2>3. PICK i \in 1..Len(ms) : SaidAt(ms, i, ms[j].id)
    BY <2>1, <2>2 DEF Shown, SaidAt
  <2>4. j \in 1..Len(ms) /\ ~Elsewhere(s, ms, ms[j].id)
    BY <2>1, <2>2, <2>3 DEF Elsewhere
  <2>5. j > 1 /\ SaidAt(ms, j - 1, ms[j].id)
    BY <2>1, <2>2, <2>4 DEF AnswersAt
  <2> QED
    BY <2>1, <2>5 DEF SaidAt
<1> QED
    BY <1>1, PlacedInit, PlacedStep, PTL DEF Spec

-----------------------------------------------------------------------------
(* TranscriptAgrees.                                                       *)

(* The user's message at place i has its answer behind it.                 *)
FollowedAt(ms, i) ==
    i < Len(ms) /\ ms[i + 1].by = "volta" /\ SaidAt(ms, i, ms[i + 1].id)

(* The messages that the service keeps for certain: they have an answer on *)
(* the page, or on its way.                                                *)
KeptAt(ms, C) ==
    {i \in 1..Len(ms) :
        \/ FollowedAt(ms, i)
        \/ /\ i = Len(ms)
           /\ \E q \in C : q.op = "send" /\ q.status = "ok" /\ SaidAt(ms, i, q.id)}

(* They have rows of messages, in their order.                             *)
RowsOf(K, ms, st) ==
    \E f \in [K -> 1..Len(st)] :
        /\ \A i \in K : st[f[i]] = <<ms[i].id[1], ms[i].text>>
        /\ \A i, j \in K : i < j => f[i] < f[j]

Recorded == RowsOf(KeptAt(page.messages, ChatsIn(net)), page.messages, stored)

LEMMA FollowedIs ==
    ASSUME Placed, NEW i \in 1..Len(page.messages)
    PROVE  Answered(i) <=> FollowedAt(page.messages, i)
<1>1. PICK s, ms : s = page.session /\ ms = page.messages
    OBVIOUS
<1>2. ms \in Seq(Entry) /\ EntriesAt(s, ms) /\ AnswersAt(s, ms) /\ i \in 1..Len(ms)
    BY <1>1, TalkTypes DEF Placed, Places, PlacesAt
<1>3. DOMAIN ms = 1..Len(ms) /\ Len(ms) \in Nat
    BY <1>2
<1>4. Answered(i) <=> /\ ms[i].by = "user"
                      /\ \E j \in 1..Len(ms) : ms[j].by = "volta" /\ ms[j].id = ms[i].id
    BY <1>1, <1>3 DEF Answered
<1>5. ASSUME ms[i].by = "user", NEW j \in 1..Len(ms), ms[j].by = "volta", ms[j].id = ms[i].id
      PROVE  FollowedAt(ms, i)
  <2>1. ms[i].id[2] = i /\ ms[i].id # NoEntry
    BY <1>2, <1>3, <1>5 DEF EntriesAt, NoEntry
  <2>2. SaidAt(ms, i, ms[j].id)
    BY <1>5 DEF SaidAt
  <2>3. ~Elsewhere(s, ms, ms[j].id)
    BY <1>2, <2>2 DEF Elsewhere
  <2>4. j > 1 /\ SaidAt(ms, j - 1, ms[j].id)
    <3>1. ms[j].id # NoEntry
      BY <1>5, <2>1
    <3> QED
      BY <1>2, <1>5, <2>3, <3>1 DEF AnswersAt
  <2>5. ms[j - 1].id[2] = j - 1
    BY <1>2, <1>3, <2>4 DEF EntriesAt, SaidAt
  <2>6. j - 1 = i
    BY <1>5, <2>1, <2>4, <2>5 DEF SaidAt
  <2> QED
    BY <1>3, <1>5, <2>2, <2>6 DEF FollowedAt
<1>6. FollowedAt(ms, i) => ms[i].by = "user" /\ ms[i + 1].by = "volta" /\ ms[i + 1].id = ms[i].id
                           /\ i + 1 \in 1..Len(ms)
    BY <1>3 DEF FollowedAt, SaidAt
<1> QED
    BY <1>1, <1>4, <1>5, <1>6

(* Fewer messages have their rows as well, and a row comes behind.         *)
LEMMA RowsFewer ==
    ASSUME NEW K, NEW L, L \subseteq K, NEW ms, NEW m2, NEW st, RowsOf(K, ms, st),
           \A i \in L : m2[i].id = ms[i].id /\ m2[i].text = ms[i].text
    PROVE  RowsOf(L, m2, st)
<1>1. PICK f \in [K -> 1..Len(st)] :
          /\ \A i \in K : st[f[i]] = <<ms[i].id[1], ms[i].text>>
          /\ \A i, j \in K : i < j => f[i] < f[j]
    BY DEF RowsOf
<1>2. PICK g : g = [i \in L |-> f[i]]
    OBVIOUS
<1>3. g \in [L -> 1..Len(st)] /\ \A i \in L : g[i] = f[i] /\ i \in K
    BY <1>2
<1> QED
    BY <1>1, <1>3 DEF RowsOf

LEMMA RowsMore ==
    ASSUME NEW K, NEW ms, NEW X, NEW st \in Seq(X), NEW x, RowsOf(K, ms, st)
    PROVE  RowsOf(K, ms, Append(st, x))
<1>1. PICK f \in [K -> 1..Len(st)] :
          /\ \A i \in K : st[f[i]] = <<ms[i].id[1], ms[i].text>>
          /\ \A i, j \in K : i < j => f[i] < f[j]
    BY DEF RowsOf
<1>2. PICK s2 : s2 = Append(st, x)
    OBVIOUS
<1>3. Len(st) \in Nat /\ Len(s2) = Len(st) + 1 /\ \A p \in 1..Len(st) : s2[p] = st[p]
    BY <1>2
<1>4. f \in [K -> 1..Len(s2)] /\ \A i \in K : f[i] \in 1..Len(st)
    BY <1>1, <1>3
<1>5. RowsOf(K, ms, s2)
    BY <1>1, <1>3, <1>4 DEF RowsOf
<1> QED
    BY <1>2, <1>5

LEMMA RowsLast ==
    ASSUME NEW n \in Nat, NEW K \in SUBSET (1..n), NEW ms, NEW X, NEW st \in Seq(X),
           RowsOf(K, ms, st)
    PROVE  RowsOf(K \union {n}, ms, Append(st, <<ms[n].id[1], ms[n].text>>))
<1>1. PICK f \in [K -> 1..Len(st)] :
          /\ \A i \in K : st[f[i]] = <<ms[i].id[1], ms[i].text>>
          /\ \A i, j \in K : i < j => f[i] < f[j]
    BY DEF RowsOf
<1>2. PICK s2 : s2 = Append(st, <<ms[n].id[1], ms[n].text>>)
    OBVIOUS
<1>3. /\ Len(st) \in Nat /\ Len(s2) = Len(st) + 1 /\ \A p \in 1..Len(st) : s2[p] = st[p]
      /\ s2[Len(st) + 1] = <<ms[n].id[1], ms[n].text>>
    BY <1>2
<1>4. PICK g : g = [i \in K \union {n} |-> IF i = n THEN Len(st) + 1 ELSE f[i]]
    OBVIOUS
<1>5. /\ \A i \in K : i # n => g[i] = f[i] /\ f[i] \in 1..Len(st)
      /\ g[n] = Len(st) + 1
    BY <1>1, <1>4
<1>6. g \in [K \union {n} -> 1..Len(s2)]
    BY <1>1, <1>3, <1>4
<1>7. \A i \in K \union {n} : s2[g[i]] = <<ms[i].id[1], ms[i].text>>
    BY <1>1, <1>3, <1>5
<1>8. \A i, j \in K \union {n} : i < j => g[i] < g[j]
  <2> SUFFICES ASSUME NEW i \in K \union {n}, NEW j \in K \union {n}, i < j
               PROVE  g[i] < g[j]
    OBVIOUS
  <2>1. i \in K /\ i # n /\ i \in 1..n /\ j \in 1..n
    OBVIOUS
  <2>2. CASE j = n
    BY <1>3, <1>5, <2>1, <2>2
  <2>3. CASE j # n
    BY <1>1, <1>5, <2>1, <2>3
  <2> QED
    BY <2>2, <2>3
<1>9. RowsOf(K \union {n}, ms, s2)
    BY <1>6, <1>7, <1>8 DEF RowsOf
<1> QED
    BY <1>2, <1>9

(* What is marked, or comes behind.                                        *)
LEMMA MarkFollows ==
    ASSUME NEW ms \in Seq(Entry), NEW id, NEW failed \in BOOLEAN
    PROVE  /\ Len(Mark(ms, id, failed)) = Len(ms)
           /\ \A i \in 1..Len(ms) :
                 /\ FollowedAt(Mark(ms, id, failed), i) <=> FollowedAt(ms, i)
                 /\ \A o : SaidAt(Mark(ms, id, failed), i, o) <=> SaidAt(ms, i, o)
                 /\ Mark(ms, id, failed)[i].by = ms[i].by
                 /\ Mark(ms, id, failed)[i].id = ms[i].id
                 /\ Mark(ms, id, failed)[i].text = ms[i].text
<1>1. PICK m2 : m2 = Mark(ms, id, failed)
    OBVIOUS
<1>2. /\ Len(m2) = Len(ms) /\ Len(ms) \in Nat
      /\ \A i \in 1..Len(ms) :
            m2[i].by = ms[i].by /\ m2[i].id = ms[i].id /\ m2[i].text = ms[i].text
    BY <1>1, MarkType
<1>3. \A i \in 1..Len(ms) : \A o : SaidAt(m2, i, o) <=> SaidAt(ms, i, o)
    BY <1>2 DEF SaidAt
<1>4. \A i \in 1..Len(ms) : FollowedAt(m2, i) <=> FollowedAt(ms, i)
  <2> SUFFICES ASSUME NEW i \in 1..Len(ms)
               PROVE  FollowedAt(m2, i) <=> FollowedAt(ms, i)
    OBVIOUS
  <2>1. i < Len(ms) => i + 1 \in 1..Len(ms)
    BY <1>2
  <2> QED
    BY <1>2, <1>3, <2>1 DEF FollowedAt
<1> QED
    BY <1>1, <1>2, <1>3, <1>4

LEMMA AppendFollows ==
    ASSUME NEW ms \in Seq(Entry), NEW e \in Entry
    PROVE  /\ Len(Append(ms, e)) = Len(ms) + 1
           /\ \A i \in 1..(Len(ms) + 1) :
                 FollowedAt(Append(ms, e), i) <=>
                     \/ FollowedAt(ms, i)
                     \/ i = Len(ms) /\ e.by = "volta" /\ SaidAt(ms, i, e.id)
           /\ \A i \in 1..Len(ms) : Append(ms, e)[i] = ms[i]
           /\ Append(ms, e)[Len(ms) + 1] = e
<1>1. PICK m2 : m2 = Append(ms, e)
    OBVIOUS
<1>2. /\ Len(m2) = Len(ms) + 1 /\ Len(ms) \in Nat
      /\ \A i \in 1..Len(ms) : m2[i] = ms[i]
      /\ m2[Len(ms) + 1] = e
    BY <1>1
<1>3. \A i \in 1..Len(ms) : \A o : SaidAt(m2, i, o) <=> SaidAt(ms, i, o)
    BY <1>2 DEF SaidAt
<1>4. ASSUME NEW i \in 1..(Len(ms) + 1)
      PROVE  FollowedAt(m2, i) <=>
                 \/ FollowedAt(ms, i)
                 \/ i = Len(ms) /\ e.by = "volta" /\ SaidAt(ms, i, e.id)
  <2>1. CASE i < Len(ms)
    <3>1. i \in 1..Len(ms) /\ i + 1 \in 1..Len(ms) /\ i # Len(ms)
      BY <1>2, <2>1
    <3> QED
      BY <1>2, <1>3, <2>1, <3>1 DEF FollowedAt
  <2>2. CASE i = Len(ms)
    BY <1>2, <1>3, <2>2 DEF FollowedAt
  <2>3. CASE i = Len(ms) + 1
    BY <1>2, <2>3 DEF FollowedAt
  <2> QED
    BY <1>2, <2>1, <2>2, <2>3
<1> QED
    BY <1>1, <1>2, <1>4

LEMMA RecordedStep ==
    ASSUME Placed, Recorded, Steps
    PROVE  Recorded'
<1>1. PICK s, ms, t, C, st : /\ s = page.session /\ ms = page.messages /\ t = page.retry
                             /\ C = ChatsIn(net) /\ st = stored
    OBVIOUS
<1>2. PICK m2, D, u : m2 = page'.messages /\ D = ChatsIn(net') /\ u = stored'
    OBVIOUS
<1>3. PICK X : X = (1..Len(owner)) \X (1..Used("say"))
    OBVIOUS
<1>4. /\ PlacesAt(s, ms, t, C) /\ RowsOf(KeptAt(ms, C), ms, st) /\ Typed /\ OneChat
      /\ ms \in Seq(Entry) /\ Len(ms) \in Nat /\ st \in Seq(X) /\ s \in Nat
      /\ page.input \in Nat
      /\ \A q \in C : q.op = "send" => q.id \in Nat \X Nat
    BY <1>1, <1>3, TalkTypes DEF Placed, Places, Recorded, Typed, ServiceOK, ChatsIn
<1>5. SUFFICES RowsOf(KeptAt(m2, D), m2, u)
    BY <1>2 DEF Recorded
<1>6. ASSUME KeptAt(m2, D) \subseteq KeptAt(ms, C), u = st,
             \A i \in KeptAt(ms, C) : m2[i].id = ms[i].id /\ m2[i].text = ms[i].text
      PROVE  RowsOf(KeptAt(m2, D), m2, u)
    BY <1>4, <1>6, RowsFewer
<1>7. ASSUME D \subseteq C, u = st, m2 = ms
      PROVE  RowsOf(KeptAt(m2, D), m2, u)
  <2>1. KeptAt(m2, D) \subseteq KeptAt(ms, C)
    BY <1>7 DEF KeptAt
  <2> QED
    BY <1>6, <1>7, <2>1
<1>8. ASSUME \A q \in D : q.op # "send" \/ q.status # "ok", u = st, m2 = ms
      PROVE  RowsOf(KeptAt(m2, D), m2, u)
  <2>1. KeptAt(m2, D) \subseteq KeptAt(ms, C)
    BY <1>8 DEF KeptAt
  <2> QED
    BY <1>6, <1>8, <2>1
<1>9. ASSUME Len(m2) <= 1, Len(m2) \in Nat, \A q \in D, i \in 1..Len(m2) : ~SaidAt(m2, i, q.id),
             u = st
      PROVE  RowsOf(KeptAt(m2, D), m2, u)
  <2>1. KeptAt(m2, D) = {}
    BY <1>9 DEF KeptAt, FollowedAt
  <2> QED
    BY <1>6, <1>9, <2>1, RowsFewer, <1>4
<1>10. ASSUME NEW id, NEW failed \in BOOLEAN, m2 = Mark(ms, id, failed), u = st,
              \A q \in D : q.op # "send" \/ q.status # "ok"
       PROVE  RowsOf(KeptAt(m2, D), m2, u)
  <2>1. /\ Len(m2) = Len(ms)
        /\ \A i \in 1..Len(ms) : /\ FollowedAt(m2, i) <=> FollowedAt(ms, i)
                                 /\ m2[i].id = ms[i].id /\ m2[i].text = ms[i].text
    BY <1>4, <1>10, MarkFollows
  <2>2. KeptAt(m2, D) \subseteq KeptAt(ms, C) /\ KeptAt(ms, C) \subseteq 1..Len(ms)
    BY <1>10, <2>1 DEF KeptAt
  <2> QED
    BY <1>6, <1>10, <2>1, <2>2
<1>11. CASE Quiet \/ Utters
  <2>1. m2 = ms /\ D = C /\ u = st
    BY <1>1, <1>2, <1>11 DEF Quiet, Utters, SameTalk, Kept
  <2> QED
    BY <1>7, <2>1
<1>12. CASE Clears
  <2>1. m2 = <<>> /\ u = st
    BY <1>1, <1>2, <1>12 DEF Clears, Kept
  <2> QED
    BY <1>9, <2>1
<1>13. CASE Mounts
  <2>1. page' = Mounted(storage) /\ D = {} /\ u = st
    BY <1>1, <1>2, <1>4, <1>13, ChatsGo DEF Mounts
  <2>2. PICK old : old = storage
    OBVIOUS
  <2>3. m2 = old.messages
    BY <1>2, <2>1, <2>2 DEF Mounted
  <2>4. m2 \in {ms, <<>>}
    BY <1>1, <1>4, <2>2, <2>3 DEF Typed, StorageOK
  <2>5. CASE m2 = ms
    BY <1>7, <2>1, <2>5
  <2>6. CASE m2 = <<>>
    BY <1>9, <2>1, <2>6
  <2> QED
    BY <2>4, <2>5, <2>6
<1>14. ASSUME NEW q, Drops(q)
       PROVE  RowsOf(KeptAt(m2, D), m2, u)
  <2>1. m2 = ms /\ D \subseteq C /\ u = st
    BY <1>1, <1>2, <1>14 DEF Drops, SameTalk, Kept
  <2> QED
    BY <1>7, <2>1
<1>15. ASSUME NEW q, Misses(q)
       PROVE  RowsOf(KeptAt(m2, D), m2, u)
  <2>1. m2 = Mark(ms, q.id, TRUE) /\ D = {} /\ u = st
    BY <1>1, <1>2, <1>4, <1>15, ChatsGo DEF Misses, Kept
  <2> QED
    BY <1>10, <2>1
<1>16. ASSUME NEW q, Starts(q) \/ Ends(q)
       PROVE  RowsOf(KeptAt(m2, D), m2, u)
  <2>1. m2 = ms /\ D = {q} /\ q.status = "sent" /\ u = st
    BY <1>1, <1>2, <1>4, <1>16, ChatsGo DEF Starts, Ends, SameTalk, Kept
  <2> QED
    BY <1>8, <2>1
<1>17. ASSUME NEW q, SendsNew(q)
       PROVE  RowsOf(KeptAt(m2, D), m2, u)
  <2>1. PICK e : e = [by |-> "user", id |-> q.id, text |-> q.text, failed |-> FALSE]
    OBVIOUS
  <2>2. /\ D = {q} /\ q.status = "sent" /\ q.id = <<s, Len(ms) + 1>> /\ q.text = page.input
        /\ m2 = Append(ms, e) /\ u = st
    BY <1>1, <1>2, <1>4, <1>17, <2>1, ChatsGo DEF SendsNew, Sends, Kept
  <2>3. e \in Entry /\ e.by = "user"
    BY <1>4, <2>1, <2>2 DEF Entry
  <2>4. /\ Len(m2) = Len(ms) + 1
        /\ \A i \in 1..(Len(ms) + 1) : FollowedAt(m2, i) => FollowedAt(ms, i)
        /\ \A i \in 1..Len(ms) : m2[i] = ms[i]
    BY <1>4, <2>2, <2>3, AppendFollows
  <2>5. KeptAt(m2, D) \subseteq KeptAt(ms, C) /\ KeptAt(ms, C) \subseteq 1..Len(ms)
    BY <1>4, <2>2, <2>4 DEF KeptAt, FollowedAt
  <2> QED
    BY <1>6, <2>2, <2>4, <2>5
<1>18. ASSUME NEW q, SendsAgain(q)
       PROVE  RowsOf(KeptAt(m2, D), m2, u)
  <2>1. m2 = Mark(ms, q.id, FALSE) /\ D = {q} /\ q.status = "sent" /\ u = st
    BY <1>1, <1>2, <1>4, <1>18, ChatsGo DEF SendsAgain, Sends, Kept
  <2> QED
    BY <1>10, <2>1
<1>19. ASSUME NEW q, HasStarted(q)
       PROVE  RowsOf(KeptAt(m2, D), m2, u)
  <2>1. m2 = <<Volta(NoEntry)>> /\ u = st
    BY <1>1, <1>2, <1>19 DEF HasStarted, Refreshes, Kept
  <2>2. Len(m2) = 1 /\ m2[1].by = "volta"
    BY <2>1 DEF Volta
  <2> QED
    BY <1>9, <2>1, <2>2 DEF SaidAt
<1>20. ASSUME NEW q, HasReply(q)
       PROVE  RowsOf(KeptAt(m2, D), m2, u)
  <2>1. PICK e : e = Volta(q.id)
    OBVIOUS
  <2>2. /\ C = {q} /\ q.op = "send" /\ q.status = "ok" /\ m2 = Append(ms, e) /\ u = st
        /\ \A c \in D : c.op \in {"profile", "memories"}
    BY <1>1, <1>2, <1>4, <1>20, <2>1, ChatsGo DEF HasReply, Refreshes, Kept
  <2>3. e \in Entry /\ e.by = "volta" /\ e.id = q.id
    BY <1>4, <2>1, <2>2 DEF Volta, Entry
  <2>4. /\ Len(m2) = Len(ms) + 1
        /\ \A i \in 1..(Len(ms) + 1) :
              FollowedAt(m2, i) => FollowedAt(ms, i) \/ (i = Len(ms) /\ SaidAt(ms, i, q.id))
        /\ \A i \in 1..Len(ms) : m2[i] = ms[i]
    BY <1>4, <2>2, <2>3, AppendFollows
  <2>5. ASSUME NEW i \in KeptAt(m2, D)
        PROVE  i \in KeptAt(ms, C)
    <3>1. i \in 1..(Len(ms) + 1) /\ FollowedAt(m2, i)
      BY <2>2, <2>4 DEF KeptAt
    <3>2. i \in 1..Len(ms)
      BY <1>4, <2>4, <3>1 DEF FollowedAt
    <3> QED
      BY <2>2, <2>4, <3>1, <3>2 DEF KeptAt
  <2>6. KeptAt(ms, C) \subseteq 1..Len(ms)
    BY DEF KeptAt
  <2> QED
    BY <1>6, <2>2, <2>4, <2>5, <2>6
<1>21. ASSUME NEW q, HasEnded(q)
       PROVE  RowsOf(KeptAt(m2, D), m2, u)
  <2>1. m2 = ms /\ u = st /\ \A c \in D : c.op \in {"profile", "memories"}
    BY <1>1, <1>2, <1>4, <1>21, ChatsGo DEF HasEnded, Refreshes, Kept
  <2> QED
    BY <1>8, <2>1
<1>22. ASSUME NEW q, NEW r, Serves(q, r)
       PROVE  RowsOf(KeptAt(m2, D), m2, u)
  <2>1. /\ m2 = ms /\ AnswerTo(q, r)
        /\ D = IF q \in C THEN (C \ {q}) \union {r} ELSE C
        /\ u = IF r.status = "ok" /\ q.op = "send" THEN Append(st, <<q.session, q.text>>) ELSE st
    BY <1>1, <1>2, <1>4, <1>22, ChatsGo DEF Serves
  <2>2. r.op = q.op /\ r.id = q.id
    BY <2>1 DEF AnswerTo
  <2>3. CASE /\ q \in C /\ q.op = "send" /\ r.status = "ok"
             /\ Len(ms) > 0 /\ SaidAt(ms, Len(ms), q.id)
    <3>1. AwaitedAt(s, ms, q)
      BY <1>4, <2>3 DEF PlacesAt
    <3>2. Len(ms) \in 1..Len(ms)
      BY <1>4, <2>3
    <3>3. q.text = ms[Len(ms)].text /\ q.session = ms[Len(ms)].id[1]
      BY <2>3, <3>1, <3>2 DEF AwaitedAt, LastIs, SaidAt, Elsewhere
    <3>4. KeptAt(ms, C) \subseteq 1..Len(ms)
      BY DEF KeptAt
    <3>5. RowsOf(KeptAt(ms, C) \union {Len(ms)}, ms, u)
      BY <1>4, <2>1, <2>3, <3>3, <3>4, RowsLast
    <3>6. KeptAt(m2, D) \subseteq KeptAt(ms, C) \union {Len(ms)}
      BY <2>1 DEF KeptAt
    <3>7. PICK K, L : K = KeptAt(ms, C) \union {Len(ms)} /\ L = KeptAt(m2, D)
      OBVIOUS
    <3>8. RowsOf(L, ms, u)
      BY <3>5, <3>6, <3>7, RowsFewer
    <3> QED
      BY <2>1, <3>7, <3>8
  <2>4. CASE ~(/\ q \in C /\ q.op = "send" /\ r.status = "ok"
               /\ Len(ms) > 0 /\ SaidAt(ms, Len(ms), q.id))
    <3>1. KeptAt(m2, D) \subseteq KeptAt(ms, C)
      BY <1>4, <2>1, <2>2, <2>4 DEF KeptAt
    <3>2. RowsOf(KeptAt(m2, D), m2, st)
      BY <1>4, <2>1, <3>1, RowsFewer
    <3> QED
      BY <1>4, <2>1, <3>2, RowsMore
  <2> QED
    BY <2>3, <2>4
<1> QED
    BY <1>11, <1>12, <1>13, <1>14, <1>15, <1>16, <1>17, <1>18, <1>19, <1>20, <1>21, <1>22 DEF Steps

(* Of what the user sees answered the service keeps every message, in the  *)
(* order shown.                                                            *)
THEOREM TranscriptIsKept == Spec => []TranscriptAgrees
<1>1. Init => Recorded
  <2> SUFFICES ASSUME Init PROVE Recorded
    OBVIOUS
  <2>1. page.messages = <<>> /\ ChatsIn(net) = {} /\ stored = <<>>
    BY InitQuiet DEF Init
  <2>2. KeptAt(<<>>, {}) = {}
    BY DEF KeptAt
  <2>3. RowsOf({}, <<>>, <<>>)
    <3>1. [i \in {} |-> 0] \in [{} -> 1..Len(<<>>)]
      OBVIOUS
    <3> QED
      BY <3>1 DEF RowsOf
  <2> QED
    BY <2>1, <2>2, <2>3 DEF Recorded
<1>2. Placed /\ Recorded /\ [Next]_vars => Recorded'
    BY StepKinds, RecordedStep DEF Placed
<1>3. Placed /\ Recorded => TranscriptAgrees
  <2> SUFFICES ASSUME Placed, Recorded PROVE TranscriptAgrees
    OBVIOUS
  <2>1. PICK ms, st, C : ms = page.messages /\ st = stored /\ C = ChatsIn(net)
    OBVIOUS
  <2>2. PICK f \in [KeptAt(ms, C) -> 1..Len(st)] :
            /\ \A i \in KeptAt(ms, C) : st[f[i]] = <<ms[i].id[1], ms[i].text>>
            /\ \A i, j \in KeptAt(ms, C) : i < j => f[i] < f[j]
    BY <2>1 DEF Recorded, RowsOf
  <2>3. ms \in Seq(Entry) /\ DOMAIN ms = 1..Len(ms) /\ Len(ms) \in Nat
        /\ DOMAIN st = 1..Len(st) /\ Len(st) \in Nat
    BY <2>1, TalkTypes DEF Placed, Typed, ServiceOK
  <2>4. \A i \in 1..Len(ms) : Answered(i) => i \in KeptAt(ms, C)
    BY <2>1, FollowedIs DEF KeptAt
  <2>5. ASSUME NEW i \in 1..Len(ms), Answered(i)
        PROVE  \E p \in 1..Len(st) :
                   /\ st[p] = Posted(i)
                   /\ \A j \in (i + 1)..Len(ms) : Answered(j) =>
                          \E q \in (p + 1)..Len(st) : st[q] = Posted(j)
    <3>1. f[i] \in 1..Len(st) /\ st[f[i]] = Posted(i)
      <4>1. i \in KeptAt(ms, C)
        BY <2>4, <2>5
      <4> QED
        BY <2>1, <2>2, <4>1 DEF Posted
    <3>2. ASSUME NEW j \in (i + 1)..Len(ms), Answered(j)
          PROVE  \E q \in (f[i] + 1)..Len(st) : st[q] = Posted(j)
      <4>1. j \in 1..Len(ms) /\ i < j
        BY <2>3
      <4>2. f[j] \in 1..Len(st) /\ st[f[j]] = Posted(j) /\ f[i] < f[j]
        BY <2>1, <2>2, <2>4, <2>5, <3>2, <4>1 DEF Posted
      <4>3. f[j] \in (f[i] + 1)..Len(st)
        BY <2>3, <3>1, <4>2
      <4> QED
        BY <4>2, <4>3
    <3> QED
      BY <3>1, <3>2
  <2> QED
    BY <2>1, <2>3, <2>5 DEF TranscriptAgrees
<1> QED
    BY <1>1, <1>2, <1>3, PlacedInit, PlacedStep, PTL DEF Spec

-----------------------------------------------------------------------------
(* Accounted.                                                              *)

(* The user's messages that are not marked, not answered and not awaited:  *)
(* the page went away while they were.                                     *)
LostAt(ms, C) ==
    {i \in 1..Len(ms) :
        /\ ms[i].by = "user" /\ ms[i].failed = FALSE /\ ~FollowedAt(ms, i)
        /\ ~(i = Len(ms) /\ \E q \in C : q.op = "send" /\ SaidAt(ms, i, q.id))}

Excused == Cardinality(LostAt(page.messages, ChatsIn(net))) <= Remounts

LEMMA LostFinite ==
    ASSUME NEW ms \in Seq(Entry), NEW C
    PROVE  IsFiniteSet(LostAt(ms, C)) /\ Cardinality(LostAt(ms, C)) \in Nat
<1>1. LostAt(ms, C) \subseteq 1..Len(ms) /\ Len(ms) \in Nat
    BY DEF LostAt
<1>2. IsFiniteSet(LostAt(ms, C))
  <2>1. IsFiniteSet(1..Len(ms))
    BY <1>1, FS_Interval
  <2> QED
    BY <1>1, <2>1, FS_Subset
<1> QED
    BY <1>2, FS_CardinalityType

LEMMA OneMore ==
    ASSUME NEW A, IsFiniteSet(A), NEW x, NEW B, B \subseteq A \union {x}
    PROVE  IsFiniteSet(B) /\ Cardinality(B) <= Cardinality(A) + 1
<1>1. /\ IsFiniteSet(A \union {x}) /\ Cardinality(A) \in Nat
      /\ Cardinality(A \union {x}) <= Cardinality(A) + 1
  <2>1. Cardinality(A) \in Nat
    BY FS_CardinalityType
  <2>2. /\ IsFiniteSet(A \union {x})
        /\ Cardinality(A \union {x}) = IF x \in A THEN Cardinality(A) ELSE Cardinality(A) + 1
    BY FS_AddElement
  <2> QED
    BY <2>1, <2>2
<1>2. /\ IsFiniteSet(B) /\ Cardinality(B) \in Nat /\ Cardinality(A \union {x}) \in Nat
      /\ Cardinality(B) <= Cardinality(A \union {x})
    BY <1>1, FS_Subset, FS_CardinalityType
<1> QED
    BY <1>1, <1>2

LEMMA RemountsCount ==
    ASSUME Counted
    PROVE  Remounts \in Nat /\ Remounts' \in Nat /\ Remounts <= Remounts'
<1>1. \A k \in {"leave", "reload", "signin"} :
          Used(k) \in Nat /\ Used(k)' \in Nat /\ Used(k) <= Used(k)'
    BY Kind DEF Counted
<1> QED
    BY <1>1 DEF Remounts

LEMMA Marked ==
    ASSUME NEW ms \in Seq(Entry), NEW id, NEW failed \in BOOLEAN, NEW i \in 1..Len(ms)
    PROVE  /\ SaidAt(ms, i, id) => Mark(ms, id, failed)[i].failed = failed
           /\ ~SaidAt(ms, i, id) => Mark(ms, id, failed)[i].failed = ms[i].failed
BY MarkType DEF SaidAt

(* No step but a mount loses a message.                                    *)
LEMMA LostSteps ==
    ASSUME Placed, Steps
    PROVE  \/ Mounts
           \/ LostAt(page'.messages, ChatsIn(net')) \subseteq LostAt(page.messages, ChatsIn(net))
<1>1. PICK s, ms, t, C : /\ s = page.session /\ ms = page.messages /\ t = page.retry
                         /\ C = ChatsIn(net)
    OBVIOUS
<1>2. PICK m2, D : m2 = page'.messages /\ D = ChatsIn(net')
    OBVIOUS
<1>3. /\ PlacesAt(s, ms, t, C) /\ Typed /\ OneChat
      /\ ms \in Seq(Entry) /\ Len(ms) \in Nat /\ s \in Nat /\ page.input \in Nat
      /\ \A q \in C : q.op = "send" => q.id \in Nat \X Nat
    BY <1>1, TalkTypes DEF Placed, Places, ChatsIn
<1>4. SUFFICES Mounts \/ LostAt(m2, D) \subseteq LostAt(ms, C)
    BY <1>1, <1>2
<1>5. CASE Quiet \/ Utters
  <2>1. m2 = ms /\ D = C
    BY <1>1, <1>2, <1>5 DEF Quiet, Utters, SameTalk
  <2> QED
    BY <2>1
<1>6. CASE Clears
  <2>1. m2 = <<>>
    BY <1>2, <1>6 DEF Clears
  <2> QED
    BY <2>1 DEF LostAt
<1>7. ASSUME NEW q, Drops(q)
      PROVE  LostAt(m2, D) \subseteq LostAt(ms, C)
  <2>1. m2 = ms /\ D = C \ {q} /\ q.op # "send"
    BY <1>1, <1>2, <1>7 DEF Drops, SameTalk
  <2> QED
    BY <2>1 DEF LostAt
<1>8. ASSUME NEW q, Misses(q)
      PROVE  LostAt(m2, D) \subseteq LostAt(ms, C)
  <2>1. m2 = Mark(ms, q.id, TRUE) /\ C = {q} /\ q.op = "send"
    BY <1>1, <1>2, <1>3, <1>8, ChatsGo DEF Misses
  <2>2. /\ Len(m2) = Len(ms)
        /\ \A i \in 1..Len(ms) :
              /\ FollowedAt(m2, i) <=> FollowedAt(ms, i)
              /\ m2[i].by = ms[i].by
              /\ SaidAt(ms, i, q.id) => m2[i].failed = TRUE
              /\ ~SaidAt(ms, i, q.id) => m2[i].failed = ms[i].failed
    <3>1. PICK b \in BOOLEAN : b = TRUE
      OBVIOUS
    <3>2. m2 = Mark(ms, q.id, b)
      BY <2>1, <3>1
    <3>3. /\ Len(m2) = Len(ms)
          /\ \A i \in 1..Len(ms) :
                /\ FollowedAt(m2, i) <=> FollowedAt(ms, i)
                /\ SaidAt(m2, i, q.id) <=> SaidAt(ms, i, q.id)
                /\ m2[i].by = ms[i].by
      BY <1>3, <3>2, MarkFollows
    <3>4. \A i \in 1..Len(ms) :
              /\ SaidAt(ms, i, q.id) => m2[i].failed = b
              /\ ~SaidAt(ms, i, q.id) => m2[i].failed = ms[i].failed
      BY <1>3, <3>2, Marked
    <3> QED
      BY <3>1, <3>3, <3>4
  <2>3. ASSUME NEW i \in LostAt(m2, D)
        PROVE  i \in LostAt(ms, C)
    <3>1. /\ i \in 1..Len(ms) /\ ms[i].by = "user" /\ ~FollowedAt(ms, i)
          /\ m2[i].failed = FALSE
      BY <2>2 DEF LostAt
    <3>2. ~SaidAt(ms, i, q.id) /\ ms[i].failed = FALSE
      BY <2>2, <3>1
    <3> QED
      BY <2>1, <3>1, <3>2 DEF LostAt
  <2> QED
    BY <2>3
<1>9. ASSUME NEW q, Starts(q) \/ Ends(q)
      PROVE  LostAt(m2, D) \subseteq LostAt(ms, C)
  <2>1. m2 = ms /\ C = {}
    BY <1>1, <1>2, <1>3, <1>9, ChatsGo DEF Starts, Ends, SameTalk
  <2> QED
    BY <2>1 DEF LostAt
<1>10. ASSUME NEW q, SendsNew(q)
       PROVE  LostAt(m2, D) \subseteq LostAt(ms, C)
  <2>1. PICK e : e = [by |-> "user", id |-> q.id, text |-> q.text, failed |-> FALSE]
    OBVIOUS
  <2>2. /\ C = {} /\ D = {q} /\ q.op = "send" /\ q.id = <<s, Len(ms) + 1>>
        /\ q.text = page.input /\ m2 = Append(ms, e)
    BY <1>1, <1>2, <1>3, <1>10, <2>1, ChatsGo DEF SendsNew, Sends
  <2>3. e \in Entry /\ e.by = "user" /\ e.id = q.id
    BY <1>3, <2>1, <2>2 DEF Entry
  <2>4. /\ Len(m2) = Len(ms) + 1 /\ m2[Len(ms) + 1] = e
        /\ \A i \in 1..(Len(ms) + 1) : FollowedAt(ms, i) => FollowedAt(m2, i)
        /\ \A i \in 1..Len(ms) : m2[i] = ms[i]
    BY <1>3, <2>2, <2>3, AppendFollows
  <2>5. ASSUME NEW i \in LostAt(m2, D)
        PROVE  i \in LostAt(ms, C)
    <3>1. /\ i \in 1..(Len(ms) + 1) /\ m2[i].by = "user" /\ ~FollowedAt(ms, i)
          /\ m2[i].failed = FALSE
          /\ i = Len(ms) + 1 => ~SaidAt(m2, i, q.id)
      BY <2>2, <2>4 DEF LostAt
    <3>2. i \in 1..Len(ms)
      BY <1>3, <2>3, <2>4, <3>1 DEF SaidAt
    <3> QED
      BY <2>2, <2>4, <3>1, <3>2 DEF LostAt
  <2> QED
    BY <2>5
<1>11. ASSUME NEW q, SendsAgain(q)
       PROVE  LostAt(m2, D) \subseteq LostAt(ms, C)
  <2>1. /\ C = {} /\ D = {q} /\ q.op = "send" /\ t # NoRetry /\ q.id = t.id
        /\ m2 = Mark(ms, q.id, FALSE)
    BY <1>1, <1>2, <1>3, <1>11, ChatsGo DEF SendsAgain, Sends
  <2>2. /\ Len(m2) = Len(ms)
        /\ \A i \in 1..Len(ms) :
              /\ FollowedAt(m2, i) <=> FollowedAt(ms, i)
              /\ SaidAt(m2, i, q.id) <=> SaidAt(ms, i, q.id)
              /\ m2[i].by = ms[i].by
              /\ ~SaidAt(ms, i, q.id) => m2[i].failed = ms[i].failed
    <3>1. PICK b \in BOOLEAN : b = FALSE
      OBVIOUS
    <3>2. m2 = Mark(ms, q.id, b)
      BY <2>1, <3>1
    <3>3. /\ Len(m2) = Len(ms)
          /\ \A i \in 1..Len(ms) :
                /\ FollowedAt(m2, i) <=> FollowedAt(ms, i)
                /\ SaidAt(m2, i, q.id) <=> SaidAt(ms, i, q.id)
                /\ m2[i].by = ms[i].by
      BY <1>3, <3>2, MarkFollows
    <3>4. \A i \in 1..Len(ms) :
              /\ SaidAt(ms, i, q.id) => m2[i].failed = b
              /\ ~SaidAt(ms, i, q.id) => m2[i].failed = ms[i].failed
      BY <1>3, <3>2, Marked
    <3> QED
      BY <3>1, <3>3, <3>4
  <2>3. LastIs(ms, q.id, t.text, TRUE) \/ Elsewhere(s, ms, q.id)
    BY <1>3, <2>1 DEF PlacesAt, RetryAt
  <2>4. ASSUME NEW i \in LostAt(m2, D)
        PROVE  i \in LostAt(ms, C)
    <3>1. /\ i \in 1..Len(ms) /\ ms[i].by = "user" /\ ~FollowedAt(ms, i)
          /\ m2[i].failed = FALSE
          /\ ~(i = Len(ms) /\ SaidAt(ms, i, q.id))
      BY <2>1, <2>2 DEF LostAt
    <3>2. ~SaidAt(ms, i, q.id)
      <4>1. SUFFICES ASSUME SaidAt(ms, i, q.id) PROVE FALSE
        OBVIOUS
      <4>2. LastIs(ms, q.id, t.text, TRUE)
        BY <2>3, <3>1, <4>1 DEF Elsewhere
      <4>3. SaidAt(ms, Len(ms), q.id) /\ Len(ms) \in 1..Len(ms)
        BY <1>3, <4>2 DEF LastIs
      <4>4. i = Len(ms)
        BY <1>3, <3>1, <4>1, <4>3 DEF PlacesAt, EntriesAt, SaidAt
      <4> QED
        BY <3>1, <4>1, <4>4
    <3>3. ms[i].failed = FALSE
      BY <2>2, <3>1, <3>2
    <3> QED
      BY <2>1, <3>1, <3>3 DEF LostAt
  <2> QED
    BY <2>4
<1>12. ASSUME NEW q, HasStarted(q)
       PROVE  LostAt(m2, D) \subseteq LostAt(ms, C)
  <2>1. m2 = <<Volta(NoEntry)>>
    BY <1>2, <1>12 DEF HasStarted
  <2>2. Len(m2) = 1 /\ m2[1].by = "volta"
    BY <2>1 DEF Volta
  <2> QED
    BY <2>2 DEF LostAt
<1>13. ASSUME NEW q, HasReply(q)
       PROVE  LostAt(m2, D) \subseteq LostAt(ms, C)
  <2>1. PICK e : e = Volta(q.id)
    OBVIOUS
  <2>2. C = {q} /\ q.op = "send" /\ m2 = Append(ms, e)
    BY <1>1, <1>2, <1>3, <1>13, <2>1, ChatsGo DEF HasReply, Refreshes
  <2>3. e \in Entry /\ e.by = "volta" /\ e.id = q.id
    BY <1>3, <2>1, <2>2 DEF Volta, Entry
  <2>4. /\ Len(m2) = Len(ms) + 1 /\ m2[Len(ms) + 1] = e
        /\ \A i \in 1..(Len(ms) + 1) :
              FollowedAt(ms, i) \/ (i = Len(ms) /\ SaidAt(ms, i, q.id)) => FollowedAt(m2, i)
        /\ \A i \in 1..Len(ms) : m2[i] = ms[i]
    BY <1>3, <2>2, <2>3, AppendFollows
  <2>5. ASSUME NEW i \in LostAt(m2, D)
        PROVE  i \in LostAt(ms, C)
    <3>1. i \in 1..(Len(ms) + 1) /\ m2[i].by = "user" /\ ~FollowedAt(m2, i)
          /\ m2[i].failed = FALSE
      BY <2>4 DEF LostAt
    <3>2. i \in 1..Len(ms)
      BY <1>3, <2>3, <2>4, <3>1
    <3> QED
      BY <2>2, <2>4, <3>1, <3>2 DEF LostAt
  <2> QED
    BY <2>5
<1>14. ASSUME NEW q, HasEnded(q)
       PROVE  LostAt(m2, D) \subseteq LostAt(ms, C)
  <2>1. m2 = ms /\ C = {q} /\ q.op = "end"
    BY <1>1, <1>2, <1>3, <1>14, ChatsGo DEF HasEnded, Refreshes
  <2> QED
    BY <2>1 DEF LostAt
<1>15. ASSUME NEW q, NEW r, Serves(q, r)
       PROVE  LostAt(m2, D) \subseteq LostAt(ms, C)
  <2>1. /\ m2 = ms /\ AnswerTo(q, r)
        /\ D = IF q \in C THEN (C \ {q}) \union {r} ELSE C
    BY <1>1, <1>2, <1>3, <1>15, ChatsGo DEF Serves
  <2>2. r.op = q.op /\ r.id = q.id
    BY <2>1 DEF AnswerTo
  <2>3. \A i : (\E c \in C : c.op = "send" /\ SaidAt(ms, i, c.id))
                   => \E c \in D : c.op = "send" /\ SaidAt(ms, i, c.id)
    BY <2>1, <2>2
  <2> QED
    BY <2>1, <2>3 DEF LostAt
<1> QED
    BY <1>5, <1>6, <1>7, <1>8, <1>9, <1>10, <1>11, <1>12, <1>13, <1>14, <1>15 DEF Steps

LEMMA ExcusedStep ==
    ASSUME Placed, Excused, Steps
    PROVE  Excused'
<1>1. PICK ms, C, m2, D : /\ ms = page.messages /\ C = ChatsIn(net)
                          /\ m2 = page'.messages /\ D = ChatsIn(net')
    OBVIOUS
<1>2. ms \in Seq(Entry) /\ m2 \in Seq(Entry) /\ Counted
  <2>1. Typed' /\ Counted
    BY StepsTyped
  <2>2. page'.messages \in Seq(Entry)
    BY <2>1 DEF Typed, PageOK, Page
  <2> QED
    BY <1>1, <2>1, <2>2, TalkTypes DEF Placed
<1>3. /\ Cardinality(LostAt(ms, C)) \in Nat /\ Cardinality(LostAt(m2, D)) \in Nat
      /\ IsFiniteSet(LostAt(ms, C)) /\ Cardinality(LostAt(ms, C)) <= Remounts
    BY <1>1, <1>2, LostFinite DEF Excused
<1>4. Remounts \in Nat /\ Remounts' \in Nat /\ Remounts <= Remounts'
    BY <1>2, RemountsCount
<1>5. SUFFICES Cardinality(LostAt(m2, D)) <= Remounts'
    BY <1>1 DEF Excused
<1>6. CASE LostAt(m2, D) \subseteq LostAt(ms, C)
    BY <1>3, <1>4, <1>6, FS_Subset
<1>7. CASE Mounts
  <2>1. page' = Mounted(storage) /\ Remounts' = Remounts + 1
    BY <1>7 DEF Mounts
  <2>2. PICK old : old = storage
    OBVIOUS
  <2>3. m2 = old.messages
    BY <1>1, <2>1, <2>2 DEF Mounted
  <2>4. m2 \in {ms, <<>>}
    BY <1>1, <2>2, <2>3 DEF Placed, Typed, StorageOK
  <2>5. LostAt(<<>>, D) = {}
    BY DEF LostAt
  <2>6. LostAt(ms, D) \subseteq LostAt(ms, C) \union {Len(ms)}
    BY DEF LostAt
  <2>7. LostAt(m2, D) \subseteq LostAt(ms, C) \union {Len(ms)}
    BY <2>4, <2>5, <2>6
  <2>8. Cardinality(LostAt(m2, D)) <= Cardinality(LostAt(ms, C)) + 1
    BY <1>3, <2>7, OneMore
  <2> QED
    BY <1>3, <1>4, <2>1, <2>8
<1> QED
    BY <1>1, <1>6, <1>7, LostSteps

(* A message without an answer is marked as failed, unless it is under way *)
(* or the page went away while it was.                                     *)
THEOREM EveryMessageAccounted == Spec => []Accounted
<1>1. Init => Excused
  <2> SUFFICES ASSUME Init PROVE Excused
    OBVIOUS
  <2>1. page.messages = <<>>
    BY InitQuiet
  <2>2. LostAt(<<>>, ChatsIn(net)) = {}
    BY DEF LostAt
  <2>3. Used("leave") = 0 /\ Used("reload") = 0 /\ Used("signin") = 0
    BY Kind, BudgetAssumption DEF Init, Used
  <2> QED
    BY <2>1, <2>2, <2>3, FS_EmptySet DEF Excused, Remounts
<1>2. Placed /\ Excused /\ [Next]_vars => Excused'
    BY StepKinds, ExcusedStep DEF Placed
<1>3. Placed /\ Excused => Accounted
  <2> SUFFICES ASSUME Placed, Excused PROVE Accounted
    OBVIOUS
  <2>1. PICK ms, C, a : ms = page.messages /\ C = ChatsIn(net) /\ a = page.action
    OBVIOUS
  <2>2. PICK U : U = {i \in DOMAIN page.messages :
                         /\ page.messages[i].by = "user" /\ ~page.messages[i].failed
                         /\ ~Answered(i)}
    OBVIOUS
  <2>3. /\ ms \in Seq(Entry) /\ DOMAIN ms = 1..Len(ms) /\ Len(ms) \in Nat
        /\ Cardinality(LostAt(ms, C)) <= Remounts /\ OneOf(a, C)
    BY <2>1, TalkTypes DEF Placed, Excused, OneChat
  <2>4. \A i \in U : /\ i \in 1..Len(ms) /\ ms[i].by = "user" /\ ms[i].failed = FALSE
                     /\ ~FollowedAt(ms, i)
    <3>1. \A i \in 1..Len(ms) : ms[i].failed \in BOOLEAN
      <4>1. \A i \in 1..Len(ms) : ms[i] \in Entry
        BY <2>3
      <4> QED
        BY <4>1 DEF Entry
    <3> QED
      BY <2>1, <2>2, <2>3, <3>1, FollowedIs
  <2>5. IsFiniteSet(LostAt(ms, C)) /\ Cardinality(LostAt(ms, C)) \in Nat
    BY <2>3, LostFinite
  <2>6. Remounts \in Nat
    <3>1. Used("leave") \in Nat /\ Used("reload") \in Nat /\ Used("signin") \in Nat
      BY UsedType, Kind DEF Placed, Typed
    <3> QED
      BY <3>1 DEF Remounts
  <2>7. CASE a = "sending"
    <3>1. U \subseteq LostAt(ms, C) \union {Len(ms)}
      BY <2>4 DEF LostAt
    <3>2. Cardinality(U) <= Cardinality(LostAt(ms, C)) + 1 /\ IsFiniteSet(U)
      BY <2>5, <3>1, OneMore
    <3>3. Cardinality(U) \in Nat
      BY <3>2, FS_CardinalityType
    <3>4. Cardinality(U) <= 1 + Remounts
      BY <2>3, <2>5, <2>6, <3>2, <3>3
    <3> QED
      BY <2>1, <2>2, <2>7, <3>4 DEF Accounted
  <2>8. CASE a # "sending"
    <3>1. \A q \in C : q.op # "send"
      BY <2>3, <2>8 DEF OneOf
    <3>2. U \subseteq LostAt(ms, C)
      BY <2>4, <3>1 DEF LostAt
    <3>3. Cardinality(U) <= Cardinality(LostAt(ms, C)) /\ Cardinality(U) \in Nat
      BY <2>5, <3>2, FS_Subset, FS_CardinalityType
    <3>4. Cardinality(U) <= 0 + Remounts
      BY <2>3, <2>5, <2>6, <3>3
    <3> QED
      BY <2>1, <2>2, <2>8, <3>4 DEF Accounted
  <2> QED
    BY <2>7, <2>8
<1> QED
    BY <1>1, <1>2, <1>3, PlacedInit, PlacedStep, PTL DEF Spec

-----------------------------------------------------------------------------
(* EndedIsKnown.                                                           *)

(* As long as nothing failed and the page was not left.                    *)
Smooth == Used("fault") = 0 /\ Remounts = 0

EndAwaited ==
    /\ OnlyPage(net)
    /\ page.session \in ended => \E q \in ChatsIn(net) : q.op = "end" /\ q.status = "ok"
    /\ \A q \in ChatsIn(net) : q.op = "start" /\ q.status = "ok" => q.val \notin ended

EndsKnown == Smooth => EndAwaited

LEMMA SmoothBefore ==
    ASSUME Counted, Smooth'
    PROVE  Smooth
<1>1. Used("fault") \in Nat /\ Used("fault")' \in Nat /\ Used("fault") <= Used("fault")'
    BY Kind DEF Counted
<1>2. Remounts \in Nat /\ Remounts' \in Nat /\ Remounts <= Remounts'
    BY RemountsCount
<1>3. Used("fault")' = 0 /\ Remounts' = 0
    BY DEF Smooth
<1> QED
    BY <1>1, <1>2, <1>3 DEF Smooth

LEMMA EndsKnownStep ==
    ASSUME Typed, OneChat, EndsKnown, Steps
    PROVE  EndsKnown'
<1> SUFFICES ASSUME Smooth'
             PROVE  EndAwaited'
    BY DEF EndsKnown
<1>1. PICK s, C, N, E : s = page.session /\ C = ChatsIn(net) /\ N = net /\ E = ended
    OBVIOUS
<1>2. PICK s2, D, M, G : s2 = page'.session /\ D = ChatsIn(net') /\ M = net' /\ G = ended'
    OBVIOUS
<1>3. Smooth /\ Counted /\ Used("fault")' = 0
    BY StepsTyped, SmoothBefore DEF Smooth
<1>4. /\ OnlyPage(N)
      /\ s \in E => \E q \in C : q.op = "end" /\ q.status = "ok"
      /\ \A q \in C : q.op = "start" /\ q.status = "ok" => q.val \notin E
    BY <1>1, <1>3 DEF EndsKnown, EndAwaited
<1>5. PICK n \in Nat : n = Len(owner) /\ E \subseteq 1..n
    BY <1>1 DEF Typed, ServiceOK
<1>6. SUFFICES /\ OnlyPage(M)
               /\ s2 \in G => \E q \in D : q.op = "end" /\ q.status = "ok"
               /\ \A q \in D : q.op = "start" /\ q.status = "ok" => q.val \notin G
    BY <1>2 DEF EndAwaited
<1>7. Kept => OnlyPage(M) /\ G = E
    BY <1>1, <1>2, <1>3, <1>4 DEF Kept
<1>8. CASE Quiet \/ Utters
  <2>1. s2 = s /\ D = C /\ Kept
    BY <1>1, <1>2, <1>8 DEF Quiet, Utters, SameTalk
  <2> QED
    BY <1>4, <1>7, <2>1
<1>9. CASE Clears
  <2>1. s2 = 0 /\ D = C /\ Kept
    BY <1>1, <1>2, <1>9 DEF Clears
  <2> QED
    BY <1>4, <1>5, <1>7, <2>1
<1>10. CASE Mounts
  <2>1. Remounts' = Remounts + 1
    BY <1>10 DEF Mounts
  <2>2. Remounts = 0 /\ Remounts' = 0
    BY <1>3 DEF Smooth
  <2> QED
    BY <2>1, <2>2
<1>11. CASE \E q : Drops(q)
  <2>1. PICK q : Drops(q)
    BY <1>11
  <2>2. s2 = s /\ D = C \ {q} /\ Kept /\ (q.op = "end" => q.status = "refused" \/ 0 > 0)
    BY <1>1, <1>2, <1>3, <2>1 DEF Drops, SameTalk
  <2> QED
    BY <1>4, <1>7, <2>2
<1>12. CASE \E q : Misses(q)
  <2>1. PICK q : Misses(q)
    BY <1>12
  <2>2. s2 = s /\ C = {q} /\ q.op = "send" /\ D = {} /\ Kept
    BY <1>1, <1>2, <2>1, ChatsGo DEF Misses
  <2> QED
    BY <1>4, <1>7, <2>2
<1>13. CASE \E q : Starts(q) \/ Sends(q) \/ Ends(q)
  <2>1. PICK q : Starts(q) \/ Sends(q) \/ Ends(q)
    BY <1>13
  <2>2. s2 = s /\ C = {} /\ D = {q} /\ q.status = "sent" /\ Kept
    BY <1>1, <1>2, <2>1, ChatsGo DEF Starts, Sends, Ends, SameTalk
  <2> QED
    BY <1>4, <1>7, <2>2
<1>14. CASE \E q : HasStarted(q) \/ HasReply(q) \/ HasEnded(q)
  <2>1. PICK q : HasStarted(q) \/ HasReply(q) \/ HasEnded(q)
    BY <1>14
  <2>2. /\ C = {q} /\ q.status = "ok" /\ Kept
        /\ q.op \in {"start", "send", "end"}
        /\ \A c \in D : c.op \in {"profile", "memories"}
        /\ q.op = "start" => s2 = q.val
        /\ q.op = "send" => s2 = s
        /\ q.op = "end" => s2 = 0
    BY <1>1, <1>2, <2>1, ChatsGo DEF HasStarted, HasReply, HasEnded, Refreshes
  <2>3. s2 \notin E
    BY <1>4, <1>5, <2>2
  <2> QED
    BY <1>7, <2>2, <2>3
<1>15. CASE \E q, r : Serves(q, r)
  <2>1. PICK q, r : Serves(q, r)
    BY <1>15
  <2>2. /\ s2 = s /\ q \in N /\ q.status = "sent" /\ AnswerTo(q, r)
        /\ M = (N \ {q}) \union IF q.by = "gone" THEN {} ELSE {r}
        /\ r.status = "ok" /\ q.op = "start" => r.val = n + 1
        /\ G = IF r.status = "ok" /\ q.op = "end" THEN E \union {q.session} ELSE E
        /\ D = IF q \in C THEN (C \ {q}) \union {r} ELSE C
    BY <1>1, <1>2, <1>5, <2>1, ChatsGo DEF Serves
  <2>3. r.op = q.op /\ r.by = q.by
    BY <2>2 DEF AnswerTo
  <2>4. OnlyPage(M)
    BY <1>4, <2>2, <2>3 DEF OnlyPage
  <2>5. CASE r.status = "ok" /\ q.op = "end"
    <3>1. q \in C
      BY <1>1, <1>4, <2>2, <2>5, TalkTypes DEF OnlyPage, ChatsIn
    <3>2. C = {q}
      BY <1>1, <2>5, <3>1 DEF OneChat, OneOf
    <3> QED
      BY <2>2, <2>3, <2>4, <2>5, <3>1, <3>2
  <2>6. CASE ~(r.status = "ok" /\ q.op = "end")
    <3>1. G = E
      BY <2>2, <2>6
    <3>2. n + 1 \notin E
      BY <1>5
    <3>3. \A c \in D : c \in C \/ c = r
      BY <2>2
    <3>4. \A c \in C : c # q => c \in D
      BY <2>2
    <3> QED
      BY <1>4, <2>2, <2>3, <2>4, <3>1, <3>2, <3>3, <3>4
  <2> QED
    BY <2>5, <2>6
<1> QED
    BY <1>8, <1>9, <1>10, <1>11, <1>12, <1>13, <1>14, <1>15 DEF Steps, SendsNew, SendsAgain

(* endSession: the page goes on showing a consultation that has ended only *)
(* if its answer got lost, or is on its way.                               *)
THEOREM TheEndIsKnown == Spec => []EndedIsKnown
<1>1. Init => EndsKnown
  <2> SUFFICES ASSUME Init PROVE EndAwaited
    BY DEF EndsKnown
  <2>1. net = {} /\ ended = {} /\ ChatsIn(net) = {}
    BY InitQuiet DEF Init
  <2> QED
    BY <2>1 DEF EndAwaited, OnlyPage
<1>2. Placed /\ EndsKnown /\ [Next]_vars => EndsKnown'
    BY StepKinds, EndsKnownStep DEF Placed
<1>3. Placed /\ EndsKnown => EndedIsKnown
  <2> SUFFICES ASSUME Placed, EndsKnown, page.session \in ended,
                      ~(Used("fault") + Remounts > 0)
               PROVE  page.action = "ending"
    BY DEF EndedIsKnown
  <2>1. /\ Used("fault") \in Nat /\ Used("leave") \in Nat /\ Used("reload") \in Nat
        /\ Used("signin") \in Nat
    BY UsedType, Kind DEF Placed, Typed
  <2>2. Smooth
    BY <2>1 DEF Smooth, Remounts
  <2>3. PICK q \in ChatsIn(net) : q.op = "end"
    BY <2>2 DEF EndsKnown, EndAwaited
  <2> QED
    BY <2>3 DEF Placed, OneChat, OneOf
<1> QED
    BY <1>1, <1>2, <1>3, PlacedInit, PlacedStep, PTL DEF Spec

-----------------------------------------------------------------------------
(* StoredOncePerFailure.                                                   *)

RowsFor(st, text) == {i \in 1..Len(st) : st[i][2] = text}
SendsFor(N, text) == {q \in SendsIn(N) : q.text = text}
DraftOf(input, retry, text) == IF input = text \/ retry.text = text THEN 1 ELSE 0

(* Where a text is: in rows of messages, in requests that may still become *)
(* one, and where the user may send it from.                               *)
Copies(text) ==
    Cardinality(RowsFor(stored, text)) + Cardinality(SendsFor(net, text))
        + DraftOf(page.input, page.retry, text)

OncePerFault == \A text \in 1..Used("say") : Copies(text) <= 1 + Used("fault")

LEMMA CopiesFinite ==
    ASSUME NEW X, NEW st \in Seq(X), NEW N, IsFiniteSet(N), NEW text, NEW input, NEW retry
    PROVE  /\ IsFiniteSet(RowsFor(st, text)) /\ Cardinality(RowsFor(st, text)) \in Nat
           /\ IsFiniteSet(SendsFor(N, text)) /\ Cardinality(SendsFor(N, text)) \in Nat
           /\ DraftOf(input, retry, text) \in Nat
<1>1. Len(st) \in Nat /\ RowsFor(st, text) \subseteq 1..Len(st) /\ SendsFor(N, text) \subseteq N
    BY DEF RowsFor, SendsFor, SendsIn
<1>2. IsFiniteSet(1..Len(st))
    BY <1>1, FS_Interval
<1>3. IsFiniteSet(RowsFor(st, text)) /\ IsFiniteSet(SendsFor(N, text))
    BY <1>1, <1>2, FS_Subset
<1> QED
    BY <1>3, FS_CardinalityType DEF DraftOf

LEMMA RowsAppended ==
    ASSUME NEW X, NEW st \in Seq(X), NEW a, NEW b, NEW text
    PROVE  RowsFor(Append(st, <<a, b>>), text) \subseteq
               IF b = text THEN RowsFor(st, text) \union {Len(st) + 1} ELSE RowsFor(st, text)
<1>1. PICK s2 : s2 = Append(st, <<a, b>>)
    OBVIOUS
<1>2. /\ Len(st) \in Nat /\ Len(s2) = Len(st) + 1 /\ s2[Len(st) + 1] = <<a, b>>
      /\ \A i \in 1..Len(st) : s2[i] = st[i]
    BY <1>1
<1>3. ASSUME NEW i \in RowsFor(s2, text)
      PROVE  i \in RowsFor(st, text) \/ (i = Len(st) + 1 /\ b = text)
  <2>1. i \in 1..(Len(st) + 1) /\ s2[i][2] = text
    BY <1>2 DEF RowsFor
  <2>2. CASE i \in 1..Len(st)
    BY <1>2, <2>1, <2>2 DEF RowsFor
  <2>3. CASE i = Len(st) + 1
    BY <1>2, <2>1, <2>3
  <2> QED
    BY <1>2, <2>1, <2>2, <2>3
<1> QED
    BY <1>1, <1>3

(* A page that is left, or a document that is gone, repeats no message.    *)
LEMMA SendsRelabelled ==
    ASSUME NEW N, \A q \in N : q \in Request, Relabelled(N), NEW text,
           IsFiniteSet(SendsFor(N, text))
    PROVE  IsFiniteSet(SendsFor(net', text))
           /\ Cardinality(SendsFor(net', text)) <= Cardinality(SendsFor(N, text))
<1>1. PICK by \in {"left", "gone"}, B \in SUBSET N :
          net' = {[q EXCEPT !.by = IF by = "gone" \/ @ = "page" THEN by ELSE @] : q \in B}
    BY DEF Relabelled
<1>2. PICK A : A = {q \in B : q \in SendsFor(N, text)}
    OBVIOUS
<1>3. IsFiniteSet(A) /\ Cardinality(A) <= Cardinality(SendsFor(N, text))
    BY <1>2, FS_Subset
<1> DEFINE f == [q \in A |-> [q EXCEPT !.by = IF by = "gone" \/ @ = "page" THEN by ELSE @]]
<1>4. ASSUME NEW q \in N
      PROVE  LET r == [q EXCEPT !.by = IF by = "gone" \/ @ = "page" THEN by ELSE @]
             IN  r.op = q.op /\ r.status = q.status /\ r.text = q.text
  <2>1. q \in Request
    OBVIOUS
  <2> QED
    BY <2>1 DEF Request
<1>5. SendsFor(net', text) = {f[q] : q \in A}
  <2>1. ASSUME NEW c \in SendsFor(net', text)
        PROVE  \E q \in A : c = f[q]
    <3>1. PICK q \in B : c = [q EXCEPT !.by = IF by = "gone" \/ @ = "page" THEN by ELSE @]
      BY <1>1 DEF SendsFor, SendsIn
    <3>2. q \in A
      BY <1>2, <1>4, <3>1 DEF SendsFor, SendsIn
    <3> QED
      BY <3>1, <3>2
  <2>2. ASSUME NEW q \in A
        PROVE  f[q] \in SendsFor(net', text)
    <3>1. q \in B /\ q \in N /\ f[q] \in net'
      BY <1>1, <1>2
    <3> QED
      BY <1>2, <1>4, <3>1 DEF SendsFor, SendsIn
  <2> QED
    BY <2>1, <2>2
<1>6. f \in [A -> {f[q] : q \in A}]
    OBVIOUS
<1> HIDE DEF f
<1>7. f \in Surjection(A, SendsFor(net', text))
    BY <1>5, <1>6 DEF Surjection
<1>8. IsFiniteSet(SendsFor(net', text)) /\ Cardinality(SendsFor(net', text)) <= Cardinality(A)
  <2>1. PICK T : T = SendsFor(net', text)
    OBVIOUS
  <2>2. IsFiniteSet(A) /\ f \in Surjection(A, T)
    BY <1>3, <1>7, <2>1
  <2>3. IsFiniteSet(T) /\ Cardinality(T) <= Cardinality(A)
    BY <2>2, FS_Surjection
  <2> QED
    BY <2>1, <2>3
<1> QED
    BY <1>3, <1>8, FS_CardinalityType

(* Nothing is said, or could be once more.                                 *)
NothingSaid ==
    /\ SendsIn(net') \subseteq SendsIn(net) \/ \E q : Forgets(q)
    /\ stored' = stored /\ page'.input = page.input /\ page'.retry = page.retry
    /\ Used("say")' = Used("say")

(* What a step makes of the messages that may still be stored.             *)
LEMMA SendsGo ==
    ASSUME Typed, Steps
    PROVE  \/ Mounts
           \/ \E q : /\ SendsNew(q) \/ SendsAgain(q)
                     /\ SendsIn(net') \subseteq SendsIn(net) \union {q}
           \/ \E q : Misses(q) /\ (q.status # "ok" => q \in SendsIn(net))
           \/ \E q, r : /\ Serves(q, r) /\ r.status = "ok" /\ q.op = "send" /\ q \in SendsIn(net)
                        /\ SendsIn(net') \subseteq SendsIn(net) \ {q}
           \/ Utters \/ NothingSaid
<1>1. CASE Mounts
    BY <1>1
<1>2. Quiet \/ Clears => NothingSaid
    BY DEF Quiet, Clears, SameTalk, Kept, NothingSaid
<1>3. ASSUME NEW q, Drops(q)
      PROVE  NothingSaid
    BY <1>3 DEF Drops, SameTalk, Kept, NothingSaid
<1>4. ASSUME NEW q, Misses(q)
      PROVE  q.status # "ok" => q \in SendsIn(net)
    BY <1>4 DEF Misses, SendsIn, ChatsIn
<1>5. ASSUME NEW q, Starts(q) \/ Ends(q)
      PROVE  NothingSaid
    BY <1>5 DEF Starts, Ends, SameTalk, Kept, SendsIn, NothingSaid
<1>6. ASSUME NEW q, Sends(q)
      PROVE  SendsIn(net') \subseteq SendsIn(net) \union {q}
    BY <1>6 DEF Sends, SendsIn
<1>7. ASSUME NEW q, Refreshes(q)
      PROVE  NothingSaid
  <2>1. PICK ws : net' = (net \ {q}) \union Refresh("chat", "page", ws)
    BY <1>7 DEF Refreshes
  <2>2. \A c \in Refresh("chat", "page", ws) : c.op # "send"
    BY DEF Refresh, Call
  <2> QED
    BY <1>7, <2>1, <2>2 DEF Refreshes, Kept, SendsIn, NothingSaid
<1>8. ASSUME NEW q, NEW r, Serves(q, r)
      PROVE  \/ /\ r.status = "ok" /\ q.op = "send" /\ q \in SendsIn(net)
                /\ SendsIn(net') \subseteq SendsIn(net) \ {q}
             \/ NothingSaid
  <2>1. /\ q \in net /\ q.status = "sent" /\ r.op = q.op /\ r.text = q.text
        /\ net' = (net \ {q}) \union IF q.by = "gone" THEN {} ELSE {r}
        /\ page' = page /\ Used("say")' = Used("say")
        /\ q.op # "send" \/ r.status # "ok" => stored' = stored
    BY <1>8, Kind DEF Serves, AnswerTo
  <2>2. CASE q.op = "send" /\ r.status = "ok"
    BY <2>1, <2>2 DEF SendsIn
  <2>3. CASE q.op = "send" /\ r.status # "ok"
    <3>1. q \in SendsIn(net) /\ SendsIn(net') \subseteq (SendsIn(net) \ {q}) \union {r}
      BY <2>1, <2>3 DEF SendsIn
    <3>2. Forgets(q)
      BY <2>1, <3>1 DEF Forgets
    <3> QED
      BY <2>1, <2>3, <3>2 DEF NothingSaid
  <2>4. CASE q.op # "send"
    BY <2>1, <2>4 DEF SendsIn, NothingSaid
  <2> QED
    BY <2>2, <2>3, <2>4
<1>9. CASE Mounts \/ Quiet \/ Utters \/ Clears
    BY <1>2, <1>9
<1>10. CASE \E q : Drops(q)
    BY <1>3, <1>10
<1>11. CASE \E q : Starts(q) \/ Ends(q)
    BY <1>5, <1>11
<1>12. CASE \E q : HasStarted(q) \/ HasReply(q) \/ HasEnded(q)
  <2>1. PICK q : Refreshes(q)
    BY <1>12 DEF HasStarted, HasReply, HasEnded
  <2> QED
    BY <1>7, <2>1
<1>13. CASE \E q : Misses(q)
  <2>1. PICK q : Misses(q)
    BY <1>13
  <2> QED
    BY <1>4, <2>1
<1>14. CASE \E q : SendsNew(q) \/ SendsAgain(q)
  <2>1. PICK q : (SendsNew(q) \/ SendsAgain(q)) /\ Sends(q)
    BY <1>14 DEF SendsNew, SendsAgain
  <2> QED
    BY <1>6, <2>1
<1>15. CASE \E q, r : Serves(q, r)
  <2>1. PICK q, r : Serves(q, r)
    BY <1>15
  <2> QED
    BY <1>8, <2>1
<1> QED
    BY <1>9, <1>10, <1>11, <1>12, <1>13, <1>14, <1>15 DEF Steps

LEMMA OncePerFaultStep ==
    ASSUME Placed, OncePerFault, Steps
    PROVE  OncePerFault'
<1>1. Typed /\ OneChat /\ Typed' /\ Counted
    BY StepsTyped DEF Placed
<1>2. PICK st, N, x, t, w, F : /\ st = stored /\ N = net /\ x = page.input /\ t = page.retry
                               /\ w = Used("say") /\ F = Used("fault")
    OBVIOUS
<1>3. PICK u, M, x2, t2, w2, F2 : /\ u = stored' /\ M = net' /\ x2 = page'.input
                                  /\ t2 = page'.retry /\ w2 = Used("say")' /\ F2 = Used("fault")'
    OBVIOUS
<1>4. PICK X, Y : X = (1..Len(owner)) \X (1..w) /\ Y = (1..Len(owner')) \X (1..w2)
    OBVIOUS
<1>5. /\ st \in Seq(X) /\ u \in Seq(Y) /\ IsFiniteSet(N) /\ IsFiniteSet(M)
      /\ w \in Nat /\ F \in Nat /\ F2 \in Nat /\ F <= F2
    BY <1>1, <1>2, <1>3, <1>4, UsedType, Kind DEF Typed, ServiceOK, Counted
<1>6. SUFFICES ASSUME NEW text \in 1..w2
               PROVE  Cardinality(RowsFor(u, text)) + Cardinality(SendsFor(M, text))
                          + DraftOf(x2, t2, text) <= 1 + F2
    BY <1>3 DEF OncePerFault, Copies
<1>7. PICK A, B, A2, B2 : /\ A = RowsFor(st, text) /\ B = SendsFor(N, text)
                          /\ A2 = RowsFor(u, text) /\ B2 = SendsFor(M, text)
    OBVIOUS
<1>8. PICK d, d2 : d = DraftOf(x, t, text) /\ d2 = DraftOf(x2, t2, text)
    OBVIOUS
<1>9. /\ IsFiniteSet(A) /\ IsFiniteSet(B) /\ IsFiniteSet(A2) /\ IsFiniteSet(B2)
      /\ Cardinality(A) \in Nat /\ Cardinality(B) \in Nat
      /\ Cardinality(A2) \in Nat /\ Cardinality(B2) \in Nat
    BY <1>5, <1>7, CopiesFinite
<1>10. d \in {0, 1} /\ d2 \in {0, 1}
    BY <1>8 DEF DraftOf
<1>11. text \in 1..w => Cardinality(A) + Cardinality(B) + d <= 1 + F
    BY <1>2, <1>7, <1>8 DEF OncePerFault, Copies
<1>12. SUFFICES Cardinality(A2) + Cardinality(B2) + d2 <= 1 + F2
    BY <1>7, <1>8
<1>13. ASSUME text \in 1..w,
              Cardinality(A2) + Cardinality(B2) + d2
                  <= Cardinality(A) + Cardinality(B) + d + (F2 - F)
       PROVE  Cardinality(A2) + Cardinality(B2) + d2 <= 1 + F2
    BY <1>5, <1>9, <1>10, <1>11, <1>13
<1>14. /\ SendsIn(M) \subseteq SendsIn(N) => B2 \subseteq B
       /\ u = st => A2 = A
       /\ B2 \subseteq B => Cardinality(B2) <= Cardinality(B)
    BY <1>7, <1>9, FS_Subset DEF SendsFor
<1>15. ASSUME NEW q, Forgets(q)
       PROVE  Cardinality(B2) <= Cardinality(B) /\ (q.text # text => B2 \subseteq B)
  <2>1. CASE SendsIn(M) \subseteq SendsIn(N) \ {q}
    BY <1>14, <2>1
  <2>2. CASE \E r : /\ q \in SendsIn(N) /\ r.text = q.text
                    /\ SendsIn(M) \subseteq (SendsIn(N) \ {q}) \union {r}
    <3>1. PICK r : /\ q \in SendsIn(N) /\ r.text = q.text
                   /\ SendsIn(M) \subseteq (SendsIn(N) \ {q}) \union {r}
      BY <2>2
    <3>2. CASE q.text = text
      <4>1. q \in B /\ B2 \subseteq (B \ {q}) \union {r}
        BY <1>7, <3>1, <3>2 DEF SendsFor
      <4>2. IsFiniteSet(B \ {q}) /\ Cardinality(B \ {q}) = Cardinality(B) - 1
        BY <1>9, <4>1, FS_RemoveElement
      <4>3. Cardinality(B2) <= Cardinality(B \ {q}) + 1
        BY <4>1, <4>2, OneMore
      <4> QED
        BY <1>9, <3>2, <4>2, <4>3
    <3>3. CASE q.text # text
      <4>1. B2 \subseteq B
        BY <1>7, <3>1, <3>3 DEF SendsFor
      <4> QED
        BY <1>14, <4>1
    <3> QED
      BY <3>2, <3>3
  <2> QED
    BY <1>2, <1>3, <1>15, <2>1, <2>2 DEF Forgets
<1>16. CASE Mounts
  <2>1. /\ page' = Mounted(storage) /\ u = st /\ w2 = w /\ Relabelled(N)
    BY <1>2, <1>3, <1>16 DEF Mounts
  <2>2. x2 = 0 /\ t2 = NoRetry
    BY <1>1, <1>3, <2>1, MountedHere
  <2>3. d2 = 0
    BY <1>8, <2>2 DEF DraftOf, NoRetry
  <2>4. \A q \in N : q \in Request
    BY <1>1, <1>2, TalkTypes
  <2>5. Cardinality(B2) <= Cardinality(B)
    BY <1>3, <1>7, <1>9, <2>1, <2>4, SendsRelabelled
  <2> QED
    BY <1>5, <1>9, <1>10, <1>13, <1>14, <2>1, <2>3, <2>5
<1>17. CASE \E q : /\ SendsNew(q) \/ SendsAgain(q)
                   /\ SendsIn(net') \subseteq SendsIn(net) \union {q}
  <2>1. PICK q : /\ SendsNew(q) \/ SendsAgain(q)
                 /\ SendsIn(M) \subseteq SendsIn(N) \union {q}
    BY <1>2, <1>3, <1>17
  <2>2. /\ u = st /\ w2 = w /\ x2 = 0 /\ t2 = NoRetry
        /\ q.text = x \/ q.text = t.text
    BY <1>2, <1>3, <2>1 DEF SendsNew, SendsAgain, Sends, Kept
  <2>3. d2 = 0
    BY <1>8, <2>2 DEF DraftOf, NoRetry
  <2>4. CASE q.text # text
    <3>1. B2 \subseteq B
      BY <1>7, <2>1, <2>4 DEF SendsFor
    <3> QED
      BY <1>5, <1>9, <1>10, <1>13, <1>14, <2>2, <2>3, <3>1
  <2>5. CASE q.text = text
    <3>1. B2 \subseteq B \union {q}
      BY <1>7, <2>1 DEF SendsFor
    <3>2. Cardinality(B2) <= Cardinality(B) + 1
      BY <1>9, <3>1, OneMore
    <3>3. d = 1
      BY <1>8, <2>2, <2>5 DEF DraftOf
    <3> QED
      BY <1>5, <1>9, <1>10, <1>13, <1>14, <2>2, <2>3, <3>2, <3>3
  <2> QED
    BY <2>4, <2>5
<1>18. CASE \E q : Misses(q) /\ (q.status # "ok" => q \in SendsIn(net))
  <2>1. PICK q : /\ Misses(q) /\ Forgets(q)
                 /\ q.status # "ok" => q \in SendsIn(N)
                 /\ q.status # "sent" => SendsIn(M) \subseteq SendsIn(N) \ {q}
    BY <1>2, <1>3, <1>18 DEF Misses, Forgets
  <2>2. /\ u = st /\ w2 = w /\ x2 = q.text /\ t2 = [id |-> q.id, text |-> q.text]
        /\ q.status = "refused" \/ F2 = F + 1
    BY <1>2, <1>3, <2>1 DEF Misses, Kept
  <2>3. d2 = IF q.text = text THEN 1 ELSE 0
    BY <1>8, <2>2 DEF DraftOf
  <2>4. CASE q.text # text
    <3>1. B2 \subseteq B
      BY <1>15, <2>1, <2>4
    <3> QED
      BY <1>5, <1>9, <1>10, <1>13, <1>14, <2>2, <2>3, <2>4, <3>1
  <2>5. CASE q.text = text /\ q.status = "refused"
    <3>1. B2 \subseteq B \ {q} /\ q \in B
      BY <1>7, <2>1, <2>5 DEF SendsFor
    <3>2. IsFiniteSet(B \ {q}) /\ Cardinality(B \ {q}) = Cardinality(B) - 1
      BY <1>9, <3>1, FS_RemoveElement
    <3>3. Cardinality(B2) <= Cardinality(B) - 1
      BY <1>9, <3>1, <3>2, FS_Subset
    <3> QED
      BY <1>5, <1>9, <1>10, <1>13, <1>14, <2>2, <2>3, <2>5, <3>3
  <2>6. CASE q.text = text /\ q.status # "refused"
    <3>1. Cardinality(B2) <= Cardinality(B)
      BY <1>15, <2>1
    <3> QED
      BY <1>5, <1>9, <1>10, <1>13, <1>14, <2>2, <2>3, <2>6, <3>1
  <2> QED
    BY <2>4, <2>5, <2>6
<1>19. CASE \E q, r : /\ Serves(q, r) /\ r.status = "ok" /\ q.op = "send" /\ q \in SendsIn(net)
                      /\ SendsIn(net') \subseteq SendsIn(net) \ {q}
  <2>1. PICK q, r : /\ Serves(q, r) /\ r.status = "ok" /\ q.op = "send" /\ q \in SendsIn(N)
                    /\ SendsIn(M) \subseteq SendsIn(N) \ {q}
    BY <1>2, <1>3, <1>19
  <2>2. /\ u = Append(st, <<q.session, q.text>>) /\ w2 = w /\ x2 = x /\ t2 = t
    BY <1>2, <1>3, <2>1, Kind DEF Serves
  <2>3. d2 = d
    BY <1>8, <2>2
  <2>4. CASE q.text # text
    <3>1. A2 \subseteq A
      BY <1>5, <1>7, <2>2, <2>4, RowsAppended
    <3>2. Cardinality(A2) <= Cardinality(A)
      BY <1>9, <3>1, FS_Subset
    <3>3. SendsIn(M) \subseteq SendsIn(N)
      BY <2>1
    <3> QED
      BY <1>5, <1>9, <1>10, <1>13, <1>14, <2>2, <2>3, <3>2, <3>3
  <2>5. CASE q.text = text
    <3>1. A2 \subseteq A \union {Len(st) + 1}
      BY <1>5, <1>7, <2>2, <2>5, RowsAppended
    <3>2. Cardinality(A2) <= Cardinality(A) + 1
      BY <1>9, <3>1, OneMore
    <3>3. q \in B /\ B2 \subseteq B \ {q}
      BY <1>7, <2>1, <2>5 DEF SendsFor
    <3>4. IsFiniteSet(B \ {q}) /\ Cardinality(B \ {q}) = Cardinality(B) - 1
      BY <1>9, <3>3, FS_RemoveElement
    <3>5. Cardinality(B2) <= Cardinality(B) - 1
      BY <1>9, <3>3, <3>4, FS_Subset
    <3> QED
      BY <1>5, <1>9, <1>10, <1>13, <2>2, <2>3, <3>2, <3>5
  <2> QED
    BY <2>4, <2>5
<1>20. CASE NothingSaid
  <2>1. u = st /\ x2 = x /\ t2 = t /\ w2 = w
    BY <1>2, <1>3, <1>20 DEF NothingSaid
  <2>2. d2 = d
    BY <1>8, <2>1
  <2>3. Cardinality(B2) <= Cardinality(B)
    BY <1>2, <1>3, <1>14, <1>15, <1>20 DEF NothingSaid
  <2> QED
    BY <1>5, <1>9, <1>10, <1>13, <1>14, <2>1, <2>2, <2>3
<1>21. CASE Utters
  <2>1. M = N /\ u = st /\ t2 = t /\ x2 = w2 /\ w2 = w + 1
    BY <1>2, <1>3, <1>21 DEF Utters, Kept
  <2>2. CASE text = w + 1
    <3>1. A = {}
      <4>1. \A i \in 1..Len(st) : st[i] \in X
        BY <1>5
      <4>2. \A i \in 1..Len(st) : st[i][2] \in 1..w
        BY <1>4, <4>1
      <4> QED
        BY <1>5, <1>7, <2>2, <4>2 DEF RowsFor
    <3>2. B = {}
      <4>1. \A q \in N : q.op = "send" => q.text \in 1..w
        BY <1>1, <1>2 DEF Typed, RequestOK
      <4> QED
        BY <1>5, <1>7, <2>2, <4>1 DEF SendsFor, SendsIn
    <3>3. Cardinality(A2) = 0 /\ Cardinality(B2) = 0
      BY <1>7, <2>1, <3>1, <3>2, FS_EmptySet
    <3> QED
      BY <1>5, <1>10, <3>3
  <2>3. CASE text # w + 1
    <3>1. text \in 1..w
      BY <1>5, <2>1, <2>3
    <3>2. d2 <= d
      BY <1>8, <2>1, <2>3 DEF DraftOf
    <3> QED
      BY <1>5, <1>7, <1>9, <1>10, <1>13, <2>1, <3>1, <3>2
  <2> QED
    BY <2>2, <2>3
<1> QED
    BY <1>1, <1>16, <1>17, <1>18, <1>19, <1>15, <1>20, <1>21, SendsGo

(* The service keeps what was said once, and once more at most for every   *)
(* time the page reported a failure.                                       *)
THEOREM StoredOnce == Spec => []StoredOncePerFailure
<1>1. Init => OncePerFault
  <2> SUFFICES ASSUME Init PROVE OncePerFault
    OBVIOUS
  <2>1. Used("say") = 0
    BY Kind, BudgetAssumption DEF Init, Used
  <2> QED
    BY <2>1 DEF OncePerFault
<1>2. Placed /\ OncePerFault /\ [Next]_vars => OncePerFault'
    BY StepKinds, OncePerFaultStep DEF Placed
<1>3. Placed /\ OncePerFault => StoredOncePerFailure
  <2> SUFFICES ASSUME Placed, OncePerFault, NEW text \in 1..Budget["say"]
               PROVE  Cardinality({i \in DOMAIN stored : stored[i][2] = text}) <= 1 + Used("fault")
    BY DEF StoredOncePerFailure
  <2>1. PICK st, w, F, N, x, t : /\ st = stored /\ w = Used("say") /\ F = Used("fault")
                                 /\ N = net /\ x = page.input /\ t = page.retry
    OBVIOUS
  <2>2. PICK X : X = (1..Len(owner)) \X (1..w)
    OBVIOUS
  <2>3. st \in Seq(X) /\ IsFiniteSet(N) /\ w \in Nat /\ F \in Nat
    BY <2>1, <2>2, UsedType, Kind DEF Placed, Typed, ServiceOK
  <2>4. {i \in DOMAIN stored : stored[i][2] = text} = RowsFor(st, text)
    BY <2>1, <2>3 DEF RowsFor
  <2>5. /\ Cardinality(RowsFor(st, text)) \in Nat /\ Cardinality(SendsFor(N, text)) \in Nat
        /\ DraftOf(x, t, text) \in Nat
    BY <2>3, CopiesFinite
  <2>6. CASE text \in 1..w
    <3>1. Cardinality(RowsFor(st, text)) + Cardinality(SendsFor(N, text)) + DraftOf(x, t, text)
              <= 1 + F
      BY <2>1, <2>6 DEF OncePerFault, Copies
    <3>2. Cardinality(RowsFor(st, text)) <= 1 + F
      BY <2>3, <2>5, <3>1
    <3> QED
      BY <2>1, <2>4, <3>2
  <2>7. CASE text \notin 1..w
    <3>1. \A i \in 1..Len(st) : st[i] \in X
      BY <2>3
    <3>2. RowsFor(st, text) = {}
      BY <2>2, <2>7, <3>1 DEF RowsFor
    <3>3. Cardinality(RowsFor(st, text)) = 0
      BY <3>2, FS_EmptySet
    <3>4. Cardinality(RowsFor(st, text)) <= 1 + F
      BY <2>3, <3>3
    <3> QED
      BY <2>1, <2>4, <3>4
  <2> QED
    BY <2>6, <2>7
<1> QED
    BY <1>1, <1>2, <1>3, PlacedInit, PlacedStep, PTL DEF Spec
=============================================================================
