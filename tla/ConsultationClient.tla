------------------------- MODULE ConsultationClient -------------------------
(***************************************************************************)
(* The consultation page (ConsultationWorkspace.tsx) of one browser tab,   *)
(* with the client behind it (VoltaApi of lib/api.ts) and the service it   *)
(* talks to, as far as the page can tell it apart.                         *)
(*                                                                         *)
(* Everything the page awaits is a request in net.  The service serves a   *)
(* request in one step, its answer arrives in another, in any order; what  *)
(* follows the await in the code happens when it arrives.  A request that  *)
(* never reaches the service or reaches it once the page has given up, an  *)
(* answer that never comes back, and a service that fails before or after  *)
(* it has done its work are the same to the page: a fault.                 *)
(*                                                                         *)
(* Workspaces, sessions and the things the user says are numbered as they  *)
(* come up; 0 is none of them.                                             *)
(***************************************************************************)
EXTENDS Naturals, Sequences, FiniteSets

CONSTANTS
    Mode,      \* "personal" for the page at /, "try" for the one at /try
    Returning, \* the browser comes with a workspace, it has been here before
    Speech,    \* what of speech the browser supports: "record", "listen"
    Patient,   \* the user waits for the page before they do anything
    Budget     \* how often each of Kinds may happen

Kinds == {"fault", "leave", "reload", "signin", "start", "say", "send", "account"}

ASSUME ModeAssumption == Mode \in {"personal", "try"}
ASSUME FlagsAssumption ==
    Returning \in BOOLEAN /\ Patient \in BOOLEAN /\ Speech \subseteq {"record", "listen"}
ASSUME BudgetAssumption == Budget \in [Kinds -> Nat]

VARIABLES
    page,      \* the state of the mounted component and of its VoltaApi
    storage,   \* what the tab's sessionStorage holds for this mode
    jar,       \* the workspace whose cookies the browser has
    net,       \* requests under way
    issued, alive,           \* workspaces: how many, and those not deleted
    owner, ended, stored,    \* sessions, those ended, the messages they keep
    budget     \* how often each of Kinds may still happen

service == <<issued, alive, owner, ended, stored>>
vars == <<page, storage, jar, net, service, budget>>

NoEntry == <<0, 0>>
NoRetry == [id |-> NoEntry, text |-> 0]

Reads == {"me", "profile", "memories", "export"}
Writes == {"try", "start", "send", "end", "delete", "link"}
Flows == {"boot", "chat", "reset", "delete", "link", "export"}

(* An entry of the transcript: what the user said, or what Volta answered  *)
(* to the entry id.  Its id is fresh: it names the session and the place.  *)
Entry == [by : {"user", "volta"}, id : Nat \X Nat, text : Nat, failed : BOOLEAN]

Page == [api : BOOLEAN, csrf : Nat,
         state : {"idle", "active", "ending", "complete", "error"},
         action : {"none", "starting", "sending", "ending"},
         session : Nat, messages : Seq(Entry), input : Nat,
         retry : [id : Nat \X Nat, text : Nat], error : BOOLEAN, receipt : Nat,
         profile : Nat, memories : Nat,
         working : {"none", "link", "export", "delete"}, deleted : BOOLEAN,
         recording : BOOLEAN]

(* by says who waits for the answer: the page, a page that was left and    *)
(* whose functions still run, or nobody since the document is gone.        *)
Request == [op : Reads \union Writes, flow : Flows, by : {"page", "left", "gone"},
            ws : Nat, tok : Nat, session : Nat, id : Nat \X Nat, text : Nat,
            status : {"sent", "ok", "refused"}, val : Nat]

TypeOK ==
    /\ page \in Page
    /\ page.session \in 0..Len(owner)
    /\ page.retry.id = NoEntry <=> page.retry.text = 0
    /\ storage \in [session : Nat, messages : Seq(Entry), trial : Nat]
    /\ jar \in 0..issued
    /\ net \subseteq Request
    /\ issued \in Nat
    /\ alive \subseteq 1..issued
    /\ owner \in Seq(1..issued)
    /\ ended \subseteq 1..Len(owner)
    /\ stored \in Seq((1..Len(owner)) \X Nat)
    /\ budget \in [Kinds -> Nat]

-----------------------------------------------------------------------------
(* request: the cookies of the moment go with it, an unsafe one carries a  *)
(* CSRF token.  Tokens are issued with the cookies of a workspace and      *)
(* stand for it.                                                           *)
Call(op, flow, by, ws, tok) ==
    [op |-> op, flow |-> flow, by |-> by, ws |-> ws, tok |-> tok, session |-> 0,
     id |-> NoEntry, text |-> 0, status |-> "sent", val |-> 0]

(* The cached token, or else that of the cookie.                           *)
Token == IF page.csrf # 0 THEN page.csrf ELSE jar

(* refreshContext: both at once.                                           *)
Refresh(flow, by, ws) == {Call(op, flow, by, ws, 0) : op \in {"profile", "memories"}}

(* The component when it is mounted, restored from the session storage.    *)
Mounted(old) ==
    [api |-> FALSE, csrf |-> 0, state |-> IF old.session # 0 THEN "active" ELSE "idle",
     action |-> "none", session |-> old.session, messages |-> old.messages,
     input |-> 0, retry |-> NoRetry, error |-> FALSE, receipt |-> 0, profile |-> 0,
     memories |-> 0, working |-> "none", deleted |-> FALSE, recording |-> FALSE]

(* The effects that keep sessionStorage in step with the state: each runs  *)
(* when its value changes.                                                 *)
Mirror(old, p) ==
    [old EXCEPT !.session = IF p.session # page.session THEN p.session ELSE @,
                !.messages = IF p.messages # page.messages THEN p.messages ELSE @]

Show(p) ==
    /\ page' = p
    /\ storage' = Mirror(storage, p)

Spend(k) ==
    /\ budget[k] > 0
    /\ budget' = [budget EXCEPT ![k] = @ - 1]

Init ==
    /\ storage = [session |-> 0, messages |-> <<>>, trial |-> 0]
    /\ page = Mounted(storage)
    /\ jar = IF Returning THEN 1 ELSE 0
    /\ net = {}
    /\ issued = jar
    /\ alive = 1..jar
    /\ owner = <<>>
    /\ ended = {}
    /\ stored = <<>>
    /\ budget = Budget

-----------------------------------------------------------------------------
(* The service.                                                            *)

(* get_workspace: a browser without cookies, or with those of a workspace  *)
(* that was deleted, gets a new workspace.                                 *)
HasWorkspace(q) == q.ws \in alive
Creates(q) == q.op = "try" \/ ~HasWorkspace(q)

(* require_csrf.  A new workspace's token cannot have been in the request, *)
(* and the cookies of a refused request's workspace are not sent back.     *)
Allowed(q) == q.op \in Reads \/ (HasWorkspace(q) /\ q.tok = q.ws)

(* _require_session_owner, and the WHERE of send_message.                  *)
Open(q) ==
    /\ q.op \in {"send", "end"} => owner[q.session] = q.ws
    /\ q.op = "send" => q.session \notin ended

(* What the answer names: a workspace, or the new session.                 *)
Result(q) ==
    CASE q.op = "start" -> Len(owner) + 1
      [] q.op # "start" /\ Creates(q) -> issued + 1
      [] q.op \in Reads /\ ~Creates(q) -> q.ws
      [] OTHER -> 0

(* Nobody waits for the answer once the document is gone.                  *)
Answer(q, status, val) ==
    net' = (net \ {q}) \union
           IF q.by = "gone" THEN {} ELSE {[q EXCEPT !.status = status, !.val = val]}

Serve(q) ==
    /\ q.status = "sent"
    /\ Allowed(q) /\ Open(q)
    /\ Answer(q, "ok", Result(q))
    /\ issued' = IF Creates(q) THEN issued + 1 ELSE issued
    /\ alive' = IF Creates(q) THEN alive \union {issued + 1}
                ELSE IF q.op = "delete" THEN alive \ {q.ws} ELSE alive
    /\ owner' = IF q.op = "start" THEN Append(owner, q.ws) ELSE owner
    /\ ended' = IF q.op = "end" THEN ended \union {q.session} ELSE ended
    /\ stored' = IF q.op = "send" THEN Append(stored, <<q.session, q.text>>) ELSE stored
    /\ UNCHANGED <<page, storage, jar, budget>>

Refuse(q) ==
    /\ q.status = "sent"
    /\ ~(Allowed(q) /\ Open(q))
    /\ Answer(q, "refused", 0)
    /\ UNCHANGED <<page, storage, jar, service, budget>>

-----------------------------------------------------------------------------
(* What follows an await.                                                  *)

(* The cookies that an answer leaves the browser with.                     *)
Cookies(q) ==
    CASE q.op = "delete" -> 0
      [] q.op = "try" \/ (q.op \in Reads /\ q.val # q.ws) -> q.val
      [] OTHER -> jar

Take(q, calls) ==
    /\ q.status = "ok"
    /\ jar' = Cookies(q)
    /\ net' = (net \ {q}) \union calls
    /\ UNCHANGED <<service, budget>>

(* The other read of the same refreshContext is still under way.           *)
OtherPending(q) == \E o \in net \ {q} : o.by = "page" /\ o.flow = q.flow

(* Mutant: the end of a deletion is lost, there is no finally.             *)
SettledChatOnly(p, q) ==
    IF OtherPending(q) \/ q.flow # "chat" THEN p ELSE [p EXCEPT !.action = "none"]

(* What a flow does once both answers of its refreshContext are in.        *)
Settled(p, q) ==
    IF OtherPending(q) THEN p
    ELSE CASE q.flow = "chat" -> [p EXCEPT !.action = "none"]
           [] q.flow = "reset" -> [p EXCEPT !.working = "none", !.deleted = TRUE]
           [] OTHER -> p

ContextLoaded(q) ==
    /\ q.op \in {"profile", "memories"}
    /\ Take(q, {})
    /\ Show(IF q.by # "page" THEN page
            ELSE IF q.op = "profile" THEN Settled([page EXCEPT !.profile = q.val], q)
            ELSE Settled([page EXCEPT !.memories = q.val], q))

(* Mutant: a trial is created on every visit.                              *)
NeedsTrialAlways(q) == TRUE

(* The stored id lets a reload keep the trial.                             *)
NeedsTrial(q) == storage.trial # q.val

(* getWorkspace, which begins the setup of a trial, a request for a link,  *)
(* a deletion, and the page's new life after one.                          *)
WorkspaceKnown(q) ==
    /\ q.op = "me"
    /\ Take(q, IF q.flow \in {"link", "delete"}
               THEN {Call(q.flow, q.flow, q.by, Cookies(q), q.val)}
               ELSE IF Mode = "try" /\ (q.flow = "boot" => NeedsTrial(q))
               THEN {Call("try", q.flow, q.by, Cookies(q), q.val)}
               ELSE IF q.flow = "boot" /\ q.by = "left" THEN {}
               ELSE Refresh(q.flow, q.by, Cookies(q)))
    /\ Show(IF q.by = "page" THEN [page EXCEPT !.csrf = q.val] ELSE page)

(* Mutant: the session's id is kept.                                       *)
ClearedKeepsId(p) == [p EXCEPT !.messages = <<>>, !.receipt = 0, !.state = "idle"]

Cleared(p) ==
    [p EXCEPT !.session = 0, !.messages = <<>>, !.receipt = 0, !.state = "idle"]

(* Mutant: the token is not cached.                                        *)
CacheNothing(p, q) == p

(* createTryWorkspace caches the new workspace's token.                    *)
CacheToken(p, q) == [p EXCEPT !.csrf = q.val]

TryCreated(q) ==
    /\ q.op = "try"
    /\ Take(q, IF q.flow = "boot" /\ q.by = "left" THEN {}
               ELSE Refresh(q.flow, q.by, q.val))
    /\ page' = IF q.by # "page" THEN page
               ELSE IF q.flow = "boot" THEN CacheToken(Cleared(page), q)
               ELSE CacheToken(page, q)
    /\ storage' = IF q.flow = "boot"
                  THEN [session |-> 0, messages |-> <<>>, trial |-> q.val]
                  ELSE [storage EXCEPT !.trial = q.val]

Started(q) ==
    /\ q.op = "start" /\ q.by = "page"
    /\ Take(q, Refresh("chat", "page", jar))
    /\ Show([page EXCEPT !.session = q.val, !.state = "active",
                         !.messages = <<[by |-> "volta", id |-> NoEntry, text |-> 0,
                                         failed |-> FALSE]>>])

Replied(q) ==
    /\ q.op = "send" /\ q.by = "page"
    /\ Take(q, Refresh("chat", "page", jar))
    /\ Show([page EXCEPT !.messages =
                Append(@, [by |-> "volta", id |-> q.id, text |-> 0, failed |-> FALSE])])

(* Mutant: the session's id is kept.                                       *)
ConcludedKeepsId(p, q) == [p EXCEPT !.receipt = q.session, !.state = "complete"]

Concluded(p, q) == [p EXCEPT !.receipt = q.session, !.session = 0, !.state = "complete"]

Ended(q) ==
    /\ q.op = "end" /\ q.by = "page"
    /\ Take(q, Refresh("chat", "page", jar))
    /\ Show(Concluded(page, q))

(* Mutant: profile and memories stay until the refresh.                    *)
ResetKeepsContext(p) == [Cleared(p) EXCEPT !.csrf = 0, !.error = FALSE]

(* deleteWorkspace of the client and resetDeletedWorkspace of the page.    *)
Reset(p) ==
    [Cleared(p) EXCEPT !.csrf = 0, !.error = FALSE, !.profile = 0, !.memories = 0]

Deleted(q) ==
    /\ q.op = "delete"
    /\ Take(q, {Call("me", "reset", q.by, 0, 0)})
    /\ page' = IF q.by = "page" THEN Reset(page) ELSE page
    /\ storage' = [session |-> 0, messages |-> <<>>, trial |-> 0]

(* The end of requestLink and of exportWorkspace.                          *)
AccountDone(q) ==
    /\ q.op \in {"link", "export"}
    /\ Take(q, {})
    /\ Show(IF q.by = "page" THEN [page EXCEPT !.working = "none"] ELSE page)

(* The page was left before its consultation was answered.                 *)
Unseen(q) ==
    /\ q.op \in {"start", "send", "end"} /\ q.by = "left"
    /\ Take(q, {})
    /\ UNCHANGED <<page, storage>>

(* Mutant: a failure is not marked.                                        *)
MarkNever(messages, id, failed) == messages

(* The entry id of the user, marked as failed or not.                      *)
Mark(messages, id, failed) ==
    [i \in DOMAIN messages |->
        IF messages[i].by = "user" /\ messages[i].id = id
        THEN [messages[i] EXCEPT !.failed = failed] ELSE messages[i]]

(* The catch clauses.                                                      *)
Caught(q) ==
    CASE q.op \in {"profile", "memories"} -> Settled(page, q)
      [] q.flow = "boot" /\ q.op \in {"me", "try"} ->
             [page EXCEPT !.error = TRUE, !.state = "error"]
      [] q.op = "start" ->
             [page EXCEPT !.error = TRUE, !.state = "error", !.action = "none"]
      [] q.op = "send" ->
             [page EXCEPT !.messages = Mark(@, q.id, TRUE), !.input = q.text,
                          !.retry = [id |-> q.id, text |-> q.text],
                          !.error = TRUE, !.state = "error", !.action = "none"]
      [] q.op = "end" ->
             [page EXCEPT !.error = TRUE, !.state = "active", !.action = "none"]
      [] OTHER -> [page EXCEPT !.working = "none"]

(* A request that failed may have left the browser: it goes on by itself,  *)
(* and is served later.  A read would leave no more than a workspace that  *)
(* nobody uses.                                                            *)
Late(q) ==
    IF q.status = "sent" /\ q.op \in Writes
    THEN {{}, {[q EXCEPT !.by = "gone"]}} ELSE {{}}

Fail(q) ==
    /\ q.by # "gone"
    /\ \/ q.status = "refused" /\ UNCHANGED budget
       \/ q.status # "refused" /\ Spend("fault")
    /\ \E late \in Late(q) : net' = (net \ {q}) \union late
    /\ Show(IF q.by = "page" THEN Caught(q) ELSE page)
    /\ UNCHANGED <<jar, service>>

Arrive(q) ==
    \/ ContextLoaded(q) \/ WorkspaceKnown(q) \/ TryCreated(q)
    \/ Started(q) \/ Replied(q) \/ Ended(q)
    \/ Deleted(q) \/ AccountDone(q) \/ Unseen(q)

-----------------------------------------------------------------------------
(* The user.                                                               *)
Active == page.session # 0 /\ page.state # "complete"
Waiting == \E q \in net : q.by = "page"
MayAct == page.api /\ (Patient => ~Waiting)

(* Mutant: no check of action.                                             *)
FreeAlways == TRUE

(* loading: nothing else of the consultation is under way.                 *)
Free == page.action = "none"

(* getRuntimeConfig, then the effect that depends on the client it made.   *)
ConfigLoaded ==
    /\ ~page.api
    /\ page' = [page EXCEPT !.api = TRUE]
    /\ net' = net \union IF Mode = "try" THEN {Call("me", "boot", "page", jar, 0)}
                         ELSE Refresh("boot", "page", jar)
    /\ UNCHANGED <<storage, jar, service, budget>>

(* What is said next, by typing it over what the input holds or aloud.     *)
Said == Budget["say"] - budget["say"] + 1

Type ==
    /\ MayAct /\ Active /\ Free
    /\ Spend("say")
    /\ Show([page EXCEPT !.input = Said])
    /\ UNCHANGED <<jar, net, service>>

ToggleRecording ==
    /\ MayAct /\ Active /\ Free
    /\ ~page.recording
    /\ IF "record" \in Speech THEN Show([page EXCEPT !.error = FALSE, !.recording = TRUE])
       ELSE Show([page EXCEPT !.error = TRUE])
    /\ UNCHANGED <<jar, net, service, budget>>

(* Volta's messages have a button that reads them aloud, or cannot.        *)
Listen ==
    /\ MayAct /\ page.messages # <<>> /\ "listen" \notin Speech
    /\ Show([page EXCEPT !.error = TRUE])
    /\ UNCHANGED <<jar, net, service, budget>>

(* onresult, whatever the page does by then.                               *)
Dictate ==
    /\ page.recording
    /\ Spend("say")
    /\ Show([page EXCEPT !.input = Said, !.recording = FALSE])
    /\ UNCHANGED <<jar, net, service>>

(* onerror, onend.                                                         *)
StopRecording ==
    /\ page.recording
    /\ Show([page EXCEPT !.recording = FALSE])
    /\ UNCHANGED <<jar, net, service, budget>>

StartSession ==
    /\ MayAct /\ ~Active /\ Free
    /\ Spend("start")
    /\ Show([page EXCEPT !.action = "starting", !.error = FALSE])
    /\ net' = net \union {Call("start", "chat", "page", jar, Token)}
    /\ UNCHANGED <<jar, service>>

Post(id, text) ==
    net' = net \union {[Call("send", "chat", "page", jar, Token) EXCEPT
                           !.session = page.session, !.id = id, !.text = text]}

(* Mutant: the retry is not forgotten.                                     *)
SendingKeepsRetry(p) == [p EXCEPT !.action = "sending", !.error = FALSE, !.input = 0]

(* Mutant: the input is not cleared.                                       *)
SendingKeepsInput(p) ==
    [p EXCEPT !.action = "sending", !.error = FALSE, !.retry = NoRetry]

(* Mutant: of the retry only the text is forgotten.                        *)
SendingForgetsText(p) ==
    [p EXCEPT !.action = "sending", !.error = FALSE, !.input = 0, !.retry.text = 0]

(* sendMessage, up to its await.                                           *)
Sending(p) ==
    [p EXCEPT !.action = "sending", !.error = FALSE, !.input = 0, !.retry = NoRetry]

SendMessage ==
    LET id == <<page.session, Len(page.messages) + 1>> IN
    /\ MayAct /\ Active /\ Free /\ page.input # 0
    /\ Spend("send")
    /\ Show([Sending(page) EXCEPT !.messages =
                Append(@, [by |-> "user", id |-> id, text |-> page.input, failed |-> FALSE])])
    /\ Post(id, page.input)
    /\ UNCHANGED <<jar, service>>

RetryMessage ==
    /\ MayAct /\ page.session # 0 /\ Free
    /\ page.error /\ page.retry # NoRetry
    /\ Spend("send")
    /\ Show([Sending(page) EXCEPT !.messages = Mark(@, page.retry.id, FALSE)])
    /\ Post(page.retry.id, page.retry.text)
    /\ UNCHANGED <<jar, service>>

EndSession ==
    /\ MayAct /\ Active /\ Free
    /\ Show([page EXCEPT !.action = "ending", !.state = "ending", !.error = FALSE])
    /\ net' = net \union {[Call("end", "chat", "page", jar, Token) EXCEPT
                              !.session = page.session]}
    /\ UNCHANGED <<jar, service, budget>>

CloseReceipt ==
    /\ MayAct /\ page.receipt # 0
    /\ Show([page EXCEPT !.receipt = 0])
    /\ UNCHANGED <<jar, net, service, budget>>

(* requestLink, exportWorkspace and deleteWorkspace, up to their awaits.   *)
Account(kind, op, flow) ==
    /\ MayAct /\ page.working = "none"
    /\ Spend("account")
    /\ Show([page EXCEPT !.working = kind, !.deleted = FALSE])
    /\ net' = net \union {Call(op, flow, "page", jar, 0)}
    /\ UNCHANGED <<jar, service>>

RequestLink == Account("link", "me", "link")
ExportWorkspace == Account("export", "export", "export")
DeleteWorkspace == Account("delete", "me", "delete")

(* The user follows a link within the site and comes back: the component   *)
(* is mounted anew, and what the old one awaits goes on behind it, but for *)
(* reads whose answer has nothing left to change.  Bound: they leave while *)
(* it awaits something.                                                    *)
LeavePage ==
    LET Lasting == {q \in net : q.op \in {"profile", "memories", "export"} => Creates(q)}
    IN
    /\ Waiting
    /\ Spend("leave")
    /\ page' = Mounted(storage)
    /\ net' = {[q EXCEPT !.by = IF @ = "page" THEN "left" ELSE @] : q \in Lasting}
    /\ UNCHANGED <<storage, jar, service>>

(* The document is loaded anew.  Of the requests under way some have been  *)
(* sent, and will be served.                                               *)
NewDocument ==
    \E sent \in SUBSET {q \in net : q.status = "sent" /\ q.op \in Writes} :
        /\ page' = Mounted(storage)
        /\ net' = {[q EXCEPT !.by = "gone"] : q \in sent}

Reload ==
    /\ Spend("reload")
    /\ NewDocument
    /\ UNCHANGED <<storage, jar, service>>

(* A sign-in link leads to the document of verify-client.tsx and from      *)
(* there back here.  It brings the cookies of the workspace it was asked   *)
(* for, be it this browser's or one of another device.                     *)
SignIn ==
    /\ Spend("signin")
    /\ NewDocument
    /\ \/ jar' \in alive /\ UNCHANGED <<issued, alive>>
       \/ jar' = issued + 1 /\ issued' = jar' /\ alive' = alive \union {jar'}
    /\ UNCHANGED <<storage, owner, ended, stored>>

-----------------------------------------------------------------------------
Progress == \E q \in net : Serve(q) \/ Refuse(q) \/ Arrive(q) \/ Fail(q)

Next ==
    \/ Progress
    \/ ConfigLoaded
    \/ Type \/ Listen \/ ToggleRecording \/ Dictate \/ StopRecording
    \/ StartSession \/ SendMessage \/ RetryMessage \/ EndSession \/ CloseReceipt
    \/ RequestLink \/ ExportWorkspace \/ DeleteWorkspace
    \/ LeavePage \/ Reload \/ SignIn

Spec == Init /\ [][Next]_vars

(* A fetch ends with an answer or with an error.                           *)
FairSpec == Spec /\ WF_vars(Progress)

-----------------------------------------------------------------------------
(* Properties.                                                             *)
Used(k) == Budget[k] - budget[k]
Remounts == Used("leave") + Used("reload") + Used("signin")
Shown(id) == \E i \in DOMAIN page.messages : page.messages[i].id = id
                                            /\ page.messages[i].by = "user"

(* The entry at place i has its answer.                                    *)
Answered(i) ==
    /\ page.messages[i].by = "user"
    /\ \E j \in DOMAIN page.messages :
          page.messages[j].by = "volta" /\ page.messages[j].id = page.messages[i].id

(* sendMessage (ConsultationWorkspace.tsx): an answer stands right behind  *)
(* the message it answers, and once, however requests overlap and fail.    *)
(* The answer to a retry that outlived its session has no message to stand *)
(* behind.                                                                 *)
AnswersInOrder ==
    \A j \in DOMAIN page.messages :
        /\ page.messages[j].by = "volta" /\ page.messages[j].id # NoEntry
        /\ Shown(page.messages[j].id)
        => /\ j > 1
           /\ page.messages[j - 1].by = "user"
           /\ page.messages[j - 1].id = page.messages[j].id

(* The row of messages for the entry at place i.                           *)
Posted(i) == <<page.messages[i].id[1], page.messages[i].text>>

(* Of what the user sees answered, the service keeps every message, in the *)
(* order shown: nothing that looks delivered is missing from what          *)
(* end_session will extract, and no retry comes behind a later message.    *)
TranscriptAgrees ==
    \A i \in DOMAIN page.messages : Answered(i) =>
        \E p \in DOMAIN stored :
            /\ stored[p] = Posted(i)
            /\ \A j \in (i + 1)..Len(page.messages) : Answered(j) =>
                   \E q \in (p + 1)..Len(stored) : stored[q] = Posted(j)

(* A message without an answer is marked as failed, unless it is under way *)
(* or the page went away while it was.                                     *)
Accounted ==
    Cardinality({i \in DOMAIN page.messages :
                    /\ page.messages[i].by = "user" /\ ~page.messages[i].failed
                    /\ ~Answered(i)})
        <= (IF page.action = "sending" THEN 1 ELSE 0) + Remounts

(* The service keeps what was said once, and once more at most for every   *)
(* time the page reported a failure: a retry and the draft that stays in   *)
(* the input never both repeat it.                                         *)
StoredOncePerFailure ==
    \A text \in 1..Budget["say"] :
        Cardinality({i \in DOMAIN stored : stored[i][2] = text}) <= 1 + Used("fault")

(* endSession: the page goes on showing a consultation that has ended only *)
(* if its answer got lost, or is on its way.                               *)
EndedIsKnown ==
    page.session \in ended =>
        \/ page.action = "ending"
        \/ Used("fault") + Remounts > 0

(* startSession, sendMessage, endSession and the account's controls come   *)
(* to an end: their buttons are not disabled for ever.                     *)
BusyEnds ==
    (page.action # "none" \/ page.working # "none")
        ~> (page.action = "none" /\ page.working = "none")

(* When nothing is under way and the setup of /try has succeeded, the      *)
(* consultation on the page belongs to the workspace that the browser's    *)
(* cookies name, unless that was deleted: it can be continued and ended.   *)
ActiveSessionIsOurs ==
    /\ page.session # 0 /\ net = {} /\ page.api
    /\ Mode = "try" => storage.trial = jar
    => owner[page.session] = jar \/ owner[page.session] \notin alive

(* VoltaApi: an unsafe request carries the token of its own workspace,     *)
(* unless the cached token's was deleted without the page being told.      *)
TokenMatches ==
    \A q \in net : q.op \in Writes /\ q.by = "page" /\ q.tok # q.ws =>
        q.tok \notin alive

(* The setup of /try keeps a trial that is there: only a deletion or a     *)
(* sign-in takes its cookies away (the comment above tryWorkspaceSetup's   *)
(* use: a reload preserves this private sandbox).                          *)
TrialStays ==
    [][jar = storage.trial /\ jar \in alive =>
          (jar' = jar \/ budget'["signin"] < budget["signin"])]_vars

(* resetDeletedWorkspace: once the page says that the workspace is gone it *)
(* shows nothing of it.                                                    *)
FreshAfterDelete ==
    page.deleted =>
        /\ {page.profile, page.memories} \subseteq alive \union {0}
        /\ page.session # 0 => owner[page.session] \in alive

=============================================================================
