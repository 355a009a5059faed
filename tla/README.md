# Formal models of Volta Memory

Volta is a chat adviser that remembers its users. A browser talks to a FastAPI
service on Alibaba Function Compute; the service keeps conversations and
memories in PostgreSQL and asks Qwen for answers, for the facts worth
remembering, and for how a new fact relates to the old ones. Requests overlap,
the platform kills invocations at its time limit, Qwen fails, browsers retry, and
every function is a few transactions with slow calls between them. These TLA+
modules model that: which rows are read and written when, what a request that
was suspended does afterwards, and what the users are promised nevertheless.

Paths are relative to the repository, `session.py` is
`backend/app/chat/session.py`. `PROJECT.json` maps each definition to its lines.

## Inventory

| Component | State | Operations | What is hard, and what must hold |
|---|---|---|---|
| Session end (`session.py`) | `conversations`, `messages`, `session_extraction_results` (status, token, lease, key, receipt), `memories`, `transcript_chunks` | `end_session`, `_mark_extraction_failed` | Two transactions with Qwen between them, racing retries, invocations that are killed or resume late. A session ends once; its receipt is what was written; everybody gets the same receipt; an interrupted session recovers |
| Memory lifecycle (`memory/contradiction.py`, `store.py`, `decay.py`, `consolidation.py`, `provenance.py`) | `memories`, `memory_relations`, `memory_provenance`, `memory_lifecycle_events` | create, correct, reinforce, supersede, consolidate | Overlapping transactions on one list of memories, row locks, half a consolidation. No fact loses its last version; counts and history stay right |
| Workspace erasure (`api/routes_v1.py`) | every table | `delete_workspace` | A dozen statements at READ COMMITTED against everything else. Nothing of the workspace is left; the erasure is answered |
| Sign-in (`auth.py`) | `entities`, `users`, `auth_sessions`, `auth_login_tokens`, cookies | `get_workspace`, `create_magic_link`, `consume_magic_link` | Two transactions, links followed twice, an erasure between them; cookies that an answer changes under requests already sent. A link works once; an erased account stays erased |
| Chat (`session.py`) | `messages`, `explain_traces` | `start_session`, `send_message`, `send_message_stream` | Two transactions around Qwen, memories that change meanwhile, an erasure meanwhile |
| Consultation page and its client (`frontend/app/components/ConsultationWorkspace.tsx`, `AccountPrivacyControls.tsx`, `lib/api.ts`) | the mounted component, `sessionStorage`, cached CSRF token, cookies | boot of a trial, start, send, retry, end, dictate, export, link, delete; leaving, reloading | Every handler awaits; the page may be left, reloaded or signed in meanwhile; a request that failed may have arrived. The screen, the stored transcript, the cookies and the token agree; no button stays disabled |
| Evidence (`ChatMessage.tsx`, `MemoryReceipt.tsx`, `memory/page.tsx`, `MemoryGraph.tsx`, and the DTOs of `api/serializers.py`, `routes_v1.py`) | what was loaded, the selected memory, the address | explain an answer, show a receipt, load the map, follow a link, select | Joins of lists read at different times, two requests of which one may fail, four fallbacks per field. Quotes are those of the memory shown, lines are true, links arrive |
| Qwen client (`chat/qwen_client.py`) | a deadline per request, the call log | `complete_json`, `complete_stream`, `complete_with_tools` | A shared budget, retries after part of an answer, tool rounds |
| Retrieval (`memory/retrieval.py`, `decay.py`, `importance.py`, `embeddings.py`) | none of its own | ranking, packing into a token budget, decay tiers | Boundaries of budget and tiers |
| Database access (`db.py`) | a pool of connections | `get_connection` | Pool exhaustion while Qwen is called with a connection held |
| Showcase, header, MCP server, evaluation, seeding, scripts, prompts | - | - | Read-only pages, sequential tools or stateless formatting |

On the server they interact through the database only: a request's calls are
synchronous, and no process keeps state between requests except the connection
pool. Browser and server interact through requests whose answers carry cookies; the
pages share `sessionStorage` and the address.

## Modules

`SessionExtraction` is the core. Its rows are indexed by session, its
invocations are `Workers` with their locals (`pc`, `token`, `transcript`,
`drafts`, ...). Its actions follow `_end_session_impl` from top to bottom:
`Request` takes token and time before it waits for anything; `NotFound`,
`Replay`, `Refuse`, `TakeOver`, `SeeNoRow`, `Create`, `ClaimFails` are the ways
out of the first transaction; `Extract` and `ExtractFails` stand for Qwen;
`Persist`, `LeaseLost`, `Commit`, `PersistFails` are the second transaction, which
locks its rows from `Persist` on (`Unlocked`); `MarkFailed` is
`_mark_extraction_failed`; `StoreChunks` is what follows the commit. `Die` can
end any invocation at any point. `CheckOpen` and `PostMessage` are
`send_message`, `Erase` is `delete_workspace` at its commit. `SELECT ... FOR
UPDATE` that finds no row locks nothing, which is why `SeeNoRow` and `Create` are
two steps. Time is relative (`age` of an invocation, time `left` of a lease), so
that it needs no global bound. Rows that release 004 left without a token are
initial states.

`SessionReceipt` is the abstract promise, with no invocations at all: a session
ends once, its memories are stored once each, every answer lists exactly them.
`SessionRefinement` instantiates it over `SessionExtraction`: the conversation
row, the stored memories and the answers given implement it.

`MemoryVersions` looks into `Commit`: the loop over drafts, one memory at a time,
of several sessions whose second transactions overlap, and the consolidation
cycle with a commit per statement. Inserted rows are in the tables'
columns but not in `created` until the commit; `taken` are rows marked superseded
by an open transaction (and locked by it), `wanted` the `UPDATE` it waits for.
What Qwen decides is a choice.

`WorkspaceErasure` looks into `Erase`: each `DELETE` goes through the rows that
are committed when it starts, waits for those that are locked (`WaitForRows`,
`DeleteRow`), cascades, and is refused by the foreign keys of what it did not
see. `doomed` rows are deleted and not yet committed: readers still see them,
writers wait for them. Against it run `start_session`, `send_message`,
`end_session` from its extraction on, `create_magic_link` and
`consume_magic_link`.

`ConsultationClient` is one tab with the page at `/` or `/try`, the client behind
it, the browser's cookies (`jar`) and session storage, and the service as far as
the page can tell it apart. A request is a record in `net` with the cookies and
the token of the moment it was sent. `Serve` and `Refuse` are the service;
`ContextLoaded` to `Unseen` are what follows an `await` when an answer arrives,
`Fail` is what the `catch` clauses do, also when the work was done and only its
answer was lost, or is done later (`Late`: a write that has left the browser is served
when the page has given it up, and nobody gets its answer). `LeavePage` leaves the old component's functions running, `Reload`
does not, `SignIn` comes back from the link's page with other cookies. `flow` says which
function awaits the answer, because `getWorkspace` and `refreshContext` are called
by several. Workspaces, sessions and texts are numbers. `Budget` bounds how often
each kind of thing happens; a `Patient` user waits for the page before acting.

`EvidenceContracts` holds, as operators, the DTOs of the service and what
`lib/api.ts`, `MemoryGraph`, `ChatMessage` and `MemoryReceipt` make of them.
`EvidenceView` is when they are evaluated: a log of committed writes, of which
every statement of every request sees the part that was there when it ran, while the
page asks, explains, lists, loads, fails, is reloaded and selects.

`MCSessionExtraction`, `MCMemoryVersions`, `MCWorkspaceErasure`,
`MCConsultationClient`, `MCEvidenceView` instantiate them for TLC; the first defines
the symmetry of `session_race`, the fourth the budgets.

`SessionExtractionProofs`, `MemoryVersionsProofs`, `WorkspaceErasureProofs`,
`EvidenceViewProofs` and `ConsultationProofs` prove theorems about the modules they are named after.
`MemoryChainProofs` goes on with the chains of `MemoryVersions`, and `PageWorkspaceProofs` with the
workspaces of `ConsultationClient`; the first and `EvidenceViewProofs` use `Counting`, induction
over an interval of numbers.

## Runs

| Run | Question | Bounds | Result |
|---|---|---|---|
| `session_race` | Does a session end once, with one receipt, whoever races, fails or dies? | 1 session, 2 messages, 3 invocations, 4 tokens, lease of 2 ticks, 2 deaths, no time limit | all hold; `SessionReceipt` is implemented; 132,629 states |
| `session_recovery` | On a platform with a time limit, does a live invocation keep its lease and an interrupted session recover? | 1 session, 2 keys, 2 invocations, 2 deaths, request limit 1 < lease 2 | hold; 96,421 states |
| `session_transcript` | Is the full transcript extracted? (docs/03, section 7) | 1 session, 2 invocations | violated: a message posted during extraction is lost |
| `memory_versions` | Do superseded memories always have an active successor, right counts, a consistent history; do opposite lock orders end? | 2 sessions of 2 drafts, 2 old memories, 1 consolidation | hold; 387,860 states |
| `memory_fork` | Is the latest version the only active one? (`session.py:336`) | 2 overlapping sessions of 1 draft | violated |
| `memory_cap` | Is an implausible memory's confidence capped? (docs/03, section 15.2) | 1 session at a time | violated by a correction |
| `erasure_race` | Is what was said and remembered in the sessions that the erasure found gone after the 204, are accounts and links final, is the erasure always answered? | 1 session, an earlier one, 1 link, 2 sign-ins | hold; 100,541 states |
| `erasure_events` | Are the lifecycle events gone too? (docs/13, section 7) | 1 session | violated |
| `consult_chat` | Do the transcript on the screen and the stored one agree, is every message accounted for, is it known that a session ended? | page at `/`: 2 sessions, 2 texts, 3 posts, 1 fault, left once, impatient user | hold; 3,541,791 states |
| `consult_workspace` | Do page, cookies, token and session belong together; do the buttons come back? | page at `/try`: 1 session, 1 text, 1 fault, 1 reload, 1 sign-in, 1 account request, patient user | hold; 525,698 states |
| `consult_first` | Can a consultation that is shown be continued, from the first visit on? (docs/13) | page at `/`: 1 session, no fault | violated: two workspaces are created |
| `evidence_view` | Are quotes, groups, lines, links and emptiness true whatever is written between the reads? | 3 writes | hold; 1,290,247 states |

Every property of a passing run has a mutant in `PROJECT.json`: a change of one
definition that a plausible bug would make, under which the run finds the property
violated. The mutants stand next to what they replace, marked `Mutant:`.

Why the bounds are enough.

- `session_race`: three invocations are the least that show a holder, a
  retry that takes over and a late one that returns; two deaths let the first and the
  retry both die. Four tokens keep one fresh whatever the row and three invocations
  hold. `MaxLag` bounds how long an invocation waits between reading the clock
  and using it, and only that: with `RequestLimit = 9 > MaxLag` invocations are
  suspended for any time afterwards.
- `session_recovery`: two keys show a key that another request used; that keys are
  also shared between sessions is covered by `LeaseSafe` and `ReceiptCorrect`, which
  are proved for any number of both.
- `memory_versions`: two sessions with two drafts are the least that can lock two
  memories in opposite orders, repeat a memory twice, and supersede a memory that a
  consolidation supersedes too. All drafts are facts: facts are compared with facts and
  corrections alike, so the old ones, their corrections and the new ones meet.
- `erasure_race`: the erasure is one transaction and every other request touches the
  rows of its own session, so one session that meets it at every point shows each pair
  of steps; the deadlock needs the memory of an earlier session (`Past`), which a
  correction locks. A second link adds no pair: links are claimed one by one, and
  `LinksSingleUse` is proved for any number.
- `consult_chat`, `consult_workspace`: two sessions let something of the first outlive
  it, two texts and three posts let a retry, a resend from the input and the next message
  overlap. Every failure takes the same `catch`, so one fault at every request shows each of
  them once, and its late request at every later point; a reload, a sign-in and an account request may fall into each other.
- `evidence_view`: three writes make a chain of two supersessions, a memory superseded
  twice, and a summary that absorbs a memory, before, between and after all reads.

Fairness. Workers that live take their next step (Python runs the function to
its end), the clock ticks, and a browser that has been told 409 or 503 keeps
its button and its idempotency key (`ConsultationWorkspace.tsx`, `endSession`), so a
request comes again. Nothing is owed by Qwen, by users or by what kills workers.
Lock waits are strongly fair, because PostgreSQL queues them; a deadlock is broken
by its detector. `session_recovery` needs the platform's limit: with
invocations that are suspended for ever longer, each retry can be robbed in turn
and the session never ends, which the comment on the lease in `config.py` rules out.
In `ConsultationClient` a fetch ends, with an answer or an error (`WF_vars(Progress)`):
the platform answers for an invocation that exceeds its 60 s (`s.yaml`), and a browser
gives up a connection that is broken. Users owe nothing.

`CHECK_DEADLOCK FALSE` is set for the memory, erasure, consultation and evidence
runs, where sessions, links, drafts, writes and what a user does are finite and
everything may have ended.

## Proofs

`SessionExtractionProofs` proves, for every number of sessions, messages, keys,
invocations and tokens and every lease:

- `TypeCorrect`: the type invariant.
- `InvariantHolds`: the inductive invariant `IInv`.
- `ReceiptCorrect`, `EndedCorrect`, `AnswersCorrect`, `FenceCorrect`: the safety
  invariants of `session_race`.
- `ReceiptFinal`, `FailsOnlyOwn`: its two action properties.
- `Refinement`: `Spec => ImplementsReceipts`, the refinement of `SessionReceipt`.
- `LeaseSafe`: if the request limit is shorter than the lease (and not longer than
  `MaxLag`, so that ages are exact), no live invocation loses its lease. The
  configuration has 60 s and 70 s.

The assumptions are those of the modules: `NoSession`, `NoToken` and `NoKey` are
distinct from the values they stand beside, the lease is positive, the other
bounds are naturals.

The argument. None of the safety properties is inductive alone: that the receipt
is what was written depends on nobody else writing between the lock of the row and
the commit, that depends on the row's token being the writer's, and that on no
two invocations having the same token. `IInv` adds to the properties
`TokensUnique`, `NoOrphanRow` (an extraction row goes with its conversation) and
`AnswersReceipt` (an invocation that has committed still answers with what the
row holds). Each kind of step has a lemma (`LeaveInv`, `GoToInv`, `TakeLeaseInv`,
`CommitInv`, `ShowInv`), `StepInv` and `NextInv` put them together. The refinement
follows from `IInv` at each step: `Commit` is `EndSession`, `Replay` and
`StoreChunks` are `ShowReceipt`, `Erase` is `EraseWorkspace`, all others stutter.
`LeaseSafe` has an invariant of its own, `LeaseCountsDown`: the age of
an invocation and the time left of its lease add up to the lease.

`WorkspaceErasureProofs` proves, for every number of sessions, links and sign-ins,
`TypeCorrect`, `ErasureComplete` (`ContentErased`), `AccountStaysErased`
(`AccountErased`) and `LinksSingleUse` (`LinkUsedOnce`). It assumes that `Past` is no
session and `NoLink` no link. That nothing is left after the commit says
nothing about the statements before it, each of which sees other rows. What
carries the argument is the foreign keys: a statement is refused if a row refers to
one it deletes and is not deleted with it. So `IInv` records what each statement that is done has left
nothing of (`PassedBy`), that rows which refer to others come with them or after
them (`RowsAgree`), that a transaction's locks keep its rows from being
deleted under it (`LocksHeld`), and what an open erasure is about (`StatementOpen`).
`CommitEraseInv` turns `PassedBy` at the last stage into `ErasedAll` and
`ContentErased`. For links, `LinksHeld` says that a sign-in which has read an unused
link has it locked: two cannot, and an erasure cannot have deleted it.

`MemoryVersionsProofs` proves, for every number of sessions, drafts, old memories and
consolidations, `TypeCorrect` (so confidences stay percentages, whatever is corrected and
repeated) and `HistoryCorrect` (`HistoryAgrees`). It assumes `TypesAssumption`, that
drafts are of the types the table knows, and the modules' other assumptions about
bounds and names. `HistoryAgrees` speaks of committed rows, and a commit adds
what a transaction collected while other ones committed; hence `OwnWork` (what a transaction
supersedes was committed or is its own, and is superseded by its own), `SummaryReady`
(a summary is committed before it replaces anything) and `HistoryFull`
(`HistoryAgrees` with the successor of each related memory, so that later commits keep it).

`EvidenceViewProofs` proves, for every number of writes, `QuotesTrue` (`QuotesAreOwn`),
`GroupsCorrect` (`OneGroupEach`) and `EmptinessTrue` (`EmptyIsTrue`). All three
rest on what one reader knows and a later one still finds: `ReplyGrounded`,
`ReceiptGrounded` and `ReadsLater` relate each read to the log at its time,
`LogGrows` and `SeenVerified` say that the log only adds to it.

`MemoryChainProofs` proves `NothingIsForgotten` (`NothingForgotten`) and `CountsAreRight`
(`CountsSessions`), for every number of sessions, drafts, old memories and
consolidations. Beyond the assumptions of `MemoryVersionsProofs` it needs those that
TLC evaluates for the model's names: the ids are finitely many and no two kinds of
them meet. Both properties are about `Closure`, the memories that a chain of
edges leads to; `ClosureLeast` shows that it is the least set that contains its start and is
closed under the edges, and from there on no recursion is left. `NothingForgotten`
follows if no set of committed memories replaces itself (`NoCircle`): what comes after a superseded memory
would otherwise be such a set. That a commit keeps it needs the order in which a session supersedes its own memories (`OwnChain`),
that its memories are not committed yet (`Numbered`), and that what it waits to replace is
replaced by something new (`WantedNew`). `CountsSessions` also has to be
true of the memories that are not committed, by the relations their session sees
(`CountFull`, `Seen`): a repetition adds one version, whose chain is the chain of what it
confirms, and one session, which is counted unless it was counted before (`SourceFull`).

Of the memory map `EvidenceViewProofs` proves, for every number of writes, `ScreensTyped` (`TypeOK`),
`LinksLeadThere` (`EvidenceReachable`), `AddressHolds` (`SelectionFollowsAddress`),
`LinesTrue` (`LinksAreTrue`) and `LineageDrawn` (`LineageShown`). `MapInvariant` adds to the
invariant above that every reader finds the memories numbered without a gap (`Numbered`), that
what a link names was written before the page asked (`LinkedThere`), that the focus is
the address (`FocusFollows`), and that nothing is shown before both requests have
ended (`Settled`). The lines are a fold over the list of memories, which looks at the
lines it has drawn so far: `DrawnNotes` turns it into a sequence of sets, one for each memory;
`DrawnTrue` shows that each line it adds is in a memory's record, and `DrawnLinks` that the
line from a memory to its successor is missing only if the `prior` branch took its place.
When it did, the predecessor was superseded by another memory, or the
relations were older than the provenance; those are the two alternatives of `LineageShown`.

`ConsultationProofs` proves, for every budget of what may happen (sessions, messages, failures,
mounts, sign-ins, account requests), in both modes and for impatient users too, `PageTyped` (`TypeOK`),
`AnswersStandBehind` (`AnswersInOrder`), `TranscriptIsKept` (`TranscriptAgrees`),
`EveryMessageAccounted` (`Accounted`), `TheEndIsKnown` (`EndedIsKnown`) and `StoredOnce`
(`StoredOncePerFailure`). It assumes what the module does: that the mode is one of two,
the flags are flags, and the budget gives a number to each kind. The component has some thirty handlers, most
of which do not touch the transcript. So the actions are first reduced, once, to fourteen kinds of
steps (`Steps`, `StepKinds`: `Quiet`, `Utters`, `Sends`, `Misses`, `HasReply`, `Serves`, ...), which keep
the types (`Typed`) and say of the transcript, its requests and its failures what the
rest needs; every later invariant is shown for those. `OneChat`: a start, a message or
an end is awaited alone, because the buttons are disabled meanwhile. `Places`: a message that is awaited or may be
retried is the last one on the page, or of another session that the page does not show any more, and a message
knows its place; from this `AnswersInOrder` follows. It needs the second case: a
retry outlives the session it was for. On these rest the other four, each of which
also has to speak of what is under way. `Recorded`: also the message whose answer is on its way has a row, and the
rows can be chosen in the order of the page. `Excused`: what has no answer, is not
marked and is not awaited was lost by a mount, at most one by each. `EndsKnown`: a
session that starts has not ended, and while nothing failed only the page's own `end` can
have ended the one it shows. `OncePerFault`: the rows of a text, the requests that may yet become one, and the draft or retry it
may be sent from are together one more than the failures at most; a failure is what turns a request that
the service has served or may still serve (`Forgets`) into a retry.

`PageWorkspaceProofs` proves of the same module which workspace everything on the page is of:
`TokensAreOurs` (`TokenMatches`), `NothingComesBack` (`FreshAfterDelete`), `TrialIsKept` (`TrialStays`, an action
property) and `SessionIsOurs` (`ActiveSessionIsOurs`). They are not true of every budget, and name
what they need. All four assume `Calm`: the user is patient, and does not follow a link
within the site and come back while the page waits (`Budget["leave"] = 0`). Without the one, a
link or a deletion is asked for while the trial is being set up; without the other, the setup that a page has begun
goes on after it was left, behind that of the new one. Either way TLC finds each of the four violated with a large enough budget. Messages, failures,
reloads, sign-ins, links, exports and deletions are not bounded. The first two hold in both
modes; `TrialIsKept` has nothing to say at `/`, where no trial is stored. `SessionIsOurs` also needs `Mode = "try"` (at `/` a sign-in replaces the cookies of a session that the page goes on showing, and on a first visit `consult_first` finds another way) and one
sign-in at most (with two, the user comes back to a trial that another sign-in took them from, with a session of the
workspace between). These are the hypotheses of `consult_workspace`.
Every action is first shown to be of one of ten kinds (`SpaceSteps`, `SpaceKinds`) that say what it
does to workspaces: nothing, ask, load, know the workspace, found a trial, converse,
erase, finish, answer, or begin anew, perhaps with other cookies. `Alone` holds of them: the page waits for one request, or for the
two of a refresh, and of what failed or was left by a reload only requests that nobody waits for go on. From it, `Tokens` follows:
a request has the cookies of the moment, its token and the cached one are those of the cookies or of a
workspace that is gone, and only a read that names no living workspace brings other cookies. That is why a trial keeps its
cookies: the one request that would replace them is made only if the stored trial is another one. `Fresh` is about the time from the
deletion on: what comes in is of living workspaces, moreover of none that a
deletion left behind by a failure or a reload is about to erase (`DoomedIn`), without which it is not inductive. `Sessions`
says that the session on the page is the trial's, or the trial is
`Final`: the cookies are not its own, and no sign-in is left that could bring them back while it lives.

Where an induction was needed (`ClosureGrows`, `DrawnNotes`, the first and last element of
a set of numbers), it is stated as one about the set of numbers up to which something
holds (`CountTo`), which needs no operator as a parameter.

Only model-checked is liveness (`InterruptedSessionRecovers`, `WriterFinishes`,
`ErasureEnds`, `BusyEnds`), which rests on fairness and is beyond the prover.

## Where code and documentation differ

Five runs expect a violation; the quotations are under `findings`.

1. A message that is posted while its session is being extracted is never
   extracted (`session_transcript`).
2. Two sessions that end at once and repeat the same memory leave two active
   versions (`memory_fork`).
3. A correction or a repetition loses the plausibility cap (`memory_cap`).
4. Lifecycle events written during an erasure survive it (`erasure_events`).
5. A first visit to `/` creates two workspaces, and a consultation that is started
   between the two answers belongs to the one the browser forgets (`consult_first`).

Others are described under `hazards`, without a run of their own: a first-time race
is answered 500 instead of 409 (`ClaimFails`); an anonymous workspace is inserted
again by a sign-in that was under way; a consolidation supersedes every stale
memory by a summary of the first five, where docs/03:348 promises the gist of all; a
retry survives the session it belongs to and is posted into the next; a confirmation is
drawn as a correction on the map if the timeline is newer than the relations; a line
to a memory's successor is missing on the map if its predecessor was superseded twice and
the relations are older than the timeline (`MemoryGraph.tsx:70`), a case the attempt to prove
`LineageShown` brought up, and which takes four writes; a session that was started
in a workspace whose setup had failed is shown, after a second sign-in, in the trial
(`ConsultationWorkspace.tsx:267`).

## Not modelled, and abstracted

- Texts, embeddings, importance, decay curves, prompts: data that no
  property here tells apart. A draft is named by its message (`SessionExtraction`)
  or has a type and a confidence (`MemoryVersions`); a quote is known by the memory it
  was taken for (`EvidenceContracts`).
- Qwen: a choice or a failure. Its budget and retries are planned; until then the
  request limit is a constant. The stream and the tool loop are not called by the browser.
- Expiry of sessions and links and rotation of tokens, admin endpoints, MCP
  server, evaluation, deployment.
- The erasure in `SessionExtraction` is atomic, as is the service in
  `ConsultationClient`: `WorkspaceErasure` and `SessionExtraction` have their steps, and
  show that a request is served entirely or fails.
- In `WorkspaceErasure` one message and one message's answer per session; its
  other memories and the provenance and relation rows, which cascade with
  their memories; links of the same address that belong to another workspace.
- One consolidation runs at a time, one per summary.
- Of the requests that a reload or a failure leaves behind only writes are served later: a late
  read would leave no more than a workspace that nobody uses.
- `build_memory_dtos` reads the rows and then their provenance and relations
  (`serializers.py:68`). The list that the map asks for has both reads; `MessageDTO`, in an
  answer, takes them from one point of the log. What `MemoryDTO` takes from the second, the
  quote and the memory before, is committed with the memory and never changed, so a later
  read gives the same.
- In the frontend: the profile rail and the slots of `build_profile`, decay statuses and the
  wording of reasons, scrolling and focus, drawing, what is read aloud, stored JSON that
  does not parse, a second mount by React's StrictMode. `MemoryTable` is not used by any page; the
  showcase loads like the map, from data nobody changes; the header is links. The link's page
  is `SignIn`, its effect on the cookies.

## Plan

1. `ReplyStream`: `complete_stream` (deltas, retries after part of the text),
   `complete_with_tools` (three rounds) and `send_message_stream`, against an
   abstract reply: what is shown and stored is what Qwen sent, once.
2. `InvocationBudget`: the shared deadline, attempts and pauses, and the pool whose
   connections are held meanwhile; its promise is the `RequestLimit` that
   `LeaseSafe` assumes.
3. `ContextPacking`: ranking, tiers and packing as operators, checked against a
   reference definition over small budgets; the turn numbering of
   transcripts likewise.
4. `WorkspaceAccess`: expiry and rotation of `auth.py`, with the anonymous erasure.
5. Proofs: for the request budget, that no attempt starts beyond the deadline.

The runs are to stay few: new questions replace answered ones or join a run whose
bounds allow it.
