# Homework Helper: verification models

TLA+ models of the homework-helper tutor in `src/`: a FastAPI backend that
streams a tutoring chat through a LangGraph graph and a user-configured set of
language models, a learner memory that worker processes update in the
background, and two React frontends. The modules are translated from the code;
`PROJECT.json` says, definition by definition, from which lines.

    tlc -workers 2 -config MemoryJobs_faults.cfg MCMemoryJobs   # a run
    tlapm MemoryJobs_proofs.tla                                 # a proof

- [The system](#the-system): its parts, their state, what is hard about them
- [What is modelled](#what-is-modelled): module by module, against the code
- [What the runs show](#what-the-runs-show), their bounds, and where code and documents disagree
- [What is proved](#what-is-proved) and how
- [What is not modelled](#what-is-not-modelled)
- [Plan](#plan)

## The system

| Part | State it keeps | Operations | Talks to |
|---|---|---|---|
| **Chat turn** `app/routes/chat.py`, `app/graph.py` | Per turn: graph state, the reader's local variables, an `asyncio.Queue`. Persistent: rows of `messages`, the chat's title and token totals. | `POST /api/chat/stream`: gate, load memory, call the model, run tools, queue a memory job, save question and answer | Alignment gate, LLM router, tools, memory service, application database |
| **Alignment gate** `app/alignment.py` | Encoder and corpus, loaded once under a lock | `check_alignment(text)`: allowed or refused with a reason | called by the graph's first node |
| **LLM router** `app/llmconfig/router.py`, `catalog.py`, `app/llm.py` | Per request: queue of aliases, applied rules. Nothing persistent. | `stream`, `generate` | LLM config, providers over HTTP |
| **LLM config** `app/llmconfig/{model,parser,security,store,ping}.py`, `routes/settings.py` | One YAML string per user, keys encrypted | read with masked keys, save, import, export, ping | Settings page, router |
| **Memory update queue** `memory/service` (enqueue), `memory/jobs` | Table `memory_update_jobs` in a sqlite file of its own | enqueue with two heuristics; claim, evaluate, settle, reclaim | Chat turn on one side, worker processes on the other; they share the table only |
| **Learner memory store** `memory/jobs/utils.py`, `memory/service` | Tables for concepts, edges, observations, concept state, traits, summary | `_apply_evaluation`, `load_memory_context` | queue's workers write, chat turns read |
| **Authentication** `app/auth.py`, `routes/auth.py`, `email.py`, `contexts/AuthContext.tsx`, `pages/LoginPage.tsx` of both frontends | Table of verification codes, one `refresh_expires_at` per user; JWTs in the cookies of each browser; who is signed in, a timer | send code, verify, refresh, logout | frontends, every other route |
| **Subjects and chats** `app/db.py`, `routes/subjects_chats.py`, `components/AppSidebar.tsx` | Tables `subjects`, `chats`, `messages`; the sidebar's copy of their names | create, list, rename, name a chat after its first question | chat turn, chat page |
| **Tools** `app/tools.py` | none | calculator, text statistics, web search, diagram layout, drawing | tool executor |
| **Chat page** `frontend/src/pages/ChatPage.tsx`, `components/Chat*.tsx`, `lib/api.ts` | Selected chat, shown messages, running streams, the composer's quote and attachment, a pending drawing | choose, create and leave a chat, ask, retry, quote, attach; callbacks of a stream | backend, whiteboard |
| **Settings page** `pages/SettingsPage.tsx`, `lib/settings.ts` | Edited and last saved configuration, autosave timer, dialogs | load, edit, autosave, test, import | LLM config |
| **Whiteboard** `frontend/src/lib/whiteboard.ts`, `WhiteboardCanvas.tsx` | Elements, history, selection, one ref per gesture | draw, erase, move, resize, type, delete, undo, clear | chat page |
| **Debug frontend** `frontend-debug/src/pages/DebugPage.tsx` | Lists and choices of a browser and of traces, an SQL editor with a table | choose, reload, run a statement, sort, search | debug routes, session |
| **Start-up, logging, debug API** `app/main.py`, `structured_log.py`, `routes/debug.py` | `memory_enabled`, trace rows | start-up decision, write and read traces | all |

How they interact: a turn arrives at `chat_stream`. Its graph asks the gate,
loads the learner's memory (reading tables that workers are writing), calls the
router, which calls one provider after the other, runs tools, calls the router
again, and finally inserts a job into the queue's table. Worker processes, that
share nothing with the app but the sqlite file, claim the job, ask a model what
it means for the learner, and write the answer into the memory tables. The next
turn reads them.

### What is hard, and what makes each part correct

**Memory update queue.** Its two sides never speak. Python's `sqlite3` opens a
transaction at the first *write*, so the SELECTs of the heuristics and of a claim
stand alone; a worker may die between any two commits; liveness of a worker is
guessed from a timestamp. Correct means: one job, one holder; a live evaluation
is not stolen; a settled job stays settled; every job settles in the end; the
writes on behalf of a job are bounded by what went wrong; the heuristics keep
what bound they can although they are not atomic.

**Learner memory store.** Six dependent sections in one connection block whose
transaction begins only at the first INSERT, concurrent with other workers and
with a reader that needs three SELECTs. Correct means: references never dangle, a
commit is the whole evaluation, running a job twice repeats as little as
possible, and the reader finds what the tables say.

**LLM router.** A queue that rules put aliases back into, error classes of two
libraries, calls that break off after output. Correct means: never two models in
one answer, no endless walk, give up only when all has been tried, rules first.

**Chat turn.** Three tasks on one event loop: the graph, its reader and the
response, each ahead or behind. Correct means: a refused question leaves nothing
behind, the stored answer is the shown one and complete, no tool call runs
twice, and a client that stays hears the end.

**Authentication.** An access token cannot be taken back; the refresh tokens of all
of a learner's devices share one expiry; a timer counts from the opening of the
page and not from the token; a call or its cookies may be lost. Correct means: who
is shown as signed in can call the server, and after a logout nobody can, once the
last access token has run out.

**Chat page.** Choosing a chat cancels neither the load of another one's messages
nor a running answer, and each callback writes to the last message on screen.
Correct means: text of one chat reaches another's screen in no way but those, a
drawing goes to its own chat and to one question, the composer is locked while an answer is
written and not for ever.

**Settings page.** Edits save themselves after a pause, saves overtake each other,
keys come back masked and are recognised by comparison. Correct means: what is
shown at rest is stored, and no mask is stored as a key.

**Whiteboard.** A gesture lasts over many events and is held in refs that no other
handler clears. Correct means: undo brings back exactly the drawing before.

**Sidebar.** Renames, a name the server invents and the page's copy of both cross.
Correct means: at rest the names shown are the names stored.

**Debug frontend.** Lists within lists, answered late or not at all. Correct means:
what is shown is of what is chosen.

## What is modelled

| Module | Models | Proofs |
|---|---|---|
| `JobLease` | abstract: what the queue promises | |
| `MemoryJobs` | enqueueing, workers, crashes, time | `MemoryJobs_proofs` |
| `MemoryStore` | applying evaluations, loading a context | `MemoryStore_proofs` |
| `LLMRouter` | one request to the router | `LLMRouter_proofs` |
| `ChatTurn` | graph, reader and response of chat turns | `ChatTurn_proofs` |
| `ChatPage` | the chat page: selecting, asking, streams, attachments | `ChatPage_proofs` |
| `Session` | codes, tokens and cookies on several devices | `DebugApp_proofs` |
| `UndoHistory` | abstract: what undo promises | |
| `Whiteboard` | tools, gestures, history of the whiteboard | `Frontend_proofs` |
| `Settings` | the settings page and the configuration it saves | `Frontend_proofs` |
| `Sidebar` | names of subjects and chats, shown and stored | `Frontend_proofs` |
| `Frontend` | composes `Whiteboard`, `Settings`, `Sidebar` by route | `Frontend_proofs` |
| `DebugPage` | browser, SQL editor and traces | `DebugApp_proofs` |
| `DebugApp` | composes `DebugPage` with `Session` | `DebugApp_proofs` |
| `Loop`, `Lists` | the loops over lists of the other modules | `Loop_proofs` |
| `MC*` | small instances for TLC | |

In every module the definitions marked `Mutant:` are not part of the system.
Each is a plausible wrong version of the definition that follows it, and makes
a named property fail; they show that the properties depend on the code.

### MemoryJobs and JobLease

A *turn* is both a caller of `enqueue_memory_update` and the row it may insert.
`tpc` is where the caller stands (`BeginEnqueue`, `CheckDedup`, `CheckRate`,
`InsertJob`, `EnqueueDbError`: the free checks, two SELECTs, the INSERT, an sqlite
error). `status`, `rowid`, `created` and `updated` are the columns. `wpc` is where
a worker process stands in `process_pending_jobs`: `Reclaim`, `Select`, `Claim`
(the SELECT and the guarded UPDATE of `_claim_next_pending_job`), `Load`,
`Evaluate`, `Apply`, `CommitTrace`, `SetDone`, `SetFailed`. The evaluation is an outcome here:
something to write, nothing to write, or an error; `MemoryStore` opens it up.

*Failures.* `Kill` stops a worker anywhere. `SetFailedRaises` is an sqlite error
inside the `except` of `_process_claimed_job`, which the guard of
`process_pending_jobs` catches; `Raise` is one outside every `try`, which ends the
process. `Restart` starts it again. `CommitTrace` is the commit with which
`memory_job_log_context` ends, after the evaluation and before `set_job_done` (or after
the row of a job that failed); when it raises (`TraceRaises`), the guard sets the job
failed (`SetFailedByGuard`), also one that was written.

*Time.* Timestamps are ages, kept up to the largest threshold they are compared
with, and `Tick` is a second. A step has a budget (`left`): `asyncio.wait_for`
ends an LLM call after `MEMORY_LLM_TIMEOUT_SECONDS`, the busy timeout ends a
connection block, and time does not pass a step that is out of budget. The
clock is taken to be monotone, so `ORDER BY created_at, id` is row order.

`WorkBound` is the longest a live worker holds a job: the LLM call and six connection
blocks, of which the longest path has the load, the look-up of the user's model before the
call, the write, a failed attempt to record a failure, the trace, and a second attempt.
`WorkBound < StaleSeconds` (`LeaseAssumption`) is what `memory/config.py` asks for
in words: the threshold "must stay well above" the timeout. With the defaults of
90 and 300 seconds, and the 5 seconds of `sqlite3`'s busy timeout, it holds.

`JobLease` forgets tables, clocks and causes: a job is open until its one holder
closes it, and a holder may vanish. `MemoryJobs!LeaseSpec` instantiates it with
`phase`, `holders` and `writes` computed from the rows and the workers; claiming
is `Acquire`, `Apply` is `Write`, settling is `Close`, losing a worker is
`Abandon`, and reclaiming is a stutter, for the holder left when it was lost. A holder may
close a job as failed that it has written.

### MemoryStore

`db` is the committed file; `working` the tables as the one open write transaction
sees them; `lock` who has it. A worker goes through the sections of
`_apply_evaluation` in the code's order, one action per section and one per
iteration of the three loops over concepts, edges and deltas. A statement that writes needs the
lock and begins the transaction; one that only reads sees `working` if its worker
has the lock and `db` otherwise. So an evaluation that starts with a trait update
reads its old traits before it owns anything, as in the code. `Commit` publishes,
`Rollback` is an exception, a busy timeout or a dead worker.

`Norm` is `normalize_concept_key`, with two spellings of one key and a key that
normalises to nothing; `Validated` are the caps of `_validate_semantic`. Numbers
(mastery, confidence, weights) are the two sides of the weak threshold or left
out. `loader` follows `load_memory_context` where one SELECT depends on another:
weak concepts, then ids by *name*, then edges by id.

### LLMRouter

`_execute` waits only in a model call and where it yields, so what happens from
the failure of a call to the start of the next, skipped aliases included, is one
step (`Fail`, through `CallNext` or `GiveUp`). `Classify` is `classify_error` over
the exceptions of httpx and the openai client by name and status class. `Item`,
`Finish` and `Cancel` are a chunk, the end of the stream and a caller that goes
away. `config` and `usable` are chosen at the start, as the code reads the config
once. `AES_SECRET_KEY` is taken to be set.

### ChatTurn

The graph (`AlignmentCheck`, `MemoryLoader`, `Token`, `AgentEnds`, `AgentRaises`,
`ToolExecutor`, `MemoryUpdater`) emits events into `unread`, because
`astream_events` runs it as a task of its own. The reader (`Read...`) is
`_stream_graph`: it sets `alignment_done`, counts open tool calls, drops text while
there are any, collects answer and drawing, and puts server-sent events into
`queue`, in the end the sentinel. The response (`Refuse`, `SaveQuestion`,
`LookUpTitle`, `NameChat`, `PassOn`, `SaveAnswer`) is `event_generator`. `Lose` is a
client that goes away or an exception in the response: the graph goes on.

A token is its number within the turn; a tool call is its signature (name and
arguments), which is how the code recognises repeats; `ran` has the set of calls of
each round. `AgentEnds` covers providers
whose chunks carry an index for a call and those whose chunks do not: the latter
mark a call as pending and leave no data for it. The request is taken to name a
chat, a model call that ends normally to yield a chunk, and an error in a tool to
become a message (`ToolNode`'s default). What is stored is not what was collected:
`Content` is the sentence stored for an empty reply (`chat.py:96`), `Elements` no drawing for
an empty one. Usage, model names, prompts, images and
quotes are left out.

### ChatPage

Text is abstracted to its provenance: a message is its role and the set of chats
(`from`) whose text, image, tool calls or usage it shows. `loads` counts the
`getMessages` calls of each chat that are out, `streams` are the answers asked for,
each with the chat it was asked in. A handler and the effects its updates cause are
one step, as React runs them before the next event; what follows an `await` is a
step of its own. `Select`/`LoadAnswers` are `handleSelectChat` before and after its
await, `CreateChat`/`ChatCreated` the sidebar's, `Send` is `sendMessage` (through
`Submit` or `Retry`), and `Token`, `ToolCall`, `DrawingEvent`, `Done`, `ErrorEvent`,
`FetchFails` are the callbacks. `Adopt` is the effect on `selectedChatId` with the
composer that is keyed by it, `Mounted` a page that opens. A question carries the drawing it
was sent with, and so does a question that is loaded again; `Retry` posts it with its drawing
once more (`again`). `disturbed` says of an answer that, while it was being written, one that had
reported an error ended or reported an error, directly or through others: the only way in
which the composer may be unlocked under it.

Met while translating, and allowed for by name in the properties:

- Messages of a chat that is no longer selected replace the screen when they come,
  and tokens of its answer are appended to whatever is last there.
- `onError` unlocks the composer before the stream is over; if the next question is
  out when the old `done` event comes, that event unlocks the composer again.
- `drawingRef` is one for all answers. When several are written at once, as they may
  be after such an error, the diagram of one chat outlives a change of chats and
  the next `onDrawing` draws it into an answer of another.
- `handleLogout` aborts the newest stream before it asks the server. If that call
  fails the page stays and its composer is locked for good.
- `onError` reads the role of the last message: with none on screen it throws.
- A visit to the settings leaves the pending drawing, and it is attached again
  when its chat is selected, although `whiteboard.ts:46-47` has it "Cleared as soon
  as the message is submitted or a different chat is selected".

### Session

A cookie is when it expires. `calls` has one call of each kind per device, with the
cookies it carries or, once answered, the ones it sets. `Serve...` are the handlers
of `routes/auth.py`, none of which awaits anything between reading and writing;
`Hear...` are the pages' continuations; `Lose` drops a call or its answer. `account`
is `refresh_expires_at`: whether refresh tokens are taken, and since when not.

`refresh` means to delete the cookies of a refused token, but raises an
`HTTPException`, whose response does not carry them; so a revoked refresh token
stays in its browser and is good again after the next login anywhere. The answer
of a refresh that was served before a logout may arrive after it and plant an access
token. `cookie_domain` is taken to be unset, as `delete_cookie` does not name it.

### Whiteboard and UndoHistory

The plane is one axis, as the code treats the other in the same way: an element is
the span it covers, and a drawing maps the numbers of its elements, in the order in
which they were made, to their spans. `board` has the state and the refs of page and canvas; `Down`,
`MoveTo` and `Up` are the pointer's handlers with each tool's branch, then the text,
the keyboard and the toolbar. `draft`, `lasso`, `moving` with `moved`, `resizing` and
`text` are the gestures' refs and states, any of which may be set together. Scaling is
integer arithmetic, on a grid.

`UndoHistory` is a drawing and the drawings before it. `Whiteboard!History` maps to
it the drawing as the history sees it (`Settled`: while elements are held, the one
from before the gesture). It promises nothing once `torn`: an undo, a delete or a
second finger in the middle of a gesture edits the drawing behind the gesture's back,
and its end then pushes a drawing that was not the last.

### Settings

`form` is the page, `saves` the requests the server or the page has not heard of,
`stored` the server's configuration. A model is its alias and its key; a key may be
the mask of one. `Put` is `put_config` with `Valid` (the pydantic model's
validators) and `ApplyIncoming` (the merging of masked keys); `Edited` is `setConfig`
with the effect that starts the autosave timer. A load is two steps, `Serve` at the server and
`Load` at the page, which also waits for the catalog: saves of an earlier visit may be stored
between them. A save may fail before it is stored (`SaveFails`; a connection that breaks
before the server was asked counts here), be answered (`Answered`), or be stored and its
answer lost (`AnswerLost`), which the page takes for an error.

`raced` and `tainted` mark what the properties cannot promise. `raced`: a save was stored after
one sent later, or, by an earlier visit, after the load was served; the answer of a save came
after that of a later one; or an edit led back to the text the page takes for saved, so that it
starts no timer, while the server had or was to get another one. `tainted`: a model was renamed
with its mask, or a save was stored after one sent later or after the load of a later visit
was served.

Met while translating: a load that failed shows an empty page, and *Test* then
stores that page; the last alias taken from a rule leaves `use: []`, which the
server refuses, while the page says "Empty = move to the next in order."
(`SettingsPage.tsx:1010`); a rename of a model with an untouched key stores the mask;
leaving the page drops the timer of the last edit.

### Sidebar

`names` is the server's table, `side` what the page shows and edits, `calls` the
requests on their way. A chat is named in the order of `_maybe_generate_title`: `CheckName`
reads the title, the model is asked, `FindName` writes the title, cut to the length the server
allows (`Cut`), unless it is blank (`EmptyTitle`) or taken, which nobody is told; and then the
*whole* title is on its way to the page (`Titled`), as `event_generator` awaits the write before it
yields. `LoseName` is a model without a title or a stream that breaks: the event is lost, or the
name is written without anybody hearing of it. `SaveEdit` compares with the name on screen by then,
as `InlineRename` reads its current prop, and not with the one the edit began with.
A list, a create and a rename may fail, arrive late, or cross.

### Frontend

`Frontend` puts the three pages behind the router of `App.tsx`. They share no state of
the browser (the one pending drawing is in `ChatPage`), so a tab is followed on the
page it opened, and leaving and coming back is an action of each page. This adds the
behaviours of the pages instead of multiplying them.

### DebugPage and DebugApp

Browser and traces are lists, each of the children of what is chosen in the list
before; `lists` says of whose. `Choose` forgets what is below, but not the list it
asks for, and `Answer` shows a list whatever is chosen by then. The SQL table sorts by
`compareValues`, which is no order on a column of numbers and text mixed, so
`SortedAsAsked` speaks of the others. `DebugApp` mounts the page when `Session` says
that somebody is signed in on its device, unmounts it when nobody is, and lets a
call succeed only if it was made with a good access token.

## What the runs show

| Run | Expected | Shows |
|---|---|---|
| `jobs_faults` | pass | Two jobs, two workers, one kill and one sqlite error anywhere: `NeverStolen`, `ExclusiveHolder`, `TerminalStable`, `WritesBounded`, the refinement `LeaseSpec`, and `EveryJobSettles` |
| `jobs_burst` | pass | Four turns of one scope, two at a time: at most one open job per turn that runs at once (`BurstBounded`), the hourly limit is exceeded by at most the concurrency less one (`HourlyBounded`), jobs are claimed in row order while no worker is lost (`ClaimsInOrder`) |
| `jobs_first_insert` | violation | `FirstInsertWins` of a test's text: two turns pass the dedup SELECT before either inserts |
| `jobs_retry` | violation | `RetryWritesOnce` of the design document: a worker dies between the commit of an evaluation and `set_job_done` |
| `store_apply` | pass | Two workers and a reader: `NoDanglingConcept` even inside transactions, `AppliedWhole`, and for every reachable content `SectionsMeanTheEvaluation` and `ReplayOnlyRepeatsObservations` |
| `store_topics` | violation | `EveryPrerequisiteSurfaces`: two weak concepts with one display name |
| `llm_failover` | pass | Every order of up to two aliases, up to two rules, every set of usable aliases, both callers: `OneVoice`, `CallsBounded`, `GivesUpLast`, `RuleWins` |
| `llm_transport` | violation | `TransportFailsOver` of a docstring: `APIConnectionError` is not classified |
| `chat_tools` | pass | A turn with up to two rounds of tools and every lag between graph, reader and response: `RefusedLeavesNothing`, `AnswerIsWhatWasShown`, `NothingLeftOut`, `NeverRunAgain`, `EveryTurnEnds` |
| `chat_browse` | pass | The chat page while answers and messages of several chats arrive in any order: text of another chat gets onto a clean screen by a late answer only (`OnlyLateAnswersMix`), a drawing belongs to one new question of its own chat and is posted again by its retries only (`DrawingHasOneQuestion`), `LockedWhileAnswering`, and `ComposerComesBack` |
| `frontend_pages` | pass | The whiteboard implements its history (`UndoIsExact`) and says so (`UndoIsOffered`); settings at rest are stored (`SavedMeansStored`) and no mask becomes a key (`MaskNeverStored`); names at rest are the stored ones (`NamesShown`) |
| `debug_console` | pass | Two devices of one user and the debug page behind one of them: who is shown as signed in is (`KeptAuthorised`), nobody is an access token's life after a logout (`NobodyAfterLogout`), lists and rows on screen are those asked for (`ShownIsChosen`) |

`AppliedWhole` is weaker than it may sound, and says so: an evaluation without
concept upserts reads before its transaction has begun, so it may miss concepts
added meanwhile (its edges and deltas to them are dropped) and merge into traits
that have changed. The property names this exception and allows nothing else.

### Disagreements between documents and code

Four runs end in a violation, each of a sentence of the repository, quoted under
`findings`: the dedup check and the insert are not one transaction; a retried
job can write its observations twice; prerequisites of concepts that share their
display name get lost; a refused connection does not fail over.

Others were met in reading and need no run. `how-langgraph-works.md` has the
question saved before the gate; the code saves it after the verdict
(`chat.py:328`), and `RefusedLeavesNothing` depends on that. The same page sends
an answer without fresh calls to END; the code sends it to `memory_updater`
(`graph.py:431`). Two equal calls *within* one answer are both executed; only calls
of an earlier round are filtered, and `NeverRunAgain` claims no more.
The comment on the pending drawing (`whiteboard.ts:46-47`) says that choosing another
chat clears it; leaving for the settings and coming back to another chat does not.
The settings page says "Empty = move to the next in order." of a rule without
models (`SettingsPage.tsx:1010`); taking the last model out of a rule leaves `use: []`,
which the server's validator refuses, so that configuration is not saved.

### Bounds

- **`jobs_faults`**: two workers and two jobs are the fewest for a reclaim to race a
  holder while the other worker has work; one kill and one error give the
  interesting double failure (the job reclaimed, its second holder lost as well).
  The seconds are the smallest that satisfy `LeaseAssumption` (`LlmSeconds` 1 and
  `DbSeconds` 1 give a `WorkBound` of 7, below 8), so a reclaim happens at the first
  second it may. Deduplication is switched off by a window of 0 so that both turns
  can have jobs; `jobs_burst` has it on.
- **`jobs_burst`**: four turns with a limit of two per hour and two threads let the
  limit be reached, raced and exceeded, and the windows be left again. Turns
  and workers are symmetric; no liveness is checked there.
- **`store_apply`**: three evaluations (full; traits only; no upserts, for another
  learner), three applications, two workers: every pair overlaps, with a third
  before or after. `Full` has more concepts and observations than the caps keep, and
  an edge and a delta to the concept that is cut off.
- **`llm_failover`**: two aliases and lists of two contain an alias twice, two rules
  for one reason, rules that name only unusable aliases, and rules for both reasons.
  `MaxItems` 1: before and after output is all the code distinguishes.
- **`chat_tools`**: one turn; batches of two calls, one of them with `route`, which the
  reader does not count; `RecursionLimit` 6 allows a round of tools, a second run
  of the executor and the limit's error (the real one is 25). One token per model
  call tells order and loss apart, as tokens are numbered within the turn.

- **`chat_browse`**: a chat that is there and one to be created are enough for one to be
  late and the other on screen; three questions let an answer overlap the next one
  and both outlive an answer that ended with an error (with two, the diagram kept
  of another chat never reaches a clean screen); one load is out at a time; four
  moves of the user reach a retry after a switch. One drawing is enough to be attached
  twice or asked again.
- **`frontend_pages`**: seven events on three positions hold two elements, a
  gesture on one of them and an undo after it; two models, one key with its mask, two
  edits, two saves and two visits let a save overtake another, lose its answer, and outlive its
  page to be stored while the next one loads;
  two subjects, two chats and three names (the default, one that is cut, what is left
  of it) and the blank title, with two calls let a rename cross a list, a title or another rename.
- **`debug_console`**: an access token lasts 3, a refresh is made every 2, a code lasts 2
  and a call may be out for 1, until 6: long enough for a token to run out after a
  logout, and with the minutes of the code for token and
  refresh (3 and 2; a code's 10 are shortened). Two
  devices are needed for a logout on one to matter to the other. Three moves of the user on the
  devices, five on the page. The constraint `OneAtATime` uses the page only in a
  session nobody touches further, since the two parts share nothing but who is
  signed in.

Deadlock is checked for the queue, whose clock never stops. A router request,
a chat turn and a bounded number of evaluations do end, and the runs of the
frontends stop where the user's bounded moves do.

### Fairness

`MemoryJobs!Fairness`: time passes, a worker that can take a step does, and a worker
that is down is started again. The first two are the operating system and the
timeouts in the code. The third is an assumption about operation: nothing in the
repository restarts a worker (`docker-compose.yml` sets no restart policy), and a
job whose worker died waits until some worker makes a reclaim pass. So
`EveryJobSettles` says what an operator gets for keeping a worker up, and that
nothing else is needed. Enqueueing is not fair; a job that is never inserted
need not settle.

`ChatTurn!Fairness`: per turn the graph, the reader and the response each take a
step when they can. They are tasks of one asyncio loop, which runs every task that
is ready, and model calls end by the client's timeouts. A client is not obliged to
go away: `Lose` is not fair.

`ChatPage!LiveSpec`: every stream the page reads ends (`Verdict`: a `done` event, a
refused call or a broken connection). The server ends each stream after its sentinel,
and a connection without its server breaks. Nothing the user does is fair, and
tokens, tool calls and error events need not come.

`MemoryStore`, `LLMRouter`, `Frontend` and `DebugApp` state safety only. A router request ends because each
call ends and `CallsBounded` bounds their number.

## What is proved

For every number of turns, workers, scopes, kills and errors, and all timeouts
with `WorkBound < StaleSeconds` (`MemoryJobs_proofs`):

| Theorem | States |
|---|---|
| `TypeCorrect` | `Spec => []TypeOK` |
| `LiveEvaluationsNeverStolen` | `Spec => []NeverStolen` |
| `OneHolderPerJob` | `Spec => []ExclusiveHolder` |
| `SettledForGood` | `Spec => TerminalStable` |
| `WrittenOncePerFault` | `Spec => []WritesBounded` |
| `OldestFirst` | `Spec => ClaimsInOrder` |
| `BurstIsBounded` | `Spec => []BurstBounded` |
| `HourIsBounded` | `Spec => []HourlyBounded` |
| `ImplementsLease` | `Spec => LeaseSpec` |

`NeverStolen` is not inductive: that a held row is `running` says nothing about
when a reclaim may take it. `LeaseInv` adds `HeldInTime`: the age of a held row,
plus what the holder's step may still take, plus what the steps after it may
take, is at most `WorkBound`. Each step hands its unused time to the next,
`Tick` moves a second from one summand to another, and `LeaseAssumption` puts the
sum below the stale threshold, so a reclaim finds no held row. `ExclusiveHolder` is
in the same induction, because two holders of one row would reset each other's
age. `WritesBounded` and the refinement are inductions on top of `LeaseInv`: a
job that is done, or held past its evaluation (`Settled`), accounts for one write, and every
other for a kill or an error that was counted, a trace that could not be committed included.

`ClaimsInOrder` holds between two steps, a SELECT and an UPDATE, so it needs to know what
may happen in between: `OrderInv` says that as long as no worker is lost every running
row has its holder (`NoOrphan`), hence no reclaim makes an old row pending again, and
that the row a worker has selected stays the oldest pending one or is taken
(`SelectedOldest`), since later rows have higher ids (`RowsNumbered`). The two
bounds on bursts are proved by counting a turn that has passed a check together with
the rows it was compared with (`CountInv`): whoever passes the check is one of at most
`EnqueueThreads` turns that run, and found the other summand empty, or below the limit.

For any workers, learners, keys and limits, and evaluations of the schema's types
(`MemoryStore_proofs`):

| Theorem | States |
|---|---|
| `StoreTyped` | `Spec => []TypeOK` |
| `ForeignKeysHold` | `Spec => []NoDanglingConcept` |
| `EvaluationsAreApplied` | `Spec => AppliedWhole` |
| `SectionsAreTheMeaning` | `Spec => []SectionsMeanTheEvaluation` |
| `ReplayAddsObservations` | `Spec => []ReplayOnlyRepeatsObservations` |

`StoreInv` has the references of the committed tables and of the open transaction
alike, with the types of rows and of what the caps leave of an evaluation; each
statement is shown to leave sound tables from sound ones, whichever of the two it saw.
What a loop has written after n of its items (`NamesWritten`, `StatesWritten`) is an
induction on n, and at the end of the list it is the meaning. `AppliedWhole` is about
the last step of an application that other workers interrupt, so `WholeInv` says where each
stands: once the transaction has begun with an upsert, what its worker sees is exactly
what the sections up to here make of the committed tables (`Exact`), which nobody else
can change while it has the lock. Without an upsert only `Partly` holds, where the
lookups made before the lock may be old; and as long as there is no lock nothing
was there to write (`Unwritten`). In `TypeOK` the bound on observations takes
an argument: busy workers count among the evaluations begun, and theirs are
not committed yet (`Bounded`).

For every set of aliases, configs and errors (`LLMRouter_proofs`):

| Theorem | States |
|---|---|
| `TypeCorrect` | `Spec => []TypeOK` |
| `CallerHearsOneCall` | `Spec => []OneVoice` |
| `CallsAreBounded` | `Spec => []CallsBounded` |
| `FailsOnlyWhenAllFailed` | `Spec => []GivesUpLast` |
| `RulesWin` | `Spec => RuleWins` |

The inductive invariant `RouterInv` has a conjunct per promise. `Unheard`: a call
that may still fail over has not been heard, and only the current call ever
was. `Budget`: the calls made plus the entries still queued are at most the
order and the use lists of the rules *already applied*; a call takes an entry out,
a rule adds its list once and is then marked. `Pending`: a usable alias of the
order was called or is still in the queue, so an empty queue means all were
called.

For every number of devices, all lives of tokens and codes with
`Interval + Latency <= AccessLife`, and calls lost or late; for any tree of users and
any tables (`DebugApp_proofs`):

| Theorem | States |
|---|---|
| `TypeCorrect` | `Spec => []TypeOK` |
| `LogoutIsFinal`, `AppLogoutIsFinal` | `Spec => []NobodyAfterLogout`, `AppSpec => []NobodyAfterLogout` |
| `SessionsAreKept`, `AppSessionsAreKept` | `Spec => []KeptAuthorised`, `AppSpec => []KeptAuthorised` |
| `ShownChosenHolds` | `AppSpec => []ShownIsChosen` |

`NobodyAfterLogout` speaks of cookies, but a token may also be on its way in an
answer: `TokensEnd` says of both that none outlives the present by more than
`AccessLife`, nor a logout while nobody has signed in since. `KeptAuthorised` needs to
know what a page has asked for and since when: `Timely` ties each call to the state of
its page, and `KeptToDue` says that a page which was refreshed in time has a token
until it will be heard of again; there `Interval + Latency <= AccessLife` is used,
for which the frontends' two minutes and the token's three leave room.
`AppSpec` implements `Spec` of `Session` (`ImplementsSession`), so both carry over.
`ShownIsChosen` is two statements. The one about the lists, with the types of calls and tables, is
inductive as it stands (`DebugInv`): the sets `late` and `astray` say which lists it
speaks of. The other is about what sorting by insertion returns, for a column of any
length: `CompareIs` and `BeforeOrders` make of `compareValues` an order on a column of one kind,
`InsertKeepsOrder` is one step of the loop, and the loop rule below does the rest.

For any turns, tools, batches and limits (`ChatTurn_proofs`):

| Theorem | States |
|---|---|
| `TurnTyped` | `Spec => []TypeOK` |
| `CallsRunOnce` | `Spec => []NeverRunAgain` |
| `RefusalLeavesNothing` | `Spec => []RefusedLeavesNothing` |
| `NothingIsLeftOut` | `Spec => []NothingLeftOut` |
| `AnswerIsShown` | `Spec => []AnswerIsWhatWasShown` |

`RanInv`: what any round ran is in `called_tools`, and the executor takes only what is
not. `VerdictInv`: before there is a verdict no part of the turn has done anything
(`Unchecked`); once it is a refusal the graph is over and its last event is the one
the reader is about to read, or has read and passed on (`RefusalKnown`). The three
parts of a turn touch different variables, so each is looked at by itself.

The reader drops text while it counts open calls, so `NothingLeftOut` depends on what is
still unread: the reply and the unread tokens together are all that the
model produced (`Complete`), and before each unread token the calls open by then will have
been closed by the end of their tools (`Clear`). Past the last event there is nothing
(`Ended`). `AnswerIsWhatWasShown` relates the stored answer to the client's events of one
kind; `Shown` says at all times that reply and drawing are those of what was sent
*and* of what is queued, so that what is stored is right, the sentence for an empty reply
included, when the sentinel is all that is left.
Filtering a stream by kind distributes over what is appended to it, by induction.

For any chats and any use of the page (`ChatPage_proofs`):

| Theorem | States |
|---|---|
| `TypeCorrect` | `Spec => []TypeOK` |
| `DrawingsHaveOneQuestion` | `Spec => []DrawingHasOneQuestion` |
| `ComposerLocked` | `Spec => []LockedWhileAnswering` |
| `LateAnswersOnly` | `Spec => OnlyLateAnswersMix` |

A drawing that was handed over is pending, attached or both (`Outstanding`), and
counts once until it is sent or dropped. `PostInv` says of every message on screen and every
answer that was asked for that its drawing was first posted with a new question of the
drawing's own chat (`FirstPost`): a list that is loaded has no other drawings, and a retry takes
its question from the screen. The other three rest on `PageInv`: the
attachment is of the selected chat or of none, and an answer that is being written and was not
disturbed is the newest, behind a locked composer, and only answers still being written have drawn
(`Undisturbed`). Each handler is shown to keep `PageInv` and to add to
the last message nothing but what its own answer, `chips` and `drawn` hold.

For a canvas of any width and any number of elements and events, on its own and
as one page of the application (`Frontend_proofs`):

| Theorem | States |
|---|---|
| `UndoImplemented`, `AppUndoIsExact` | `Spec => UndoIsExact`, `AppSpec => UndoIsExact`: the refinement of `UndoHistory` |
| `UndoOffered`, `AppUndoIsOffered` | `Spec => []UndoIsOffered`, `AppSpec => []UndoIsOffered` |

The invariant `BoardInv` has the types of drawings, snapshots and gestures (`Typed`),
without which moving by nothing would not be known to be the identity, and `Firm`: until
the history is torn one gesture at most holds elements, and a move that has moved
nothing has left the drawing as its snapshot was, which is why ending such a move may
push nothing. `UndoIsOffered` needs more of `Firm`: the end of a gesture pushes without
telling the toolbar, and is right not to only because a gesture holds elements, so
there is a history already. For that the drawing without a history is empty, and the
history starts from the empty canvas. Every handler is shown to make a board that is
`Good` (typed, firm, and related to the present board as `UndoHistory` allows), and
`BecomesGood` carries that to the next state.

For any models, keys, names, and calls in any order (`Frontend_proofs`):

| Theorem | States |
|---|---|
| `NamesAreShown` | `AppSpec => []NamesShown` |
| `MasksAreNotStored` | `AppSpec => []MaskNeverStored` |
| `SavedIsStored` | `AppSpec => []SavedMeansStored` |
| `PagesTyped` | `AppSpec => []AppTypeOK` |

The three properties are about a page at rest, and nothing in them says what a call
that is out will do to it. `NamesInv` says so for an item that is not `mixed` (`Fine`): with no call
about it the names agree; there is at most one, which the page will hear of, and it says what
it must (`Word`: a list that was read, a name that was written and a title on its way is the stored
one). `MaskInv` says that every mask on the page, in the answer of its load, and in every save that
may still be stored without being late (`Free`: none sent after it was stored, and no later
visit was served) is of a key stored under its alias (`Backed`), and that a page has no mask that
one of its saves lacks (`Carries`), so that whichever arrives, the masks left are backed by what it
stores; a page that has not loaded has none. `SaveInv` says what the server keeps (`Known`: what the
load found, or the last of the page's saves that was stored) and why a page that has loaded will show it:
a timer runs, or nothing differs (`AtRest`), or from some save of the timer on all that was sent is
what is shown, and it was stored, is unheard, or the page reports an error (`Saving`). `Visits` has the order of visits,
and `FormInv` all of these with the types of the page.
`PagesTyped` adds that a drawing which is being made or typed has room for it (`BoardRoom`).

`FrontendAssumption` gives the bounds of the model their sense: the bound on models has
room for the stored configuration and for a model that is added to an imported one, and there is a
visit. `None` stands for `null`, which is no configuration and no
list of the debug page (`NoneIsNoConfiguration`, `NoneIsNoList`).

*Induction.* The provers take no induction theorem whose parameter is an operator, so
`Loop_proofs` states induction for a *set* of numbers (`Induction`, a lemma of no interest by itself), from
the well-foundedness of `<`. `Loop` is a loop over a list with any body, as a recursive
function; `Loop_proofs` shows that it is what the recursion says (`AfterNone`, `AfterNext`), that
loops with equal steps are equal (`AfterSame`), and the loop rule (`AfterKeeps`): what
the first value has and the body keeps, the result has. Every loop in the models that a
theorem needs is an instance: the sections of an evaluation, filters, the insertion sort.

Only model-checked: the liveness properties `EveryJobSettles`, `EveryTurnEnds` and
`ComposerComesBack`, since liveness under fairness is out of the proof system's reach,
and the four statements of documents that the code does not keep.

## What is not modelled

- *Alignment scores*: floating-point similarity against a corpus, and the lock under
  which the encoder is loaded. The gate's verdict is a choice in `ChatTurn`, with every
  failure a refusal, as in the code.
- *Tools' results*: the calculator and text tools are pure and have unit tests; the
  diagram layout is geometry.
- *Start-up checks, health, memory status routes, structured log and the routes of the
  debug API*: they decide once or only observe; the debug page takes their answers as
  rows.
- *Rendering*: what a bubble, a formula, a diagram or the canvas looks like, themes,
  the formula dialog, the picture a drawing is exported to.
- *Tests, scripts, seed data, `components/ui`* (generated).
- Inside the modelled parts: token totals and model names; `retrieval_traces`,
  weights and confidence of the memory, which nothing reads; what a summary's
  text was computed from; encryption of stored keys, export and ping of settings;
  the 180 days of a refresh token, against which an access token is short; the
  sending of mail; the routes that delete subjects and chats, which neither frontend calls.

## Plan

Done, in this order: `MemoryJobs` with `JobLease` and its proofs (most concurrency,
most failures), `MemoryStore`, `LLMRouter` with its proofs, `ChatTurn`, `Session`,
`ChatPage`, `Whiteboard` with `UndoHistory`, `Settings`, `Sidebar`, `DebugPage`, their
compositions, and the proofs about them.

Left:

1. `MemoryTurn`: `MemoryJobs` and `MemoryStore` together, with the summary a job
   read before its evaluation: which updates of two workers on one scope survive.
2. An abstract `TurnContract` (asked, then refused or answered once, with the answer
   shown) that `ChatTurn` implements.
3. Two tabs of the settings page, whose saves overwrite each other.
4. Token totals of a turn with tools, and the diagram layout as operators checked
   against a reference over small graphs.
