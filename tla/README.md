# The agent runner and its clients in TLA+

A verification development of the repository's own protocol logic: TLA+ modules translated from the
TypeScript sources, TLC runs over small instances, and TLAPS proofs for every value of the constants.
Paths below are relative to the repository; `runner/` stands for `packages/civitai-agent-runner/src/`,
`chat/` for `packages/civitai-components-chat/src/`, `sdk/` for `packages/civitai-sdk/src/` and
`blocks/` for `packages/civitai-blocks-react/src/`.

The system lets an app hold a conversation with a model that calls tools. The reply runs either in the
page (browser mode) or on a server, the *agent runner* (remote mode), as a durable DBOS workflow that
survives its process. The runner is where the repository's hardest behaviour is: replies that cost
money, tools that must not run twice, processes that die in between, and three independent parties (the
run, the maintenance, the reader of its events) that may each write how a reply ended. It is modelled
first. Around it stand the page that starts and follows a reply (`RemoteAgent`), the paid workflows under
a reply's steps (`WorkflowRecovery`), the store a page keeps its chats in (`HostStore`, which implements
the abstract `ChatKeeper`), and the spends of an app block that wait for the viewer's consent
(`ConsentRetry`).

## Inventory

State, operations, interactions, hard behaviours and what makes each component correct.

| Component | State it keeps | Operations | Interacts with | Hard behaviour | Correct when |
|---|---|---|---|---|---|
| **Conversation head** `runner/head.ts` | one turn: its owner run, the user's message, the saved reply (`running`, or ended) | `startTurn`, `withProgress`, `withEnd`, `resumeOf`, `acceptsTurn` (pure) | applied by `ConversationStore.update`, one atomic read-change-write | who may write a turn after another run took it over | an ended reply stays; only the owner writes; a retry resumes from steps that answered this message |
| **Reply workflow** `runner/runner.ts` 553-1216, `progress.ts`, `emitter.ts` | workflow status, recorded steps, journal (stream `events`), inbox (`CONTROL`), markers; in memory: abort signal, messages, saved calls | `begin`, `pass`, `#failed`, Stop, forced stop, `stopByKey`, sweep, repair, `#endFromHead` | DBOS, head store, grants, AgentCore, readers | crash between any two steps; a cancelled run that goes on; saves applied whose answer is lost; five writers of one end | one `run-ended`, last; no call twice; head and journal agree; every reader hears an end; a Stop is answered |
| **Start admission** `runner/runner.ts` 379-490 | none of its own; each call's reads | `start`, `existingStart`, `liveRun`, `forget`, the enqueue retry | grants, DBOS queue (one run per user), head | same key twice at once; a head that changes after it was read; a slot that never frees | a run has its grant; nothing left behind; every call answered |
| **Run grants** `runner/interfaces.ts` `GrantStore` | run -> user's grant, and a kept end | save, forget, `markEndPending`, `pendingEnds`, mint | start, workflow, repair | lives exactly as long as its run must write | kept while the reply it must end is open |
| **AgentCore step loop** `chat/agent/core.ts` | messages, step count, resume point | model step, tool calls, stop conditions, network retry | provider, tools, the pass or the page | where a failed reply may carry on from | a resume point never precedes a call that ran |
| **Runner HTTP app** `runner/app.ts`, `service.ts` | none | routes, SSE framing of `events` with `Last-Event-ID` | runner, pages | a stream resumed after a cut | framing adds no state to the runner's own |
| **Runner infrastructure** `runner/advisory-lock.ts`, `pg-pool.ts`, test doubles | a Postgres session lock per conversation | lock, run, unlock, close a broken connection | host's stores | an unlock that fails | at most one writer; the lock is let go |
| **Remote agent** `chat/remote/remote-agent.ts`, `runner-client.ts`, `sse.ts` | `#run`, last event id, what was fired and applied, the unanswered key, generation | start with retries and give-up, follow, resync, reattach, stop with grace, leave | runner over HTTP/SSE, session, store | repeated or older events, answers for another chat, Retry after a start nobody answered | parts shown are a prefix of the journal; each report once; Stop frees the page; Retry never runs twice |
| **Workflow recovery** `chat/agent/workflow-recovery.ts` | cut requests (key -> paid workflow), at most 8 | POST, cut, read back, wait, cancel, replay | orchestration, AgentCore's retry | an abort, a wait and a cancel racing each other | two paid workflows of one step never run at once; an abandoned one is cancelled |
| **Chat stores** `chat/store/host-store.ts`, `thread-store.ts` | per-chat queue, `#deleted`, `#deleting`, generation, open chat | open, save, rename, delete, list | host's store or the document store, session | a save queued behind a delete, an open overtaken by another | a deleted chat never comes back; nothing said is lost; the newest open wins |
| **Browser agent, subagents** `chat/agent/agent.ts`, `subagents.ts`, `session.ts`, `tools/gate.ts` | the page's running reply, its children, gate decisions | send, stop, retry, spawn, wait, approve | AgentCore, stores, UI | Stop while children and a gate wait | a stopped reply runs nothing more |
| **Iframe transport** `sdk/core/transports/iframe-transport.ts`, `blocks/transport/iframeTransport.ts` | outbound queue, pending requests, snapshot, init latch | request, notify, `BLOCK_INIT`, token and theme pushes, abort | the host page by `postMessage` | messages before init, replies after an abort | each request settles at most once, with its own reply; the queue is flushed in order |
| **Document store, sign-in** `sdk/doc-store`, `sdk/sign-in`, `sdk/workflows` | none but a session | `put`/`delete` with `ifVersion`, list | the platform | optimistic concurrency is the server's | the client reports the server's refusal unchanged |
| **OAuth, idempotency, consent retry** `civitai-app-sdk/src/oauth`, `.../blocks/idempotency.ts`, `blocks/internal/withConsentRetry.ts` | in-flight consent waits by scope set, refusal latch | refresh; a spend retried once after consent | transport, host | one prompt for many callers, but one key each | a spend is retried at most once, with its first key, and not after its component is gone |
| **Blocks hooks, dev hosts** `blocks/hooks`, `blocks/internal/mockHost.ts`, `liveHost.ts` | React state | hooks over the transport | transport | unmount while a call is under way | as the transport's |
| **UI, themes, starters, scripts** | rendering | | | none of their own | out of scope |

How the runner's parts interact:

```
 page ── start(key) ──> RunStart ── saves grant, enqueues ──> DBOS queue ── Dequeue ──> Runner: begin ─ pass ─ end
   │                                                               ▲                        │      │
   ├── stop / stopByKey ── STOP in the inbox, marker, force timer ─┘                        │      ├─> journal (stream)
   └── events <── the journal, or #endFromHead when the workflow ended without an end ──────┘      └─> conversation head
 maintenance ── sweepStranded, repairPendingEnds ─────────────────────────────────────────────────────┘
```

## Modules

| Module | Models | Kind |
|---|---|---|
| `ConversationHead` | `head.ts`, as pure operators | shared data |
| `Runner` | the reply workflow, Stop, sweep, repair, readers | state machine and its properties |
| `RunStart` | `Runner.start` (379-490), several calls at once | state machine and its properties |
| `RemoteAgent` | `remote-agent.ts`: the page's half of a remote reply, with the network and what it sees of the runner | state machine and its properties |
| `WorkflowRecovery` | `workflow-recovery.ts`: paid workflows cut, read back, cancelled | state machine and its properties |
| `ChatKeeper` | what a store of chats promises | abstract specification |
| `HostStore` | `host-store.ts`: per-chat queues of saves, loads, renames, deletes | state machine, its properties, and the refinement of `ChatKeeper` |
| `ConsentRetry` | `withConsentRetry.ts`, `consentRefusalLatch.ts`, `useTip.ts`, `useCreatePostFromApp.ts` | state machine and its properties |
| `RunnerProofs` | `TypeCorrect`, `JournalSafe`, `OwnerWrites`, `EndedStays` | proofs |
| `RunnerGrants` | `GrantOutlives`, `StopIsHeard`, `HeadAndJournalAgree` | proofs, extending `RunnerProofs` |
| `RunnerCalls` | `CallsRunOnce`, `StepsAnswer` | proofs, extending `RunnerGrants` |
| `RunStartProofs` | `TypesOK`, `RunsHaveGrants`, `NoGrantIsLeftBehind`, `RunsAnswerTheTurn` | proofs |
| `RecoveryProofs` | `NeverTwo`, `OneAnswer`, `NothingIsLost`, `StopCancels` | proofs |
| `RemoteProofs` | `SentStays`, `EndIsShown`, `PartsAreTheJournal`, `EventsCount`, `ChatIsLookedUp`, `EditStays`, `RetryFinds` | proofs |
| `HostProofs` | `DeletedStays`, `HostImplementsKeeper`, `NothingIsLost`, `LatestWins`, `TypesOK` | proofs |
| `ConsentProofs` | `PaidOnceHolds`, `OneDialogHolds`, `GrantHeard`, `RetryGranted` | proofs |

`Runner` and `RunStart` both extend `ConversationHead`. `RunStart` keeps of a run only what a start
can see (begun, journaled its end, over, grant gone or kept); `Runner` keeps of a start only what the
run sees (admitted when no run is active, with a grant). The constants are declared where they are used
and each configuration gives them values; no configuration replaces a definition.

### Correspondence: `ConversationHead`

A reply's messages are the *number of steps* in them: step *i* makes call *i*, so "a reply of *n* steps"
names calls 1..*n* and a resume point is a number. A message is named by the run that brought it.
`owner` is `HeadTurn.runId`, `NoRun` the turn that has none. `note` carries the two flags of
`EndedReply` the properties tell apart (`ranOut`, `interrupted`). `EndedEvent` is `endedEvent`. `head.ts`'s
rule for turns a page wrote (a missing owner, 35-39) appears in `OwnedBy`; the page's own writes do not.

### Correspondence: `Runner`

Durable: `wf` (DBOS status), `begun` and `output` (recorded outcomes of the steps `begin` and `pass`),
`jrnl`, `mail`, `marker`, `recoveries`, `stranded` (runs left on another workflow version), `grant`, `pend`
(the end kept with a grant), `turn`. Volatile: `ex[r]`, the execution of the workflow in a process, which
`Crash` discards; `force[r]`, the timer and halves of a forced stop; `stopping` and `sweep`, calls half done.
`heard` is what a reader of the stream was told when the journal holds no end. `lineage`, `joined`,
`timesRan`, and `unsaved`, `lostEnd`, `rerun` (runs that could not save their end, or could not keep it either, or
whose pass began again over an end in the head) are history for the properties and guard nothing.

`ex[r].pc` follows the code between its awaits:

| pc | action | code (`runner/`) |
|---|---|---|
| `begin` | `BeginRead`: marker, head, retry point | `runner.ts` 707-711, 733-757 |
| `startTurn` | `BeginSave`: the update | 712-724 |
| `beginDone` | `BeginRecord`: DBOS records the step or finds a conflict | 637-641 |
| `pass` | `PassAlreadyEnded`, `PassEndsFromHead`, `PassBegins`, `PassThrows` | 764-861 |
| `running`, `endSave`, `endJournal` | `EmitStart`: the emitter's chain writes run-started, or breaks | 799-809, `emitter.ts` 57-72 |
| `running` | `AskCall`, `SaveProgress`, `SaveAnswerLost`, `RunCall`, `FinishStep`, `Abort`, `HearStop`, `CheckCancelled`, `ReplyDone`, `ReplyFails`, `ReplyAborted` | 877-1019, `progress.ts` 38-175, `core.ts` |
| `endSave` | `EndSave`, `EndSaveFails` (`markEndPending`, which may fail too) | `progress.ts` 62-80, `runner.ts` 812-823 |
| `endJournal` | `EndJournal` | 824-841 |
| `passDone`, `send`, `forget`, `return` | `PassRecord`, `SendDone`, `Forget`, `Return` | 653-669 |
| `failing`, `fail` | `FailedSave`, `Fail` | 606-634 |

Outside an execution: `SweepCancel`/`SweepEnd` (348-372), `Repair` (680-705), `ForceCheck`/`ForceCancel`/`ForceEnd`
(1093-1109), `StopByKeyMark`/`StopByKeySignal` (559-567), `EndFromHead` (1145-1178). Each half of an operation
that awaits in between is an action of its own, so everything else may happen there. External behaviour, modelled
from how the code uses it: DBOS records a step and appends to a stream only for a run still `PENDING`; a cancel
does not stop the process, which notices later; `Recover` does not run recorded steps again; an `update` of the
head is atomic, needs some grant of the conversation to act with, and may be applied although its caller saw it fail.

### Correspondence: `RunStart`

`call[c].pc` follows `start` between its awaits: `existing` (400), `saveRetried` (401-405), `live` (406),
`saveGrant` (410), `load` (421), `enqueue` (461), `dupExisting` and `dupLive` (477-484), then `forget` and
`delete`, the two halves of `forget` (411-414). `Throws` is any of these calls failing where it stands (a failing forget
is swallowed at 423 and 474, which changes what is answered and not what is left); a save of the grant, an enqueue or a
delete may also fail after it took effect. `request[k]` is what a start with key *k* asks, the same in every
call with that key. DBOS's queue takes one active run of the user and answers for a workflow that
exists. The runs go on beside the calls: `Dequeue` sends the update of their `begin` on its way (`beginning`), `Begin` lands it,
which for a run cut off meanwhile may be when the next one was enqueued; `End`, `ForgetGrant`, `Return`, `CutOff`.

### Correspondence: `RemoteAgent`

Of a chat the latest turn counts (`turn`, with what it shows and the key kept for its Retry). `run` is
`#run` with `#live.parts`; its `phase` follows the code: `asking` and `pausing` (the loop of `#start`,
364-383), `following` (388-441), `ending` (`#finish` until the head was read, 531-550). `back` is the
reading of the head (`#reread`), which may outlive the run it belongs to; `lookup`, `next` are `#attaching`
and `#attachNext`, `over` is `#ended`. On the way are `starts`, `answers` and `stops`: each may be delayed,
and a start, its answer, or both may be given up on (`AskFails`, `GiveUp`) and arrive later. The runner is one record per
key (`job`), with the marker a stop by key leaves (`marks`) and the latest saved turn of each chat (`head`); its actions are
what `Runner` and `RunStart` show of it: one run of a conversation at a time, a retry refused when its words are not the head's,
a begin that takes the turn, an end saved before or, when that save failed, after it is journaled. One event between
`run-started` and `run-ended` stands for a part, a tool's report and a model retry at once, since each takes its own way
through `lastEventId`, `firedThrough` and `appliedThrough`. `Hear` takes the next event or one that was read before, which
`#accept` passes over (444). A turn may be edited any number of times; `turn.edit` is `#edited`, which any answer that started a
run takes for taken, whichever start of the turn it answers (369). A dropped stream resumes after `lastEventId` and changes no
state; timers, waits and wakes are not modelled because every timer may fire at any time.

### Correspondence: `WorkflowRecovery`

An asker is one caller of the wrapped fetch with one body and one abort signal, called again after each cut; two askers
of one step are a reply and its Retry, or two subagents given one task. `cut` is the map of cut requests in insertion
order, `hears` the abort listeners that `dropped` adds (180-189), `cancels` the cancels on their way. `asker.pc` follows
the code between its awaits: `reading` (127), `pausing` (145), `cancelling` (141), `posting` and `posted` (before and under
the `await` of the POST's headers, 174), `streaming` (`track`), `waiting` (the caller's own pause before it asks again).
`late` is `Date.now() >= deadline`: the time passes whenever it does (`TimeIsUp`), and is looked at only after a read
(`ReadLive`). A Stop in `posted` leaves a workflow that runs and has no name (`unnamed`). `KEEP_MS` is a fault.

### Correspondence: `HostStore` and `ChatKeeper`

A copy is a `Conversation` object the page made: a reply ends in the copy it was asked in, wherever the viewer is by
then (`#owners`). A step of a chat's queue has been asked for, is under way (its `call` is what it read or writes), or
is gone; a save's record is built as its turn comes (`Built`). `newest` is the comparison of `#generation`. A call that
fails may have been done. What was said stands for messages, replies, titles and models alike.
`ChatKeeper` knows what was said, what is on record, and which chats the page was told are gone: a write adds to a
record and never takes from it, and no chat that is gone is written. `HostStore!KeepsChats` is `Keeper!Spec` under
the mapping `said <- told`, `kept <- store[c].said`, `gone <- deleted`.

### Correspondence: `ConsentRetry`

A call is one use of `tip()` or `createPost()`; `pc` is where its `withConsentRetry` stands. `waits` is
`inFlightConsentWaits`, `latched` the one-slot refusal latch with the token it was heard under, `pushes` what the host
posted and the page has not handled yet. A tip goes to the server with the bearer read as it is sent (`useTip.ts` 184); a
post goes through the host, which checks the newest token it minted. A tip's answer to a key served before is a replay; a
post has no key. Every hook needs one scope, so one scope stands for the set of missing ones.

## Runs

All configurations say `CHECK_DEADLOCK FALSE`: the runs and calls are bounded, and the system stops
when they are over. Bounds on what the outside does are constants: `MaxCrashes`, `MaxFaults`, `StopRuns`,
`NumCalls`, and `Happens`, the outside events an instance contains (a stop by key, DBOS's timeout, the
reply's deadline `ran_out`, a tool that pauses the reply, one upgrade).

| Run | Instance | What it shows |
|---|---|---|
| `Runner_crash` | 2 runs of a turn, 2 steps, 1 crash, 1 fault, 1 recovery, deadline, upgrade; 2.3M states | `JournalEndsOnce`; `NoCallRunsTwice`; `GrantOutlivesReply`; `HeadAgreesWithJournal`, with a crash between any two steps, run-started written late or never, an end that cannot be saved or kept |
| `Runner_stop` | 2 runs, 2 steps, 1 recovery, a viewer who stops run 1 by key, DBOS's timeout of it; 5.5M | `StopByKeyIsNotLost`; `EndedReplyStays`; `OnlyTheOwnerWrites`, with a cancelled run still going beside the retry |
| `Runner_retries` | 3 runs (new, retry, edit in any order), 2 steps, 1 fault, 1 recovery, pause; 2.8M | `StepsAnswerTheMessage`. Three runs are the fewest in which an edit stands between a run that left steps and one that would take them |
| `Runner_live` | 1 run, 2 steps, 2 crashes, 1 fault, 1 recovery, Stop, upgrade; 0.6M, with fairness | `TypeOK`; `StopIsAnswered`; `EveryRunIsAnswered`; `EveryReplyEnds` |
| `RunStart_calls` | 3 calls, 2 keys, 1 more try, 1 fault; 1.3M, with fairness | `TypeOK`; `RunHasGrant`; `NoGrantLeftBehind`; `AnswersTheTurn`; `EveryCallIsAnswered`. Three calls: two with one key, and one whose run moves the turn |
| `RemoteAgent_start` | 1 chat, 2 keys and another device, 1 ask of a start, any number of edits and stops; 3.8M | `SentTurnStays`; `EditIsNotDropped`; `RetryFindsItsRun`. Two keys: the one given up on and the one after it |
| `RemoteAgent_chats` | 2 chats, 2 opens, 1 key, 1 event, 1 fault, stop; 2.3M | `EventsCountOnce`; `OpenChatIsLookedUp`. Two opens: the one that is looked up and the one that comes meanwhile, of the same chat or another |
| `RemoteAgent_follow` | 1 chat, 1 key, 2 asks, 2 events, 2 faults, stop; 27k, with fairness | `ShownIsTheJournal`; `SettledEndIsShown`; `ReplyLetsGo`; `StoppedStartEnds`. Two events can be out of order; two faults are a resync and a lost run, or a failed read |
| `WorkflowRecovery` | 2 askers, 2 steps, 2 workflows, one entry kept, 2 faults; 0.5M, with fairness | `NeverTwoAtOnce`; `AnsweredOnce`; `NoneIsLost`; `StoppedIsCancelled`; `RecoveryEnds`. One entry kept makes two steps push each other out |
| `HostStore` | 2 chats, 3 copies, 3 things said, 2 opens, deletes or listings, 1 fault; 0.6M | `TypeOK`; `DeletedStaysGone`; `LatestOpenWins`; `NothingSaidIsLost`; `KeepsChats`. Three operations asked for (4.5M) show nothing new |
| `ConsentRetry` | 2 tips, 1 post, 3 tokens, every set of scopes held and barred, tips alike; 1.4M | `PaidOnce`; `OneDialog`; `GrantIsHeard`; `RetryHasTheGrant`. Three tokens: one without the scope, one that grants it, one that takes it back |
| `Runner_stale_retry` | finding | `NothingRunsTwice` is violated |

Why the bounds are enough to see the interesting cases: two steps give a reply that was carried on from a step before
its last; one fault is one half-applied write, one failed journal write or one failed database call at any place, an
end that can neither be saved nor kept among them; two crashes with one recovery (`Runner_live`) reach both a second
recovery's end (`EXCEEDED`) and a recovered run that dies again, one crash (`Runner_crash`) every recovered pass. What
two runs of a turn can do to each other needs one that lost the turn and one that owns it. They do not show
interactions of three processes crashing beside three retries.

### The properties

- `JournalEndsOnce`: a pass that runs again after it journaled its end, and before DBOS recorded it,
  neither ends the reply again nor writes after it.
- `NoCallRunsTwice`: however often a pass runs again, and whichever retry carries the reply on, no call
  of it runs twice, with the exceptions the findings below are about named in the antecedent: a retry that carried on from
  outdated steps (`stale`), an end that was kept, since its repair may write fewer steps over those of a pass that ran
  again (`unsaved`), and a reply that had ended and ran again (`rerun`).
- `GrantOutlivesReply`: the grant is there as long as someone has to write the reply's end with it,
  except where the workflow threw, where the end could be neither saved nor kept with the grant (`lostEnd`; both a finding),
  or where its begin took the turn after its cancel.
- `HeadAgreesWithJournal`, `EndedReplyStays`, `OnlyTheOwnerWrites`: five writers of an end (the pass, a
  forced stop, the sweep, the reader, the repair) leave one end, the one journaled. The agreement is of status and messages,
  since run-ended's `steps` come from the outcome (825) and a reader's from the messages (`head.ts` 172); it is of runs that
  saved their end and did not run again after it (`unsaved`, `rerun`).
- `StopByKeyIsNotLost`: whatever the order of the marker's write and the start it races, the run either
  read the marker or was sent STOP.
- `StepsAnswerTheMessage`: the steps carried on answered the message the turn shows, unless the head had moved on from
  them by the time they were written (`lineage.late`, see Findings). With a viewer who stops run 2 and no fault,
  `StepsAnswerTheMessage` and `NoCallRunsTwice` also hold of three runs (11.8M states), too many for a configuration
  kept here.
- `RunHasGrant`, `NoGrantLeftBehind`, `AnswersTheTurn`: an enqueued run can read and write its head, a start that ran
  nothing leaves nothing, a run answers the message on show. Excepted by name are runs whose grant a twin took back
  (`raced`), calls that threw with the grant saved, in its save, or in the forget (`left`), and runs whose turn
  changed between their start's look at it and their own begin (`moved`): each is a finding.
- `SentTurnStays`: nothing the viewer sends lands on a chat that is being replaced by the head read after a
  reply. It excepts a read that outlived `REREAD_TIMEOUT_MS` (`odd` has `late`): the comment of `#finish` (527-530)
  knows no such exception, the code has one.
- `EditIsNotDropped`, `RetryFindsItsRun`: whatever edits, stops and late answers came before, the run a page follows
  for its turn is the run of the words the turn shows; the key kept after a start that was given up on is the run's
  whose words the turn shows, and is used by the Retry that would else be refused by that very run. A start that was
  stopped since is not one given up on: nothing was kept of it, and its run may stand in the way until the stop
  reaches it.
- `EventsCountOnce`: over resyncs and reattaches every report is announced, and every retry kept, once. It excepts a
  run followed again from a lookup answered before, or by a key kept from before, its latest report was announced
  (`odd` has `again`): both start from an older `lastEventId`, or from none.
- `OpenChatIsLookedUp`: whatever is opened while a lookup is on its way, the chat that stays open is looked up.
- `ShownIsTheJournal`, `SettledEndIsShown`: the parts shown are rebuilt from the journal, and a head that is behind
  does not undo the end the journal told. (A reply the journal ended in error may still read back as cut off, with the
  other error text: 576 against the comment at 553-556.)
- `ReplyLetsGo`, `StoppedStartEnds`: whatever hangs, the page becomes free after a Stop or an end, and a start stopped
  before its answer does not leave a run going.
- `NeverTwoAtOnce`, `AnsweredOnce`, `NoneIsLost`, `StoppedIsCancelled`: the viewer does not pay twice for a step, or
  for an answer nobody reads. They except the workflows in `excused` (a read the orchestrator refused, a cancel lost,
  an answer without a workflow id, an entry dropped after `KEEP_MS` or by `KEEP_MAX`, one step cut twice side by
  side), `taken` (recovered by an asker other than its own, which leaves no abort listener for it) and `unnamed`
  (stopped while its POST waited for its headers, a finding).
- `DeletedStaysGone`, `LatestOpenWins`, `NothingSaidIsLost`, `KeepsChats`: see `ChatKeeper`. They except chats in
  `rivals`, written from two copies side by side, where each save writes the whole chat.
- `PaidOnce`, `OneDialog`, `GrantIsHeard`, `RetryHasTheGrant`: the money rule of `withConsentRetry.ts`, for any order
  of grants, refusals, rotations, timeouts and unmounts.

`PROJECT.json` pairs each property of each passing run with a plausible slip in a modelled definition (a
dropped guard, a wrong status, a retry without a limit) under which TLC finds the property violated. The slips stand
in the modules as operators the specification never uses, each named for the guard it weakens.

### Fairness

`Runner!FairSpec` assumes only what happens outside the processes that run replies: the timer of a Stop
and the second half of a stop by key (a live API process), the maintenance timer (`startMaintenance`,
260-297), and a client that reads its stream to the end (`events` re-polls until an end, 524-551). A process
that runs replies may hang for ever: `StopIsAnswered` holds even so, which is what the forced stop is for.
`EveryRunIsAnswered` and `EveryReplyEnds` need those processes to go on, and say so as their antecedent,
`ProcessesGoOn`: the queue hands out runs, an execution takes its next step, and DBOS recovers pending runs
at launch. No start, Stop, crash, fault or outside event is fair. `RunStart!FairSpec` is weak fairness of each
call's next step; the runs have none, so a run that ended and never frees its slot is covered by the bounded
number of tries (`ENQUEUE_ATTEMPTS`).

`RemoteAgent!FairSpec` assumes that the page's timers fire (`STOP_GRACE_MS`, `REREAD_TIMEOUT_MS`, the reconnect
waits), that what arrived is handled, that a stop gets through within `STOP_ATTEMPTS` (20 tries, `remote-agent.ts`
61), and that the runner begins what it queued and ends what it was told to stop, which `Runner_live` shows of it. A
start, a lookup, or the read of a head may hang for good. `WorkflowRecovery!FairSpec` assumes only that time passes,
that the pause between two reads ends, and that an asker whose cancel came back goes on. That the reads and the cancel
come back at all is the network's part, since neither has a timeout (`provider.ts` 59-62) and the deadline is looked
at after a read: `RecoveryEnds` has it as its antecedent, `CallsComeBack`. No workflow or stream need ever end.
`HostStore` and `ConsentRetry` have safety properties only; the 60 seconds a consent wait lasts at most are not stated
as liveness.

`EveryReplyEnds` excepts what the code leaves open: a run whose workflow threw, whose begin came late or whose end could be
neither saved nor kept (the findings), and a cut-off run where the single attempt of the path that cut it off failed.

## Proofs

Each theorem holds for every value of its module's constants, from the named assumptions alone: `ConstantsAssumption`
and `BoundsAssumption` (naturals, at least one run and one step) for the runner, `ConstantsAssumption` and
`StartAssumption` (naturals) for the starts, `RecoveryAssumption` (an asker, a step, room to keep at least one cut
workflow; naturals) for the workflow recovery, `RemoteAssumption` (the bounds are naturals, what happens to the page
is one of `OutsideEvents`, the other device's key is 0) for the remote agent, `HostAssumption` (the bounds are
naturals) for the host store, `ConsentAssumption` (at least one token; a call is a tip or a post, not both) for the
consent retry. The bounds stay in the model as guards, so "every value" means however often things are asked for, fail
or crash. Every inductive invariant below was an invariant of a TLC run before it was proved.

- `RunnerProofs!TypeCorrect`: `Spec => []TypeOK`. `TypeOK` is not inductive: finishing a step lowers the
  count of steps, and saving an end copies the reply a pass holds. The invariant `TypeInv` adds
  `ExecutionsSound`: a call in flight belongs to a step (the count is positive), and a pass that saves or
  journals an end has one. One lemma per group of variables or actions; the operators of
  `ConversationHead` have lemmas of their own that give the type of what they return.
- `RunnerProofs!JournalSafe`: `Spec => []JournalEndsOnce`. Inductive with `PassingIsOpen`: an execution
  between the first read of its pass and its journal entry has a journal without an end. It is why the
  order of the checks at the head of `#pass` (770-785) matters: nothing else stands between a recovered pass
  and a second end. Three actions append to a journal, each to one without an end.
- `RunnerProofs!OwnerWrites` and `RunnerProofs!EndedStays`: `Spec => OnlyTheOwnerWrites` and `Spec => EndedReplyStays`.
  Two facts of every step carry both: a step is of one run (`OnlyActs`), and it changes the turn only by a begin, which
  takes it (`Takes`), or by a writer for which `WritableBy` held (`WritesOwn`). That is `writableBy` of `head.ts`, in
  every action that writes a reply. `OwnerInv` adds what `Later` needs: a saved turn has an owner, which was
  started; runs start in order, each when those before it are over (`InOrder`); nothing is executed that was not
  started. `OwnerInv` is inductive because a status only moves forward (`StepsForward`).
- `RunnerGrants!GrantOutlives`: `Spec => []GrantOutlivesReply`. That a run with an open reply has its grant or is
  excused (`GrantToEnd`) is not inductive: `#forget` looks at no head, only at whether an end is kept. `GrantInv` adds
  why it may: whenever a pass is over, by its journal, its record or the place its execution is at, the reply has
  ended, its end is kept with the grant, or it is one the property excepts (`EndWritten => Settled`); what was lost
  stays lost (`LostGrows`). That in turn rests on the order of the recorded steps (`InStepOrder`: `begin` before
  `pass` before the end), on a run's grant being there until its `begin` is recorded (`GrantForBegin`), and on whoever
  ends a run from outside doing so once it is over (`CutIsOver`), so that a `begin` that comes after is one the
  property excepts.
- `RunnerGrants!StopIsHeard`: `Spec => []StopByKeyIsNotLost`, by `StopInv`: an active run whose stop by key is over has STOP
  in its mail, or has not begun and a `begin` of it that read the marker read that it was set. The stop sets the marker
  before it looks for the run, and the run's `begin` reads it after it is there to be found.
- `RunnerGrants!HeadAndJournalAgree`: `Spec => []HeadAgreesWithJournal`. The pass ends the reply in the head and then
  in the journal, and between the two it may die, be cancelled, or find that another writer was first. `HeadInv` says
  what the head holds of a run's reply wherever its pass stands: none ended while the pass goes on (`PassIsOpen`), the
  end the pass is about to journal (`EndToJournal`), the journaled one after (`EndedAlike`). A pass that runs again
  writes the head's end to its journal, which is the one it holds; a pass that found an empty journal, because
  run-started was late or lost, may run a reply that had ended again, and is then one of those the property excepts
  (`Odd`: its end was unsaved, or it ran again). `HeadSound` says the rest of every other run. `KeptIs` ties a kept
  end to a save that failed.
- `RunnerCalls!CallsRunOnce`: `Spec => []NoCallRunsTwice`. A call runs once a save that names it has landed, so the
  steps a save wrote are the most that can have run, *if* every place a reply may be carried on from is at least as
  new as every save of every process that may still act on it. `CallsInv` says so place by place: the head's steps
  (`HeadCovers`), those of a pass that can still save (`PassCovers`), the end it is about to save (`PauseCovers`) and
  the point a failed run leaves to its retry, in memory or recorded (`LeftCovers`) each cover all the calls that ran
  and all that may still run, the calls of a run that was cancelled and whose process does not know it included. Those
  have no counterpart in the property: without them a retry's save is followed by the cancelled run's. `Clean` is the
  property's premise; while it holds `CallsSound` is inductive over `HeadInv`. A lost end is an unsaved one
  (`LostIsUnsaved`), so that `Clean` excludes what `GrantInv` excuses for it.
- `RunnerCalls!StepsAnswer`: `Spec => []StepsAnswerTheMessage`, by `Basics` of the same invariant: only a retry carries
  steps, the lineage of the turn is the one its owner joined, and it answered the message the turn has.
- `RunStartProofs!TypesOK`: `Spec => []TypeOK`. With `CallsAsk` and `RunsWereAsked`: what is asked with a key has a
  message before any call or run uses it, so that a `begin` gives the turn one.
- `RunStartProofs!RunsHaveGrants`: `Spec => []RunHasGrant`. An enqueue looks at no grant and a delete at no run, so
  `GrantInv` carries both sides of the race: a call that starts its run has the grant there still (`StartingHasGrant`), and
  a call about to delete a grant whose run exists is one that raced (`DeletingARunRaces`), since it had found none.
- `RunStartProofs!NoGrantIsLeftBehind`: `Spec => []NoGrantLeftBehind`. `GrantIsHeld`: a grant without a run is held by
  a call between its save and its enqueue or delete, or was left by one that threw there; whoever else leaves that
  stretch made the run, or takes the grant back.
- `RunStartProofs!RunsAnswerTheTurn`: `Spec => []AnswersTheTurn`. A call past its read of the head was accepted by the
  head it read (`LoadAccepted`), a run that waits, in the queue or in its `begin`, suits the turn as it is now
  (`QueuedSuits`), and only one run is active (`OneActive`), so that nothing changes the turn between but its own
  `begin`, or the late one of a run cut off; a run that waits when such a one lands, or whose head changed between its
  read and its enqueue, is `moved`.
- `RecoveryProofs!NeverTwo`, `OneAnswer`, `NothingIsLost`, `StopCancels`: `Spec => []NeverTwoAtOnce` and its fellows,
  from one invariant, `RecoveryInv`. `cut` is a map (`Keyed`) of workflows posted for the steps they are kept under
  (`CutIsPosted`), and until it is answered a workflow is posted, streamed or read by one asker, or kept
  (`InOnePlace`): that is `AnsweredOnce`, and it is why `recover` deletes the entry before it reads. `CancelWasSent`
  gives `NeverTwoAtOnce`: what an asker waits to see cancelled was sent a cancel, so when that came back the workflow
  is over or excused. `StoppedIsCancelled` needs to know whose Stop reaches a kept workflow: its poster's, by the
  stream, the listener that `dropped` left, or because it was stopped already (`PosterHears`); a Stop while the POST
  has no answer reaches none. The lemmas about `Without` and `Remember` say which entries a delete and a full map
  leave.
- `HostProofs!DeletedStays`: `Spec => []DeletedStaysGone`. A delete waits in the chat's queue, so that what is kept of
  a chat depends on the order of the steps behind it. Steps may still be queued for a chat that is gone, and are
  refused as their turn comes: `HostInv` has that only the first step of a queue has a call, which is of a chat that
  is not gone and takes nothing from its record (`StepsRight`), and that what is listed or on record has a copy
  (`Owners`). `OneWriter` and `RenamesLast` are for the other two theorems: of a chat without rivals one copy is
  written at a time, it has all there is on record, and a rename of the record comes after that copy's saves.
- `HostProofs!NothingIsLost`: `Spec => []NothingSaidIsLost`, by `AllFresh`: a copy that has something not on record has
  a save queued that will build its record later, or is busy, or its save failed. A call under way carries all its copy had
  when its turn came; what is said after has its own save behind it.
- `HostProofs!LatestWins`: `Spec => []LatestOpenWins`, by `OpenInv`: at most one step of all queues is the newest, it is
  a load of the chat last asked for, and while there is none the chat on show is that one.
- `HostProofs!HostImplementsKeeper`: `Spec => KeepsChats`, the refinement for every instance. From `HostInv` each action
  is one of the keeper's (`Say`, `Write`, `Delete`) or changes none of its state; a write that took something from
  a record would need two writers, or a rename before a save.
- `HostProofs!TypesOK`: `Spec => []TypeOK`. Its last conjunct, that `#deleting` counts the deletes in a chat's queue,
  is `Counted`: a cardinality, with lemmas for a queue that grows, loses its first step, or has its loads superseded.
- `ConsentProofs!PaidOnceHolds`: `Spec => []PaidOnce`, the money rule. The two kinds of spend need different parts of
  `ConsentInv`: a tip was carried out at most once because the server that served its key replays (`TipsReplay`), and
  a post because its request is the only one there is and it waits for consent only when it was refused
  (`PostsAreFinal`). `OneRequest` and `OneAnswer` are what makes those inductive: an attempt is on its way or
  answered, not both, and whoever is answered still listens. `OneDialogHolds`, `GrantHeard` and `RetryGranted` are
  conjuncts of the same invariant.

- `RemoteProofs`: the seven properties of `RemoteAgent`, from one invariant, `RemoteInv`. The page holds little of its
  own, so each part says what it knows of the runner from messages that may be late. `SentStays` needs `ReadIsLate`: a
  head that is read while no reply ends was let go of by its timeout. `EndIsShown` needs `Unsettled`: while a reply of
  the page's own start goes on, its turn has no settled end. `PartsAreTheJournal` and `EventsCount` rest on
  `JournalInv` and `CountInv`: what was applied and kept is the journal up to one place, never behind the event read
  last, and nothing of the run followed was announced beyond `firedThrough`. `ChatIsLookedUp`: a chat not looked up
  yet is the one that waits behind a lookup of the chat left before it (`LookupInv`). `EditStays` is the one that
  looks furthest: `WordsInv` says with which words a key can have been asked for, of a start, an answer or a run that
  is still on its way, and what the page shows while it waits. It does not need `#edited`: what a late answer clears
  changes the kind of the next start, never the words asked with a key. `RetryFinds` adds `GivenInv`: at most one
  start stays given up on, and it is the one whose key the page asks with or keeps. Proving it showed that `given` was
  too wide: a start the viewer stopped is not one given up on, and its run, cancelled by the stop, may stand in a
  Retry's way for a while.

Model-checked only: liveness (`StopIsAnswered`, `EveryRunIsAnswered`, `EveryReplyEnds`, `EveryCallIsAnswered`, `ReplyLetsGo`,
`StoppedStartEnds`, `RecoveryEnds`), as the prover does not reason about fairness and `ENABLED`; and the disagreements
under Findings, which TLC refutes. Every safety property a passing run checks is a theorem.

## Findings

`Runner_stale_retry` is the run of a real disagreement: `head.ts` 132-136 promises that a retry repeats no call, and a
retry that saves the steps it read before a cancelled run saved one more makes that call again (`runner.ts` 710-724).
Its trace is told in `PROJECT.json`.

Eleven more disagreements of the code with its comments are stated as properties of the modules, next to the exceptions
that the checked properties make for them. Each is violated when TLC is given the property and the instance:

| Property | Instance | What the code does |
|---|---|---|
| `Runner!OwnerAdvances` | 2 runs, 2 steps, no crash or fault, 1 recovery, `StopRuns = {1}` | a `begin` under way when its run is cancelled takes the turn back from the retry (712), against `head.ts` 32-35 |
| `Runner!GrantGoesWithTheEnd` | that of `Runner_crash`, or 1 run with 2 faults | a workflow that throws forgets its grant though the write of its end failed (629), and so does one whose end could be neither saved nor kept with the grant (818-823, 663), against `interfaces.ts` 184-188 |
| `Runner!EndIsNotRunAgain` | that of `Runner_crash` | a process dies after the head has the end and before its emitter wrote run-started (fire-and-forget, 799): the pass runs again, since only a journal that began has the head's end looked at (781), and journals another end; against 773, "the end is not run again" |
| `Runner!NothingRunsTwice` | 3 runs, 2 steps, 1 fault | a retry takes the resume point of an older run than the one that failed last (741), against 732: a call runs twice |
| `Runner!StepsAlwaysAnswer` | 3 runs, 2 steps, no crash or fault, `StopRuns = {2}` | a retry cancelled between reading its steps and writing them writes them under the message of the edit that began meanwhile (712), against 751-752 |
| `RunStart!EveryRunHasGrant` | 2 calls of one key, one refused | a refused start deletes the grant of the run its twin enqueues meanwhile (413), against 411 |
| `RunStart!NothingLeftBehind` | that of `RunStart_calls` | a save of the grant that throws after it took effect (410), a failing `#existingStart` or `#liveRun` after a refused enqueue (478, 481), or a failing forget (423, 474) leave the grant of a run that was never made, against 411 |
| `RunStart!EveryRunAnswersTheTurn` | 2 calls, an edit and a retry | the turn changes between a start's check and its enqueue (434), against 428-430 |
| `RunStart!RefusedRanNothing` | 2 calls of one key | a start asked twice at once is refused although its run was started (407), against `remote-agent.ts` 639 |
| `WorkflowRecovery!EveryStoppedIsCancelled` | that of `WorkflowRecovery` | a Stop while the POST waits for its headers (174) leaves the workflow running, unnamed and not cancelled, against the file's header (16-17) |
| `RemoteAgent!RetryAsksTheEdit` | that of `RemoteAgent_start` | an edit is stopped before its answer and made again; the late answer of the first start clears `#edited` of the second (369), whose Retry is then sent as a plain retry and refused as a stale turn, against 167-171 |

## Not modelled, and why

- In `Runner`: the `parts` events between start and end (they change no decision of the runner; their order
  and repetition matter to the page, with `RemoteAgent`); several calls in one step (a step's calls are saved and run
  under the same rule, so one stands for them); run-ended's `steps` (a count of its own, 825, which the page keeps
  as the count of a resume, `remote-agent.ts` 514); the hand-over of runs to another executor that enqueues them again; cleanup,
  patch and lookup; the expiry of grants, which would let any end go unwritten. `withPatch` touches no turn.
- In `RunStart`: refusals before any state is touched (`startRefusal`, the kind of grant); other users. The two
  reads of `#liveRun` are one step. A retried start's save of the grant may land after its run forgot it, which leaves the
  grant until it expires; the model has that behaviour and no property forbids it.
- The page's own mode, `head.ts` 35-39: a page that takes a turn back drops its owner; no runner action does.
- In `RemoteAgent`: the status line (`#down`), waits and `wake`, `dispose`, a new chat, `features` (the runner takes
  edits), a stop that is lost in every attempt; whether a head holds more than the page kept (`holdsMore`) is left
  open. Opening a chat is one step, although `session.ts` 491-496 awaits the store between leaving one chat and
  looking up the other (a send during that await, which the page's input does not offer, would go to the chat just
  left, and the lookup be skipped, `remote-agent.ts` 274); `reloadConversation` (504-513), which reads the open chat
  again when no reply runs, is left out.
- In `WorkflowRecovery`: the stream rebuilt from an answer (`replay`) beyond that it may be impossible; the number of reads.
- In `HostStore`: remote mode (the runner writes; it has `rename` in the same queue), posts and panels (kept for the page
  only), paging, `editUserTurn` (something said, saved as a message is). Known and excepted: a rename of a chat that is not
  open while a reply of it runs is overwritten by that reply's save; a title given to a chat without a message is not kept.
- In `ConsentRetry`: `signInRequired`, an error that no retry follows, is a plain one; sets of several scopes;
  `autoRequestConsent: false` (a plain attempt); the other hooks that call through the helper (a purchase and a
  workflow's submit carry a key as a tip does); an app's own `useRequestConsent`. A second refusal overwrites the
  first in the latch, so a refused scope may be asked for again; an unmounted caller whose post fails may still open a
  dialog (`isActive` is read only before the retry). No property forbids either, and neither retries.
- Every other component of the inventory, for now (see the plan), and for good: UI, themes, starters,
  build scripts, generated types, development hosts. Those are most of the repository's lines: what is modelled is where
  its state is shared by several actors.

## Plan

`RemoteAgent`, `WorkflowRecovery`, `HostStore` with `ChatKeeper`, and `ConsentRetry` came after `Runner` and `RunStart`.
What is left, in order of importance:

1. `ReplyContract`: what the runner promises (a reply is open, then ended once, by its owner, and its
   calls run at most once each) as an abstract specification, and `Runner` shown to implement it; then `RemoteAgent` over that
   contract in place of its own runner.
2. `IframeTransport`: init, queue, requests, aborts, token pushes before init; under `ConsentRetry`, which takes an ordered
   channel for granted.
3. `ThreadStore`'s own saves, and the remote mode of both stores against the runner's patches.
4. `AdvisoryLock`: one writer, and a broken unlock.

Proofs next: that `Runner` implements `ReplyContract`, over `CallsSound` and `HeadInv`; and the parts of `RemoteInv` that
speak of its own runner, over the contract.

## Running it

`tlc -workers 2 -config Runner_crash.cfg Runner.tla` (each configuration is named after its module), and `tlapm M.tla`
for each module *M* of proofs: `RunnerProofs`, `RunnerGrants`, `RunnerCalls`, `RunStartProofs`, `RecoveryProofs`,
`RemoteProofs`, `HostProofs`, `ConsentProofs`. Each call checks that module's own theorems.
