# TLA+ models of py-claw

py-claw is a Python implementation of a coding agent: a model is asked, it
answers with text or with tool calls, the tools run under a permission scheme,
and their results go back to the model until it gives a final answer. This
directory models the parts of it that keep state over several steps and several
actors, checks them with TLC on small instances, and proves their safety
properties with TLAPS for every instance.

All paths below are relative to `src/src/py_claw/`.

## 1. Inventory

### 1.1 The conversation core

| Component | State | Operations |
|---|---|---|
| Query engine, `query/engine.py` (`QueryRuntime`) | transcript, session id, turn count, saved sessions and compact snapshots, count of entries already in the session file, in-progress flag, active turn state, active message, cancelled messages; the interrupt event of `RuntimeState` | `handle_user_message`, the tool loop, permission flow, `rewind_messages`, `restore_session_state`, `replace_transcript`, compact snapshots, `interrupt`, `cancel_async_message`, `clear_session` |
| Compaction, `services/compact/{compressor,grouping,manual_compact,message_compat}.py` | none of its own; replaces the transcript | group by API round, summarise, keep the last round |
| Session writer, `services/session_storage/writer.py` | one JSONL file per session | `append_session_entries` |
| Stream-json and print hosts, `cli/main.py`; `cli/control.py` | stdin, pending control requests | read loop, control requests, permission channel |
| Terminal UI, `ui/textual_app.py` | current worker, pending dialogs | submit, Esc, new session, worker threads, dialogs |
| Slash commands, `commands.py` | none; act on the engine | about seventy handlers |
| Backends, tools, hooks, MCP | outside processes and services | called by the engine; each may return, fail or raise |

A host hands each user message to the engine. The engine runs the whole turn
inside `handle_user_message`: the returned `_StreamingList` exhausts the turn's
generator when it is built, so a host sees no output before the turn is over
(the method's docstring calls the list lazy). During the turn the engine calls
the backend, the permission callback or channel of its host, and the tools. The
interrupt event is the only way to talk to a running turn. In the stream-json
host the same thread reads control requests, so an interrupt is seen between two
turns only; in the terminal UI the turn runs in a worker thread and keys are
handled meanwhile.

Hard behaviours: several worker threads share an engine without a lock; the
interrupt is a single flag that every turn clears when it starts; the transcript
exists in three copies (the engine's, the turn loop's, the saved session's) and
a fourth, partial one on disk, counted by an integer; a turn may end at any of a
dozen places, through three nested generators with `finally` blocks; compaction
and rollback replace the transcript under a turn.

What makes it correct: every request sent to the model is complete and pairs each
tool use with its result; a turn ends, says so once, and leaves nothing behind;
the tool loop is bounded; an interrupt stops the turn it was meant for; sessions
can be resumed and their files hold the conversation.

### 1.2 Carrying messages in and out

| Component | State | Hard | Correct when |
|---|---|---|---|
| `cli/main.py` (`_run_stream_json`, `_StreamJsonPermissionChannel`), `cli/structured_io.py` | stdin shared by the main loop and the channel, the channel's buffer, pending and completed requests | a turn reads stdin in the middle of the loop's iteration; late, duplicate and canned answers; a host that closes | a call is allowed by its own answer only; the end of the host ends the program |
| `cli/transports/serial_batch.py`, `hybrid.py` | queue, drain task, back-off timer, waiting flushes; stream buffer and its timer | retries regroup batches; a failed POST may have arrived; close with a POST in flight | order kept, nothing dropped silently, limit kept, flushes return |
| `cli/transports/worker_state.py`, `ccr_client.py` | one patch in flight, one pending | patches merged while one is sent or retried | the last state arrives, never an older one after it |
| `cli/transports/websocket.py` | state, connection, receive loops, timers | `connect`, loops, `send`, `close` and timer act on one state across awaits | "connected" means that somebody listens |

### 1.3 Services a turn uses

| Component | State | Hard | Correct when |
|---|---|---|---|
| `permissions/`, `tools/runtime.py` | rules, modes, tools allowed for the session | precedence; inputs replaced after they were evaluated | what runs was permitted as it runs |
| `tasks.py`, `tools/local_shell.py` | tasks, dependency lists, processes, threads waiting | `stop` gives up the lock; a launch is two calls; delete at any time | stopped tasks say so, waiters wake, dependencies name tasks |
| `fork/process.py`, `tools/agent_tools.py` | events and results by turn number, exchanges of the session | late results, death and termination of the child | a reply answers its own message |
| `services/lsp/client.py` | events and results by id | callers, reader and `stop` without a lock | a waiter is reachable |
| `services/prevent_sleep/` | reference count, process, timer | a cancelled timer's callback may still run | awake while needed |

### 1.4 The rest

| Component | Why it is not modelled |
|---|---|
| `services/speculation/` | nothing calls `start_speculation`; `start` would take a lock that is not reentrant twice (`service.py:156`) |
| `services/bridge/` | the poll loop makes blocking `urllib` calls inside coroutines, so nothing runs beside it; `capacity_wake.py`, whose merged event misses a wake that comes during the sleep, is imported nowhere |
| `mcp/` | each request starts a transport, exchanges one message and stops it; the handler of server messages has no caller |
| `state/` | a dictionary with observers called in the thread that changes it |
| `services/compact/` beyond `/compact` | functions on message lists that `QueryRuntime` does not call (`query/engine.py:1217` calls `should_auto_compact` with keyword arguments it does not take; the exception is swallowed) |
| tools, backends, hooks | files, processes and networks: each may return, fail or raise, and does so in the models |
| authentication, git, ssh, cron, UI widgets, schemas, settings, utilities | I/O, external services and data without state over several steps |

`PROJECT.json` lists all of them as components, and the hazards by source line.

## 2. The modules and what is left of the plan

| module | models | uses |
|---|---|---|
| `QueryEngine` | the engine with turns that interleave freely | |
| `SequentialHost`, `TuiHost` | the stream-json host and the terminal UI | `QueryEngine` |
| `HostChannel` | the stream-json host's stdin and the permission channel | |
| `DeliveryQueue` | abstract: an ordered queue whose items leave in order | |
| `SerialBatchUploader` | the uploader | |
| `HybridTransport` | the transport on top of it; implements `DeliveryQueue` | both |
| `WorkerStateUploader` | worker state reports | |
| `WebSocketTransport` | connection and reconnection | |
| `PermissionFlow` | the permission engine and a call's way through it | |
| `BackgroundTasks`, `ForkedAgent`, `LspClient`, `PreventSleep` | the services of 1.3 | |
| `MCQueryEngine`, `MCSequentialHost`, `MCTuiHost`, `MCDelivery`, `MCServices` | small instances | |
| `QueryEngineProofs`, `SequentialHostProofs`, `TuiHostProofs` | theorems about turns that interleave, that follow each other, and that run in worker threads | `QueryEngine` and the two hosts |
| `HybridTransportProofs` | theorems about transport and uploader, refinement of `DeliveryQueue` | `HybridTransport` |
| `ChannelProofs` | theorems about worker state, WebSocket and the host's stdin | `WorkerStateUploader`, `WebSocketTransport`, `HostChannel` |
| `ServiceProofs` | theorems about tasks, language servers and forked agents | `BackgroundTasks`, `LspClient`, `ForkedAgent` |
| `PermissionFlowProofs`, `PreventSleepProofs` | theorems about permissions and sleep prevention | their components |

`MCDelivery` and `MCServices` check several components in one run. The
components share no state, so a behaviour picks one of them (`scene`) and moves
only that one. This is a way to write one configuration, not a claim about how
they interact.

`HostChannel` and `SequentialHost` look at the same loop from two sides. In
`SequentialHost` a permission request is the choice between `AllowCall` and
`DenyCall`; `HostChannel` shows how that choice comes about and keeps of the turn
only that it asks and waits.

Every safety and action property of the runs now has a theorem. What is left:
theorems about what `/resume` and `/rewind` do keep of the session file, a
theorem that says which part of `OwnReply` holds with several senders, and
models of the automatic compaction and of the agents' launch.

## 3. The modules and the code

### QueryEngine

One variable per field of `QueryRuntime`, under the field's name without the
underscore (`_saved_sessions` is split in `savedSessions` and `snapshots` by its
key prefix). A turn is one call of `handle_user_message`; `pc[t]` says where its
thread blocks, and `local[t]` holds the locals that survive from one place to
the next:

| place | code |
|---|---|
| `new` | not started |
| `prepare` | after the user entry was appended, before `_prepare_turn` |
| `compacting` | `/compact` waiting for the summary call |
| `begin` | prepared, before the tool loop |
| `backend` | in the model call |
| `tools` | before the next tool call of the round, or after the last |
| `permission` | in the hook, rule, dialog or host decision |
| `executing` | in the tool |
| `answer`, `blocked` | final answer known; `blocked` when stop hooks refuse to continue and report failures |
| `complete` | outputs yielded but for `idle`; completion to be recorded |
| `done` | over |

Between two places the code runs without blocking and the model takes one step.
That granularity is coarser than what CPython threads allow (a thread may be
preempted between two bytecodes); it is the granularity at which threads of this
program really meet, as every place is a network, process, dialog or file call.

Transcript entries are a kind, an identity (the message's uuid) and, for a tool
result, the tool use it answers. Texts, usage numbers, costs, model names and
timestamps are left out. A response of the model is a sequence of tool calls; the
empty one is a final answer. `emitted[t]` records the session-state and result
messages a turn yields, `rounds[t]` the tool rounds it has accepted and `disk`
the uuids in each session's file.

The conversation commands are actions (`Rewind`, `Resume`, `CompactStart`,
`CompactRefused`, `CompactFinish`, `Rollback`, `PrepareLocal` for `/clear`). The
guards of their handlers (`commands.py:847-873` for `/resume`, `1515-1580` for
`/compact`, `2052-2082` for `/rewind`) are in these actions together with the
engine methods they call.

Choices that stand for code outside the model: what the backend answers
(`BackendAnswers`, `BackendCallsTools`), that it fails or raises, what the
permission flow decides (`AllowCall`, `DenyCall`), whether a tool or hook raises
something unexpected (`ToolsCrash`), whether an append fails (`DiskFails`).
`BudgetExceeded` is always possible after a round, since budgets are not
modelled; automatic compaction never replaces it because its call in
`_check_budget_and_maybe_compact` raises and is swallowed.

Next allows everything any host can do: turns in any number at once, interrupts,
async cancels and session clears at any time.

### SequentialHost

`_run_stream_json`: a message or control request is read only when no turn runs
(`Quiet`). `FairSequentialSpec` adds weak fairness of the steps a turn takes while
it is in its own hands (`~OutOfHands`): the thread is not stopped, and a request
to the model, for an answer or a summary, returns or raises because its reads
have a time limit. A turn that waits for a permission answer or for a tool gets no
fairness. The deadline of the permission channel is not looked at while its read
blocks (run `host_answer`), and some tools wait without limit (the `readline` of
`mcp/runtime.py:96`). `EveryTurnEnds` states the exception: a turn that was read
ends, or stays with one permission question or one tool call for ever. What it
says is that nothing else keeps a turn, and in particular no endless rounds.

### TuiHost

Adds the worker threads, their cancelled flags, `_current_worker` and the
permission dialog. `_run_prompt` looks at `is_cancelled` before it calls
`handle_user_message` and while it shows the outputs of the finished turn; the
model has both looks, and the gap between the first one and the turn
(`StartWorker` and `CancelledWorkerReturns` are both possible for a cancelled
worker). `Patient` says whether the user waits for the last worker before
submitting again: nothing in the code makes him. `struck` is a history variable:
what each prompt was doing when Esc was pressed. `FairTuiSpec` is fair to worker
threads and never to the user.

### HostChannel

`stdin` is the pipe as a sequence of lines, `lines` everything the host has sent.
The main loop iterates over stdin and starts a turn for a user message; the turn
may ask (`SendPermissionRequest`), and `wait()` then reads the same stdin into its
own buffer until the answer comes. A read returns with `ChunkLines` lines (a full
chunk of 65536 characters in the code) or at the end of the file, which is what
`TextIOWrapper.read(n)` does. Whatever the channel reads besides answers is
dropped, and lines left in the buffer when the wait ends are not seen by the main
loop: the model does the same. The loop comes to the messages of a drain
(`ahead`) one after the other: a prompt of the command line (`prompt`) is drained
with the first line, or by `close_input`. A last line without newline
(`HostClosesAfter`) is drained by `close_input` if the loop read it, after which
its turn runs with a closed input and every permission request is refused
(`SendIsRefused`); if the channel read it, it is never a line. `HostFairness` runs the program's thread and the
clock; the host may fall silent without closing.

### SerialBatchUploader, HybridTransport and DeliveryQueue

Everything runs on one asyncio loop, so an action is what runs between two
awaits. Messages are numbered in the order of the writes. A POST succeeds, is
refused (4xx or no token: given up), or fails, and then the server may have it or
not, and keeps what it has not seen (`Without`). `_drain` is one task at a time (`drain`), started by tasks that are created
and run later (`kicked`). `enqueue` without room waits on an Event of its own,
which nothing can set (`stranded`, `blocked`). `close()` of the transport leaves
a grace period; `GraceEnds` may come before the queue is empty.
`failureLimit` is chosen at the start: with a limit the transport drops batches.
That a batch is no larger than the queue is assumed (`HybridAssumption`): the
transport passes 500 and 100000 (`hybrid.py:115`), the CCR client's uploaders
100 and 100000, 100 and 200, 64 and 64 (`ccr_client.py:152-171`).

`DeliveryQueue` says what is promised: items enter at the back, are delivered in
order from the front, may be given up at the front or, when the queue is shut
down, at the back, and never in the middle. `DeliveredInOrder` maps the abstract
queue to the undelivered part of batch and queue, so that a retry of what the
server already has is a stutter, and a regrouped batch delivers a part.

### WorkerStateUploader

A patch maps keys to the number of the report that set them. `Coalesce` is the
merge of `_coalesce_patches` for keys at top level and inside
`external_metadata`. A PUT may raise: `CCRClient.request` catches
`aiohttp.ClientError` only, and a total timeout is none.

### WebSocketTransport

Connections are numbered; `listening` counts receive loops on each. A loop ends
when its connection is gone, or at once if another loop reads from the same one.
`send()` looks at the state, waits, and may fail in whatever state the transport
is by then. A timer whose handle was overwritten is `strayTimer`.

### PermissionFlow

`Evaluate` is `PermissionEngine.evaluate`. The classifier is called without the
command (`classify_yolo_action` passes no content), so `ClassifierBlocks` never
holds for a shell command; the model computes it as the code does. A call may be
allowed by a permission hook, a session permission, the user or the host, each
of which may replace the input, and a pre-tool hook may replace it again before
`ToolRuntime.execute` evaluates a second time, unless somebody allowed the call
explicitly. Rules are records with source, behaviour, tool and the set of
contents their pattern matches.

### BackgroundTasks, ForkedAgent, LspClient, PreventSleep

`TaskRuntime`'s methods hold one lock and are one action each; a launch is
create, spawn and attach, and `stop` has two locked parts with the process's end
between them. `sleeping` holds tasks a `wait_for_task` call sleeps for: it says
"at least one call", and a woken call is one that looks again. Tasks of agents
are created `forked` (with a process, in progress) or `alone` (completed). Ending
the agent's process (`StopForkedProcess`, `tasks.py:137-150`) completes its task
under the lock and notifies nobody, so a blocking read of that task sleeps on to
its timeout (30 seconds unless the caller says otherwise). `NoMissedWakeup`
makes that exception and no other. No code of `src/py_claw` calls
`stop_forked_process`; `tests/test_fork.py` does, and nothing in the repository
claims that it wakes a reader, so there is no run for it.

`ForkedAgent` and `LspClient` share dictionaries between threads without a lock,
so each access is a step. A result or response is named by the message or id it
belongs to. Timeouts may come at any time.

`PreventSleep` counts time in ticks. A timer whose time is over waits for the
lock (`left[t] = 0`) and cannot be cancelled any more; the callback is assumed to
get the lock within the tick.

## 4. What the runs check

| run | instance | shows |
|---|---|---|
| `interleaved` | two turns, one session, cap 1, free interleaving | `TypeOK`, `ResultThenIdle` |
| `conversation` | three turns, three sessions, rounds of one or two calls, cap 3 | `NoThirdIdenticalRound`, `RoundsCapped`, `ContextFresh`, `NothingLeftBehind`, `NoStaleInterrupt`, `WrittenOnce`, `AllWrittenWhenQuiet` |
| `disk` | three turns, Snip tool, `/compact`, rollback, appends that fail, cap 1 | `CountedIsOnDisk`, `RequestPaired` |
| `history` | three turns, `/clear`, `/rewind`, `/resume`, crashing tools, cap 2, threads fair outside tools and permission questions | `SavedWhenQuiet`, `EveryTurnEnds` |
| `tui` | two prompts, rounds of two calls, fair workers | `AtRestWithoutWorkers`, `InterruptHolds`, `InterruptReleasesDialog` |
| `delivery`, transport | two writers, four messages, batches of two, queue of three, with a failure limit of two and without | `ReceivedInOrder`, `NothingLost`, `QueueBound`, `FlushReturns`, `DeliveredInOrder` |
| `delivery`, worker | two metadata keys, three reports | `ServerCaughtUp`, `ServerNeverGoesBack`, `ReportsReachServer` |
| `delivery`, websocket | three connections | `ConnectedIsListening`, `DropIsNoticed` |
| `delivery`, host | chunks of two lines, three lines, the last one ended or not, with and without a prompt, two requests | `AllowedByItsAnswer`, `EndsWithHost` |
| `services`, tasks | two tasks, of commands, agents or neither | `DependenciesKnown`, `NoMissedWakeup`, `StoppedIsReported`, `StopTerminates` |
| `services`, lsp | two callers, three requests, `stop` at any time | `WaiterIsReachable` |
| `services`, fork | one sender, three messages | `OwnReply`, `ReplyUsedOnce` |
| `services`, permission | three inputs, every set of three rules, every mode and default mode | `RunWasPermitted`, `DenyRuleHolds`, `BypassStaysDisabled` |
| `services`, sleep | two callers, three timers, timeout 3, restart after 2 ticks | `AwakeWhileNeeded`, `TimerIsKnown` |

Bounds of the engine's runs. Two turns are enough for one turn to disturb
another; three sequential ones for a command to act on a conversation that a
second one changed and a third one reveals. Cap 3 lets the guard see two equal
rounds and refuse the third, two calls per round let an interrupt or a crash fall
between them. A conversation without an id gets any of the sessions (a fresh one,
or one the host names again), so a small number of sessions disables nothing: one
where a run only looks at turns, two or three where it looks at what sessions
keep. Turns and sessions are symmetric where no liveness is checked. `nextId`,
the transcript and the streak are bounded by the number of turns and the cap; no
state constraint is used.

Bounds of the others. Four messages fill a queue of three with one in flight or
refused room; batches of two are regrouped after a failure. Three reports are one
in flight, one pending and one to merge. Three connections are the one in use, a
late one and a new one. Two lines per chunk against three lines leave a part in
the buffer and a part in the pipe. Two tasks are a blocker and a blocked. Three
messages to an agent are one that timed out, a later one its result could hit,
and one after. Two callers and three timers give a stale callback beside a chain.

The engine's instances leave out on purpose, as the runs of section 5 show what
happens with it: `/rewind` and `/resume` in the runs about the file, Snip in the
run of `WrittenOnce`, crashing tools in the runs of `RequestPaired`, an impatient
user in `InterruptHolds`.

Fairness. Turn threads, worker threads and the tasks of an event loop run unless
they wait for something outside; a permission question and a tool count as such
in `FairSequentialSpec`. A POST ends (it has a timeout), and a server
that is asked again and again accepts in the end (strong fairness of
`PostSucceeds` and `PutSucceeds`): without it nothing could be promised about
delivery. Users and hosts are never assumed to act.

## 5. Disagreements with comments and docstrings

Five runs expect a violation. Each checks what a comment or docstring of the
repository says, and TLC finds a short behaviour of the code that breaks it.

| run | what happens |
|---|---|
| `rewind` | `/rewind` leaves the count of persisted entries too high; later messages are never written |
| `crash` | an exception other than a tool error leaves a tool use without its result in the next request |
| `tui_impatient` | a prompt submitted after Esc clears the interrupt before the old turn saw it |
| `host_answer` | a short answer to a permission request stays in the pipe because the channel reads full chunks; its deadline does not fire either |
| `reconnect` | `reconnect_after` calls `connect()` in the state `reconnecting`, in which `connect()` does nothing |

More came up while modelling and have no run of their own. They are behaviours of
the modules all the same; where a property is named, it stands in the module, is
in no configuration, and TLC refutes it when it is added to one:

- `/resume` keeps the count of persisted entries of the conversation it leaves;
  entries of the resumed session are appended to its file again (`WrittenOnce`
  with `/resume` among the inputs);
- ctrl+g while a tool waits for permission: the rest of the turn is appended to
  the new conversation, whose first request has a tool result without its use
  (`RequestPaired` in the terminal UI);
- a model call that raises, and is no turn failure, reaches the outer handler
  (`query/engine.py:1605`) after the inner generator has yielded `running`, which
  is yielded a second time (the shape `FinalOutputs` of a finished turn has it);
- the Snip tool calls `replace_transcript` although it removes nothing, so the
  count of persisted entries starts at 0 again and the whole conversation is
  appended to the file a second time (`WrittenOnce` is checked without Snip);
- Esc after the worker's `is_cancelled` check and before the turn's own
  `interrupt_event.clear()` is forgotten: the turn runs to its end unseen.
  `InterruptHolds` therefore speaks of turns that had begun when Esc came;
- `close()` of the uploader "Resolves any blocked enqueue() and flush() callers"
  (`serial_batch.py:161`): blocked `enqueue` calls never end, and a flush that
  registers while the POST in flight fails after the close never ends either
  (`CloseReleases` in `HybridTransport`);
- `_send_with_retry` "Retries indefinitely" (`worker_state.py:141`): a PUT that
  raises a timeout ends the uploader for good (`RetriedUntilSuccess`);
- an LSP response handled before the caller looks its Event up is lost to the
  caller (`AnswerIsReturned` in `LspClient`); an Event registered between the two
  steps of `stop` is dropped unset, and its caller waits the full timeout;
- two concurrent messages to one forked agent get the same turn number, and one
  may take the other's reply (`OwnReply` with two `Senders`);
- ending an agent's process completes its task without waking who waits for it
  (section 3, `NoMissedWakeup` makes the exception);
- a user message or control request that arrives while a permission request is
  waited for is read by the channel and dropped (`cli/main.py:302-306`);
- a task deleted between the start of its process and `attach_process` leaves a
  process that no task names.

## 6. What is proved

The table lists, by component, the properties of the runs that are theorems.
Each holds for every value of the constants that satisfies the module's named
assumptions, and under the hypothesis given, if there is one.

| module | theorems | hypothesis |
|---|---|---|
| `QueryEngineProofs` | `TypeOK`, `NoThirdIdenticalRound`, `RoundsCapped`, `ResultThenIdle` of `Spec` | |
| `SequentialHostProofs` | `SequentialSpec => Spec`; `NothingLeftBehind`, `NoStaleInterrupt`, `ContextFresh`, `SavedWhenQuiet` | |
| | `CountedIsOnDisk`, `AllWrittenWhenQuiet` | `KeepsHistory`: no `/rewind`, no `/resume` |
| | `WrittenOnce` | `NeverReplaces`: no `/compact`, rollback, `/resume`, Snip |
| | `RequestPaired` | `KeepsPairs`: no `/rewind`, no crashing tool |
| `TuiHostProofs` | the engine's invariant, `NoThirdIdenticalRound`, `RoundsCapped`, `ResultThenIdle` | |
| | `AtRestWithoutWorkers`, `InterruptHolds` | `Patient` |
| `HybridTransportProofs` | `ReceivedInOrder`, `NothingLost`, `QueueBound`; `HybridSpec => DeliveredInOrder` | |
| `ChannelProofs` | `ServerCaughtUp`, `ServerNeverGoesBack`; `ConnectedIsListening`; `AllowedByItsAnswer` | |
| `ServiceProofs` | `DependenciesKnown`, `NoMissedWakeup`, `StoppedIsReported`; `WaiterIsReachable` | |
| | `OwnReply`, `ReplyUsedOnce` | `OneSender` |
| `PermissionFlowProofs` | `RunWasPermitted`, `DenyRuleHolds`, `BypassStaysDisabled`, `NoNeedlessQuestion` | |
| `PreventSleepProofs` | `AwakeWhileNeeded`, `TimerIsKnown`, `AsleepOtherwise` | |

Where there is a hypothesis, the property fails without it: the code does not
enforce the hypothesis, and TLC shows what happens then (sections 5 and 6.2).

### 6.1 The engine

Assumptions on the constants: `None` is no turn, no session and no saved session,
responses are sequences of tools, the cap is a positive natural number, the two
flags are Booleans. The engine's constructor guarantees the one about the cap.

None of the four properties of `QueryEngineProofs` is inductive. `EngineInv`
strengthens them by what each place of a turn implies:

- `CallOpen`: while a call is being permitted or executed the list of calls is
  not empty, without which `Tail` could leave the type;
- `GuardInv`: the remembered signature is the last accepted round, the streak is
  at least 1, and at least 2 when the last two rounds are equal. The guard's test
  of the streak then excludes a third;
- `CapInv`: no rounds before the loop, and fewer than the cap whenever the model
  is being asked;
- `OutputInv`: the exact messages yielded at each place, with the four shapes a
  finished turn can have.

Each of these speaks of one turn's own variables, which only its own steps
write. So a step of another turn, an interrupt or a clear preserves them by a
frame lemma (`TurnFrame`, `OtherTurns`), and each is shown to be preserved by the
turn's own steps in a lemma with one case per action. Type correctness is split
by groups of actions in the same way.

### 6.2 The hosts

`SequentialHostProofs` rests on `HostInv`: `EngineInv`, at most one turn runs
(`OneTurn`), between turns nothing is left behind, and `RunningInv` for the turn
that runs. `RunningInv` says what the flags are at each place: before and after
the loop no turn is in progress and there is no loop state, inside it `previous`
is FALSE (so that leaving the loop puts the flag back to FALSE), no interrupt is
set, the conversation has a session, and while the model is asked `sent` is the
transcript. Only because at most one turn runs do the flags belong to it; with
two, `previous` may be the other turn's TRUE.

Three more invariants sit on top of it:

- `FileInv`: the counted entries are a prefix of the transcript that is in the
  file in the same order, and between turns everything is counted unless appends
  fail. An append that fails half way leaves lines in the file that are not
  counted; they are appended again, behind the order the invariant speaks of.
  `/compact`, its rollback and Snip set the count to 0, which keeps it. `/rewind`
  leaves a count larger than the transcript (run `rewind`) and `/resume` keeps
  the count of the conversation it leaves: either breaks `CountedIsOnDisk`.
- `FreshInv`: ids grow, no id is twice in the transcript or in a file, and what
  is not counted is in no file. Replacing the transcript by `/compact`, its
  rollback, `/resume` or Snip breaks the last part, and `WrittenOnce` with it.
  `/rewind` only drops entries, and `/clear` starts anew, so both are allowed, also
  when the host names an old session again.
- `PairInv`: the transcript is paired but for the call that is being made
  (`OpenAt`), and so are the snapshots, the copy `/compact` works on, and every
  saved copy except, inside the loop, the one of the running session, which Snip
  may have taken in the middle of a call. A cut at an API round keeps pairs
  together because a round starts with an assistant message. `/rewind` cuts
  anywhere, and a crashing tool (run `crash`) leaves its use open.

`SavedWhenQuiet` is inductive next to `HostInv`, since the completion that ends a
turn also saves it. `HostIsAnEngine` is the refinement of `Spec`: whatever is
proved of freely interleaved turns holds of the host's turns.

`TuiHostProofs` first shows that the engine's invariant survives the terminal UI
with any user: every step is one of the engine, or leaves turns alone
(`EngineKept`; `ClearInterrupt` is no step of `Next`). For a patient user
`TuiInv` adds that one worker is active, that a running turn is in a worker that
has not ended, that a dialog belongs to a turn waiting for permission and the
pending dialog is not closed, what the engine's flags are outside the loop, and,
for `InterruptHolds`, that an interrupt that struck a turn stays set until the
turn is over: only the start of another turn or the end of a worker clears it,
and neither can happen meanwhile. With an impatient user both can (run
`tui_impatient`), and two overlapping loops leave the in-progress flag set.

### 6.3 Carrying messages

`HybridInv` says that batch, queue and buffer, in that order, are increasing and
that whatever in them the server does not have comes after all it has
(`LiveInOrder`): a retried batch may begin with messages the server has already.
`QueueBound` needs the length of a batch and that a closed uploader holds at most
the batch it was sending (`BatchBound`). `Without` is a recursive function; what
it does is proved by induction over the length of a sequence, with the induction
principle stated for a set (`NatSetInduction`, from `WellFoundedInduction`) so
that no operator has to be instantiated. The refinement maps every step of the
transport to one step or a stutter of `DeliveryQueue` (`AbstractStep`): a
successful POST delivers a prefix, a lost answer or a retry of something known
is a stutter.

`WorkerInv`: server, patch in flight and pending patch hold older to newer
reports, key by key (`OlderDownstream`), the last report of a key is in the
newest of them that has the key (`OnItsWay`), and whatever is pending has a drain
coming (`NoneForgotten`). `WsInv`: a connected transport with no handshake under
way has a receive loop on its connection or one about to start. `HostChannel`'s
invariant: every line in the pipe, in the loop's buffer and in the channel's is
one the host sent. A call is then allowed by the host's answer to it, or by a
canned one: the channel takes an answer to `__PENDING__` for the request it waits
for.

### 6.4 Services

`TasksInv` adds to the two properties that a task not created yet is blank and
that only a launched task is stopping or stopped: otherwise the failure of a
launch could overwrite the reason of a stop. `NoMissedWakeup` is proved with its
exception for the task of an agent without process, which `stop_forked_process`
leaves as it completes it. `LspInv`: the reader holds one
taken event at a time. `ForkInv`: the turn number of a result is the number of
its message, a result is in one place (pipe, router, dictionary, caller, or queue
of late messages), and one not sent yet is in none. It needs `OneSender`: two
calls of SendMessage to one agent would count the same exchanges
(`agent_tools.py:355`). The tools of a turn run one after the other, so one
conversation has one sender; the code excludes no second one.

`PermissionFlowProofs`, for any inputs, rules, settings and dangerous contents;
nothing is assumed of the constants. Only `RunWasPermitted`
and `NoNeedlessQuestion` are inductive next to the types, and the other two are
not: that a denied input has got past the verdict by a hook or a replacement has
to be known before it runs (`DeniedOnlyByHand`), and that a call's engine never
has a mode the settings disable has to be kept between the building of the engine
and the verdict (`ModeIsResolved`). Three lemmas say what "allow", "ask" and a
resolved mode mean, so that no step has to expand the evaluation of rules.

`PreventSleepProofs`, for any timeout and any restart interval shorter than it
(the service's are 300 s
and 240 s), and any numbers of callers and timers. The invariant is
`RestartComesFirst`: while the service is needed the process has more time left
than the timer that will restart it, unless it could not be spawned. The clock
takes from both, and a late callback of a cancelled timer only starts both anew.

## 7. What is only checked, and what is not modelled

Only checked by TLC: the liveness properties (`EveryTurnEnds`,
`InterruptReleasesDialog`, `FlushReturns`, `ReportsReachServer`, `DropIsNoticed`,
`EndsWithHost`, `StopTerminates`), which are out of the proof system's reach: it
has no rules for fairness and `ENABLED`. The violations of section 5 are of
instances, too.

Not modelled in the engine: usage and cost accounting, file-mutation records,
partial-message and tool-progress outputs, the advisor, `/resume` of a compact
snapshot's own key (the list of saved sessions shows it), session ids given by a
host that are not uuids (the writer then invents a new file at every append).
Preemption inside a step is not modelled either (section 3).

Not modelled in the other components: the limit of a batch in bytes and items
that cannot be serialised (`serial_batch.py`), heartbeats and internal events of
the CCR client, pings of the WebSocket (a missing pong is never acted on),
history replay and MCP calls of forked agents, output text and teams of
`tasks.py`, parsing of permission rules, notifications and server requests of the
LSP client, sleep prevention on systems other than macOS, where it does nothing.

Not modelled at all: the components of section 1.4, for the reasons given there.
