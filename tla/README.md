# nisix: specification and verification

nisix is a personal assistant daemon in Go. Messages come in from a WebSocket, an HTTP
endpoint or Telegram; a runtime answers them with a model and tools; a session manager
remembers the conversation; a workspace directory holds the assistant's own files. This
directory holds TLA+ models of the parts in which order, concurrency or failure matter,
the TLC configurations that check them, and TLAPS proofs about some of them. Paths below
are relative to the repository.

## 1. The system

| Component | State it keeps | Operations | What makes it correct |
|---|---|---|---|
| sessions (`internal/sessions`) | map and file `sessions.json`; one transcript (JSON lines) per SessionID; a rolling context per entry (window of recent messages, notes on older ones) | `Touch`, `ModelContext`, `AppendWithOptions`, history pages | the context is the transcript, in order, each message once; an acknowledged message survives crashes; errors never leave the lock taken |
| gateway connection (`internal/gateway/ws.go`) | `activeRuns`, the event counter, the write lock, the connection's context | `connect`, `chat.send`, `chat.abort`, ticks, disconnect | every accepted run ends and reports; event numbers are unique; abort finds what runs |
| gateway inbound path (`internal/gateway/server.go`) | none of its own | `handleInbound`: session, events, hub, transcript | client, channel and transcript tell the same story, also when one of them fails |
| agent runtime (`internal/agentruntime`) | a bounded event channel per run | `Run`: commands, `!slow`, `!tool`, the model loop | the goroutine ends; an aborted run says so |
| mcp client (`internal/mcp/client.go`) | `pending` (id to one-slot channel), `closedCh`, `readErr`; a child process or an SSE stream | `call`, `Close`, read loop, wait loop | an answer goes to its caller once; a call never hangs, and never takes the end of its stream for a result |
| mcp loader, daemon (`internal/mcp/loader.go`, `cmd/nisixd`) | clients, the tool registry, a channel of notifications | load, serve, signals, notification fan-in, `Close` | every tool keeps a name of its own; clients are closed when a later one fails or the daemon stops; nothing is sent on the closed channel; start and stop end |
| workspace, bootstrap (`internal/workspace`, `internal/bootstrap`) | files and `workspace_state.json` | `EnsureLayout`, `CompleteOnboarding`, status | seeding resumes after a crash and overwrites nothing it has seen; onboarding, once complete, stays so |
| channels (`internal/channels`) | Telegram: offset, dedupe window, throttle map; hub: registered adapters | `RunPolling`, `Send` | no update is lost or, within the window, handled twice; an answer reaches the chat whole and in order |
| skills (`internal/skills`) | one list of skills for all runs | `LoadAll`, `SelectForMessage` | what a run injects is enabled, asked for, and not older than its scan |
| profile (`internal/profile`) | files, a lock per path, proposals with an expiry | `Update`, `CreateProposal`, `ApplyProposal` | "writes are atomic (`tmp + rename`) and serialized per file path" (README.md:398) |
| router, tools, tool policy, model clients, identity, soul, memory, security, config, protocol | little or none | pure functions, file reads, HTTP requests | their input/output relation |

Interaction: the poller, the HTTP handler and each WebSocket run goroutine call
`handleInbound`. It calls the session manager, starts the runtime, and drains the
runtime's channel; for each event it writes a frame to the connection, sends the text to
the message hub, and appends to the transcript, in this order. The runtime calls the
tools (some served by MCP clients), the profile service, the workspace and the skills.
The session manager, profile service and MCP clients are shared by all runs. Each has
a mutex, except that nothing guards `CompleteOnboarding`.

Hard behaviours: two stores written one after the other (transcript and `sessions.json`);
crashes between any two file operations; failing writes that leave the memory ahead of
the disk or half a line in a file; four goroutines that may each answer an MCP call; a
bounded channel whose consumer may leave early; abort and disconnect racing with a run's
end; two callers sharing one temporary file; an at-least-once update API with an
in-memory offset, and a chat that may get what is sent twice; servers that hang or exit
while the daemon starts, and streams that end before their servers; a file saved between a
check and the write that relies on it; a list that every run replaces. `PROJECT.json` lists them one by one, each at its line, under "hazards".

## 2. The modules

| Module | Models | State and actions |
|---|---|---|
| `SessionContext` | the pure part of the rolling context | `ApplyContextMessage`, `AppendSummary` (the notes as lines with widths in bytes, `Newest` is one of its two cuts), `ClearContext` |
| `Sessions` | `sessions.Manager` and `FileStore`, used by concurrent runs | `disk`/`mem` are the store's file and map, `files` the transcripts, `torn` those that lack a final newline, `mu` the manager's lock. One action per critical section, except that an append is two (`AppendWrite`, `AppendStore`) and a rebuild reads line by line, because a crash may come between. `RebuildFails` is a transcript that cannot be read. `SendEvent` and `RunErrs` are the caller's moves; `Restart` is a crash with another configured history limit |
| `History` | `chat.history` over `Sessions`: a client walks a transcript page by page | `ReadPage` is one request (`Page` computes bounds and cursors), `Manage` any step of the manager between two requests |
| `McpClient` | the request broker of `stdio` and `sse` | `transport` is chosen at the start; `pending`, `slot`/`slotClosed` (the one-slot channels), each caller's place, the read loop, the wait loop, `Close`, and the server. A critical section of `pendingMu` is one step |
| `Gateway` | one connection, its runs, their handlers and runtime goroutines | the read loop (`ChatSend`, `Accept`, `AbortFind`, `AbortCancel`, `ReadFails`), the ticker, per run the handler (`HPrepare`, `HRecv`, `HObserve`, `HSend`, `HAppend`, `HEnd`, `HReport` and their failures) and the runtime (`RtBegin`, `RtSlow`, `RtWork`, `RtPush`) |
| `Workspace` | `EnsureLayout` and `CompleteOnboarding` | one action per file operation, so a file is checked (`SeedCheck`), opened (`SeedCreate`) and filled (`SeedFill`), with `Edit` possible in between; the state file is modelled with inodes, because a rename moves a file another writer may still have open |
| `Telegram` | `RunPolling` and the Bot API's queue | `Poll`, `PollLost`, `PollRepeat`, then one update at a time: `TakeDuplicate`, `TakeAndSkip`, `TakeAndHandle`, `HandleOk`, `HandleFails` |
| `Delivery` | `Telegram` and what the answers do to the chats: `MultiHub.Send`, the adapter's `Send`, its chunks and attempts | `reply` is the `Send` under way; `TakeHelp`, `TakeMessage` start one, `SendText` goes on to a text, `PostOk`, `PostAgain`, `PostFails` post the chunk that is next (`EndOfChunk` is where `chunkTelegramText` ends it), `HandleEnds` and `HandleBreaks` return to the poller |
| `Daemon` | `main` around its MCP servers, and the fan-in of their notifications | per server `Resolve`, `Start`, `Ask` and `Initialize`, `Ask` and `ListTools`, `RegisterTool`, `KeepClient` and `StartFails`, `RequestFails`; then `Serve`, `Signal`, `Fatal`, `Killed`; `CloseClient`, `CloseNotifications`, `Ends`; `ServerExits`, and `StreamEnds` while the server lives; per client `Emit`, `ForwardTake`, `ForwardPush`, `ForwardStop` |
| `Skills` | the skills service under concurrent runs, and the user who edits the files | `Begin` reads the directory, `ReadOne` one file, `Publish` stores the list, `Select` chooses from the list that is there by then |
| `ProfileDoc` | abstract: a set of files updated atomically | `Patched` is what the patterns of a patch match and what is written for it; a request is asked, takes effect in one step, and succeeds or fails; one that misread the file takes it for empty |
| `Profile` | the service: locks, temporary files, proposals | `Propose`, `Expire`, `Latest`, `Apply`, `Update`, then `Lock`, `Compute`, `WriteTmp`, `Rename`, `Stat`, `Delete`; implements `ProfileDoc` |
| `*Proofs` | theorems and proofs, one module per component | |
| `MC*` | instances for TLC | |

Composition: `Sessions` EXTENDS `SessionContext`; `History` EXTENDS `Sessions` with a reader
that takes the same lock; `Profile` instantiates `ProfileDoc` with
a refinement mapping (`phase` is computed from the program counter). `Gateway` reduces the
session manager to whether an append succeeds, `Delivery` EXTENDS `Telegram`: each of its
steps is one of the poller's or leaves the poller alone. `Gateway` reduces the hub to whether
a send succeeds, and `Sessions` reduces the gateway to the
order in which a run calls it; the interface between the two is `handleInbound`'s order
of calls.

Operators named after a definition with a suffix, under a comment starting "Mutant:", are
plausible slips in the code (a dropped guard, a missing reset). They are used nowhere in
the specifications; `PROJECT.json` pairs each with a property it would violate.

Auxiliary variables, marked as such where they are declared, record history for the
properties and guard nothing: `log`, `acked` and the field `folded` in `Sessions`;
`answered` in `McpClient`; `written`, `frames`, `made`, `sent`, `stored`, `cut` in
`Gateway`; `unseen`, `raced`, `finished` in `Workspace`; `outcome`, `turns`, `evicted` in
`Telegram`; `chat`, `replies` in `Delivery`; `panicked` in `Daemon`; `base`, `raced` in
`Skills`; `confirmed` in `Profile`; `top`, `shrunk` in `History`.

### What is abstracted

- A message is who wrote it, its role, its type, and whether its text is blank. The notes
  are lines; the bytes of each (`NoteChars`, by its speaker, so that a text under
  `SummaryLineMaxChars` and one over it differ in no other way) and the cap
  (`SummaryMaxChars`) are counted as in the code, and of a line the cut goes through it is
  known how much is left, not what. A failed write leaves nothing, a part of the line that is no JSON, or the
  whole line without its newline.
- Of the history filters the role is modelled; the four time bounds test a single record
  in the same way. Cursors are those the server gave, not numbers a client makes up.
- MCP frames are an id and a kind (result, RPC error, a request of the server's own, a frame
  that does not parse). Ids are never reused, as the counter in the code.
- A gateway event is its kind, its aborted flag and whether its text is blank (blank texts
  are not delivered).
- A template, a user's file and an empty file are told apart, not their content. An os.Stat
  that fails on what is there is a fault (`MaxFaults`), of one file or of the question whether
  the workspace is new.
- A Telegram message is what the filters look at: sender, blank, allowlisted, group, command
  and whom it names, mention. `IntervalEnds` stands for the passing of the throttle interval.
- A text to a chat is a sequence of newlines, spaces and other characters, with a limit of
  a few instead of 4000. The code cuts a text into all its chunks before it posts the first;
  the model cuts each when it is its turn, which shows the same because cutting changes no
  state. A request whose answer is lost may or may not have reached the chat.
- An MCP server is its transport, its name, its tools, and the step it never ends if it
  hangs: a stream it does not open, silence in the handshake, or pages of tools without end. A name is the sequence of
  its parts between underscores, after sanitizing, each a word or a number; the suffix that
  `uniqueToolName` tries is one more part. A read loop
  may end before its server (`deaf`: a stream that breaks, a frame that is rejected); which
  frame does it is left to `McpClient`. A notification is counted, not carried.
- A skill is a name, and how many words of a message its text contains; a file parses to
  a name or does not parse.
- A profile line is a key with a value. `patch` writes its line over every match of its
  pattern and otherwise appends it. In the file whose pattern ends in `\s*:\s*.*$`
  (`Spanning`: IDENTITY.md) a match that finds no value takes the next line with it
  (`Taken`), and what `ReplaceAllString` writes for a line with a `$` is given by `Expand`.

## 3. The runs

| Run | Instance | Question |
|---|---|---|
| `sessions_crash` | 2 runs, 2 sessions (one legacy: transcript without state), limits 1, 2 and 3 with caps of 66, 60 and 40 bytes, 2 failing reads or writes, 2 restarts | What may the context hold and what may be forgotten? `ContextIsTail`, `SummaryIsTail`, `ContextInTranscriptOrder`: promotion neither loses nor repeats, and the notes are cut to the byte. `AckedIsRemembered`: a message whose append returned nil is in the context, in memory and on disk. `TornLineCostsOne`, `ContextLag`: what one fault may cost at most. `NoOrphanTranscript`, `AppendFindsFreshState`, `RebuildReadsAll` |
| `sessions_history` | 2 runs on one legacy session, one appending without reading the context first (so that the append itself rebuilds), 1 failing read or write, 1 restart; a client walking either way | `NewerWalkIsExact`: following `nextCursor` shows every record once, in order. `OlderWalkIsComplete`: following `prevCursor` leaves nothing out, but the oldest page is filled up from the start and may repeat records of the page after it. Both hold until a record that could be read is swallowed (see `TornLineCostsOne`). `EveryCallReturns`: no error path keeps the lock |
| `mcp` | stdio and SSE: 2 calls, one of them cancellable, a repeated answer or a request of the server or a bad frame, exit, `Close`; over SSE POST and stream both able to answer, and either the second call or the extra frame | `AnswerOnce`: no send on a closed or full channel; `SuccessIsAnswered`: every result was answered by the server, so no failing or closing stream reads as one (a JSON-RPC error in the body of a POST is excepted: internal/mcp/client.go:536-543 returns the body as the result); `ReturnedIsForgotten`: an id is left behind by nobody; `EveryCallReturns`, over stdio |
| `mcp_ended` | SSE, the stream may break | finding 1 |
| `gateway` | a run of any kind with `chat.abort`, ticks, a failing hub and store, a peer that leaves; or two runs and a ticker | `StreamIsFaithful`, `EveryRunReports`: what the client sees; `TranscriptFollowsChannel`: what is stored; `ActiveRunsAreRunning`: what abort can find; `SequenceHasNoGaps`: event numbers drawn outside the write lock are used once and none is lost; `EveryRunEnds`: both goroutines of a run end, and when the runtime's does not |
| `gateway_abort` | one model run | finding 2 |
| `workspace_crash` | 3 files for the 12 seeded ones, a new or a preset workspace, 2 completers, 2 crashes, 1 edit, 1 failing check | `SeedSparesWhatItSees`: what seeding overwrites; `LayoutIsComplete`: seeding resumes; `StateStaysReadable`: a start is possible after a crash unless two callers raced; `CompletedSticks`, `BootstrapStaysAway` |
| `workspace_removed` | one completer, one crash | finding 3 |
| `telegram` | 2 updates of 6 kinds, a window of one id, a repeat, a limit of 3 characters, 2 attempts, 2 lost answers, 1 restart | `ForgottenIsAnswered`: what the API dropped was filtered or its whole answer is in the chat; `ChatIsInOrder`: chunks follow each other, and only one whose answer was lost is repeated; `DuplicatesAreIgnored`; `EveryUpdateIsProcessed` |
| `profile` | 2 calls, two files that can be patched (one with a key left blank), one that cannot and one that is not allowed, values that are empty or expanded, a line that is too large, 1 proposal, 1 fault, 1 crash | `ServesDocument`: the refinement; `ConfirmedOnce`; `EveryCallReturns` |
| `daemon` | 8 configurations of up to 3 servers of every transport, with colliding tool names, an unknown transport, or a server that hangs; servers exit and streams end at any time; channels of one notification, 3 notifications, a signal at any time | `EachExitLeaves`: which clients each exit leaves open; `EveryToolIsReachable`: no tool replaces another; `NoSendAfterClose`: the fan-in and `Close`; `StartAndStopEnd`: start ends unless it waits for a server or a stream as `Hung` says, stop always |
| `skills` | 2 directories, 3 names (one disabled), files that are gone or broken, 2 runs with 2 edits or 3 with one | `InjectedIsAllowed`: the gates, the order and the limit, whatever list a run got; `InjectedIsFresh`: how old that list may be, and when a run may hear "unavailable" |

`CHECK_DEADLOCK FALSE` stands where the system may stop: all calls returned, the connection
closed, the poller dead, the process ended. In `sessions_crash` deadlock is checked; there an
explicit stuttering step (`AllStopped`) covers only the state in which every call has
returned.

### Bounds, and why they are enough

- **Sessions.** Two runs interleave; a third adds no new pair. A limit of 1 promotes on
  the second message; limits of 2 and 3 on the third and fourth, which the three legacy
  lines plus the appended ones reach. With notes of 12 and 30 bytes and a marker of 23, the
  cap of 66 makes one of each miss fitting beside the marker by its newline, that of 60
  makes the first cut leave what fits beside it, and under 40 an answer alone is cut
  through. Two faults and two restarts allow a fault
  during the recovery from the first, and a change of the limit there and back.
- **History.** Pages of two records, over three legacy records and up to four new ones, of
  which the client filters those of the assistant: there are full and partial last
  pages, and the transcript grows before, between and after the requests of a walk. Pages do
  not show the notes; their cap of 1800 is never reached here.
- **McpClient.** The properties speak of one id at a time; a second call is there to be in
  flight during another's failure. One extra frame repeats an answer or interposes one. The
  constraint `Scenario` cuts only the steps that nothing is obliged to take (a second call
  next to an extra frame, over SSE), so it hides no failure of liveness.
- **Gateway.** `ChanCap` 2 with `Chunks` 3 (4 and 20 in the code): what counts is that a
  slow run produces more than the channel holds, so the producer blocks. Two runs and
  the ticker are the three writers of one event counter; with two runs the constraint
  `Scenario` keeps to a tool call beside a model call and a client that stays.
- **Workspace.** A file before `BOOTSTRAP.md` and one after it are the positions the seed
  loop tells apart. Two crashes allow one during the recovery from another.
  One edit can fall into the window of any file, one fault can hide any file, from either check.
- **Telegram.** A window of one id and two updates make eviction and a late repeat happen.
  Answers of up to two texts, one of them of several chunks, can be cut at a newline, a space
  or the limit; two lost answers exhaust the attempts at one chunk. That cutting makes
  progress and stays within the limit is proved for every text (`ChunkIsCut`).
- **Daemon.** The third server's failure finds two clients to close; an unknown transport
  finds one. Channels of one
  notification are full at once. The colliding names collide with each other, with a
  suffixed name and with a built-in tool.
- **Skills.** Two directories are enough for a duplicate name; the third run's scan may
  overlap the first's through that of the second.
- **Profile.** Two callers on one path are enough to race; the other files have other
  locks. A blank line above another, its key patched with a value, an empty one and one that
  expands, shows each way a patch may differ from a replaced line. One proposal suffices for two appliers; its expiry may fall
  between lookup and delete.

### Fairness, and why the code justifies it

Safety runs assume none. The liveness runs assume that a goroutine that can run does (weak
fairness), and that `sync.Mutex` does not starve a waiter (strong fairness of the actions
that take it: Go's mutex hands over to a waiter of more than 1 ms). Beyond that:
`McpClient` assumes that a server that is up answers what it received once (lost answers
are those of a server that stops) but not that it ever stops; `Gateway`, that tools and
model calls return or are canceled; `Delivery`, that a repeated getUpdates succeeds in the
end and that a request to the Bot API returns (the client has a timeout); `Daemon`, that
a server that is up and does not hang takes the stream's GET and answers, which is heard
while the read loop has not ended (an answer in a POST's body is not counted on), and that a
request fails that cannot go out, that `failPending` gave up, or that waits over HTTP for a
silent server (`requestTimeout`). It assumes no end of the GET that opens a stream, which has no
timeout and a background context (internal/mcp/client.go:129,232), nor of a wait in
`awaitPending` that no read loop is left to end. No client action, cancellation, crash or fault is
assumed to happen.

## 4. Findings

1. `mcp_ended`, `EndedStreamFailsCalls` (`internal/mcp/client.go:841`). docs/WORK_LOG.md:465:
   "`stdio` and `sse` reader loops now fail pending RPC calls when stream ends/errors." They
   do so once. A call that registers after that is in the map with nobody to fail it: SSE
   POSTs still succeed, and the call waits for its caller's context. `EveryCallReturns`
   shows the other side: over stdio the pipe to an exited process is broken, so only a read
   loop that ended while the process lives (a frame it rejects) has this effect.
2. `gateway_abort`, `AbortedRunSaysSo` (`internal/agentruntime/runtime.go:287`). The
   integration test demands an "aborted final event" (internal/gateway/ws_integration_test.go:507)
   and tries it on a `!slow` run. A run aborted during the model call ends with "model error:
   context canceled", Done and not Aborted.
3. `workspace_removed`, `BootstrapIsRemoved` (`internal/workspace/files.go:126`). README.md:404:
   "`BOOTSTRAP.md` is one-time and removed after onboarding complete". A crash between the
   rename of the state and the removal leaves the file, and no later start removes it.

Known behaviour that the properties allow for, because nothing in the repository says
otherwise: two concurrent `ApplyProposal` calls may both apply a proposal (harmless for
what is detected in a message, theorem `ApplyTwiceIsOnce`); a user's patch of IDENTITY.md
with an empty value, or on a line without one, may take the next line, and a `$` in a value
is expanded (internal/profile/store.go:114-116); a request of an MCP server under a pending id reads
as an empty answer, and a JSON-RPC error in the body of a POST as a result; a failed read of a profile file is taken for an empty file; a
runtime goroutine stays blocked when its handler left early and more events are to come
than the channel takes (`EveryRunEnds` says exactly when); a transport that is not known,
`log.Fatal` and a signal outside of serving leave MCP clients, and their processes, open
(`EachExitLeaves` says which); the start waits for ever for a stdio or SSE server that is
up and silent, for one that never opens its stream or lives on after its stream has ended,
and for one that pages its tools without end (`Hung`); `main` returns while
handlers still run, which is a crash for them; a run may select from the list of another
run's scan, and is then told "unavailable" of a skill its own scan found (`InjectedIsFresh`
bounds this); a chunk whose answer was lost may be in the chat twice; a start interrupted while
seeding a new workspace never seeds `BOOTSTRAP.md`; a file that is saved between its check
and the write of its template, or whose check fails, is overwritten
(internal/workspace/files.go:191,204), although README.md:370 says that seeding "never
overwrites existing files" (`SeedSparesWhatItSees` says that nothing else is); two callers of `CompleteOnboarding` may
leave an unreadable state if a crash comes at the wrong moment.

## 5. The proofs

All proofs are checked by TLAPS with the Z3, Zenon and LS4 backends, for every value of
the constants that satisfies the modules' named assumptions (types of the bounds, that
model values are distinct), hence for any number of runs, calls, faults and crashes.

**`SessionsProofs`.** `TypeCorrect` ([]`TypeOK`), `RollingContext` ([]`ContextIsTail`: window
and count together are the messages consumed) and `GatewayNeverRebuildsInAppend`
([]`AppendFindsFreshState`). None is inductive alone: a rebuild folds messages into `work`
over many steps, and `AppendStore` writes the entry it finds. `IInv` adds `Holding`: whoever
is between those steps holds `mu`, `work` belongs to it and carries the current signature,
and a touched session has an entry; and `AllGood`, the window fact for map, disk and `work`.
The lemmas about `ApplyContextMessage` and `ClearContext` carry the content, the action
lemmas show who may disturb what. `EveryTranscriptHasAnEntry` ([]`NoOrphanTranscript`) adds
`Owned`: an entry in the file is in memory under the same id (`Names`), the id a run got
from Touch is in the file, and a rebuild keeps it.

The second half of the module relates every prefix of a transcript to the
context it yields. `Fresh` says that a run's records are written once and in turn, so that
no record to come is in a log yet. With `RebuiltSoFar` (a rebuild has gathered the readable
messages of the lines it is past) follows `RebuildGathersAll` (`RebuildReadsAll`). `Filed`: the
readable lines of a file follow the log, in its order, and only an unterminated last line
can be swallowed. `Ordered` says the same of every entry, and that a message that is written
but not yet folded comes after all that is folded: `GatewayKeepsOrder`
([]`ContextInTranscriptOrder`), for `DirectRuns = {}`. This assumption is what the code
does: `handleInbound` (internal/gateway/server.go:215-239) is the only caller outside the
tests, and asks for the context first. Of a direct run the append may rebuild from a
transcript that has its message already, and fold it twice; the run `sessions_history` has
one. `Kept` carries `AckedStaysInContext` ([]`AckedIsRemembered`): what was acknowledged is in the
map, the file and the work of a rebuild that is past it. `Losses` counts: each acknowledged
record that a transcript lost, and each torn line that may still cost one, has a failing
write of its own, which gives `LossesAreBounded` ([]`TornLineCostsOne`). In the same way
`LagInv` charges every message that memory or disk is behind with to a failing write or a
restart: `ContextLagsByFaults` ([]`ContextLag`), which needs `UniqueIds` (a SessionID names
one session). `Noted` is `NotesKeepTheTail`, the first half of `SummaryIsTail` (`NotesAreTail`):
a line appended to a tail, and any two cuts of it, leave a tail, whatever the widths. That it
fits to the byte (`NotesFit`) is model-checked: the sum of a sequence would need induction.

**`McpClientProofs`.** `McpTypeCorrect`, `AnsweredOnce` ([]`AnswerOnce`), `ResultsAreAnswers`
([]`SuccessIsAnswered`), `MapIsClean` ([]`ReturnedIsForgotten` and `ClosedClientIsEmpty`). `IInv`
is their conjunction with `Fresh` (what a call that has not registered cannot have),
`Filled` (a closed channel still holds its answer until its caller took it), `Sourced`
(every result under way comes from the server) and `Lanes` (which steps a transport takes).
`AnswerOnce` needs `Fresh`, `SuccessIsAnswered` needs `Filled` and `Sourced`.

**`ProfileProofs`.** `AtomicDocument` (`Spec => ServesDocument`): every step of the service is
a step of `ProfileDoc` or a stutter. The step that renames must write what the document
computes from the file as it is then. `Held` (only the lock's holder is between read and
unlock) and `Ready` (what it carries is up to date, and is what the temporary file holds)
say so. `ApplyTwiceIsOnce` speaks of the proposals in the store: a match
of their patch, once made, has a value, so it takes no line, and nothing is expanded. It is
false for a patch with an empty value, and the lemmas (`PatchedStays`) show where this is used. `AppliedOnce` (`ConfirmedOnce`) needs `Once`:
ids only grow, and one that was confirmed is not in the store any more.

**`GatewayProofs`.** `AbortFindsWhatRuns` ([]`ActiveRunsAreRunning`) and `NumbersHaveNoGaps`
([]`SequenceHasNoGaps`). `IInv` adds `Acknowledging` (a run being acknowledged has no handler
yet), `InHand` (a goroutine has a number in hand exactly while it is about to write) and
`Numbers` (no number is beyond the counter). `ClientSeesThePrefix` ([]`StreamIsFaithful`) and
`ClientHearsTheEnd` ([]`EveryRunReports`) rest on `StreamInv`: `Pipe` says that what the runtime
made is, in order, what the handler has taken, the channel, and what is yet to be pushed;
`Places`, which states handler and runtime goroutine are in together; `Stream`, that the
frames are the acknowledgement and the events told so far, all of them while writes
succeed. `OneRun` reduces each step to the run that takes it. `TranscriptKeepsWhatWasSaid`
([]`TranscriptFollowsChannel`) adds `OutInv`: up to which event of the runtime the handler has
passed on all that is not blank, and how far the transcript is with it; `SpokenUpTo`, a
count, takes the place of a filtered sequence.

**`WorkspaceProofs`.** `StateIsReadable`, `CompletionIsKept`, `LayoutIsSeeded`, `SeenContentIsKept` and
`BootstrapIsOneTime`: all the safety properties of `workspace_crash`. `IInv` has `Paths` (the
state file is never the temporary one, so a write to the latter leaves it alone), `Start`
and `Calls` (what booter and callers hold open and will write), `Seeded` (what the loop has
left behind it, and that the file it is about to write is missing, empty or `unseen`), `Unraced` (while no two callers meet, the one that writes has the temporary
file to itself) and `Kept` (a state that was finished
is there, and if it can be read it is complete).

**`DeliveryProofs`**, of poller and delivery together. `HandledOnce` ([]`DuplicatesAreIgnored`)
needs `Window`: the list names each id of the set once, so the two stay of one size when the
oldest goes, and an id that was handed over is in the set until it is evicted.
`NothingIsForgotten` ([]`ForgottenIsAnswered`) needs two halves. `PollInv`: no update below the
offset, or between those of a batch, is open, and what the API still holds are the latest
updates; so a getUpdates can only confirm what is final. `ReplyInv`, `Covered` and `Handled`:
the reply under way is that to the update in hand, the chat has every character that `Send`
is past, hence all of them when the handler returns. `ChatReadsInOrder` ([]`ChatIsInOrder`)
adds `Latest`: the last chunk in the chat is the one that is being posted, after fewer
repeats than attempts, or the one where the reply stands (`StandsAfter`). `ChunkIsCut` is the
lemma about `chunkTelegramText`: each chunk has at least one character and at most the
limit, for any text. It rests on the least and the greatest element of a set of numbers,
which exist by well-founded induction over sets, a form the provers can use.

**`DaemonProofs`.** `FanInIsSafe` ([]`NoSendAfterClose`) and `ExitsAreAccountedFor`
([]`EachExitLeaves`). `IInv` has `Stages` (`Close` runs only after the load failed or the
server stopped, from the first client on), `Drained` (a closed channel has no forwarder
left, and none can start) and `Kept`: each open client is one that `Manager.clients` holds
and `Close` has yet to reach, or the one `RegisterFromFile` has in hand, or the process
ended abruptly. `Open` is the other direction: while the load succeeds, every server before
the current one has an open client, and these are what an abrupt exit leaves. `ToolsHaveNamesOfTheirOwn` ([]`EveryToolIsReachable`) rests on `UniqueNameIsNew`:
among one more suffixes than there are names one is free, by the pigeonhole principle, and
the loop of `uniqueToolName` stops at the least. `ToolInv` then counts: each server has as
many names for a tool as places in its list it is past.

**`SkillsProofs`.** `SelectionIsAllowed` ([]`InjectedIsAllowed`) and `SelectionIsFresh`
([]`InjectedIsFresh`). The model ranks a set (`Ranked`: the element with i - 1 before it comes
i-th) where the code sorts a list, which gives the same order because the enabled names are
all different. `RankedInOrder` shows that the ranks in a finite set with a strict total order
are a listing of it: they are all different and below its size, so by the pigeonhole principle
each number is the rank of one element. The invariant has `Scanned` (wherever a list is, what
it enables was in a file, passed the gates and is there once), `Timely` (a list under way is
no older than the base of any run that has begun, so neither is the one the service holds when
the run selects) and `Result` (the same of what was injected). `OwnListHasReasons`: a name
that an unraced run asks for and does not get is missing or blocked in its own list,
never "unavailable".

Only model-checked: liveness (TLAPS has no ENABLED), `NotesFit`, and `NewerWalkIsExact` and
`OlderWalkIsComplete` of `History`, which filter a transcript by recursion over data.

## 6. Not modelled

- `streamable_http` MCP calls as such (they share no state; in `Daemon` one succeeds or fails).
- The gateway's methods that only read, `sessions.list`, `GetStatus`, profile `Get`.
- Router, tool policy, model clients, identity, soul, memory, auth: pure functions, file
  reads or single requests. The shell tool: one process with a timeout.
- Config, protocol types, logging, and the rest of the wiring in `cmd/nisixd`.
- The data race on `sessionToken` (`internal/gateway/ws.go:325`), which matters only to a
  client that connects twice.

## 7. Plan

1. Done: the modules, runs and proofs above.
2. Extend: an abstract specification of a session (an append-only list of acknowledged
   messages, of which the context is a function), implemented by `Sessions`; one of a call
   (asked, then answered at most once), implemented by `McpClient`; the output buffer of the
   shell tool and `Routing` as operators against a reference definition.
3. Prove: the two walks of `History`, with counts in place of filters; the refinements of
   item 2 once they are stated.
