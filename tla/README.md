# Verification of codex-cliproxy-gateway

This directory holds TLA+ models of the gateway in `src/`, the TLC runs that
check them on small instances, and theorems about them that TLAPS checks for
every instance.  Paths below are relative to `src/`; `PROJECT.json` maps every
definition to the lines it models, lists the runs and mutants, and lists the
hazards of the code with the properties that watch them.

## 1. Inventory

`agent-proxy` is a local gateway between the Codex desktop and CLI clients and
several model providers.  One process per runtime home (`serve`, kept alive by
launchd) listens on a local port; short-lived command processes (`models`,
`config`, `install`, ...) and a Web UI server edit the files of the same home
and ask the running gateway to reload them.  There is no lock and no database:
processes meet in files that are replaced by atomic renames, and inside the
gateway process everything runs on one thread, so that interleavings happen
where the code awaits.

| component | state | operations | what is hard | what makes it correct |
|---|---|---|---|---|
| Model reload (`model-reload.ts`, `gateway.ts` 1015-1052, 1504-1627) | notification directory, latest request, receipts, served configuration, static catalog file | request, poll, probe, reload, publish, confirm, clear, close | several processes, crash between two files, late answers | a notification is answered, "loaded" is true, receipts are not rewritten, files agree at rest |
| WebSocket bridge (`realtime.ts`, `gateway.ts` 463-512, 1433-1502) | two sockets, promise chain of frames, log reference | dial, upgrade, frame, summary, close | frames during an awaited summary, one side closing in any phase | order of frames, nothing after a failure, no half-open bridge, log released once |
| Sticky routing (`gateway.ts` 566-638, 713-747) | pinned threads, remembered turns | HTTP request, handshake, frame, eviction | HTTP and WebSocket requests of one thread interleave | a pinned thread and the images of its turns stay on the proxy |
| Request logs (`request-log.ts`) and process log (`process-log.ts`) | files, reference counts, sweep counter, rotated backups | retain, release, append, prune, rotate | shared session files, sweeps between writes | a file in use is kept, the number of files is bounded |
| Installation (`cli.ts` 866-1307) | config.toml, its backup, state.json, config.json, service, key, claim | install, update, change of mode, catch, uninstall | crash between two writes, one of eleven steps failing | the user's configuration comes back, edits survive |
| Codex ownership (`codex-ownership.ts`) | owner file of a Codex home | claim, adopt, undo, release | two installers racing, crash between link and unlink | one owner per directory |
| Settings of a home (`model-state.ts`, `config-update.ts`, `cli.ts` 767-803, 1413-1803, 2084-2335, `webui.ts` 596-862) | config.json, state.json with the mark of a due restart, selected models, static catalog, pointer in config.toml | sync, exclude, config, switch, start, stop, restart, the two saves of the Web UI | files written one by one with waits between, restarts that fail, a user's edit during an awaited rebuild | a failed save leaves no trace, a due restart is marked |
| CodeBuddy plugin (`packages/codebuddy/src`) | login files, snapshot, watcher, catalogs of the families | choose, deny, scan, list, refresh, restart | files rotated by other programs, overlapping refreshes | the right login, the right catalog |
| Qoder plugin (`packages/qoder/src`) | logins of two programs, one catalog per region, a request in the queue with its budget and its idle timer | ask, refresh, reload, retry, abort | the login changes between its three reads; several timers for one request | no model of another account, a demanded refresh is served, a queued request ends |
| Antigravity plugin (`packages/agy/src`) | login in keychain or file, catalog, the parts of a turn with their signatures | choose, list, refresh, forward, convert | the catalog changes while a request waits; signatures travel through the client | what is sent is in the list it was decided with, a turn comes back whole |
| OpenCode Zen plugin (`packages/opencode-zen/src`) | list, metadata and probes of models, table of renamed tools | list, refresh, reload, adapt, restore | three sources that fail apart; names that collide after renaming | known metadata stay, names lead back |
| ZCode plugin (`packages/zcode/src`) | key caches over the files of an application, published catalog, signature keys, an answer over several legs | watch, check, mint, publish, prune, sign, repeat, continue | late answers of the network over newer files; requests that share a handshake | the served key follows the files, a retry is fresh, what was shown is closed |
| Protocol bridge (`packages/llm-bridge/src`) | state of one streamed response; the history of one request | event in, events out; message in, parts out | order and completeness of a stream; turns that are joined | a well-formed, truthful response; a conversation that is kept |
| Migration of the default home, app-server control, plugin registry, client synchronisation, UI | files; processes of the system | migrate, scan, signal, match, render | crash in the middle | not modelled, section 8 |

How the parts meet:

- **Files of one runtime home.**  Commands and the Web UI write `config.json`,
  `state.json`, the catalogs and the notification directory; the gateway
  reads them at start and on every reload, and answers in
  `model-reload-result.json`.  `ModelReload` has the protocol of request and
  receipt, `HomeSettings` the files that a save writes and restores.
- **Files of one Codex directory.**  Installations of several runtime homes
  share `config.toml`, its backup and the owner file.
- **Calls inside the gateway.**  `gateway.ts` decides the route of a request
  (`decideThreadRoute`), hands it to the proxy, to the official upstream or to
  a plugin, and bridges WebSocket connections with handlers from `realtime.ts`.
  Every request and connection writes through `request-log.ts`.
- **Callbacks and streams.**  Plugins answer with `createClientResponse` of
  `packages/llm-bridge`: generators that pull from one another, driven by the
  client's reads, and stopped by an abort signal.
- **Files of other programs.**  The plugins read logins that other programs
  write, through watchers with a timer, and keep catalogs in files of the home.

## 2. Plan

| order | module | abstract specification | run | theorems | state |
|---|---|---|---|---|---|
| 1 | `ModelReload` | the meaning of a receipt, as invariants over `content`, `config`, `results` | `gateway` | types, no notification lost, "loaded" is true, agreement at rest, receipts stay | done |
| 2 | `WsBridge` over `FramePipe` | `FramePipe`: an ordered pipe that closes once | `gateway` | types, four safety properties, refinement | done |
| 3 | `ThreadRouting` | - | `requests`, `routing_images` | types, stickiness, official sessions, images | done |
| 4 | `RequestLog` | - | `requests` | types, held files stay, the directory is bounded | done |
| 5 | `Installation`, `CodexOwnership` | - | `home` | types, management is claimed, edits are kept, commands restore, claims hold and stay their own, releases are final | done |
| 6 | `ClientOutput` over `UpstreamEvents` | - | `answers`, `translation`, `stream_order` | types, order of the stream, true completion, custom input, arguments and result | done |
| 7 | `CodebuddyLogins`, `CodebuddyCatalog` | - | `agents` | types, catalogs belong to their account and are not lost, forced refreshes, locks and refusals hold | done |
| 8 | `QoderQueue`, `QoderCatalog` | - | `answers` | types, own catalog | done |
| 9 | `RequestConversion`, `AgyLoop` | the conversation, as a relation between a request and what is sent | `translation` | the request converted is the request made; a turn comes back with its calls, results and signatures | done |
| 10 | `AgyService`, `ZenService`, `ZenTools` | - | `services`, `services_names` | types, what is sent is in the list it was decided with, metadata are kept, tools come back | done |
| 11 | `ZcodeKeys`, `ZcodeCatalog`, `ZcodeForward`, `ZcodeAnswer` | - | `zcode`, `zcode_key` | types, the key follows, a retry is fresh, the catalog follows, answers close | done |
| 12 | `HomeSettings` | - | `services` | failed saves restore, homes rest | done |
| 13 | `DefaultMigration` (`default-install-migration.ts`), with the owner file of 5 | a transaction: all or nothing | with `home` | undo order | later |
| 14 | `PluginRegistry`, `ProcessLog`, `AppServers` | - | beside the others | - | later |

A module that composes others is written where the parts really share state:
`WsBridge` composes the handshake, the message handler and the log reference of
one connection; `ClientOutput` composes a parser with an output;
`CodexOwnership` composes any number of commands of different homes;
`HomeSettings` composes commands, the Web UI, the gateway and the user over one
home.  Components that share nothing are only checked together: a module
`MC...` extends several of them, and a behaviour of its specification is one of
one part (`part`), beside which the others rest in a state of their own.  That
says nothing new about either; it lets one run ask related questions.

Modules are written without RECURSIVE operators, with parameters as constants
under named assumptions, one action per operation or handler step, and
invariants made of named parts, so that the same definitions are checked and
proved.

## 3. The modules

A name in brackets is the code an action stands for; `PROJECT.json` has the
lines.

### ModelReload

Parties are processes: savers (a run of a command, or a save in the Web UI) and
gateways of one home.  State: `config.json` as the sequence of its writes
(`content`), the static catalog as the write it was derived from, the
notification directory (`queue`), `model-reload-request.json` (`latestReq`),
the receipts (`results`), and for each gateway its reload chain.  A saver
prepares, saves, writes the catalog, queues its request, writes the latest one,
probes `/healthz`, and polls for a receipt until it sees it or gives up; the
Web UI then restores what it replaced.  A gateway boots, binds its port,
publishes once the agents are ready, and runs rounds: read the latest request,
list the directory, read `config.json`, publish, write receipts, remove
notifications.  Each file operation is a step.  Crashes, stops, killed savers
and failing rounds are bounded by `MaxFaults`.  The gateway is in
upstream-only mode, where it owns the static catalog.

The heart is `LoadedMeansServed`: a receipt "loaded" for a save means that the
listening gateway serves that save or a later one.  It rests on the order of
two reads (the directory before `config.json`) and on there being one gateway
that listens; `NoRequestLost` and `ReceiptNeverRewritten` say that no
notification is removed without an answer and no answer is changed;
`QuiescentAgreement` that in the end the three copies of the settings agree.

### WsBridge and FramePipe

`bridgeUpstreamWebSocket` dials first and upgrades the client afterwards;
`stage`, `client`, `upstream` and `relaying` follow that, and `chain`,
`summary` and `passed` the promise chain of text frames on a connection to the
proxy, in which a frame that asks for a compaction is held until an HTTP
request is answered.  A frame is one of the four kinds the handlers tell
apart.  `FramePipe` is what a client may rely on: frames come out in the order
they went in, some may be refused, and after the end nothing comes out.
`FramesPipe` states that `WsBridge` implements it under a mapping.  The queue
of the handshake (`realtime.ts` 559-561, 659-666, 695-703) has no action: after
a successful dial the upstream is never CONNECTING, so that code is not
reached.

### ThreadRouting

The two memories of the gateway (`cpaThreads`, `cpaTurns`), the decision
`decideThreadRoute` for requests, images and handshakes, the frames of open
connections with their reconnects (close code 1012), the eviction of turns at
`MaxTurns`, and a restart that forgets everything.  `answer` is the last
decision, and properties are about steps: a session that was pinned stays
(`SessionStays`), one that never was is not diverted (`OfficialNotDiverted`),
and images go where their turn went (`ImagesFollowTurn`).

### RequestLog

File names, which exist, in which order they were written, which connection
holds which, the counter of writes and the sweep.  `Due` and `Counted` are the
arithmetic of `SWEEP_INTERVAL` and the limit.  Two files with one mtime are put
in some order.

### Installation

One home: `config.toml` (the gateway's address, and the rest, which the user
edits), its backup, `state.json`, `config.json`, the service definition, the
loaded service, the key and the claim.  `install` is eleven steps with a
failure after any of them, the catch is seven, `uninstall` six; `Crash` may
come anywhere.  One command runs at a time.  `UndoFiles` restores the log and
catalog files in one step.

### CodexOwnership

Any number of homes and one Codex directory: the owner file under its new and
its old name, and for older installations the evidence in `state.json` and in
service definitions.  Every look and every write of a command is a step, and
commands of different homes interleave freely.  An owner file is the home it
names; "the same inode" is "made by this command and not replaced since".  The
error paths are those of the code: an update that fails before it knows whether
`config.toml` needs a change writes back the copy it read, in either mode
(`OwnFail`, `OwnUndoToml`); an install that found a claim in its way, which is
gone at the second look, goes on without one (`LinkExists`, remembered as
"gone"); and a command may die between any two steps, those of `uninstall`
included.

### UpstreamEvents and ClientOutput

`UpstreamEvents` is the four parsers: frames of a provider, or one JSON
document, become events.  Each `Read...` action is a frame of one kind with
what the parser remembers of it; texts are kinds, the arguments of a call are a
number of pieces, and whether they can be read is chosen with each piece.
`ClientOutput` is the generator of one of the four outputs with the Responses
shell, and the client: a `Take...` action is one event, `SourceEnds` and
`SourceThrows` what the loop does when the parser stops, `Pull` a chunk that
goes to the client, `Abort` the signal and `Cancel` the client.  `added`,
`done`, `got` and `status` are what the client has seen.  A response is taken
from one provider, the identities of the tools are given (every plugin passes
them), an unknown stop reason is an error (the default), and identifiers of
calls are unique in a response and not those of the items of text and thinking
(`StreamAssumption`): the shell keeps its items by the identifier of a call,
`"message"` or `"reasoning"` (output.ts:159, 201, 237), and a provider that gave
a call one of these two as its identifier would have it taken for the other.
The aggregated answer (`stream: false`) runs
the same generators to their end and is not modelled apart.  `Conclude` keeps
two checks of the code that the parsers never let happen (a missing
`message_end`, a custom call without an end in a complete response).

### CodebuddyLogins and CodebuddyCatalog

Both are the CodeBuddy plugin.  `CodebuddyLogins` has the directory of login
files that other programs write (`dir`), the snapshot taken at the last scan
(`snap`), the watcher and its timer of 100 ms (`watching`, `due`), and
requests: `Choose` takes a login from the snapshot and scans again if there is
none, `Deny` scans after a refusal and sends once more if the token has
changed.  The rules of the choice (`Newest`, `Locked`, `Automatic`,
`ForProduct`) are operators on a directory; so are the login that is shown and
the list the user picks from.  The properties state the rules a second time,
without an order of files (`Rightful`).  `CodebuddyCatalog` has, for each
family, the catalog in memory and in the file of its product, the time before
which it is not asked again, the round of fetches in progress, and the callers
that wait for it.  `newest` and `forcedSince` are history.  What is between two
awaits of the network is one step; so a caller never asks in the microtask
between the end of a round and the reset of its variables.  The two share no
state that matters: a change of login is `Switch` in the second.  A record of
a login has a token that is different for each; a file is written as a whole.

### QoderQueue and QoderCatalog

Both are the Qoder plugin.  `QoderQueue` is one request from `infer` to the
first frame with content: each kind of frame the peeking reader tells apart is
an action, `Retry` the arithmetic of the delay, and time passes in ticks
(`left`, `nap`, `silent`); a timer may fire late.  A request is sent at most
once at a time (`streams`).  `QoderCatalog` is one region: the login files of
the two programs, which change at any moment; the catalog in memory and in the
one file of the region; the round of fetches with `forced` and `pendingForce`;
and requests, which read the login first (`Ask`), again for the catalog
(`List`), and once more before they go out (`Send`).  What is between two
awaits of the network is one step, except for these reads.  The identities of
the two programs are disjoint, as in the code; `QODER_FORCE_DESKTOP` is not
modelled.

### RequestConversion

`convertRequest` as a builder that takes one message of the history after the
other, an action for each thing a source loop may meet (`UserSays`,
`AssistantSays`, `ConvCalls`, `Answers`, ...), for each of the four protocols a
request may come in.  The joining of neighbouring turns (`AppendAssistantText`
and its like), the pairing of results with calls, and the registry of safe
names are operators on the prompt; `ConvClose` declares the tools that are left
and writes the body for the protocol it goes out in.  The bounds are the
messages (`MaxMessages`) and the tools declared (`MaxDeclared`); what a message
says is one word.  A Gemini call may have no identity: it gets one,
`gemini_call_...`, and a result without one is paired with the oldest call of
its name that waits (section 7).  It is assumed that no client gives such an
identity itself (`ConversionAssumption`); request.ts does not check it (line
1026).  `ConversationKept` states what must be kept without the builder: the
parts, in their order.

### AgyLoop

One turn of a conversation with the Antigravity plugin, there and back.  The
upstream makes parts (`agyMade`: text, thinking, calls, each with or without a
signature); they become items, the items become a message of the client's
protocol, the client calls its tools and sends the turn back, and the history
is converted to parts again, item by item (`Converted`).  A signature that has
no text to stand with travels as an item of its own, an envelope; to an
Anthropic client it is a thinking block of its own.  `TurnComesBack` compares
the parts that go up with those that came down, `SignaturesReturn` each call
with its signature, where the client's protocol keeps them apart.

### AgyService

The choice of a login (`Who`: the keychain while its token is good, else the
file), the catalog store with its round, its cooldown and its file, the
metadata that a request resolves a model with (`meta`), and requests.
`Forward` refuses a request without a good login, loads the metadata if there
are none, and decides; `Decide` admits what the list has (`Admits`), names the
tier (`Named`, `ResolveTier`), asks for the catalog once when the list does not
have the model (`Again`), and after that counts only names that have moved;
`Ready` is the continuation after a round, which adopts the catalog of the
login there is by then.  Models are a family of tiers, models without tiers,
and names that have moved.  A request keeps the name it asked for (`asked`) and,
as history, the catalog it was decided with (`by`); `hadOffers` is the history
of what the upstream has had for each account.

### ZenService and ZenTools

`ZenService` is the catalog of OpenCode Zen: a round fetches the list, then the
metadata, then probes what neither of them decides; each may fail, and the
round goes on with what was known.  `ZenTools` is the way of the tools of a
request: a tool `read` is added, refused pairs of names are broken, the list is
cut, and a table leads from each name upstream to the tool of the client.  A
name is a base and what was done to it, because the passes tell names apart in
different ways (with and without case, by a part).

### ZcodeKeys, ZcodeCatalog, ZcodeForward and ZcodeAnswer

Four parts of the ZCode plugin.  `ZcodeKeys` is one cache of the key of a plan
over the files of the ZCode application: events, the dirty marks, the check
with its debounce, the promise that mints a key with its generation, expiry,
and close.  An event may come without the name of its file: then every file is
dirty, and nothing is dropped before the check (`DirtiedBlindly`; `blind`
remembers that it met a promise).  A minted key is kept with the login whose
fingerprint it `bears`, which for a team is that of the credentials as they
were read last.  `ZcodeCatalog` publishes the union of what all caches offer, and
prunes the models cache of Codex.  `ZcodeForward` is a request with its shared
handshake, the one repetition after a refused signature, the legs that continue
it, and its release.  `ZcodeAnswer` is the answer: blocks become items, a call
of `analyze_image` is run by the gateway between two legs, and the client pulls
one event at a time.

### HomeSettings

The files of one home as a record `home`: the settings of `config.json`
(mode, a setting that needs a restart, selected and excluded models), the copy
and the mark and the hash of `state.json`, `config.toml` as its pointer and its
number of edits by the user, the list of selected models and the static
catalog, named by the settings it was made of.  `job` is what the command and
the save of the Web UI under way know; the code between two awaits is one
step.  A command or save reads, waits for the user or the network, remembers
the files (`saved`), writes, updates the catalog (`BeginUpdate` up to the await
of `updateCodexModelCatalog`, `UpdateDone` and `UpdateFails` after it), and
asks for a reload or a restart; `CliRestored` and `UiRestored` are the two
roll-backs, which differ.  The gateway loads, clears the mark, publishes and
reloads, launchd starts it again when it dies, and `Kicked` may fail.

launchd may start the gateway at any moment of a save, and the restart that the
Web UI schedules after a failed save may fail too (`TimerFires`): `gw.lost`
(history) remembers what got lost since the gateway started, a mark or the
catalog it published.  `met` remembers of a command or save whether a gateway
published meanwhile.  The one restriction is the constant `Overlap`: no lock
keeps a command from running beside a save of the Web UI, and `Overlap = TRUE`
lets it; the run and the theorems about saves have it FALSE (section 7).

## 4. What the runs check

Bounds are in the `.cfg` files; each run is exhaustive for its instance.  Where
a run has several parts, each has the instance given for it.

| run | instance | question | why it is enough |
|---|---|---|---|
| `gateway` | 1 command, 1 Web UI save, 1 gateway, receipts of length 1, 1 fault; 1 connection with 5 frames; fair | is an answer true, does every request get served in the end, and do the files agree? does one connection pass frames in order, never stay half open, and end? | two savers race for one place in the receipts; a fault may be a crash at any step; any number of gateways and savers is proved.  Three frames give one summary with one frame before and one after it; five let a second wait in the chain |
| `requests` | 2 threads, 3 turns with room for 2, 1 connection; 6 log files, 2 connections, limits 1 and 2, sweep each 2nd write | does stickiness hold, and only where it should? are files in use kept, and is the directory bounded? | parent and child are two threads; the third turn evicts the first.  The limits lie below and at the sweep interval; two connections share a file |
| `routing_images` | 1 thread, 2 turns with room for 1 | violation, see section 7 | |
| `home` | 2 ports, 2 builds, 1 key, 1 address of the user, 1 edit, crashes; a default home and another one | do install, failure, update, uninstall and crash leave the user's configuration intact? does each home work under a claim of its own, which no other takes away? | an update changes port or build; commands repeat without bound.  The hazards are between two homes, of which a default one leaves other evidence |
| `answers` | 1 call, 2 texts or pieces, texts and refusals; budget 4, delays 1 and 2, idle limit 3; 1 login of either program, 1 request, 1 refresher, 2 changes of login; fair | order, arguments, outcome and end of a response under abort and cancel; does a Qoder request end, and use its own catalog? | two pieces can be swapped, doubled or dropped; all 32 combinations of protocols and formats; two naps fit the budget and the idle limit lies between; a change of either file changes the login, and requests and refresher start rounds for one another |
| `translation` | 3 tools of which 2 get one safe name, 2 identities of calls, histories of 3 messages; 3 tools of which one takes free text, 2 signatures, turns of 4 parts; 2 streamed calls | is a conversation kept by the 16 conversions? does a turn come back through the client? when is a client told to run a call, and that a response is complete? | a call, its result and a text or a second call are three messages; names collide; four parts have two signed calls with something between; one call may be unknown, broken or custom while the other one is not |
| `stream_order` | 1 call, 1 text | violation, see section 7 | |
| `agents` | 2 login files out of 4 records, 3 settings (automatic, an account, a file), 1 request, 1 write and 1 lost watcher; 2 families of one file, 2 accounts, 2 callers, 1 change of account; fair | does a request use the right login, and a caller get the right catalog, in the end? | two files order all comparisons, the records differ in one field at a time; two callers join, force and overtake one another; families of other files are independent |
| `zcode` | 2 channels, 2 accounts, of which one has its key on disk, 3 writes; the free plan and 1 provider, 1 model, 2 readers, 2 changes; 2 requests, 2 handshakes, 1 retired key, 1 continuation; 2 blocks at a time, 5 in all, 1 continuation | does the key follow the files, does the catalog follow the caches, is a retry fresh, is everything closed? | a write is overtaken by a second and checked after a third; two readers read while a cache publishes; two requests share a handshake, one retry falls into the other's; blocks of the second leg follow those of the first |
| `zcode_key` | 2 accounts | violation, see section 7 | |
| `services` | 2 commands or saves one after the other, 1 edit, 1 exit of the gateway, both modes, in which a home with a `config.toml` of the user's own begins in the other one; a family of 3 tiers, 2 accounts with different offers (the low and the high tier; the middle one and a single model), 1 change; 3 models of OpenCode Zen, 1 change; 3 declared tools, limit 3 | does a failed save leave no trace, is a due restart marked? is what is sent in the list it was decided with? do metadata survive a failure? does every name lead back? | the second save meets what the first one left, done or failed, in every state of the gateway; the account changes, or its offers do, while a request waits, and the tier asked for is in no list or in the other account's; one metadata document knows what the other one does not; three names are a refused pair and one in the way of its renaming |
| `services_names` | the tools of `services` | violation, see section 7 | |

Deadlock is checked in `home` and `agents`; the others say `CHECK_DEADLOCK
FALSE`, because a connection, a request, a response or the changes of a bounded
instance are over in the end.

What the properties say:

- **Reload.** `LoadedMeansServed`: a receipt "loaded" for a save means that the
  listening gateway serves that save or a later one.  `ReceiptNeverRewritten`:
  no answer is changed.  `QuiescentAgreement`: in the end the three copies of
  the settings agree.  `RequestIsServed`: whenever a request is on disk there
  comes a time at which all requests are served at once, or answered "failed".
- **Bridge.** `NeverHalfOpen`: there is no client without an upstream or the
  other way round once the handshake is over.  `FramesPipe`: it implements
  the pipe.  `EndTogether`: when one side ends, so does the other.
- **Routing.** `SessionStays`, `OfficialNotDiverted`, `ImagesFollowTurn`, as
  properties of steps (section 3).
- **Logs.** `DirectoryBounded`: at most the limit, the sweep interval and the
  files in use.  `HeldFilesStay`: what a sweep may not remove.
- **Installation.** `ManagedHasClaim`: a home whose `state.json` manages
  `config.toml` holds the claim.  `EditsSurvive`: no command takes back an edit
  of the user's part of `config.toml`.  `CommandsRestore`: uninstall leaves
  the address the user had, and a failed install leaves every file, the service
  and the claim as they were.
- **Ownership.** `ClaimHolds`: a managed install writes `config.toml`, and
  undoes what it wrote, only under an owner file that names its home, unless it
  met a claim that was gone when it looked whose it was.  `ClaimsAreOwn`: a
  claim comes and goes only by steps of the home it names, and while
  `state.json` says that this home manages the directory only the failed
  command that made the claim takes it back.  That nobody but the manager
  changes `config.toml` is not true of this code and not claimed (section 7).
- **Streams.** `TrueCompletion`: "completed" is said only when the provider
  said it in the way of its protocol, all items are closed then, and a turn
  that ends for its calls has one.  `CustomInputWhole`: input to be run is
  given as a whole and not before the response is over.  `AnswerWhole`:
  arguments come whole and in order, and the client's view agrees with the
  result that is logged.  `StreamOrder`: the client's view is well formed.
  `AnswersEnd`: a silent provider keeps neither an aborted response open nor a
  queued request waiting.
- **Qoder.** `QoderServes`: a request goes out with a model of the account
  it goes out with, and a demanded refresh that reports success has seen a
  forced fetch.
- **Agents.** `LockHolds`: no request goes out with a login of another account
  while the configured one can be found.  `RefusalsAreCurrent`: who is refused
  is refused on the strength of the files as they are.  `ShownIsUsed`: what the
  user sees is what is used.  `LastGoodServed`, `ForcedIsServed`: a catalog is
  kept, and fetched anew when that is demanded.  `AgentsSettle`: a watched
  directory becomes known, and every call for a catalog returns.
- **Conversion.** `RequestConverted`: the turns and parts of a conversation and
  the identities of its tools are those of the request that was made.
  `TurnReplayed`: the calls of a turn, their results and their signatures come
  back to the upstream (with the exceptions of section 7).
- **ZCode.** `KeyFollows`: once nothing is under way, a key that is served is of
  the selected channel and, for an API key and a team, of the account the files
  name; no caller waits for a check or a promise that is gone.  A key of a team
  that was asked for before an event without a file name is excepted
  (section 7).  `CatalogFollows`: a listing
  during which nothing changed serves what the caches offer, and no step leaves
  in Codex's cache what is not served.  `RetryIsFresh`: no repetition with a
  signature that was refused; every request is released, and logged once.
  `AnswerCloses`: a completed answer has closed everything it showed.
- **Antigravity and OpenCode Zen.** `SentIsModel`: a request goes out for a
  model of the list it was decided with, and this list the upstream has had for
  the account whose catalog it is; a successor is sent only for a deprecated
  name that the catalog known at first did not admit.  `MetadataKeeps`: a round without metadata hides no model
  that is still listed.  `ToolsRestored`: names upstream are distinct, lead
  back, and contain no refused pair.
- **Settings.** `HomeAtRest`: when nothing is under way, all files say the same
  (`FilesAgree`), and a running gateway has the settings of `config.json` or
  the mark is set (`DueIsMarked`).  Of a mark, two ways around this are named
  in the property: a gateway that starts clears a mark set for settings newer
  than those it read, and the restart after a failed save fails as well.  Of
  the static catalog there is one more: a save that fails may put back an older
  one than the gateway has published.  `FailedSaveRestores`: a failed save
  leaves settings, list and pointer as it found them.

The type invariants are no properties of these runs, because the theorems of
section 6 state those of the modules with proofs for every instance; the others
were checked with TLC apart.

Every property of a passing run has a mutant in `PROJECT.json`: a definition
changed in the way of a plausible bug, under which TLC finds the property
violated.  The changed definitions stand beside the originals, marked
"Variant".

## 5. Fairness

- **Gateway** (`GatewayFairness`, in the run `ReloadFairness`).  launchd's
  `KeepAlive` starts the process again (`launchd.ts`), so booting and binding
  are fair; a poll timer of 250 ms starts rounds (`gateway.ts` 1504-1627) and
  the awaits of a round settle, so the steps of the chain are fair.  Savers are
  not: a command may be killed, and no property depends on one going on.
- **Bridge** (`WsFairness`, in the run `BridgeFairness`).  The dial has a
  timeout, the continuation after it runs, and a socket that left OPEN gets its
  close event.  Nothing is assumed of the compaction request, which has no
  timeout, nor of either peer.  In the run the fairness of each part is
  conditional on the part: a poll is always enabled, and a condition on it
  would exclude every behaviour of the bridge.
- **Streams.**  The client reads on, generators run when they can, and a read
  whose abort function was called ends (the abort signal of the upstream fetch
  rejects it).  Nothing is assumed of a provider that was not aborted.
- **Agents.**  The timer of a scan fires, every fetch ends (the runtime ends
  one without an answer after some minutes; the code sets no limit), and
  continuations run.  A restart may come at any time, so `CallersReturn`
  excepts a gateway that restarts for ever.
- **Qoder's queue.**  Time passes and the timers of the pause and of the idle
  limit fire; nothing is assumed of the provider or the client.
- The other modules have no liveness property: their actors are commands and
  requests that may stop anywhere.

## 6. What is proved

TLAPS checks these for every value of the constants that satisfies the named
assumptions.

The proofs stand in eight modules: `GatewayProofs` (reload and bridge),
`RequestsProofs` (logs, routing, conversion of requests, a turn there and back),
`HomeProofs` (installation, ownership of the Codex directory), `CatalogProofs` (CodeBuddy, Qoder), `ServicesProofs`
(Antigravity, OpenCode Zen and its tools, settings), `ZcodeProofs`, `UpstreamProofs` (the
parsers of the bridge, lemmas only) and `StreamProofs` (its outputs).

| theorem | says | argument |
|---|---|---|
| `TypeCorrect`, `RequestsAreKept`, `LoadedIsServed` | types of the reload; no notification is lost, for any number of gateways and savers; a receipt "loaded" is true, for one gateway | a revision that a round is about to confirm was in the directory when it was listed, and its save was on disk before it was queued; the round's `next` is read after the list, and versions only grow, so `next` is at least the save of every revision of the batch; `config` reaches `next` before a receipt is written |
| `QuietAgreement` | `QuiescentAgreement`, for one gateway | the last write of `config.json` belongs to a saver that is done, so it asked and its notification was answered, or to a roll-back (`AskedInv`, `LastWrite`); the round or the start that read it last published it, and the catalog is older than that only while somebody's write of it is still unanswered (`RoundInv`, `RunsInv`) |
| `ReceiptsStay` | `ReceiptNeverRewritten`, for one gateway | a round that is under way answers nobody who has a receipt: it leaves out who has one when it starts, and nobody else writes receipts (`ReceiptInv`) |
| `BridgeTypes`, `BridgeNeverHalfOpen`, `BridgeLog`, `BridgeSummary` | the safety properties of the bridge for any number of frames | the invariant ties `stage` to the states of both sockets, and says that the numbers in `passed`, `summary` and `chain` are, in this order, increasing |
| `BridgeImplementsPipe` | `WsBridge` refines `FramePipe` | every step maps to one of the pipe or to a stutter, from the same invariant |
| `RoutingTypes`, `SessionsStay`, `ImagesFollow`, `OfficialStays` | routing for any threads, turns and room | a turn with fewer than `MaxTurns` later turns is still in the memory: the later ones are exactly those behind it, a sequence without repetition |
| `SessionsKeepFiles`, `LogTypes` | no sweep removes a file a connection holds, for any limit and interval; types of the logs | candidates are taken from the files without a reference |
| `DirectoryStaysBounded` | `DirectoryBounded` | the files written since the last sweep are at most as many as the counter says, and those before are what the sweep left: the limit and the files in use (`CountInv`).  What a sweep keeps is counted by a function that gives each file its rank by age, which is an injection, and each file in use its connection, which is one too |
| `InstallationTypes`, `ManagementIsClaimed` | types of an installation; `ManagedHasClaim` | what the running command knows (`cmd.before`, `claimed`) agrees with the files at each of its steps, also in the catch |
| `EditsAreKept` | `EditsSurvive`, with `EditWindow = FALSE` | the copy a command holds, the backup and the hash in `state.json` all carry the rest of `config.toml` as it is |
| `CommandsRestoreAll` | `CommandsRestore`, with `EditWindow = FALSE` | for each place in a command and each file, whether the file is as the command found it or as it writes it (`FoundState`); so at the end of the catch nothing is left that was not undone.  For uninstall: the managed keys as the user last set them are in `config.toml` or, while this home manages it, in the backup of `state.json`, until a command dies (`KeysKnown`) |
| `OwnershipTypes`, `ClaimsHold`, `ReleasedForGood` | types of the ownership, `ClaimHolds` and `NoRevival` for any number of homes; the two names of the owner file never disagree, and a claim that a command made stays its own until it gives it up | one lemma per action for the home that moves, and one frame lemma for all the others: an owner file is made and removed only by the home it names |
| `ClaimsStayOwn` | `ClaimsAreOwn` for any number of homes, without a hypothesis | what a command is about to remove or rename it has found to be its own or nobody's, and no other home can have changed that since; a home whose `state.json` manages is not past the point where uninstall or a change of mode gives the claim up |
| `LoginsTypes` | types of the login part, and no request carries a login of another region than its provider's (`RegionHolds`) | whatever the setting, the rules of the choice take their candidates from `ForProduct` |
| `LocksHold`, `RefusalsHold`, `ShownLoginsAreUsed` | `LockHolds`, `RefusalsAreCurrent` and `ShownIsUsed` for any set of login files | the rules of the choice are shown to find the login that the properties describe without an order: a finite set of logins has a newest one, by descent from a smallest counterexample, and it is unique; a scan has made the snapshot what the directory is, or nobody has written since |
| `CatalogTypes`, `CatalogsAreOwn`, `LastGoodKept`, `ForcedServed` | types, `OwnCatalog`, `LastGoodServed` and `ForcedIsServed` for any accounts, families and callers | the catalogs in memory and on disk and those in a round that has not ended are honest, that is, they name the account they were fetched for (`Honest`); a catalog once kept stays or is replaced (`HeldInv`); a caller that forces a refresh waits for a round that started after it asked (`ForcedInv`) |
| `QoderTypes`, `QoderServesOwn` | types of Qoder's catalog; `QoderServes` for any logins, models and callers | who waits for a forced refresh saw a forced fetch begin after it asked, or one is due; between the first and the last read of a request's login lies at most the changes it counts, so one that finds the login it began with has the list of that login (`AskerOK`) |
| `ServiceTypes`, `SentModels` | types of `AgyService`; `SentIsModel` for any families, accounts and catalogs | every catalog in memory, on disk, in the metadata or kept by a request is a list the upstream has had for its account (`hadOffers` only grows); a name that a list admits is resolved to a model of that same list, for a merged family has a tier that is there; and what is decided stays, with its list, until the request is over (`Admitted`) |
| `ZenTypes`, `MetadataKept` | types of `ZenService`; `MetadataKeeps`, whatever another process writes into the file | until a round has metadata, the metadata and verdicts it works on are those of the catalog in memory (`CarriesOver`) |
| `ZenToolsRestored` | `ToolsRestored` of `ZenTools`, for any names, refused pairs and limit | what is converted, added, cut off and left out keeps the client's own names, each once, and the limit (`Own`); a renamed tool takes a name that no tool has, those renamed before it included, and there is one, for fewer names are taken than are tried (`FreshIsFree`).  So the names of the list differ, no refused pair is left, and the table leads back (`TableLeadsBack`) |
| `RequestsConverted` | `RequestConverted` of `RequestConversion`, between any two protocols, for any tools and any history | the prompt with the turn that is being joined is, part for part, what the client has said so far, with names mapped and a result behind its call (`Conversation`); a safe name stands for one tool from its registration on (`RegistryOK`), and each identity for the one call that was made with it (`NamesOK`), so what waits in `unanswered` has been called.  The parts of a list of messages are a fold; that it exists, and that appending a message appends its parts, is shown from a smallest counterexample |
| `TurnsReplayed` | `TurnReplayed` of `AgyLoop`, for any tools and signatures and any length of an answer, to each of the four clients | what the client has is the calls that were made, in their order; to a Responses client an envelope goes right before the call it signs, to an Anthropic client whose only signed call is the first there is the one (`LoopInv`, of `Answer`, `Conversed` and `Signed`).  Each client's history is such a turn with its results.  What is read of it so far has the calls up to there, each once and with the signature that was waiting (`Taken`, `Before`), and behind them each result answers a call that had no answer yet (`Answered`).  The four folds are recursive functions: that they exist and go on piece by piece is shown from a smallest counterexample |
| `SavesRestore` | `FailedSaveRestores`, with `Overlap = FALSE` | for each place of a save: what it has written so far, and that what it found is in `saved` and `began`, older than the user's edits (`SaveInv`) |
| `HomesRest` | `HomeAtRest`, with `Overlap = FALSE` | on top of `SaveInv`: a gateway that is up runs with the settings on disk, or the mark is set, or a restart or the save under way will see to it, or `lost` says which of the two ways around the mark was taken (`RunningInv`, whose part for one save is `ServiceOK`) |
| `ForwardTypes`, `RetriesAreFresh` | types of `ZcodeForward`; `RetryIsFresh` for any requests and any size of the cache | the cache has one handshake for a key, and it is younger than the one the service refused a request that asks again: the refused one was taken out, and handshakes are numbered as they begin (`FwdInv`) |
| `KeyTypes`, `KeysFollow` | types of `ZcodeKeys`; `KeyFollows` for any logins and callers | what a check has read is still true, or a write is noticed or under way; the key in the cache is of the channel picked then and, for a team, of the account whose fingerprint it bears, unless a nameless event met its promise; a caller waits for the check or the promise there is (`KeyInv`) |
| `OffersTyped`, `CatalogsFollow` | types of `ZcodeCatalog`; `CatalogFollows` for any plans, providers and readers | what is served is the projection of what was published last, and Codex has nothing beside it (`Imposed`); a listing that nothing disturbed has of each route it read what its cache answers, and the routes are those of the providers there are (`CalmReads`) |
| `AnswersClose` | `AnswerCloses` of `ZcodeAnswer`, for any blocks, continuations and items | what the client was told, the events due and those a `message_stop` holds back together add every item and close every item that is not in progress (`Shows`); what is in progress has an open block, so that when no block is open only searches without a result are left (`Blocked`); cards of calls and of results differ by the calls that were shown and not yet run (`Answered`); the terminal event is the last (`TerminalLast`) |
| `StreamTypes`, `StreamIsOrdered`, `CompletionIsTrue`, `CustomInputIsWhole`, `AnswerIsWhole` | types of `ClientOutput` and `UpstreamEvents`; `StreamOrder`, `TrueCompletion`, `CustomInputWhole` and `AnswerWhole`, between every two protocols, for any calls and any length of the stream | see below |

The streams.  A client's view depends on events that the parser may have given
long ago or not yet, so the invariant (`Safe`) follows them all the way.
`ReadInv`: the events in the queue are a *run*: they bring each call from where
the output has it (not begun, open, ended, and so many pieces) to where the
parser has it, one event after the other; an end or an error is the last event,
and an end that is no cut tells what the provider said.  `FrameInv`: of the
frames to come a terminal is the last, there is one, and it is the result the
final promise has or will get; what an abort left in the Responses shell is the
exception, and `orderly` says when it cannot be there.  `FlowInv`: the items, the
calls suppressed and the input the shell keeps are where the events taken
brought the calls.  `EndInv`, `ItemInv` and `GotInv` relate the end that was
taken, the items and the pieces of arguments to what the client was shown and
to the frames on their way to it.  The parser has one lemma for each kind of
frame, the output one for each action.

Each invariant was checked with TLC before it was proved.  An inductive
invariant is needed because the properties speak of what was answered, sent or
claimed, while the steps depend on what each process remembers: it states that
the memory agrees with the files.  The hypotheses are those of the runs: one
gateway in `gateway` (`SoleGateway`), no edit while a command waits
(`EditWindow = FALSE`) and no command beside a save of the Web UI in `services`
(`Overlap = FALSE`); section 7 says what happens otherwise.  The theorems about
the ownership have none.
`NoRequestLost` of the reload, `SummaryInOrder` of the bridge (nothing overtakes
a frame whose summary is awaited), `LogHeldUntilOver` (the log reference lasts
exactly as long as the connection), `NoRevival` of the ownership, `OwnCatalog`
of the catalogs and `RegionHolds` of the logins are proved and in no run.
`OfficialStays` proves `OfficialNotDiverted`, `SessionsKeepFiles` proves
`HeldFilesStay`.

Only model-checked:

- liveness, `ENABLED` and fairness (`RequestIsServed`, `EndTogether`,
  `AnswersEnd`, `AgentsSettle`), which are out of the provers' reach.

Every other property of a run that passes is stated by a theorem of the table.
What a recursive definition computes for every input is beyond the provers in
general.  `RequestConversion`, `ZenTools` and `AgyLoop` fold lists with
recursive functions whose domain is the numbers up to the length, and these can
be reasoned about: a statement that holds not for all lengths has a smallest
length for which it fails.

## 7. Known deviations

Found while modelling.  The first four are runs that end in a violation.

- **Images of an inherited turn** (`routing_images`).  `decideThreadRoute`
  notes the turn of a request only when its model has the prefix; a turn that
  inherits the proxy from its thread over HTTP is not noted, and its image goes
  to the official upstream (`gateway.ts:620-637`).
- **Events after the terminal one** (`stream_order`).  If the first event of a
  response is an error, the Responses client gets `response.failed` and then
  `response.created` (`output.ts:613`).  In the same place an abort during the
  first read and the document of a Responses provider, whose contents come
  before its start, put frames before `response.created`.
- **The key of another account** (`zcode_key`).  A check that does not read
  `credentials.json` again (a write of `config.json` alone, or the expiry of
  the key) falls back to the copy in `config.json`, which the comment above it
  forbids because it may belong to the account before (`config.ts:944`).
- **Names that do not come back** (`services_names`).  Tools are renamed for
  every protocol, and renamed back only when the client speaks another protocol
  than the model (`opencode-zen/src/index.ts:707`).

Others, which the models show when a constant, a guard or a property is
changed:

Settings of a home:

- `retryPendingRestart` (`cli.ts:786`) is called nowhere, although comments
  (`config-update.ts:514`, `webui.ts:239`) and
  `docs/histories/2026-08/20260830-1707-review-fixes.md:20` say that the next
  command tries a due restart again.  The mark stays until the gateway starts
  for another reason; `DueIsMarked` says no more than that.
- When `updateCodexModelCatalog` refuses to write because the user edited
  `config.toml` meanwhile (`model-state.ts:125`), the roll-back of the command
  (`cli.ts:1490-1503`) writes the old file over that edit.  The Web UI does the
  same when a reload fails and the edit was made between its snapshot and the
  update (`webui.ts:622`).
- The roll-back of the Web UI puts `state.json` back without the mark before
  the second restart, which may fail as well, and its error is dropped: the
  gateway then has the settings that were taken back and no mark
  (`webui.ts:239`, 790-795), against the comment there.
- A gateway that starts clears the mark of whoever set it: when settings were
  saved after it had read `config.json`, it goes on without them and without a
  mark (`cli.ts:766`).  These two are the exceptions of `DueIsMarked`.
- A save that fails puts the static catalog back as it found it, although the
  gateway may have published another one since (`cli.ts:1490`,
  `webui.ts:613`); `FilesAgree` excepts it.
- A gateway that launchd starts during a save publishes settings that may be
  taken back, until the restart that follows the roll-back.
- Nothing keeps a command from running beside a save of the Web UI: whole files
  written by either lose what the other one changed, and a failed save of one
  takes back what the other one saved (`Overlap`).
- A Web UI save that gives up on its reload restores the files but requests no
  further reload; a gateway that had read the save goes on to serve it
  (`webui.ts:791`).

Installation and ownership:

- A first install that dies between `config.toml` and `state.json` is repeated
  with a backup of the file already patched, and uninstall restores the
  gateway's own address (`cli.ts:1064`); `CommandsRestore` excepts a command
  that died.
- A claim found by a link may have vanished at the second look, and the install
  goes on without an owner file (`codex-ownership.ts:286`); the exception of
  `ClaimHolds`.
- `config.toml` may be written by a home that does not manage it.  An update in
  manual mode that fails early writes the copy it read back, because
  `tomlUnchanged` begins as false (`cli.ts:1178`), although another home may
  have put its address there since; a comment says that manual mode never
  writes the file (`cli.ts:907`).  And a home from before the owner file that is
  no default one has its service definition as its only evidence, which
  uninstall removes first (`cli.ts:1276`): until it has restored `config.toml`,
  or if it dies before, another home may take the directory.  What does hold,
  that no claim is lost or taken by either, is `ClaimsAreOwn`.
- An edit of `config.toml` while an install waits for prompts or the network
  is overwritten, also in manual mode, which promises not to write the file
  (`cli.ts:926`, 907, 1178; `EditWindow`).
- `serve --config <home>/test.json` starts a second gateway of one home that
  answers notifications, so "loaded" may be its answer (`gateway.ts:1528`).
- `reloadLaunchAgent` in the catch of a first install is outside any `try`:
  when it throws, `config.toml` and the claim are not restored (`cli.ts:1214`).
  On the other branch the old service is loaded before `config.json` is
  restored.
- `migrateCodexOwnership` renames its file over whatever is there
  (`codex-ownership.ts:246`).

Gateway and bridge of protocols:

- A pin taken over HTTP does not reach the frames of an official connection of
  the same thread that is already open, and a client that gives no thread is
  told to reconnect without effect.  Pinned threads are never forgotten.
- Binary frames are sent at once and may overtake text frames; an upstream
  message before the open handler of the client is lost; a compaction request
  has no timeout (`gateway.ts:483`).
- Gemini's body is closed with an error frame while its generator waits at it:
  the final promise is not settled and the abort listener not removed
  (`output.ts:1317-1324`).  Gemini's `SAFETY` for a refusal is overwritten when
  the message ends (`output.ts:1233`, 1273).
- Chat and Anthropic clients of an answer that failed are told the reason
  "stop" or "end_turn"; custom calls are rendered for Responses clients only.
- A Gemini result without an identity is paired with the oldest unanswered call
  of its name, where the comment says the most recent one
  (`llm-bridge/src/request.ts:1043`; the variant `PairsLatest`).

CodeBuddy and Qoder:

- `fetchUpstreamCatalog` has no timeout: one silent provider holds the single
  round, and with it every request for the catalog, until the runtime gives up
  (`catalog.ts:496` of CodeBuddy).  A cooldown after a failure is kept when the
  account changes (`catalog.ts:561`).  A request that is checked against the
  models of the previous account may be refused (`index.ts:285`).
- The check that a Qoder request goes out with the login it began with compares
  the first read with the last one only: a login that changes and changes back
  while the catalog is fetched is not noticed (`qoder/src/index.ts:240`), and
  `QoderServes` excepts it.  A provider that sends heartbeats and nothing
  else holds a request past its budget, which is looked at only between streams
  (`queue.ts:92`, 205).  A fetch that ends after a change of login overwrites
  the file of the region with the catalog of the account before
  (`qoder/src/catalog.ts:309`), and while the login file of the command line
  program is missing for a moment the desktop's login is used
  (`credentials.ts:304`).
- The automatic choice for display compares only the time of the last refresh,
  where the comment above `isFresherCredential` says that equal times are
  decided by the file's (`credentials.ts:279`, 374).
- While the file of a configured account is being replaced, a request may go
  out with another account: the setting falls back to the automatic choice
  (`credentials.ts:749`).

ZCode, Antigravity and OpenCode Zen:

- ZCode: a provider removed in manual mode is applied although the refresh of
  its models failed; the key of a team, or a minted one, that arrives later is
  not notified; an event without a file name does not drop the promise of a
  team's key, so that the key of the team before may be stored under the new
  fingerprint (`config.ts:583`, 618, 816; the exception of `KeyFollows`); the result of `readCatalog` may overwrite a newer snapshot that
  was notified meanwhile; a handshake that fails removes a newer one from the
  table and starts a cooldown; a continuation that fails leaves a gap in the
  sequence numbers of its answer.
- Antigravity: in a turn that comes back through an Anthropic client with two
  or more calls, of which a later one is signed, signatures go to the wrong
  call; a text of the user beside a `tool_result` is dropped; a history from a
  Gemini client cannot be replayed when one tool was called twice without
  identities.  `TurnComesBack` and `SignaturesReturn` except the first and
  the last of these; texts of the user are not part of the model.  After a
  change of account the list and the metadata of the account before are used
  until they have been fetched: `SentIsModel` speaks of the list a request was
  decided with, which may be that of the account before.  The login is read
  before the catalog is awaited (`index.ts:246-266`), so a request may go out
  with a login that was replaced meanwhile.  A model that only the refreshed
  catalog has is answered 404 (`index.ts:278-288`).
- OpenCode Zen: a client's own tool `read` beyond position 128 of the list is
  cut like any other, and the one the gateway adds does not replace it.

## 8. What is not modelled

The components with status `not_modelled` in `PROJECT.json` have their reason
there: the migration of the default home, the plugin registry, the process log
and the control of app-servers come next; signing, the Web UI client, path
arithmetic and vendored data have no state that a model would add to.  Inside
modelled parts the following is left out:

- the contents of messages, logs and catalogs, the parameters of a request that
  are copied one by one, the merge of model data, and the text of `config.toml`;
- the dispatch of HTTP paths, the reading endpoints of the Web UI, and a Web UI
  for a single instance, which touches no service;
- two installs of one runtime home at the same time, and the adoption of
  service definitions under their old name;
- the splitting of bytes into frames (`sse.ts`), and the converters of requests
  of ZCode, CodeBuddy and Qoder;
- in `ZcodeKeys`, directories that are replaced as a whole and an explicit
  reload of a cache; in Qoder, `QODER_FORCE_DESKTOP`;
- the fingerprint and the project of an Antigravity account, and the sessions
  of OpenCode Zen and CodeBuddy (hashes).
