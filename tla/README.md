# ferroDAC verification

TLA+ models of [ferroDAC](../src/README.md), a local-first data-acquisition platform
for laboratories, with the TLC configurations that check them on small instances and
the theorems about them that TLAPS proves for all instances. Source paths below are
relative to `src/`.

## 1. The system

An **app** (`ferrodac/`) drives instruments, records what they measure into a local
store and shows it. Apps can connect to a **hub** (`server/hub/`): an app with
instruments is then an *agent*, an app that watches and controls is a *viewer*; one
app may be both. The hub is one Python process whose protocol handlers all run on one
asyncio loop (blocking store work is handed to a thread pool). Everything else is
concurrent: GUI thread, one polling thread per device, worker threads, one asyncio
loop per hub client in the app, and the network.

### Inventory

| component | state | operations | interacts with |
|---|---|---|---|
| **hub sessions, catalog, routing** `server/hub/core.py`, `service.py`, `net/agent.py`, `net/session.py` | device catalog, device -> out-queue, agent -> out-queue, pending requests; at the agent its devices and the queue of its session | hello, announce, retire, command, configure, add/remove device, ack, session end, reconnect with backoff | viewers (requests), device manager (execution), frames, prompts (same stream) |
| **collaborative documents** `core.py` `DocRoom`, `net/docs.py`, `ui/web/src/main.js` | members in order of joining, leader, seeder, baseline, update log, `.ycrdt` and `.md` files; per editor a Y.Doc, readiness, a save timer | join, seed, replay, update, compaction, snapshot, leave, session end | Yjs in the editors; project folders |
| **document view** `ui/docs.py`, `ui/web/src/main.js` | Qt: open path, watcher, collaboration flags; page: editor, the text last synced, timers, Y.Doc, text on offer | edit, autosave, file watch, open, connect, collaborate, leave, materialise, reload from disk | the file, other editors of it, the room, the web channel |
| **document preview** `main.js` | number of the latest rendering, those under way, the contents shown | render, await processor, parse and draw diagrams, print | Markdown and mermaid libraries, Qt's printing |
| **slash commands** `main.js`, `ui/docs.py`, `ui/app.py` | caches of lists and files, the pick, waiters, awaited blocks | open a menu, pick, export now, time out, insert | recordings, processors, cameras, media |
| **tags** `core/markers.py`, `core/tag.py`, `net/tags.py`, `core.py` | id -> tag with version and tombstone at every client and at the hub; per client a pending set; the hub's dirty flag | add, edit, remove, upsert, publish, delete, replay, watch, delayed save | timeline, prompts (their record), projects (same shape) |
| **store-and-forward** `store/writer.py`, `store/sync.py`, `store/zarrstore.py`, `net/sync.py`, `core/periodic.py` | buffers, per epoch arrays of timestamps and values and a length, at the app and at the hub | feed, flush, append, sync pass, push, start and stop of the runner | bus (input), read path (output) |
| **operator prompts** `core.py`, `net/prompts.py`, `net/agent.py`, `ui/interactions.py`, `ui/app.py`, `devices/lsc.py` | open prompts at device, agent, hub, each viewer; in-flight answers | open, answer, close, relay, withdraw, reconnect snapshot | sessions (relay), drivers, tags |
| **device manager and life cycle** `core/manager.py`, `core/base.py`, `core/engine.py`, `core/serial_arbiter.py` | available, active and claimed devices, status, poll thread, port registry | scan, add, connect, stream, stop, disconnect, remove, supervised reconnect | drivers, engine, agent (device sets) |
| **replay and playback** `store/replay.py`, `store/prefetcher.py`, `ui/tasks.py` | head, generation of the current load, playback bus, watermark, navigation counter | seek, render, stream, pump, prefetch, gate | tiered reads, bus, panels |
| **data-plane bus** `core/bus.py` | per subscriber lane a queue and a mode, drop count | publish, drain, conflate, close | everything that measures or draws |
| **live frames** `core.py`, `net/agent.py`, `net/viewer.py` | watchers with bounded queues, demand counts | watch, unwatch, push, signal demand | sessions |
| **project registry** `core.py`, `net/projects.py` | as tags, plus opt-in publication | publish, delete, replay, watch | project folders, documents |
| **tiered reads** `store/resolver.py`, `store/asyncread.py`, `net/readtier.py`, `store/intervals.py` | pending tickets by key, coverage cache | submit, supersede, cancel, deliver | local and hub store |
| **ambient video** `core/videostore.py`, `core/videosync.py` | segment index, synced flags | add, sync, import, prune | hub video service |
| **recording** `core/recording.py`, `core/archive.py` | open recordings, manifests | start, stop, recover, export | tags, store |
| other | backup and git, control surface, drivers, analysis and vision, user interface, extensions, wire contract | | see `PROJECT.json`, each with the reason it is not modelled |

### What is hard about it

* **Two notions of "the link is down".** Agent and hub notice a dead link
  independently (30 s ping and 10 s at the agent, 60 s and 10 s at the hub): a new session can be
  up while the hub still runs the old one. Every client protocol has this overlap.
* **Queues outlive and underlive sessions.** The agent's out-queue is made afresh for
  every session, the document client's is kept; a message may be taken from a queue by
  a session that is already dead.
* **Every reconnect replays.** Convergence rests on replays being idempotent.
* **One loop, many awaits.** The hub's handlers are atomic exactly between awaits.
* **Bounded queues that drop** (out-queue 64, oldest first; watchers 512).
* **Abandoned work goes on.** A push whose client gave up still runs in the thread
  pool; a worker whose `stop()` timed out still runs its pass.
* **Two event loops in one view.** Page and Qt exchange asynchronous messages: each
  acts on what the other one was, and messages do not name the document they are about.
* **Awaits in the page.** Renderings and menus await libraries and the app; the text,
  the folder or the document may change meanwhile, and answers come in any order.
* **Restarts.** The hub keeps catalog, routes and update logs in memory only and saves
  tags a second late; the app loses its sample buffer.

### What makes each part correct

* Sessions: what viewers see is what the agents publish; requests go where somebody
  reads them; each request ends, and what its viewer is told of it is true; one agent's trouble is not another's.
* Documents: seeded once; editors converge; the file follows the editors and never loses
  the text it had; a view never waits forever.
* Document view: nothing typed is lost, the file has what the editor shows, a document
  holds its own text only. Preview: it ends with the present text and never goes back.
  Slash commands: a menu is as new as the pick, comes or is given up, and a block or its error arrives.
* Tags: no change is lost; everyone ends up with the same tags; deletions stay; a
  reconnect by itself changes nothing.
* Store-and-forward: the hub's epoch is a prefix of the app's; values stand under their
  own timestamps; the hub catches up.
* Prompts: one answer is executed; every other card goes away. Devices: a removed device
  is silent and its port free. Replay: panels show the current view only, in time order.
  Frames: sampled exactly while watched. Reads: no older result after a newer one.

The hazards behind these, each at its line, are in `PROJECT.json` with the
properties that would catch them. Of the parts that are not modelled it has the
worst; others are: a poll thread that outlives `stop()` (`core/base.py:365`), a prompt
closed while the viewer's stream is down (`net/prompts.py:130`), an answer put into the queue of a
session that is already dead (`server/hub/core.py:488`), demand for frames after a
reconnect (`server/hub/core.py:359`), project records published again
(`net/projects.py:79`), superseded reads (`store/asyncread.py:100`), a play tick
that streams inline while a load still runs (`store/replay.py:379`), a watermark computed for
another position (`store/prefetcher.py:94`), the worker that stops waiting for the GUI after five
seconds (`ui/tasks.py:133`), a lost acknowledgement that restores an answered card
(`ui/app.py:1267`), two answers to one firmware prompt (`devices/lsc.py:1041`), watchers
that drop what they cannot take (`server/hub/core.py:52`), conflating lanes
(`core/bus.py:80`) and concurrent changes of the segment index (`core/videostore.py:132`).

## 2. The modules

| module | content |
|---|---|
| `HubSessions` | sessions, catalog, routes and requests of any number of agents |
| `HubDocs` | one document: the hub's room and its clients' editors |
| `HubTags` | tags at clients and hub |
| `EpochMirror` | abstract: what store-and-forward promises |
| `EpochSync` | writer, runners, pushes and the hub's store; implements `EpochMirror` |
| `DocView` | one document view: page, Qt half, file, and a room with peers |
| `TextDiff` | the edit by which a text from disk enters the shared one |
| `DocPreview` | renderings of the preview that overtake each other |
| `SlashMenu` | the slash commands, their caches and waits |
| `MCHubSessions`, `MCHubDocs`, `MCHubTags`, `MCEpochSync`, `MCDocView`, `MCDocPreview`, `MCSlashMenu` | constants and symmetry for TLC |
| `HubSessions_proofs`, `HubDocs_proofs`, `HubTags_proofs`, `EpochSync_proofs`, `DocView_proofs`, `DocPreview_proofs`, `SlashMenu_proofs`, `TextDiff_proofs` | theorems |

`PROJECT.json` maps every definition to the lines it stands for. Definitions marked
*mutation* are faulty variants of the definition that follows them; put in its place,
they make a property fail, which shows that the property says something about the code.

All have the same conventions. A handler that runs between two awaits is one
action. A FIFO stream is a sequence per session and direction. A link that breaks is
noticed by each end in an action of its own. Payloads (descriptors, samples' values,
text) are replaced by identities that keep apart what the properties keep apart.

### HubSessions

`catalog`, `route` and `agentConn` are the hub's `_devices`, `_device_route` and
`_agent_conn`; `mine` is the set of uuids a session handler retires in its `finally`;
`outq` is the session's bounded queue with `_offer`'s drop-oldest rule; `cmd` joins
`_pending_acks` with what the viewer is told. `Connect` is `_outgen`: hello, then an announcement for
everything in `_devices`, in any order. `EndSession` is the whole `finally` block,
which contains no await; `HubRestart` forgets what is in memory. A request that goes to
a device (command, configuration, removal) is `SendCommand`, one that goes to an agent
is `AddDevice`. The agent reads one message at a time and awaits its handler: `AgentReceive`
starts the one of a request (`handling`, counted in `taken`), `AgentAnswers` is its end. The
answer is a success (`accepted`) or, when a handler is missing, refuses or raises, not. Success is
no more than the code makes of it: a command or a configuration was carried out by the handler, an
added or removed device was handed to the GUI thread and may still fail there. A session whose link
broke ends at the agent only after the handler at work. `overlap` remembers which agents reconnected before the hub had noticed
the end of their old session; it appears in properties only.

### HubDocs

A Yjs update is a set of edits `<<author, n>>`; an edit shows only when the earlier
ones of its author are there, as Yjs keeps updates with missing predecessors pending.
Yjs is third-party and modelled by this use alone. `members`, `leader`, `seeder`,
`seeded`, `baseline` and `log` are the fields of `DocRoom`; `blob` and `md` its two
files. At the client `open` is `HubDocSync._joined`, `out` its queue, `ready` the
editor's `collabReady`, `dirty` its materialise timer. `hurt` and `handover` are
history: what the properties make exceptions for. `Compact` is a client that sends a
compaction, which the hub's contract allows and the app's editor never does; only
`docs_live` includes it.

### HubTags

A tag is its version, whether it is a tombstone, and its last writer. `Wins` is the
merge rule that `MarkerModel.upsert` and `Hub.publish_tag` share. `sends` is a set:
every publication is a task of its own, so two may be carried out in either order.
`replay` is `_replay`, in which every tag is awaited; `WatchFrom` takes the snapshot and
subscribes in one step, as `WatchTags` does. The hub saves at most a second
late (`FlushTags`, which may fail) and restarts from disk. A restart ends every stream, and with it
the session of every client that watches. A client that still replays has unary calls only,
on a channel that reconnects by itself: in `HubRestart` any set of them
(`RestartMissedBy`) misses the restart and goes on replaying to the new hub, which may have
forgotten tags that the old one acknowledged. `FailReplay` is a call that fails meanwhile: it ends the
replay, not the session. `failed` is what only the next connect will repair: tags whose
request failed while the session went on, and those that a hub forgot in a restart its client missed
(`Forgotten`). `clash` has the tags of which two writers have written the same version;
`Clashing = FALSE` bounds an instance to one writer for each version.

### EpochSync

The k-th sample of an epoch is the number k, so that loss, duplication and reordering
are visible. An app session writes into an epoch of its own; `Restart` begins the next
one. `at` and `goal` are the remote and local lengths that a pass reads once. A push
carries no position: the hub appends it to what it has. `append` is three writes
(timestamps, values, length); `Apply` is all of them, `TornApply` breaks off between
two. `Faults` names what may go wrong in a run. The *harmless* faults are those that the code is
built for (failed push, crash, wiped hub); the *harmful* ones (push carried out
after its client gave up, overlapping passes, torn append, store wiped during a pass)
break the mirror, which section 5 shows.

### DocView

`HubDocs` looks at the room from above and takes a view to be one thing; `DocView` takes
one view apart and abstracts the hub to a text that peers add to. `down` and `up` are
the web channel: signals of the bridge and calls of its slots. A text is a
set of fragments, each with the file it was meant for, so that text in the wrong file is
visible; Y.Text is merged as a set. The debounce timers (`saveTimer`, `matTimer`) may
fire at any time once they run. The watcher's event `changed` is raised by every write,
the view's own included: `_write` re-arms the watch after an atomic replace, so that own
saves come back as `docChanged`, which is why the page compares with `lastSynced`. The room's
text is a message of its own: `HubAdmits` lets a member in and names the seeder, `HubReplays`
sends what the room had, and until then (`due`) peers go on adding to it.
A save is written (`Write`) or lost (`WriteFails`, swallowed by the code, of which the page is
not told). A reload reads the file (`ReadAgain`), shows an empty text for one that is unreadable or
just gone (`ReadNothing`, and in `Open`), or reads a file that is replaced before the look at its
time, so that the event of the replacement is ignored (`ReadBefore`). `mine`
(what the user has typed and nobody has deleted), `shows` and `hurt` are history;
`Mishaps` names the situations in which the code loses text (section 5). A snapshot for the
server's `.md` leaves along with every materialised save; `HubDocs` has that part.

### TextDiff

`ApplyTextToYText` is the prefix and suffix diff of `reloadFromDisk`. Units are
UTF-16 code units, as in JavaScript; `Cut` is what the bundled Yjs does to a surrogate pair
that is cut (`ContentString.splice` writes U+FFFD for both halves). `MCDocView` instantiates it and
checks as assumptions, over all texts of up to four units, that the edit is as small as
one edit can be, and exact but for a cut pair.

### DocPreview

A text is the number of changes that led to it. A rendering is a record that waits for the
processor, a parser or a drawing; `Processed`, `Fails`, `Parsed` and `Drawn` are what
happens when an await ends, up to the next one. `Latest` is `seq === renderSeq`, at each of the places where
the code asks. `Resolved` looks pictures up in the folder of that
moment, not in the one of the start, as the code does. The contents of a replaced rendering are detached, so
`Replace` has no effect on what is shown.

### SlashMenu

`lists` are the four caches that `whenCache` serves; `query` is the promise the menu
waits for, `pendingRec` the pick between the two stages. A list remembers the document
it was made for, a recording's files the number of exports in them, so that stale answers
are visible. Exports nest, as the app pumps its event loop in the middle of one
(`exporting`, innermost last). A list may be empty: the app has nothing to list, its call
fails, or the services are the default ones, which find nothing. A view that was given no services at all
(`set_macros(None)`) leaves requests for recordings and processors unanswered
(`NothingListed`). `awaiting` is a flag for each kind of block, as in the code: of two picks of
a kind that are under way together the second answer is dropped. `owed` has the
picks to which an answer is due: those made while nothing of their kind was under way, but for a
photo that has no path from the document (`LosePhoto`: `os.path.relpath` raises outside of the
`try`, `ui/docs.py:649`, and the page hears nothing). The editor's own handling of
menus (what opens, closes and forgets them) is CodeMirror's and modelled by use.

## 3. The runs

Every run disables the deadlock check: constants bound the number of
sessions, changes, edits or faults, so that a model may stop where the program would go on.

| run | question | instance |
|---|---|---|
| `sessions_catalog` | Do catalog and routes survive every interleaving of link loss, late teardown, hub restart and device changes? | 1 agent, 2 devices, 3 sessions, 2 changes |
| `sessions_requests` | Does every request end, and truthfully? | 2 agents, 1 device, 2 sessions, 2 requests, queue of 1 |
| `docs_sessions` | Do rooms stay led and seeded, editors converge and files keep their text? | 2 clients, 3 sessions, 2 opens, 1 edit |
| `docs_live` | Does a view get its document, whatever happens? | 1 client, 2 sessions, 2 opens, compaction |
| `tags_troubles` | Is any change lost, does everyone agree, do deletions stay? | 2 clients, 1 tag, versions to 2, 2 troubles |
| `tags_live` | Do clients end up with what the hub has? | as above, one writer for each version |
| `epoch_mirror` | Is the hub's copy a prefix, does it catch up, is `EpochMirror` implemented? | 2 epochs, 2 runners, 4 samples, chunks of 2, 2 harmless faults |
| `epoch_faults` | What holds under all faults? | 1 epoch, 2 runners, 3 samples, 2 faults of any kind |
| `view_edits` | Is typed text kept, and do editor, file and room end up with one text? | 2 files, 3 acts of people, or reads and writes that fail |
| `view_reopen` | *violation*: does a document hold its own text only? | 2 files, 3 acts |
| `preview_renders` | Does the preview end right, and never go back? | 2 changes of the text, 1 of the folder, 1 PDF, 2 diagrams |
| `page_macros` | Are menus fresh, do they come, do blocks or their errors arrive? | 2 recordings, 3 commands, documents or empty lists |

### Why the bounds are enough

* *Sessions.* Three sessions of one agent are the old one the hub has not noticed, the
  present one, and one more to reconnect to. Two devices distinguish "the device" from "all devices of the session".
  An out-queue of one place is full after one message, so that drop-oldest
  happens with two requests; the second agent is there to be left alone.
* *Documents.* Two clients, of which one is in the room twice with three sessions. Two
  opens are two Y.Docs, hence two authors; an edit on top of a seed is a second edit of
  its author, and one edit of each is enough for a missing predecessor.
* *Tags.* Tags do not interact, so one suffices for everything but the half-finished
  replay, for which `HubTags_cut.cfg` has two. Version 2 is an edit or a deletion over
  an added tag; version 3 a conflict of the two followed by another. Two troubles are any two of
a broken session, a failed request or replay, a restart of the hub and a
detach, of which one client may miss what the other one meets. `tags_live` leaves out two
writers of one version, for which `EventuallyAgree` promises nothing.
* *Epochs.* Four samples with chunks of two are a full and a partial chunk in either
  epoch; two runners are a connect and its successor.

* *Document view.* Three acts are an edit that is in flight, an external change or a peer's edit that
  meets it, and a start of collaboration or another document; the second file is the
  other document, which has no room. A read or a write that fails takes the place of an act.
* *Preview.* Two changes and one of the folder are five renderings, as a text from the
  file starts two: an old one, a newer one and one that overtakes both. Two diagrams
  leave one undone when the first is drawn.
* *Slash commands.* Three acts are two menus with a document opened in between, or three
  picks; exports of two recordings nest, as do two of the same.

Symmetry is used over clients and document sessions, and tag clients, in runs of safety
properties only.

### Fairness

`FairSpec` in each module assumes weak fairness of what loops and threads do by
themselves: a hub handler whose stream has a message reads it, a client loop does the
same, keepalive finds a dead link, a disconnected client dials again
(`ReconnectingClient` retries without limit), `wait_for` expires, a pass goes on, the
thread pool carries a push out. Nothing is assumed of an agent's
handlers, which a device may block for ever, of users (adding, editing, opening),
of links or of faults, and strong fairness nowhere.

* `RequestsEnd`: every request gets an answer. The time limit is what guarantees it: a
  request whose message was dropped from a full queue has nothing else.
* `ViewsEnter`: a view that starts collaborating gets a Y.Doc or is closed. One client
  at a time: the initial state comes from the hub, never from a peer.
* `ComesToRest`, `PreviewSettles`, `QueriesEnd`, `PicksLand`: the two event loops take
  their messages, timers expire, awaited libraries answer, exports end. Nothing is
  assumed of the people at the keyboard.
* `PicksLand` is about picks that are `owed` an answer (section 2).
* `EventuallyAgree`, `CatchesUp`: `<>[]`, as bounded users and faults come to an end. `EventuallyAgree`
  is about every attached client, also when others have detached, and makes exceptions for
  what is in `failed` or has a `clash`, and for a tag that a restart took from the hub while the client
  that would publish it again is detached (`HeldBack`).

## 4. The proofs

| theorem | for every |
|---|---|
| `SessionsTypeCorrect`, `RoutesAlwaysLive`, `CatalogFollows`, `RouteOfNewer`, `OkIsTrue`, `FailsWithItsSession` | number of agents, devices (finite), sessions, requests, queue capacity |
| `DocsTypeCorrect`, `RoomAlwaysInOrder`, `OneClientSeeds`, `EditorsConverge`, `FileIsWritten`, `FilesKeepText` | number of clients (finite), sessions, opens and edits, compaction or not |
| `TagsTypeCorrect`, `TagsCarried`, `TagsSettle`, `TagsStayDeleted`, `TagsAgree` | number of clients, tags, versions, troubles |
| `SyncTypeCorrect`, `SyncAligned` | epochs, runners, chunk size, samples and faults, harmful ones included |
| `SyncMirrored`, `SyncImplements` | the same, assuming `NoHarm` (none of the four harmful faults) |
| `ViewTypeCorrect`, `EveryTextItsOwn`, `FileAndRoom`, `NothingTypedIsLost` (document view) | number of files, number of acts |
| `TypeCorrect`, `ShowsNow`, `GoesForward` (preview) | texts, folders, PDFs and diagrams |
| `MenusTypeCorrect`, `MenusFresh` (slash commands) | number of recordings, commands and documents |
| `ReloadIsExact`, `PlainReloadIsExact` | pair of texts |

* **RoutesAlwaysLive.** `SessionInv` is `TypeOK`, `RoutesLive` and `Dialled`: a running
  session was dialled by some agent. Without `Dialled`, the end of a session could not
  be related to the agent whose route it has to drop. One lemma per action; the one that
  matters is `EndSession`, where the session's own `mine` is what its routes rest on.
* **CatalogFollows** (`CatalogHeals`). The property speaks of a moment at which nothing is
  under way. `HealInv` says what leads there: an agent without overlap owns the entries of
  its devices (`OwnDevices`), and the messages on their way to the hub, carried out
  in order, turn what the catalog has of a device into what the agent publishes
  (`InStep`, by `Leads`). With an empty queue the two are equal.
* **OkIsTrue** (`AnswersTrue`). `OnceInv`: a request that waits was not taken by a handler yet and waits
  once, the one a handler works on was taken once and has no answer yet, an acknowledgement that is on
  its way says what the handler has answered, a request that was not sent was not taken.
* **OneClientSeeds** (`SeededOnce`). `DocInv` has the types, the order of the room
  (`RoomInOrder`: the leader joined first, the seeder is a member) and that a seeded room
  has a baseline. `AskedOnce`: while every seeder lives to seed and nothing is lost, at most one
  request to seed or one seed is on its way, and none while the hub's room is cold.
* **EditorsConverge** (`Converges`). The property speaks of a moment at which nothing is under way;
  `ConvInv` says where everything is until then. `Accounted`: an edit that anyone has is in the room,
  in the queue of a session that its client has given up (`Late`), or on the way of the client that has it (`Way`: its
  out-queue, or what its session has sent). `Brought`: what comes down to a client in the room that is
  not about to leave (`Seated`) brings, from some seed on, all that the room has and its view has not.
  `Mine` and `Present`: what a client has sent since it last left is of its present view. `Linked`: the two ends of
  a session agree on whose it is. With nothing under way the first gives `have` within the room, the second
  the room within `have`. A session of which the client has sent half and kept half is the hard step (`NoticeConv`).
* **FileIsWritten** (`FileFollows`). `FileInv`: the last snapshot that a client has sent has the text
  of its view, unless the timer runs again (`Saves`); and, unless the leader has changed since the last
  save, a leader in the room has the initial state, and its text is in the file, on its way or due, or its
  view waits for a seed that asks it to seed, with the file's own text (`Led`, `Leads`). For the latter one must know that
  nothing has happened while the room has never had a member (`Virgin`), and that all edits are of Y.Docs
  that exist (`Authored`): the seed's text must be new. `EditorsConverge` then makes the leader's text the room's.
* **FilesKeepText** (`TextSurvives`). `KeepInv`: as long as nothing of what `hurt` records has happened, every
  text that was put in is the file's (`Sourced`), and every snapshot, compaction, ready view and file has it
  (`Queues`, `Kept`). A view is ready once it has had one update, so that whatever it saves then must have the file's text:
  `Served` says that a view which waits, or which a seed on its way will make wait, gets that text with its *first*
  update (`Fed`), also if another client sends it, or still has to be seeded by a session that is not in the room yet. That
  needs the seeder to lead and its seed to be on the way (`Claimed`), and a room that has no seeder and
  was not seeded to be new (`Untouched`).
* **TagsCarried.** `Carried` speaks of clients that watch; while they connect, a pending
  tag may still be waiting in the replay. `Replaying` says so for every connected
  client; with `TypeOK` (nothing is left to replay once a client watches) it is
  inductive. It needs that the pending set is filled before the send
  is scheduled, that the stub is set before the pending set is copied, and that a
  client which watches does not miss a restart of the hub. What a client forgets by missing one
  while it replays is in `failed`, as is what it failed to send: both are left out here and below.
* **TagsSettle, TagsStayDeleted.** Both leave out tags with a `clash`, for which they are false
  (section 5, `HubTags_replay`). `OneContent`: as long as nobody writes a version twice, whatever is
  held anywhere (copies, pending sets, requests, events, hub, disk) under one version has
  one content. Every step only moves contents (`Moves`) or writes the successor of one
  (`Writes`), so that one lemma for each kind of step carries every invariant about contents.
* **TagsAgree.** Three facts more. `Chain`: versions follow each other, and what follows a
  tombstone is one. `Backed`: some client stands for every content there is, and would
  publish it again, so that nothing is lost with a hub that forgets its last second. `Informed`: a
  watching client has what the hub has or an event that brings it. When all is quiet, a
  client's copy is at least as new as the hub's, and the client that backs it has
  published it: they are equal, or both are tombstones.
* **SyncMirrored.** `Mirrored` alone is not inductive: an append needs the push to start
  where the hub ends. `MirrorInv` adds `Lone` (one pass at a time, and every push
  is that pass's own) and `Placed` (a pass is where the hub is, or will be when
  its push is carried out). `NoHarm` is used in `Lone` and `Placed` only.
* **SyncImplements.** From `MirrorInv`: recording extends the ledger, an append extends
  the mirror by a non-empty piece of the ledger, a wipe empties it, everything else
  stutters. The mapping reads the mirror from the timestamps' array.

* **SyncAligned.** `Aligned` is inductive with `TypeOK`. An append begins where the timestamps
  end, however many values there are: a torn one leaves a gap of fill values (0) and shifts nothing.
* **ViewTypeCorrect.** `Halves` relates the two event loops: until the page has connected
  nothing was sent to it (`Starting`), until a text has come nobody types (`Untouched`),
  what is not saved has a timer (`Unsaved`), what Qt has read is the file unless the watcher
  has an event (`ReadLast`). The other three theorems need what comes down to be in order:
  `Sessions` (a session is stopped before the next one begins, for the page and for the hub),
  `Replaying` (the hub owes the room's text exactly while an editor, now or further down the
  channel, waits for it) and `Numbered` (fragments are numbered in the order in which they are made, so that a new
  one is nowhere yet).
* **EveryTextItsOwn** (`OwnTextAtRest`). `Owned`: every copy of a text, in every variable and message,
  is of the file it is for; saves name none, and belong to the open file. `Passing` says why that stays true when
  another document is opened: until it is shown the page has nothing unsaved, nothing is on its way to Qt, and the new
  document is announced behind all that belongs to others.
* **FileAndRoom** (`FileIsTruth`). For the file, `FileInv`: the last text that comes
  down is the file's, or none comes and page and file agree (or a timer or the offer will make them). For the
  room, `RoomInv`: in a session the room together with the page's updates under way is the page's text
  together with what comes down (`Shared`, for each fragment); for a session that the page has yet
  to enter the room is what comes after its seed (`Offered`). Y.Text as a set would hide a peer's text that comes
  twice, or comes to an editor that had deleted it: `Fresh` and `Cleared` exclude both. A read or a
  write that fails is left out (`Sound`): the invariants are shown for the steps of `Sure`, in which none
  does, and `hurt` never shrinks, so that from the first failure on there is nothing left to show.
* **NothingTypedIsLost** (`TypedKept`), unless one of the `Mishaps` has happened. What was typed may leave the editor when it is cleared for a
  session. `Where`: then its file has it, or will when all saves have landed (`Stored`), and the room's text
  will bring it back (`Pending`). What the page takes for saved is stored, and so is, for a solo page, what the room has:
  these are the texts for which the page gives up its own. `Turning` orders a document that is opened and texts of the
  old one that lack the fragment.
* **ShowsNow.** `IInv` adds to the types that the numbers of renderings are
  distinct and not above `renderSeq`, that what is shown comes from a
  rendering no newer than the latest (`Numbered`), and that the latest rendering is either under
  way or has put its text there, with every diagram before its own one done
  (`LatestDone`). Without the last part nothing says that the contents are right when no rendering is
  left. `GoesForward` needs `Numbered` only: a rendering shows its text if it is the latest.
* **MenusFresh** (`FreshFiles`). `MenuInv` adds to the types (`Exclusive`: a pick, a call that
  waits and a menu exclude each other) that the answers come in order (`AnswersInOrder`: each
  document is announced before its files, so that files taken belong to the document
  the page has) and that all that is under way, or held, for the recording of a
  waiting pick suits it (`Served`). The menu is made of what is held once it has come. A
  pick of a recording whose files had been asked for before is left out (`alone`): an export that ends late,
  fails, or nests in another one of the *same* recording may bring older files. So is a menu that another
  document came after (`at`). Exports of *other* recordings may nest in any way.
* **ReloadIsExact.** The prefix and suffix of the diff are characterised without
  recursion, by least elements; they do not overlap, and the three pieces that are
  put together have the lengths and units of the new text. The exception is exactly `CutsPair`.

The assumptions are the named `ASSUME`s of the modules, which every run evaluates. Every
invariant and every action property of the passing runs is a theorem. Only model-checked:
all liveness, which is out of the prover's reach.

## 5. Where the code differs from what it says

Each is a counterexample that TLC finds and that a reader can follow in the code.

`view_reopen`, `OwnText`, is a run. `DocView._write` puts whatever text
arrives into the file that is open by then, and the page does not say which document
it saves. Opening another document while collaborating does it every time: `open()` takes the target away, the page answers
`collabStopped` with its final text (`main.js:557`, "land the final text in the local
.md"), and by then the path is the other document's, whose text is replaced. The autosave
of an edit in the last 600 ms does the same. `OwnTextAtRest` is what holds.

The properties of `view_edits` make exceptions for situations (`Mishaps`) in which the code
does lose text or leave copies apart. `TypedKept` leaves out all of them, `FileIsTruth`
`undone`, `unwritten`, `doubled`, `straggler` and the last three, `OwnTextAtRest` the first two,
and `ComesToRest` none:

| mishap | what happens |
|---|---|
| `switched` | as above; also, the user types into the old document before the page shows the new one |
| `wrongroom` | the app offers the README's room for whichever document of the project is open (`_refresh_doc_collab`): collaborating puts the README's text into that file |
| `early` | a view leaves before the room's text has arrived, and saves its cleared editor |
| `doubled` | an external change is reloaded into an editor that was cleared for the room's text, which then comes on top of it |
| `unwritten` | the room's text is what the cleared editor has when it comes (nothing, as a rule): no change, so that nobody saves it over a file that differs |
| `cleared` | the solo autosave timer is not stopped by `enterCollab`, and saves the cleared editor |
| `echo` | an own save comes back after a later one has left and is taken for an external change: what was typed in between goes |
| `undone` | edits in flight keep an external change out, then are undone: the file differs from the editor until the next change |
| `outvoted` | a view with unsaved typing joins a room that has its own text |
| `straggler` | an update of one session reaches the hub in the next, whose room has another Y.Doc |
| `unsaved` | `_write` swallows any error (`ui/docs.py:432`), while the page has counted the text as saved since it sent it: a later external change or document replaces it |
| `unread` | `_reload` turns a file that is unreadable, undecodable or just removed into an empty text (`ui/docs.py:394`), which reaches the page as an external change and replaces the editor's text |
| `unseen` | the file is replaced between the read (`ui/docs.py:397`) and the look at its time (`ui/docs.py:400`): the new time is taken for seen, and the change is not shown until the next one |

Further configurations, which are not among the runs, reproduce others with
`tlc -config <cfg> <MC module>`:

| configuration | what it shows |
|---|---|
| `HubSessions_overlap` | the end of a session retires every device it announced, without asking whether a newer session has announced it since: after a reconnect that is faster than the hub's keepalive the devices vanish, although `net/agent.py:4` says that the hub's view self-heals |
| `HubDocs_reseed` | the claim of a seeder that leaves passes on, while its own seed may still be on the way: the text is doubled |
| `HubDocs_coldroom` | a member that is asked to seed in place of a peer already collaborates and ignores the request; the hub's file is then emptied |
| `HubDocs_earlyleave` | a view that stops before the room's state has arrived saves its empty editor over its own file |
| `HubDocs_selfheals` | an update lost with a session keeps the editors apart: a reconnect does not resend the editor's state |
| `HubTags_replay` | between a tombstone and a live tag of equal version the last to arrive wins, and every client replays its own one on each connect |
| `HubTags_converge` | two changes of equal version leave clients with different tags |
| `HubTags_cut` | after one failed request in the replay the rest stays away from the hub while the session lives |
| `EpochSync_torn` | `append` continues behind the timestamps and reports the length attribute, which is written last: samples are stored twice after an append that broke off |
| `EpochSync_late`, `_overlap`, `_rewind` | the other three harmful faults, each enough to break the mirror |
| `DocPreview_pdf` | a PDF is printed without waiting for the rendering that was started to "make sure the preview is current" (`main.js:643`) |
| `SlashMenu_media` | `/cam` offers the links of the document that was open before, relative to its folder, until the list is asked for again |

## 6. Not modelled

`PROJECT.json` has a status and a reason for every component. Preview and slash commands
are *modelled*. *Partly* modelled are: sessions, without live frames and clock offsets; shared documents,
without cursors; the document view, without popped-out windows of the same document
(`collabRequestState`), cursors and view modes; tags, without their fields; store-and-forward, without traces, device records
and rollups. Beyond reach or of no interest to a model checker are numerics (analysis,
vision, decimation, uncertainty), file formats, git and HTTP, drivers' byte protocols,
layout.

## 7. Plan

In this order; every module comes with its `MC` module, a type invariant, properties
aimed at its hazards in `PROJECT.json`, and proofs where noted. As a check of the whole
has to stay affordable, the project asks about a dozen questions at a time: a new
module takes the place of a violation run, which moves to the further configurations.

1. **PromptRelay** (composes with the session life cycle of `HubSessions`): device,
   agent mirror, hub, viewers. Abstract specification: a prompt is open, then resolved
   once. Properties: one RESPOND per prompt; a resolved prompt has no card once every
   stream is up (`WatchPrompts` snapshots only open); no answer is acknowledged and
   lost. Bounds: 1 prompt, 2 viewers, 2 agent sessions. Theorem: at most one answer is
   executed.
2. **DeviceLifecycle**: worker pool, poll thread, supervisor, port registry. A
   removed device is disconnected and its port free; two devices never hold a port.
   Bounds: 2 devices, 1 port, 1 re-add. Theorem: port ownership.
3. **ReplayStream**: generation, worker, pump with time limit, play tick, watermark.
   Panels never mix two views; the head never passes the watermark.
4. **HubFrames** (with `HubSessions`): demand counts and reconnecting agents. Demand at
   the agent equals what is watched, once settled. Theorem: counts equal watchers.
5. **HubProjects**, from `HubTags` with opt-in publication.
6. **Intervals** and **ReadService**: interval algebra as functions without RECURSIVE
   against a set of instants; superseded reads as a protocol.
7. **Bus**, **VideoSync**, **Recording**.

A theorem still worth proving: an abstract catalog that `HubSessions` implements when
sessions do not overlap.
