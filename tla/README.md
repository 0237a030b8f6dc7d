# Verification of the access-code template

This directory models the program of this repository in TLA+, checks the models
with TLC on small instances, and proves what matters most with TLAPS for every
instance. It is kept beside the code: every definition names the lines it stands
for in `PROJECT.json` ("map").

## The system

| Part | Code | State it keeps | Operations |
|---|---|---|---|
| Access-control store and API | `app/lib/store.ts`, `lifecycle.ts`, `app/app/api/**` | Redis: `request:<id>`, `requests:index`, `code:<code>`, `codes:index`, `request_code:<id>` | create, approve, deny, delete a request; revoke, delete, validate a code; list (visitor, administrator) |
| Host session | `cli/lib/server.mjs`, `clock-guard.mjs`, `sealed-store.mjs`, `grant.mjs` | the session in memory, three timers, the sealed `session.json` | validate, tick, wall and budget timers, read, revocation poll, restore at start |
| Realtime room | `cli/lib/realtime.mjs` | guests with their state, hosts, three button colors | join, approve, deny, leave, cycle, start and end of a session |
| WebSocket | `cli/lib/ws.mjs` | a decoder buffer per socket | handshake, frame codec, close |
| Browsers | `interface/app.js`, `interface/guest.js` | what is shown, timers, the socket | poll, react to messages, fall back to the code screen |
| Self-update | `cli/lib/update.mjs`, `versions.mjs` | the install directory | compare versions, download, swap four entries |
| Administrator authentication | `app/lib/admin-auth.ts`, `require-admin.ts`, `middleware.ts` | none (a cookie) | log in, check |
| Pages, installers, scripts | `app/app/*.tsx`, `install.*`, `scripts/` | none | rendering, generation |

How they interact: visitors and the administrator work on the store through
independent serverless invocations, which share nothing but Redis. The CLI asks
`POST /api/validate` once to obtain a signed grant, and again every 45 s to learn
of a revocation. From the grant it runs a session without the network; the end of
the session throws the guests out of the realtime room and tells the browsers.

What is hard about it:

* *Interleaving.* A handler of the store is a sequence of Redis commands without
  a transaction; each reads a whole record and writes a whole record back.
* *Partial failure.* An invocation may die between two commands; the CLI may be
  stopped at any time, also inside the write of its file.
* *Time.* The user controls the wall clock; enforcement must not depend on it.
* *Ordering.* Answers of validations and polls arrive late; a page reconnects while
  messages are on their way on its old connection; links die without closing.

The list of hazards, each at its line and with the properties that cover it, is in
`PROJECT.json` ("hazards").

What makes each part correct:

* Store: a code's terms never change after approval; a code that ended stays
  ended for everybody who validates it; what the owner can use the administrator
  can revoke; the links and indexes agree with the records; terminal statuses are
  terminal.
* Host session: no limit can be evaded by setting the clock; every limit is
  enforced within one tick without help from outside; nothing survives the end of
  a session in memory, on disk or among the guests; every session ends.
* Realtime room: nobody who was not approved sees the buttons or their colors;
  everybody converges to the server's colors; no waiting device is missing from the
  host's list; the first decision about a device stands; whoever is out, for whatever
  reason, falls back to the code screen.
* Codec: what was sent is decoded, however the bytes are cut.
* Self-update: a success leaves one whole release, whatever failed before; updates that
  fail do not by themselves destroy the last copy of what the CLI needs to run; no update
  goes back.

## The modules

| Module | Stands for |
|---|---|
| `CodeLifecycle` | the promise of the store: codes are issued once, live, and end for good; grants |
| `CodeStore` | the store and all its handlers, one action per Redis command |
| `MCCodeStore` | instances of `CodeStore` |
| `CodeStoreProofs` | theorems about `CodeStore`: types, stale writes, the refinement |
| `CodeStoreLinkProofs` | with any handlers overlapping: what the owner can use is listed, and what `CodeLifecycle` is good for |
| `CodeStoreSerialProofs` | what holds while handlers do not overlap |
| `GuestRoom` | the promise about the guests: who is in the room of a live session, and how he got in |
| `HostSession` | the CLI's session, its limits, its file, its poll, its guests |
| `MCHostSession` | instances of `HostSession` |
| `HostSessionProofs` | theorems about `HostSession` |
| `Realtime` | the room: host tabs, guests, their sockets and pages, the colors |
| `MCRealtime` | instances of `Realtime` |
| `RealtimeProofs` | theorems about `Realtime`: types, who sees the board, decisions, the refinement |
| `RealtimeSyncProofs` | what tabs and guests show once they have read what is on its way |
| `FrameChannel` | the promise of a connection: one direction is a queue of frames |
| `FrameCodec` | one direction of a WebSocket: frames, bytes, the decoder |
| `MCFrameCodec` | an instance of `FrameCodec`, with its numbers and XOR |
| `FrameCodecProofs` | theorems about `FrameCodec` |
| `Updater` | the install directory, the `update` command, the installers |
| `MCUpdater` | an instance of `Updater`, and versions to compare |
| `UpdaterProofs` | theorems about `Updater` |

### CodeStore

`requests`, `codes` and `link` are the keys `request:`, `code:` and
`request_code:`; `reqIndex` and `codeIndex` the two sets. `h[p]` is the local state
of invocation `p`: the command it will issue next (`pc`), the ids of the call and
the snapshot it read. Each handler is a `Call...` action (the route, up to its first
command) and one action per `await redis...`; what the code does after a command
without awaiting belongs to the same action. `Abort` ends an invocation between
two commands. `minted`, `known` and `grant` are history variables: the terms a code
was approved for, the ids a client can have learnt, the last grant signed.

Abstractions: an accepted administrator and a valid body are preconditions;
names, creation and approval times are left out; randomly drawn ids and codes are
fresh (`FreshRequest`, `FreshCode`); the code of an approval is drawn when the call
is made although the program draws it after the read, which nobody can tell; a
visitor's listing reads the request records in one step with their index; the
Redis client's own retries are left out. Time is in minutes and one minute passes
at `Tick`, so it may pass between any two commands.

### CodeLifecycle, the abstract specification

`CodeStore` implements it under the mapping in `CodeStore!Lifecycle`: a code is
*unissued* until its record is first written, *live* while its record says active,
*ended* otherwise. An invocation is *admitted* when it holds a record that was active.
The grant is thus allowed from a record read earlier (a revocation that lands
between the read and the answer does not stop that one answer), but never from a
code that had ended before the validation began, and never past the expiry.
`GrantAsIssued` and `EndIsFinal` say what clients rely on; they follow from the abstract
specification and are proved of the store through the refinement.

### HostSession

`session` is the token and the state in memory, `disk` the file, `timers` the
remaining delays of the three timers, `sinceTick` the runtime not yet accrued.
`EndSession`, `LoadSessionFromDisk`, `ActiveSession`, `TickThen` and `Armed` are the
functions of `createInterfaceServer` and are used by the actions as the code calls
them. `wall` is the wall clock, which `SetClock` sets to any value; `Pass` lets one
unit of monotonic time go by. `calls` and `poll` are requests that wait for the web
application, whose answer is what `CodeLifecycle` promises. `used` and `overrun` are
history variables: how long the present token has been in use, and for how long
the session has been beyond its limits, both in monotonic time.

A handler reads the clock several times. `Straddle` is the case that the expiry passes
between the reading that finds a session active and a later one: `armSessionRuntime` or
`scheduleWall` then ends the session inside the caller, in the second case before the
other two timers are set, which `StrayTimer` lets run into the void. `BootNewKey` is a
start that has to make a new install key. Nothing else reads the clock twice with
different consequences.

Abstractions: otherwise a handler takes no time, and a due timer runs before time goes on
(the event loop's latency is far below `TICK_MS`); milliseconds are whole, so the
fraction that `tick` drops is zero; Ed25519 and HMAC are sound, so an edited file
is one whose seal does not match. Restoring an old copy of `session.json`, or
sealing an invented one with the key on the disk, is left out: SECURITY-NOTES.md
lists both as not preventable. Writing and removing the file succeed, unless the power
fails in a write. Server-sent events and static files have no state that enforcement
depends on.

### Realtime

`live`, `colors`, `hosts`, `guests` and `approved` are the state of `realtime.mjs`
(`approved` is the state field of a guest's object, which its handler keeps after the
map has forgotten it), `sock` the process's end of each connection: *ended* means that
`socket.end()` was called, after which nothing can be written but incoming frames are
still handled (ws.mjs). `down` and `up` are the frames on their way, in order. `cl` is
the browser's `readyState`; `page`, `ws`, `rows`, `fetches` are a tab (app.js), `view` a
guest's page (guest.js), `shown` the colors on either. Each handler is an action:
`StartSession`, `EndSession`, `AddHost`, `AddGuest` and `Refuse` (the upgrade),
`Receive...` (the messages), `SockClose` (the close handlers), and in the browsers
`Refresh`, `Serve`, `ShowLocked`, `ShowGranted`, `TabReceive`, `Decide`, `HostClick`,
`GuestReceive`, `GuestClick`, `Watchdog`, `GiveUp`, `Rejoin` (a guest whose own code was
accepted, or who reloads, is a new guest; his name is used again when nothing refers to
the old one). `Restart` kills the process, `Cut` kills
the link of a guest, `Leave` and `Reload` are the user's.

Abstractions: the 101 answer and the hello that follows it are one message; a
connection that a tab closes before its upgrade was handled is one the process never
sees; guest numbers start again with a new process, which nobody can confuse because
a decision travels on a connection to the process that listed the guest; pings are
not messages but what `Watchdog` and `SockClose` depend on: a link that is alive brings
them in time, a dead one neither brings them nor takes them. When sessions start and
end is arbitrary here and `HostSession`'s business there. (In one case not: when
`Straddle` ends a session that is just starting, the room is told of the end and then of
the start, so it broadcasts colors to hosts that are about to lock. The broadcast is
without effect, and `Realtime` leaves it out.)

`NobodyLeftHanging` ties the two ends of a guest's connection together: if the link is
whole and the page waits or shows its buttons, the process has the guest in its map exactly
if nothing on its way will close the page. The one exception is a connection whose upgrade
the process has still to handle (`Upgradable`).

### GuestRoom, the abstract specification of the guests

Guests join a live session and no other, become approved only after they were pending,
and the end of the session or of the process empties the room in the same step.
`HostSession` implements it with `live <- session # None`, `Realtime` with the map of
guests and the state in their objects. So the two modules, which know the session and
the connections respectively, agree about the interface between them: neither
lets a guest in that the other would not.

### FrameCodec

`sent` are the frames encoded, `wire` the bytes on their way, `buf` the decoder's `#buf`,
`got` what was decoded, `reading` says that `push` is in its loop. `Send` is `encodeFrame`,
`Push(n)` the arrival of the next `n` bytes, `TryRead` one turn of the loop: `#tryRead` with
what `push` does of its result. `Complete` is the conjunction of the four conditions under which
`#tryRead` goes on, in its order. `ends` is a history variable, the number of bytes sent with each
frame and those before it, by which the properties say where in the stream a frame lies.

Base and widths are parameters: a byte of 8 values, lengths of 1 and 2 digits and a key of
3 bytes have the same three forms of a header as 256, 2, 8 and 4, at lengths TLC can handle.
So are `WriteBE`, `ReadBE` and `XorByte`, which stand for Node's `writeUInt16BE`,
`writeBigUInt64BE`, their readers and `^`: that reading undoes writing, and `^` itself, is all
the codec needs of them (`NumberAssumption`, `ByteAssumption`). `MCFrameCodec` computes them.

`FrameChannel` is the abstract specification: a queue of frames, as `Realtime` has each
connection. The codec implements it with the frames sent and decoded (`Channel`); `Push`, and the
turn of the loop that finds no whole frame, are stutters.

### Updater

`installed[e]` is the release of which the entry `e` of the directory is, `old[e]` what is
under `.<e>.old`, `server` the release deployed, `job` the command that runs with the place
it is at. `Check`, `Fetch`, `Clear`, `Aside`, `Place` and `Drop` are the calls of `runUpdate`, in its
order; `Install` and `Unpack` the installers, which unpack over what is there. `Interrupt` is
the failure of a call or the death of the process at any of them; inside a removal or the
unpacking it leaves an entry `Torn`, that is, partly there. A CLI without `cli`, `shared` or
`template.config.json` cannot be started (`Program`); with a torn `cli` it may start and
take any version for its own. `Deploy` changes the server at any time, backwards too.

`NewerIsOrder` holds `isNewerVersion` to a definition that knows nothing of first differences:
versions of up to three segments, the form of every release of this program, are numbers in a
`Radix` above their segments (`ThreeDigits`, `Value`). `Rival` are the versions the deployed one
is compared with, of every length and with segments that are no numbers.

Abstractions: one command at a time; a rename either happens or does not; the
temporary directory, whose removal nobody checks, has no bearing on the next update.

## The runs

| Run | Instance | Shows |
|---|---|---|
| `store_concurrent` | 2 invocations, 1 request, 2 codes, clock to 2 | with any two handlers overlapping: `NoStaleRevival`, `LinkedActiveCodeListed`, `ImplementsLifecycle` |
| `store_serial` | 1 invocation, 2 requests, 2 codes, 2 visitors, clock to 3, one death | what the order of the commands within each handler achieves: `LinksSound`, `StoreExact`, `OneCodePerRequest`, `DeniedIsTerminal`, `RevokedIsTerminal` |
| `store_deleted` | 2 invocations, 1 request, 1 code | violates `DeletedStaysDeleted` (see Findings) |
| `session_safety` | 1 code that expires at 3, 1 guest, 2 validations, 1 restart, clock 0..4 | `DiskMirrorsMemory`, `GuestsSlaved`, `EnforcedWithinTick`, `RuntimeCapped`, `ImplementsRoom` |
| `session_live` | 2 codes that expire at 1 and 2, clock 0..3 | `SessionEnds`, `RevokedEnds` |
| `session_poll` | 2 codes, 1 validation | violates `RefusalIsOwn` |
| `session_edited` | 1 code | violates `EditKillsSession` |
| `room_safety` | 1 tab with 2 connections, 1 guest, 1 button of 2 colors, 3 events | `OnlyAllowedSee`, `AllowStands`, `ColorsConverge`, `NobodyWaitsUnseen`, `NobodyLeftHanging`, `HostsAreCurrent`, `ImplementsRoom` |
| `room_live` | 1 tab with 1 connection, 1 guest, 2 events | `GuestFallsBack`, `PageLocks`, `RoomForgets` |
| `room_late` | 1 tab, 1 guest, 3 events | violates `GoneGuestsAreMute` |
| `update` | releases 1.9.1, 1.10 and 2, the last without `interface`; 3 interruptions | `UpdatedIsWhole`, `LastCopyKept`, `NeverDowngrade`, `NewerIsOrder` |
| `codec` | 3 frames of 11 kinds, every cut | `DecodedAsSent`, `DecodedAtOnce`, `ImplementsChannel` |

Why the bounds are enough. Two invocations and one request give every race of two
handlers, two codes let a request be approved twice and one code's writes meet
another's; `Timeout` of one minute with a clock to 2 lets a code be active, be used
at its last instant and expire. The serial run has two requests and two visitors, so
that deletions and listings can hit the wrong one. In `HostSession` the tick (2), the
grace (1), the budget timer's margin (1) and the largest timer delay (2) are chosen
so that a wall timer needs two chunks, a clock can be set back within the grace and
beyond it, and ticks and other timers fall due together and apart. The clock stops
at `MaxTime`, after the last expiry; the timers go on. The history variables stop at
`MaxHistory`, above every bound the properties compare them with. Two validations
overlap, and are answered in either order: the later answer replaces the session that
the earlier one started, its timers and its file.
In `Realtime` an event is a click, the start of a session or of the process; three allow
a click between two sessions, a color that wraps round, and a session restored by a
new process. Two connections let the old one of a tab carry messages while the new one
is served; more would only queue more of the same, since a tab uses one at a time. All
else (polls, reloads, cuts, decisions, ends of the session) is unbounded. With one
connection, as in `room_live`, a tab reconnects after a reload or a loss, but not at a poll,
for which it needs a second one; that the polls leave no connection behind is `HostsAreCurrent`,
checked with two. What `HostsAreCurrent` leaves in the map, which is closed or dead, `RoomForgets`
says is forgotten. Two tabs,
and two guests at once, are not run: handlers treat guests independently of each other,
and `rows` of another tab may keep a device that was decided elsewhere, where a second
decision is ignored (the comment at realtime.mjs:45 intends it).
In `Updater` three interruptions allow an update to fail, its repair to fail, and a third
to start from what both left; three releases allow an update, one after it, and a
rollback in between. In `FrameCodec` three frames let the end of one, a whole one and the
beginning of another arrive in one piece; the payloads are on either side of both limits,
and shorter and longer than the key.
`DeniedIsTerminal`, `RevokedIsTerminal` and `OneCodePerRequest` hold for handlers that do not
overlap only (see Findings), which is why they are checked there: `store_serial` says what a
sequence of calls achieves, some of which may have died, and nothing of calls that overlap.
`LinksSound` says that no link leads astray; it allows what an approval that died leaves for
good, an approved request without a code or a code without a link, which nothing in the code
repairs and no document promises to avoid.

Symmetry permutes invocations, requests, codes and visitors (`MCCodeStore`), validations
(`MCHostSession`), and the connections of tabs (`MCRealtime`), none of which the
specifications tell apart; no run with symmetry checks liveness.

In `HostSession` fairness is a premise of each liveness property, so that
neither property profits from an assumption only the other needs. `SessionEnds`
assumes `TimeFairness`: time passes and Node runs its due timers; the network may be
down for ever and the user may set the clock at any time. `RevokedEnds` assumes
`PollFairness`, and nothing of time, so that a session cannot pass for revoked by
expiring: weak fairness of `PollSend` (the interval keeps firing), of `PollIgnore` and
`PollRefused` (a request is over after 10 s at the latest, and its continuation runs),
strong fairness of `PollAnswer` (among the polls sent again and again some reach the
web application; without that the poll promises nothing).

`Realtime!Fairness` is weak fairness of what machines do by themselves: the process
handles messages, upgrades and dead sockets (a ping is written every 20 s), a granted
page polls every 15 s and gets an answer, browsers deliver messages, and a guest's
watchdog is an interval. No person has to decide, click or leave, no page has to
reconnect, and the session need not end.

## Findings

* `store_deleted`: a write of a record read before its deletion restores it
  (approve, deny, revoke, lazy expiry). For the same reason an approval that overlaps a
  denial makes the denied request approved and issues a code: with two invocations
  `DeniedIsTerminal` fails too. And two approvals of one request that overlap mint a code
  each, so that `OneCodePerRequest` fails as well: the later code is the request's, the earlier
  one is active, listed and linked to nothing, and stays when the request is deleted, until the
  administrator revokes it or it expires. `NoStaleRevival` shows the limit of the
  damage: a code that comes back so is never active, nor has it other terms.
* `session_poll`: a 401 about an earlier code ends the session of a new one.
* `session_edited`: an edit of `session.json` while the CLI runs is overwritten by the
  next tick; only a start reads the file.
* `room_late`: a guest thrown out by the end of a session keeps his approval in his
  message handler, and the socket is read on: a click still on its way changes the
  colors of the next session, which he was not approved for.

And one that needs no run: README.md:113 says that an update "atomically swaps" the
entries. It renames them one by one (update.mjs:36), and a failure in between leaves a
mixture of two releases, or no `interface`, which the next update then deletes for good
from `.interface.old` before it places its own; if `cli` was among the entries renamed, a
new `update` reports "Already up to date". `UpdatedIsWhole` and `LastCopyKept` say what
does hold. A success, whenever it comes, is whole. And whatever updates fail or are killed, they
do not by themselves lose the last whole copy of what the CLI needs to start, though it may have
to be renamed back by hand or installed again. The worst case is common: where the temporary
directory is on another file system than the home directory, `renameSync` cannot move the new
`cli` there and fails when the old one is already aside.

With an installer that is interrupted too, even that fails. It writes over what is there, so the
entry it was at may be torn. If an update is killed after it moved `shared` aside, and then an
installer while it unpacks `shared`, the only whole `shared` is `.shared.old`. The CLI may start
with what is there of `shared`, and its next update to a newer release removes `.shared.old`
first (update.mjs:41): until that update places its own, and for good if it fails before, no
whole copy is left. These are the two exceptions that `LastCopyKept` names
(`InstallerInterrupted`, `ClearsForTorn`); no document promises otherwise.

## The proofs

Three modules prove about `CodeStore`, for any number of invocations, requests, codes, visitors
and timeouts, from the assumptions named there (timeouts are positive, the bounds are naturals,
`None` is no id and no record, and a request's id, a UUID, is never a code). `CodeStoreProofs`:

* `TypeCorrect == Spec => []TypeOK`. The part of `TypeOK` that makes it inductive is
  `Ready`: what a step of an invocation works on, an earlier step has put there.
* `StaleWritesHarmless == Spec => []NoStaleRevival`. Stated of the records alone the
  property is not inductive, because a write takes a snapshot from an earlier
  state. `NoStaleRevival` adds that every snapshot in flight carries the terms of the
  approval, with a status other than active where it is going to be written
  unchanged (`SnapshotsAsMinted`), and that no record has the code of an approval in
  progress (`NewCodesUnseen`). Then each action keeps the three parts.
* `StoreImplementsLifecycle == Spec => ImplementsLifecycle`. By the two invariants
  every step of the store maps to a step of `CodeLifecycle` or to none: the first
  write of a code's record is `Issue`, a write that takes its status from active or
  deletes it is `End`, the read of an active record by a validation is `Admit`, its
  answer `Grant` or `Drop`.

`CodeStoreLinkProofs`:

* `UsableIsListed == Spec => []LinkedActiveCodeListed`, with any handlers overlapping and dying.
  The invariant `LinkInv` says of every code that is linked, or is about to be, that it is in the
  index or has ended (`Accounted`), and of every handler that is about to take a code from the
  index that the code has ended (`HandlersInOrder`): an approval lists a code before it links it,
  and a deletion ends it before it unlists it. Both stay true under the steps of others because an
  ended code never becomes live again, which is the refinement of `CodeLifecycle` used as a lemma.
* `GrantsAreSound == Spec => []Lifecycle!GrantAsIssued` and `EndedCodesStayOut == Spec =>
  Lifecycle!EndIsFinal`: what `CodeLifecycle` promises, proved there (`LifecycleInv` adds that who
  is admitted is so for a code that was issued) and carried over by the refinement. No run checks
  the two: they follow from `ImplementsLifecycle`, which `store_concurrent` does check.

`CodeStoreSerialProofs`, under the hypothesis `Serial`, that there is one invocation at a time; any
handler may still die between two commands:

* `LinksStaySound == Serial => (Spec => []LinksSound)`, `StoreIsExact`, `OneCodeEach`, and the
  action properties `DeniedForGood` and `RevokedForGood`, all from one invariant. `SerialInv` says
  what a death leaves behind (`LinksSound`; `KnownListed`, a request whose id got out is listed;
  `Settled`, a request a code was minted for is not pending any more; `OneCodePerRequest`), and for
  each command of each handler what the store is like just before it (`InStep`). Its first part
  (`Current`) holds whatever died before: what the handler holds is what the store still has. Its
  second (`Exact`) holds as long as nothing died: by which entries the store differs from an exact
  one, which is none when no handler is running.

`UpdaterProofs` proves, for any releases, bundles and number of interruptions, assuming
that a release is a sequence of naturals and that `None` is no command:

* `TypeCorrect == Spec => []TypeOK`.
* `SuccessIsWhole == Spec => []UpdatedIsWhole`. The property speaks of the last moment
  only; `Progress` says of every moment what a command has achieved: the entries before
  the one it is at are those of its bundle, and so is that one once it is placed, whatever
  the directory held when the command began.
* `LastCopySafe == Spec => LastCopyKept`. An update deletes what is under `.old` twice, once
  before it moves an entry aside and once after it placed the new one. The second time the new
  one is whole, by `Progress`. The first time `ProgramThere` says only that the entry is there,
  as all the CLI needs are while an update runs, but for the one being exchanged; it may be torn,
  and then the step is the exception `ClearsForTorn`. `Cleared` says that nothing is under `.old`
  when an entry is moved there. An entry is torn in place by an interrupted installer only.
* `UpdatesLoseNothing`: hence, in a behaviour in which no installer is interrupted while it
  unpacks, nothing is torn in place, neither exception occurs, and what was whole somewhere
  stays so.
* `NewerIsStrictOrder`: `isNewerVersion` is asymmetric and transitive, and what is newer than a
  version is newer than whatever that is not newer than, for versions of any length, with segments
  that are no numbers. Two versions compare by the first segment in which they differ, and
  `FirstDifference` finds it.
* `UpdatesGoUp == Spec => []NeverDowngrade`: an update goes on only when the version it was told is
  newer than its own (`ToldNewer`), and by the order so is a bundle the told version is not newer than.
* `VersionsAreNumbers == Spec => []NewerIsOrder`: a leading digit that is larger outweighs all that
  follow (`LeadingDecides`), so the newer of two versions is the larger number (`NewerIsLarger`), and
  versions neither of which is newer are equal segment by segment.

`HostSessionProofs` proves, for any codes, expiries, guests, validations and restarts, any
length of the tick, the grace, the margin and the longest delay, assuming that these are
naturals (tick and delay positive) and that `None`, `Torn` and `Forged` are not mistaken for
sessions (`TimeAssumption`, `NoneAssumption`):

* `TypeCorrect == Spec => []TypeOK`, with `DownIsIdle`: a timer that runs, or an answer that
  arrives, finds a process that is up.
* `NothingLeftBehind == Spec => []DiskMirrorsMemory` and `NobodyStays == Spec =>
  []GuestsSlaved`, from their conjunction `Agree`: that a guest is only ever decided in a live
  session needs the second, that a start restores what was enforced the first.
* `LimitsEnforced == Spec => []EnforcedWithinTick` and `RuntimeIsCapped == Spec =>
  []RuntimeCapped`. Both speak of history variables, so neither is inductive. `Ledger` says
  what the history owes to the state: the tick's timer and the runtime not yet accrued make
  up one tick; whatever a token was used beyond the accrued runtime lies in the present tick
  or was lost in a restart, a tick at most each; a session beyond its limits has been so
  since the last tick at the latest, because that tick found it within them. The budget is
  below the window whenever it is accrued, which caps the whole.
* `SessionImplementsRoom == Spec => ImplementsRoom`, one lemma for each function of
  `createInterfaceServer`, by `GuestsSlaved`.

`RealtimeProofs` proves, for any tabs, connections, guests, buttons and palette, and any
number of clicks, sessions and restarts, assuming that a connection is not both a tab's and a
guest's (`RealtimeAssumption`):

* `TypeCorrect == Spec => []TypeOK`. `TypeOK` lets any message be on any connection; what makes
  it inductive is which messages go which way (`ToHost`, `ToGuest`, `ToServer`), so that a
  tab's hello always has its list of guests.
* `BoardIsForTheAllowed == Spec => []OnlyAllowedSee`. `Member` adds that an entry of the map
  goes with its socket, that a page not yet opened has left no trace, and that a connection
  whose guest was approved before is not upgraded again.
* `FirstDecisionStands == Spec => AllowStands`, an action property, from the types.
* `RealtimeImplementsRoom == Spec => ImplementsRoom`, by `Member` and by `Closed`: without a
  session the map is empty.

`RealtimeSyncProofs` extends it, with the same parameters:

* `ColorsReachEveryone == Spec => []ColorsConverge` and `NobodyIsOverlooked == Spec =>
  []NobodyWaitsUnseen`. Both speak of what a browser shows once it has read the messages on their
  way. `Settles` says that of a sequence of messages without reading them one by one: something
  good holds now or comes, and what undoes it is followed by something good again. It is kept by a
  message put at the end (`SettlesLonger`, `SettlesLast`) and by the first one being read
  (`SettlesRead`).
  The invariant `Links` says which connection can be spoken to, and by whom: a tab's connection
  is its own, not cut, and open at the process's end until the tab hears otherwise (`TabLink`,
  `OwnLinks`); a closed one is forgotten (`HostLink`); a guest is written to only while he listens,
  and what ends his connection is the last he hears (`GuestLink`). So whatever the process
  broadcasts reaches whom the properties are about (`Shows`, `Seen`), and a guest who waits is
  listed by every tab, or a decision about him is on its way.
* `NobodyIsLeftHanging == Spec => []NobodyLeftHanging`. The property forgets a guest as soon as his
  page shows the code screen, so it does not say what the next step of a page does that was not
  counted before. `Counted` speaks of every guest who still listens (`Hears`), whatever his page
  shows. `CountedOutcome` reduces each step to its outcome for one guest: he hears nothing that
  ends his connection and stays in or out, is let in on an open socket, or is put out and told.
* `NoHostIsLeftBehind == Spec => []HostsAreCurrent`. `HostKept` adds that a connection which is not
  closed is some tab's, and that no host in the map is told that his connection ended
  (`HostsAreTold`): so a tab that gives one up closes it, or has learnt that the process is gone.
  What announces the end stays until it is read (`HostKeptRead`), and by `Links` the close of an
  open connection is written to a process that listens.

`FrameCodecProofs` proves, for bytes of any even size, lengths and keys of any width, any frames
and any number of them, assuming `ByteAssumption`, `NumberAssumption` and `FrameAssumption` (what a
frame has in it are bytes, and its length can be written):

* `FramesComeThrough == Spec => []DecodedAsSent` and `NothingHeldBack == Spec => []DecodedAtOnce`.
  `Layout` and `HeaderBytes` say which byte of a frame is where; from them, of a buffer that begins
  as a frame does, `ReadsSecondByte`, `ReadsLength`, `ReadsWholeFrames` and `ReadsFrame` say what
  `#tryRead` makes of it: in particular that it goes on exactly when the last byte of the frame is
  there. The invariant `CodecInv` places
  every byte of each frame still to be decoded in the stream made of `buf` and `wire` (`Placed`), at
  offsets that only grow (`EndsAdd`, `EndsGrow`). `Push` moves bytes within the stream, `Send` adds
  to its end, `TryRead` takes the first frame from its beginning.
* `CodecImplementsChannel == Spec => ImplementsChannel`, by `CodecInv`: a turn of the loop that
  decodes anything decodes the first frame not yet decoded.

Only model-checked: all liveness (`SessionEnds`, `RevokedEnds`, `GuestFallsBack`, `PageLocks`,
`RoomForgets`), since the prover handles neither fairness nor ENABLED. Of versions with more than
three segments it is proved that `isNewerVersion` is a strict order (`NewerIsStrictOrder`); that it
is the order of numbers would need a sum of any length, and induction over it. The four runs
that violate something are counterexamples and need no proof.

## Not modelled

* Web pages: each loads its list once at the start and after each of the user's own
  commands, and when a countdown ends. Two loads may overtake each other, and the page
  then shows the older list until the next; and since the server takes a code as active up
  to and including its last instant, a browser whose clock is ahead asks too early and
  shows the code as active, with no time left, until it is loaded again. No document
  promises otherwise, so there is nothing to hold the pages to.
* Administrator authentication: stateless, a precondition of the handlers.
* Removals of `session.json` that fail (see the hazards), and two updates at once.
* The installers' checks of the environment, launchers and PATH hints, the choice of a
  LAN address, argument parsing, developer scripts: no state.

## Plan

Every safety property that a passing run checks is proved. What is left is to model more:

1. The failing removal of `session.json`, with the fate of each caller's exception.
2. Two `update` commands at once.
