# TLA+ models of the APE server

APE (Ajax Push Engine) is a Comet server in C: browsers hold a connection open
(long polling, streaming or WebSocket) and the server pushes messages ("raws")
to them. This directory holds TLA+ models of its core, the TLC configurations
that check them on small instances, and TLAPS proofs of the results that hold
for every instance. `PROJECT.json` maps every definition to the lines it models
and lists runs, mutants, hazards, findings and theorems.

    tlc -workers 2 -config MCSessionSafety.cfg MCSession    # one run
    tlapm ChannelProofs.tla                                 # one module's proofs

## 1. The system

The server is one process with one thread. `sockroutine()` (`src/src/sock.c`)
waits for socket events, serves each with a callback, and calls `process_tick()`
once per elapsed millisecond. Nothing runs in parallel: what is hard is the
*order* in which events of different sockets, timers and scripts come, and what
each handler leaves behind (pointers, half-sent buffers, half-parsed requests)
for the next one.

    peer --read--> sock.c --> parser.c/http.c --> handle_http.c (checkrecv)
                                                      |
                              cmd.c (process_cmd, commands, hooks)
                               |             |               |
                          users.c        channel.c      JS scripts (libape-spidermonkey.c)
                       (users, subusers)     |               |
                               \---- raw.c (queues) <--------/
                                         |
             ticks.c --50 ms--> users.c (check_timeout) --> send_raws
                                         |
                              transports.c, sock.c (sendbin) --write--> peer

### Inventory

| Part | State | Operations | What is hard | What makes it correct |
|---|---|---|---|---|
| channels (`channel.c`) | member list of each channel, channel list of each user, flags, levels, bans | join, left, ban, rmban, setlevel, mkchan, rmchan | two lists of the same fact; a channel that frees itself with its last member; ban expiry | lists agree; no empty automatic channel; bans last and bind; levels come from above; clients are told |
| users, subusers (`users.c`, `cmd.c`, `servers.c`, `transports.c`) | `co[fd]` with `attach`, subusers with `client`, `state`, `wait_for_free`, users, `nConnected` | CONNECT, commands, QUIT, second connection, idle check, flush, disconnect | descriptors are reused, pointers outlive objects, two connections compete for one session, time-outs strike in between | a live subuser is served by the connection attached to it; one listener; what is set aside can still be freed; no user loses its last subuser; every answered poll ends |
| raws (`raw.c`) | reference-counted raws in chained queues of two priorities | forge, post, copy to a new subuser, send, free | sharing between queues, growth at the limit, late subscribers | counts are exact; chains end in a null slot; clients catch up |
| timers (`ticks.c`) | list of timers, each with the delay to the one before | add, periodic, clear, process_tick | functions change the list while it is walked | every timer is called in its tick, as often as asked |
| output (`sock.c`) | `bufout[fd]`, `burn_after_writing` | sendbin, sendqueue, safe_shutdown | partial writes, shutdown before the buffer is empty | order, completeness, bounds, shutdown is carried out |
| HTTP parser (`http.c`, `handle_http.c`) | position and pointers into a growing buffer | process_http, checkrecv | requests cut anywhere; realloc() moves the buffer | the cuts do not matter; pointers are fresh; there is room to read |
| WebSocket parser (`http.c`) | step, key, lengths, positions in the buffer | process_websocket_frame(_06) | frames cut anywhere, state left between frames | each frame acted upon once, in order, unmasked by its key |
| commands and hooks (`cmd.c`) | registered commands, hooks, queue behind a delayed CONNECT | process_cmd, call_cmd_hook | a hook answers later, or not at all | a refused CONNECT leaves a temporary user that nobody is told of |
| scripts (`libape-spidermonkey.c`) | JS objects with pointers to users, channels, pipes; event handlers; garbage-collector roots | the server-side API, the events | handlers call the server back in the middle of its own operations; objects outlive what they point to | no object leads to freed memory; calls resume on what still exists; scripts hear what happens |
| script sockets, DNS (`libape-spidermonkey.c`, `sock.c`, `dns.c`, `event_epoll.c`) | connection state, input buffer, pending lookups, two pointers between object and socket | connect, resolve, accept, read, write, close | edge-triggered readiness, reuse of descriptors, closing inside a callback | each object has its own connection and bytes; lines are whole; every end is reported once |
| hash table, pipes, properties (`hash.c`, `pipe.c`, `extend.c`) | chains threaded by a list, public ids, typed key-value lists | append, erase, seek, publish, set, show, clear | cells linked twice; values owned by a list | tables are finite maps; values are freed once; clients see what scripts set |
| JSON (`json.c`, `json_parser.c`) | automaton with a stack and a parse buffer; trees of items | parse a byte, build, copy, print, look up, free | flags and state that must fit each other; half-built trees; two walks that must agree | assertions hold; the grammar is read; texts fit their allocation; trees are freed once |
| config, plug-in loading, utilities | | | start-up or pure functions | not modelled |

## 2. Modules

Every component module has its state as VARIABLES, one action per handler, and
properties at the end. An operator named `Name_Fault` is a plausible slip in the
code of `Name`; no action uses it, the mutants of `PROJECT.json` do.
Each `MC...` module only supplies instance data.

| Module | Models |
|---|---|
| `Channel`, `ChannelProofs` | `channel.c` with JOIN, LEFT, QUIT and the script calls on channels |
| `Session`, `SessionProofs` | which connection serves which subuser, and who frees what |
| `RawQueue`, `RawQueueProofs` | raws queued for the subusers of one user |
| `Ticks`, `TimerContract`, `TicksProofs` | the timer list, and the promise it implements |
| `SendBuffer` | output of one socket (its proofs are in `ScriptSocketProofs`) |
| `ScriptSocket` (extends `SendBuffer`), `ScriptSocketProofs` | the sockets of scripts, the loop that serves them, DNS |
| `Scripts` (extends `HashTable`, `Extend`), `ScriptsProofs` | users, channels and pipes as scripts see them, and events |
| `HashTable`, `Extend` | the tables and property lists, as operators |
| `JsonItem`, `JsonParser`, `JsonParserProofs`, `JsonTree`, `Json` | JSON items; the parser and its proofs; printing, copying, freeing, lookup; both together |
| `HttpParser`, `HttpParserProofs` | the request parser and the decision of `checkrecv()` |
| `WebSocketFrame` | the frame parsers of drafts 06 and 07 |

### Channel
`level[c][u]` stands for the `userslist` cells of a channel, `chan_foot[u]` for
the `CHANLIST` of a user; only the order inside the lists is abstracted. A raw's
effect on its addressee's roster (`seen`) is applied when it is posted, because
the queue of a subuser is delivered in order (that is `RawQueue`'s business).
`forced` and `ceiling` are history variables: memberships made by a script, which
skips `getban()`, and the highest level the server or an AUTOOP user gave.
`getban()` frees expired entries up to the first match, so it may leave several
lists behind (`Pruned`). A command that ends in an error raw is a stuttering step.
`ban()`, `rmban()` and `setlevel()` are called by nothing in the repository (the call at
`src/src/channel.c:202` is under `#if 0`): they are
what `channel.h` offers to plug-ins, and are modelled as such, with any arguments that
do not end the server. With no actor, `setlevel()` writes through a null pointer on an
interactive channel (`get_json_object_user(NULL)`, `src/src/channel.c:368`), and `ban()`
on any channel with a member to ban (`:432`); so the server sets levels on
non-interactive channels only (`setlevel_server`) and only users ban. The walk of `ban()`
is one step: it reads the next cell before `left()` frees the current one, and with no
scripts in this module no other cell goes meanwhile.

### Session
A handler is one action. Subusers are heap cells: `co[f].attach` is kept as the
code keeps it and may outlive its cell. When a handler reads or writes a freed
cell, or goes through a null pointer, `corrupt` becomes TRUE and the model stops (hence
`CHECK_DEADLOCK FALSE`). `addsubuser()` makes no subuser for a host longer than
`MAX_HOST_LENGTH` (`LongHosts`) and none of its callers copes: the process ends, or a
temporary user without a subuser is left (`ConnectTooLong`, `SpeaksTooLong`,
`CompleteConnectNull`). `lost` is a history variable: a subuser marked to be freed that
its WebSocket has dropped. `Fresh` lets an allocation take only cells nothing points
to, so that a stale pointer is never mistaken for a valid one. Descriptors are
reused at once. The 45 s time-outs may strike whenever the order of the last
activities allows it: `usr[u].last` names the subuser with the latest stamp, which
is the user's own. Clients keep to the kind of connection they chose at CONNECT
and send one request per HTTP socket; frames queued on a WebSocket before it was
shut down are still read. Hooks may let CONNECT continue, leave it hanging, post
an error, or answer inline. `UINT` (2) stands for 2^32: `nConnected` steers nothing,
and wraps. Raws are reduced to "has any" (`pend`).

### RawQueue
One user on one interactive channel, with several subusers (one per host). Chains
start with 2 slots and grow by 2 (32, 8 and 16 in the code), so growth at the limit
happens within the bound `MaxQueue = 3`. `view[s]` is what the client behind `s`
has been told.

### Ticks and TimerContract
`process_tick()` is not one step: each call of a timer's function, what that
function does to the list, and its return are separate steps. `TimerContract`
knows no list, only the remaining ticks of each timer. `Ticks!C` maps the delta
list to it: what remains is the sum of the deltas up to the timer. Clearing only
marks a timer, as `clearTimeout` does; `del_timer_identifier()` is called by
nothing.

### SendBuffer
The kernel takes any number of the bytes offered; the rest is buffered and
allocation is rounded up to `Block`. `sendbin()` of the empty string is separate
(`SendNothing`): its loop is not entered, so a shutdown asked for with it does not
wait for the buffer.

### HttpParser
A line is a symbol for its text and one for its end, so a read may end inside a
line. The calls `process_http()` makes of itself are steps under `busy`. `realloc()`
may move the buffer (`base`), which is what `http->buffer_addr` is for. A zero byte is a
symbol of its own: where a read leaves the parser in front of one, it finds nothing to
read (`StopsAtZero`). One request
per connection: the server closes it after the answer.

### WebSocketFrame
The draft is fixed by the handshake (`version`). Works on real bytes and real XOR masks; the peer's encoder (`Encode`) is the only
part that is not a translation of the server. `MaxBuffer` (22) stands for 502400,
`Huge` for 2^64 - 1.

### ScriptSocket
Composes `SendBuffer` with the rest of a connection's life: `connect()` by way of
the resolver, or `accept()`; input in bytes or in lines; the end, seen by `read()`,
by a failed connect or by the script. One descriptor is given to one connection
after another. A server object may have had the descriptor before: `sockroutine()` closes a
listening socket that was shut down (`ServerClosed`), the object keeps its pointer, and a
second `close()` of it shuts down the connection that has the number now
(`ServerCloseAgain`). The object of a connection leads to its socket over its private record and the
record's `client`, the socket to the record over `co->attach`; both are kept as the
code keeps them. `epoll` is edge-triggered: a notification is consumed by the loop,
and only something new raises it again.

### Scripts, HashTable and Extend
The server is single-threaded but re-entrant: `FIRE_EVENT` (`main.h`) calls scripts
in the middle of `join()`, `left()`, `rmchan()`, `deluser()`, and scripts call these
again. `todo` is the C stack: tasks still to do, innermost first. `fire` holds the
kinds of event being delivered; one that happens inside a handler of its own kind
is not delivered, as the `fire` flags of the plug-in say.

Nothing in the code keeps a handler from pulling the rug from under the operation
it was called from. The rules a script has to keep are therefore explicit guards,
`MayTakeOff`, `MayDelete`, `MayMake`, `MayJoin` and `MayAccept`: they are
the model's answer to "what must a handler not do", and the list under
*Observations* says what happens to a script that breaks one. `Pinned` is the set of
users and channels that a call under way will still use, the next user of
`check_timeout()`'s list among them. Thus a handler deletes no
user and removes or empties no channel in `Pinned`, and does not put a user who is
being deleted on a channel in `Pinned`: the deletion would take it off again and
free the channel as empty while the outer call still uses it.

`HashTable` and `Extend` are pure: a table or list is a value, an operation a
function of it. `Scripts` owns three tables (`hPubid`, `hLusers`, `hSessid`) and one
property list for each user, channel and custom pipe. `heard` is what two scripts
know that only listen: `scripts/framework/userslist.js` (the users of each channel)
and a list kept from `adduser` and `deluser`. `unheard` is a history variable: of
whom something was not reported. `api` is fixed by Init: which groups of calls the
installed scripts make, so that groups are checked side by side and not multiplied.
The garbage collector is external: it may collect at any time what neither a root,
a parameter, a rooted object nor a script's variable reaches.

### JSON
`JsonParser` is the automaton of `json_parser.c` byte by byte: state, stack of
modes, type and flags of the value being read, parse buffer and its capacity.
`JsonItem` has the two ways in which a tree is linked (by the parser's callback and
by `json_set_property_*`), `JsonTree` what is done with a tree. `Json` puts them
together: a text is what a client sends or what `json_to_string()` prints of a tree
the server built. The grammar the parser is compared with is written down
independently. Numbers with a point stay texts: `strtod()` is not modelled.

## 3. Runs

| Run | cfg | Result | Distinct states |
|---|---|---|---|
| `channel_ban` | `MCChannelBan` | pass | 161168 |
| `channel_roster` | `MCChannelTwo` | pass | 20342 |
| `session_safety` | `MCSessionSafety` | pass | 499502 |
| `session_poll_completes` | `MCSessionLive` | pass | 429126 |
| `session_attach_dangling` | `MCSessionAttach` | violation | |
| `timers_contract` | `MCTicks` | pass | 182524 |
| `raw_queues` | `MCRawQueue` | pass | 829786 |
| `script_sockets` | `MCScriptSocket` | pass | 912893 |
| `scripts` | `MCScripts` | pass | 615873 |
| `http_requests` | `MCHttpParser` | pass | 258434 |
| `websocket_frames` | `MCWebSocketFrame` | pass | 8064 |
| `json` | `MCJson` | pass | 326838 |

**What they show, and why the bounds are enough**

* `channel_ban`: three users, two behind one address, one AUTOOP, levels up to 3,
  a clock of 0..2 with bans of 0 and 1, on a silent channel, where the server may set
  levels too. Two members behind one address make `ban()` remove several at once, also
  the last ones with the channel; terms 0 and 1 put the expiry both at and after the
  present instant. `MembershipSymmetric`, `NoBannedMember`,
  `LevelsGranted` and `BanLasts` hold.
* `channel_roster`: an interactive and a silent channel, two users.
  `RosterExact` (what the raws tell each user is what is so) and
  `NoEmptyAutodestroy`.
* `session_safety`: two users, two subuser cells and two descriptors, all three
  transports. Two descriptors suffice for reuse and for a second connection of a
  session; `AliveAttached`, `OneListener` and `Owned` speak of at most two sockets.
  `Owned`: a subuser belongs to a user that exists, or is marked and a connection still
  open leads to it, so that `ape_disconnect()` will free it, or leaked (`lost`).
* `session_poll_completes`: one user polling through two hosts, and a third that is too
  long. Liveness
  (`PollCompletes`), also when the answer does not fit into the socket at once, a
  second request comes, or the user goes; it speaks of polls whose subuser has no
  unfinished answer. `AlwaysASubuser`: no time-out, QUIT or hang-up removes the last
  subuser of a user that stays, which takes two hosts to be at stake; only a temporary
  user connected over the third never had one.
* `timers_contract`: the core timer and up to three script timers, delays 1 and 3,
  counts 0 (for ever), 1 and 2: timers due in the same tick, one set or cleared by
  another's function. The refinement `MeetsContract` and `CoreTimerRuns` hold.
* `raw_queues`: two subusers, one other member, five raws: `RefCountExact`,
  `ChainsTerminated`, `ClientsCatchUp`.
* `script_sockets`: two objects on one descriptor, one after the other
  (`MaxLives = 2`), the first with strings of 0 to 2 bytes and a closing write, up to
  3 bytes each way (`Traffic`), output blocks of 2, an input buffer of 2 and lines of
  at most 2 (`BufSize`, `MaxLine`), so that the buffer grows, lines are cut and
  overlong ones occur. Two objects suffice for a handle that outlives its connection.
  A script listens until the number of its server is reused, and not again after that
  (`ListenAgain = FALSE`), which keeps the run within minutes; the proofs have both.
  Safety: `InOrder`, `CompleteBeforeShutdown`, `WithinAllocation` (the output),
  `HandlesLive` (the object of a connection leads to its own connection or to none, and
  what is written there is its own; a server object is no such object),
  `HeardInOrder` (onAccept or onConnect, then data, then one onDisconnect),
  `ReadsWhole` (lines), `NothingMissed` (no input is left behind a consumed
  notification). Liveness: `HearsBack` (whoever connects hears of it, whoever is cut
  off hears of that) and `DeferredShutdown`.
* `scripts`: two users, two channels, one custom pipe, two names (one of them spelt
  in upper case), all identifiers in one bucket, two values (`MaxVals`) so that one
  replaces another, one key that is too long, and one call of a script inside each
  operation (`MaxCalls = 1`, which nests an operation in another; its own events are
  delivered too). Six kinds of installed scripts. Users and channels are symmetric:
  nothing but the identity tells them apart. `TablesExact` (each table is the map it
  should be, and its list visits every cell once), `HandlesLive` (no object a script
  has leads to freed memory), `ObjectsKept` (lookups find live objects; no root in
  freed memory), `PinnedLive` (a call that goes on after a handler, `check_timeout()`
  with its next user included, works on what still exists), `ListsHeard` (listening scripts are right when the server is idle),
  `PropertiesKept` (values are never freed twice; clients are shown what `getProperty()`
  answers).
* `json`: every text of up to 5, 6 or 7 bytes (more after a fixed opening) over each
  of seven alphabets (structure, structure with blanks, numbers, words, strings, code points, surrogates), and what is printed of every
  tree of up to 4 items, half of them copies that were built on. Nesting 3, a parse
  buffer of 3 that grows. `AssertsHold`, `ReadsTheGrammar` (accepted exactly if the
  grammar says so, with the tree it denotes, and refused no earlier than hopeless),
  `FreedOnce`, `RoundTrip` (what is printed fits its allocation and reads back as the
  tree), `LookupFinds`.
* `http_requests`: every request with up to two header lines (lengths 0 to one too
  many) and three body bytes, with zero bytes in header and body, in every cut, a buffer of
  3 that doubles: `SplitIndependent` (the request handed over does not depend on the cuts,
  and a complete one is kept waiting only in front of a zero byte), `PointersFresh`,
  `RoomToRead`.
* `websocket_frames`: drafts 06 and 07, two frames of each kind and length form,
  under different keys, in every cut: `FramesDecoded`.

Every module also states a type invariant (`TypeOK`, `SocketTypeOK`). They document the
state and are what proofs start from; all but those of `Json` and
`WebSocketFrame` are theorems or part of a proved invariant (section 4). The runs spend
their invariants on what the types do not say; add `INVARIANT TypeOK` to a cfg to check
the others on its instance.

**Fairness.** Session: weak fairness of `Hangup`, `Drain` and `Flush`. The loop
serves every socket with an event, the 50 ms timer calls `check_timeout()` (that it
goes on is `CoreTimerRuns`), and peers that are sent something read it or hang up.
Nothing is assumed of clients' requests. Ticks: weak fairness of the steps of
`process_tick()`, which assumes that functions of timers return. ScriptSocket: weak
fairness of `Loop` (the event loop serves what it was notified of) and of `Flush`
(a peer that reads, so that output drains). Nothing is assumed of scripts, of peers
that send, or of the resolver beyond its answers being served. The other modules are
checked for safety only.

**Finding.** One run ends in a violation because the code does not do what a comment
in the repository says. `session_attach_dangling`: a polling connection that was
answered and shut down keeps `co->attach`; if the user is deleted before its end of
file is read, the subuser is freed at once and `ape_disconnect()` reads freed memory
(`src/src/servers.c:50`; the comment at `src/src/cmd.c:200` warns of this). The
passing Session runs therefore show their properties up to such a step.

**Observations.** Met while modelling; the passing runs leave these cases out, in the
place named, or contain them without a property.

*Core.*
* A timer of delay 0 set by another timer's function is cut off the list and never
  called (`src/src/ticks.c:39`); `MCTicks` has delays of at least 1.
* A WebSocket frame without payload is never complete, because the length is
  decremented before it is compared with 0: a Close without payload is not answered
  (`src/src/http.c:179`); the traffic of `MCWebSocketFrame` has no empty payload.
* A zero byte stalls a request for good if a read happens to end just before it, and does
  no harm otherwise (`src/src/http.c:457`).
* A subuser that is set aside on a WebSocket (QUIT, or the deletion of its user while its
  connection is open) leaks when the WebSocket attaches another or none:
  `parser_ready_websocket()` drops the pointer and frees nothing (`src/src/parser.c:50`).
* A `Host` longer than 256 bytes makes `addsubuser()` return NULL (`src/src/users.c:432`).
  A command of a session with it ends the server (`src/src/cmd.c:227`), and so does a
  CONNECT, unless its hook answers inline: then a temporary user without a subuser stays
  until it is idle, and `Ape.addUser()` on it ends the server.
* `deluser()` subtracts users from `nConnected` that `adduser()` never added
  (`src/src/users.c:205`). "Content-Length is mandatory in case of POST"
  (`src/src/http.c:557`) is not enforced when the header is absent. The
  `burn_after_writing` of a subuser survives a connection that ends before its output
  has drained (`src/src/servers.c:59`).
* A QUIT queued behind a delayed CONNECT deletes the user `Ape.addUser()` goes on
  with (`src/modules/libape-spidermonkey.c:3555`); the queue itself is never freed,
  since `u->cmdqueue` is set to NULL first.

*Scripts.*
* `delProperty()` of users, channels and pipes deletes nothing: it asks
  `JS_ConvertArguments` for "s" (`src/modules/libape-spidermonkey.c:786`, `:1350`,
  `:1545`), which the engine in `src/deps/js/src/jsapi.cpp` does not know.
* An event inside a handler of its own kind is silent. So `quit()` in a `delUser`
  handler, or removing or emptying a channel in an `rmChan` handler, frees the user or
  channel but leaves its object pointing to it and its root in place; `mkChan()` in a
  `mkChan` handler dereferences the object the new channel does not have; and
  `userslist.js` misses a join inside `beforeJoin` or a leave inside `left`.
* A `beforeJoin` handler that removes the channel, a `left` handler that deletes the
  user, and `user.quit()` in the function of a registered command (the example given
  for `quit` in the API's own comment) leave the caller with freed memory. So does a
  handler that, inside the deletion of an idle user, deletes the next one of the list:
  `check_timeout()` has taken it before (`src/src/users.c:247`).
* The object of a custom pipe is rooted nowhere: if scripts drop it, a SEND to the pipe
  may call a collected object. `pipe.destroy()` also works on pipes of users and channels.
* `setProperty()` through the pipe of a user or channel sets a property of the user or
  channel, but `getProperty()` through it reads the pipe's own list, which is empty. The
  keys `jsobj`, `name`, `pubid` and others the server uses are not reserved
  (`KeysAssumption` is). Destroying a custom pipe, and a tree under a key that is too
  long, leak the values.

*Sockets of scripts.*
* `close(true)` cuts at once, `close()` waits for the output. A `connect()` that
  succeeds at once is taken for a failure and its descriptor leaks. A lookup that finds
  no address, or of an invalid name, is never reported (`src/src/dns.c:125`). Whether an
  overlong line is dropped depends on the pieces it arrives in. A line that holds a zero
  byte is cut there (`JS_NewStringCopyZ`, `src/modules/libape-spidermonkey.c:2344`); the
  peers of the model send none.
* A second `close()` of a server object shuts down whatever connection has been given the
  number of its listening socket since (`src/src/sock.c:314`,
  `src/modules/libape-spidermonkey.c:514`). That connection's own object hears its
  onDisconnect as if the peer had gone.

*JSON.*
* `1.` is accepted and `0e1` refused; bytes from 0x80 on are refused; the empty text is
  accepted with no tree; `true` is printed as 1 and an empty container as 0; an
  apostrophe is escaped as `\'`, which the parser does not accept; keys are printed
  unescaped.

## 4. Proofs

All theorems are checked by TLAPS 1.4.5 to the last leaf, for every value of the
constants that the named assumptions of a module allow; TLC evaluates those assumptions
on every run. Every theorem is a safety property of the module's own specification.

| Module | Theorem | States |
|---|---|---|
| `ChannelProofs` | `TypeCorrect` | `[]TypeOK` |
| | `MembershipAgreement` | `[]MembershipSymmetric` |
| | `NamesReclaimed` | `[]NoEmptyAutodestroy` |
| | `RostersExact` | `[]RosterExact` |
| | `BansHold` | `[]NoBannedMember` |
| | `NoEscalation` | `[]LevelsGranted` |
| | `BansLast` | `BanLasts`, an action property |
| `SessionProofs` | `SessionTyped` | `[]TypeOK` |
| | `AliveIsAttached` | `[]AliveAttached` |
| | `SingleListener` | `[]OneListener` |
| | `NeverWithoutSubuser` | `[]AlwaysASubuser` |
| | `SubusersOwned` | `[]Owned` |
| `RawQueueProofs` | `QueueInvariance`, `QueueTyped` | `[]QInv`, `[]TypeOK` |
| | `QueuesTerminated` | `[]ChainsTerminated` |
| | `CountsExact` | `[]RefCountExact` |
| | `EveryClientCatchesUp` | `[]ClientsCatchUp` |
| `TicksProofs` | `ContractMet` | `MeetsContract`, the refinement of `TimerContract` |
| `ScriptSocketProofs` (`SendBuffer`) | `Invariance` | `[]IInv` |
| | `OrderedDelivery` | `[]InOrder` |
| | `NoCutOff` | `[]CompleteBeforeShutdown` |
| | `NoOverrun` | `[]WithinAllocation` |
| `ScriptSocketProofs` | `SocketInvariance`, `SocketTyped` | `[]KInv`, `[]SocketTypeOK` |
| | `HandlesReachTheirOwn` | `[]HandlesLive` |
| | `CallsInOrder` | `[]HeardInOrder` |
| | `NoLostWakeup` | `[]NothingMissed` |
| | `ScriptOutputInOrder` | `[]InOrder` |
| | `LinesArriveWhole` | `[]ReadsWhole` |
| `ScriptsProofs` | `BInvHolds`, `TypeCorrect` | `[]BInv`, `[]TypeOK` |
| | `TablesAreExact` | `[]TablesExact` |
| | `HandlesAreLive` | `[]HandlesLive` |
| | `PinnedAreLive` | `[]PinnedLive` |
| | `ObjectsAreKept` | `[]ObjectsKept` |
| | `PropertiesAreKept` | `[]PropertiesKept` |
| | `ListsAreHeard` | `[]ListsHeard` |
| `HttpParserProofs` | `ParserTyped` | `[]TypeOK` |
| | `AlwaysRoom` | `[]RoomToRead` |
| | `NoStalePointer` | `[]PointersFresh` |
| | `SplitsDoNotMatter` | `[]SplitIndependent` |
| `JsonParserProofs` | `ParserTyped` | `[]TypeOK` |
| | `NoAssertFails` | `[]AssertsHold` |

**How the arguments go, and why the invariants are stronger than the properties**

* `ChannelProofs`. `TypeOK /\ MembershipSymmetric` is inductive by itself:
  whatever set of memberships `left()` removes, both lists lose the same ones, and a
  channel is freed only when all of its members leave in the same step
  (`LeaveSymmetric`; `LeavingUser` and `LeavingChannel` say so for QUIT, ban and rmchan).
  The other properties are proved together, as `IInv`. They need one another and
  `AbsentClean`: a name nobody uses has no flags or bans left over, so that the next channel
  of that name starts clean. `BansLast` looks at each action that removes a
  ban.
* `SessionProofs`. `SInv` is a predicate of the tables of sockets, subusers and users,
  because a handler changes them several times before it returns: each building block of
  a handler has a lemma, and an action is a chain of them. To show that one connection at
  most is waiting, one needs that a waiting connection is the client of the ALIVE subuser
  it is attached to (`Listener`), that a request finds its socket unattached, and that a
  socket serves only subusers of its own kind of transport. To show that a user keeps a
  subuser, one needs that the latest stamp is held by one of its own (`LastHeld`), but for a
  temporary user that has no stamp, which is the one whose host was too long. That a subuser
  set aside can still be freed needs that a connection that is not closed leads to each
  (`Reached`), which every handler that moves an `attach` has to keep. The
  theorems speak of runs up to a step that reads freed memory, where the model stops (the
  finding of section 3).
* `RawQueueProofs`. A chain that is `Terminated` is a plain queue, and what the actions do
  to slots is proved to be an operation on that queue (`PostedChain`, `PostedAllChain`,
  `EmptiedChain`, `ForwardIs`, `BackwardIs`). `QInv` adds that no raw is queued twice for
  a subuser, which is what makes one reference per queue right (`DroppedSlots`), and
  that `nsub` is the number of subusers, without which `post_to_pipe()` could forge a raw for
  nobody. That clients catch up needs `Settled`: what is queued at low priority
  leaves the member list of now as it is. Only with it may an older copy follow a newer
  snapshot. A new JOIN or LEFT keeps it because two views that differ in one user differ
  in no other after any raws (`TellApart`), and the raw at the end settles that user.
* `TicksProofs`. Every step of `Ticks` maps to a step of `TimerContract` or to none.
  `TInv` says that identifiers are unique, that no delta is negative (`NoDebt`), that
  outside `process_tick()` nothing is due, and that the
  timer whose function runs stays at the head. The last one fails for a delay of 0 set
  inside a function, which the code then cuts off the list (section 3, *Observations*), so
  the theorem has the hypothesis `0 \notin Delays`.
* `SendBuffer` (first part of `ScriptSocketProofs`). `IInv == TypeOK /\ InOrder /\ ShutEmpty /\ WithinAllocation`.
  `ShutEmpty` (a socket the server has shut down has an empty buffer) makes
  `CompleteBeforeShutdown` inductive: completeness follows from order. `NoCutOff` is
  under `NoEmptyBurn`: no caller sends the empty string with `burn_after_writing`. The
  server's own callers do not; a script can.
* `ScriptSocket` rests on `SendBuffer`: what a script's socket does to the
  output is a step of `SendBuffer` or a fresh start. `KInv` adds, for each script object,
  how its stage, its `client` flag, what it has heard and the descriptor's owner fit
  (`ObjectOk`), that a descriptor not yet connected is as `close_socket()` left it, and
  where in the loop a connection may be. `LinesArriveWhole` needs one more invariant,
  `Whole`: at every place of the loop, what the object was told, what is in the buffer
  and what is still in the socket make up the text the peer sent, one after the other.
  Each action moves a piece from one of the three to the next, and a rest that
  is thrown away proves that the text has a line longer than `MaxLine`.
* `ScriptsProofs`. `BInv == TInv /\ Stacked /\ World`, for any `MaxCalls`, that is for
  any depth to which handlers nest calls of their own.
  *The stack.* A step takes the first task off the stack and puts a block of new ones on
  it. `Stacked` therefore relates the tasks to each other and to the server: an event
  being delivered has its end on the stack (`Firing`); an upper task leaves alone what
  a lower one goes on to use, for every two (`Pairs`) and, where a third decides, every three
  (`Triples`); when `rmchan()` or `deluser()` of something resumes after its event was
  delivered, its members will have left (`Emptied`) and its object be detached
  (`Unbound`). `PinnedLive` is one part (`PinsLive`), and is inductive only with the
  others. Each kind of step has a lemma that its block fits the stack it is put on
  (`BlockOk`); those of the calls of scripts use the rules above (`MayTakeOff` and the others).
  *The tables.* `TableOk(h, m)` says that a table is the finite map `m`: the cells form one
  doubly linked list (`Linked`), the chain of a bucket has exactly its cells, each once
  (`Chained`), and no two cells have the same key but for case (`Keyed`). `hashtbl_append()`
  and `hashtbl_erase()` are shown to act on `m` as on a map, for any hash function
  (`HashAssumption` asks only that lower case is lower case). `IsMap`, whose walk along the
  list is a recursive function, follows by the first place at which it would fail.
  *The objects.* `World` relates the tables, the property lists (`PropsOk`: a value
  belongs to one cell of one list and is allocated), private pointers, roots and the
  collector. `PrivOk` (a private pointer is NULL or leads to a live owner) is
  `HandlesLive`; it needs the stack, because `ape_cb_del_user()` and `ape_cb_rmchan()` clear
  the pointer in a step before the free. Scripts reserve the server's own keys
  (`KeysAssumption`), without which `setProperty("jsobj", ...)` breaks `ObjOk`.
  *What is heard.* `HInv`, on top of `BInv`, is `ListsHeard` for a server that is not
  idle: the list of users is right but for those whose deletion has been reported and
  not carried out (`Told`), the lists of channels but for those whose leaving has been
  reported and is still to be done (`Off`). It needs from `Pairs` that nobody joins a
  channel he is just leaving and that nobody is accepted who is being deleted.
* `HttpParserProofs`. `PointerInv`: the pointers of the request are NULL or relative to
  `buffer_addr`, the position is within what was read, and a read leaves room for its
  zero byte. `SplitInv` says for each step of the parser what it has made of the
  stream so far, in terms of the stream alone, or that it stands in front of a zero byte
  and stays there. The streams are `LineOriented`: the text of a
  line is one symbol and is followed by its end.
* `JsonParserProofs`. `AssertsHold` says what the next byte will find, which depends on
  what the transition table made of the earlier ones. `PInv` adds the type of value each
  state stands for (`TypeFits`), that DONE is at the bottom of the stack and only there,
  how much of an escape is in the buffer in each state that reads one (`EscapeSoFar`),
  and that a byte always fits.

What a recursive function computes is shown without induction over data, which the
provers do not have: if a fact failed at some place of a queue or list, it would fail at
a first one (`Least`, from the well-foundedness of `<` on the naturals), and the places
before that rule it out.

**Only model-checked.** Liveness, which TLAPS 1.4.5 does not handle: `PollCompletes`,
`CoreTimerRuns`, `HearsBack`, `DeferredShutdown`. `FramesDecoded`: `WebSocketFrame`
takes XOR from `Bitwise`, for which no backend exists. The properties of trees
(`ReadsTheGrammar`, `FreedOnce`, `RoundTrip`, `LookupFinds`): `JsonTree` walks trees with
RECURSIVE operators, which the prover cannot use.

## 5. Not modelled

* `proxy.c` and the links between pipes: dead code at this commit, no command reaches it.
* Digests, base64, string helpers, response headers, floating-point conversion: pure.
* Configuration, daemon start, plug-in loading: start-up, no later state.
* kqueue and select (readiness is epoll's), the retries of the resolver.
* WebSocket drafts before 06 and the handshake digests.
* Within Session: two sessions over one WebSocket, pipelined requests, session
  variables, and commands queued behind a delayed CONNECT.
* Within the JavaScript API: MySQL (compiled only on request), files, `Ape.config`,
  the conversion of values, and what a script does that breaks the rules of `Scripts`.

## 6. Plan

1. The next poll of a session whose last answer was cut off (`src/src/servers.c:59`),
   the queue behind a delayed CONNECT, session variables.
2. A composition of `Session` and `RawQueue` in which `pend` is derived from the
   queues, and of `Session` and `SendBuffer` for `out` and `burn`.
3. MySQL handles; older WebSocket drafts.
