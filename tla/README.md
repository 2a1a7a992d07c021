# A TLA+ verification of MeshAccessProtocol

MeshAccessProtocol (MAP) lets a browser fetch WAP pages over a LoRa mesh. This
directory holds TLA+ models of its protocol logic, TLC configurations that check
them on small instances, and TLAPS proofs of the properties that matter most.
`PROJECT.json` maps every definition to the source lines it stands for.

## 1. The system

```
browser --HTTP--> AP node ==LoRa mesh==> proxy node --UDP--> WAPBox (Kannel) (WiFi)
mode_ap.h mode_proxy.h external
```

One firmware, two modes chosen at compile time. Each node runs a single Arduino
task: `loop()` calls `MyMesh::loop()`, which polls the radio, runs the mode's
loop and takes at most one message from the inbox. There are no threads and no
interrupt handlers in this code; what is hard comes from the network (loss,
repetition, delay, reordering, late answers), from time (four timeouts), from
tables of fixed size, and from one nested event loop.

| Component | State | Operations | Hard behaviours | What makes it correct |
|---|---|---|---|---|
| WDP gateway, `mode_proxy.h` | `concatMessages[4]`, `pendingConnections[8]`, one UDP socket per connection | `handleIncomingMesh`, `forwardToWAPBox`, `loop` | parts lost, repeated, reordered; refNum octets that collide; retransmitted requests; full tables; failed binds; late answers; expiry racing an answer | what is forwarded is one whole message; an answer goes to the client that asked; nobody waiting loses its slot; every slot is given back |
| WDP fragmentation, `sendWDPViaMesh`, `ap_sendWDPViaMesh` | none | split a payload in parts | off-by-one at 113/114 octets and multiples of 108 | parts cover the payload exactly, fit a mesh message, can be stored |
| Access point, `mode_ap.h` | static request state, `ap_concatMessages[4]`, `ap_waitingClient`, early-header flags | `ap_loop`, `handleHTTPRequest`, `sendWAPRequestViaMesh`, `ap_handleIncomingMesh`, `ap_trySendEarlyHeaders` | `ap_loop` runs inside `ap_loop`; late answers to earlier requests; disconnects; timeout after early headers | one request at a time; no dangling client pointer; a browser gets the answer to its own request; the server comes back |
| Mesh node, `main.cpp` | `pending_inbox[16]`, `pending_replies[16]`, `messages_handled` | `onMessageRecv`, `isValidWDPMessage`, the two drains of `loop` | full tables, slot order instead of arrival order, a clock that wraps, senders known by four octets | what is taken was received and is taken once; a burst keeps its order; every reply leaves, after the ACK |
| Proxy path discovery, `main.cpp`, `mode_ap.h` | attempt counter, `proxy_ping_pending`, the shared `expected_ack_crc` | `startProxyDiscovery`, `sendProxyPing`, `checkProxyPingAck`, timeout branch of `loop` | an ACK of another message; a failed send inside a retry | discovery ends; "discovered" means the proxy acknowledged |
| Base91 codec | bit queue | `encode`, `decode` | 13/14-bit pairs, tail octets, texts no encoder wrote | round trip; the node's buffers suffice |
| HTTP front end, `mode_ap.h`, and WSP request encoder, `wap_request.cpp` | the parsed request, a transaction counter | `ap_loop`, `parseHTTPRequest`, `buildURL`, `handleHTTPRequest`, `createGetRequest` | four time limits in a row; requests that stop in the middle of a line; strings cut to four sizes | what is fetched is what was asked; it fits; the only task comes back |
| WSP response decoder, `wap_response.cpp`, and the answer's way out | `HTTPResponse`, `ap_earlyResponse` | `decode`, `parseReplyPDU`, `ap_trySendEarlyHeaders`, end of `handleHTTPRequest` | truncated or overlong headers; one reply decoded twice; parts that come in any order | both readings lead to one response |
| WMLC decompiler | element stack of 32 names, output buffer | `decompile` | nesting deeper than the stack, full buffer, unknown tokens, pages that end anywhere | tags match, the buffer holds, it ends |
| Identity, contacts, preferences | three files and their copies in memory | `setup`, `begin`, `loadContacts`, `saveContacts`, `savePrefs`, console commands | power loss in any of them, files that cannot be opened, full table, failed writes | what is on flash can be trusted; the proxy is known; one identity |
| Console and button | `command[]`, `tmp_buf[]`, `buttonPressStart` | end of `MyMesh::loop`, `checkUserButton`, `enterDeepSleep` | a full line loses its terminator; the loop blocks between two looks at the button | the console goes on; the node sleeps when told to |
| Display and LED; WiFi bring-up; ed25519 | OLED; - ; - | - | output; library calls; vendored cryptography | not modelled |

Interactions. The AP calls `ap_sendMeshCallback` (= `sendWDPToMesh`), which
Base91-encodes a WDP message and hands it to the mesh library; the peer's
`onMessageRecv` queues it in its inbox and `loop` later gives it to
`proxy_handleIncomingMesh` or `ap_handleIncomingMesh`. While the AP waits for its
answer it calls `ap_meshLoopCallback`, that is, the whole `MyMesh::loop` again.
The proxy talks to the WAPBox over one UDP socket per request, bound to the
client's port.

The hazards these interactions create are listed, each at its line, in
`PROJECT.json`; the properties below are aimed at them.

## 2. The modules

| Module | Models | Extends |
|---|---|---|
| `WDPConcat` | the reassembly table used by both modes: search, open, store, complete, clear, expire | - |
| `WDPGateway` | the proxy: class `WDPGateway` | `WDPConcat` |
| `WDPFraming` | fragmentation in octets | - |
| `APMode` | the access point from a parsed request to the end of its wait | `WDPConcat` |
| `Discovery` | proxy path discovery of the access point | - |
| `MeshNode` | intake, inbox and replies of both modes | - |
| `LossyInbox` | abstract: what a node promises of the messages it receives | - |
| `Base91` | the codec of every mesh message | - |
| `Uintvar` | the variable-length integers of WSP | - |
| `HTTPFront` | from a browser's connection to the WSP request | `Uintvar` |
| `WSPResponse` | both readers of a WSP reply | `Uintvar` |
| `WMLCDecompiler` | WBXML tokens to text | - |
| `ResponsePath` | from a WSP reply to what the browser gets | `WSPResponse`, `WMLCDecompiler` |
| `NodeStorage` | identity, contacts and preferences over restarts | - |
| `NodeControls` | console line buffer, button, deep sleep | - |
| `MCGateway`, `MCAPMode`, `MCMeshNode`, `MCBase91`, `MCHTTPFront`, `MCResponse`, `MCNodeStorage`, `MCNodeControls` | instances for TLC | the module named |
| `WDPConcatProofs`, `WDPGatewayProofs`, `APModeProofs`, `HTTPFrontProofs`, `MeshNodeProofs`, `NodeStorageProofs` | lemmas and theorems | the module named; `WDPGatewayProofs` and `APModeProofs` also `WDPConcatProofs` |
| `ResponseProofs` | lemmas and theorems about both readers and the answer's way out | `ResponsePath` |
| `NodePartsProofs` | lemmas and theorems about four small parts that share nothing | `Discovery`, `NodeControls`, `WDPFraming`, `Base91` |

How they fit together: `HTTPFront` ends where `APMode` begins (a request that is
sent, or a refusal); the messages `APMode` and `WDPGateway` exchange are cut by
`WDPFraming`, carried as text by `Base91`, and queued by `MeshNode`, whose
abstraction `LossyInbox` (a message may be lost and may overtake another, but
leaves at most once) is within what those two assume of the mesh; what `APMode`
calls the kind of an answer is worked out in `ResponsePath`.

A definition whose comment begins with "Faulty variant" is a plausible mistake in
the definition after it. The specifications never use it; replacing the one by the
other must make the property it is meant for fail.

### WDPConcat

Messages are model values with constant functions `Sender`, `Port`, `Ref` (the
refNum octet) and `Total`. The octets of part k of message m are the value
`Frag(m, k)`; a payload is the function of its fragments, so a hole or a foreign
part is visible. `partReceived`, `partSizes` and `data` are one function `parts`.
Times are ages (`now - lastUpdate`), capped one past the timeout, which is where
the code stops telling values apart. `Numbers(m)` are the part numbers that
`isValidWDPMessage` lets through to the handler of either mode; `CanStore` is the
handler's own guard. The length guard of the store
(`offset + length < sizeof(data)`) is not here: `WDPFraming` shows that no part
the senders produce can fail it.

### WDPGateway

| Variable | Code |
|---|---|
| `concatMessages` | `concatMessages[MAX_CONCAT_MESSAGES]` |
| `pendingConnections` | `pendingConnections[MAX_PENDING_CONNECTIONS]`; `addr` is the local address of its `WiFiUDP` |
| `rx` | the first answer queued in each socket |
| `inflight` | external: datagrams the WAPBox may still answer |
| `relayed` | answers given to `sendWDPViaMesh` in the last step |

`HandleIncomingMesh` is `handleIncomingMesh`, `forwardToWAPBox` included: a part is
stored and possibly completes a message (`HandleConcatPart`), finds no slot
(`DropConcatPart`), or is a simple message (`HandleSimple`); forwarding refreshes
a duplicate, opens a connection, or finds no slot. `Loop` is the whole of `loop`
in its order: relay answers, expire connections, expire reassembly slots.
`DeliverUDP` is the external WAPBox and network: it may answer a datagram late,
twice or never, to whichever open socket has the address the datagram came from.
A bind that fails is only logged by the code; the socket then sends from an
address nobody else has, `Ephemeral(i)`. `lastUpdate` of a slot is not written
when it is opened but when a part is stored, so a slot opened by a part it cannot
hold starts with any age. `WAPBOX_HOST` is assumed to parse.

### WDPFraming

The concrete constants 150, 120, 7 and 12, and one behaviour per payload length.
`SendSimple` and `SendPart` are the two branches; `offset` is where the receiver's
formula puts the part.

### APMode

`stack` holds the frames of `sendWAPRequestViaMesh`, each with its program counter:
`mesh` (about to call, or inside, `ap_meshLoopCallback`) and `check` (the tests
after it). Nothing in the model limits its depth: that it never exceeds one is
`NoReentry`, and it rests on `httpServer.end()` alone. `InMeshLoop` is true when
the program is in the main loop or in such a nested call. `RefuseRequest` and
`StartRequest` are the two outcomes of a new HTTP connection; `LoopIdle`,
`ReceivePart`, `DropPart` and `ReceiveSimple` are the rest of one mesh loop, with
the table cleanup `ap_loop` does before it; `ClientGone`, `Deliver`, `KeepWaiting`
and `GiveUp` are the checks of the wait with everything the callers do afterwards
up to `client.stop()`. `out[c]` records what browser c was written: the status line
and headers of an answer (`head`), a streamed part (`part`), a complete page (`page`), a
WMLC body that the decompiler refused after early headers (`raw`), or a status line of
the node's own: `refused` (400, 501, 500), `502` or `504`. `ended` is history: whose
request ended last. What `WAPResponse::decode` makes of an answer is its
`Kind`. The proxy only answers ports it was asked on (`Answerable`), and its
answers may be lost, repeated, delayed past a timeout and reordered.

### Discovery

The flags of `main.cpp` and `mode_ap.h` one for one, except that a CRC is named by
the message it belongs to: ping n by n, any other message by a member of `Others`.
`StartProxyDiscovery` and `NoProxyContact` are the outcomes of
`startProxyDiscovery`; `SendOther` is every other call of `sendMessage`, which
overwrites the shared `expected_ack_crc`; `ProcessAck` is `processAck`;
`CheckProxyPingAck`, `RetryPing` and `NoMoreRetries` are what `loop` then does, in
its order. An iteration of `loop` in which none of them applies is a stuttering
step. The three kinds of steps may follow each other in any order, because `loop`
runs again inside the wait for a browser's answer. `sendMessage` is external: when
it fails it may or may not have written the CRC. A contact that was found once
stays in the contact table.

### MeshNode and LossyInbox

`pc` orders one pass of `MyMesh::loop`: `recv` (the library calls `onMessageRecv`
any number of times), `inbox`, `replies`. A slot is the record of the code; `id`, `age`
and `left` (how many messages had left when this one came) are history. `taken` lists
the messages in the order in which they left the inbox, `handed` those of them that were
accepted. `millis` wraps at `Wrap`. Texts are octets, because
`isValidWDPMessage` looks into them; what Base91 makes of a text is the constant
`Decoded`, which `Base91` computes octet by octet. Messages are looked up by
`Prefix`, four octets of the key, replies by the whole key, as in the code.

`LossyInbox` has neither slots nor clocks: a bounded set from which messages leave
in any order. `Lossy` says that `MeshNode` implements it, fairness included, with
the set of queued ids for `pending`; a message is lost only when the set is full.

### Base91

One octet per step of `encode`, then one character per step of `decode`; or `decode`
alone on a text nobody encoded. `|` into the bit queue is an addition, which is
right because no bit at or above `numBits` is set (in `BufferSuffices`). `ALPHABET` is
written as the runs of consecutive characters it consists of.

### HTTPFront

One step per line of the request, per time-out and per decision of `handleHTTPRequest`.
Strings are lengths, cut where the code cuts them (path 255, host 127, Host header 63, PDU
512); a host also says where in it the name of a connectivity check ends (`check`),
because the name is looked for in what is kept of the host. A line arrives in two halves,
so that a time limit can expire inside it. `rest` is what a request line that was cut off
left in the stream: some text, which is read as the first header (`ReadRest`), or only its
end, which ends the headers. `busy` counts the time in which no mesh message is handled.

### WSPResponse, WMLCDecompiler, ResponsePath

Replies are octet sequences. `DecodeStep` reads one header of `WAPResponse::decode`;
`parseReplyPDU` is an operator. `DecompileStep` reads one token of the page, in the
body, in an attribute list or in an attribute's value. Of the text only its length
and its tags are kept: `written` records which start tags are open, how many
elements found the stack full, and end tags out of turn. `ResponsePath` calls both:
`TrySendEarlyHeaders` on a simple message or part 1, `WholeDecoded` and `Decompiled` for
the complete reply. The parts of a reply, which end at `ends`, are received one by one in
any order (`came`), and some may have been stored before the browser waits; `Receive`
stores a part and, if headers are out and the type is not WMLC, streams it. Which reply a
part belongs to, and repeated parts, are the subject of `APMode`.

### NodeStorage

`setup`, `begin` and a save of the contacts take several steps, with `PowerLoss`
between any two. The file system is external: opening a file for writing empties it,
an open that fails leaves it as it is, and what was written stays. (`SPIFFS.begin(true)`,
`main.cpp:1500`, formats a file system that it cannot mount; that is outside this
assumption, and would bring a second identity.) The contacts file is a sequence of
records, since a record that was cut is no record to `loadContacts`; the preferences are
octets, two of one value and one of another, so that a write of the raw struct can be cut
inside a value. `SavePrefs` may leave any beginning, `LoadPrefs` overlays what there is on
the defaults. A file that is there and cannot be opened for reading leaves the defaults,
or no contacts. History: `kept` is the contacts as last changed; `contactsSaved` and
`prefsSaved` say whether a file is `whole`, was cut (`part`) or is of an earlier time
(`old`).
Commands that change contacts, preferences or the recipient are actions; those that
only print are not.

### NodeControls

`Console` is the end of `MyMesh::loop`, `CheckUserButton` that of `loop`; between two
looks at the button the console may run any number of times, because the wait for
an answer calls `MyMesh::loop`. `line` is `strlen(command)`; a line that fills the
buffer overwrites its terminator with `\r`, so that `strlen` runs on into `tmp_buf`,
of which the model keeps what it begins and ends with. `held`, `missed` and
`released` are history.

## 3. What the runs show

| Run | Question | Instance | Result |
|---|---|---|---|
| `gateway_reassembly` | Does the mesh ever make the proxy forward something that is not one whole message? | 3 messages of 2 clients, all with the same refNum, one client using it twice, one message longer than a slot; 2 slots of 2 parts; 1 connection | holds |
| `gateway_routing` | Do answers reach their client across expiry, takeover, failed binds and late answers? Does a waiting client keep its slot? Is every slot given back whatever keeps arriving? | 3 messages, 2 clients sharing a port, 2 connections, 1 reassembly slot for 2 messages in parts, so that it is full | holds, liveness under `FairSpec` |
| `gateway_wrong_client` | "we know exactly which client it's for" | as `gateway_routing` | violated |
| `framing` | Fragmentation of every payload of 0..1500 octets | exhaustive | holds |
| `ap_requests` | Is the nested wait safe, does each browser get its own answer, does the server come back? | 2 browsers, 2 ports (so they may collide), 4 answers: WMLC, WMLC with long headers, plain, undecodable; 1 reassembly slot | holds, liveness under `FairSpec` |

| `discovery` | Do the flags agree, are stale ACKs ignored, what can an ACK be lost to, does discovery end? | 5 retries (the code's value), one other message to the proxy, one to another node | holds, liveness under `FairSpec` if every ping can be sent |
| `mesh_node` | Is the inbox the lossy bag the modes rely on? What can overtake what, and what can leave too early or never? | inbox of 2, 1 reply slot, 3 messages of 2 nodes whose keys share four octets; a clock of 4 values | holds, refinement and liveness under `FairSpec` |
| `base91` | Round trip, and the sizes of buffers | every input of up to 4 octets out of 8 boundary values, the mesh's longest messages, every text of up to 5 out of 5 characters; buffers of 1, 4, 151 and 256 | holds |
| `http_request` | Is the fetched page the one asked for, does it fit, does the node come back? | 19 requests at and one past every buffer's size, checks inside and beyond what is kept of a host, absolute URLs, bodies; a clock that wraps | holds |
| `response` | Do early headers, both readers and the decompiler agree, stay in their arrays and end? | some 5000 replies: every status, header forms alone and in pairs, types of 63 and 64 characters, pages of any two of 18 tokens after six beginnings, 31 to 34 nested elements; the code's stack of 32; text buffers of 99, 120 and 8192; replies in one, two and three parts, in any order | holds, liveness under fairness of the single task |
| `node_storage` | What survives a loss of power? | 3 nodes, a table of 2 that is empty or full of others at first, 2 keys, 2 preferences of two octets and one | holds |
| `node_controls` | Does the node sleep when told to, and only then? Does a full line end the console? | line of 3, long press of 3 ticks | holds, liveness under `Fairness` |

Properties that hold:

- `ForwardedWhole`: a request sent to the WAPBox is one whole message of its
  client. The only exception is a client that took one refNum octet twice, which
  the (refNum, sender) key cannot tell apart; the reassembly instance contains
  such a client beside a well-behaved one with the same refNum.
- `UniqueKeys`: one slot per (refNum, sender), one connection per (client, port).
- `AnswerRouting`: an answer keeps its port, and its client unless another client
  uses the same port.
- `WaitingConnectionKept`, `AnswerNotDiscarded`: no step takes a waiting
  connection or loses a queued answer, except that a new request may take over an
  expired slot before `loop` has read it.
- `SlotsReleased`: nothing is held for ever; repeated parts do not keep an
  incomplete message alive.
- `ExactCover`, `WithinBuffers`: fragmentation.
- `NoReentry`, `WaitingClientAlive`: the nested loop has one user, and
  `ap_waitingClient` is set exactly while the frame that owns the client lives.
- `AnswerOfOwnRequest`: headers and complete pages are of the browser's own
  request, although the timeout exit leaves `ap_currentRequestPort` and possibly
  `ap_meshResponseReady` behind.
- `WellFormedStream`: what a browser is written is one response: one head, first, and
  then either streamed parts or one whole body; or one status line of the node's own.
  Two exceptions, each pinned down: a 504 may follow early headers, as the last thing
  written, and a body that the decompiler refuses is written raw, whole, under the WML type
  already announced.
- `WaitEnds`: the wait ends unless parts keep being stored.
- `DisplayRestored`: the session stays on the display between requests only when the
  browser whose request ended last was told 502 and nothing else; a 504, a browser that
  is gone and every delivery take it off.
- `Lossy`: the refinement above. `OvertakenOnlyAfterRelease`: although slots are
  scanned in slot order, a message is overtaken only if one older than both had left
  before the later one came, so the messages of one burst leave in the order they came.
- `AckFirst`, `RepliesLeave`, `PongsOfOwnPings`: nothing leaves before the time its
  ACK needs, around the wrap of `millis()` too; a reply leaves; and it goes to the node
  that pinged although another contact's key begins alike.
- `RoundTrip`, `BufferSuffices`: the codec.
- `RequestFits`, `AskedURL`: the request. Only headers that end otherwise than with their
  empty line (the time limit, a browser that left, or the late end of a request line that
  was cut off) change the URL, and the sizes of the arrays; only they, or a name beyond the
  127 octets kept of a host, let a connectivity check through.
- `BlockedAtMost`: a browser blocks the node for at most four time limits.
- `ReadersAgree`: `decode` and `parseReplyPDU` read the same reply. The firmware itself
  decodes with `decode` only; `parseReplyPDU` is a second, independent reading of the
  format in the same library and has no caller, so it serves as the reference.
- `EarlyAnswer`: early headers have the reply's status. A body sent at the end is the
  whole body. A streamed body is, if the parts came in order and the first held the
  headers; otherwise it may lack the parts that came before the first, or be out of order.
  A promised length is the one given, unless parts are streamed: then it is the one in the
  reply's own header or the length of the body's beginning in the first part.
- `WithinArrays`, `TagsMatch`, `ReplyEnds`: the readers. Only elements beyond the 32nd
  level never get their end tag and make later ones cross. `TagsMatch` is about the tags
  the decompiler means to write: one for which a full text buffer has no room counts as
  written, so what a full buffer does to the markup is not covered.
- `FilesSurvive`: contacts on file are those of the last change, or a beginning of them if
  the save was cut; preferences read back are the last ones, or, if their save was cut, the
  last ones up to some octet and the defaults after it, so that one value can be neither;
  after an open that failed the files are of an earlier time. The contacts file always
  loads in full, each contact once.
- `ProxyKnown`: after any loss the access point in its loop knows its proxy again.
- `OneIdentity`: the mesh never meets the node under two keys unless storing failed.
- `SleepMeansHeld`, `ConsoleRecovers`: controls. A release between two looks at the
  button (`missed`) and a `tmp_buf` that `card` or `import` filled are excepted.
- `HonestStatus`: the discovery flags of the two files agree, and discovery is given
  up only after all retries.
- `DiscoveredByCurrentAck`: no late ACK of an earlier ping ends a discovery.
- `AckLostOnlyToOthers`: a ping whose ACK came is retried only if another message was
  sent before `loop` looked, never because its timeout had passed.
- `DiscoveryEnds`: discovery ends, provided that no ping failed to be sent.

### Where the code and its comments or its purpose differ

Checked as a violation:

- `mode_proxy.h:464` says a response on a socket identifies its client. The socket is
  bound to the client's port only, so two clients with the same random port can get each
  other's answer (`RelayedToRequester`).


The properties above name the following as exceptions, or the models show them:

- `mode_ap.h:655` says the body was streamed as packets arrived. A part that arrives
  before part 1 finds the headers unsent, so it is stored and never streamed, and the page
  lacks it (`mode_ap.h:1052`). `EarlyAnswer` therefore speaks of parts in order only.
- Parts after the first are streamed in the order they come, so parts 1, 3, 2 scramble
  the body (`mode_ap.h:1052`). The branch compares no port, so a late answer to an earlier
  request can be written into another browser's response.
- A timeout after early headers writes a second status line (`mode_ap.h:624`).
- The 502 path returns before `ap_restoreNormalDisplay` (`mode_ap.h:670`).
- While a ping is pending, the ACK of any message completes the discovery
  (`main.cpp:674`); a ping that cannot be sent leaves it in progress for ever
  (`main.cpp:1202`).
- Without a Content-Length header the early length is that of the first part
  (`mode_ap.h:939`); headers longer than the first part are streamed as body.
- When the page cannot be decompiled after early headers, raw WMLC follows under a
  WML type (`mode_ap.h:649`). The Location header is parsed and never sent.
- `millis()` wrapping within 3 s of a connection ends the wait for its first octet
  at once (`mode_ap.h:784`).
- A line that fills the console's buffer while `tmp_buf` holds what `card` or `import`
  left there blocks the console; two lines read in one pass are run as one.
- Short presses on both sides of a blocked loop count as a long one.
- A contacts or preferences file that cannot be opened for writing keeps what it had,
  and nobody is told (`main.cpp:229`, `:920`); a contacts file that cannot be opened for
  reading is taken for an empty one, and the next save drops what it held. A preference
  can be cut in the middle (`:921`).
- A request line cut off by the time limit leaves its end in the stream; if that is all
  it leaves, it is read as the empty line and the page of the fallback host is fetched
  (`mode_ap.h:178-222`).
- The comments of `mode_proxy.h:356-357` give 114 and 109 octets of payload; the constants
  make it 113 and 108.
- Two contacts whose keys begin with the same four octets share a WDP identity
  (`main.cpp:776`).
- `decodedSize` (`base91.h:56`) is too small for 14-bit pairs; it has no caller. The
  EXT_I branch inside an attribute's value (`wmlc_decompiler.cpp:540`) is unreachable.

### Bounds

Two slots or connections are the smallest tables in which the search order, the takeover
of the first reusable entry and the full table differ; the proofs of the gateway remove
the bound. In `gateway_routing` there is one reassembly slot, so the half of `UniqueKeys`
about slots is vacuous there; `KeysUnique` proves it for any number. `MaxParts = 2` with a
message of three parts shows both a message that completes and one that cannot. Timeouts
of 0 to 2 ticks let each event happen before, at and after expiry; capped ages make the
graphs finite. `Discovery` runs with the code's five retries; at rest after it, nothing is
enabled, so deadlock is not checked there, nor in `WDPFraming`, whose behaviours end when
the payload is sent. The AP's answers contend for one slot in the passing run, and a slot
outlives a timed-out request as it does in the code (30 s and 15 s). Two browsers and two
ports let a second request overlap the remains of the first and collide with its port.
`MaxEvents` bounds what is streamed to one browser within one request: three events are
headers, the first part and one more.

`MeshNode` has two inbox slots and three messages, the least with which a slot is used
again while a later one is occupied and the table is also full; its clock of four values
wraps several times. One reply slot suffices for `AckFirst` and for who gets a reply;
replies overtaking each other are not in its scope. `HTTPFront` keeps the code's sizes and
takes requests at each of them and one octet beyond; the transaction counter has two
values because nothing depends on more. `Response` keeps the stack of 32; two free tokens
after a beginning reach every pair of neighbouring decisions of the decompiler, and text
buffers of 99 and 120 overflow; three parts are the least that can come out of order after
the first. `NodeStorage` has a table for two of three contacts, so that it is full without
the proxy; three octets of preferences are the least with a cut inside a value and a value
after it. Deadlock is not checked in `Base91` and `Response`, whose behaviours end.

### Fairness

The specification of a module is `Spec`, with fairness `FairSpec`; modules whose proofs
share a module have names of their own (`FramingSpec`, `DiscoverySpec`,
`FairDiscoverySpec`, `ControlsSpec`, `CodecSpec`).

The Arduino core calls `loop()` for ever and `millis()` advances, so `FairSpec` of
`WDPGateway` has weak fairness of `Loop` and `Tick`, that of `APMode` of `LoopIdle`,
`Tick` and the checks of the wait, and that of `Discovery` of its part of `loop` and of
`Tick`. `MeshNode` likewise assumes that the task goes on and that time passes, and
`ResponsePath` that the task goes on once a reply is there (weak fairness of
`HandleReply`, not of a reply's arrival); `NodeControls` also assumes that the wait for an
answer ends (strong fairness of the step from the console to the button), which is
`WaitEnds` of `APMode` under its condition. `NodeStorage` and `HTTPFront` state no
liveness. Nothing is assumed of the mesh, of the WAPBox, of the browsers or of the user.
In `APMode` weak fairness of `LoopIdle` only says that a mesh loop that is running
returns; the loop that handles a packet instead also disables it.

## 4. What is proved

Every theorem holds for every value of the constants: any number of messages,
clients, browsers, contacts, slots, parts and retries, any timeout and any width of
`millis()`, any request, any octets in a reply, a page or a message. Every safety
invariant and action property that a passing run checks is proved.

| Module | Theorem | Statement |
|---|---|---|
| `WDPGatewayProofs` | `TypeCorrect`, `KeysUnique`, `ForwardingWhole`, `RoutingCorrect` | `Spec => []` of `TypeOK`, `UniqueKeys`, `ForwardedWhole`, `AnswerRouting` |
| | `WaitingKept`, `AnswersKept` | `Spec => WaitingConnectionKept`, `Spec => AnswerNotDiscarded` |
| `APModeProofs` | `TypeCorrect`, `WaitNotReentered`, `PointerAlive`, `AnswersNotMixedUp`, `StreamsWellFormed`, `DisplayIsRestored` | `Spec => []` of `TypeOK`, `NoReentry`, `WaitingClientAlive`, `AnswerOfOwnRequest`, `WellFormedStream`, `DisplayRestored` |
| `HTTPFrontProofs` | `TypeCorrect`, `RequestsFit`, `PageAskedFor`, `MeshNotBlocked` | `Spec => []` of `TypeOK`, `RequestFits`, `AskedURL`, `BlockedAtMost` |
| `ResponseProofs` | `TypeCorrect`, `TwoReadersAgree`, `StaysWithinArrays`, `TagsAlwaysMatch`, `EarlyAnswerFaithful` | `Spec => []` of the types, `ReadersAgree`, `WithinArrays`, `TagsMatch`, `EarlyAnswer` |
| `MeshNodeProofs` | `TypeCorrect`, `BurstsStayInOrder`, `PongsToPingers` | `Spec => []` of `TypeOK`, `OvertakenOnlyAfterRelease`, `PongsOfOwnPings` |
| | `AckLeavesFirst` | `Spec => AckFirst` |
| | `InboxRefinement` | `Spec => Inbox!Init /\ [][Inbox!Next]_(Inbox!vars)`: the safety of `Lossy` |
| `NodeStorageProofs` | `TypeCorrect`, `FlashTrusted`, `ProxyIsKnown`, `IdentityUnique` | `Spec => []` of `TypeOK`, `FilesSurvive`, `ProxyKnown`, `OneIdentity` |
| `NodePartsProofs` | `DiscoveryTypeCorrect`, `StatusHonest`, `CurrentAckOnly` | `DiscoverySpec => []` of `DiscoveryTypeOK`, `HonestStatus`, `DiscoveredByCurrentAck` |
| | `AckNotForgotten` | `DiscoverySpec => AckLostOnlyToOthers` |
| | `ControlsTypeCorrect`, `SleepOnlyWhenHeld` | `ControlsSpec => []ControlsTypeOK`, `ControlsSpec => SleepMeansHeld` |
| | `FramingCorrect`, `BuffersSuffice` | `FramingSpec => [](FramingTypeOK /\ FitsOneMessage /\ ExactCover /\ Storable)`, `FramingSpec => []WithinBuffers`, for payloads up to 1500 octets |
| | `CodecTypeCorrect`, `TextRoundTrips`, `CodecBuffers` | `CodecSpec => []` of `CodecTypeOK`, `RoundTrip`, `BufferSuffices` |

### Assumptions

The constants have their types; these say more:

- `WDPConcat`, `WDPGateway`: a simple message has one part; connections are numbered
  from one.
- `MeshNodeAssumption`: `AckDelay + 2 * MaxTicks < Wrap`. Two iterations of `loop` and
  the 100 ms are short against the 2^32 ms after which `millis()` wraps. One iteration
  would not do: between two scans of a table there may be the ticks of two, and a
  slot that was just too young at the first scan could look young again at the second,
  and so on for ever. That is for `RepliesLeave`; the proofs use `AckDelay < Wrap` only.

- `EarlierAssumption` of `NodeStorage`: a contacts file that is there at the very first
  start was written by this program, so it is no longer than the table and names each
  contact once.

- `HTTPFrontAssumption`: a time limit is shorter than the clock takes to wrap, and the
  host inside an absolute path is part of that path.
- `ArrivalsAssumption` of `ResponsePath`: a reply is octets, and its parts end at
  increasing positions, the last with the reply; `StackAssumption`: the element stack has
  a size.
- `Base91Assumption`: an input is one octet at least (`sendWDPToMesh` gets a WDP message
  with its header), and a text has no NUL, where `decode` would have stopped.

### The inductive invariants

The gateway's `IInv` has three parts.

- `ConcatInv`. `ForwardedWhole` speaks of what has left the table, so the
  invariant must say what is in it. `SlotOK`: an active slot was opened by some
  message whose key, port and part count it carries; every stored part comes from
  a message with the slot's key, at its own index; and `receivedParts` is the
  cardinality of the set of stored parts. The last conjunct is the heart:
  `CompleteIsWhole` concludes from `receivedParts = totalParts` that parts
  1..totalParts are all there (by counting), and, if the client never reused the
  refNum, that they are all parts of one message.
- `ConnInv`. An active connection is bound to its client's port or to its own
  private address; a queued answer and a datagram in flight carry the port of the
  socket they belong to, and a private address leads back to the client recorded
  there. That is why stopping the socket on takeover matters: without it a
  datagram with a private address would outlive its owner.
- `RelayInv`, what a step may hand to the mesh.

`StepIInv` has one lemma per action. `WDPConcatProofs` holds the lemmas about the
table operators, which `APModeProofs` uses as well.

For `WDPFraming` the invariant `Progress` says that after n parts exactly
`min(len, 108 n)` octets are covered.

`IndInv` of `APModeProofs`:

- `Control`: the node is `Idle`, or `Waiting` with a stack of one frame. While it waits,
  `ap_waitingClient` is that frame's client, and either no response is ready and the port
  that is matched is the client's, or a response is ready, the port is zero and the next
  thing is the check of the wait. `NoReentry` and `WaitingClientAlive` follow. What a
  timed-out request leaves behind needs no invariant, because the start of the next
  request overwrites it; that is why nothing is said of the port while the node is idle.
- `Table`: `SlotOK` again; slots outlive requests, so they may hold parts of answers
  to any of them.
- `Buffer`: what waits to be delivered is a whole answer to the waiting client's port.
  It joins `Table` (by `CompleteIsWhole`) to `Control`.
- `Streams` and `Own`: nothing is written to a browser before its head; `isWMLC` is the
  kind of the head that was sent, which decides whether parts may follow it; and heads,
  pages and raw bodies are of the browser's own port. With refNum octets that collide only
  the latter is given up.
- `DisplayRestored` is inductive with `Control`: `ended` names the request that last left
  the wait, and only the 502 leaves the flag set.

`IInv` of `HTTPFrontProofs`:

- `TypeInv`: what is stored of a request fits its arrays, and the length of a URL that can
  be stored is read back from the octets it is written with (`UintvarRoundTrip`: one or
  two). `RequestFits` follows by adding up the largest lengths.
- `TimeInv` says for each place how much of the time before it and of the time since
  `startTime` `busy` can hold. At the first place the clock may be read before the
  start was taken.
- `AskInv`: after n lines `req` holds the path asked for and the last host among the
  headers read so far, cut to its array, unless the request was cut off; a host that is
  sent has no connectivity check's name in what is kept of it. A rest of the request line
  that is read as a header changes none of this.

`IInv` of `ResponseProofs`:

- `WspInv`. `ReadersAgree` compares the end of a loop with an operator that looks
  at the whole reply, so `Parsing` says in the middle of the loop what the decoder knows:
  the reply is long enough, the length of its headers is the one the operator computes,
  and status and the place of the body are those of the operator. Fields are cut to
  their arrays at every step.
- `PageInv`: the string table lies in the page, the stack in its array, and `Roomy`: what
  was written leaves room for the terminator. Each of the decompiler's writers keeps
  `Roomy`, whatever its text.
- `TagInv`. `TagsMatch` is not inductive: an element that found the stack full is written
  but not pushed, and the end tags then close other elements. `Embeds` says that the stack
  is still found, in order, in the tags that are open, and the lengths say that exactly
  the elements not pushed are missing. So no end tag is ever without a start tag, and with
  nothing missing the two are equal.
- `PathInv` ties the readers to the reply: which part is in `data` at each place, that
  headers already sent were read from the first part, and what a waiting browser has: of a
  streamed body, as long as the parts came in order, exactly the octets of the reply from
  the body's start to the end of the last part that came. The lemma
  behind `EarlyAnswer` is `FirstIsReply`: a part that holds the headers has the type,
  the status, the header length and the beginning of the body of the whole reply.

`CodecInv` of `NodePartsProofs`. The input is one number, its first octet the lowest,
and `Bits(s, b, n)` is n bits of it from bit b. A slice is at most 24 bits, so the
lemmas about it are about numbers below 2^24 and no induction over the input is needed:
each step adds or removes one slice.

- `EncodeInv`: there are boundaries `at[0] = 0 < at[1] < ...` such that pair j of the text
  is the slice from `at[j]` to `at[j + 1]`, 13 or 14 bits as `PairBits` of that slice
  says, and the queue is the slice from the last boundary to what was read.
  `13 * Len(text) + 2 * numBits <= 16 * pos` bounds the text, and the tail fits into
  what `encodedSize` adds.
- `TripInv`: the text has the pairs and the tail of some such boundaries, and the decoder
  stands before or inside a pair j with `DecodedTo(..., at[j])`: the octets before
  `at[j]` are out and the queue is the rest of that octet. `DecodePair` takes it to
  `at[j + 1]`. A last pair carries fewer bits than the decoder counts, but completes the
  same number of octets (`DecodeLastPair`); a single last character has a value of one
  digit, which is why encode writes two when the value is over 90 (`DecodeLastOctet`).
- `DecodeSize`: two characters are 14 bits at most, whoever wrote them.

For `Discovery`, `AckInv` says which CRC is awaited: only while a ping is pending is
it the current one's, because a retry that could not be sent leaves an older one.

`IndInv` of `MeshNodeProofs`:

- `Clocks`: while a message or reply is not older than the delay, the difference that
  `loop` computes is its age. `AckFirst` follows, around the wrap too.
- `Order`. `OvertakenOnlyAfterRelease` speaks of messages that have left. `Behind` says of
  one that is queued: either an older message has left already, or all slots before its
  own hold older ones. `InTurn` says of two: the later one is in an earlier slot only if
  one older than both had left when it came. `Overtaken` is the property itself, of pairs
  of which one is still queued. `ByAge`: smaller numbers are at least as old. So when a
  scan takes a message from a slot behind that of an older one, the older one would have
  been ripe as well unless its clock has come around: it has waited for the whole range of
  `millis()` (`PassedOverIsAged`), which is the exception `aged`.
- `PongsOfOwnPings` is inductive with the types, because a reply that leaves is taken
  out of what is owed to the same node.

The refinement maps the table to the set of the numbers in it. `QueuedSize` shows that
this set has as many members as there are active slots (`OneSlotEach`), so that a full
table is a full set.

`IndInv` of `NodeStorageProofs`: `ContactsOK` says that the file, unless it is of an
earlier time, is a beginning of the table as last changed, that while a save runs what is
still to be written is exactly the rest, and that memory, once loaded, is that table;
`PrefsOK` says the same of the octets of the preferences; `IdentityOK` that the key in
memory, the one on file and those advertised agree from the moment the key was stored.
`ProxyOK` says where in `setup` the proxy becomes known: before the routes are reset, and
a save in progress counts as the place it returns to.

For `NodeControls`, `ButtonInv` says that while no release was missed the button has
been down at least as long as the program counts, and that a node past its start saw
the button up since it was woken.

TLC also checked the invariants on the instances of the runs, as far as their sets can
be enumerated; that of `MeshNode` with three slots and four messages as well.

### Only model-checked

- Liveness, which rests on fairness and ENABLED: `SlotsReleased`, `WaitEnds`,
  `DiscoveryEnds`, `RepliesLeave`, `ReplyEnds`, `ConsoleRecovers`, and that every message
  leaves the inbox (the fairness of `Lossy`).
- What recursive functions compute for every input would need induction over data. The
  proofs avoid it where the code works step by step; where an operator stands for a loop
  (a variable-length integer, `UintvarValue`), they use bounds on its value only, and
  the lengths a URL can have are covered case by case.

`TypeOK` of the modules without a run of their own for it states the types of their
variables for the proofs; it holds on the instances.

## 5. Not modelled

- ed25519: vendored cryptography.
- The MeshCore and Arduino libraries, the WAPBox and the file system: only as the
  code uses them, and marked external.
- Display texts, LED, WiFi bring-up of either mode, the DNS server, radio
  parameters, and console commands that only print or send one message: output or
  library calls, without state that anything else reads.
- `formatAsHTTP`, `print`, `getVersion`, `getPublicId`, `decodedSize`: no callers.
- Integers in pages and replies near 2^32, and `public` or `mc-radar` with a line
  longer than their buffers.

## 6. Plan

Done: gateway, fragmentation, access point, discovery, mesh node with its abstract
inbox, Base91, both WSP codecs, the decompiler, the answer's way out, storage and
controls are modelled, their runs pass, and the safety properties of all of them are
proved.

Left, if the project grows:

1. A composition of `HTTPFront`, `APMode` and `WDPGateway` over `LossyInbox`, with
   answers in their own octets; its graph is out of TLC's reach at useful bounds, so it
   would start from proofs.
2. The liveness properties, once a prover handles ENABLED.
