# Network lab: specification, model checking and proofs

This directory specifies the Go programs of the network lab in TLA+.
Every module is written from the source, not from the documents beside it;
the prose of the documents is only used where the two are compared.
Paths below are relative to the repository.

Contents: [inventory](#1-inventory), [modules](#2-modules-and-how-they-correspond-to-the-code),
[runs](#3-runs-bounds-and-what-they-show), [fairness](#4-fairness),
[proofs](#5-what-is-proved), [limits](#6-what-is-not-shown), [plan](#7-plan).

## 1. Inventory

The lab is a set of small clients and servers. The programs of one experiment
interact over sockets; goroutines of one program interact over channels, wait
groups, contexts and atomic counters. Nothing is written to disk.

| Component (source) | State | Operations | What is hard | What makes it correct |
|---|---|---|---|---|
| UDP request/response (`udp/protocol`) | the server's duplicate cache; the client's attempt counter | validate, execute or reuse, reply; send, wait two seconds, retry once | datagrams lost, duplicated and late; a retry of what was done; the cache dies with the process; a port is used again | one result for each address and id; all replies agree; the client's answer is an answer to its own request; the client ends |
| Bounded queue (`load/backpressure/queue/server`) | channel of jobs, five atomic counters, one handler per connection, one worker | accept a request, submit under `block` or `reject`, process, complete | counters are updated apart from the channel operations; full queue; peers that leave | no job lost or done twice, FIFO, counters exact up to the steps in between, every accepted job ends |
| Admission limit (`load/protection/connections`) | slots channel, `active`, `admitted`, `rejected` | accept, reserve or refuse, handle, clean up | three updates undone by other goroutines; failed admission line; idle deadline racing data | budget never exceeded, each slot returned once, one decision per connection, the loop goes on |
| DNS lookup (`internal/dns`) | a context, two sockets, two AfterFunc goroutines | UDP query and filter loop, TCP fallback, validation | cancellation and deadline at any step; socket timers against context timers; arbitrary responses | answers come from a complete matching message read in time; the context's error is what is reported; nothing left behind; it ends |
| Raw HTTP/1.1 server (`internal/rawhttp`) | request reader: buffer and pending error | find the header section, frame the body, route, respond, persist or close | a stream cut anywhere; pipelining; two ways to read on; limits on header and chunks | responses in order, one each, never from another's bytes; limits hold; no reply waits for more bytes |
| Framed TCP (`protocol`, `tcp/protocol`) | two byte streams, read deadlines | read a frame, dispatch, answer; the experiments | frames in pieces; end of stream inside a frame; deadlines; vanished client | requests handled in order; nothing after an error; a passed experiment was served; both ends give up |
| Start barrier (`websocket/handshake`) | `ready` channel, `start` channel, shared context | dial, report, wait, write, read, close | a release that races a cancellation; one client failing among several | nobody writes early; an aborted attempt is silent; everyone returns |
| Load generators (`load/backpressure/queue/client`, `load/concurrency`) | two wait groups, `start`, `results`, the shared deadline | dial, start together, request until the deadline, add up | deadline before, in and after a reply; result handed over before `Done` | the cutoff is not an error; totals are exact; the run ends |
| Latency statistics (same files) | none | average, median, p95, maximum | ranks at small and changing counts | nearest rank, true median, ordered statistics |
| Length-prefixed framing (`tcp/framing`) | a stream | read frames and print them; write frames and leave | frames in pieces, an empty one, the end inside a frame | messages printed as sent, all of them unless time or a size stops it |
| DNS wire format (`internal/dns`) | position, jumps and length of the decoder | decode the header, names with pointers, questions and records; encode a query; validate; extract addresses | pointers in any direction, in chains and cycles; counts and lengths that lie; limits counted in two ways | no read outside the message; exactly the well-formed messages, decoded as defined; it ends; encoder, decoder and comparison agree |
| gRPC inventory (`grpc/fundamentals`) | one context at each end of a call, the handler's counters, the client's one deadline for four calls | a unary call and three shapes of stream behind interceptors | cancellation, a deadline or a lost connection at any message; a wait for a channel that stays open | an outcome that the request, the time or the connection explains; whole answers or errors; answers in order; every handler ends |
| HTTP/2, TLS, HTTPS, echo, resource programs | little or none | | | see section 6 |

How they interact: the queue's load client is the peer of the bounded queue; the
concurrency client is the peer of its own echo-like server; `LookupA` encodes its
query and decodes every response with the wire format; `tcp/http` and
`tcp/https` call `rawhttp.HandleConnection`; `internal/dns/client` calls
`LookupA`; the UDP, framed and WebSocket programs come in pairs. In each module
the other side of the wire is either the real program (UDP, framed TCP,
WebSocket, gRPC) or an environment that may do more than the real peer does.

`PROJECT.json` lists the hazards line by line, with the properties that cover
each.

## 2. Modules and how they correspond to the code

A component's module holds its constants with their named assumptions, its
variables, one action per step, the specification and its properties. An `MC`
module, where one is needed, adds symmetry and small inputs for TLC; a `_proofs` module holds
the theorems. Definitions under a "Mutant:" comment are plausible wrong versions
of the definition after them; no specification uses them, they show
that each property can fail.

The grain of a step is the access to shared state. Every atomic counter update,
channel operation, socket call and select is a step of its own where another
actor can come in between; code that touches only local state is folded into
the step before it.

**`UdpProtocol`, `AtMostOnceService`.** `pc`, `port` and `attempt` are
`client/main.go`'s loop, `processed` is `requestHandler.processed`, `reply` is
what `handle` returned before `WriteToUDP`. `Receive` is `ReadFromUDP` with
`handle` (`DropInvalid`, `Reuse`, `Execute`), `SendReply` the write; `Crash`
and `Restart` end and start the process. The network is two sets from which
nothing is removed: a datagram may be taken late, again, in any order or never.
`inc`, `executed`, `startedAt` and `portUsed` are history. `AtMostOnceService`
is what the pair promises: a server process gives one result to an address
and id, and a client takes at most one, which was given to its own id. It is instantiated in
`UdpProtocol` and is checked and proved as `ImplementsService`. Time passes in
seconds, the precision of the payload, so two executions of one key within one
second by one process give one element of `executed`: `AtMostOnce` is
about results, not about how many times `time.Now` was called. Nothing is
promised across a restart: the cache dies with the process, and a retry that
reaches the next one is executed there anew, in the code, the model and
`AtMostOnceService` alike.

**`WorkQueue`, `FifoService`.** A handler's `pc` is its line in
`handleConnection`; `jobs` and `parked` are the channel with Go's semantics (a
receive moves the value of the first blocked sender into the buffer), `working`
and `counted` the worker, `done` the closed `Done` channels. `policy` is the program's flag, chosen once; `accepted`,
`queued`, `completed`, `waiting`, `rejected` are the counters, each updated
in its own step as in the code; `CountersBalance` says where they may differ. `FifoService` finishes admitted jobs one at a
time in the order of their admission, with a bound on those unfinished;
`ImplementsFifo` maps the worker's job, the buffer and the parked senders to
its backlog.

**`ConnectionLimit`.** `max` is the flag `-max-connections`, which a run of the program
takes from `Limits` and keeps. `acceptor` and `current` are the accept loop, `handler` each
`handleConnection` with its deferred cleanup (close, `active`, slot: three steps),
`slots` the length of the slots channel. A read may end at its deadline whether
or not a byte has come in. `client` may dial, read, send a byte
and close at any time, which includes what `runWave` of the client does.

**`DnsLookup`.** `pc` is the place in `LookupA` or the TCP exchange, `ctx` the
context's error, `conn` and `watch` each socket and its `context.AfterFunc`.
Failures of a socket, datagrams and segments come from an arbitrary network. A message is reduced to what `DecodeMessage`,
`ValidateResponse` and `ExtractARecords` find in it, which is what `DnsWire`
and `DnsQuery` are about. The clock is the
one deadline that the context and both sockets share; each timer fires on
its own after it.

**`DnsWire`, `DnsQuery`, `MCDnsWire`.** `DnsWire` is `DecodeMessage` over one
message of bytes: `section`, `left` and `offset` are the loops over the
sections, `current`, `next` (`nextOffset`), `jumps`, `nameLength` and `labels`
the variables of `decodeName`; one step is one iteration of its loop, or the
fields behind a name. `reach` is history: the highest position read or sliced.
`DnsQuery` holds the functions around a message as operators: `EncodeQuery`,
`ValidateResponse`, `ExtractARecords`. A name as a caller writes it is the list
of labels between its dots and whether it ends in one; decoded names are joined with
dots before they are compared, as in the code, so a label that contains a dot
equals two labels. `MCDnsWire` enumerates the messages and decodes each by
definition: the path that a name takes through the message is a recursive
operator, what is legal is said of the whole path, and no variable of the decoder
is used.

**`RawHttp`, `RawHttpPieces`, `MCRawHttp`.** `buffer` and `readErr` are the request reader,
`pc` the place in `HandleConnection`, `readRequest`, `readBytes` or the chunk
loop. `readBytes` allocates what a request declares before it reads any of it:
a length up to `MaxAlloc` is served, one that does not fit an int is refused,
and one in between panics (`Panic`; `AppendChunk` for the chunks together), which no
code recovers from, so the program ends (`dead`). The text of a request's header section is one letter that stands for what
the parser finds in it; the blank line, body and chunks are bytes, since where
they are cut is what matters. `Init` allows every stream of bytes, and the
theorems are about it. `MCRawHttp` restricts the streams to
prefixes of pipelined requests and computes the responses they deserve from
lengths alone (`Expected`); the theorems do not use that reference.
`RawHttpPieces` compares a connection with one that reads nothing because it holds the
whole stream already: `RawHttp` itself, with what is unused (`Unused`) as its
buffer. A step of the one is a step of the other or only a read
(`PiecesDoNotMatter`).

**`FramedProtocol`, `MCFramedProtocol`.** `service` tells the programs of
`tcp/protocol` from those of `tcp/framing`, whose server reads with the same two
`ReadFull` calls and prints (`ServerPrints`). Both ends run the same `Read` and
`Write` over pipes of bytes that hold `PipeSize` of them: a write waits for
room, and the server's has no deadline (`Stuck`). A prefix of two digits stands for the four bytes.
`got`, `need` and `out` are the progress of `io.ReadFull` and of a write.
`Program` is the client's list of operations: the three experiments
of `client/main.go` and six more; `Frames` are lists for the framing client.
`ProgramAssumption` types the operations and says that lengths fit a prefix;
`ExperimentAssumption` says what an experiment is (`WellFormed`): it wants the answers of its
requests in turn, none behind a request that ends the connection. TLC evaluates
both for all twelve lists. Deadlines, an early close, a reset and a client
host that vanishes may come between any two bytes.

**`WebSocketBarrier`.** `main`, `client` and `server` are places in `main`, the
goroutine of a client and the server's handler; `ready` is the buffered channel,
`start` its closing, `ctx` the shared context. The library is external: a link
can be open, in its closing handshake, closed or broken.

**`LoadClient`, `LatencyStats`.** `readyGroup` and `doneGroup` are the wait groups,
`published` the assignment of the deadline, `start` the closed channel, `result`
each client's counters, `latencies` how often it measured each latency, `total`,
`measured` and `received` main's sum. `program` selects
the queue client (with BUSY and the retry delay) or the concurrency client.
`LatencyStats` is `latencyStats` as operators over `measured` with
`NearestRank`, `MedianHalves` and `StatsOrdered` as what it is compared with.

**`InventoryService`.** `calls` is what the client does: main's five calls in
turn, or one call by itself, as the tests do with other tokens, products and
with a server that waits at a gate (`continueAfterFirstStockItem`,
`continueAfterSyncStockItem`). `at`, `doing` and `next` are the client's place,
`got` and `outcome` what each call returned. `handler` and `local` are the place
and the variables of each handler. gRPC is external: `up` and `down` are the
messages of a call on their way, `sentAll` and `trailer` the ends of the two
directions, `context` the server's context. The client's deadline (`expired`),
the server's own timer for it, the news of a cancellation and the loss of the
connection are separate events: a handler may run on after its client has
left, and a client may see the status of either end.

## 3. Runs, bounds and what they show

| Run | Instance | What it shows |
|---|---|---|
| `udp_retry` | 2 clients, 2 ports, 1 id, 1 foreign request, 1 tick, 1 restart | retries, duplicates and a restart never mix up the results of one server process: `RepliesAgree`, `FreshUnlessPortReused` |
| `udp_strays` | 1 client, 1 port, 2 ids, 4 foreign datagrams | a response to another id is never the answer, and one server process never gives two results for one key (`ImplementsService`); every client run ends (`EveryRunEnds`) |
| `queue` | 3 handlers, capacity 1, 3 requests, both policies | block: one job in work, one buffered and one parked, or two parked before the worker starts; reject: one runs, one waits, one is refused: `NoJobLost`, `CountersBalance`, `ImplementsFifo`; nobody waits for ever (`AskIsAnswered`) |
| `limit` | 3 connections, limits of 1 and 2 | `CountersBalance`, `WithinBudget` and `LineIsDecision` through every interleaving of the separate updates, those of the accept loop with those of a handler's cleanup included; `EveryDialIsDecided`, `IdleSlotsReclaimed` |
| `dns` | declared lengths 0, 11, 12, 14 | cancellation, deadline, timers and an arbitrary network at each step: `AnswerIsTrusted`, `NoAnswerAfterEnd`, `ContextErrorReported`, `NothingLeft`, `LookupEnds` |
| `dns_wire` | all strings of up to 5 of six bytes where a name starts, cut with or without the fields; 11 names before and behind each other with 4 shapes of record and 5 sets of counts; every cut of some; all queries of up to 3 short labels and honest replies to seven names with 30 lists of answers; labels of up to 3, names of 8, 2 jumps | no read past the end and no more items than fit (`ReadsInside`); accepted and decoded exactly as defined (`DecodesByDefinition`); the query the encoder accepts is the question the decoder reads, and an honest reply gives the caller its addresses (`LookupUnderstood`); `DecodeEnds` |
| `http` | all pairs of 22 kinds of request and two triples, every cut, reads of up to 3 bytes, header limit 8, largest int 4, largest allocation 3 | `RepliesInOrder`, `ClosedAnswered`, with the end of the program where a length cannot be allocated; where the stream is cut decides nothing (`PiecesDoNotMatter`); what has arrived is answered unless a write never returns (`ArrivedIsAnswered`) |
| `framed` | 9 experiments and 3 lists of frames, payloads of up to 5 bytes, buffers of 6 | `ServedInOrder`; an experiment passes only if it was served and fails only by time, size or the client's own doing (`VerdictIsTrue`); both ends give up unless a vanished client's buffers are full (`ConnectionEnds`) |
| `framed_logged` | the same | **expected violation**, below |
| `barrier` | 3 clients, as in the code | `NoEarlyMessage`, `AbortedIsSilent`, `CleanRunIsComplete`; everyone returns and nothing stays open (`EveryoneReturns`) |
| `load` | 2 clients, 2 attempts each, both programs, with and without delay, two latencies, the 60th percentile | the counters and totals against the history of replies (`CutoffIsNotFailure`, `CountsAreExact`); what is printed of the latencies is right by definition (`StatsByDefinition`); `RunEnds` |
| `inventory` | main's 5 calls on 3 items with limit 2, and each call by itself with 2 tokens, 5 products and a gate; 1 loss of the connection | `OutcomeDeserved`, `AnsweredInOrder`; every call and handler ends (`EverythingEnds`) |

Type invariants are theorems (section 5) and are not runs of their own; in
`FramedProtocol`, `LoadClient` and `InventoryService` the type invariant is the
first conjunct of `ServedInOrder`, `CountsAreExact` and `OutcomeDeserved`.

Why the bounds are enough for what is asked. A queue of one slot with three
handlers reaches every relation of buffer, parked senders and worker; a larger
capacity only lengthens sequences (`Capacity`, `Limits`, `Conn` and `Client` are
arbitrary in the theorems). A limit of one lets a refused connection hold up
another that waits while the slot is taken; with a limit of two, one handler
gives back its slot and its count between any two updates of the accept loop for
another. Two clients and two ports give a retry, a
port used again and a crossing reply; one restart is what separates two caches.
The values of DNS lengths straddle the header size 12. The twenty-two kinds of
request include a header section of exactly the limit and one byte more, lengths
and chunk sizes at and past the largest allocation and the largest int, alone and
summed, conflicting lengths and both framings at once, each before and after every other. Names of 8 bytes with
labels of 3 and 2 jumps put every limit of the DNS decoder, at it and past it, within
reach of messages that can be enumerated; that no message at all leads it outside
is a theorem. A percentile of 60 of up to 4 samples moves its rank at every
count but one, as 95 of 20 does. `PipeSize` is larger than a prefix and smaller than a
frame with the largest payload, so a frame never fits at once. Three items are
the list of both gRPC programs, and one lost connection is enough to hit any of
the five calls while a later one starts anew. Three
clients is the constant of the WebSocket program.

Bounds that are not in the code: `MaxClock`, `MaxIncarnation`, `MaxAccepted`,
`MaxAttempts` and `MaxBreaks` stop counters, and `MayBreak` has the connection
fail only while no handler of an earlier call is at work; `Messages` and
`Latency` are what is enumerated. `MaxHeader`, `ReadSize`, `MaxInt`,
`MaxAlloc`, `Base`, `MaxFrame`, `PipeSize`, `Capacity`, `Limits`, `MaxLabel`, `MaxName`,
`MaxJumps`, `Percent` and `Limit` are constants of the code or the system, made
small where they are not. `CHECK_DEADLOCK FALSE` is set
where the programs stop: a connection or lookup that is over, a client that has
printed, a message that is decoded.

### The divergence found

`framed_logged` checks a sentence of
`docs/learnings/02-application-protocol.md:273`: an incomplete frame is a framing
failure, which the handler logs. `protocol.Read` wraps `io.EOF` when the stream
ends after the length and before the first byte of the payload, because
`io.ReadFull` returns `io.EOF` when it has read nothing; the handler in
`tcp/protocol/server/main.go:41` skips errors that are `io.EOF`. TLC shows the
run in which the connection ends silently. Every other cut is logged.

## 4. Fairness

Runs without a liveness property use `Spec`. The others use `FairSpec`:

- weak fairness of each goroutine of the program under test (a handler, the
  worker, the accept loop, `main`, a client): the Go scheduler runs every
  runnable goroutine;
- weak fairness of clocks and timers that the code sets (`Expire`, `Timeout`,
  `Tick`, and the AfterFunc goroutines of `DnsLookup`): a deadline passes;
- weak fairness of a read with a deadline, since it returns by then;
- weak fairness of the decoder of `DnsWire`, which is sequential code;
- none of the network, of peers or of the restart of a server. A peer
  may stay silent for ever, and a datagram may be lost every time. In
  `InventoryService` the news of a cancellation and the opening of a gate may
  never come: the server's own timer is what frees its handlers.

Short one-line writes of the load servers are assumed to return: the queue's and the admission server's
lines are a few bytes, below any socket buffer. In `RawHttp` the
connection's goroutine is fair outside its writes (`Working`), and a read on an
open, silent connection is disabled: the code has neither a write nor a read
deadline there. A client that reads nothing may hold the goroutine in a write for
ever, which `ArrivedIsAnswered` makes an exception of (`Writing`).

## 5. What is proved

`tlapm` checks every theorem for every value of the constants that satisfies
the named assumptions (finite sets of processes, positive capacities, `None`
outside the sets it marks as absent). Each safety theorem follows from an
inductive invariant `IInv`: `Init => IInv`, `IInv /\ [Next]_vars => IInv'` by one
step per action, and `IInv => Inv`.

| Module | Theorems | Why the properties alone are not inductive |
|---|---|---|
| `UdpProtocol_proofs` | `TypeCorrect`, `ExecutesAtMostOnce`, `AllRepliesAgree`, `FreshAnswers`, `StableCache`, `Refinement` | `CacheInv`: the cache is exactly the executions of this incarnation; `RepliesInv`: every reply on its way was made of an execution somebody asked for; `FreshInv`: a key no datagram had carried has only executions after the client's start |
| `Backpressure_proofs`, of `WorkQueue` | `TypeCorrect`, `CountersAlwaysBalance`, `ParkedOnlyWhenFullAlways`, `NoJobIsLost`, `Refinement` | `ChannelInv`: the parked senders are distinct handlers at the send and there are none unless the buffer is full; the balances are counts of handlers at some lines, moved one at a time (`CountMove`); `InPlace` and `AsMany`: buffer, worker and `done` share no job, each job's handler is past its send and before its reply, and there are as many jobs as such handlers |
| `Backpressure_proofs`, of `LoadClient` | `LoadInvariant`, `CutoffSafe`, `CountsExact` | `ClientInv`: at most one reply is owed to a client, and where it is (`Asking`, `Reading`, `Judging`, `Over`); an error has a fault as its cause (`Spotless`); each request is under way or counted once (`Accounted`); `TotalInv`: main has added up the clients that left the channel, with lemmas that a sum over a set does not depend on the order (`SumAdd`); `GroupsInv`: each wait group counts those that have not left it |
| `ConnectionLimit_proofs` | `TypeCorrect`, `CountersAlwaysBalance`, `BudgetHolds`, `LineIsTheDecision` | `Undecided`: pending connections and the current one have no handler; `Budget`: slots are the owners of one plus the loop's own; `DecisionBalance` is inductive with these; `Told`: a connection told BUSY never comes back to the accept loop |
| `Dns_proofs`, of `DnsLookup` | `TypeCorrect`, `AnswersAreTrusted`, `NoLateAnswer`, `ContextErrorsReported`, `NothingIsLeft` | `SocketInv`: a socket is closed under the call only after the context ended; `ReadInv` and `FallbackInv`: what is judged was read while the context was live, and TCP follows a truncated match; `CleanedUp`: the UDP socket is closed before TCP is dialled, and each return closes its own |
| `Dns_proofs`, of `DnsWire` | `DecoderTypes`, `NeverReadsOutside`, `NamesProgress` | `PositionsOrdered`: an item starts inside the message, its name is read from there on until the continuation is known, which lies behind the start and inside; so the bytes that the items take can be counted against `offset` |
| `RawHttp_proofs` | `TypeCorrect`, `BodyInOrder`, `HeaderWithinLimit`, `PiecesDecideNothing` | `Fitting`: sizes never exceed what is left of the largest int; `Leftover`: what is left in the buffer after a request is within the header limit; `EndSeen`: an error is seen only behind the last byte; lemmas on the first occurrence of a separator, which more bytes do not move (`IndexOfJoin`) |
| `FramedProtocol_proofs` | `Invariant`, `TypeCorrect`, `RequestsInOrder`, `VerdictTrue` | `InStep`: what an end has of a frame, then its pipe, then what the other end still writes are the frames of what was sent, from the first that is not read (`Stream`); `Handling` and `Answering`: the handled requests are the first that were sent, the replies their answers; `Smooth`: as long as nothing happened that excuses a failure (`Clean`), a server that is done has answered all that was asked |
| `WebSocketBarrier_proofs` | `TypeCorrect`, `Barriers`, `AbortsSilently`, `CleanRuns` | `ReportBalance` and `ReportedOnce`: reports taken and waiting are those of distinct clients; `StartIsEarned`: start is closed only after all; `SendersReleased`: a client past the barrier saw it closed; `Clean`: until something fails, a client's connection and history are those of its place in `runClient` |
| `InventoryService_proofs` | `TypeCorrect`, `DeservedOutcome`, `InOrderAnswers` | what is under way must be related to where both ends are: `Uploads` (the items in the queue are those behind the received ones), `Answers` (received and queued responses are the first items, all that were sent while the stream holds), `Completes` (behind an OK nothing is missing), `Reasons` (a status has a deadline, a break or the request to rest on), `Ahead` (calls behind the current one are untouched) |

`UdpProtocol_proofs!Refinement` shows that every step of the UDP programs is a step
of `AtMostOnceService` or leaves it unchanged, and that initial states map to
initial states. `Backpressure_proofs!Refinement` shows the same of the queue and
`FifoService`: a send that succeeds or parks is an admission (`SubmissionAdmits`),
the worker's two kinds of receive move a job inside the backlog and leave it
unchanged (`TakeKeepsBacklog`), and counting a completion takes its first job
(`CountingFinishes`). That the backlog stays within its bound is `BacklogRoom`, from
`ChannelInv` and the policy.

`RawHttp_proofs!PiecesDecideNothing` is a simulation: the connection and the one that
holds the whole stream take the same step, on a buffer and on that buffer with the
bytes still under way behind it. What the parser looks at lies in front of what
has not arrived (`CutOfJoin`), and where it gives up for want of bytes, either
none are left (`EndSeen`) or the limit is reached, and then a blank line further
on would be refused for its place (`HeadTooLongPiece`). A `readBytes` is one step
there, its last fill or its take. The theorem says that the cuts do not matter;
that the replies are the right ones is what `RepliesInOrder` checks.

`FramedProtocol_proofs` argues about bytes without induction over them: a stream is
a sequence of remainders, one for each frame boundary (`Stream`), and each step
of a reader or a writer moves one boundary or none: a frame joins at the end
(`ReadyGrows`), a prefix is decoded where its length was encoded, and only a
payload that is read whole decodes. Both ends use the same lemmas, the client with the answers as
its line. That an experiment fails only for a reason needs the converse: what is
not excused has been written, read and answered.

In `Backpressure_proofs` the steps of a client are checked for that client
(`DialInv` to `FaultInv`) and leave the others alone (`ClientUndisturbed`). A late
reply may still arrive for a request that timed out, so `Over` allows one
reply that was sent in time and not counted, but only beside an unfinished or a
failed request. `MapThenSumSet` takes elements out of a set by `CHOOSE`; that the
function it is defined by exists, and that any element may go first, is shown by
minimal counterexamples (`LeastSubset`).

In `InventoryService_proofs` a call's part of the invariant, `CallInv`, speaks of
that call alone, so a step is checked in its own call and carried to the others
by `Others`; only a break touches several calls at once (`LostElsewhere`). The
handlers have three kinds of step: to go on (`StepKeeps`), to return
(`ReturnKeeps`), and to move an item (`SendKeeps`, `ReceiveKeeps`). A return is
harmless if it is `Justified` or can no longer reach the client. Which other properties the runs check are also theorems is in
`PROJECT.json`.

## 6. What is not shown

Model-checked only: all liveness (`EveryRunEnds`, `AskIsAnswered`,
`EveryDialIsDecided`, `IdleSlotsReclaimed`, `LookupEnds`, `DecodeEnds`,
`ArrivedIsAnswered`, `ConnectionEnds`, `EveryoneReturns`, `RunEnds`,
`EverythingEnds`), which needs fairness and `ENABLED` and is beyond the prover
(`NamesProgress` is the step argument behind `DecodeEnds`);
`RepliesInOrder`, `ClosedAnswered` and `DecodesByDefinition`, whose references are recursive;
`LookupUnderstood`, which is about enumerated inputs; and `StatsByDefinition`,
since the sorted samples are concatenated by a fold over a sequence and compared by their ranks,
which would take induction over them. `LatencyStats` is only model-checked.
The theorems about `FramedProtocol` are about experiments that are `WellFormed`;
a client that waits for an answer it cannot get is outside them.

Left out, with the reason: text of messages, logs and printed reports; the
reporters of the load servers, which only read counters; errors of `Accept`
and `Listen`; the TTL of a record, which nothing reads; the sum of rejection
latencies, which is only printed; the channels by which gRPC handlers notify a
test, which never block them; growth of the UDP cache, which the code does not bound.
In `RawHttp` only the lengths that a request declares can exceed memory, and
`MaxAlloc` stands for both limits on them, that of `make` and that of the machine;
the rounding of `append`, the growth of a chunk-size line without an end and the
copy that a response is built in are left out, and so are the other
connections, which end with the program.

Three facts about the code that the models state rather than judge. The raw HTTP
server allocates what a request declares (`framing.go:50`, no limit but that of
the int), so a declared length can end the program: `ClosedAnswered` says that nothing
else does, and that the requests before it are answered. The framed
server has no write deadline, so a client that vanishes with its buffers full of
unread responses keeps a handler (`Stuck`, the exception in `ConnectionEnds`).
And `equalQuestionNames` compares names after their labels were joined with
dots, so a response whose one label is `a.b` matches a question for the two
labels `a` and `b`.

Not modelled: the HTTP/2 programs, whose requests, streams and windows are
those of `net/http`, with two goroutines that each make one request around it; the message
types and the registration of the generated gRPC code; the TLS and HTTPS
programs and `tcp/http`, which put `crypto/tls` or nothing around loops
modelled in `RawHttp`; echo programs, resource measurements, the clock, the
DNS command line and the single WebSocket client, which have no state that two
steps could disagree about.

## 7. Order of the work, and what would extend it

The UDP protocol came first, since its promise depends on every hard behaviour at
once; then the queue and the admission limit (counters against channels), the
DNS lookup (contexts), the HTTP server (streams), the framed protocol, the
barrier and the load generators; then the DNS wire format, the plain framing
programs and the gRPC service.

What would say more:

1. Statistics for every sample: `Sorted` as a function from ranks, whose
   counts below a rank determine it, so that `NearestRank` and `MedianHalves` can
   be proved.
2. Composition of `LoadClient` with `WorkQueue` through their wires: the counts
   the client prints against the counters the server reports.
3. `DnsLookup` over messages of bytes, with `DnsWire` as its decoder; today they meet
   in the kinds of message that `DnsLookup` distinguishes.
