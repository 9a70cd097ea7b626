# iouring-interface: TLA+ models and proofs

The repository is a C++ library that gives a program asynchronous sockets on
top of Linux io_uring. A program creates one `IOUring`, calls `init()`, submits
requests (accept, connect, receive, send, close) with a callback each, and calls
`poll_completion_queues()` for ever. This directory models how a request finds
its way from the submission to its callback and to the reuse of its id, how
several threads submit, how host names are resolved, what becomes of sockets and
their descriptors, and the classes for addresses, packets and adapters. TLC
checks the models on small instances; TLAPS proves part of them for all.

## The system

| component | state | operations | interacts with |
|---|---|---|---|
| WorkPool, WorkItem (`WorkPool.cpp`, `WorkItem.cpp/.hpp`) | `m_work_items` (id -> item), `m_free_ids` (stack), each item's type, state, socket, callback, address buffer | `alloc_*_work_item`, `get_work_item`, `free_work_item`, `submit*` | its ids are the user data of io_uring |
| completion engine (`IOUring.cpp`) | the two rings, the buffer ring, `m_initialized` | `init`, `submit_*`, `ackuire_send_workitem`, `submit`, `poll_completion_queues` | calls the pool, the kernel and the callbacks; callbacks call it |
| host name resolution (`IOUring.cpp` 833-957) | `m_hostname_DNS_requests`: entries with waiting handlers | `resolve_hostname`, `sig_notifier_hostname_resolve`, `trigger_hostname_resolve_callbacks` | getaddrinfo_a calls back on a thread of its own |
| IPAddress | optional IPv4 and IPv6 address | constructors, `get_port`, `set_port`, `get_hash`, `==`, `<`, formatting | accept, connect, receive |
| SendPacket, ReceivedMessage | 4096 bytes and a size | bounded append, reset | owned by a send item |
| sockets (`SocketImpl`, factory) | descriptor, kind, type | creation, accepted connections, close | their descriptors are those of the engine's requests |
| NetworkAdapter (`IOUringInterface.cpp`) | addresses of an interface | start-up, waits for an address, tunes | read once |
| ProbeUringFeatures | table of kernel features | look-up | asserted once in `init` |

What is hard, and what makes each part correct:

* *Ids are recycled.* A completion carries only an id. The pool must never give
  one id to two live items, and no id may be recycled while a completion that
  names it can still come.
* *Completions come in any order, while callbacks run.* A callback submits new
  requests, the kernel completes others, and the completion being dispatched is
  still at the head of the queue. The item that was looked up before the
  callback must be the one that is freed after it.
* *Requests are re-armed.* An accept is submitted again after every connection,
  a receive when its handler says so; a multishot receive stays armed anyway.
* *Buffers circulate* between ring, kernel, completion and callback.
* *Submission can fail or be partial*, and the submission queue is finite.
* *Errors*: each kind of request treats errors in its own way: callback, silent
  repeat, silent end, drop, assertion, abort.
* *Threads.* Some submissions are made under the pool's mutex and some are not;
  host name handlers run on threads of the C library, which walk over a list
  that nothing protects.
* *Names of things are used again*: ids, descriptors, and the addresses by which
  lookups are told apart.
* *Callbacks that poll* dispatch the completion they were called for once more.

## Modules

| module | what it is |
|---|---|
| `IdAllocator` | abstract: a set of used ids that is dense and grows only when full |
| `WorkPool` | the pool and its items; `PoolSpec` is the pool alone with any client |
| `NestedPolling` | the pool with callbacks that poll, to any depth |
| `RequestLifecycle` | abstract: the life of every request, from its submission to its callback and its end |
| `IOUring` | the engine on top of `WorkPool`: application, kernel and polling thread |
| `AtomicSubmission` | abstract: a submission queue whose users queue and flush in one step |
| `SubmissionThreads` | `submit` and `get_sqe` step by step, by several threads |
| `NameService` | abstract: what `resolve_hostname` promises its callers |
| `HostnameResolve` | `resolve_hostname` and the threads that report lookups |
| `IPAddress` | the class, as operators |
| `AddressObjects` | objects of that class, constructed and assigned in all ways |
| `Sockets` | sockets, their descriptors, and the requests that name them; uses `IPAddress` |
| `SendPacket` | the packet of a send, from `ackuire_send_workitem` to the callback |
| `NetworkAdapter` | the start-up of the adapter |
| `MCWorkPool`, `MCIOUring`, `MCSubmission`, `MCHostname`, `MCSockets`, `MCObjects` | what TLC runs, with the `.cfg` files |
| `WorkPoolProofs`, `NestedPollingProofs`, `IOUringProofs`, `StreamProofs`, `SubmissionProofs`, `SocketsProofs`, `HostnameProofs`, `ObjectProofs` | theorems about the module of that name; `StreamProofs` goes on where `IOUringProofs` ends, `SubmissionProofs` is about `SubmissionThreads`, `HostnameProofs` about `HostnameResolve`, `ObjectProofs` about `AddressObjects`, `SendPacket` and `NetworkAdapter` |

The parts are modelled one by one and meet in three places: `IOUring` and
`NestedPolling` are clients of `WorkPool` and use its operations as they stand;
`IOUring` takes `submit` to be one step, because all its calls come from one
thread: `SubmissionThreads` shows by implementing `AtomicSubmission` that `submit`
is one step of a single thread, and of several if all submit under the mutex. The
code does not see to the latter (`submit_accept` etc. lock, the resubmissions and
the sends do not), which is the run `UnlockedResubmit`. `Sockets` builds the
addresses of accepted connections with `IPAddress`.

### WorkPool, NestedPolling

`heap` is the sequence of WorkItem objects ever constructed (a position is the
identity of a `shared_ptr`), `m_work_items` and `m_free_ids` are the members of
the same name. Every operation of the pool runs under `m_mutex` from entry to
return, so it is one step. The `alloc_*` functions differ in the type they set
and in that all but `alloc_send_work_item` submit the item before they return,
with the mutex still held; `IOUring` models that as one step too.

`NestedPolling` reduces requests to one completion each and lets callbacks poll:
`PollCall` pushes an id on `active`, `Return` frees the id of the innermost call
and advances the queue. As the queue is advanced only after the callback, a
nested poll meets the completion of its caller first (`IOUring.cpp:774`), so
items are freed by foreign callbacks or twice. Freeing twice is an assertion in
`free_work_item` (`ReturnFails`).

### IOUring

| code | model |
|---|---|
| `init`, `setup_buffer_pool` | `init(result)`: publishes half of the buffers, or none; sets `m_initialized` in both cases |
| `get_sqe`, `submit_all_requests`, `submit` | operators of these names; the queue after a submission is any suffix when `SubmitFaults` holds |
| `submit_accept`, `_recv`, `_connect`, `_close` | actions of these names |
| `ackuire_send_workitem`, then `submit_stream_data` or `submit_packet` | `ackuire_send_workitem`, `submit_send`: other steps may come in between |
| the kernel | `CompleteRequest`, `ReceiveData`, `ReceiveEOF`, `ReceiveError` (external) |
| `poll_completion_queues` up to the callback | `PollDrop`, `PollFail`, `PollSilently`, `PollCall` |
| the callback | the period in which `calling` names its item |
| everything after the callback, `io_uring_cq_advance` | `CallbackReturn`, through `Finish` |

A completion `cqe->res` is one of seven results, as far as the code tells them
apart; payloads are not modelled. An assertion or `abort()` is a step that sets
`failed`, after which nothing happens: the modules describe a build with
assertions (without `NDEBUG`), which is what the unit tests assume.

What the model takes from the kernel: submission entries are consumed in order;
a one-shot request has exactly one completion; a multishot receive has
completions with `IORING_CQE_F_MORE` until a last one without it; a receive that
yields data has taken the oldest published buffer; the end of a stream takes
none and sets no buffer flag; ENOBUFS may end a request of any type, a receive
when no buffer is published; only a successful accept writes the address length. The
completion queue does not lose entries (the kernel keeps an overflow list), so
it is unbounded here.

What it takes from the application: it submits an acquired send item once
(`IOUringInterface.hpp:60-66`); it uses the send operation that fits the socket;
callbacks do not poll (`NestedPolling` is about those that do); all calls come
from one thread (`SubmissionThreads` is about several).

### SubmissionThreads

The memory that liburing shares with the kernel. A thread goes through
`WAIT` (the `lock_guard` of `alloc_*_work_item`; `Unlocked` threads go on without,
as the resubmissions and the sends do, or with it),
`GET` (`get_sqe`; on a full queue `FlushFull`, then `RETRY`, then abort),
`CLAIM` (the tail was read), `DATA` (`io_uring_sqe_set_data`), `PREP` (the switch
over the types) and `SUBMIT` (`io_uring_submit`, unlock). An entry keeps what was
last written into it, the user data and the operation apart, so that a half
written or a stale entry can be told from a whole one.

### HostnameResolve

| code | model |
|---|---|
| `resolve_hostname`, a name that is an address | `ResolveLiteral` |
| a name that has an entry | `ResolveDuplicate` |
| a new name: `emplace_back`, the static `sigevent` | `ResolveNew`, `Emplace` |
| `getaddrinfo_a` | `Start` |
| the resolver of the C library | `LookupEnds` (external) |
| `sig_notifier_hostname_resolve`, `trigger_hostname_resolve_callbacks` | `NotifierStarts`, `SkipEntry`, `HandleEntry`, `CallHandler`, `HandlerReturns`, `EntryDone` |

Requests are told apart by their address, so `Addresses` is a set from which
`Emplace` takes any free one: memory that was freed is used again. A vector that
grows past its capacity moves its elements; a walk that goes on over the old
ones reads moved-from elements or ends the process (`Moved`).

### Sockets

`fd_table` is the kernel's table of descriptors, `files` the files ever opened,
`sockets` the objects ever made, each with the number it keeps for ever (`m_fd`)
and, as a history the code does not have, the file it was made for. A request
turns the number into a file when it is submitted, and again when it is submitted
again. An accept may open a file, find no free descriptor, meet a connection that
is gone or a file that does not listen; a receive may yield data or the end of the
stream, a reset (ECONNRESET), ENOBUFS or any other error. What becomes of each:

| result | accept | receive |
|---|---|---|
| success | handler, which makes a socket or none; submitted again | handler; submitted again if it returns `RE_SUBMIT` |
| EINVAL | submitted again, nobody is told | (not met) |
| ECONNRESET, which the code calls `EAI_INTR` | as any other error | submitted again by the number of the descriptor, nobody is asked (`IOUring.cpp:645`, 722) |
| ENOBUFS | dropped (685) | dropped (685) |
| any other (EMFILE, ECONNABORTED, EBADF, ETIMEDOUT, ...) | assertion on the length of the address (524) | abort (648) |

`Destroy` is the end of the last reference to an `ISocket`, whose destructor closes
nothing (`ISocket.hpp:68`). A request refers to its socket, so it comes after all
requests. `socket()` without a free descriptor is an assertion (`create_impl`).

The application is of one of three kinds, chosen at the start of a behaviour by
`careful` and `patient`. A careful one accepts on listeners only and leaves a
socket alone once it submitted its close. That does not keep the library from
submitting a receive again that was outstanding at the close, after an ECONNRESET;
so a patient application closes a socket only when no receive of it is outstanding
but those whose handler is about to run, with data or the end of the stream. Any
other application does with sockets whatever the interface allows.

### SendPacket, AddressObjects, NetworkAdapter

`SendPacket` keeps the array as it is, with whatever was in memory before, and
what the application appended beside it. Numbers are sequences of bytes, so that
`ntohs` and `ntohl` are what they are on a little-endian host, a reversal.
`AddressObjects` keeps with each object what it was made from (`meant`); the
storage that a `sockaddr_storage` constructor reads is one in which both readings
exist, as in memory. `NetworkAdapter` lets the addresses of all interfaces come
and go at any time, before, while and after `init()` waits for one; each look at
them may fail (`getifaddrs`), which ends the process (`IOUringInterface.cpp:57`).

## Runs

Each property has a seeded fault (definitions called `Faulty_...`) that it is
known to notice in its own run.

| run | checks | bounds |
|---|---|---|
| `MCWorkPool` | callbacks that poll: consistency of slots, stack and ids; growth; refinement of `IdAllocator` | 5 items, `Depth` 2 |
| `Streams` | a server and a stream socket, failing and partial submissions, all error results, failed `init`, IPv6 connects: requests belong to live items, one request per item, each callback gets its own result, fresh accept length, no buffer lost, items stall by ENOBUFS only, sends are called back, refinement of `RequestLifecycle` | 3 items, queue of 2, 2 of 4 buffers published, `MaxRing` 2 |
| `Datagrams` | multishot receives whose handlers always return `RE_SUBMIT`: requests, callbacks and buffers | 2 items, `MaxMore` 2 |
| `Liveness` | every send, connect and close that the kernel took ends; accepts are armed again; but for those that end in ENOBUFS | 3 items, submissions that fail or stop early |
| `LockedThreads` | three threads under the mutex: no request is lost or torn, submissions end, refinement of `AtomicSubmission` | queue of 2, 5 requests, submissions that stop early |
| `Hostnames` | refinement of `NameService`; no freed request is used; order of handlers; handlers that join in time are called | 4 calls, 2 names and an address, 2 request addresses, lookups that fail or never start, handlers that resolve further names |
| `Connections` | receives and closes reach their own connection; no request of a careful application is refused for what its descriptor means by then; only applications lose descriptors | 2 descriptors, 3 files, 4 requests at a time |
| `Objects` | addresses: ports, families, `==`, `<` and hash; packets: bounds, what is sent; adapter: start-up ends | 2 addresses of 2 bits per word; 6 bytes of packet; 2 interfaces |

*Why the bounds are enough to matter.* Three items let an id be freed, reused,
and met by a stale entry while another item is live; five items with polls two
deep let an item be freed by a foreign callback and its id reused twice. A queue
of two is full, half full and empty in turn, and with a submission that stops
early an entry waits behind another. Two published buffers run out while one
is with a completion and one with a callback. In `LockedThreads` five requests
use each entry more than twice, so stale contents would show. In `Hostnames`
three handlers make a vector move and two addresses make a freed one come back
while a late thread still holds it. In `Connections` two descriptors for three
files force a number to be used again; they also run out, so that `socket()` and
accepts fail. Four requests are an accept, two receives and a close, which is what
it takes for a receive to meet the connection that was accepted after its own was
closed.

Sockets in `IOUring` are model values, one per kind, as every property is about
items and ids and nothing depends on how many sockets of a kind there are.
`MaxMore` bounds how often a multishot receive goes on while completions or
extra submissions of it pile up. With 1 it never goes on, with 2 a completion
can arrive while another of the same receive is dispatched, which is the case
of interest. `MaxRing` bounds the entries that ends of streams add to the buffer
ring (finding `EofBuffer`): with 2 an end of stream needs a ring that is not
full. `Hostnames` makes calls of `resolve_hostname` take turns (`OneAtATime`) and
callers keep their strings (`KeepsNames`); without the first the static
`sigevent` (`IOUring.cpp:944`) is exchanged between two lookups and a handler
waits for ever, without the second the pointer kept in `ar_name`
(`IOUring.cpp:946`) dangles and a handler is told of another name. Both are
misuses that nothing in the code prevents.
In `Objects` the three classes share no state, so a behaviour is about one of
them (`part`). `OrderAgreesWithEqual` claims a strict order for IPv4 only, as
the 64-bit hash of an IPv6 address is bound to collide.

In every run the application may stop and the kernel may have nothing to
complete, so a state without successor is no error.

### Fairness

* `Liveness`: polling (programs poll in an endless loop), callbacks return, and
  the kernel completes each send, connect and close. Receives and accepts need
  not complete, and nothing is assumed of submissions: an entry that
  `io_uring_submit` left behind waits for the next one, so `RequestsEnd` speaks of
  requests that the kernel took. The properties say "unless the process ends",
  because errors of accepts and receives end it, and "or is stalled", because
  ENOBUFS is dropped whatever the type of the item.
* `LockedThreads`: a thread that has begun a submission is scheduled; nobody has
  to begin one. Weak fairness of each thread is enough although the mutex is not
  fair, because the number of submissions is bounded by `MaxRequests`.
* `Hostnames`: a call of `resolve_hostname` that has begun goes on, lookups that
  were started end, their threads are scheduled and handlers return. No call has
  to be made.
* `Objects`: only the thread that runs `init()` of the adapter is scheduled;
  nothing is asked of the host. That is why `StartUpEnds` speaks of an interface
  that keeps its address: one that comes and goes while the loop sleeps may be
  missed for ever.

### Runs that find a violation

| run | what the code does |
|---|---|
| `LateDatagram` | a datagram handler that returns `NONE` has its item freed while the multishot receive is armed; a later datagram finds whichever item has the id then, and calls it with a result that is not its own |
| `EofBuffer` | the end of a stream "recycles" buffer 0, which was not taken: two later receives write into the same memory |
| `FirstHandler` | the first call for a name starts the lookup and drops its handler: only later callers are told |
| `UnlockedResubmit` | the polling thread submits a request again without the mutex while another thread submits: both write into the same entry and one request is lost |

### What the code does, part of the models, and no run is about

These are branches that the models take like any other; properties are stated
around them, and the exceptions that a property makes are named in its comment.

* ENOBUFS of any request, an accept or a send as well as a receive, is dropped
  before the switch over the types (`IOUring.cpp:685-691`): the item stays in the
  pool with no request and no callback, for ever. `StallsOnlyByENOBUFS` says that
  nothing else has this effect; `RequestsEnd` and `ServerKeepsAccepting` make an
  exception of it (`Stalled`).
* A failed accept reaches the assertion on the address length with 0 and ends
  the process (`IOUring.cpp:524`; `PollFail`), for want of a descriptor too. So one
  failed accept does end a server, unless it is EFAULT or EINVAL: it is armed
  again then.
* A receive that ends with an error other than ECONNRESET, EFAULT or EINVAL
  aborts the process (648). One that ends with ECONNRESET is submitted again by
  number, on another connection if the number was given to one meanwhile. This is
  the exception (`Stray`) in `ReceivesAreFromOwnConnection` and
  `NoRequestIsRefused`.
* A connect to an IPv6 target fails the assertion at `IOUring.cpp:280`.
* EFAULT or EINVAL ends a send without its callback (457-460); this is the
  exception in `SendsAreCalledBack`.
* A request whose `io_uring_submit` failed (216) is not tried again until
  another request is submitted.
* A poll inside a callback dispatches the same completion again and frees items
  twice (774; `ReturnFails`).
* A handler that joins a name whose lookup was reported is never called (936),
  nor is one whose lookup never started (956); `HandlersInTimeAreCalled` is about
  those that join a lookup that was started, before its walk. A vector that moves
  under a walk ends the behaviour or the walk (865).
* A multishot receive is submitted again after every datagram although it is
  armed, so its requests grow in number (722; bounded here by `MaxMore`); and a
  datagram that finds no item is dropped with its buffer (676), which happens in
  `LateDatagram`. `NoBufferIsLost` is about handlers that go on, which do not meet it.
* The constructor from a `sockaddr_storage` takes the length of one family for
  that of the other (`IPAddress.hpp:71`); `AsMade` leaves these objects out.
  `IPAddress::parse` leaves the port as it was in memory.
* A second `get_send_packet` empties the packet (`WorkItem.hpp:151`), and a
  stream send that was cut short is reported as done (`WorkItem.hpp:108`): the
  premises of `DoneMeansSent`.
* A socket that was closed can still be used and then names whatever has its
  number; an accepted connection counts as a server socket (`SocketImpl.cpp:63`),
  its port is not converted (`WorkItem.cpp:100`), and descriptor 0 fails an
  assertion (`SocketImpl.cpp:66`). `careful` applications do not meet the first
  two.
* A socket that is dropped before it was closed takes its descriptor with it, and
  so does a connection whose handler makes no socket of it; these are the two
  cases of `OnlyApplicationsLoseDescriptors`. An accept or a receive that is
  stalled keeps its socket for ever.
* The adapter's address is never read again (`IOUringInterface.cpp:113`), and its
  process ends when `getifaddrs` fails (57).

## Proofs

Everything below is checked by tlapm to the last leaf, for all values of the
constants, from the named assumptions of the modules alone
(`PoolAssumption`, `IOUringAssumption`, `DepthAssumption`, `ThreadsAssumption`,
`HostnameAssumption`, `SocketsAssumption`, `SendPacketAssumption`,
`IPAddressAssumption`, `AddressObjectsAssumption`, `NetworkAdapterAssumption`: the
ranges of the constants, and that model values are no numbers, strings or
records). Where a theorem needs more, it says so in its `ASSUME`.

`WorkPoolProofs` (the pool with any client):

* `PoolConsistent`: `PoolTypeOK`, `FreeIdsAreTheEmptySlots` and
  `InUseItemsOwnTheirSlot` always hold. Their conjunction `PoolIInv` is
  inductive; no part of it is alone. That a reused id names no live item needs
  the stack to hold empty slots only, and that a released id is not on the stack
  already needs its slot to be taken.
* `PoolGrowsOnlyWhenFull`: when the vector grows the stack is empty, and so,
  by `PoolIInv`, every slot is taken.
* `PoolImplementsIdAllocator`: taking the top of the stack, growing and
  releasing are the three actions of `IdAllocator`. `AllocatorStep` says so for
  any client of the pool.

`NestedPollingProofs`: `NestedPollsKeepPoolConsistent` and
`NestedPollsImplementIdAllocator`. Every step, with polls in callbacks to any
depth, is a step of the pool or changes nothing of it, so the theorems above
carry over: items are freed by the wrong callback, or their release fails an
assertion, but the pool never gives one id to two live items.

`IOUringProofs` (the whole engine):

* `EngineTypeOK` and `EngineKeepsPoolConsistent`, from `EngineInv`: `TypeOK`, the
  pool's invariant, and that a callback runs only while its completion is still
  queued (without which `Finish` could advance an empty queue). The pool's
  lemmas are used as they stand. Datagrams, errors and failing submissions are
  included: the late datagrams of the run `LateDatagram` reach the wrong item,
  but they do not break the pool.
* `EngineImplementsIdAllocator`: no step of the engine does anything to
  `m_work_items` but allocate and free, so the ids that io_uring sees are those
  of the id allocator.
* `RequestsAreSafe`, if `DatagramsGoOn`: `OutstandingItemIsLive` and
  `CallbackGetsItsOwnResult` always hold. The hypothesis says that the handlers of
  datagram sockets, if there are any, always return `RE_SUBMIT`; it is needed: one
  that returns `NONE` is what `LateDatagram` shows. The inductive invariant
  `ServiceInv` adds that acquired send items and multishot receives are in use,
  that `calling` is the item of the head of the queue, and that items which are
  no multishot receives (`Alone`) have one request each. The argument: `Exclusive`
  says that queue and kernel together hold one request per item of a set, and
  `submit` keeps it whatever prefix the kernel takes, if the item is not of the
  set or had nothing on its way (`SubmitExclusive`); an item that is freed has
  nothing on its way, because it is alone and its only request is the completion
  that is being handled (`HeadOwner`); and that completion finds its item, because
  an item in use owns the slot of its id (the pool's invariant). A multishot
  receive may have many requests and completions, but as its handlers go on it
  is never freed; that an item does not change its kind is `KindIsKept`.
* `StreamsHaveOneRequest`: without datagram sockets all items are alone, and
  `ServiceInv` is `OneRequestPerItem`. With them it is false: a multishot receive
  that is resubmitted while it is armed has two requests.

`StreamProofs` goes on from `ServiceInv`, under `DatagramsGoOn`:

* `NoBufferLost` and `AcceptsSeeTheirOwnAddress` follow from `BooksInv`, which is
  `ServiceInv` with three books that are kept: only receives have completions with
  a buffer, and those report data, of whatever quality (`CompletionsFit`); an
  address length other than 0 belongs to an item with a successful completion in
  the queue (`LengthsAreFresh`); and each published buffer is in the ring or with a
  completion (`BuffersAreKept`).
* `RequestsStallOnlyByENOBUFS`: a step concerns one item (`OneItemStalls`), and
  that item has a request or a completion afterwards, is free, or got ENOBUFS. An
  item that has none of these keeps that state for ever, because only a completion
  frees an item or submits it again. Submissions may fail all the way: what
  `io_uring_submit` did not take is still queued.
* `BuffersStayApart`: no buffer has two owners, if moreover `"EOF"` is not in
  `Outcomes`. `OwnersInv` is inductive under that hypothesis; the run `EofBuffer`
  shows that it is needed.
* `SendsAreAnswered`: the only steps that free an item free the one that is
  handled (`OnlyHandledItemsAreFreed`).
* `StreamsImplementRequestLifecycle`, if `DatagramSockets = {}`: the engine, with
  its queues, its ids and its items that are used again, is a set of requests that
  live one by one. `Status` tells the place of each request from all of them, so
  there is one lemma for each kind of step (issuing, posting, advancing,
  finishing, failing) which says that the status of one request moves and all
  others keep theirs. A multishot receive has no such life: it is pending and
  completed at once.

`SubmissionProofs`, if all submissions are made under the mutex or one thread makes
all of them (`NoRivals`), for any number of threads, any size of the queue, and an
`io_uring_submit` that takes whatever it likes:

* `SubmissionsAreSafe`, from `ThreadInv`: the thread inside is the owner of
  the mutex and knows where the tail is (`PlacesInv`), entries that the kernel can
  see or has taken are whole (`EntriesInv`), and each request is with one thread,
  waits or was taken (`RequestsInv`). Entries whose numbers are less than
  `QueueSize` apart do not share a slot, which is all that is used of the ring.
* `SubmissionsAreAtomic`: with what is visible as the pending requests, each
  step is one of `AtomicSubmission` or a stutter. Neither half of `NoRivals` is
  ensured by the library: the resubmissions (`IOUring.cpp:706`, 722) and the sends
  (`WorkItem.cpp:42`, 49) take no mutex. That `IOUring` may take `submit` to be one
  step rests on the other half, which is a demand on the application: one thread
  makes all calls, the unlocked ones included. `UnlockedResubmit` shows what happens
  to an application of two threads.

`SocketsProofs`, for any number of files, sockets and descriptors:

* `SocketsAreTyped`, `ReceivesFromOwnConnection` and `ClosesOwnConnection`, from
  `SocketsInv`. A number that is used again is dangerous only while a socket or
  a request means the old file by it. Three parts hold for every application:
  what a request takes from its socket (`RequestsFit`), that only server sockets
  listen (`ListenersServe`), and that a file is that of one socket, or of one
  accept that waits for its callback (`OneSocketPerFile`). For a careful
  application, which leaves a socket alone once it submitted its close, there are
  two more: the file of a socket that may still be used, or closed, is open under
  its number (`StillOpen`), so that a request gets that file whenever the kernel
  looks the number up (`OnOwnFile`). A close needs `OneCloseEach`: the file of
  one close must not be closed by another.
* `CarefulAreNotRefused`, from the same: what a careful application asks for is
  asked of its own file, which is open and of the right kind. The exceptions are
  the receives that were outstanding at the close of their socket (`Stray`); a
  patient application has none (`PatientInv`). The theorem is about refusals only:
  a connection that breaks, and an accept that finds no descriptor, end the process
  of any application.
* `DescriptorsAreLostByApplications`, for all three kinds of applications: a
  descriptor that has an owner keeps it until a close frees the number, the
  application drops the owner, or the handler of the accept makes none. That a
  socket which was closed may be dropped with no loss needs `ClosedAreGone`: when
  its requests are over, its file has no descriptor left.

`HostnameProofs`, if `OneAtATime`, for any number of names, calls and addresses
of requests:

* `LookupsAreTyped`, `RequestsOutliveTheirLookups` and `HandlersTakeTurns`, from
  `HostInv`. The argument: a name has one entry and at most one lookup
  (`NamesDiffer`), because the thread that adds the entry is the only one in
  `resolve_hostname` until the lookup started (`OneResolves`). Until the lookup is
  reported its entry holds its request, and no other entry that the walk reaches
  does (`RequestsApart`, `LookupsFit`): an address that is used again belongs to
  an entry past the end of every walk that looks for the old one. Handlers are
  told the outcome in turn: those up to the last that was called, and no others
  (`ListedOnce`, `ToldInTurn`). When vectors move is left open in all this:
  `Moved` is never expanded.
* `RefinesNameService`, if moreover `KeepsNames`: the end of a lookup is `Learn`,
  the call of a handler is `Tell`, calls are `Ask`, and all other steps stutter.
  The handler that is called next was told nothing yet (`NextIsUntold`), and the
  name it asked for is that of the entry, hence that of the lookup.
* Both hypotheses are obligations of the caller that no comment states. Two
  threads in `resolve_hostname` at once may add two entries for one name, or start
  one lookup with the other's `sigevent` (`sig` is static); and a string that
  does not outlive the lookup, to which `ar_name` points, leaves open what the
  lookup is of. The types and the order of the calls do not need the second.

`ObjectProofs`, about the classes that one thread uses:

* `PacketsStayInBounds` and `SendsWhatWasAppended`, for any capacity, from
  `PacketInv`: the array holds what was appended up to `m_size`, and the length
  that is submitted is `m_size` until the item is used again.
* `AddressesAreTyped`, `ObjectsTellTheTruth` and `EqualityIsExact`, from
  `AddressInv`, which relates each object to what it was made from. Ports are
  compared as they stand in memory; that two of them are equal only if the ports
  are is `PortsComeBack`.
* `OrderIsConsistent`, for words of any width (`Bits` within `0 .. width`), from
  the same invariant: the highest bit in which two words differ (`HighestBit`)
  decides which of them is less, so that one of them is. Nothing of the kind
  holds of IPv6 addresses, whose hashes may be equal.
* `AdapterIsTyped`, and `AddressIsOfTheInterface`: the address that the adapter
  takes is one that its own interface had at that moment.

*Only model-checked*: liveness (nothing is proved of fairness), that is
`RequestsEnd`, `ServerKeepsAccepting`, `SubmissionsEnd`, `HandlersInTimeAreCalled`
and `StartUpEnds`. Every other property that a run checks is stated by a theorem.

## Not modelled

* `ProbeUringFeatures`: a constant table that is read once, and a system call.
* Value types: enumerations and structures without behaviour.
* `IOSQE_IO_LINK`, which no caller sets, and `m_free_send_ids`, which nothing
  reads.
* Multicast membership and the options of sockets: calls into the kernel that
  leave no state in the program.
* `ReceivedMessage`: a pointer, a size and an address; no operation changes them.
* The destructors of `IOUring`, the pool and the adapter: these objects live until
  the process ends.
* The contents of messages, and the texts that are logged or formatted.
