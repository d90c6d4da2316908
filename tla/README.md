# A TLA+ verification of ImpactSocketSet

ImpactSocketSet is a C++ library of sockets for several platforms: handles on
sockets, a polling pipeline that runs callbacks, a base class for worker
threads, a stream on a socket, and the parsers and codecs of a few RFCs. This
directory holds TLA+ models of the parts of it that keep state and of its
parsers, codecs and paddings, the TLC configurations that check them on small instances, and proofs, checked by
TLAPS, of their main properties for every instance. Paths and line numbers
below are those of the repository; the mapping from each definition to its
lines is in `PROJECT.json`.

## 1. The system and its parts

| Part | State | Operations | Where it is hard | What makes it correct |
| --- | --- | --- | --- | --- |
| `async_pipeline` | two request queues, the vector of handles and the map from socket to object, a counter and two flags, one thread | `add_object`, `remove_object`, `notify`, `granularity`, the worker's passes, the destructor | two mutexes, calls in three steps, callbacks that call back, a vector changed under its own loop | no lost wake-up or request, handles and map agree, each handle called once a pass, sleep only when all are ignored, the destructor ends |
| `worker_thread` | a mutex, a condition variable, a flag, a thread | posting work (by a subclass), the loop, the destructor | a wait whose condition changes without its mutex; a thread older and younger than its subclass | no lost wake-up, no self-deadlock, the destructor ends |
| `basic_socket` | a shared info block per socket, with the descriptor | construct, copy, move, assign, `close`, destroy | reference count tested and used in two steps; the kernel reuses descriptors; assignments that fail half-way | no handle names another socket's descriptor, none leaks, none is closed under a copy |
| `basic_socket` delivery, options | none of its own | bind, connect, send, recv, options | options that take several system calls | - |
| `socketstream` | get and put areas, a hang-up flag, a poll handle | `underflow`, `overflow`, `sync` | short sends, a hang-up together with data, bytes that look like EOF | bytes arrive once and in order |
| `probe` | none | `poll`, `select` | - | - |
| `uri` | the parsed parts and a flag per object, a scheme-port registry (static) shared by all, one error code | construct, parse, move, destroy, register, deregister; observers | a recursive grammar cut by hand, flags that outlive a parse, the end of a map dereferenced | what is printed parses to the same parts; the parts are those of the grammar |
| `utf8`, `base64` | none | encode, decode | truncated and overlong input, padding | decoding inverts encoding and refuses the rest |
| `sha1`, `md5` | a block buffer and a length | digest | padding at block boundaries, a length in two words | what is hashed is the padded message |
| `networking` | none between calls; a list, a socket and a buffer within one | interface listing, a netlink dialogue | links that change under the walk, a call that fails half-way, multi-part answers | nothing stays open, the list and the route are the kernel's, the dialogue ends |
| `generic`, `raw_socket`, errors, types | a once-only flag | helpers around system calls | - | - |
| ABNF parser | - | a separate command-line tool | does not build | - |

How they interact: the pipeline's worker calls `poll` (probe) on raw descriptor
numbers and calls back into user objects, which may call the pipeline again;
`basic_socket` owns the descriptors the pipeline and `socketstream` poll;
`socketstream` keeps a copy of a `basic_socket` and thereby its info block;
`networking` makes a `basic_socket` for each question it asks the kernel and
relies on its destructor when a call throws; the codecs and the URI parser
report through one error code per thread.

## 2. The modules

| Module | Models |
| --- | --- |
| `RequestBatch` | pure: what one batch of add and remove requests does to a registry |
| `AsyncRegistry` | abstract: what `async_pipeline` promises its users |
| `AsyncPipeline` | `async_pipeline`, every operation; implements `AsyncRegistry` |
| `WorkerThread` | `worker_thread`, with the printer of its test as the subclass |
| `BasicSocket` | the life of handles, info blocks and descriptors |
| `ByteChannel` | abstract: what a program expects to read from a stream |
| `SocketStream` | `socketstream`, every operation; its input implements `ByteChannel` |
| `UriText` | pure: classes of characters, the two percent decoders, dot segments |
| `IpLiteral` | pure: the automata for IPv6 and IPvFuture addresses |
| `UriParser` | pure: the parser, from a text to parts, position and error code |
| `UriGrammar` | reference: what a URI is, as the grammar quoted in `test_uri.cpp` says |
| `Uri` | objects, the registry and the error code: every public call that changes them |
| `Utf8`, `Base64` | pure: both directions of each codec |
| `Sha1`, `Md5` | how messages are counted, cut into blocks and padded |
| `Rfc` | the inputs of the pure modules, the reference definitions of the codecs and what is promised of each function |
| `Networking` | the interface listing and the route dialogue on Linux, with the kernel's links and datagrams |
| `VectorLemmas`, `AsyncPipelineProofs`, `WorkerThreadProofs`, `BasicSocketProofs`, `SocketStreamProofs`, `UriProofs`, `RfcProofs`, `NetworkingProofs` | lemmas and proofs |
| `MCAsyncPipeline`, `MCWorkerThread`, `MCBasicSocket`, `MCSocketStream`, `MCUri`, `MCRfc`, `MCNetworking` | instances for TLC |

`Uri` uses `UriParser`, which uses `IpLiteral`, which uses `UriText`; `Rfc`
reads inputs of any kind and size for all the pure modules, and `MCRfc` runs
`Sha1` beside it.

Definitions commented "Faulty variant" are not used by the specifications: each
is the next definition as a plausible bug would have it, and shows that a
property would notice.

### AsyncPipeline

*State.* The variables of the first group are the members of the object, with
their names (without `m_` and the trailing `_`). `work_handles` is the vector:
an ignored handle is stored negated, and descriptor 0, which has no negation,
is one of the sockets of every instance. `worker` is the program counter of
`_M_begin` and `_M_dowork`; `satisfied`, `index`, `ignored` and `error` are the
worker's locals; `errno` is the thread's own. `visited`, `answer` and
`poll_failed` are history, read by properties only.

*Granularity.* `m_thread_mtx_` protects sections that make no call and take no
other lock, so each is one action. `m_work_mtx_` is held through the two loops
that drain the queues: these are the worker states `copy` and `remove`, and a
call that pushes waits in between. A call of `add_object` or `remove_object` is
three steps of the calling thread, as in the code: push (under `m_work_mtx_`),
count (under `m_thread_mtx_`) and signal (`notify_one` after the unlock). Any
other thread can run between them. The wait on the condition variable tests and
blocks in one step, because the mutex is held from the test to the block and
every change of the condition is made under it.

*Callbacks.* A callback runs on the worker with no mutex held. It may make one
call of the pipeline's API (as many as needed to find a deadlock or to change
the queues during a pass), may leave anything in `errno`, and answers
CONTINUE, IGNORE or QUIT freely, so which events `poll` reported does not
matter and is left out.

*Left out.* Sockets below 0 (`add_object` and `remove_object` throw before they
touch anything) and allocation failure.

*The abstraction.* `AsyncRegistry` knows a registry from sockets to objects,
two queues of requests, and the callback that is running. All queued requests
take effect at once, additions in order and then removals, never during a
callback. The refinement maps a drain to the moment the worker takes
`m_work_mtx_`, since callers are locked out until it is over. The order has a
consequence users must know: remove, close, reopen under the same number and
add, all within one batch, leaves the new object unregistered, because the
removal is applied last.

### WorkerThread

`m_thread_mtx_` is a variable here, since the question is what the wait's test
and block are atomic with. The subclass posts either through `_M_locked_run`,
under that mutex (`locked_post` true), or as the test's printer does, under a
mutex of its own (false); which of the two is chosen at the start. The base's constructor starts the thread before the
subclass exists and its destructor stops it after the subclass is gone, so the
virtual `_M_has_work` and `_M_dowork` reach the base's empty versions at both
ends. The model assumes what the test arranges by sleeping, that the object is
not destroyed while the worker is inside the subclass's functions: the code
does not arrange it, and what would follow is undefined.

### BasicSocket

Each object's `m_info_` is an info block, null (`"moved"`) or absent. The kernel
hands out any free descriptor, so a closed one soon names another socket;
`open` remembers for whom each was opened. The destructor, the assignments and
`close()` are a sequence of steps of their thread: test `use_count`, `::close`
(which may fail, and frees the descriptor all the same, as on Linux), forget the
descriptor, then copy, move or drop the info. An object is used by one thread;
copies in other threads share the info, and any of them may call `close()` at
any time. Exceptions end an operation where the
code throws them. `raced` and `crossed` are history: the infos whose last two
copies were given up at once, and whether a `close()` has closed what another
thread's had closed and another socket had been given since (`Crosses`).

### SocketStream

*State.* `put` is the put area up to `pptr()`, `get` what is left of the get
area; `m_hangup_` and `m_timeout_` are the members, `rdstate` the error bits of
the `iostream` the object is. The kernel's side is `incoming` and `outgoing`;
`peer` tells whether the peer may still send, has shut down its side or is gone,
and `closed` that the descriptor was given up by `close()` on some handle of the
socket, which the stream shares. `written`, `lost`, `sent` and `received` are
history. Output bytes are numbered as they are written, so that their order can
be told; input bytes are values, one of them 0xFF.

*Actions.* The library's `std::iostream` is external: it calls the streambuf a
byte at a time and not at all while an error bit is set. `overflow` and `sync`
are one action each, since `send` is their only call. `underflow` is three
steps, test, `poll` and `recv`, because the peer and other handles act while it
waits. What `poll` reports follows from the peer's state, and is anything once
the descriptor is closed, as its number may by then be another connection's.

*The abstraction.* `ByteChannel` has the peer's bytes, those read and a flag.
A byte is received when the program gets it, so the kernel's queue and the get
area are invisible, as are timeouts and the end-of-file a 0xFF is taken for.

### The URI modules

*Texts.* A character is its code and a string a sequence of them, because the
classes of characters, the decoding and the automata are what the properties
are about. A parse is a record that each step of the parser takes and gives on,
with the position, the parts stored so far and the error code: a step that fails
leaves what was stored, as the code does.

*Objects.* `uri` and `has_default` are the members, `usr` the registry,
`imp_errno` the error code. The flag is a member of its own because it outlives
what it was computed for: a parse does not clear it, a parse that fails or of ""
does not compute it, `uri(std::string)` leaves it without a value for "", and the
move assignment keeps the target's (`uri.cpp:65`). Where the code dereferences
the end of a map (line 346) both values of the flag follow. `origin`, `returned`
and `hides` are history.

*Left out.* A move of an object into itself; paths for which the code erases past
the end of a string (`PathNormalize` says which: after ".." at the root the
lengths in `dir` are older than the output, line 283); `hier_part()`, which
prints the path behind "//" a second time, and the `norm_` observers, which no
other operation reads.

*What does not print back.* `RoundTrip` excepts, in `Printable`, the parts whose
text the parser reads as other parts or refuses: an escape that was decoded to a
character no URI may hold; a host with an escaped capital, which is decoded after
the host was lowered ("ws://%41" prints "ws://A", read as "a"); a path whose first
segment is ":" once it is normalized ("ws:/./:/" prints "ws:/:/", refused); and a
relative path that the normalization cut inside of an escape, at a length in
`dir` older than the output ("ws:a/../b%2F/../" prints "ws:b%", refused). The
last three came up when the property was prepared for a proof over all texts.

### Utf8, Base64, Sha1, Md5

The codecs are recursive functions over their input with the state of the code's
loops. In `Rfc` a behaviour chooses a subject, which says what its input is for
and from which pieces it is read, so that an instance gives TLC few pieces and a
proof may take any. A
symbol of base64 is its index in the alphabet. The hash of SHA-1 is the sequence
of all that was given to `process_message_block`, so that its blocks and padding
can be compared with the message; the same goes for the chunks of MD5. `Sha1` is
a state machine, one step per byte, with the width of an unsigned int as a
parameter (`Word`), so that TLC can see the low word of the bit count wrap.

### Networking

*State.* `rest` is where the walk over the list of `getifaddrs` is, `mac` what
the last `ioctl` gave, `found` the result so far; `datagrams` is what the kernel
still has to deliver of a route dump and `buffer` what was received. `allocated`
and `descriptors` say what the call holds. A link is the hardware address it has
or `Absent`; while a list is walked links come, go and change (`Change`).

*Actions.* One per system call, as links change and calls fail between them. A
call that throws goes through `Rethrow` or `Unwind`, which is where the code
frees what it holds. Messages are records of the fields that are looked at, and
the buffer's size is counted in messages.

*Assumed of the kernel.* `MessagesAssumption` and `DumpsAssumption`: but for
errors, the messages of an answer are of a multi-part dump and carry the number
that was sent; no datagram is empty; and the message that ends a dump, which is
no route, has the last datagram to itself (for the others see "Netlink" below).

*Left out.* The Windows and macOS variants; names, flags and formatted addresses
that are only copied; a message larger than what is left of the buffer is cut
off, not torn.

## 3. What TLC checks

| Run | Instance | Shows |
| --- | --- | --- |
| `wakeups` | sockets 0 and 1, one object, two clients, at most 3 queued requests | the request counter equals what is queued less what is still to be counted (`PendingAccounting`, it may be negative for a while); the worker never blocks on a true condition with no notification due (`NoLostWakeup`); no request sits beside a sleeping worker with every caller gone (`NoLostRequest`) |
| `registry` | sockets 0 and 1, two objects, one client, 2 requests | `TypeOK`; vector and map agree (`HandlesMatchInfo`); each pass calls each handle once, through erasures (`EveryHandleOncePerPass`); the worker sleeps exactly when all are ignored (`SleepsIffAllIgnored`); `AsyncPipeline` implements `AsyncRegistry` (`ImplementsRegistry`) |
| `served` | sockets 0 and 1, one client, 2 requests, arguments -1 and 0 of `granularity` | requests are taken up, a `notify` between passes starts one, sockets that did not ask to be ignored are called again, the destructor ends |
| `stale_errno` | sockets 0 and 1, one client, an error code | a finding, see below |
| `worker` | two clients, up to 5 waiting values, subclasses that post under the mutex and without it | locked work loses no wake-up and is served, no self-deadlock, the destructor ends whichever way the subclass posts |
| `sockets` | three threads, one with two objects and two with one, two descriptors, two infos; states after two `close()` have crossed are not explored further (`WithinBounds`), and the threads with one object are swapped by symmetry | `TypeOK`; until two `close()` cross, no handle names another socket's descriptor (`NamesOwnDescriptor`); none leaks but where two threads give up the last two copies at once; a copy that is dropped never closes the descriptor under another |
| `stream` | buffer of 3 (a put area of 2), 6 bytes written in sends that fail or are short, or 4 bytes sent, 0xFF among them; timeouts -5, 0 and 1; interrupts | `TypeOK`; each byte written is sent once and in order, waits, or was lost in one of three places (`AccountedFor`); the input implements `ByteChannel` (`ReadsChannel`); a program that goes on reading gets everything (`EverythingArrives`) |
| `stream_reliable` | buffer of 3, short of those | a finding, see below |
| `uri` | two objects, fifteen texts of three schemes (one with a permanent port, one permanent without, one unregistered), one port to register | what is printed parses to the same parts at any later time (`RoundTrip`); of an object that a text was parsed into a port is left out if and only if it is the permanent one, and after an assignment between different flags exactly the other way round (`OmitsExactlyPermanent`); the error code tells what a call returned (`ErrnoTells`) |
| `uri_registry` | the same | a finding, see below |
| `rfc` | all inputs of a few pieces per subject, listed in `MCSubjects` of `MCRfc`; messages of up to 130 and 140 bytes | percent decoding keeps what a text means (`DecodingKeepsMeaning`); dot segments go as a stack of directories would have them go (`DotSegmentsRemoved`); addresses and URIs are accepted and cut as the grammar says (`Ipv6AsSpecified`, `UriAsSpecified`); both directions of the codecs agree with each other and with their definitions (`Utf8AsSpecified`, `Base64AsSpecified`); what is hashed is the padded message, with all its bits counted (`Md5PaddedAsSpecified`, `PaddedAsSpecified`, `CountsEveryBit`) |
| `networking` | a link with two addresses and one without, two hardware addresses; dumps of up to three routes of five kinds in up to three datagrams; a buffer of three messages | a call that ended holds nothing (`NothingHeld`); a list has the listed addresses, with hardware addresses their links had (`ListIsExact`); a route is the first to 0.0.0.0 of the main table in the whole dump (`RouteIsDefault`); calls end (`CallsEnd`) |

*Why the bounds suffice.* Two sockets, one of them 0, are all the cases that
IGNORE tells apart, and let QUIT erase a handle with another before it or behind
it; for more than two the proofs of section 4 speak. Two clients and the worker's own calls give three
callers, two of which can be at any two steps of a call while the third makes a
request. Three queued requests are an add, a re-add or a remove of one socket
next to another's. The printer posts to itself only when two values are left
after it took two, which five waiting values allow with one to spare. Two
descriptors and four objects make it possible to close one, see it reused, and
still hold handles on the old one in two threads, while the third thread opens the
new one; so two `close()` can cross, over a socket of either of the two or of the
third. Past that step `NamesOwnDescriptor` claims nothing, and the other properties rest on their
proofs. An instance all of whose infos have leaked is not explored either: no
socket can be made there, while a program has as many infos as it has memory. Six bytes fill a put area of two, overflow
it and fill it again, with a send that leaves one behind; four incoming bytes
exceed the three that `recv` takes, so that a second `recv` follows a get area
that was read to its end. (The code's smallest buffer is 256; nothing in it
depends on more than full, empty and in between.) A behaviour of `stream` either
writes or is sent to, since the two directions share only flags. The texts of
`uri` have each kind of host, port, user info, path, query and fragment that the
flag or the printing tells apart, texts that are refused after some parts were
stored, and "". In `rfc` the alphabets have a member of each class of characters
that a parser tells apart and the lengths reach one past each limit it counts
to: eight groups and an IPv4 address after six, four trailers after a head of
three, two quadruples; messages go past two blocks of 64, and the word that
counts their bits holds 128, so that it wraps seven times and a size of 128 or more is cut. `DotSegmentsRemoved`
sees nine characters, three directories with their dots. Three routes put
something before and behind a default and cross a datagram's end in every way;
a fourth message, the end of the dump, is one more than the buffer takes.
`MaxQueue` and `MaxWork` only stop callers
from posting more; they disable nothing of the worker's.

*Fairness.* Each thread that can take a step is scheduled (weak fairness of the
worker's steps and of each call once begun). `poll` returns because its timeout
is not negative: that is what `granularity` sees to, and the fairness is written
with this condition, so that a negative timeout would break the liveness
properties. Callbacks return, which the pipeline requires of its users. Nothing
is assumed of spurious wake-ups, of who calls, or of the destructor being
called. In `WorkerThread` a mutex that is free again and again is obtained by a
thread that waits for it (strong fairness of three actions); `std::mutex` does
not promise this, the schedulers it runs on do.
`Networking` runs its thread; that a `recv` returns is assumed only while the
kernel has a datagram to deliver, and its failures are not assumed at all.
In `SocketStream` the program is the one that `EverythingArrives` speaks of: it
reads again and again between its other calls and clears the error bits. `poll`
returns what there is, and is interrupted again and again but not for ever
(strong fairness of its answer); `recv` after it returns.

*Limits that the properties carry.* `NotifyServed` speaks of a `notify()`
between passes: one made while a pass is running, after the callbacks it was
meant for, is overwritten at the end of the pass (line 205) if they all answered
IGNORE. Requests that are queued when the destructor begins are dropped.
`NothingLeaks` excepts the infos in `raced`: two threads that drop the last two
copies at once both read a `use_count` of 2 (`basic_socket.cpp:48`), and neither
closes. `NamesOwnDescriptor` is claimed until `crossed`: two threads in `close()`
can free a descriptor twice (line 143) before the first forgets it (line 144),
the second time under another socket, whose handles then name a descriptor that
may be anybody's. That step is the only way to it. `WorkServed` needs `locked_post`:
the printer can push between the worker's test and its block, and its value
waits for the next notification. Nothing in the repository promises otherwise
in these cases, so they are described here and not counted as findings.
The same goes for a short `send`, whose remainder `_M_write_base` drops
(`socketstream.cpp:135`), for the destructor, which does not flush (line 31),
and for a byte 0xFF at the head of a `recv`, which reads as an end of file first
and comes out after `clear()` (line 106). `EverythingArrives` excepts a peer that
is gone, a socket that was closed and a destroyed stream: `underflow` looks at
HANGUP before IN (line 93), so bytes that arrived before the peer left are never
read.

*Findings.* `_M_update_handles` takes `errno` for the result of `poll`
(`async_pipeline.cpp:155`) whether or not `poll` failed; success does not clear
it. So a callback can be handed an error of an earlier pass, or one that another
callback's system call left. `probe.cpp:93` says that only a status of -1 is an
error, and the object of the pipeline's test (`test_async_pipeline.cpp:143`)
answers QUIT to any error, so a stale one unregisters a healthy socket.

`types.h:123` calls stream sockets, the only ones a `socketstream` takes,
"sequenced, reliable, two-way". One behaviour breaks this on the stream's side.
A byte that meets a full put area makes `overflow` send the area; the byte
itself is in no buffer then, and it is not stored afterwards, but `overflow`
reports that it was written (`socketstream.cpp:134`; run `stream_reliable`).

`register_scheme_port` refuses a scheme that is not in the table of permanent
schemes and stores a port for one that is (`uri.cpp:466`): the test is inverted
against `errno.h:40`, "Scheme already reserved (permanent scheme)" (run
`uri_registry`). What is stored is never used, as the permanent table is looked
up first; that is why `OmitsExactlyPermanent` holds whatever is registered.

*Deviations that properties except.* Each is named at the property that excepts
it. None is counted as a finding, as no line of the repository promises
otherwise for just that case.

- *Error codes.* A badly encoded part is reported as `URI_PORT_SYM`
  (`uri.cpp:414`, 424, 449), a port's error; a user info that is badly encoded,
  or has a bracket ("//[::]@h"), returns false with the error code `SUCCESS`, as
  the decoding of the host is reported last (lines 834 to 839). `BadUserinfo`
  says which texts these are.
- *Objects.* After a move assignment `str()` may print a default port or leave
  out one that is not (lines 65 to 77). `origin` says "stale" of these objects, and
  `OmitsExactlyPermanent` and `RoundTrip` then claim what they claim of the opposite
  flag: of an assigned object it is known which port is left out, and that it is
  the wrong one. Nothing is claimed of an object that a refused or an empty text
  or a move left, which keeps the flag of an earlier text, nor of an explicit port with an
  unregistered scheme, whose flag is read at the end of a map (line 346).
- *Grammar.* Refused: octets from 150 to 155, six groups before an IPv4 address
  (lines 1207 and 1208), empty path segments that are not the last, ports of more than nine
  digits. Accepted: a leading zero in octets of two digits, one group too many
  around "::", any characters in a fragment, and text between "@" and an address
  literal or after one. White space disappears from every part (line 406), and what
  follows the last part is not looked at.
- *Paths.* Segments that end in a dot or are three dots are taken for dot
  segments ("a../b", "a./b") or lose their slash ("..."); a path that normalises to
  ":/" and more does not parse again.
- *Codecs.* UTF-8 that is cut short, overlong, a surrogate or above 0x10FFFF is
  decoded; "=" is skipped anywhere in base64, so "QQ=Q" decodes; empty data
  returns true and leaves the result as it was. SHA-1 hashes a message of 4 GiB
  or more by the remainder of its size (`sha1.cpp:32`), and nothing returns
  `INPUT_TOO_LONG`.
- *Netlink.* The reader is told to wait for the number after the one that was
  sent (`networking.cpp:619`), so that only the end of the dump ends it; that is
  what makes multi-part dumps come out whole, and the mutant with the right
  number breaks `RouteIsDefault`. It looks at the first message of each datagram only: an end of the
  dump behind other messages is not seen, and the next `recv` waits for ever
  (line 712). A full buffer makes the next `recv` ask for nothing and report a
  corrupt message. The walk stops at the first message of another table (line
  651), so that a default behind one is missed, and does not look at a prefix's length, so 0.0.0.0/1 passes for the
  default. `RouteIsDefault` says both: any route to 0.0.0.0 counts, and "no route" may be
  returned where each of them is behind another table's.
- *Interfaces.* One link that disappears fails the whole list; one whose name was
  given to another link yields that link's address.

## 4. What is proved

The proofs hold for any sets of sockets, objects, clients, threads,
descriptors, texts and schemes, any sizes of messages and any bound; they assume what the modules' ASSUMEs say (the
clients are finitely many and not the worker, names that stand for nothing are
not names of something) and nothing of fairness.

`AsyncPipelineProofs`
- `TypeCorrect`. The strengthening `LocalsInScope` says where the worker's
  locals have their initial values; without it `index` could fall off a vector
  that the drain shortens.
- `AccountingCorrect` (`PendingAccounting`), inductive with the types. The
  lemma `CountOfCall` says how the number of threads at a step changes as one
  thread moves.
- `WakeupCorrect` (`NoLostWakeup`), inductive with the types: a flag or the
  counter is raised only together with a thread's step to "signal".
- `NoRequestLost` follows from the two: a request beside a sleeping worker makes
  the counter positive, or its caller has not counted yet.
- `HandlesCorrect` (`HandlesMatchInfo`), by way of its pointwise form
  `MatchPointwise`, which erasing (`RemoveAtProperties` of `VectorLemmas`),
  appending and negating are shown to keep.
- `WalkCorrect` (`EveryHandleOncePerPass`). The invariant `VisitedExactly` says
  that the sockets called in a pass and still registered are those at the positions before
  `index`; an erasure moves the rest up by one and leaves `index` alone.
- `SleepCorrect` (`SleepsIffAllIgnored`). The worker counts as it walks, so the
  invariant `IgnoredCounted` says what it has counted so far: the negated handles
  before `index`. At the end of the vector these are all of it only if each is
  negated (`CountAtEnd`).
- `RegistryImplemented` (`ImplementsRegistry`). Every step of the pipeline is a
  request, a batch, a call or a return of `AsyncRegistry`, or a stutter. The batch
  takes effect where the worker takes `m_work_mtx_`; from there on the abstract
  registry is what the rest of the drain will make of `m_info_`, so a step of the
  drain must leave that as it is. `TakeAddFirst` and `TakeRemoveFirst` say that it
  does: doing the first request of a batch and then the others makes the same.
  Of several additions of one socket the last wins, and there is a last one
  (`GreatestOf`).

`WorkerThreadProofs`
- `TypeCorrect` (`TypeOK`).
- `MutexCorrect`: the owner of the mutex is exactly the thread that the program
  counters name (`MutexInv`).
- `WakeupCorrect` (`NoLostWork`): with `MutexInv`, what the worker tested is still
  false when it blocks (`BlockInv`).

`BasicSocketProofs`
- `TypeCorrect`, and `LastCloses` (`ClosedByTheLast`): from the test of `use_count` to the end of
  the close nobody can copy, since a copy is made by the thread of its source
  and that thread is busy (`LastInv`).
- `NamesCorrect` (`NamesOwnDescriptor`): a descriptor is given to another socket
  only after it was closed, and whoever closed it has then still to forget it
  (`Closing`) or has done so. A second close in between is either of a descriptor that is
  free, and changes nothing, or crosses the first.
- `LeaksCorrect` (`NothingLeaks`), with its exception of `raced`: while one thread
  forgets a handle without closing (`FinishInv`), another handle on the same info is
  kept by nobody's forgetting it, or the two are on record.

`SocketStreamProofs`
- `Accounted` (`AccountedFor`), inductive with the types (`OutputInv`). The
  numbers sent and waiting increase, so a prefix of them does, and what an
  emptied put area leaves out is counted as lost (`PrefixOfIncreasing`,
  `EmptyingKeepsOutputInv`).
- `TypeCorrect`, and `ImplementsChannel` (`ReadsChannel`). The invariant behind
  it, `InputInv`: what was read, what is in the get area and what the kernel
  has make up, in this order, what was sent, and the get area is empty whenever
  `underflow` is past its test. A step that reads is then the channel's, and
  each other step a stutter, a send or a hang-up (`StepsAreChannelSteps`).

`UriProofs`
- `OmitsExactlyCorrect` (`OmitsExactlyPermanent`). A parse that succeeds computes
  the flag from the table of permanent schemes, which no registration changes
  (`PostParseFlagFits`), and an assignment leaves it or its opposite (`Kept`); the proof needs
  that a parse yields a record with the fields of a `uri` whatever the text is,
  which is followed through every step of the parser.
- `ErrorsAreTold` (`ErrnoTells`), for texts of any length. A parse that goes on
  has the code `SUCCESS` (`Going`), and each part keeps this or fails with another
  code (`Told`). The parse of a host may overwrite the code of a user info that
  was refused; the proof follows the place of that user info from the end of
  the scheme (`AfterColon`, `AuthorityAt`) to show that it has a bracket or an
  escape that is not one, so that these are all the texts `BadUserinfo` excepts. That
  the percent decoder refuses nothing else is an induction over its loop
  (`FollowsNext`, `DecodingFails`).
- `RoundTripCorrect` (`RoundTrip`), for texts of any length and with the
  exceptions of `Printable`. The invariant is that an object which a text was
  parsed into is `Canonical`, and that one it was moved to keeps this with its
  flag or, where that is stale, with the opposite one (`Kept`): its scheme is in lower case; its decoded parts decode to
  themselves (`DecodedIsDecoded`: what the decoder leaves escaped it escapes in
  the same way again); no slash of its path follows a dot or a slash
  (`NormalizedPath`), and such a path is normalized already (`NormalizedStays`);
  its host is a literal that is accepted in small letters too (`LiteralAlike`), or has
  no delimiter; and its port is the permanent one, missing, or a number of at
  most nine digits. That a text leaves such parts follows each step of the
  parser (`ParseUriMakes`, `PostParseCanonical`). In the other direction,
  `str()` prints the parts one behind the other (`StrIs`), and the parser is shown
  to stop where each was put (`RestEnds`): the scheme at its ":", the authority,
  whose "@", brackets and last ":" are those that were printed (`CutMarked`), the
  path, which has no segment that is refused (`SegmentsStand`), the query and the
  fragment. What it stores are the printed parts (`ParseAgain`), and the steps
  after the parse leave them as they are (`PostParseAgain`).

`RfcProofs`
- `Md5PaddingCorrect` (`Md5PaddedAsSpecified`), for messages of any length: chunks
  of equal size, joined, hold at each place what was cut there (`FlattenParts`,
  `ChunksFlatten`), and the eight octets that are shifted out of the count of bits
  are its octets (`TrailerIs`).
- `Base64Correct` (`Base64AsSpecified`), for any bytes and any characters. A
  register of 24 bits, its four symbols and its three bytes determine one another
  (`SymbolsOf`, `OfSymbols`, `BytesOf`, `OfBytes`). The loop of the decoder keeps that
  of every four symbols it has read there are three bytes, that the register has
  the symbols that are left, and that the padding counts the "=" among the last
  two places (`StateAfter`, `StateNext`). So at its end the state holds the text
  without its "=", wherever they stood (`RunDecoded`); an encoding leaves the symbols
  it was made of (`UnpaddedIs`), which determine the bytes (`DecodesBack`); and where
  the padding fits, encoding what was decoded gives these symbols again, but
  for the bits of the last that are in no byte (`EndBytes`, `DecodesToEncoding`).
- `Utf8Correct` (`Utf8AsSpecified`), for symbols and bytes of any length. The bytes
  are taken one at a time (`AppendInduction`). After each, the state is one of two
  (`AfterBytes`): accepted, with every character before the last as long as its
  head says and `state` counting what the last one lacks; or refused, with the
  error of the first character that does not fit. For a single character,
  decoding what was encoded and encoding what was decoded are arithmetic over its
  two, three or four bytes (`RoundTripHolds`, `AllowedEncodes`); joining the
  characters of a text carries both to the whole of it (`FlattenAppend`).
- `DecodingCorrect` (`DecodingKeepsMeaning`), for texts of any length. After each
  character (`ReachedNext`) the decoder is between escapes, after a "%", after
  its first digit, or has refused a digit that is none (`Reached`). Between
  escapes, what it put out decodes once more to the meaning of what it read and has
  the same delimiters (`DecodesAs`); a character and a whole escape keep this
  (`CharacterDecodes`, `EscapeDecodes`), as what stays escaped is every delimiter and
  "%", with the upper-case digits that the second decoder counts on. What a text with
  whole escapes means does not depend on what follows it (`MeaningOfStart`).
- `DotSegmentsCorrect` (`DotSegmentsRemoved`), for paths of any length. After each
  character (`Walked`) the output, followed by the dots that are kept back, is the
  stack of directories, each behind a slash, and the segment that is not finished;
  `dir` has the length of the output at which each directory began (`Marks`). So a
  slash after two dots erases to the mark below the last, which is where the stack
  without its last directory ends and never past the output's end (`UpOneIs`);
  and as a finished segment ends in a dot only if it is one or two dots, nothing
  that stands before the kept dots is taken for a directory (`UsualIs`).
- `Sha1PaddingCorrect` (`PaddedAsSpecified`) and `Sha1CountCorrect`
  (`CountsEveryBit`), for messages of any size and an unsigned int of any width that
  is a multiple of eight. The invariant: what was hashed followed by the block is
  the message, what is left and what was read add up to the size as it was
  cut, and the high word times the width plus the low word is eight times the
  bytes read. As these are fewer than the width, the high word stays below eight
  and never wraps.

`NetworkingProofs`
- `CallsHoldNothing` (`NothingHeld`): `HeldInv` says at each step of a call what
  it holds, the steps of unwinding included.
- `ListsAreExact` (`ListIsExact`), for any links, while they come, go and change:
  at each step of the walk `found` has the addresses of the entries before
  `rest`, in their order, with hardware addresses that their links had (`ListInv`).
- `RoutesAreDefault` (`RouteIsDefault`), for any dump in any datagrams and a buffer
  of any size: what is in the buffer is, unless it is full, the first datagrams
  joined, and the kernel has the others (`RouteInv`, `FlattenJoins`); the
  walk then looks at the whole dump, and what it stops at is in it (`DefaultFound`). It uses the assumptions on dumps named in
  section 2.

`VectorLemmas` holds what the others need of sequences, and induction. The
library's induction theorems take an operator, which the provers cannot
instantiate; with a set in its place (`SetInduction`) induction is a fact about
sets that follows from the least element of one. From it come the existence of
the function that `FlattenSeq` chooses (`FlattenIsJoin`) and of the values that a
loop goes through (`IterationExists`).

Only model-checked: `UriAsSpecified` and `Ipv6AsSpecified`, which compare two
ways to cut a text (by folds and selections of the library, for which the provers
have no rules) and are claimed for the texts of the runs only, and liveness,
which is out of the provers' reach.

## 5. Not modelled, and the plan

Left to do: `Descriptors`, the composition of `BasicSocket` with
`AsyncPipeline` and `SocketStream`. Both keep descriptor numbers beyond the life of the
handle they took them from, so after a close without `remove_object` a callback
can get the events of another socket. The interest is in the pairs of a close
and a pass; nothing in the repository says who has to prevent them.

Out of scope, with the reason:

- `probe`: `poll` is a step of `AsyncPipeline` and `SocketStream`. `select`,
  which nothing calls, is one system call over sets it builds and keeps nothing.
- `generic`: calls that fill a structure or wrap one system call, and a flag that
  is set once. `fill_address` does not free its result when it throws
  "Unsupported domain"; that is visible in one path of one function.
- `raw_socket`: a name is set and a system call made.
- Delivery and options of `basic_socket`: `accept` makes a handle as
  `make_socket` of `BasicSocket` does; the others are single system calls, and the
  two options that take several stop at the first that fails.
- Errors and types: tables of messages and numbers.
- The ABNF parser: a prototype that includes a header the repository does not
  have (`generator.h`).
- The Windows and macOS variants, the arithmetic of the digests' rounds, and the
  observers of `uri` that no other operation reads.
