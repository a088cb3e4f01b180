# tdxhq: a verification development in TLA+

tdxhq is a Windows DLL (`TDXHQ.dll`) that talks to the quotation servers of
Tongdaxin, and a test program (`HQTEST.exe`) that polls bars of watched stocks
once a minute with twenty threads, stores them in SQLite files and publishes to
redis. This directory models that program in TLA+, checks it with TLC on small
instances and proves its central properties with TLAPS.

## Inventory

| Part | State | Operations | Interacts with |
|---|---|---|---|
| Connection table, `TDXHQ/TDXHQ.cpp` 15-149 | `nIP`, `nCurentIP`, `IPS[100]`, `nConnectID`, `skHQ[1000]`, `pmtx` | `TDXHQ_Init`, `TDXHQ_Connect`, `TDXHQ_DisConnect` | called by all threads; sockets; servers |
| Transport, `TDXHQ.cpp` 258-421 | the byte stream of one socket, `wZipedSize`, `bfRecvedBody`, `szResult` | `TDXHQ_GetSecurityBars`: send, recv head, loop over the body, unpack | one thread per connection; the server |
| Request and decoder, `TDXHQ.cpp` 151-281, 348-405 | read position in the unpacked body, the last close | the request's fields, `getPrice`, `GetVolume`, dates, rows | called by the transport |
| `CByteBuffer`, `TDXHQ/ByteBuffer.h` | storage, read and write position | `append`, `read`, `rpos`, `wpos`, `resize`, `put`, `Erase`, ... | used by the transport |
| Stock partition, `HQTESTDlg.cpp` 139-178 | `stockcode[3000]`, `m_istock`, `pquo[20]`, per thread `m_stockcode[400]` | load, create threads | MySQL; threads |
| Dialog and timer, `HQTESTDlg.cpp` | `preMin`, the timer | `OnInitDialog`, `OnTimer`, `IsTraderTime` | sets each thread's `g_bGetQuotation` |
| Quotation thread, `Quotation.cpp` | `g_bGetQuotation`, `conID`, loop counter | `InitInstance`, `Run` | connection table, transport, SQLite, redis |
| Redis client, `redisclient.h`, `anet*.c` | `connections_`: sockets and their databases | constructors, `clone()`, about 100 commands, composite operations over several servers | redis servers; the threads |
| `CConfig`, `CHQTESTApp` | settings read once | start-up | - |
| `TdxHq_GetSecurityQuotes`, `TDXHQ.cpp` 478-649 | - | a copy of the transport | not compilable as committed |

What is hard: twenty threads share the table under one mutex held across a
blocking `connect()`; replies arrive in arbitrary pieces on streams that are
reused after errors and exceptions; prices are chained differences, so that one
byte too few falsifies everything behind it; the dialog's timer, the threads'
flags and the rounds interleave freely; operations of the redis client that take
several commands on several servers can be cut off between any two of them;
several failures (a reset, a redis exception, a missing ini file) end the whole
process; error codes are ignored by the caller.

What makes each part correct: an id belongs to one caller and denotes its
connection; a result belongs to its request; rows are the bars the server holds;
every call returns; every stock is polled by exactly one thread and fits its
buffer; every minute of trading is triggered, a trigger leads to a round and a
round to stored bars; the DLL is not entered before it is initialised; a redis
call reads its own replies and all of them; a value that is renamed, moved or
combined is never lost.

## Modules

The DLL:

* `TdxConnPool` - the connection table. One variable per global (`IPS` is
  represented by its indices, a socket by the state the system keeps for it) plus
  each caller's `conID`. `TDXHQ_Connect` is two steps, because `connect()` blocks:
  `ConnectEnter` (lock, scan for an INVALID slot, `socket()`, rotate the address)
  and `ConnectOK`/`ConnectFail` (result, unlock). `dials` is a history variable.
  A thread disconnects only the id it holds and then forgets it.
* `ConnLease` - what callers rely on: an id is an exclusive lease.
  `TdxConnPool!ImplementsLease` is the refinement; a caller's lease is its
  non-negative `conID`.
* `TdxFetch` - the transport of one connection. Bytes are offsets: reply `k` ends
  at `endOf[k]`, the client has taken `rpos` bytes. A head read where a reply
  starts holds that reply's length, elsewhere an arbitrary one. `recv()` returns
  any non-empty part of what is there; the server may close (also in the middle
  of a reply) or reset at any time. `short` records that some head was cut.
* `BarCodec` - the bytes of the request, what a server makes of them, and the loop
  over the unpacked body, byte by byte. The server is external: its encoder is the
  inverse the decoder asks for. The body may have been unpacked up to any byte,
  because the result of `uncompress()` is not looked at. A row is the record of its
  values; their formatting is left out. An amount is the bits of a float, and
  `GetVolume`'s double a whole number of units of a power of two.
* `ByteBuffer`, `ByteLog` - `CByteBuffer` with all its operations, and the log with
  a cursor that its users rely on. A value of type T is its `sizeof(T)` bytes, so
  `<<` and `>>` are chunks. The refinement holds until `wpos(n)` is called.

The program:

* `StockPartition` - loading the watched stocks and slicing them over the threads.
* `TradingClock` - `OnTimer` and `IsTraderTime` to the second over several days.
  The clock is read twice per message, and messages come late.
* `Dialog` - the thread of the dialog: `StockPartition` and, once `OnInitDialog` has
  set the timer, `TradingClock`. A trigger needs every `pquo[]`; where one was never
  set the behaviour ends, and what then happens is `QuoteHost`'s matter.
* `QuoteHost` - the dialog, the timer and the threads, extending `TdxConnPool`
  (the threads are its clients), with abstract minutes. `OnInitDialog` can end at
  each of its steps: MySQL cannot be reached (`MysqlFails`), there is no result or it
  has more rows than `stockcode` (`LoadDies`), the redis client that a `CQuotation`
  constructs throws (`ConstructorThrows`). With no stocks the last thread is never
  created; the first trigger then writes through a pointer nobody set, and either
  nothing is noticed (`OnTimer`) or the process dies (`OnTimerDies`). A call of the
  transport is one step with the outcomes `TdxFetch` shows: rows, no rows, an error
  code, an error that puts the connection out of step (`skew`), after which anything
  may happen, or death. `stored` is the minute of the bars in each table of each
  stock. Rows may fail to be stored, as `sqlite3_exec`'s result is only traced;
  `missed` records the tables a round left as they were. `seen`, `missed`, `trig`
  and `blame` are history variables.

The redis client, from the bytes up:

* `RedisReply` - the kinds of reply and, per receive function, the result each one
  has: a value, an exception, or an exception with a part of the reply unread.
* `RedisReader` - the receive functions `recv()` by `recv()`: `read_line` peeks and
  then takes, `read_n` collects a block. It is checked against `RedisReply`.
* `RedisCommands`, `RedisClient` - every compiled method as the commands it sends
  and the receive functions it reads with; pipelines, fan-outs over servers,
  transactions with `MULTI` and `WATCH`, both forms of `select()`. A receive
  function is one step, as `RedisReader` justifies. Callers catch exceptions and go
  on with the same client.
* `RedisRename` - `rename()` and `renamenx()` of a handle on one server or across
  two: copy element by element, then delete, with failures before and after each
  command. Other clients set, delete and extend values (SET, DEL, RPUSH, SADD) under
  any name at any time, the names of the call included. `touched` and `raced` record
  what they wrote under those.
* `RedisSMove` - `smove()` across servers by any number of clients.
* `RedisSetStore` - `sinterstore()`, `sunionstore()` across servers.
* `RedisConnect` - constructors, `clone()`, `select()` and the destructor with the
  sockets they open.

In `RedisRename` and `RedisSetStore` a caller whose call threw repeats the same
call or gives up; these are the uses for which the code can promise anything.

`*_proofs` hold theorems with TLAPS proofs, `MC*` the instances for TLC.
`QuoteHost_proofs` is about the connection table and the program composed with it,
`Dialog_proofs` about `StockPartition`, `TradingClock` and `Dialog`,
`TdxBytes_proofs` about `ByteBuffer` and `BarCodec`, `RedisRename_proofs` about the
commands that span servers (`RedisRename`, `RedisSetStore`, `RedisSMove`), every other
one about the module it is named after.
Definitions whose comment begins with "Mutant" are deliberately wrong variants of
the definition they precede. No specification uses them; each is substituted to
see that a property notices.

## Runs

| Run | Question | Bounds |
|---|---|---|
| `pool` | Is an id an exclusive lease, is every connection held, is the rotation even, is exhaustion final? | 3 threads, 4 slots, 4 addresses, ini files of 0 to 5 lines or none, 3 dials per address |
| `fetch` | Do results belong to requests, what is fatal, is a drop final, does every call return? | head 2, bodies 1 and 3, garbage lengths 0, 2, 5, 4 calls |
| `fetch_desync` | Finding: does every OK result belong to its request? | the same, 3 calls |
| `bar_codec` | Are the rows the bars asked for, which amounts are wrong, does the loop end behind the last byte, does it stay inside the body? | histories of up to 3 of 7 bars, both date forms, counts 1 to 3, starts 0 and 1, every prefix unpacked |
| `bar_start` | Finding: does the range begin at Start? | the same |
| `buffer` | Where does append write, whence come foreign bytes, is it a log? | length 4, positions up to 5, 2 byte values |
| `dialog` | Is every stock given once, do the slices fit, is every minute of trading triggered, when is the last trigger of a session? | 4 threads, a table of 15, slices of 6, row counts around every boundary; 9 days from each weekday, seven start times, messages 1 and 28 seconds apart |
| `host` | Are stored bars as new as the round, which triggers survive, is the DLL entered too early, what kills the process, what does a dropped thread do, does every round end? | 2 threads, watch lists of 0 to 3 rows for a `stockcode` of 2, 3 slots, 3 minutes, hour of 2 minutes, 1 failure to store per round |
| `redis_reader` | Does each receive function consume one reply, return what it should, and end? | a buffer of 3, every receive function with every kind of reply, then one more call |
| `redis_client` | Do calls read their own replies, tell the truth, keep the database right, and return? | 2 servers, 3 keys, 4 workloads of 1 to 3 calls |
| `redis_rename` | When is a renamed value lost, doubled or taken for another's? | 3 names on 2 servers, strings, lists, sets and hashes of up to 3 elements, 3 writes of other clients |
| `redis_connect` | Are sockets owned once, closed, and in the recorded database? | 2 threads, 3 sockets, 3 servers of which 1 is protected |

Why the bounds are enough. In the pool, four slots and three threads allow full
tables made of leaked, connected and lost sockets in every mixture, and three
dials per address two wrap-arounds of the rotation. In the transport a head of two
bytes can be cut, bodies can be split, and four calls allow a cut head, a misread
one, an accidental realignment and a call after it; larger replies only add ways
to split. The bars of `bar_codec` need one to three bytes per price, have negative
differences and amounts on both sides of `GetVolume`'s branches, and three of them
chain twice; some amounts are in the range that is misread and some next to it. In the
buffer, four bytes allow reads, gaps and erasures behind, at
and before the read position. In the host three minutes allow a round, a trigger
during it and a later round; an hour of two minutes lets a missed tick alias with
an old one; the watch lists are empty, leave a thread without stocks, fill the table
and overrun it. In the dialog the sizes of the code (20, 3000 and 400) are scaled so
that the table divides with a rest and without; the theorems cover the sizes of the
code. Nine days cross a weekend from every start; gaps of up to 28 seconds
put a message in every minute, which `EveryMinute` presupposes by speaking of
messages only. A buffer of three lets `read_line` need several peeks, end exactly
at the buffer's end, and see bytes of the next reply. Two servers and three keys
give a pipeline that alternates between servers; a second call meets whatever the
first left behind. A list of three elements, two of them equal, can be cut off in its
middle; three writes of others let one of them take the old name, the new one, and
one of them again.

Deadlock is not checked where the program stops by itself: after a fault, or at
the bounds on dials, calls, minutes and lengths. `redis_rename` and
`redis_connect` can go on at their bounds and are checked for deadlock.

Symmetry under permutations of the threads is used in `pool` only, which checks
invariants, an action property and a safety refinement.

## Fairness

* `fetch`: weak fairness of the client's steps and of the server's answer while the
  connection is up; a server that neither answers nor closes blocks `recv()` for
  ever, as there is no timeout in the code.
* `host`: weak fairness of every thread. As a call of the DLL or of redis is one step,
  this includes that a quotation server with an open connection and the redis server
  answer; neither `recv()` has a timeout, and one that never answers would hold its
  thread for ever. The clock, the timer and mishaps need not
  happen. Servers accept on all entries the rotation reaches but the unfilled last
  one, and the table has room for the sockets this leaks; without that the loop in
  `Run` may go on for ever (`ExhaustionIsFinal`). Strong fairness of the mutex is
  not needed: a thread with a connection calls no more.
* `redis_reader`: weak fairness of the client's steps and of the arrival of bytes
  that were sent.
* `redis_client`: weak fairness of the client, of the servers' answers, and of a
  server's close after it was told to shut down. A BLPOP or BRPOP without time limit
  (`timeout_seconds` is 0, the default of `blpop`) is exempt (`Unlimited`): it is
  answered when some client pushes an element, which nothing guarantees.

## What is proved

Each result is of the form `Spec => []Inv` or `Spec => Property`, for all values of
the constants that satisfy the module's assumption. Where the property is not
inductive, the proof module states the invariant that is; TLC has checked each of
these on the instance of the run before it was proved.

The connection table (`PoolAssumption`: any threads, slots, addresses and ini lines):
`TypeCorrect`, `OwnersAreUnique`, `ConnectionsAreHeld`, `RotationIsEven`,
`AddressesInTable`, `ExhaustionTheorem` and the refinement `PoolImplementsLease`.
`PoolInv` adds to the properties that the owner of the lock is exactly the thread
inside `connect()` and that its slot is still the one `nConnectID` names (`LockInv`):
the id is read from the global after the call, so exclusiveness of ids rests on it.
`RotationInv` says that entries up to `nCurentIP` were dialled once more than the
others.

The program around it (`HostAssumption`: any threads, stocks and minutes):
`HostKeepsOwnership`, `RoundsAreFresh`, `IdleTriggersServed`, `NoEarlyCall`,
`FaultsHaveCauses`, `DroppedThreadsAreSilent`. `HostInv` keeps `PoolInv`, because a
step of the host is a step of the table or leaves it alone, and adds what the order
of `OnInitDialog` guarantees (`StartUpInv`), that a thread without a flag has begun a
round since the last trigger that found it idle (`TriggerInv`), that the counter of a
round stays within the slice the thread was given, with watch lists of any length
(`SliceInv`), and that every table a round has passed is as new as the round or was
missed by its own call (`Settled`, `FreshInv`), which stays so while the thread is
idle (`IdleFresh`). The threads may be any number, also when some have no stocks.

The transport (`FetchAssumption`: any head length, body lengths and number of calls):
`FetchTypeCorrect`, `InSyncResultTheorem`, `LoopCanEndTheorem`, `FaultTheorem`,
`ErrorTheorem`, `DropTheorem`. `FetchInv` says that replies lie one behind the other
and that, until a head is cut, the stream is empty between calls, at the start of the
current reply while its head is awaited, and `got` bytes into its body in the loop.
`DropTheorem` has its own invariant (`DownSince`): a connection that is down between
calls has nothing left to read, so that no later call gets to a body.

The buffer (`BufferAssumption`: any bytes, chunks and lengths): `AppendsStayAtEnd`,
`BytesAreOwn` and the refinement `BufferImplementsLog`, call by call. The storage
holds bytes only, unless a buffer that had been read from was appended, and ends at
the write position, unless that was moved (`BufferInv`).

The codec (`CallAssumption`, `CodeAssumption`, `HistoryAssumption`: any code, number
of bars and categories the call accepts, and any bars with prices and volumes below
2^27 and amounts that are positive floats): `RowsHold`, `CompleteHolds`,
`InsideHolds`. The first two are about calls with Start 0; what the server sends is
always the newest bars (`Newest`), and the two agree only then. `VolumeIsNot` is the
converse half of `RowsHold`: within `Misread` the amount that `GetVolume` computes is
never the right one. `CodecInv` follows the call: the request holds what was asked, the
answer is that of the newest bars, and in the loop (`LoopInv`) every row written is
the bar it stands for and the position in the body is where the next field begins.
Where the body was unpacked in part only, the rest is zeros, and the position is the
right one or lies before it among the zeros (`Near`); no field is longer than its
bytes, so it never leaves the body. The last row's close is known while its bytes
were unpacked, which is why a row that is wrong is one of those behind the cut. The
lemmas say that `getPrice` reads back what the encoder writes, byte for byte, and
where in a concatenation each piece is. Induction over the bytes of a price and over
the bars is done by a least counterexample (`LeastNat`), since the library's
induction rules cannot be instantiated here.

The partition: for all sizes with `TABLESIZE \div TREADNUM + TREADNUM - 1 <=
SLICESIZE`, which holds for 3000, 20 and 400 (`PartitionAssumption`):
`EveryStockOnceTheorem`, `OnlyLoadOverrunsTheorem`, `AllCreatedTheorem`,
`PartitionTypeCorrect`, from the loop invariant `SlicesInv` and facts about integer
division.

The timer (`ClockAssumption`: any starts, gaps of 1 to 28 seconds, any number of
days): `EveryMinuteIsTriggered`, `SessionsAreClosed`. Within a session two messages
are less than a minute apart, so equal minutes of the hour are the same minute. At
the first message of a session the last trigger is one of the last minutes of the
session before (`LastOfSession`): 14:59 or 15:00 before the morning, which begins at
minute 25, and 11:30 before the afternoon, which begins at minute 0. Were the last
trigger before the afternoon one of 15:00, the afternoon's first minute would be
missed; that the morning cannot pass without a trigger is what excludes it.
`DialogIsBoth`: a behaviour of `Dialog` is one of the partition and one of the clock,
so the theorems on either hold of it.

`rename()` (`RenameAssumption`: any names, servers, values and number of tries, any
number of writes of other clients anywhere): `ValueIsNeverLost`, `RefusalsAreIntact`,
`RenamesAreComplete`, `NxRacesOnly`. In `RenameInv`, the name of the handle has the
value, or a try that threw has removed it and the new name has it, as far as other
clients have not written there (`Keeps`, `KeyInv`); behind `del(new)` what is under
the new name and what is still in the buffer make up the value, unless another client
has written there since (`CopyInv`); and past `exists()` the new name is free but for
a race (`RaceInv`). The exceptions are needed: TLC finds each loss when one of them is
left out.

Clients and sockets (`ConnectAssumption`: any clients, sockets, servers and lists of
connections; sockets are non-negative, so that `ANET_ERR` is none): `SocketsAreOwn`,
`OnlyThrowingLeaks`, `RecordsAreRight`. `ConnectInv` adds the types of the fields,
what a client has at each point of its life (`LifeInv`), and that the socket being
set up is not yet in the list (`SocketInv`): `SELECT` on it changes no recorded
database.

The receive functions (`BufferAssumption`, `TextAssumption`, `ReplyAssumption`: any
texts, any replies but nested lists, any buffer and any number of calls):
`OneReplyHolds`, `OutcomesHold`. `ReaderInv` says where in its reply a running call
is: `left` names the element that is read (`Item`, `Base`), and what `read_line` or
`read_n` has collected, what is in the socket and what is on its way follow each
other in the reply, up to its end unless the server has closed (`Synced`). What was
decoded so far is what the elements passed carry (`Listed`), what was peeked is the
beginning of the socket (`PeekInv`), and only the last call can have left something
(`CutInv`). The lemmas say where the elements of a list are in its bytes, that the
first LF of a line that was begun is its end, whatever the texts contain, and, per
receive function, that it ends at the end of the reply exactly when `Leaves` does not
name it.

The client (`ClientAssumption`: any number of connections, any placement of keys, any
lists of keys, any methods in any order; keys count from 1, because 0 stands for the
text `missing_value`): `ClientHolds`, `InStepHolds`, `OwnRepliesHolds`,
`RecordedHolds`, `TellsTruthHolds`. `ClientInv` says of every connection that no call left out of step
(`ConInv`): between calls nothing waits there; during a call (`Line`) the replies
that wait and those to the commands that wait are numbered on from the last one read,
and for each a receive function is left in the call that takes all of it (`Matched`).
A transaction is the hard case. A refused MULTI makes the server answer the commands
behind it one by one, with replies `exec_transaction` does not expect; it throws at
the refusal, before it reads them (`Doomed`). Otherwise every command but the EXEC
is answered by one line, and the elements of EXEC's list are at most as many as the
receive functions behind it (`Batch`). The steps of every method are shown to fit
(`PlanFits`): a send to each connection before its receive functions, these in the
order of the replies (`InOrder`), and a receive function for each command that leaves
nothing of any answer to it (`Entry`, row by row of `RedisCommands`). That needs what
`Sorted`, `FlattenSeq` and `Rank` compute; the inductions are by a least
counterexample again. A call that reads one reply at a time sends the next command
only afterwards (`Alternating`), so that it leaves nothing behind when it throws.

Two more invariants stand on `ClientInv`. `RecordInv`: a `select()` has one SELECT on
a connection, for its own number, and is at one of four points with it (`Selecting`):
not begun or done, the command waits, the answer OK waits and the server has the new
database already, the error waits and neither side has it; no other call sends a
SELECT. `TruthInv`: what waits on a connection in step during a call of one command is
that command or an answer to it, and the receive function of its row throws only for
refusals, the six `Distrustful` rows apart, and for all of them where the method returns nothing
(`OwnRow`, row by row). What makes it inductive is a fact about the
connections that are out of step (`StrayInv`): the first thing pending there belongs
to an older call, so that the next reply read is noticed as foreign.

Sets on several servers: `NoCopiesEver`, `OnlyAbortLosesEver` (a member between
`srem` and `sadd` of a call is in no set and is carried by that call alone) and
`StoresRightEver`, whose invariant says what `content` holds after some of the
servers have answered (`GatherInv`), that the sources are untouched unless one of
them is the destination (`SourceInv`), and that destination and remaining members
together are the result (`AddInv`).

`RedisSMove` and `RedisSetStore` are proved without a run of their own: they have no
constants but sets and the placement of keys, and the proofs cover all of those.
For the same reason `TypeOK`, `UniqueOwner`, `AddressInTable`, `LoopCanEnd`,
`ErrorLeavesEmpty` and `AllCreated` of the proved modules are in no run: the theorems
say more. Elsewhere the type invariant is a conjunct of an invariant the run checks.

Only model-checked: liveness (`CallReturns`, `CallEnds`, `RoundEnds`), which is
beyond the prover, and `GatherRight` of `RedisClient`, which is about the contents of
every reply of calls that read several.

## What the models show about the code

* A `recv()` that returns part of a head puts the connection out of step for good:
  later calls may return OK with other data (`fetch_desync`).
* `Start`, documented as the position at which the range begins, is never sent: the
  request holds the constant `UINT32(1)` there, and the newest bars come whatever was
  asked (`bar_start`). The program itself passes 0.

The properties that hold say exactly how far the code goes, in particular where it
does less than its names or comments suggest:

* With as many ini lines as `IPS` has entries (100), the rotation dials `IPS[100]`;
  the first address is never dialled (`AddressInTable`, `EvenRotation`).
* Exhaustion of the table is final, a thread whose connection drops stores nothing
  any more, and a trigger that comes during a round is erased.
* `szResult` is not emptied on error, as `TDXHQ.h` says; `CQuotation::Run` clears it
  itself (`ErrorLeavesEmpty` is about callers that do).
* Amounts below 128 are decoded wrongly, exactly those whose third byte takes part in
  the last branch of `GetVolume` (`Misread`, `RowsAsked`).
* A watch list without rows leaves an unset pointer that the first trigger writes
  through, and one of more than 3000 rows overruns `stockcode`; a redis server that
  refuses the constructor of a `CQuotation` ends the process (`FaultCauses`).
* A round that could not store its rows, or got none, ends like any other; what was
  missed is confined to the tables concerned (`RoundFresh`).
* `append(CByteBuffer)` of a buffer that was read from takes bytes from behind its
  storage (`NoForeignBytes`); after `wpos(n)` an append overwrites.
* Of the minute 15:00 only one second counts, so its trigger may be missed
  (`SessionsClosed`). A start at a minute equal to the first one of trading misses
  that one (`EveryMinute`).
* `zadd` on a member that is there, `msetnx`, `zrangebyscore` with scores,
  `lrem_exact` when fewer elements were removed, `bgsave` and `info` when the answer is
  not worded as expected (for `info`: a line without exactly one colon) throw although
  the server did what was asked (`TellsTruth`).
* A call that reads several replies and throws leaves the rest in the socket
  (`InStep`).
* `exec_transaction` after a `WATCH` that prevented it waits for ever, and so may
  `blpop` and `brpop` without a time limit; every other call returns or throws, and so
  do these once the connection ends (`CallReturns`, `Stuck`).
* The bound `max_size` of `read_line` never limits anything.
* `rename` across servers is "Not cluster save", as its comment says. Without other
  clients at its two names the value survives every failure and repetition. It is lost
  or mixed when another client writes under one of them: an RPUSH or SADD after
  `del(new)` becomes part of the copy (`Moved`), and a value stored under the old name
  after its `del`, whose answer was lost, is copied over the moved one by the repeated
  call (`NeverLost`).
* `renamenx` across servers replaces a value that another client stored during the
  call; `smove` across servers loses the member when it is cut off after `srem`.
* `clone()` gives no password, and a constructor that throws leaks its sockets
  (`OnlyThrowLeaks`); the copy of a client of a protected server throws.

Some of the properties except the very case that the hazard describes, because there
the code does what it should not: triggers raised during a round
(`IdleTriggerServed`), `append` of a buffer that was read from (`NoForeignBytes`),
calls of several replies that threw (`InStep`), prevented transactions (`CallReturns`),
outdated copies of a connection's data (`RecordedDatabase`, `RecordedIsSelected`), the
`Distrustful` methods (`TellsTruth`), constructors that throw (`OnlyThrowLeaks`). They
say that the code fails there and nowhere else, and for amounts `RowsAsked` says so as
an equivalence.

## Not modelled

* Third-party headers (`sqlite3.h`, `zlib.h`, SecureEngine, MySQL) hold about 86% of
  the repository's 42000 lines; they declare interfaces and have no behaviour here.
  The repository's own code, with the redis client, is about 5700 lines.
* In the redis client: `distributed_mutex`, `distributed_sequence` and `subscribe`
  (`#if 0`); overloads that cannot be instantiated (`msetnx(pairs)`,
  `brpop(vector)`, `sort` with a limit); the one-line wrappers of the `distributed_*`
  classes but `rename` and `renamenx`; the text of commands (`makecmd`), in which
  `srandmember` sends SPOP; the values of the fields of `server_info`; `anet.c` beyond what the
  client calls; nested multi bulk replies.
* Window, tray, menu and painting code, `CConfig`, the application shell, tests.
* `TdxHq_GetSecurityQuotes`, which no build contains: it names an undeclared
  variable. Its transport is that of `TdxFetch`.
* The section `shared` of the DLL does not exist according to the committed build
  log, so sharing between processes is not modelled. Memory leaks on error paths are
  not modelled. In `CByteBuffer`, the copy of `>>(char[])` into the caller's array.

## Plan

Done: all modules above, and the proofs of all safety properties but `GatherRight`.
It would need an invariant that pairs every reply that waits with the positions its
receive function fills, for pipelines, fan-outs and transactions.
