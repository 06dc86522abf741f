# kover in TLA+

Specifications of [kover](../src/README.md), an asyncio driver for MongoDB,
with TLC configurations and TLAPS proofs. They describe the code under
`src/kover`; line numbers below refer to it.

## The system

| part | code | state it keeps | operations |
| --- | --- | --- | --- |
| connection pool and request path | `client.py`, `network/transport.py` | the queue of transports; per transport: connected flag, socket, compressor | `request`, `close`, `connect`, `hello`, `authorize` |
| wire protocol | `network/wirehelper.py`, `network/compressors.py` | none | request ids, framing, compression, error construction |
| authentication | `network/auth.py`, `models/other.py` | none beyond a conversation | SCRAM `saslStart`, `saslContinue` |
| session, transaction | `session.py`, `transaction.py` | transaction state, number, action count | `start`, `end`, `commit`, `abort`, `async with`, `apply_to` |
| cursor | `cursor.py` | query, cursor id, buffered documents, progress flags | iteration, `to_list`, `close` |
| GridFS | `gridfs/` | none in the client; two collections at the server | `put`, `get_by_*`, `delete`, `drop_all_files`, `exists`, `list`, `indexed` |
| collection, database | `collection.py`, `database.py` | a name | one command per method; `create_if_not_exists`, `aggregate` and `update` do more |
| bulk write | `bulk_write_builder.py`, `models/operations.py` | operations and namespaces | `add_insert`, `add_update`, `add_delete`, `build` |
| schema, documents | `schema.py`, `helpers.py`, `internals/` | none | annotations to JSON schema, documents to and from dictionaries |
| discovery | `client.py` (`from_uri`), `uri_parser.py`, `models/replset.py` | none | credentials, choice of the primary |

Everything reaches the server through `Kover.request`: it takes a
`MongoTransport` from the pool, connects and authenticates it the first time,
writes the command, reads one reply and puts the transport back. A
`Transaction` is an argument of a request: the transport asks it whether it is
active, lets it write into the document, and tells it the outcome. `Cursor`,
`GridFS` and `Collection` are sequences of such requests.

All of it runs in one asyncio loop. A task runs without interruption between
two awaits that suspend, so an interleaving is a choice of which task runs
next, and a task can be cancelled exactly where it is suspended. What is hard:

* tasks competing for transports, woken and then overtaken or cancelled;
* an exception or a cancellation at any await of the handshake or of the
  exchange, with the reply still to come;
* the order of replies and of transaction bookkeeping, when commands of one
  block run concurrently, are lost, or are acted on after their caller gave up;
* `close()` beside all of that;
* several requests that belong together (GridFS, cursors,
  `create_if_not_exists`) with a failure, a crash or another client between two
  of them;
* elections, changed users and differing nodes between discovery, handshake and
  the commands that follow;
* the definition of a class, the schema generated from it, what an instance is
  stored as, and what is read back: four views that have to agree.

`PROJECT.json` lists each hazard with its line and the properties about it.

What makes each part correct:

* pool: a transport has one user; none is lost but through a failed handshake;
  a waiter never sleeps beside an idle transport, and once no newer call comes
  in everybody gets one; `close()` loses no connection that is open;
* wire: a reply is given only to the request that asked for it; framing is
  never lost while replies are being accepted; no command before the handshake;
* transaction: all or nothing; the state the object reports agrees with the
  server; commit on success, abort on an exception; no effect outside;
* cursor: every document once, and no server cursor left behind;
* GridFS: a file that is listed has all its chunks; no orphans;
* collection: a caller's result agrees with what happened at the server;
* builder: an operation applies to the namespace it was added for;
* schema and documents: what is stored satisfies the schema, what satisfies it
  can be read, and reads back the same;
* discovery and handshake: the primary, the right user, a compressor both sides
  have, and the server's error code in the exception.

## Modules

| module | models | EXTENDS / INSTANCE |
| --- | --- | --- |
| `Lease` | what the pool promises, abstractly | |
| `Client` | `Kover.request`, `Kover.close`, `MongoTransport`, framing, handshake, server end of each socket | INSTANCE `Lease` |
| `ClientProofs`, `WireProofs`, `LeaseProofs` | theorems about `Client`: the pool, the wire, and what callers rely on | each EXTENDS the one before; `Client`, TLAPS |
| `Transaction` | `Transaction`, the transaction part of `MongoTransport.request`, the server's transaction | |
| `TransactionProofs` | theorems about `Transaction` | `Transaction`, TLAPS |
| `Cursor` | one `Cursor`, the program that iterates, the server's cursors | |
| `CursorProofs` | theorems about `Cursor` | `Cursor`, TLAPS |
| `Bucket` | what a GridFS bucket promises, abstractly | |
| `GridFS` | `GridFS` and the `Collection.aggregate` it reads with, over the two collections | INSTANCE `Bucket` |
| `GridFSProofs` | theorems about `GridFS` | `GridFS`, TLAPS |
| `BulkWrite` | `Update`, `Delete`, `BulkWriteBuilder`, and what a server makes of writes | |
| `Collection` | tasks in the methods of `Collection`, `Database` and `Kover`, one server | EXTENDS `BulkWrite` |
| `CollectionProofs` | theorems about `Collection` and `BulkWrite` | `Collection`, TLAPS |
| `Connect` | `from_uri`, `make_client`, the handshake of each connection, compressors, exceptions | |
| `ConnectProofs` | theorems about `Connect` | `Connect`, TLAPS |
| `Schema` | schema generation, `Document`, and the parts of pydantic, bson and `$jsonSchema` they rely on | |
| `Documents` | a class on its way through a program and a collection with a validator | EXTENDS `Schema` |
| `MCClient`, `MCTransaction`, `MCGridFS`, `MCCollection`, `MCConnect`, `MCDocuments` | symmetry and constants for TLC | EXTENDS the module named |

The modules beside `Client` do not instantiate it. Each takes
from it what `client_pool` and `client_wire` establish: a command is answered by
its own reply, by an exception, or not at all, and in the last two cases the
server may or may not have acted on it.

A module has one variable per attribute or local variable of the code that its
control depends on, `pc`-like variables for where a task is suspended, and one
action for what a task does from one suspension to the next. Operators that
look like an action and carry a comment beginning with `Mutant:` are wrong on
purpose: a plausible slip in the code each property has to notice. No
specification uses them.

### Client

| variable | code |
| --- | --- |
| `pool`, `getters` | `Kover._pool`: the `asyncio.Queue` and its waiting getters (`client.py:32-48`) |
| `pc`, `wait`, `conn`, `phase`, `rid`, `outcome` | a task in `Kover.request` / `MongoTransport.request`: where it is suspended, its argument, its locals, its result |
| `connected`, `alive` | `MongoTransport._connected`, and whether the socket really is up |
| `inbox`, `stream` | bytes on their way to the server and back |
| `authed` | whether the server accepts commands from this socket |
| `closer`, `closing` | `Kover.close` and the transport it waits for |

| action | code |
| --- | --- |
| `Start`, `Resume` | `client.py:234-248`: `get()`, and on to the connect or to the write of the command |
| `Connect`, `ConnectFails` | `transport.py:44-59`, then the hello message |
| `ReadHeader`, `RejectHeader` | `transport.py:125-126`, `verify_rid` |
| `ReadBody` | `transport.py:127-141`; `hello` and `authorize` go on with their next message; the `finally` of `client.py:250` |
| `Drained` | `wait_response=False`, `transport.py:129` |
| `SocketFails` | `drain` or `readexactly` raises |
| `CancelGet`, `CancelCall` | `CancelledError` at the await the task is suspended in |
| `CloseStart`, `CloseNext`, `CloseRaises` | `client.py:78-89`, `transport.py:183-188` |
| `Serve`, `Reset` | the server and the network (external) |

A reply is two units, a header of 16 bytes and the rest, because the code reads
it in two steps and can be interrupted between them. `verify_rid` reads 16
bytes whatever they are: at the front of an unread body it consumes either a
part of the body or, if that is all there is, the whole of it, and both are
modelled. Where such a read takes in the beginning of the next reply as well,
the reader is behind for good, which is the case of a part. Request ids are random
32-bit numbers in the code and fresh numbers in the model: a collision with an
abandoned request's id, with odds of one in four billion, is left out. Reads
that find their data buffered do not suspend in the code; the model lets other
tasks run there too, which adds interleavings and hides none.

| run | checks | shows |
| --- | --- | --- |
| `client_pool` | `TypeOK`, `Exclusive`, `NoLostWakeup`, `PoolIsLease`, `CloseLeavesOnlyBusy`, `ClosedForGood` | three tasks, two transports, a cancellation, a dying socket, `close()`: a transport has one user; no waiter sleeps beside an idle transport; queue, waiters and handshake add up to the exclusive leases of `Lease`, and only an unfinished handshake loses a transport; `close()` is done with no connection before it is down, also when it raises, and returns with the pool empty; afterwards no connection is opened any more |
| `client_wire` | `BodyIsOwn`, `CommandsAreAuthorised`, `StaleNeverAnswers`, `DeadNeverAnswers`, `WaiterServed` | two tasks on one authenticated transport, both values of `wait_response`: the bytes after an accepted header are its own body; no command before the handshake; after an abandoned reply no request on that transport gets an answer: never a wrong one, but none at all; a transport whose socket died gives none either; once no newer call begins, every task in `get()` gets the transport unless it is lost |

The tasks and the transports of `client_pool` are symmetric. `PoolIsLease`,
`CloseLeavesOnlyBusy` and `ClosedForGood` are conditions on initial states and
steps, no liveness, so the reduction is sound for them.

`CloseLeavesOnlyBusy` is about the transports the client can still close
(`InReach`): those in the queue, the one `close()` is at, and those of requests
that are past the handshake and will put them back. One of these leaves that set
only when its socket is down. So whatever `close()` has taken out of the queue is
dead when it goes on to the next, when it returns, and when `wait_closed` raises
on it (`CloseRaises`), in which case the rest is still in the queue for a second
`close()`, and the socket that raised is the dead one. What is open after it
returned is what requests hold, which is put back later and stays open, and what
was lost in a handshake; `close()` has no such exception in its docstring
(`client.py:79-82`). Those are all that is left: `ClosedForGood` says that no later call opens another connection,
so that a call that finds the queue empty waits for one of them, or for ever.

Bounds. Two transports and three tasks are the smallest instance in which one
task holds, one is woken and one overtakes it; one transport and two tasks
suffice for the wire, as sockets do not interact. The number of calls bounds
how many requests follow an abandoned one (four: abandon, read its header,
read its body, and one more); cancellations and resets bound the faults. `MaxCalls`, `MaxCancels` and `MaxResets` only occur in guards.
Deadlock is not checked: once the calls are used up the system rests, and
after `close()` tasks may wait for ever.

Fairness, in `client_wire`: weak fairness of each task's next step (the
loop runs every ready callback), of the server per socket, and of `close()`
once begun. Starting calls, cancelling, and losing sockets are never required.

This does not make every waiting task be served while calls keep coming: a task
that puts its transport back and calls again before the task it woke has run
takes the transport from it, and `asyncio.Queue.get` then puts the woken one to
the back of the waiters, time after time. `WaiterServed` therefore starts from
the moment no newer call begins, and from then on asks for the transport itself
and not for a wake-up. `MaxCalls` is what brings that moment about in the run,
which is why the property names it as its hypothesis.

### Transaction

| variable | code |
| --- | --- |
| `state`, `count`, `id` | `Transaction.state`, `.action_count`, `.id` |
| `block`, `raised` | the `async with` block and an exception on its way out of it |
| `want`, `ender`, `endMsg` | the commit or abort command under way |
| `opPc`, `opTxn`, `opDoc`, `opMsg` | each command of a block: progress, `transaction=` argument, what `apply_to` wrote, message and reply |
| `last`, `status`, `pending`, `durable` | the session's transaction at the server and the effects (external) |
| `clock` | `time.time()` |

`Enter` is `__aenter__` with `start`; `Exit` is `__aexit__` up to its first
suspension, `EndReturns`, `EndRaises` and `GiveUpEnd` its rest; `Call` is a
`commit()` or `abort()` the block itself awaits. `Issue` is a command awaited in
the block; `Send` runs when the request has its transport and is the code of
`transport.py:118-123`; `OpReturns` and `OpRaises` are lines 132-141;
`GiveUpOp` is a cancellation, time limit or dead socket at any await of the
request. A command given up after it was written can still reach the server,
at any later time. A commit or abort command given up before it reached the
server is forgotten when the next one is written.

What the program does beside the code is the variable `caller`, a set of
habits it has from the start: `catch`, a block handles the exception of a
command and goes on; `overlap`, it runs commands concurrently and may be left
before they are done; `explicit`, it calls `commit()` and `abort()`. `Callers`
are the sets of habits a run considers, and a property says for which habits it
holds: with `overlap` a block can be left while a command is in flight, and
`CommittedIsDurable` is then not promised.

| run | callers | checks | shows |
| --- | --- | --- | --- |
| `txn_safe` | none, `catch`, `catch` with either of the others | `TypeOK`, `AllOrNothing`, `CommittedIsDurable`, `AbortedHasNoEffect`, `NoMixing` | a plain block takes effect entirely or not at all; COMMITED means that what returned took effect; an ABORTED transaction left nothing behind; two objects with one `txnNumber` never share a server transaction |
| `txn_outside` | `catch` | `NoEffectOutside`, violated | after a command failed, the next one of the block is written outside the transaction |
| `txn_left` | none | `LeftIsSettled`, violated | a block left with neither commit nor abort sent, and the server's transaction open |

Bounds: two transactions (the second may share the number of the first or not,
`MaxClock`), three commands (two in one block, one in the other), two commands
given up. The server's rules are those the code relies on: a higher number
starts a transaction, a statement that fails aborts it, a commit may be
repeated, an abandoned transaction expires. Deadlock is not checked: when the
blocks are left the system rests.

Fairness in `txn_left`: a task that can run does, the server
answers what reached it.

### Cursor

| variable | code |
| --- | --- |
| `limit`, `batch`, `id`, `docs`, `second`, `killed` | `Cursor._limit`, `_batch_size`, `_id`, `_docs`, `_second_iteration`, `_killed` |
| `total` | how many documents match; the other query options only shape that result |
| `pc`, `msg` | the await the program is suspended in, the command and then its reply |
| `got`, `failed`, `ended` | what the program has seen: documents, an exception, the end |
| `open`, `nextId` | the cursors at the server (external) |

`TakeBuffered`, `Find`, `GetMore` and `Finish` are `__anext__` up to its first
suspension, for each of its branches; `FindReturns` and `MoreReturns` its rest.
`CloseCursor` is `close()`, called from `__anext__` (`Finish`) or from the
program (`Close`, also `__aexit__`); `KillReturns` is its rest. `CommandRaises`
is an error reply and `GiveUp` a cancellation or a dead socket: the exception
leaves the object as it was at the await, and the program may go on iterating.
`BatchRejected` is an exception of `from_document` for the document `bad`: the
cursor id is kept, the batch is not, and iteration resumes behind it.

Documents are numbered in the order of the query. A reply carries at most
`Room` of them, which stands for 16 MB. The server may or may not notice that a
batch that is full was also the last.

`cursor_safe` checks `TypeOK`, `InOrder` (documents in order, without
repetition, never more than the limit, and without a gap but for a batch with
the rejected document), `Complete` (an iteration that ends
without an exception has returned everything, if two replies can carry it and
the first is not empty by request) and `Released` (with a limit, no cursor is
left open). The conditions are those of the code: it sends one `getMore` and
then stops, so a larger result ends early without a word (`cursor.py:191`), and
`close()` leaves a cursor without a limit to the server (`cursor.py:218`). Up to
six documents with room for two in a reply go beyond both replies in every
position of limit and batch size; two faults allow a failed `find` to be
repeated and the `getMore` after it to fail as well. A program that iterates on
after its own `close()` is left out, as is a negative limit. Deadlock is not checked:
after `close()` nothing has to happen.

### GridFS

| variable | code |
| --- | --- |
| `files`, `chunks` | the documents of the two collections, as ids and as pairs of id and `n` |
| `meta` | size, `chunk_size` and whether a sha1 was stored, per id |
| `pc`, `target`, `check`, `data` | per task: the request it waits for, its file, its `check_sha1`, the chunks sent or read so far |
| `msg`, `late` | each request and then its reply; requests given up that the server may still carry out |
| `outcome`, `removed`, `deleted`, `dropped` | history: results, deletions at the server, deletions reported, a drop begun |

| action | code |
| --- | --- |
| `Put`, `ChunksStored`, `FileStored` | `put`: the groups of `_partial_write_chunks`, one `insert_many` each, then the file document |
| `Get`, `NameFound`, `FileFound`, `ChunksRead`, `MoreRead` | `get_by_file_id`, `get_by_filename`, and `Collection.aggregate` with its one `getMore`; `Deliver` is the comparison of the sha1 |
| `Delete`, `FileDeleted`, `ChunksDeleted` | `delete` |
| `DropAllFiles`, `ChunksCleared`, `FilesCleared` | `drop_all_files` |
| `RequestRaises`, `GiveUp` | an error reply; a cancellation, dead socket or crash |
| `Serve`, `Refuse`, `RefuseLarge`, `ServeLate` | the server (external); a refused insert may have stored its first chunks; a command that is too large is refused as a whole |

Data is measured in units and told apart by chunk numbers: the sha1 of what was
read equals the stored one exactly if all chunks were read. `MaxAmount` is the
rounded quotient of `gridfs.py:97-101`; the number of chunks cancels out of it,
and with `SIZE_LIMIT` a power of two the floating point arithmetic does not
change the result. An empty file (division by zero) and a chunk as large as the
limit (a `range` of step 0) raise, as they do in the code.

`MaxAmount` counts data. What the server looks at is the whole command, which
kover sends as one document (`wirehelper.py:76-93`): `Overhead` is what a chunk's
document has beside its data (`files_id`, `n`, the `id` of `insert_many`, and the
names and headers of BSON, some 65 bytes), and `Room` is the 16 KiB by which a
server lets a command be larger than a document. `TooLarge` compares the first
group, none of the others being larger, and `RefuseLarge` turns it down.

| run | checks | shows |
| --- | --- | --- |
| `gridfs_safe` | `ListedIsWhole`, `ReadIsComplete`, `DeletedIsGone`, `NoOrphans`, `IsBucket` | two tasks, three operations, one fault: a listed file has all its chunks unless a drop came by; a read beside no deletion is complete up to two replies, and one that checks a sha1 never returns a part; a deleted file leaves nothing, late requests included; chunks without a file only come from a fault or a drop, not from a put that is refused as too large; the requests implement `Bucket` |
| `gridfs_read` | `ReturnedIsWhole`, violated | a file larger than two replies comes back without its end |

`Bucket` has files and no chunks. A call meets the bucket at one moment between
its beginning and its end: that is when a put lists the file, a delete takes it
away, a drop takes all away, or a get finds it there or not; the result has to
be one that this moment bears out. A get by name settles on a file first
(`gridfs.py:228`), so that it may report a file missing that was there when it
was named. A call that raises has had its moment, or has not, or leaves it to
the bucket (`owed`), which may get round to it later. In the mapping a file is
there when its document is; `Calls` reads what a task is at from `pc`, `msg` and
`target`, and `Owed` is made of the late requests that touch file documents.

Sizes of 0, 8 and 20 in chunks of 2, 4 and 12 with a limit of 12 are a file of
nothing; two chunks in one group, and four that one group or two replies carry;
five chunks in three groups, more than two replies carry; ten small ones, whose
first group is too large; and chunks of the size of the limit. Three operations
are a put and two more of any kind at any point of it. The drop is excepted in `ListedIsWhole`
since it clears the chunks first (`gridfs.py:258`): a put or a crash between its
two requests leaves listed files without chunks. Deadlock is not checked: after
the last operation the system rests.

### Collection and BulkWrite

| variable | code |
| --- | --- |
| `operations`, `namespaces` | `BulkWriteBuilder._operations`, `_namespaces` |
| `call`, `pc`, `msg`, `reply`, `last` | per task: its method, where it is suspended, its command, the answer, how its last call ended |
| `db`, `late` | the collections of the server and the commands whose callers are gone (external) |
| `existed`, `rival` | history: whether the collection of a call existed during it, whether another actor created it |

| action | code |
| --- | --- |
| `Call`, `CallRefused` | a method up to its first suspension; the `ValueError`s of `collection.py:550` and `:576` |
| `Insist` | a program that repeats `create_if_not_exists` until it returns (external) |
| `Send` | a `bulkWrite` has its transport and is encoded, `transport.py:118-123` |
| `AddOperation` | `add_insert`, `add_update`, `add_delete` |
| `Create`, `NamespaceMissing` | `collection.py:62-64` and `:78-81`: the list of collections was empty |
| `OperationFails`, `Return` | `transport.py:132-141` and what the method makes of the reply |
| `GiveUp` | a cancellation, time limit or dead socket |
| `Serve`, `ServeLate` | the server (external) |

`build()` returns the builder's own list of operations and a new list of
namespaces (`bulk_write_builder.py:91-102`), and the request encodes both when
it has its transport. The model keeps the namespaces in the message and reads
the operations in `Send`: what is added in between is sent too, and refers to a
namespace the message may lack, in which case the server refuses all of it.

A document is its `_id` and a value that a validator likes or dislikes; a
filter is a value; a validator does not look at documents that were invalid
before (`ValidationLevel.MODERATE`). The value stands for the document as it is
sent: `insert_one` and `insert_many` put a field `id` in (`collection.py:143`,
`:186`), `add_insert` does not, so that one and the same dictionary may have
another value as a bulk operation. The two forms of `Update` and `Delete` differ
as well: `upsert` has no place in a bulk operation, and a `limit` other than 0
and 1 is refused by `delete` and becomes `multi` in a bulk operation. Nothing in
the repository promises that the forms agree, and no property asks for it.

`collection_safe` runs two tasks, one of which insists, from an empty database
and from one with a validator, an index, a valid and an invalid document.
`MaxEvents` is three calls of the other task, commands given up and operations
of the builder together: a call, an operation and a fault in any order, or three
operations, or two operations around a call. It checks

* `EnsureOutcome`: `create_if_not_exists` returns only for a collection that was
  there during the call, and fails by itself only if it lost a race;
* `WritesReported`: a method returns only if every write was applied, and raises
  only if not; `bulk_write` returns either way and its reply has the count;
* `OwnNamespace`: an operation applies to the namespace it was added for, however
  the builder is used between `build()` and the sending;
* `StubbornGets`: whoever repeats `create_if_not_exists` gets the collection.

Fairness: the insisting task asks again, a task that can run does, and the
server answers what was sent to it. Deadlock is not checked: when the calls are
used up the system rests.

### Connect

| variable | code |
| --- | --- |
| `program`, `credentials`, `target` | the arguments of `from_uri` or `make_client`; `Kover._credentials`; the node of the pool |
| `phase`, `node`, `compressor` | per transport: where its handshake is, `_host`, `_compressor` |
| `sent`, `answer`, `raised` | its message (`NoMessage` when it has none), the reply, and the exception made of the last reply that raised |
| `primary`, `view`, `users` | the replica set and its users (external) |
| `session`, `conv` | whom the server takes a connection for, and its side of the conversation (external) |
| `knew`, `out`, `told` | history: whether the node knew the user at hello, whether `logout` took this connection, what `from_uri` was told |

| action | code |
| --- | --- |
| `Make`, `HalfSetRefused` | `make_client`, `from_uri` up to its hello; `from_environ` with half of the variables |
| `Discovered` | `from_uri` from its hello on, `client.py:158-176` |
| `Open` | `client.py:235-238` |
| `NoAuthentication`, `Authorize`, `CannotPack` | the rest of `hello`, `client.py:240-242`, and a compressor whose module is missing |
| `Continue`, `TooFewIterations`, `Authenticated`, `HandshakeFails` | `Auth.create` between its two requests and after them |
| `Command`, `Return`, `Raise` | a command, among them `logout`, and its reply |
| `ServeHello`, `ServeSasl`, `ServeLogout`, `ServeCommand`, `Elect`, `Hear`, `ChangeUser` | the servers (external) |

`Program` is a parsed URI, credentials of the environment, or credentials of
`from_parts`. Keys, salts and nonces are abstracted to the secret they are
derived from: a proof is right if the client's password is the secret of the
user when the conversation began. The table of `codes.py` is the constant
function `Names`.

`connect_safe` has two nodes that take different compressors, two transports
beside the one `from_uri` looks around with, a user with enough iterations and
one with too few, and two elections or changes of users at any time. It checks

* `HandshakeSettles`: a transport whose handshake is over is the client's user,
  unless the node did not know the user at hello or `logout` took that very
  transport, and only then is a command unauthorised;
* `GoodCredentialsConnect`: with the right password, more than 4096 iterations
  and the modules at hand no handshake loses a transport;
* `FromUriFindsPrimary`: `from_uri` finds the primary through any node that is
  up to date, and writes reach a primary until the next election;
* `CompressionAgreed`: what is compressed, the node takes and the client has;
* `CodesKept`: an exception has the code of the first error, or -1 if the table
  lacks it.

Two changes are an election and a change of the user around each other, or a
user dropped and created again within one handshake. A write after an election
fails with `NotWritablePrimary` for good: the pool is never filled again. The
transports are symmetric. Deadlock is not checked: a client without
transports rests.

### Schema and Documents

A class is a function from field names to an annotation, metadata,
`ExcludeIfNone` and a default; annotations are the forms
`_generate_type_data` distinguishes. Values are a Python type and as much of
the content as a limit, an `enum` or a comparison tells apart. `Schema`
translates the generator, `SchemaMetadata` and `Document`; what pydantic, bson
and the server do with values is written from how they are used there, and
marked external. Of `SchemaMetadata`, `title` and `description` are left out,
which ask for nothing, and a `pattern` is the set of strings it matches. Members
of an `Enum` inside a `Literal` (`serializers.py:57-60`) are left out too.

| variable | code |
| --- | --- |
| `class`, `extraOk`, `schema`, `raised` | the class, `SchemaGenerator.additional_properties`, what `generate` returned, whether it raised |
| `doc`, `assigns` | an instance the program holds |
| `validator`, `stored` | the collection (external) |
| `origin`, `answer` | history: the instance each stored document was made of; the last insert or read |

The actions are `GenerateSchema`, `SetValidator`, `Create`, `Assign`, `WithId`,
`Insert`, `Read` (`find_one` with a class), `Clear`, and `PutRaw`, another
program's insert. A document is written with or without a validator and read
back, changed and written again.

| run | checks | shows |
| --- | --- | --- |
| `documents_safe` | `DumpAccepted`, `ValidatedParses`, `RoundTrip` | what an instance is stored as satisfies the schema of its class; what the validator admits, the class can read; what was stored reads back equal and would be stored the same |
| `documents_insert` | `InsertAccepted`, violated | a collection with the generated validator refuses instances of its class |

The twenty classes of `MCDocuments` follow `tests/test_schema.py` and
`examples/schema.py` with at most two fields, and add the cases in which the
code treats a value specially. Each field is tried with values of the right
type, of a wrong one, around its limits, and `None`. `Int32Max` is the largest
integer stored in 32 bits, small so that both sides of it occur. One stored
document and one assignment suffice, as documents do not interact and an
assignment validates one field. The exceptions of `DumpAccepted` are where code
and schema disagree: a `None` left out by `ExcludeIfNone` is required all the
same, `unique_items` and a `max_items` of 0 are not validated by pydantic, a
UUID inside a list or a dict is not converted, and a default enum member is not
replaced by its value. There is no type invariant here: the values are the
point, and the three properties are about them. Deadlock is not checked: the
program may stop at any time.

## Proofs

Proved for any values of the constants, `Client` for instance for any sets of
tasks and transports and any bounds, from the modules' named assumptions. Every
theorem is `Spec => []P` for the property P, except that `PoolIsLease` and
`IsBucket` are the refinements themselves and `CloseLeavesOnlyBusy`,
`ClosedForGood`, `StaleNeverAnswers` and `DeadNeverAnswers` say of themselves
what always holds.

| module | theorems and their properties |
| --- | --- |
| `ClientProofs` | `TypeCorrect` (`TypeOK`), `ExclusiveCorrect` (`Exclusive`), `NoLostWakeupCorrect` (`NoLostWakeup`) |
| `WireProofs` | `BodyIsOwnCorrect` (`BodyIsOwn`), `CommandsAuthorisedCorrect` (`CommandsAreAuthorised`) |
| `LeaseProofs` | `PoolIsLeaseCorrect` (`PoolIsLease`), `CloseLeavesCorrect` (`CloseLeavesOnlyBusy`), `StaleNeverAnswersCorrect` (`StaleNeverAnswers`), `DeadNeverAnswersCorrect` (`DeadNeverAnswers`), `ClosedForGoodCorrect` (`ClosedForGood`) |
| `TransactionProofs` | `TypeCorrect` (`TypeOK`), `NoMixingCorrect` (`NoMixing`), `CommittedIsDurableCorrect` (`CommittedIsDurable`), `AbortedHasNoEffectCorrect` (`AbortedHasNoEffect`), `AllOrNothingCorrect` (`AllOrNothing`) |
| `CursorProofs` | `TypeCorrect` (`TypeOK`), `InOrderCorrect` (`InOrder`), `CompleteCorrect` (`Complete`), `ReleasedCorrect` (`Released`) |
| `GridFSProofs` | `TypeCorrect` (`TypeOK`), `ListedIsWholeCorrect` (`ListedIsWhole`), `ReadIsCompleteCorrect` (`ReadIsComplete`), `DeletedIsGoneCorrect` (`DeletedIsGone`), `NoOrphansCorrect` (`NoOrphans`), `IsBucketCorrect` (`IsBucket`) |
| `CollectionProofs` | `TypeCorrect` (`TypeOK`), `EnsureOutcomeCorrect` (`EnsureOutcome`), `WritesReportedCorrect` (`WritesReported`), `OwnNamespaceCorrect` (`OwnNamespace`) |
| `ConnectProofs` | `TypeCorrect` (`TypeOK`), `HandshakeSettlesCorrect` (`HandshakeSettles`), `GoodCredentialsConnectCorrect` (`GoodCredentialsConnect`), `FromUriFindsPrimaryCorrect` (`FromUriFindsPrimary`), `CompressionAgreedCorrect` (`CompressionAgreed`), `CodesKeptCorrect` (`CodesKept`) |

A proof has one lemma per action, which first states what the action does to
the variables and then shows one part of the inductive invariant after another;
the theorems at the end of a module combine these lemmas.

### Client: `ClientProofs`, `WireProofs`, `LeaseProofs`

`TypeOK` is not inductive: a task that releases its transport puts `conn[t]`
into the queue, which is a transport only if the task holds one; a wake-up
changes the `pc` of the head of `getters`, which must be a task that waits.
`TypeInv` adds both: a task has a transport exactly while its `pc` says it is
in flight (`HoldOK`), and the getters are, without repetition, the tasks that
wait (`GettersOK`). The lemmas of the actions share lemmas about the operators
the actions are made of (`TakeFacts`, `ReleaseFacts`, `RaiseFacts`,
`WakeNextFacts`...).

`ClientProofs` goes on to reduce the actions to what they do to the pool. A
`Move` takes a transport, puts one back, drops one or sweeps the queue;
exclusive use follows from the moves alone, as a queue without repetitions and
holders, pairwise different, that are not in it. A `Turn` is what a step does to
the waiters: a woken task gets its transport (`Taken`), a transport is put back
and a waiter woken for it (`Given`), a woken task is cancelled and another woken
in its place (`Passed`), or nobody waits beside an idle transport.
`NoLostWakeup`, which counts woken tasks against idle transports, is inductive
over turns.

`WireProofs` shows `BodyIsOwn` through `WireInv`: a stream is a sequence of
headers each followed by its own body, whole as long as the socket is up, and
after a header was accepted the body that belongs to it comes next or never.
Only the holder of a transport reads from it, which is `ExclusiveCorrect`.
`CommandsAreAuthorised` follows from `AuthInv`: what lies in the queue
connected is authorised (`PoolAuthorised`); a task has come to the phase of its
command only on an authorised connection (`PhaseAuthorised`); and the reply
that takes it there can only be the one to its own last message of the
handshake (`OwnReplies`), because request ids are fresh (`RidsBelow`).

`LeaseProofs` shows the refinement. The mapping chooses the holder of a transport
among the tasks; by `Exclusive` there is at most one, which is `OwnerIs`, and the
proof never looks at the choice again. What a step does to a transport is one of
`Granted`, `GaveBack` and `Dropped`, each of which is a step of `Lease`, or
nothing.

`CloseLeavesOnlyBusy` goes through the steps that may take a transport out of
reach (`InReach`). One that is taken is connected or was not open
(`TakeReach`), one that is released is in the queue (`ReleaseReach`), an
exception loses only what is in its handshake (`RaiseReach`), and the loop of
`close()` drops what was never connected and holds on to the first that was
(`SweepReach`); the one it held is dead by then, as `CloseNext` and
`CloseRaises` are steps of `wait_closed` coming back (`ReachStep`). That the queue
is empty is the end of the loop (`SweepEmpties`).

`StaleNeverAnswers` needs the invariant `StaleInv`. A transport is
`Tidy` (all there is on the way in either direction is the one request of its
user, or its reply) or `Blocked` (what would be read next is not for its user).
A blocked transport stays blocked, because a user never takes what is not its
own and puts its own request behind it; and a tidy one that is left with its
request under way (`Outstanding`) becomes blocked.

The same notion gives `DeadNeverAnswers`: a transport that lies in the queue
connected and dead is blocked, since nothing is left to read that is its next
user's (`DeadIsBlocked`), and its socket stays dead because only an unconnected
transport is connected (`ConnectsOnce`, `SocketsStay`). `ClosedForGood` needs
`OnlyUsed`: after `close()` came back, every transport in the queue has been
connected, as it is put back by the request that used it, which connected it
first (`PutBackConnected`). A task takes a transport and begins to connect it in
one step, so there is none left to connect.

### `TransactionProofs`

The invariant has a part for each habit of the program. `Base` holds for every
program: a command with transaction fields has the number of its object
(`Command`), an object with replies counted has begun at the server (`Object`),
and the server's pending and durable effects are what it acknowledged of the
transaction it holds (`Server`). `NoMixing` follows from `OneBegins`: of the
objects with one number, the server has let at most one begin, and a command that
continues is only written once its own object did. Without `overlap`, a block has
one command under way and none once it is left (`InTurn`), so that what
returned is durable when the commit is acknowledged (`Settles`), which is
`CommittedIsDurable`. If moreover only `__aexit__` ends the transaction, it asks
for one end only (`EndsOnce`), which is `AbortedHasNoEffect`. If exceptions
leave the block, a commit is asked for only when every command returned
(`LetsOut`), which is `AllOrNothing`.

### `CursorProofs`

`Shape` is what the program may await in which state of the object; `Flags` and
`Bounds` complete it to `TypeOK`: a `find` that is sent again costs a fault.
`InOrder` follows from `OrderInv`: not only what the program has
but what is buffered behind it is in order; what a cursor of the server has
left is the end of the result; and where the only `getMore` goes on is where the
`find` ended, unless the batch of the `find` was rejected, in which case the
rejected document is before that place. `Released` follows from `HoldInv`: while
nothing has failed, at most one cursor is open, the one the object knows or the
pending reply names, and an empty reply to a batch size above 0 names none.
`Complete` follows from `WholeInv`: while nothing has failed, what was handed
over, what is buffered and what the cursor has left add up to the result
(`Handed`, `Follows`), and the rest fits into one reply.

### `GridFSProofs`

A request may be carried out at any time after it was given up, so the invariant
speaks of requests before it speaks of files. `Sound` says what a request that
the server may still see asks for: a file document comes when all the chunks are
there, chunks are deleted when the document is gone, and no file
is named before its document. `Once` says that one task or one late request is
at a file that is being put. With these `Store` is inductive, which has
`ListedIsWhole` and `DeletedIsGone`. `Puts`, `Deletes`, `Finds` and `Reads` say
where each operation is; `Reads` contains `ReadIsComplete`: what the first and
the second reply bring are the two parts of the file (`FirstOf`, `RestOf`)
unless somebody deletes. `Tidy` names, as long as nothing failed, the put or the
delete that answers for chunks without a document: `NoOrphans`. The only error
without a fault is that of a put whose chunks are too large (`Rejected`), and as
the server looks at the first group first, such a put has stored none.
`ReadIsComplete` says moreover that a checked read tells a part from the whole,
which is `Deliver`'s comparison at the moment the call ends, kept by every step
after it.

`IsBucket` is proved from the same invariant and `Orderly`, which adds that an
idle task has no message, and that the requests which touch file documents
carry nothing but their file, so that late ones are told apart by what they are
owed for. `Table` lists what the mapping makes of each place an operation can be
at; a step of one task changes its own row only (`OneCall`). Each action then is
a step of `Bucket` or none: beginnings (`PutBucket`, `GetBucket`...), replies
that go on within the call or return (`PutGoesOn`, `FindGoesOn`...), failures
(`RaiseBucket`), and the server, which gives a call its moment (`ServeBucket`)
or does late what one has left (`LateBucket`). A put is new to the bucket
because its id is unused, by `Store`, `Sound` and `Puts`.

### `CollectionProofs`

`EnsureOutcome` follows from `RaceInv`: from the moment a
listing without the collection is answered until the `create` is served, a
collection that is there is a rival's. `OwnNamespace` follows from the two
lists of the builder only ever growing at their ends: the `nsInfo` a caller
holds is a beginning of `_namespaces`, so an index means the same in both.

`WritesReported` is about commands of any number of writes, and its proof is an
induction over the writes. `ApplyAll` is a recursive function on `0..Len(ws)`.
`SetInduction` derives induction over a set of numbers from the well-foundedness
of `<`; with it `ApplyAllDef` shows that the function exists and satisfies its
equation, and `ApplyAllFacts` what it keeps (a failed write is counted as failed,
and nothing else is).
`TypeInv` adds what a caller was told (`Told`): a reply has failures exactly when
not everything was applied (`Honest`), and the method raises exactly then.

### `ConnectProofs`

`Stage` says for each phase of a connection what its message, its reply and the
server's view of it can be. The reply to the last message of a conversation is
only good if the server has taken the connection for the client's user, and
nothing but a `logout` on that connection takes it back: `HandshakeSettles`.
`GoesOn` says, for good credentials, that each reply lets the handshake go on:
the mechanism the node offers is one the user has, and the secret of the
conversation is the one the proof was made of. `Lookout` follows what `from_uri`
was told until it has a target and on to the next election; `Compressed` that a
compressor was asked for and is offered when it is set, and that a handshake that
lacks its module does not become ready. `Exceptions` keeps the reply with the
exception made of it, from which `CodesKept` is a matter of `GetException`.

### Assumptions

Beside the kinds of the constants (finite sets, numbers, sets of records) the
proofs use the following, which TLC evaluates in every run:

* `NoConn`, `NoId`, `None`, `"pool"` and `"gone"`, which stand for the absence
  of a value, are not values (`ConnsAssumption`, `OwnersAssumption`,
  `IdsAssumption`, `NoneAssumption`, `NamesAssumption`);
* a chunk size is not 0, as `put` replaces 0 by the default
  (`gridfs.py:136`, `SizesAssumption`);
* a user has a mechanism to authenticate with, as a server does not create one
  without (`UsersAssumption`); the compressors a program asks for are finitely
  many (`ProgramsAssumption`);
* -1 is not a code of `codes.py` (`NamesAssumption`), and an error reply has
  another code if it has one;
* the errors 13 (not authorized) and 10107 (not primary) come from the server's
  own rules, which are in the model, and not from the replies a run adds
  (`RepliesAssumption`);
* calls and writes have the arguments of the methods (`CallsAssumption`), and a
  server has collections from the names considered (`DatabasesAssumption`).

### Model-checked only

* `WaiterServed` and `StubbornGets`: liveness under fairness is beyond TLAPS.
* `DumpAccepted`, `ValidatedParses` and `RoundTrip`: `Schema` describes nested
  values, and annotations inside annotations, with RECURSIVE operators, about
  which the provers cannot be asked.

Everything else that a passing run checks is stated by a theorem. Conversely,
that the variables of `GridFS` and of `Collection` keep their types is proved
(`TypeCorrect`), for all constants, and left out of the runs of those two
modules. The violated properties have no theorem, of course: their runs are the
counterexamples.

## Findings

* `txn_outside`: once a failed command has ended the `Transaction` locally,
  `transport.py:119` sends further commands of the block without transaction
  fields; they take effect at once.
* `txn_left`: `action_count` counts replies. If the reply of the first command
  is lost, the server has a transaction that `__aexit__` (`transaction.py:110`)
  neither commits nor aborts.
* `gridfs_read`: `Collection.aggregate` fetches at most two batches
  (`collection.py:440`), so a file that does not fit into them is returned
  without its end, or cannot be read at all when its sha1 is checked.
* `documents_insert`: `insert_one` and `insert_many` add a field `id`
  (`collection.py:143`, `:186`) that a generated schema does not admit. For a
  plain dictionary it also means that a repeated insert stores a second document:
  the server, not `id`, decides the `_id`.

## Not modelled

Not modelled, since each is one request with its arguments copied, no state of
its own, and an effect on nothing the properties speak of: the administrative
methods of `Kover` (parameters, logs, `fsync`, replica set configuration,
sessions beyond `start_session`), users and roles of `Database` (a changed user
is a step of `Connect`), `Collection.distinct` and `re_index`, `GridFS.exists`,
`list` and `indexed`. Models that only hold data, type aliases and re-exports
have no control. `model_configure`, collations, hints, array filters and `let`
are passed through. The layout of messages is abstracted to header and body,
and parsing of URIs is pymongo's. TLS and name resolution are outside the
repository.

Known limits of the code that no property states: `Kover.__aexit__` returns
`True` and so swallows the exception of its block (`client.py:76`);
`list_collections` and `list_indexes` read one batch (`database.py:81`,
`collection.py:595`); `OperationFailure.__init__` overwrites the `err_info` of
the class (`exceptions.py:17`); a URI's database is not the one authenticated
against (`uri_parser.py:29`); after `close()` a request waits for ever; `put` of
an empty file divides zero by zero, and with a `chunk_size` of some 16 KiB or
less a file that fills a group makes a command larger than a server takes, as
`gridfs.py:97` counts only data against `SIZE_LIMIT` and not what each chunk's
document adds (the default of 255 KiB fits). `GridFS` has both, as puts that raise
before anything is stored.

Out of reach of the proofs are the two liveness properties, as TLAPS does not
reason about fairness, and the three of `Documents`, whose values and
annotations nest. What recursion there is over numbers, in `BulkWrite`, is
proved about; a theorem on flat classes alone would say little, since what is
hard about the schema is how unions, lists and nested documents combine.
