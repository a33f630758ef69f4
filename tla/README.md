# LMJCore-Web: a verification project

LMJCore-Web is an HTTP server in C over the storage engine LMJCore, which stores
objects (member names to values) and sets in LMDB.  This directory models the
server's own logic in TLA+, checks it with TLC on small instances and proves what
matters most with TLAPS for every instance.

Contents: [the system](#the-system), [modules](#modules-and-the-code),
[runs](#runs-what-each-checks-and-shows), [bounds](#bounds),
[fairness](#fairness), [proofs](#proofs),
[disagreements with the documentation](#where-the-code-and-its-documentation-disagree),
[assumptions](#assumptions-about-code-that-is-not-here),
[abstractions](#abstractions), [not modelled](#not-modelled), [plan](#plan).

Paths below are relative to the repository (`src/` is its C code, `include/` its
headers, `doc/` its documents).

## The system

| Component | State | Operations | Interacts with | What makes it hard | Correct when |
|---|---|---|---|---|---|
| Lifecycle (`src/main.c`, `src/http_server.c` 277-503) | `running`, `listen_fd`, `g_server`, `g_server_stopping`, router, environment | init, start (socket, bind, listen, accept loop), signal handler, stop, destroy | one detached thread per connection; the kernel's signals | a signal at any point of the main thread; threads outlive the loop | a signal ends the process; a descriptor is closed once; what was accepted is served or closed |
| Connection thread (`http_server.c` 133-273, `http_parser.c`) | buffer, parser, request, response | one `recv`, parse, route, handler, build, send, close | parser, router, handlers | a request in pieces; memory; a response that does not fit | one response per request, which tells what happened |
| Transactions (`include/handle_utils.h` 36-88, `handle_utils.c` 302-313) | `txn`, `txn_owned`, start time | begin, commit, abort, check timeout | every handler; LMDB's single writer | which handler owns the transaction; every error path must close it; the clock | a request is all or nothing, on one version of the store |
| Batches (`src/handlers/batch_handle.c`) | results so far, index, bindings | refuse, loop, resolve `vars`, execute an operation, commit or report | the router and all handlers, itself (nested) | failure half way; nesting; references; read-only batches | one transaction for all of it; a read-only batch never writes |
| Objects, sets, existence (`obj_handle.c`, `set_handle.c`, `utils_handle.c`) | none; the view of the transaction | create, init, get, put/add, delete/remove, exist | engine, codec, nested values | check then act; init fails half way | refuse exactly what they must; leave the rest of the view alone |
| Nested values (`nested_value.c`) | none | recursive creation | codec, engine | depth, partial trees | tree stored = tree sent, or nothing |
| Chain queries (`query_path.c`, `query_handle.c`) | cursor, segment | segments, traversal, leaf | capped read, codec | limits, positions in errors | the leaf a walk by single reads would find |
| Codec and capped read (`handle_utils.c`) | buffer | encode, decode, growing read | engine | limits, tag bytes | round trip; largest value exactly at the limit |
| Responses (`json_response.c`, `error_codes.h`) | `status_code`, `json` | build, map error codes | all handlers | memory failures | never a success for a failure |
| Routes (`routes.c`), parameters (`handle_utils.c` 13-37) | table | register, match (library), get parameter | batches reuse it | truncation, four rotating buffers | the handler the table says |
| Configuration (`config.c`) | one record | defaults, arguments, file | lifecycle | precedence, widths | the source the documents say wins, and in it the last word |
| Health (`utils_handle.c` 69-82) | `g_start_time` | health | threads share the static | a race on first use | uptime counts from the start |

The hazards, one by one and at their lines, are in `PROJECT.json`; each names the
properties that would catch it going wrong, or says why there is none.

## Modules and the code

```
LMJStore           the engine, as the handlers use it (external)
  Handlers         handlers as functions on a transaction's view
    TxnServer      threads, transactions, batches, clock, failures
      TxnProperties    safety, action and liveness properties
        TxnInvariant   the inductive invariant
          TxnProofs    its proof, and the theorems, about handlers too
      SerialRun        the serial meaning of a request
        TxnRefinement  TxnServer implements AtomicStore
          TxnRefinementProofs  and its proof (extends TxnProofs too)
  NestedInit       an init, node by node
  QueryPath        a chain query with its capped read
    NestedQuery    both on one store (extends the two)
      NestedProperties  what they promise each other
        NestedProofs    theorems
AtomicStore        what clients are promised
HttpConn           one connection: input, parser, dispatch, response
  HttpConnProofs   theorems
Characters         texts
  BatchVars        the vars of a batched operation
  MemberName       parameters, segments and URL decoding
    TextPath       both, one after the other (extends the two)
      TextProperties    what replacing and decoding promise
      TextProofs        theorems
ServerConfig       settings
  ConfigProofs     theorems
ServerLifecycle    start, accept, signals, stop, exit
  LifecycleProofs  theorems
InductionLemmas    induction over numbers, for the proofs about loops and trees
MCTxnServer, MCHttpConn, MCNestedQuery, MCDeepArray, MCTextPath, MCServerConfig
                   instances for TLC
```

How they fit: `HttpConn` is what `TxnServer` takes as one step on both sides of a
handler (`Receive`, `Respond`); `NestedInit` is what `Handlers` takes as one step
of an init, and `QueryPath` the handler that `Handlers` leaves out; `BatchVars` is
the `Substitute` of `TxnServer` for any number of tokens; `ServerConfig` is where
the limits of the others come from.

**LMJStore.** A database is a value: each object pointer has a function from names
to values or `None`, each set pointer a set.  An entity exists when it has an entry
(`doc/lmjcore-web/API_REFERENCE.md` 103-111).

**Handlers.** Between its timeout check and its commit, a handler touches nothing
but its transaction, so it is a function from the view, the operation and the
pointers the engine would generate to a new view and a result.  The order of its
checks is that of the code: pointer, existence, kind of entity, value, the engine's
answer.  A failed init returns the entries it has written in its view: undoing them
is left to the transaction, as in the code.

**TxnServer.** One thread per connection and one request per connection.  `pc` is
where the thread is: `parsed` (routed, no transaction), `loop` (head of the batch
loop), `exec` (an operation is about to run), `end` (all have run), `cleanup` (the
label of that name, which rolls back), `respond`, `done`.  `frames` is the stack of
handlers of the thread: a batch that contains a batch calls `handle_batch_core`
again, on the transaction in `hp->txn`.  Only the bottom frame owns the transaction
(`txn_owned`), so only it commits or aborts.  `writer` is LMDB's write lock.  Each
transaction keeps the database it began with (`base`) and its private `view`; the
store changes at `Commit` alone.  `age` is what `difftime` would give.

| Actions | Code |
|---|---|
| `Receive`, `Reject` | `handle_connection_thread` up to the handler; the handlers' checks before `TXN_BEGIN` |
| `Begin`, `BeginFails` | `TXN_BEGIN` |
| `NextOperation`, `BatchTimeout`, `BatchDone` | the loop of `handle_batch_core` with `resolve_vars` |
| `EnterBatch`, `Execute`, `HandlerTimeout` | `execute_operation`, the handlers, `TXN_CHECK_TIMEOUT` |
| `Commit`, `CommitFails`, `FinishRead`, `Cleanup` | `TXN_COMMIT`, `TXN_ABORT` at the end and at the label `cleanup` |
| `AllocationFails` | every `malloc` and cJSON failure while the transaction is open |
| `Respond` | `http_build_response` and what `handle_connection_thread` makes of its failure |
| `Tick` | the wall clock |

**SerialRun** defines what a request means when it runs alone, from start to end,
on one database (`Effect`): a recursive function over its operations (`RunAll`, whose
turn is `Operate`) that knows nothing of threads, transactions or time.  **AtomicStore** is the promise to
clients: a request is asked, takes effect at one instant or is given up, and is
answered.  **TxnRefinement** maps the server to it: a write is decided at its
commit, a read when it takes its snapshot.

**ServerLifecycle.** The main thread step by step from `http_server_init` to the
return of `main`; the signal handler, which may run between any two of those steps;
the threads, which go from `reading` through `routing` and `serving` to
`answered`.  `listen_fd` is `"stale"` when a descriptor was closed and its number
kept; `strays` counts closes of such a number.

**HttpConn.** One connection.  What a client sends is a sequence of tokens: method,
URL, header names and values, pieces of a body, ends of messages, and what llhttp
does not accept.  They arrive one by one, before or after the one `recv`, and every
token in the buffer is one callback.  `ctx` is the parser's context with
`local_request`, `lost` counts strings that nothing points to any more, `outcome`
remembers what a handler decided, `left`, `unread` and `delivered` follow the
response out through `send`.  A piece of a body may hold a NUL: the handler is given
what is before it (`UpToNul`), since `strdup` copies the body.  When the socket is
closed, or a segment comes after that, and the one `recv` has not read all, the
kernel resets the connection and may drop what the client has not read (`MayDrop`).

| Actions | Code |
|---|---|
| `http_parser_create`, `read_http_request`, `ReadFails` | `http_parser_create`, `read_http_request`, the beginning of `handle_connection_thread` |
| `on_method`, `on_url`, `on_header_field`, `on_header_value`, `on_body`, `on_message_complete` | the callbacks (`http_parser.c` 70-177; llhttp keeps the method) |
| `ParseError`, `NullDereference`, `http_parser_execute`, `http_parser_get_request`, `GetRequestFails` | `http_parser.c` 179-283 |
| `Options`, `NotFound`, `Handler` | `http_server.c` 155-223 |
| `http_build_response`, `BuildFails`, `SendOversize` | `http_build_response`, `http_server.c` 225-262 |
| `send_http_response`, `SendEnds`, `Free` | `send_http_response`, the end of the thread |
| `Arrive`, `CloseSending`, `Reset`, `Read` | the client and the network |

**NestedInit, QueryPath, NestedQuery.** `NestedInit` is `POST /obj/init` and
`/set/init`: the mutual recursion of `encode_obj_node` and `encode_array_node` as a
stack of frames, one child of one node per step.  `trail` has the place of every
call that has returned with the failure; `message` is what the client gets of that:
which places are left of it and how long it is, in the buffers of `fail_in`
(`TmpMax`, `CtxMax`) and of the handler (`ReplyMax`).  `QueryPath` is
`GET /obj/query`: `segments_parse`, one `Follow` per member in between, and the
capped read, whose buffer doubles (`Grow`).  `NestedQuery` runs both on one store,
each in its own transaction, so a query may begin before, during or after an init.

| Actions | Code |
|---|---|
| `Refuse`, `ParseFails`, `Begin`, `BeginFails` | `handle_obj_init`, `handle_set_init` up to the loop |
| `EncodeScalar`, `EnterNested`, `LeaveNested`, `KidRefused`, `KidFails`, `RefFails`, `Unwind` | `nested_value.c` and the loops of both handlers |
| `Finish`, `Commit`, `CommitFails`, `Cleanup` | their ends |
| `BeginQueryFails` | `TXN_BEGIN` and `TXN_CHECK_TIMEOUT` of `handle_obj_query` |
| `Parse`, `Root`, `Follow` | `query_path.c` 101-330 |
| `StartRead`, `Grow`, `Read`, `QueryAllocFails` | `lmjcore_obj_member_get_capped`, `lmjcore_decode_value` |

**Characters, BatchVars, MemberName, TextPath.** What happens to a text between the
request and the name it stands for.  `BatchVars` is `resolve_vars` with its two
loops over a string: `Measure` is a turn of the first, `Write` of the second.
`MemberName` is `route_params_get`, the cutting of a query at its dots, and
`url_decode`, one turn of its loop per `Decode`.  `TextPath` composes them: the
handler decodes what the vars have left of the path.  `TextProperties` has the
reference definitions: replacing as the documentation describes it, without a loop
(`IsReplaced`), and the names a client has encoded (`op.meant`).

| Actions | Code |
|---|---|
| `Bind`, `Bound`, `VarsAllocFails` | `resolve_vars` |
| `Measure`, `Measured`, `Write`, `Written` | `match_binding`, `substitute_string`, `substitute_walk` |
| `Dispatch`, `CountSegments`, `Segment`, `SegmentAllocFails` | `route_params_get`, `segments_parse`, the member handlers |
| `Decode`, `DecodeFails`, `Decoded` | `url_decode` |

**ServerConfig.** From the defaults to what the server is started with, one action
per option and per line of the file, which comes second and overwrites; then `http_server_init` replaces what it cannot
use.  Integers have the width the constants give them: `parse_int` narrows a long,
and where `parse_size` overflows a signed product both outcomes a build can have are
allowed.

Definitions that carry a comment "Mutant:" are plausible bugs in the definition
after them; no specification uses them.  Each shows that a property notices the bug.

## Runs: what each checks and shows

| Run | Property | What it says |
|---|---|---|
| `txn_race` | `TypeOK` | types |
| | `NoLostUpdate` | a write transaction works on the latest committed database, and holds the lock: what it has read is still true when it commits |
| | `NothingLeaks` | on every path a finished request has closed its transaction and freed the lock |
| | `RefusedHasNoEffect` | 400, 404, 408 and 409 mean: nothing happened |
| | `AllOrNothing` | the store changes only by a whole outermost request, on the database it began with |
| | `LateNeverSucceeds` | a request whose time is used up while it has operations left never commits and never reports success, however deep in batches it is |
| | `EveryRequestAnswered` | no thread waits for a lock it holds itself, and every path gives the lock back |
| `txn_atomic` | `Linearizable` | the server implements `AtomicStore`: each request is its serial meaning on the database of one instant, or nothing; the reads of a batch, nested batches included, see one version |
| | `ReadOnlyBatchNeverWrites` | also when the read-only batch is nested in one that writes |
| `lifecycle` | `TypeOK`, `DescriptorClosedOnce`, `AcceptedIsOwned` | signals anywhere and failing calls: the socket is closed once, no connection is forgotten |
| | `StopsAfterSignal` | a signal that finds the accept loop running ends the process |
| `connection` | `TypeOK` | types |
| | `WholeRequest` | however a stream is cut and whatever follows it, no handler gets the URL of a message that has not ended, or less of its body than what is before its first NUL |
| | `SuccessIsDecided` | a status below 400 is the one a handler (or `OPTIONS`) decided on, whatever failed before or after; about all requests that had a parser |
| | `AnsweredWhole` | a client that is there, and of which all was read, gets the whole response, though `send` takes a part at a time |
| | `ConnectionEnds` | a thread ends once its client has done anything |
| `nested` | `TypeOK`, `DepthBounded` | types; the recursion is no deeper than the limit |
| | `NothingUntilCommitted` | the whole tree is stored in one step, or nothing; an init in a batch stores nothing itself |
| | `StoredIsSent`, `CountIsStored` | after a 201 the transaction holds the tree that was sent and all that was there before; the count is that of what is stored |
| | `VerdictFitsTheTree`, `ErrorNamesThePlace` | a tree is refused for its keys or its height, or as invalid JSON when parsing runs out of memory; the places of the way lead to a key or a depth at fault, and the message has the reason, the innermost of them as far as its buffers reach, and then that in the body |
| | `NothingOrphaned` | every entity made can be reached from the answered pointer (unless a key repeats) |
| | `LimitIsExact`, `QueryIsWalk` | the capped read draws its line exactly at the limit; a query gives what exact reads one after the other would, errors with their places included |
| | `SentIsFound` | what an init was sent, a query finds at the same place |
| | `BothEnd` | both come to their end |
| `text` | `DecodeStaysInside` | `url_decode` stays inside its buffer and its text |
| | `SegmentsAlwaysDecode` | one byte more than the segment is always enough |
| | `MeasuredIsWritten` | the second pass of `substitute_string` writes exactly what the first has measured |
| | `ReplacedAsDocumented` | tokens are replaced at the earliest place, the longest first, once; an operation whose reference does not hold is not run |
| | `NamesAreMeant` | a handler works on the names the client has encoded, or refuses a name that is too long |
| | `TextEnds` | every operation comes to its names or to a refusal |
| `config` | `TypeOK` | types |
| | `LastWordCounts` | a setting is what was said of it last, in one of the two orders of command line and file (which one is the question of `CommandLineWins`, [below](#where-the-code-and-its-documentation-disagree)); what makes no sense in the file is passed over, what nobody mentions keeps its default, and what wraps or is cut changes only its own setting, until the next word on it |
| | `ServedIsUsable` | however numbers wrap, the port, the queue, the map and the limits a server starts with are above zero |
| | `BadOptionStops` | an option that cannot be read ends the program before it has opened anything |

Each of these has a mutant in `PROJECT.json` that violates it.  Five more runs are
expected to find a violation, and there are configurations beside the listed runs;
see [below](#where-the-code-and-its-documentation-disagree).  The type invariant of
`TextPath` is proved (`TextProofs!TypeCorrect`) and not part of its run.

## Bounds

- Transactions: two connections (three in `TxnLive.cfg`, which checks
  `EveryRequestAnswered` alone), one request each: the server closes a
  connection after one response, so a second request is another connection.  A lost
  update, a torn read and a leaked lock each need two; three show that waiting for
  the lock does not depend on who waits.
- One object with two member names, one set, two texts and one token; two fresh
  pointers of each kind per connection.  The object starts with one member and the
  set with one element, so deleting the last entry, and with it the entity, happens.
- Batches of up to three operations, nested two deep in `nested` and `nestedSneak`.
  `MaxOperations = 4` stands for 1000; the empty batch is among the requests.
- `MaxCalls = 6` bounds the handlers one request may run (a guard of `Execute`; the
  longest batch of the instances runs five), `Timeout` is 0 (off), 1 or 2
  clock seconds.  Time may pass between any two steps, so a timeout can strike
  before every operation.  A negative timeout acts like 0 and is not among the values.  The proofs have none of these bounds.
- `txn_atomic` uses every kind of request and only the failure of commits, because
  every other failure gives up in the same way before anything is decided;
  `txn_race` has all failures, with fewer requests.
- `txn_atomic` is symmetric in its connections: they differ only in the pointers
  generated for them, and those are permuted with them.  It checks no liveness.
- Lifecycle: two connections, two signals (the second must be ignored).
- Connection: one message or two in a row, with a header, a body of two pieces, and
  what may be wrong with each, a NUL in the body among it; a buffer of 8 tokens, so that two messages that follow
  each other do not all fit; a response in three pieces through a window of two.
- Nested: messages in buffers of 4 and 6 and a `ctx` of 3, with reasons of one
  character, so that places are cut in `ctx`, in the middle and in the body, and
  shorter messages are whole (`MCDeepArray` has the sizes of the program, on one
  tree); trees of up to four levels with `NestMax = 2`, keys that are empty, too
  long or repeated, arrays with equal elements, both routes, alone and in a batch;
  values shorter than a reference, of the limit, and one byte over, with a buffer
  that must double twice; paths of up to five segments with a limit of three,
  through a cycle, a set, a text and an empty segment.
- Text: two digits, so that four characters have an escape, the percent sign, the
  dot and the zero among them; all texts of up to four characters from a percent
  sign, digits, a dot and a letter; names of up to three characters with every choice
  of what else is escaped; a parameter of 6 and a name of 3 characters; two tokens
  out of three that overlap, with values that are empty, longer, and hold tokens.
- Config: an int of 4 bits, a long of 8 and a kilobyte of 4 bytes, so that small
  numbers leave their words; a path that fits and one that is cut; two options and two lines, so that each can come before
  and after each other.

## Fairness

`TxnProperties!Fairness` is weak fairness of each thread's own work (`Proceed`) once
its request is there: threads are scheduled by the operating system, and nothing has
to fail, so the failing steps are not in it.  `Begin` of a writer may be disabled
again and again while others hold the lock, but each connection takes the lock once,
so with finitely many connections weak fairness is enough; nothing is assumed
about the order in which LMDB's mutex is granted.  Receiving is not fair (a client
may never send), nor is `Tick`.  In the lifecycle the main thread's work
(`MainProceeds`, again without failures) and the threads of connections are weakly
fair; clients and signals are not.  In `HttpConn` the thread is weakly fair, and so
is the client's reading: the code sets no time limit, and a client that never reads
keeps its thread; sending is not fair, so `ConnectionEnds` starts when the client has
sent, closed or gone.  `NestedQuery` and `TextPath` have weak fairness of the work of
each thread, without its failures; a query need not be asked.  Where a configuration
turns the deadlock check off it says why: a server without clients waits in
`accept`, as it should, and a query may never come.

## Proofs

From the named assumptions on constants alone, so for any number of connections, any
store, trees, texts, limits, widths and faults:

| Module | Theorems |
|---|---|
| `TxnProofs` | `TypeOK`, `NoLostUpdate`, `NothingLeaks`, `RefusedHasNoEffect` are invariants; every step satisfies `AllOrNothing` and `ReadOnlyBatchNeverWrites`, every behavior `LateNeverSucceeds`; a handler returns a database and a result, a handler of a read the view it was given |
| `TxnRefinementProofs` | `Linearizable`: `TxnServer` implements `AtomicStore` |
| `LifecycleProofs` | `TypeOK`, `AcceptedIsOwned`, and `DescriptorClosedOnce` if bind and listen do not fail |
| `HttpConnProofs` | `TypeOK`, `WholeRequest`, `SuccessIsDecided`, `AnsweredWhole` |
| `NestedProofs` | `TypeOK`, `DepthBounded`, `NothingUntilCommitted`, `LimitIsExact`; `StoredIsSent`, `VerdictFitsTheTree`, `ErrorNamesThePlace`, `NothingOrphaned`, `CountIsStored`; `QueryIsWalk`; and of both together `SentIsFound` |
| `TextProofs` | `TypeOK`, `DecodeStaysInside`, `SegmentsAlwaysDecode`, `MeasuredIsWritten`, `ReplacedAsDocumented`, `NamesAreMeant` |
| `ConfigProofs` | `TypeOK`, `ServedIsUsable`, `BadOptionStops`, `LastWordCounts` |
| `InductionLemmas` | what the others need of induction |

Hardly any of these is inductive by itself.  What makes them so:

**Transactions** (`TxnInvariant!Invariant`).
- `TxnWhileOpen`: a thread has a transaction exactly while it is at `loop`, `exec`,
  `end` or `cleanup`; from this `NothingLeaks`.
- `LockHeld`, `BaseIsLatest`: the lock is held by the connection whose transaction
  writes, so the store cannot change under it; from this `NoLostUpdate`, and the
  second half of `AllOrNothing`.
- `Stacks`: the stack of handlers is well formed: results never outnumber the
  operations, a handler below another waits at an operation that is due, a
  read-only batch has no write among its operations and only read-only batches above
  it, and at `end` one frame is left, with all operations run.  From this the first
  half of `AllOrNothing`, and `ReadOnlyBatchNeverWrites`, with
  `ReadKeepsView`.
- `CommitIsAnswered`: a committed request has a status below 400, and is answered
  with it, or with the 413 or 500 of a response that could not be sent; from this
  `RefusedHasNoEffect`.

For `LateNeverSucceeds`: a request that is late with work left (`Late`) stays so or is
given up: it is at the loop or at a handler, whose checks lead to `cleanup` or to a
failed result, and a failed result in a batch above to its own failure; none of these
ends in a commit or a status below 400.

The proof has a lemma per operation on stacks (push, pop, record, substitute), one
per kind of step, and puts them together in `Inductive`.

**Linearizability** (`TxnRefinementProofs!Implementing`).  `AtomicStore` decides a
request at once, with its serial meaning; the server has run some of its operations,
on a stack of handlers.
- That the serial meaning is a sound recursion: `RunAll` asks for the rest of a
  sequence and for the batch its first operation carries, and both are smaller,
  since a request is finite (`NestingAssumption`).  `RunAllIs` then gives the equation
  that `SerialRun` writes down, and `RunFrom` one turn of it.
- `Promise`: what the thread has done so far, followed by what it has still to do, is
  the run of the whole request on the database it began with.  `Left` is the run of
  the handler on top from where it stands, `Waits` that of a handler below, once the
  one above has ended, and `Ends` ties the whole stack together.  At the end of the
  stack nothing is left, so the view that is committed and the results that are
  reported are those of the serial run.
- `ReadEffect`: a request of reads leaves the database as it was, so its decision can
  stand at its snapshot, while others commit.
- `Serves` says what a thread has of its request at each point; from `TxnInvariant`
  come the lock and `BaseIsLatest`, by which a write is decided on the committed
  database.

The steps map as follows; all others, the clock included, are stutters.  A lone read
that its handler refuses has that decision since `Begin`.  That a batch may be given
up with 400 is the promise `AtomicStore` makes, since a late operation in it ends so;
what an operation of a batch fails for is not told apart from that, and either way
nothing has happened.

| `TxnServer` | `AtomicStore` |
|---|---|
| `Receive` | `Ask` |
| `Reject`; `Begin` of a read; `Commit`; a lone write that its handler refuses | `Decide` |
| an operation of a batch that fails or is refused; `BatchTimeout`, `HandlerTimeout`, `AllocationFails`, `BeginFails`, `CommitFails` | `GiveUp` |
| `Respond` | `Answer` |

**Lifecycle.** The main thread owns a connection exactly while it starts its thread;
no closed descriptor is kept.

**Connection.** `Collected`: every piece of a body that has been parsed is in the
parser's body, and there is a URL only once its message has ended.  In a stream of
messages (`WellFormed`) the pieces of a message come before its end, and the copy keeps what is before a NUL
(`UpToNul`); from this `WholeRequest`.  `Decided` follows the status from the handler to the answer; `Sum`
says that the parts that are left, unread and delivered make up the response, unless
the close has dropped some, which needs input that was not read.

**Nested, the calls.** Below the top every frame waits at a nested child (`Waiting`),
and a frame is pushed only below the limit, so the height of the stack is bounded.
`Causeless`: a commit is reached only without a failure.  For the capped read, the
buffer never exceeds the limit, and a value that does not fit a buffer of the limit
is longer.

**Nested, the tree** (`TreeInv`).  The properties speak of the whole tree, level by
level; the code goes down into it and back.  What connects them:
- `DescentInv`: the stack is a way down the tree, each call at the kid the next one
  is about.
- `FineInv`: what is behind the calls is without fault.  That a subtree is without
  fault to its bottom is said without going there: there is a set of pairs of a node
  and a depth that holds the subtree's root, whose nodes have names for keys and
  stand within the limit, and that holds with a node all of its kids (`Sound`,
  `Fine`).  It follows for a node when it is known of all its kids, which is what a
  loop that has come to its end knows.  From this, and from the kid that was refused,
  `VerdictFitsTheTree`.
- `ErrorInv`: while the failure is passed up, there is a full stack (`Passed`) of
  which the calls that have returned have left their places in `trail`; and
  `MessageInv`: the message has the first places of `trail`, and while any is missing
  its buffer is full (`PrintedIs`); from these `ErrorNamesThePlace`.  A place, cut to
  `ctx`, always has room behind a reason: an assumption on the sizes
  (`CauseAssumption`), so the place at fault itself is never lost.
- `BuildInv`: there is a relation of stored values to the nodes they stand for, in
  which every entity is complete (`Closed`), and the entity of each call in progress
  holds the first kids of its node, up to where the call is (`Building`, `Holds`).
  Completed entities are never touched again, since pointers are new
  (`FreshAssumption`), and what was stored before is as it was (`Untouched`).
  `Birth` and `Growing` know which entity belongs to which call; `Held`: one that
  nothing refers to is still being filled, if keys do not repeat.
- `SentInv` keeps all of that from the last kid to the answer; from it
  `StoredIsSent`, `NothingOrphaned` and `CountIsStored`.

**Queries.** `WayInv`: there is a way of objects from the root of the path to where
the query is.  For `SentIsFound`, a way along keys of the tree leads through the
objects that the relation of `SentInv` has for its nodes, and so ends at the text.

**Text.** `DecoderBound`: the decoder has written no more than it has read, so a
segment never fills a buffer of its own length and one more.  For `MeasuredIsWritten`
and `ReplacedAsDocumented`, a pass (`PassInv`) is at a place that is not inside a
token the documentation has replaced, and has counted, or written, what stands for
the characters before it.  For `NamesAreMeant` (`MeaningInv`), the decoder has the
beginning of the name the client meant, and what is left of its text spells the rest
(`DecodesTo`).

**Config.** A size that was accepted is not negative (`parse_size` tests the sign of
what it stores), so what `http_server_init` leaves is above zero; a bad option is
`None` to its parser, or a level out of range, however it wraps.  For
`LastWordCounts`, each setting is what the last of the words read so far makes it, with
the file behind the command line (`FileHasTheLastWord`).

**Induction.** The library's induction theorems have an operator for a parameter, which
the provers cannot instantiate.  `InductionLemmas` has them for sets: every set of
numbers that is not empty has a smallest one (from the library's well-foundedness of
`<`), so a set with 0, and with n + 1 for each n in it, is all numbers; so what is
defined by its first value and a step from each to the next exists
(`IterationExists`), and a recursive function is what it says it is.  The reference
definitions the theorems speak of are such functions, and no `RECURSIVE` operators.

Every invariant and action property of a passing run, and the refinement, has a
theorem.  Model-checked only: the liveness properties (`EveryRequestAnswered`,
`StopsAfterSignal`, `ConnectionEnds`, `BothEnd`, `TextEnds`), which need fairness and
`ENABLED`.

## Where the code and its documentation disagree

Each of the listed runs has one property that says what is written, and TLC finds it
violated:

| Run | What is written | What the code does |
|---|---|---|
| `txn_overrun` | `lmjcore.conf` 39: transactions that exceed `txn_timeout` are rolled back | the clock is read before each handler and each operation of a batch, never before the commit |
| `txn_error_reply` | `API_REFERENCE.md` 380: when a batch fails, what it executed does not take effect | a response over 32 KiB is replaced by 413 after the commit |
| `txn_empty_entity` | `nested_value.c` 154: an empty object can be filled later; `tests/api_test.html` 1040-1070 does so | `PUT` and `POST .../elements` require an entity that exists, and an empty one does not |
| `lifecycle_drain` | `http_server.h` 68: stop waits for current connections | detached threads, nobody waits; router and environment go away under them |
| `lifecycle_ctrl_c` | the message "Press Ctrl+C to stop" (`http_server.c` 396) | `running = true` (399) overwrites a stop that came before it, and `g_server_stopping` makes the handler ignore later signals |

Configurations beside the listed runs, each with one property that TLC finds violated
(`tlc -config <file>.cfg <module>`).  They are as much a result as the runs; the
passing runs promise nothing that contradicts them.

| Configuration | Module | Property | What is written | What the code does |
|---|---|---|---|---|
| `ConfigPrecedence` | `MCServerConfig` | `CommandLineWins` | `lmjcore_web.md` 406, `README.md` 57, `API_REFERENCE.md` 25, `main.c` 42: the command line has the highest priority | the file is read after it and overwrites it |
| `NestedPlaces` | `MCDeepArray` | `EveryLevelNamed` | `API_REFERENCE.md` 667 and 1055, `obj_handle.c` 505, `set_handle.c` 415: the error has the place of every level | `tmp[768]` of `fail_in` cuts the places of outer levels; its comment promises only that the reason stays |
| `ConnPipelined` | `MCHttpConn` | `OneMessage` | `lmjcore_web.md` 139: pipelining is supported | messages in one segment are collected into one request: the first one's URL may go with the last one's method |
| `ConnNoParser` | `MCHttpConn` | `OutOfMemoryIsAnError` | `lmjcore_web.md` 354: a failed allocation is a 500; `http_parser.c` 362 expects an error status | without a parser no status is set, and a response without one says 200 |
| `ConnLost` | `MCHttpConn` | `DestroyReleasesAll` | `http_parser.c` 298: destroy releases the request's strings | a repeated header overwrites the pointer to the first one |
| `NestedCount` | `MCNestedQuery` | `CountIsWritten` | `API_REFERENCE.md` 673: `member_count` is the number of members written | a repeated key counts twice |
| `NestedDepth` | `MCNestedQuery` | `ReachableWithDefaults` | `QUERY_DESIGN.md` 103: `query_max_depth` is symmetric to the nesting limit | segments count from 1 and levels from 0: the deepest level that can be stored cannot be asked for |
| `TextLong` | `MCTextPath` | `LongNamesAreMeant` | `lmjcore_web.md` 525, `API_REFERENCE.md` 1190: names have up to 493 bytes | 493 bytes may take 1479 characters; a parameter is cut at 1023 without a word, and names another member |
| `ConfigTimeout` | `MCServerConfig` | `TimeoutStaysOn` | (none: a hazard) | a timeout that wraps to zero or below turns the check off |

Also seen while modelling: `main.c` 44 says that a file the user names must exist,
and goes on without it; an empty number counts as 0; `10 M` is ten bytes;
`API_REFERENCE.md` 1136 calls `uptime` the running time, and it starts with the first
request for it.  With `"bind"` among the faults, `DescriptorClosedOnce` fails: when
bind or listen fails, `http_server_start` closes the descriptor and keeps its number,
and a signal before the process ends closes it again.

## Assumptions about code that is not here

LMJCore, LMDB, the router, cJSON, llhttp and zlog are submodules without sources in
this repository.  Assumed, because the handlers rely on it:

- one write transaction at a time, opening a second waits; readers see the version
  that was committed last when they began, and never wait;
- a failed commit leaves the store unchanged; an abort undoes the transaction;
- an entity exists exactly when it has an entry; a pointer of the other kind is
  refused (400); generated pointers are new; adding an element twice is 409, removing
  an absent one 404 (`FreshAssumption` says of the pointers an init is given that they
  are different and name nothing in the store it begins with);
- `signal()` restarts `accept` (SA_RESTART) and signals are handled by the main
  thread, which never blocks them.
- asking for the statistics of an entity that was just made and is empty succeeds
  (`handle_set_init` counts the elements it has written that way);
- llhttp calls back once per token, goes on with the next message after a complete
  one, and stops at what it cannot accept;
- the router cuts parameters out of a path as they stand, still encoded.

About the constants, besides their types: a request is a finite text, so no batch
holds itself (`NestingAssumption`), and `None` is none of the values it stands for the
absence of (`ServerAssumption`).

## Abstractions

- In `TxnServer` a value is a text, a token or a pointer; sizes are left out, so 413 of a single
  value is too.  `null` values and numbers are not told apart from texts.
- `Malformed` and the kind `"bad"` stand for all that is refused on its shape (400), the
  kind `"unrouted"` for what no route matches (404).  A
  batched operation with an ill-formed pointer may report 408 instead of 400
  in the details when it is late: the code checks the pointer first.  Either way
  the batch fails with 400.
- In `TxnServer`, `vars` binds one token per operation, to the fields `ptr` and
  `value`; the body of an init holds none; the response of a nested batch has no field
  to refer to.  `BatchVars` has any number of tokens, fields and strings.
- The kinds of operation do not include the chain query (see `QueryPath`) and health.
- The response of a nested batch counts as one result; its data is dropped, since
  the same reads appear when the batch stands alone.
- `"alloc"` stands for every internal error while a transaction is open, and for a
  body whose parsing finds no memory, which the handlers answer 400 (`BeginFails`).
- `HttpConn`: bytes are tokens; a callback gets a whole token.  That llhttp may call
  back twice for one token happens only across buffers, and there is one buffer.
- `NestedInit`: of a message the length and the places are kept.  An element's place
  has one length whatever its index, a name that `ctx` cuts counts as shown by its
  beginning, and a place that a buffer cuts in the middle counts as lost.  The text of
  numbers is a text.
- `BatchVars`: the parameter stands for the path.  A `/` in a value that is put
  there changes the route, which the router decides.  A reference key of 512
  characters or more is refused like one that the response lacks.
- `MemberName`: a handler uses at most two of the four rotating parameter
  buffers, so they are not told apart; the pointer of a query is not part of its text.
- `ServerConfig`: a line is what `fgets` returns (1023 characters); of a text that
  `strncpy` cuts only that it was cut is kept; the file's comments and blanks are `blank`,
  what has no key the server knows is `noise`.

## Not modelled

- Health: one static that the first request sets (a race between two first requests
  that both write the present second); no state depends on it.
- Matching of paths, JSON parsing and printing, HTTP tokenizing, logging: libraries
  whose sources are not in the repository.
- The text of responses (`json_response.c`) and the logging set-up of `main`.
- `http_parser_reset`: it has no caller.
- Pointers as hexadecimal text (`lmjcore_ptr_from_hex`): a pointer is well formed or
  `Malformed`.

## Plan

Done: transactions, batches and handlers with their refinement and proofs; the
lifecycle; the connection; nested values and queries; texts, vars and names;
settings; each with proofs.  What is left:

1. The exit of the process (lifecycle) with open transactions (`TxnServer`): what an
   exit between any two steps leaves in the store.
2. `NestedInit` as a refinement of the one-step init of `Handlers`.
