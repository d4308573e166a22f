# TLA+ models of the mysql_xdevapi X Protocol client

These models cover the C++ core of the `mysql_xdevapi` PHP extension in
`src/`. They describe the X Protocol client engine in
`src/xmysqlnd/xmysqlnd_wireprotocol.cc`, the CRUD find builder in
`src/mysqlx_collection__find.cc`, and the byte codecs of the bundled CDK
(`codec.h`) and its foundation types (`types.h`, both under
`src/xmysqlnd/cdkbase/include/mysql/cdk/foundation/`). Each module
translates the code's control flow and keeps the data only as precise as the
properties need it.

## The system

| Part | Code | What it does |
|---|---|---|
| Continuation signal | `enum_hnd_func_status` (mysqlnd, not in `src/`) | Tells the loop what to do after a handler: PASS, FAIL, PASS_RETURN_FAIL, AGAIN or AGAIN_ASYNC. |
| Dispatch loop | `xmysqlnd_receive_message`, wireprotocol.cc 291-445 | Reads one framed message, validates its type and routes it to a slot of the exchange's handler table. It repeats while the handler answers HND_AGAIN. |
| Notice sub-dispatcher | `xmysqlnd_inspect_notice_frame_ex` and friends, 63-173, 1098-1169 | Routes a LOCAL Notice.Frame by type to the warning, session-variable or session-state callback. |
| Exchanges | CapabilitiesGet 480-611, CapabilitiesSet 613-733, AuthenticateStart 736-892, StmtExecute 1063-1825, ConClose 1828-1923 | Each has `send_request`, `init_read` (binds the caller's callbacks) and `read_response` (runs the loop with the exchange's private handler table). AuthenticateContinue (894-1061) is compiled out by `#if AUTH_CONTINUE`. |
| Typed value decoder | `xmysqlnd_row_field_to_zval`, 1298-1588 | Decodes one row field (varint, zigzag, double, float, bytes, time, datetime, set, decimal) for a column type. |
| Collection find builder | `mysqlx_collection__find.cc` | Holds the state of `Collection.find()`: fields, sort, group-by, having, limit, offset, bind and locking. `execute` runs it. |
| CDK number codec | `Number_codec<E>`, codec.h 245-570 | Reads an integer of type T from a buffer in byte order E, and writes one. A buffer shorter than T is read as the largest of 8, 4, 2 or 1 bytes that fits, then extended. The class for the host's byte order casts the buffer. The other class reverses the bytes and has its own 1- and 2-byte overloads. `Codec<Type::NUMBER>` is the little-endian one. |
| CDK string codec | `String_codec`, codec.h 36-232 | Wraps `std::codecvt`. |
| CDK foundation types | `bytes`, `buffers`, `option_t`, `scoped_ptr<T>`, types.h 106-275 | A buffer as two pointers; a chain of buffers linked through `m_rest`; a yes/no/unknown flag; the single owner of a heap object, with `reset` and `release`. `codec.h` takes its buffers as `bytes`. |

How the parts interact. A statement object outside `src/` sends a request
through an exchange's `send_request`. It binds its callbacks with `init_read`
and calls `read_response`. That call runs the dispatch loop over the
exchange's handler table. Each handler updates the exchange's context and
answers a continuation signal. NOTICE frames go through the sub-dispatcher.
ROW fields go to the caller's field callback together with the typed value
decoder. The loop returns to the caller on every signal but AGAIN. In callback
mode the caller calls `read_response` again while `has_more_results` is set,
which is how the stream is suspended and resumed.

What makes the engine hard to test:
- The order of frames in a reply: notices anywhere, several result sets, and
  an error in the middle.
- The prefetch counter, the only suspension point.
- The loop's return value.
- Context that outlives one result set.
- A link that drops, or a frame that never comes.
- The boundary values of the decoders.

## Modules

| Module | Models | State / actions |
|---|---|---|
| `XProtocol` | Signals, message kinds, the routing of the dispatch loop (`Route`), its return value (`LoopReturn`, line 443), the notice inspectors | Operators only |
| `StmtExecute` | The StmtExecute exchange driven by the loop, over one connection, with the caller | Variables: `ctx` (the message context: field_count, has_more_results, has_more_rows_in_set, read_started, prefetch_counter, response), `stream`/`pos` (the server's reply and how much of it has been read), `link`, `phase` (the caller's progress), `mode`, `ret`, `hnd`, `lastKind`, `delivered`, `callRows`. Actions: `send_request`, `init_read`, `read_response`, `receive_message` (one loop iteration with the whole handler), `receive_fail`, `read_timeout`, `next_result` (caller), `ConnectionLost`. |
| `MC_StmtExecute` | The constants for TLC | |
| `Session` | CapabilitiesGet, CapabilitiesSet, AuthenticateStart and ConClose run in that order on one connection, then the session closes | Variables: `toServer`/`toClient` (the two directions of the connection, each frame tagged with the id of the request it answers), `ex` (the current exchange), `cphase`, `sent` (ids of the requests of the current exchange), `lastId` (the id of the last frame read), `srvErred`, `authOk`, `ret`. Actions: `send_request`, `receive_message` (the exchange's handler, including the AuthenticateContinue that `auth_start_on_AUTHENTICATE_CONTINUE` sends from inside the loop), `receive_fail`, `next_exchange` (the session's sequence), `ConnectionLost`. Each exchange's handler table and request are definitions of their own (`capabilities_get_handlers`, `capabilities_get__send_request`, ...), put together by `MessageFactory` as the message factory hands them to the caller. |
| `MC_Session` | The program of the session | |
| `RowDecoder` | `xmysqlnd_row_field_to_zval` as operators over byte sequences, next to the server's encoders | Variables: `field` (type, payload, and the value the server encoded, or "malformed"), `result` (status and zval). Actions: `Decode`. |
| `MC_RowDecoder` | 16-bit integers standing for 64-bit ones, boundary values, malformed payloads | |
| `CollectionFind` | The pending Find command and the PHP methods of `CollectionFind` that change it | Variables: `cmd` (criteria, projection, sort, grouping, having, limit, offset, bindings, lock, waiting option), `call`, `raised`, `chained`. Actions: `fields`, `sort_or_group_by`, `having`, `limit`, `offset`, `bind`, `lock`. |
| `MC_CollectionFind` | Expressions, placeholders and integers for TLC | |
| `ReplyReader` | What reading one reply promises its caller: an abstract specification | Variables: `reply`, `consumed`, `rows`, `outcome`. Actions: `Take`, `Complete`, `Abort`, under weak fairness. |
| `NumberCodec` | `Number_codec<E>` for both byte orders on a little- and a big-endian build | Variables: `host` (the `CDK_BIG_ENDIAN` setting), `buf` (the caller's buffer), `last` (the last call and its result). Actions: `from_bytes`, `to_bytes`, and `receive` (the network fills the buffer). |
| `MC_NumberCodec` | A byte of 4 values, buffers of up to 9 bytes | |
| `CdkTypes` | The classes of types.h, side by side with no shared state | Variables: `bufs` (a buffers object as the chain of its bytes, each a pair of addresses), `m_option`, `conv` (the last bool conversion), and for scoped_ptr `m_ptr`, `alive`, `heap` (each object free, live or deleted), `deletes` (a count per object) and `owned` (the live objects the caller must delete). Actions: `buffers_one`, `buffers_link`, `option_t_default`, `option_t_bool`, `option_to_bool`, `scoped_ptr`, `destroy`, `reset`, `release`, and the caller's `New` and `DeleteOwned`. `buf_count`, `length` and `get_buffer` are RECURSIVE operators, as the code's recursion through `m_rest`. |
| `MC_CdkTypes` | Two heap objects, symmetric | |

`Session` gives every request an id and tags every frame of the server's
reply with that id. `NoCrossTalk` can then say that a frame is only ever read
by the exchange that sent the request it answers. The server (`Serve`) is
written from the protocol: a reply may have notices before its last frame, an
ERROR may replace the answer, and AuthenticateStart may be answered by a
challenge first. `capabilities_set_on_OK` has no return statement. Its signal
is therefore a constant `OkSignals`, the set of values the build may leave in
the return register.

`RowDecoder` compares the decoder with the encoding, not with a second copy of
the decoder. For every value the server can send (integers at the varint and
long/string boundaries, strings, TIME and DATETIME with and without trailing
fields, SETs, DECIMALs), `ServerFields` holds the payload the server writes.
`ServerValuesRoundTrip` checks that the decoded zval stands for that value. A
zval is modelled by what it denotes, not by its text: the number an integer
string spells, the fields a TIME text shows, and the sign, digits and dot of a
DECIMAL text. `size_t` wraps at `SizeMod`.

`CollectionFind` models each PHP method together with the member function it
calls. The model keeps:
- the type checks on the argument;
- the crud calls, in order;
- every early return;
- the exception;
- whether the object is returned for chaining.

The crud functions are not in `src/` and are modelled from spec section 4.5.
The file does not compile as written. It refers to undeclared names (`fields`
and `bind_variables` in the parse calls, `coll_find.coll_find`, `return_value`
in `add_operation`) and calls `lock_shared` with the wrong arity. The model
follows the evident intent of each method. `add_operation` and `bind` end
without a return value; their result is a nondeterministic boolean (`ub`).

Each handler of `stmt_execute_handlers` is an operator named after the C
function. It returns the signal, the new context and the number of fields
handed to the caller. `receive_message` applies the handler that `Route`
selects. On AGAIN it keeps reading. On any other signal it returns
`LoopReturn(signal)`. The server's reply is generated from the X Protocol
grammar:
`[resultset (separator resultset)* FETCH_DONE] STMT_EXECUTE_OK | ERROR`.
At most one notice is inserted before the last frame. Optionally the reply
ends in an ERROR in the middle, or in a frame of an invalid type.

`StmtExecute` is shown to implement `ReplyReader`. The instance
`Reader == INSTANCE ReplyReader WITH ...` maps the variables as follows:
- `stream` to `reply`;
- `pos` to `consumed`;
- the positions of `delivered` to `rows`;
- the caller's phase to `outcome`. `done` is done, `failed` is failed, and
  every other phase is pending.

`ImplementsReplyReader == Reader!Spec` is a property of the `stmt_execute`
run. Every step of the exchange must be a `Take`, a `Complete`, an `Abort`,
or leave the four mapped values alone. A caller done with a reply must have
read every frame and been handed every row, in order. The abstract
`WF(Next)` must hold too: every reply ends done or failed.

`NumberCodec` models the codec of `codec.h`. Each `convert` overload is an
operator:
- the native cascade and store;
- the opposite class's byte reversal;
- its 1- and 2-byte overloads, including the signed ones that convert
  through a reference to the unsigned type.

`from_bytes` and `to_bytes` dispatch on the type, as the overloads of the
public methods do. A byte has `ByteMod` values (4 stands for 256), so an
8-byte integer fits TLC's integers, and the top bit of a byte is still the
sign bit. The properties compare the codec with a separate reference:
- `WireValue`: the integer the bytes stand for in order E;
- `WireBytes`: the bytes of v in order E.

`CdkTypes` models `types.h`. A `byte*` is an address, 0 being NULL, so
`bytes::size` keeps its NULL test: `bytes(NULL, len)` has size 0. A buffers
object is the sequence of bytes along its chain, and `buf_count`, `length`
and `get_buffer` recurse on its tail as the code does on `*m_rest`; the
`BuffersAgree` property compares them with `Len`, a fold of the sizes and
indexing. A double delete is undefined behaviour in C++, so the model counts
deletes per object instead of choosing an outcome. The caller passes `reset`
and the constructor only pointers it owns or NULL, the precondition of
`boost::scoped_ptr` to which the class comment refers.

## Runs

| Run | Checks | Shows |
|---|---|---|
| `stmt_execute` (pass) | TypeOK, PrefetchWindow, ImplementsReplyReader, SuccessfulReplyCompletes | A callback-mode call hands over at most `rows` rows, and exactly `rows` when a ROW suspends the stream. The exchange implements `ReplyReader`: when the caller is done, every frame was read and every row was delivered once, in order, and every reply ends done or failed. A reply ending in STMT_EXECUTE_OK is read to its end unless the link drops. |
| `stmt_stale_context` (violation) | ContextFollowsReply | Two findings on context that outlives the part of the reply that set it. The trace TLC prints is the shorter one: an ERROR in the middle of a result set leaves `has_more_results` set, so the caller reads again and waits for a frame the server never sends (line 1069). With mid-stream errors turned off, TLC reaches the other: `field_count` accumulates across result sets (line 1201, reset only in `init_read`), so the field loop at line 1607 reads past the fields of a row of the second result set. |
| `session` (pass) | TypeOK, NoCrossTalk, HealthySessionCompletes | Every frame is read by the exchange whose request it answers, across AUTH_CONTINUE rounds, notices, errors and a dropped link. A session whose link and server stay healthy passes every exchange. |
| `session_capset_ok` (violation) | HealthySessionCompletes | Finding: when `capabilities_set_on_OK` leaves HND_AGAIN in the return register, the loop waits for a frame after the server's OK (line 619). |
| `session_auth_error` (violation) | AuthOnlyOnAuthOk | Finding: a refused AuthenticateStart returns PASS (line 443), so the session goes on unauthenticated. The same line turns the ERROR of a StmtExecute into PASS. |
| `decoder` (pass) | TypeOK, ServerValuesRoundTrip | Each value at the integer and varint boundaries decodes to a zval that stands for it: a string above INT64_MAX, TIME and DATETIME with their trailing fields left out, SET elements in order, the DECIMAL point where the scale puts it. Malformed payloads of each type are included so that the decoder's error paths are taken. What they decode to is checked against the spec by `decoder_spec`. The code does not reject all of them. |
| `decoder_spec` (violation) | DecodedAsSpecified | Compares the decoder with what spec sections 4.3 and 6 say: a server value decodes to itself with PASS, and a malformed payload gives FAIL with a Null field. Five findings, each reached by TLC with the others removed from the cfg. (1) A SET whose last element is empty loses it, because `GetDirectBufferPointer` fails once no byte is left (line 1513). The server's `0x00`, the set holding only the empty string, decodes to the empty list. (2) A SET length past the end fails with the elements read so far kept in the array, where the spec discards the partial list (line 1517). (3) A one-byte DECIMAL passes the `!digits` check because `(buf_size-2)*2` wraps in `size_t`, and the digit loop reads past the payload (line 1548). (4) The trace TLC prints: a TIME or DATETIME whose last varint is cut off (`0x00 0xC8`, `0x00 0x01 0xC8`) returns PASS with the unread fields printed as 0 (lines 1446 and 1480). (5) A SET whose second length varint is cut off (`0x01 'a' 0x80`) returns PASS with `[a]` (line 1511). The spec calls a malformed varint a protocol error. |
| `find` (pass) | TypeOK, NegativeRejectedUnchanged | Over every sequence of builder calls (up to two entries in the lists), limit and offset are never negative. A refused negative value leaves the whole command as it was. |
| `find_contract` (violation) | CallContract | Finding: `fields()` over an array raises on a non-string element after adding the elements before it (line 175). This is the trace TLC prints. `add_operation` and `bind` do the same. Restricted to `sort()`/`groupBy()`, TLC also reaches the second way the contract breaks: an argument of another type only draws a warning and returns NULL (line 206). |
| `number_codec` (pass) | TypeOK, UnsignedReadsWire, ToBytesWritesWire, RoundTrip | On both builds, both codecs write every integer type in their byte order and leave the rest of the buffer alone. They read back every value they wrote. Unsigned reads from short buffers take the 8/4/2/1 cascade and read the value the wire says. |
| `codec_signed_partial` (violation) | FromBytesReadsWire | Finding: on a big-endian build, `Codec<Type::NUMBER>` reads an int16 from a one-byte buffer 0xFF as 255, not -1 (line 531). |
| `cdk_types` (pass) | TypeOK, BuffersAgree, NoDoubleDelete, NoLeak | The recursive `buf_count`, `length` and `get_buffer` agree with the chain, and `get_buffer` throws exactly past its end. Over every sequence of scoped_ptr construction, `reset`, `release` and destruction, with the caller's own `new` and `delete`, no object is deleted twice and every live object has an owner. |

Bounds of `stmt_execute`:
- Result sets have 1-2 columns and 0-2 rows.
- A reply has up to two result sets, joined by either separator.
- Prefetch is 1 or 2, so it is below, equal to and above the rows of a result set.
- There are two kinds of notices.
- There are mid-stream errors and corrupt frames.
- The link may drop at any point.
- `size_t` is modelled modulo 8, enough to show the wrap of `--prefetch_counter`.

The run has 1.8M distinct states and takes about 95 s with the refinement.

Bounds of the other runs:
- `session` follows one session through all four exchanges.
  - The server may send one notice per reply, an ERROR and one
    AUTH_CONTINUE challenge.
  - The link may drop.
  - Three values may be left by `capabilities_set_on_OK`.
- `decoder` uses 16-bit integers.
  - The varint limit is 3 bytes, the same rule that gives 10 bytes for 64
    bits.
  - The values are those that cross a varint byte or the long range.
  - TIME and DATETIME fields are in {0, 1, 200}; 200 takes two varint bytes.
  - SETs have up to two elements of one or two bytes, and DECIMALs up to three
    digits with every scale below the digit count. Empty SET elements are
    left to `decoder_spec`, which takes elements of 0 or 1 bytes: the
    decoder drops an empty last element, so they would fail this run.
  - The run has 20k states.
- `find` allows two entries in projection, sort and grouping together.
  - Arrays have up to two elements, and `sort()` takes up to two arguments.
  - It uses one placeholder and the integers -1, 0 and 2.
  - The run has 35k distinct states and takes about 40 s.
- `number_codec` uses a byte of 4 values and every integer type.
  - Received buffers have 0 to 9 bytes, so every step of the read cascade
    happens, as well as a buffer longer than any integer.
  - The bytes at positions 1, 2, 4 and 8 are 1 or 3, below or above the sign
    bit. These are the bytes a 1-, 2-, 4- or 8-byte read takes its sign from
    in either order. The other bytes are 2.
  - `to_bytes` is given the ends of the type's range, -1, 0 and 1, into the
    current buffer, which may be too short.
  - Both hosts and both codecs are checked.
  - The run has 89k distinct states and takes about 1 minute.
- `cdk_types` has two heap objects, so the scoped_ptr can hold one while the
  caller owns the other; they are interchangeable, so they are symmetric.
  - Addresses are 0..2 and buffers up to 2 bytes long, so a buffer with a
    NULL begin and a non-NULL end occurs.
  - Chains have up to 3 buffers, so `get_buffer` recurses twice and is asked
    for one position past the end.
  - The run has 46k distinct states and takes a few seconds.

Fairness:
- Weak fairness on every client step. The caller drives the exchange
  synchronously (spec section 5), and the server's reply is already sent.
- A blocked read ends with the transport's read timeout (`read_timeout`).
- The link dropping is not fair: it may or may not happen.
- In `Session` the server's replies (`Serve`) are weakly fair as well: a
  server that has a request answers it. `Session` has no read timeout. A
  read that waits for a frame the server never sends is a state with no
  client step enabled. `HealthySessionCompletes` reports it as a session that
  never completes, and `session_capset_ok` shows this.
- `ReplyReader` assumes weak fairness on its next-state relation. A reader
  that can go on does, and the reply is finite. `StmtExecute`'s fairness,
  with the read timeout, implies it.
- `RowDecoder`, `CollectionFind`, `NumberCodec` and `CdkTypes` state no
  liveness and assume no fairness. Whether a caller ever deletes what it owns
  is up to the caller, so no leak property is stated as liveness.
- The `decoder` run sets `CHECK_DEADLOCK FALSE`: decoding a field is one
  call that returns, so the model stops after it.
- The builder never stops: a method can always be called again.

## Findings

See `PROJECT.json` "findings". In short:
- The dispatch loop reports success for every terminating signal (line 443).
  This covers a server ERROR and a refused authentication.
- `field_count` is not reset between result sets.
- An ERROR in the middle of a result set leaves `has_more_results` set.
- `capabilities_set_on_OK` has no return statement.
- A one-byte DECIMAL underflows the digit count.
- The SET decoder drops an empty last element and keeps a partial list on
  an overrunning length.
- A truncated varint in a TIME, DATETIME or SET length is not reported: the
  decoder returns PASS as if the payload had ended.
- The find builder changes the command on calls that raise.
- The find builder returns NULL without an exception.
- The byte-reversing number codec does not sign-extend an int16 read from
  one byte. On a big-endian build that is the default codec.

## Plan

Items marked (done) exist.

1. `XProtocol`, `StmtExecute` (done): the dispatch loop and the richest exchange.
2. `Session` (done): the exchanges composed on one connection.
3. `RowDecoder` (done): the typed value decoder against the server's encodings.
4. `CollectionFind` (done): the find builder.
5. `ReplyReader` (done): the abstract reply reader that `StmtExecute` refines.
6. `NumberCodec` (done): the CDK number codec on both builds.
7. `CdkTypes` (done): the CDK foundation types.
8. Next:
   - The FLOAT path of the decoder. `fractional_digits` and
     `mysql_float_to_double` would need a decimal model of IEEE values.
   - `Session` refining `ReplyReader` per exchange.

Not modelled:
- The string codecs. They wrap `std::codecvt`, so the work is in the C++ library.
- The protobuf serialisation in `xmysqlnd_send_message`, which is pure I/O.
- `Collection_find::execute` and the PHP class registration. Neither changes
  the builder's state.
- DOUBLE and FLOAT decoding, which reinterpret IEEE bits.
- AuthenticateContinue, which is not compiled.
- The other headers (`php_mysql_xdevapi.h`, the capabilities-get message
  and node query result headers), which hold declarations only.
- In `types.h`: `string` (a `std::wstring` with UTF-8 conversions done by the
  library), `nocopy` and `Iterator` (no state), and `scoped_ptr`'s `get`,
  `operator*`, `operator->` and `operator bool`, which change nothing.
- `reset(get())` on a scoped_ptr. The class, unlike boost's, has no assert
  against it, and it leaves `m_ptr` dangling; the model's caller keeps boost's
  precondition, as no caller in `src/` shows otherwise.
