# A specification of mccpp

mccpp is a Minecraft client in C++20: one thread runs a frame loop that polls an
`asio::io_context`, reads SDL events, runs the game and renders. This directory
holds TLA+ specifications of

- its networking, where what can be got wrong takes several parties: the network,
  the coroutine, the buffer, the server;
- the bytes of a packet: its fields, NBT, and the packet that carries a chunk;
- the loading of its assets: a tree walked by two walkers, recursion over a graph
  that comes from files;
- its main: building up with a failure at any step, the order of a frame, input, the
  variables a user sets, taking down;
- its algorithms without state: packed entries, meshes, the tables of block states;

with TLC configurations that check them on small instances and TLAPS proofs that
hold for every value of the constants. Paths below are relative to the
repository's `src/`; `PROJECT.json` maps every definition to the lines it stands for.

## The system

| component | state | operations | interacts with |
|---|---|---|---|
| ring buffer (`utility/ring_buffer.hh`) | two counters, N slots | spans to read and write, `mark_write`, `erase` | owned by tcp_client; asio writes into its spans later |
| varint (`proto/varint.hh`) | a value and a shift | `write`, `read`, `async_read` | frames, ids, strings |
| coroutine task (`utility/coro.hh`) | result or exception, whom to resume | start, wait, end, rethrow | receiver_task |
| tcp client (`proto/tcp_client.*`) | socket, read buffer, `m_resume`, write buffer | `connect`, await bytes, completion handler, `write_flush` | asio's callbacks run inside `io.poll()` |
| packet receiver (`proto/client.cc`) | where `receiver_task` stands | cut the stream into packets, dispatch | resumed by the completion handler; calls the handlers |
| packet reader/writer (`proto/packet.*`) | bytes remaining | read and write fields | the handlers |
| protocol client (`client/`) | `m_state` | `on_connect`, a handler for each packet | sends through the tcp client; makes worlds and columns in the game |
| world (`game.hh`, `world/`) | optional world, columns by position, sections | `create_world`, `get`, `load`, mesh | the handlers, the renderer |
| block tables (`data/`, `generator/`) | generated arrays | decode flags and state ids | resources |
| input (`input/`) | raw and old value for each input, mouse sums | events, `pre_events`, `post_events` | main loop, game |
| main and game frame (`application.cc`, `game.cc`) | what is built up, mouse capture, exit flag, camera | build up, frame, take down | everything |
| renderer and shader (`renderer/`) | window, context, program, meshes | constructor, destructor, `load`, `unload`, mesh of a model | resources, cvars, main |
| cvars (`cvar.*`) | a value and a callback each | `create`, `set_value` | renderer's callbacks, game's user interface |
| vfs (`vfs/`) | a tree of names with storages | `build_tree`, `find_file`, `read_file` | resources |
| resources (`resource/`) | objects by type and id, init list | `load`, `finalize`, `get` | vfs, renderer |
| nbt (`nbt.*`) | a tree of tags | constructors that read a packet | the handler of chunks |

The hard behaviours. Of the networking core: bytes arrive cut up in any way and
packets back to back; a read is posted now and completes in a later frame, and in
between the coroutine is suspended; control passes from the loop into the
completion handler, into the coroutine, into a packet's handler, which sends, and
back; exceptions cross the coroutine; the state in which a packet is read is the
client's, not the server's; a write may take part of its bytes, or fail. Of a packet with
a chunk: readers on top of each other, sections that are only partly read, a count
nobody has set. Of a frame: the order in which old values are taken, events come in and
sums are handed out, and two owners of the keyboard. Of building up: three lists of things
(guards of `main`, members of `application_impl`, the renderer's body) taken down backwards
from wherever building them up has failed. Nothing is persisted and there is one
thread, so there are no crashes to recover from and no data races.

## The modules

| module | models | refines / composes |
|---|---|---|
| `ByteQueue` | abstract: a bounded first-in first-out queue of bytes | |
| `RingBuffer` | `ring_buffer<N>`, filled in two halves as `tcp_client` does | refines `ByteQueue` |
| `Binary` | powers of two, the bits of a number | |
| `Varint` | the rounds of `write_impl` and `async_read_impl` as operators | extends `Binary` |
| `Framing` | what a string of bytes holds: the packet in front, all packets | extends `Varint` |
| `VarintCodec` | a writer, or a peer that writes anything, and a reader | uses `Varint` |
| `PacketStream` | abstract: the packets of a byte string, delivered in order, none after a failure | takes `Frames` as a constant |
| `TcpClient` | read buffer, `m_resume`, the completion handler, the peer's end | extends `RingBuffer` |
| `Receiver` | `receiver_task` on the tcp client, with `connect` and `on_readable` | extends `TcpClient`, `Framing`; refines `PacketStream` and `RingBuffer` |
| `SendPath` | `queue_send`, the write buffer, `write_flush` | extends `Framing` |
| `Client` | `client::client` over whole packets, a server that sends anything | |
| `Session` | the same with a server that keeps to the protocol | extends `Client` |
| `Vfs` | `build_tree` and the directory iterator it drives, `find_file` | |
| `Models` | `manager::load`, `read_file`, `model_object::finalize` with its stack of calls | extends `Vfs` |
| `PacketFields` | `packet_writer` and `packet_reader`: integers, booleans, varints, strings, positions, UUIDs, arrays | extends `Varint` |
| `Nbt` | the constructors of the tags as one function on positions in a packet | extends `PacketFields` |
| `ExtractBits` | `extract_bits` and the array `load_blocks` gives it | extends `Binary` |
| `ChunkPacket` | the handler of `level_chunk_with_light_packet`, byte by byte | extends `Nbt`, `ExtractBits` |
| `ChunkMesh` | `generate_vertices` of a section, `generate_model_mesh` of models | |
| `BlockTables` | what `block_states.py` packs, `data/block.hh` takes apart and `main.cc` matches | |
| `Algorithms` | runs each algorithm once on an input and compares with a definition made without it | extends `ExtractBits`, `ChunkMesh`, `BlockTables`, `PacketFields` |
| `Input` | `input::manager` and the bindings made by `game_impl` and `main` | |
| `Application` | `main`, the renderer's constructor and destructor, its shader, the cvars, `on_frame` | extends `Input` |
| `Induction` | theorems: induction and recursion over numbers and sequences; powers of two, division, bits | extends `Binary` |
| `WireProofs` | lemmas: what `Varint` and `Framing` compute | extends `Framing`, `Induction` |
| `ReceiverProofs` | theorems about `RingBuffer` and `Receiver` | extends `WireProofs` |
| `SendPathProofs` | theorems about `SendPath` and `VarintCodec` | extends `WireProofs` |
| `SessionProofs` | theorems about `Client` with any server, and about `Session` | extends `Induction` |
| `ModelsProofs` | theorems about `Vfs` and `Models` | extends `Induction` |
| `ApplicationProofs` | theorems about `Application` | |
| `AlgorithmsProofs` | theorems about `Algorithms`: fields, entries, states and meshes; about `ChunkPacket`, made of such fields | extends `ChunkPacket`, `WireProofs` |
| `MC*` | what TLC runs | |

How state corresponds to code: variables have the names of the members they stand
for. `spans` is what `resume_on_readable` hands to `async_read_some`; it exists
exactly while a read is outstanding. `pc` is the suspension point or the
straight-line part `receiver_task` is in; `control` says whose turn it is on the
one thread ("app" is `main`'s loop, "receiver" the coroutine, "caller" the rest of
the function that resumed it: `connect` or the completion handler). Only the peer
acts between two steps of the program. `stream`, `packets`, `handled`, `sent`,
`queued` and the server's `s_log` are histories; `sent` also is the wire to the server.
`process` is "terminated" by an exception nothing catches or "aborted" by
`abort()` or an assertion (the code is built with them).

`Client` abstracts a packet to its id, one argument and whether its body is well
formed; every handler of LOGIN and PLAY is an action with all it does: the world it
makes, the column it finds or makes, `m_state`, what it sends, and how it ends.
`Written` is what `SendPath` shows of a sequence of sends: a prefix gets out.
The memory `m_count` of a `chunk_column` is never set, so what loading a chunk does to the
process is any of the three outcomes. The table of packet ids is generated; the model has
for every way of treating a packet one packet at least.

In `Vfs` a path is a sequence of names and a directory tree a function on paths;
`m_entries` lists the nodes in the order `emplace_back` made them, each with its
parent, in place of pointers. What `readdir` does not call a directory counts as a
file, as it does for `is_directory`. `readdir` gives names in any order and may fail, as
may opening a directory or a file; nothing catches what that throws. `Models` keeps of
a file its parent, whether it defines elements ("absent", "empty" for an array without any,
"some") and its `ambientocclusion`, which is all `finalize` moves between models; elements are named after the model that defines
them. `stack` is the call stack of `finalize`; `unvisited` is what `load`'s loop over
an `unordered_map` has not come to.

In `PacketFields` a read is from a position of a packet up to the end of the innermost
reader, and ends well, aborted (an assertion on `m_remaining`) or thrown (`decode_error`);
`Then` goes on where the one before ended well. The number of bits in a byte and of bytes in an
integer are constants. The constructors of `Nbt` (`create`, `items`, `pairs`) call each other
through `Construct`, the one recursive function over them. `ChunkPacket` has an action for each part
of the handler; what servers send (`Payload`, `Bytes`) is built from the format, not with the code's
writer, from tags that `IsTag` calls well formed. `Nesting` ranks them: no tag is in itself.
Entries and palettes are read and dropped by the code, so of a section only whether its
blocks are air is kept. A section past the array is memory of something else, which may abort.

In `Application`, `phase` is the step of `main` or, inside it, of the renderer's constructor.
An exception may unwind (guards and destructors run, `releases`) or terminate at once: nothing
catches it, and C++ leaves that open. `held` is what has been built and not taken down.
Amounts are integers: the camera turns by counts of motion, before sensitivity and the time of a
frame. `want_keyboard` is decided by ImGui in `NewFrame`, at will.

Definitions under a comment that begins with "Slip" are mistakes one could make in
the definition that follows; each property of a run fails with one of them in its
place, which `PROJECT.json` lists under `mutants`.

## The runs

| run | constants | shows |
|---|---|---|
| `MCRingBuffer` | N = 3, two bytes, a stream of 6 | no unread byte is overwritten, lost or made up while spans taken earlier are filled; refines the queue |
| `MCVarint` | segments of 3 bits, 8 digits | every value, every four bytes: round trip, every bit in place, rejects exactly what is too long |
| `MCReceiver` | N = 3 = longest packet, bytes of one segment bit, a stream of 6 | delivers exactly the packets of the stream; nothing left over between frames; one read posted, with room; no assertion of the buffer fails; exceptions surface; every packet sent whole is delivered in the end |
| `MCReceiverEof` | a stream of 3 | the end of the connection is never noticed (a violation, see below) |
| `MCSendPath` | lengths of one and two bytes, 2 packets | what is on the wire frames into the packets queued, wherever writing stops |
| `MCClient` | 2 arguments, 4 packets of any kind, one waiting | order of messages, state of packets, columns of the world, answers |
| `MCSession` | 2 arguments, 5 packets, 3 on the way | both sides understand each other; everything is answered |
| `MCModels` | every graph of parents on three models, each with elements or without a word of them, one perhaps with an empty array; small trees with what is beside them | the tree is the one on disk; each model has what its file and its ancestors give it, in every order; loading ends, except where models are each other's ancestors |
| `MCChunkPacket` | bytes of 4 bits, sections of 8 blocks, `Height` 2, `MaxCount` 3; every tag but `TAG_BYTE_ARRAY` nested to three, any three bytes as data, cut and wrong lengths | trees come out as sent; block entities are found whatever the sections hold |
| `MCApplication` | 3 keys, 3 motions, 5 values, 2 events a frame, any number of frames | motion counts once, the mouse is captured or let go only with a press, variables match OpenGL, taken down in order |
| `MCAlgorithms` | bytes of 3 bits, entries of 1 to 8 bits in words of 8, sections of 2 blocks a side (all 256), 24 elements of models, tables of 3 properties, of up to 25 values | results equal their definitions |
| `MCVariants` | as `MCAlgorithms` | a variant with a boolean property selects the wrong states (a violation, see below) |

Why the bounds are enough. The ring's behaviour depends on the two counters modulo
N and their difference; three slots and a stream of twice that meet every pair, empty and
full, split and unsplit. In `MCReceiver` a varint of two bytes and packets of one
to three bytes in six cover a packet split at every point, two and three packets
in one read, a packet that fills the ring (N is the longest packet, as in the
code), lengths zero, negative and too long, ids that do not end and ids that go on
past the packet. `SegmentWidth = 3, Digits = 8` has what 7 and 32 have: the last
byte carries more bits than there is room for. Profile, login, chunk, login is the
shortest story in which a world is replaced, hence four packets in `MCClient`;
query, profile, login, keep-alive and one more are the five of `MCSession`.
Every graph of parents on three models has chains, forks, a parent that is not
there, a model that is its own parent, and circles of two and three with tails that
lead into them; `MaxDepth` is one call more than there are models, so only a circle
fills the stack. Beside the models there are a directory and files with names of models
elsewhere, a file that is no model, a directory named like a model, two namespaces, and
two storages with the same path (`main` uses one storage; the code takes a list).
In `MCChunkPacket` a column with room for two sections claims up to three, so loading stops
before, at and behind the array; three arbitrary bytes as data reach every branch of
`load_blocks`, and the longer ones leave a second section at a byte nobody meant; every
packet is also cut at each of its last thirty bytes. In `MCAlgorithms` entries of three,
five, six and seven bits in words of eight span two words, the others do not, and the last
entry touches the padding; a section of two a side has every pattern of neighbours a face can
have; boxes are flat, not flat, or inside out; tables have properties of every kind in every order, and one of fifteen, one of
sixteen and one of twenty-five values; strings are below, at and above their limit in bytes. In `MCApplication` two events are a press with its release, a press with a
motion, or two motions that cancel; everything else a frame needs comes from the frames before it.
The bounds are the constants `MaxDepth`, `MaxEvents`, `MaxCount`, `MaxStream`, `MaxReceived`, `MaxInbox`, `MaxSent` and
`MaxPayload`. `MCClient` takes symmetry in the arguments, which no definition
tells apart; it checks no liveness. Deadlock is not checked: a terminated process,
a peer that says nothing more and a bound that is used up are ends the models may have.

Fairness. `application.cc` polls the io_context in every frame and asio runs a
completion handler that is ready, so completion handlers are weakly fair; the
coroutine and what follows its suspension run without yielding, so they are too. The
peer and the user owe nothing. In `Session` the server is assumed to read what has
reached it while the link is up. `main` does nothing but build the tree and load
the models until both are done, so in `Models` the next step is weakly fair.

### Disagreements with what the repository says

`tcp_client.cc:56-61` handles `eof` and every other error of a read by logging it;
the comments there, "FIXME: throw eof" and "FIXME: throw error", say what was
meant. As it is the coroutine stays suspended, no read is posted again and the
program runs on without noticing: `EofThrows` is violated (`MCReceiverEof`).
`OneReadOutstanding` states the exception.

`main.cc:57` compares the value of a boolean property with
`prop_value.value() ? "true" : "false"`. The index of the value counts in the order of the
generator's list, and `block_states.py:49` asserts "values[0] is True": index 0 is true, the
code takes it for false. `VariantsMatch` is violated (`MCVariants`) by the shortest variant
that names such a property.

Of three more places the comments say, or the generator does, something else than the code. The models do what
the code does; the properties leave these cases out, and no run is about them:

- `model.cc:179` takes the parent's elements if a model has none, so also if its file has
  `"elements": []`. The comment above it, "FIXME: This is an incorrect way of checking if this model did not
  define elements", says that these are two things. `Inherits` is about models that
  have elements in their file, or do not mention them.
- `packet.cc:214` refuses a string of more bytes than `max_code_points`. The comment above
  (`packet.cc:201`) has "up to n × 4 bytes can be used to encode n characters", and `write_string`
  lets that many pass (`packet.cc:75`), so what one writes the other may refuse. `FieldsReadBack` is about
  strings of no more bytes than their limit.
- `COUNT_MASK` (`block.hh:11`) keeps four bits of a property's count of values, `block_impl.hh:14` documents
  "bits 0-4 count", and the generator asserts `len(prop.values) < 32` (`block_states.py:111`). With sixteen
  values the iterator divides by zero; with 17 to 31 it divides by sixteen too few. `StatesDecode` is
  about states of blocks whose properties have fifteen values at most (`CountsFit`); other blocks
  in the table may have more.

### What the properties state exactly, where one may wonder

- `Inherits`, `FieldsReadBack` and `StatesDecode` leave out the cases above.
- `NbtExact`: trees are of every type of tag but `TAG_BYTE_ARRAY`, whose constructor throws
  `std::runtime_error` (`nbt.cc:129`), whatever comes behind.
- `TogglesArePresses`: the mouse is captured or let go only in a frame with a press of the key. That each
  press does so is not claimed: the user interface may take it, or its release.
- `ReleasedInOrder`: if the renderer's constructor throws behind `m_shader.load`, the
  context is deleted by a scope guard before the member `m_shader` calls OpenGL. Stated
  as the exception. After an exception shader objects may also be left attached; when a stage
  does not compile or the program does not link, which throws nothing, none may. (`unload` deletes
  the program with `glDeleteShader`, which does not delete programs; it goes with the context.)
- `BlockEntitiesAligned` needs `data_size` to be right: the reader of the sections stops
  there, and with a wrong one the block entities are looked for elsewhere.

## The proofs

| module | theorem | what it says |
|---|---|---|
| `ReceiverProofs` | `RingTypeSafe`, `RingSafe`, `RingReadSpansExact`, `RingImplementsQueue` | no unread byte is lost or made up; the ring is a queue |
| | `ReceiverUsesRing`, `ReceiverOneRead`, `ReceiverAssertionsHold`, `ReceiverFailureSurfaces` | control flow of the coroutine |
| | `ReceiverCaughtUp`, `ReceiverDeliversStream` | the packets delivered are those of the stream |
| `SendPathProofs` | `ValuesReadBack`, `RejectsExactly`, `BitsRead` | varints, of every width |
| | `SentInOrder`, `ReturnsWhole` | what is on the wire, wherever writing stops |
| `SessionProofs` | `ClientTypeSafe`, `ClientSessionOrder`, `ClientPlayFollowsProfile`, `ClientAnswers`, `ClientColumns` | the client, whatever the server sends |
| | `SessionImplementsClient`, `SessionUnderstood`, `SessionUnsurprised`, `SessionSurvives` | client and server |
| `ModelsProofs` | `ModelsScanAgrees`, `ModelsMirrorDisk` | the tree is what is on disk |
| | `ModelsLoad`, `ModelsInherit`, `ModelsRunFinal` | models |
| `ApplicationProofs` | `ApplicationMotionOnce`, `ApplicationTogglesArePresses`, `ApplicationCvarMatchesGL`, `ApplicationReleasedInOrder` | input, variables, taking down |
| `AlgorithmsProofs` | `AlgorithmsFields`, `AlgorithmsEntries`, `AlgorithmsStates` | fields read back, the entries of a section, the states of blocks |
| | `AlgorithmsMesh`, `AlgorithmsModels` | the mesh of a section, the mesh of two models |
| | `ChunkNbt`, `ChunkEntities` | trees and block entities, in a packet that ends anywhere |

Each of them holds for every value of the constants that the assumptions allow. Every safety
invariant that a passing run checks of a module above, and every action property and refinement, is one
of them.

**Ring.** `RingInv` is `RingTypeOK`, `CountersAgree`, `UnreadIntact`, and that spans
that have been handed out begin at `m_written % N` and have at least the room there
was then, which is what makes it inductive: the reader may only have erased since.
The lemmas about `%` (`ModBasic`, `ModUnique`, `ModStep`, `ModTurn`) reduce slots to
offsets from the counters; `UnreadHasNoPlace` is the heart: the slot of an unread
byte has no place in the spans. `RingImplementsQueue` shows that each step is
a `Put`, a `Get` or a stutter on `Readable`.

**Recursion and induction.** The library's theorems about recursive functions take an
operator as a parameter, which the provers cannot instantiate. `Induction` states them with a set
in place of the property and a function in place of the step, and derives them from the
well-foundedness of the finite subsets of the naturals (`FS_StrictSubsetOrderingWellFounded`),
which the library states without a parameter. `WireProofs`, `SessionProofs`, `AlgorithmsProofs` and
`ModelsProofs` use it to show that `Pow2`, `Read`, `Frames`, `FlattenSeq`, `generate_path`,
`Payload` and `Construct`, which are recursive functions, exist and unfold as they are written
(`Pow2Def`, `ReadDef`, `FramesDef`, `FlattenDef`, `PathDef`, `PayloadDef`, `ConstructDef`); what is folded from the left does so by `FoldExists` and
`FoldUnfolds` (sums, products, the iterator over a state's properties).

**Bytes.** `WireProofs`: what is written of a value reads back (`ReadEncoded`), by following
writer and reader round by round (`Midway`, `Finished`); a read depends on nothing behind
it (`ReadConcat`, `FrameConcat`). `Carries(bytes, packets)` says that the bytes are these packets
whatever follows them; a whole frame behind such bytes carries one packet more
(`CarriesNext`), a part of a frame nothing (`FramesOfPart`). On that rest:

- `CodecInv`, the reader has made of the bytes taken what `Read` makes of them and the
  writer has written what `Wrote` says; `LimitInv`, how far a reader that goes on, ends or gives
  up has come; `BitsInv`, the bits so far are those of the segments.
- `SendInv`: outside `write_flush` the wire carries exactly `queued`; in it, or
  for good where the socket has failed, it carries all packets but the last, then the first bytes of
  the frame in the buffer. The socket's failure is a flush that is not continued.
- `PacketsInv`, with the witness where the packet at hand begins, for each place the coroutine can
  be in: the packets handed on are those of the bytes before, and `varint`, `packet_length` and
  `remaining` are what the bytes since make of them. `WaitInv`: while the coroutine does not run,
  what it waits for has not all arrived. From both, nothing complete is left behind (`CaughtUp`),
  and every step maps to a step of `PacketStream`.

**Control flow of the receiver.** Every step of the receiver is a step of the ring or leaves it alone
(`ReceiverUsesRing`), so the ring's invariant carries over. `ControlInv` says for each
owner of control what `pc`, `m_resume` and the posted read are: the coroutine runs with nothing posted; when it
has given up control it waits in the place `m_resume` names with a read posted that
has room, or has ended. `WireBounded`, that bytes read and on their way are within the peer's bound,
is what types need.

**Client.** `ClientInv` adds to the types what `m_state` and the progress of `connect` say of what has been
written and handled (`ProgressInv`); `OrderKept` shows that messages of one turn,
not before any already written, keep the order, and each handler sends messages of
one turn. `Answers` is inductive with it: a handler appends its
answers, all of them if the process goes on. `WorldInv` is `ColumnsOfThisWorld` without a choice of
the last login: the world is that of a login which none comes after.

**Session.** Every step of `Session` is a step of `Client` with any server
(`SessionImplementsClient`), so `ClientInv` carries over. `AgreementInv` says that the
packets handled and then those in the inbox are the server's log, and that one in the
inbox will be what the server meant if it is read in the state it was sent in; with
`ServerInv`, the server's side of `ProgressInv`, that state is the one `m_state` has
when the packet's turn comes (`ReceiveAgrees`). `ReplyInv` follows a query and a keep-alive around:
there is at most one of each on the way out, or its answer on the way
back, never both, and it has the number the server waits for, in the state it waits in
(`Awaited`); so no answer surprises the server. Two answers of which both could be
read is what a client that answers twice, or late, would need.

**Loading.** `ScanInv`: iterator and `build_tree` are in the same directory, and entries are a
tree of names. `MirrorInv`, for some assignment `o` of nodes to the storages they came
from: the nodes are what is there (`Origins`), of storages read up to now (`Reached`);
what is not in the tree yet is behind a name that an open directory has still to
give (`Complete`), and a name still to come has no node (`Fresh`, without which one could come twice).
At the end no directory is open, so nothing is missing. `FindFile` shows that
`find_file` then gives the first storage's node. `LoadedInv` says that the nodes before
`m_next` have been loaded, from contents that are there. `ModelsInv` is about `finalize`: a model whose `finalize` has not been called is as its
constructor left it (`FreshInv`); each call was made by a model for its parent, and
every model in the stack still has its own elements unless the calls go round
(`StackInv`: a model finalized twice at once has had its elements moved away, but then
it never comes to an end); `Inherits`; and no set of final models holds all its
parents (`NoCycleIsFinal`), which together with every model being visited gives `RunsFinal`.

**Application.** `MotionInv` follows
the motion of a frame from the sum, through the raw values, to the camera, and says that
nothing is left where the mouse has not moved; `PressInv` that the unlock key's input goes
down only behind its press (which needs the old values to have been taken before the events, and
that no other key is bound to it); `CvarInv` that until the renderer is finished its variables
and OpenGL have their first values, and match from then on. `AfterStep` and `StartupIsStep` say
what building up may change. `LifeInv` is about taking down: what is held before a step of building
up are the things of the steps before it (`BuiltInv`); shader objects and program exist
only where they may (`ShaderInv`); and what is left of a list of releases has everything that is there,
with nothing in front of what needs it (`TakingInv`), for each place building up can fail
in (`FailedOrderly`) and for the end (`FinishedOrderly`).

**Algorithms.** A word is compared bit by bit: what is shifted down and masked has the bits from there on
(`BitOfField`), two fields side by side have the bits of both (`BitOfJoined`). An entry is such a
pair, of which the second is empty unless the entry goes on in the next word (`EntryBits`); since a section's
words hold its entries exactly (`WordsExact`), the padding never gives a bit (`EntryOfWords`).
For fields, `BytesOfNumber` says that the bytes of a number, the most significant first, make it
again, and `SignedBack` that sign and width survive. `LiesAt(s, at, w)` places what was written in a packet; for each kind of field a lemma
reads it from there (`IntReadsBack`, `VarintReadsBack` on `ReadEncoded`, `StringReadsBack`,
`UuidReadsBack`, `PositionReadsBack` on `SideBySide`), and two behind each other are read one after the other
(`PairReadsBack`). For states, an entry of sequences put together is found at the sum of the lengths before it
(`FlattenAt`), so the offsets in `flags` and `properties` lead to the words and properties
they should (`WordOfValue`, `MapAt`); the blocks' states are numbered without a gap (`FirstStates`,
`BlockOfState`); and behind n properties of fifteen values at most the iterator has divided by the
states the last n have (`IteratorSees`).

A section's mesh is followed through the loops as a list of the faces drawn (`FoldShows`): the loops
come to each face of each block once (`BlockFacesAll`), so the list has the boundary's faces, each
once (`ListsBoundary`), and each has four vertices and six indices of its own
(`ShowsOneMore`). `CornersOfFace` works out what the cross products give for the six
directions, `SquareOfVertices` that these are the corners of the face, `TrianglesTurn` that the
triangles turn around its normal. No triangle is that of two faces (`TrianglesApart`): both triangles
of a face have the ends of a diagonal and so its middle, which two faces share only from the two sides
of it, of which only the solid one is drawn (`FaceOfMiddle`); and the first triangle of one
is not the second of another, since the sums of the coordinates differ (`VertexSum`). For models the
list is of quads: `ElementShows` and `ModelShows` put an element's and a model's faces behind
what is there, `LoweredQuads` moves the first model down, `RendererShows` gives every face drawn its
quad, in the order of the file. `FaceIsRectangle` goes through the six kinds of faces: the
corners lie along two axes that turn around the normal, and if the box is upright and the face has
four different corners, both triangles turn that way (`RectangleCovers`). Of a flat face, or of a box
inside out, only the corners are claimed: the code turns such a face inwards.

`OutputInv` is the invariant: a job that is done has what its algorithm returns.

**Trees and chunks.** Two recursive functions meet here: the bytes of a tag (`Payload`) recurse over
the tags in it, the constructors (`Construct`) over the bytes that are left. The first has a value for
tags of any finite depth, by induction on `Nesting` (`PayloadDef`). The second has one because no
constructor comes back to itself before a byte has been taken: `Rank` orders the calls by the
bytes left and then by kind (items, a tag, pairs), and `Ends` says that what is constructed ends
between where it began and the end of the packet, without which the rank would not go down.
`Agrees(s, at, w)` says that behind `at` the packet has the bytes w as far as it goes,
and `Reads(r, s, at, w, v)` that r is v from exactly these bytes, or a failure if the packet ends
before they do. These compose (`ReadsOn`), so a field, a name, an array, a list (`ListRead`), a
compound (`PairsRead`) and a tag (`TagRead`) each read what was written, and by induction on
`Nesting` so does every tree (`TagsRead`, `TreeRead`).

`ChunkInv` is the invariant of the handler: in front of the sections it has taken the header and no
more; among them it is somewhere between the header and the end of the sections (`LoadTakes`, for any
bytes), and `data_end` is where they end; behind them it stands in front of the block entity that is
next, having read those before. `NbtExact` and `BlockEntitiesAligned` alone are not inductive:
they do not say where the reader stands. TLC checked `ChunkInv` first. If nothing was cut, the
block entities and the byte behind them are there (`Laid`), so none of these reads fails.

### The assumptions

They are those on the constants, which TLC evaluates in every run:

- `RingAssumption`, `ReceiverAssumption`: the ring is not empty and holds the longest packet (in
  the code both are 2097151).
- `VarintAssumption`: a segment is narrower than a value. `SendAssumption`: a frame's length is
  no negative number (2097151 < 2^31), an id is an unsigned value.
- `ClientAssumption`: the mark for no argument is no argument.
- `VfsAssumption`: a storage is a directory tree: paths are not empty, and what contains something is there
  and is a directory. The list of storages is a sequence, of any length.
- `ModelsAssumption`: an id is a namespace and a name, the marks are no ids and no files.
- `ApplicationAssumption`: motions are pairs of integers, events of a frame are counted.
- `PacketFieldsAssumption`: a segment of a varint is a byte less one bit, its value as wide as an int, and a
  position fits into a long (7, 32, and 26 + 26 + 12 of 64 in the code).
- `AlgorithmsAssumption`: fields have values of their types, and four times a string's limit is an
  int still (the longest limit in the code is 32767); words hold whole entries of a section
  (4096 blocks, words of 64), entries are no wider than a word (the code takes four to eight), and
  there are as many words as `u64_count` says; tables are what the generator asserts of its
  input (`IsTable`); models are sequences of elements with boxes, of integers (`IsModel`).
- `ChunkMeshAssumption`: a section is not empty (16 blocks a side in the code).
- `NbtAssumption`: a byte has room for the types of tags (4 bits at least).
- `ChunkPacketAssumption`: servers send well-formed tags of finite depth, of every type but
  `TAG_BYTE_ARRAY`: lists of one type, lengths that fit the field in front of them; and a size and a count that fit a varint. What is
  cut off, what is said of the size of the data, and what the data is, may be anything.

### What is only model-checked

- `EventuallyDelivered`, `AllAnswered`, `LoadEnds`: liveness, with `ENABLED` in its fairness.

## What is not modelled

- Of packets: the value of a float (only its width), `discard_bitset`, STATUS (never entered
  by this program), `on_tcp_error` and `on_error` (never called), allocations that fail.
- Of coroutines: the ownership of handles. Of the ring: its counters past 2^64.
- Of NBT: byte arrays that are sent (the constructor is modelled, and throws). Of `extract_bits`: that its
  masks are of an int, which tells for entries of more than 30 bits; there are none of more than eight.
- Of resources: `get_internal`'s init list (no factory asks for another resource), the pixels of
  textures, `block_state.cc` and `parse_variant_kv_pairs` (a variant is a sequence of pairs
  of texts), a path with a symbolic link.
- Of the renderer: drawing (`start_frame`, `end_frame`), colours, texture coordinates, the
  rotation of a model's elements. Of the frame: the limits of the camera and the windows of
  the user interface.
- Of input: mouse buttons, which are bound to nothing.
- `dump_nbt` and the accessors of tags: they change nothing.
- `logger.*`, `utility/format.hh`, `identifier.hh`, `uuid.hh`: output and plain values.
  `resource_v2/`: a stub nothing uses. `generator/packet_types.py`: build-time; its output
  is an external table in `Client`. `PerlinNoise.hpp`: third-party; the debug section takes
  any heights.

`main` has its call of `connect` commented out at this commit (`application.cc:185`); the
models of networking are of the code it would run, and `Application` lets `io.poll()` throw, as
it then could.
