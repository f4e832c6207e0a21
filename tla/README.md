# TLA+ models of the CPSW transport layer

These modules model the parts of CPSW (src/) that move data between a host
and a device:
- the network device and its SRP register addresses (`cpsw_netio_dev.cc`);
- the depacketizer (`cpsw_proto_mod_depack.cc`);
- the RSSI module's queue interface (`cpsw_proto_mod_rssi.cc`);
- buffers and buffer chains (`cpsw_buf.cc`);
- the port builder and the library's protocol stack builder, configured
  by setters and from YAML
  (`src/cpsw_proto_stack_builder.cc`);
- paths through the device hierarchy and the iterators that walk them
  (`cpsw_path.cc`, `src/cpsw_path.h`);
- the YAML loader's merge-key lookup and its class-factory registry
  (`cpsw_yaml.cc`).

TLC checks them. `PROJECT.json` lists the components, the runs, one mutant
per checked property, the map from every definition to the source lines it
translates, the findings and the hazards.

## 1. The system and how its parts interact

| Part | Source | Role |
|---|---|---|
| Buffers and chains | `cpsw_buf.cc` | Fixed-size buffers with a payload window, taken from a free list and linked into chains. `extract` and `insert` copy bytes out of and into a chain. |
| Depacketizer | `cpsw_proto_mod_depack.cc` | A thread pops datagrams from the port below and reassembles the fragments of AxiStream frames in a sliding window of frame slots. It pushes whole frames up and releases stale slots on a timeout. |
| RSSI module queues | `cpsw_proto_mod_rssi.cc` | Two bounded queues between the users of a stream and the RSSI thread: `inpQ_` going down and `outQ_` going up. |
| Stack builder | `cpsw_netio_dev.cc` (`addAtAddress`, `makeProtoStack`, `findProtoPort`) | Builds a stack UDP → [RSSI] → [Depack] → [TDEST mux] → [SRP mux] for each address, or reuses the modules of a UDP port already in use. |
| Library stack builder | `src/cpsw_proto_stack_builder.cc` (`CProtoStackBuilder`) | The same wiring for UDP or TCP, with a builder read from a YAML node or set by its setters. |
| SRP address | `cpsw_netio_dev.cc` (`CSRPAddressImpl`) | Register reads and writes: split into frames of at most `maxWords` words, sent with a transaction id, answered or retried after a timeout. |
| Dynamic timeout | `cpsw_netio_dev.cc` (`DynTimeout`) | The adaptive timeout of an SRP address, taken from the average round trip. |
| Stream address | `cpsw_netio_dev.cc` (`CCommAddressImpl`) | `read`/`write` of chains through the top protocol module, e.g. RSSI. |
| Paths | `cpsw_path.cc`, `src/cpsw_path.h` | A path names array slices of children from an origin device down the hierarchy (`findByName`, `append`, `concat`, `up`). `CompositePathIterator` and `SlicedPathIterator` walk a path, and paths appended to it, from the tail up, counting elements left and right. |
| YAML loading | `cpsw_yaml.cc` | `getNode` looks a key up through merge keys (`<<`). `CYamlTypeRegistry` maps class names to factories; `makeItem` makes the item a node's `class` names, and a Dev's factory makes its children through `addChildren`. |

How they interact:
0. A YAML file, through the class registry and the factories (Yaml), builds
   the hierarchy of devices and addresses that the steps below use.
1. `addAtAddress` builds a stack (StackBuilder) and creates an SRP or stream
   address on its top port.
2. An SRP call (SrpData/SrpWrite for the bytes, SrpAddress for the exchange)
   pushes request chains (BufChain) down the stack.
3. It then pops replies, with a timeout that DynTimeout adapts.
4. Below it, the depacketizer (Depack) turns datagrams back into frames.
5. A stream address writes and reads chains through the RSSI queues
   (RssiQueue).
6. A read or write of a variable walks its path with a composite iterator
   (Path); the counts of elements left and right of the iterator decide how
   many array elements each address transfers.

## 2. Modules

### Depack, MCDepack: the depacketizer thread

State:
- `oldestFrame` is `oldestFrame_`.
- `frameWin` holds the slots of `frameWin_`: frameID, oldest/last fragment,
  the fragment window and whether the timer is running.
- `delivered` holds the frames pushed up.
- `crashed` records that the InternalError was thrown, which ends the thread.
- The environment is a packetizer (`Send`) that splits frames into fragments
  with EOF on the last one.
- The network `net` may lose datagrams (`Lose`), duplicate them
  (`ReceiveCopy`, bounded by `MaxDups`) and reorder them by up to
  `ReorderDepth` places.

Actions:
- `Receive` models one loop of `threadBody`: the whole `processBuffer`,
  including `frameSync`, `releaseOldestFrame` and `releaseFrames`.
- `Timeout` models an expired `startTimeout` followed by
  `releaseOldestFrame(false)` and `releaseFrames(true)`.

Frame numbers are kept modulo `FrameMod`, as on the wire. `signExtendFrameNo`
and `moduloFrameSz` use the code's arithmetic.

### SrpAddress, SrpRegister, MCSrpAddress: the SRP transaction loop and what it promises

`SrpAddress` models `readBlk_unlocked` and `writeBlk_unlocked`. It keeps the
transaction and abstracts the payload to one register value.
- `Call`: `getTid`, then push the request.
- `PopReply`: a reply with another tid is dropped and the pop repeats. The
  matching reply ends the call, with `BadStatusError` if its status word is
  non-zero.
- `Timeout`: the pop timed out. Resend the same request (same tid) while
  `++attempt <= retryCnt_`, otherwise throw IOError.
- `DeviceReply`: the device executes any request it holds and answers with
  the register value.
- `Lose`: the transport loses a request or a reply. Datagrams in flight form
  a set, so they may also be reordered.

`SrpRegister` is the abstract specification: an atomic register whose
successful read returns a value held during the call, whose successful write
was applied during the call, and whose every call returns.

`MCSrpAddress` maps the implementation onto it. The map is:
- `pc` "wait" → "busy";
- the results timeout and badStatus → "fail".

It checks `Abs!Spec` as the property `RefinesSrpRegister`.

### SrpData, SrpWrite, MCSrpDataPath: the byte layout of SRP reads and writes

`SrpData` models one `read()` call at the byte level:
- the split into pieces of at most `maxWords` words (`Read`, `ReadPiece`,
  `ReadLast`);
- the V1 and V2 frame layout;
- `readBlk_unlocked`'s copy of the head word, the middle words and the tail
  into the caller's buffer, with memcpy-exact lengths.

A guard zone after the caller's buffer records writes past its end.

`SrpWrite` models one `write()` call:
- the split (`Write`, `WritePiece`, `WriteLast`);
- the first- and last-word merge with the caller's bit masks (`FirstWord`,
  `LastWord`, `FirstMask`);
- byte or word resolution.

Memory bits are distinct labels, so a merge that takes a bit from the wrong
side is visible.

`MCSrpDataPath` composes the two through renamed instances. Each behaviour is
one read or one write; the other instance stays at its initial "pick" phase.

### BufChain, MCBufChain: buffers and chains

State: one heap of `NBufs` buffers of `Cap` bytes. It holds:
- `beg_` and `end_`;
- the `next_` and `prev_` links and the chain membership;
- the chain's `head_`, `tail_`, `len_` and `size_`;
- the free list;
- the data bytes.

Actions:
- `setSize`, `setPayload`, `reinit`;
- `after` and `before`;
- `unlink`, `split`;
- `addAtHead`, `addAtTail`, `createAtTail`.

`insert` is a sequence of steps for its loops: skip past, truncate at, pad,
write, truncate, each with the code's conditions. `extract` is an operator
compared with the flattened chain.

`MCBufChain` gives three buffers as model values with symmetry.
`MiddleUnlink` allows unlinking a buffer that has both neighbours.

### RssiQueue: stream reads and writes over RSSI

State:
- `inpQ` and `outQ` are bounded sequences;
- `wire` is what the RSSI thread sent;
- `written` and `read_` record the chains that write and read reported.

Actions:
- `Write(t)` is `CCommAddressImpl::write` followed by `CProtoModRssi::push`,
  for each timeout kind. The finite-timeout branch pops, as the code does.
- `Read(t)` is `read` followed by `pop`.
- `RssiSend` is the RSSI thread taking the head of `inpQ_`.
- `RssiDeliver(t)` is `pushDown` from the thread.

A blocking call is the step that ends it.

### PortBuilder: CPortBuilder and its setters

`bldr` is the builder's record of options, with the code's field names and
its -1 for an unset tri-state. Each setter is an operator that returns the
new builder and "ok" or `InvalidArg`; a setter that throws leaves the
builder as it was. The setters call each other as the code does:
- `setSRPVersion(NONE)` clears the timeout and the retry count;
- every depacketizer, SRP mux and TDEST mux option turns its module on;
- `useDepack(false)` clears the three depacketizer options through their
  setters, and each of these calls `useDepack(true)`.

The actions are `Call(c)`, one setter call from `Calls(bldr)` with a small
set of arguments (valid and invalid ones), and `DoReset`. The getters that
derive a default (`hasDepack`, `hasSRPMux`) are operators.

`Reachable` is the set of builders, cut down to the options
`makeProtoStack` reads, that sequences of setter calls reach. It is a
RECURSIVE closure from the reset builder. No setter writes these options
differently depending on the other options, so the closure pads the cut-down
builders with the defaults.

### StackBuilder: addAtAddress and makeProtoStack

A builder is the set of PortBuilder fields that `makeProtoStack` reads:
- SRP version;
- UDP port;
- RSSI;
- depack (tri-state);
- SRP mux (tri-state);
- VC;
- TDEST.

The builders are exactly `PortBuilder`'s `Reachable` ones. Note that
depack is never "off", because of finding 12. `LegacyBuilder` and
`StreamBuilder` are the builders that the `addAtAddress(version, ...)` and
`addAtStream` wrappers make with the same setters.

A stack is what a match query can see of it. `findProtoPort` returns the
first address whose stack matches every set criterion. `makeProtoStack` is
one CASE that follows the code's branches in order: each sanity check, a
fresh port, reuse of a TDEST port or SRP mux, or a new TDEST port on an
existing mux. `AddAtAddress` then runs the `CSRPAddressImpl` constructor's
check and appends the address.

`ProtoPortMatchParams` and the modules' `match` methods are not in src/. The
criterion semantics (`CritOk`, `FullMatch`) are modelled from how the callers
use them and are marked `spec_modelled`.

### PortMatch, LibBuilder, ProtoStackBuilder: the library's builder

`PortMatch` holds what both builders share:
- the match criteria;
- `FullMatch`, which is `findProtoPort`'s test;
- `Demuxed`, which says when two ports on one transport endpoint are told
  apart.

`ProtoStackBuilder` models `CProtoStackBuilder`:
- `FromYaml(y, ip)` is the YAML constructor. It applies the SRP, TCP, UDP,
  RSSI, depack, SRPMux and TDESTMux sections in the code's order over the
  defaults of `reset()`. `ip` is the caller's `setIPAddr`.
- The getters keep the code's defaults. For example, `hasDepack` follows the
  TDEST mux when unset, and `hasSRPMux` follows the SRP version.
- `build(b)` is one CASE over the branches of `build(existingPorts)`, in the
  code's order.
- `Build(b)` is a caller that keeps every port it gets in `existingPorts`.

`LibBuilder` models the other way to make a builder: `IProtoStackBuilder::create()`
and setter calls, as `cpsw_axiv_udp_tst` does. It keeps only the options
`build()` wires by, and each setter is an operator on them:
- a setter that throws (a bad version, port 0, a window over 10, a VC over
  127, a TDEST over 255) leaves the builder as it was;
- every depacketizer, SRP mux and TDEST mux setter turns its module on, and
  a thread-priority setter does so unless it passes `NO_THREAD_PRIORITY`;
- `setRssiBridgeIPAddr` makes `getXprt()` answer TCP whatever was selected.

`Reachable` is a RECURSIVE closure of the setters from `reset()`, and
`AsRead` reads a builder through the getters. `ProtoStackBuilder`'s
`Builders` is the union of the YAML builders and these. The closure has
960 builders. Every one with an IP address is also a YAML builder, so
the setters reach no wiring that YAML cannot express.

The caller of `build()` is not in src/. The RPC port lookup through an
RSSI bridge is network I/O and is not modelled. Only depack V0 is
modelled, because the V2 TDEST mux is not in src/ either.

### SrpTiming: the retry loop in time, with DynTimeout

`SrpTiming` composes the retry loop of `readBlk_unlocked`/`writeBlk_unlocked`
with the operators of `DynTimeout`, taken with `INSTANCE`. Time is discrete
and every clock is relative to the present:
- `elapsed` is `now - then`;
- `left` is the time to the pop's deadline;
- each reply in `flight` carries the time to its arrival.

This keeps the state space finite. The actions are:
- `Call`: a new tid, `then`, push.
- `Arrive(m)`: the pop returns a reply.
  - A stale tid starts a new pop with the full timeout.
  - The matching tid runs `update(now, then)`.
- `Expire`: the pop times out.
  - While attempts remain, `relax` and push again with the same tid.
  - After the last attempt, `reset(usrTimeout_)` and fail.
- `Pause`: replies arrive between calls and wait in the queue.

Loss is left out here; SrpAddress models it.

### Path, MCPath: paths and the composite iterator

The hierarchy is a constant `Hier`: each device maps child names to their
number of elements and their entry (another device, or `Leaf`). A path is
its origin and a sequence of entries `[own, name, f, t, nl]`; `nl` is
`nelmsLeft_`, and the code's NULL marker element is the empty sequence.
- `PathEntry` is the constructor with its clamping; `findByName` is a
  RECURSIVE walk over parsed components (`..`, a name with no index, `[i]`
  or `[i-j]`). Its errors are values: InvalidPath, NotFound, NotDev, and
  `NullDeref` where the code dereferences the NULL `found`.
- The actions are the caller's operations: `Create` (constructor, `clear`),
  `FindByName`, `Up`, `AppendAddr`, `Concat`.
- The iterator `it` keeps its position in a path, the stack `l_` of outer
  positions, `nelmsLeft_` and `nelmsRight_`. `IterStart`, `IterNext`
  (`operator++`), `IterAppend` (`append`) and `IterClip`
  (`SlicedPathIterator::clip`) are its operations; `IterDone` drops the
  iterator and the path.
- The ghost `comp`, `k` is the composite path the iterator should walk, with
  `nl` counted from the composite's origin: it is what `IterMatchesComposite`
  compares the iterator with.

The path does not change while an iterator is in use (the code's iterator
points into it). `MCPath` gives a three-level hierarchy R → a[2] → A →
b[3] → B → z[2], with leaves x[1] and y[2], and a `VIEW` that ignores the
dead path while an iterator is in use.

### Yaml: the merge-key lookup and the class registry

A document is up to `NMaps` mappings. Each has a `class` key or not, and a
merge key that is absent, an alias of an earlier mapping, or a sequence of
such aliases.
- `getNode` is the RECURSIVE lookup of the code. `MergeNode` is
  `node["<<"]`, undefined for a sequence. `MergeLookup` is the reference: the
  merge key as YAML defines it. `ClassReads` collects, for every node of
  every document, the class `getNode` reads, the reference's answer, and
  whether the merges are all aliases of mappings.
- `entries` is `map_`. A key is a factory's class name, or the buffer of the
  `std::string` of the `makeItem` frame that inserted it (`slot`). `at` is
  what the key read when it was inserted. `mem` is what each frame's buffer
  holds now.
- `Find` is a lookup with `StrCmp`. While every key reads what it read at
  insertion, the tree is ordered and the lookup meets the one key that
  compares equal, if there is one. Once a key reads something else, the
  tree is disordered, which is undefined behaviour. A lookup may then meet
  any equal key, or none.
- The actions are `AddFactory`, `DelFactory`, `MakeItem` (at frame
  `depth+1`; a Dev's item raises `depth` while its `addChildren` runs;
  an exception unwinds the whole load), `Finish` (`addChildren`'s loop
  ends), and `Clobber`, in which other code reuses a buffer that no live
  frame owns.
- `reg` is the set of classes whose factories were added (or declared) and
  not deleted. Only the counterexample property `RegisteredIsFound` reads it.

### DynTimeout: the adaptive timeout

`avg` is `avgRndTrip_`, scaled by 2^AVG_SHFT, and `tmo` is the timeout. The
actions, with the code's shifts in integer arithmetic:
- `Reset` (constructor and `reset`);
- `Relax`;
- `Update(d)`.

Each is followed by `setLastUpdate`, which takes the timeout from the average
and raises it to at least the cap. AVG_SHFT = 7 is the documented 1/128
weight. MARG_SHFT and CAP_US are in a header outside src/, so they are
constants.

## 3. Runs

| Run | Module / cfg | Expect | What it shows |
|---|---|---|---|
| depack_lossy | MCDepack / MCDepack_lossy.cfg | pass | Over a lossy, in-order link (5 frames of 1–2 fragments; a lossless link is one of its behaviours), every delivered frame is whole and in order. Unless an InternalError has ended the thread, the window drains (`WindowDrains`). This holds even when the frames before the first one received were lost, because `processBuffer` starts the timers of the older slots too. |
| depack_udp | MCDepack / MCDepack_udp.cfg | pass | With loss, one duplicate and reordering 2 deep, no frame is delivered with a missing, extra or misplaced fragment. |
| srp_retry | MCSrpAddress / MCSrpAddress.cfg | pass | Two calls over a lossy, reordering link, with a device that may reject requests. The loop refines `SrpRegister` and sends at most `retryCnt_+1` requests per call. |
| srp_data | MCSrpDataPath / MCSrpDataPath.cfg | pass | Every read delivers memory bytes `off..off+len-1`. Every write is the masked merge. Every frame has at most `maxWords` words. |
| buf_chain | MCBufChain / MCBufChain.cfg | pass | After up to 6 chain operations and an insert: head/tail/len/size agree with the links, extract agrees with the bytes, and insert returns the right content. |
| rssi_stream | RssiQueue / RssiQueue.cfg | pass | With indefinite or no write timeout, every successful write is sent exactly once, in order. |
| stack_builder | StackBuilder / MCStackBuilder.cfg | pass | Three `addAtAddress` calls on one port, with any builder that setter sequences reach or the wrappers make. Each address gets the stack it asked for, and no two share an endpoint. |
| dyn_timeout | DynTimeout / DynTimeout.cfg | pass | An update keeps the average between the old average and the sample, and a relax never shortens the timeout. With constant replies, the average settles on the round trip. |
| proto_stack_builder | ProtoStackBuilder / MCProtoStackBuilder.cfg | pass | Over three `build()` calls with any builders, from YAML or from setter calls (UDP or TCP, one port, two TDESTs, two VCs, one SRP version or none), no two ports share an endpoint undemuxed, and each port has the stack its YAML asked for. |
| srp_timing | SrpTiming / MCSrpTiming.cfg | pass | The round trips are 4–6 and the user timeout is 2. The first calls retry, and late replies to earlier attempts give short samples. The timeout still settles, and every later call succeeds on its first attempt. |
| path | MCPath / MCPath.cfg | pass | Every path that findByName (one or two components), up, append (indices -1..2) and concat build is a chain of children with in-range indices and `nelmsLeft` the product of the ranges; the composite iterator, through any sequence of `++`, appends and clips, walks exactly the composite path, its left and right counts are right and its `nelmsLeft == 1` assertions hold. |
| yaml | Yaml / Yaml.cfg | pass | Over documents of three mappings, `getNode` reads the class YAML's merge key gives, whenever the merges are aliases of mappings (`ClassIsMergeLookup`). The registry's dangling keys are shown by the counterexample of finding 13. |

Other counterexample configurations reproduce the findings that have no run
of their own. Run each with `tlc -config <cfg> <module>`:

| cfg | module | property | finding |
|---|---|---|---|
| MCDepack_crash.cfg | MCDepack | NoInternalError | 1 |
| MCDepack_wrap.cfg | MCDepack | FrameWindowAcceptance | 2 |
| MCSrpAddress_stale.cfg | MCSrpAddress | LastWriteSticks | 3 |
| MCBufChain_gap.cfg | MCBufChain | GapIsZero | 6 |
| MCStackBuilder_null.cfg | StackBuilder | NoNullStack | 8 |
| MCBufChain_unlink.cfg | MCBufChain | ChainConsistent | 5 |
| RssiQueue_finite.cfg | RssiQueue | WritesReachWire | 7 |
| MCProtoStackBuilder_null.cfg | ProtoStackBuilder | NoNullPort | 9 |
| MCSrpTiming_sample.cfg | SrpTiming | SampleIsRoundTrip | 10 |
| SrpData_overrun.cfg | SrpData | ReadStaysInBuffer | 4 |
| MCPath_null.cfg | MCPath | NoNullDeref | 11 |
| PortBuilder_depack.cfg | PortBuilder | UseDepackHonoured | 12 |
| Yaml_stale.cfg | Yaml | RegisteredIsFound | 13 |
| Yaml_seq.cfg | Yaml | ClassIsMergeLookupAll | 14 |

MCDepack_reliable.cfg is the lossless RSSI transport at larger bounds (6
frames of up to 3 fragments) for `TypeOK` and `FrameIntegrity`. No run
uses it, because `depack_lossy` includes every lossless behaviour.

### Bounds and why they are enough

**Depack.**
- A window of 2 frames and 2 fragments, with frame numbers modulo 4, makes
  the window wrap within 6 frames.
- Every classification of `processBuffer` is reached: old/new frame,
  old/new fragment, accept, frameSync and the release paths.
- `depack_lossy` keeps 5 frames of at most 2 fragments: with loss and the
  liveness property, 6 frames of 3 fragments do not finish within the
  time budget. Five frames still wrap the frame numbers once, and losing
  frame 0 reaches the slots older than the first frame received.
- The crash needs only 6 frames. The wrap finding needs modulo 8 and 9
  frames.

**SRP address.**
- Tids modulo 3 and one retry allow a late reply of an earlier attempt or an
  earlier call to arrive during a later call.
- Two calls allow a write followed by a read or a write.

**SRP data.**
- `maxWords` = 2 with offsets up to 7 and lengths up to 13 covers:
  - reads and writes that start and end in every byte position;
  - one piece, two pieces and three pieces;
  - the V1 head word.

**BufChain.**
- 3 buffers of 2 bytes reach:
  - every link shape of a chain of up to 3 buffers;
  - inserts that skip, pad, span buffers and truncate.

**RssiQueue.**
- Depth 2 with 4 writes fills the queue and makes every push outcome
  possible.

**StackBuilder.**
- One port (the default, 8192), two TDESTs, two VCs and two versions allow
  three addresses to reach every branch of `makeProtoStack`.
- The builders are the closure of the setters with these values and depth
  1, so every combination a caller can set is an input.

**ProtoStackBuilder.**
- Three `build()` calls, with every YAML section absent, on or off, reach
  every branch of `build()`. The setters take the same values. The
  window-size setters also take 11, which throws. Any other throw leaves
  the builder unchanged, so it adds no input. TCP and UDP share the one port number, so
  transport kinds are told apart.
- One SRP version (besides none) keeps the run within its time budget.
  A mux of another version on the same TDEST ends in the same
  "no SRP demuxer" branch that a non-SRP port on that TDEST reaches.
- `build()` checks the IP address before it reads any other option, so a
  single YAML node without an IP address stands for all of them.
- Two calls suffice for the NULL port. That configuration keeps two versions.

**SrpTiming.**
- Round trips 4–6 against a user timeout of 2 and 3 retries make the first
  calls time out and accept a reply to an earlier attempt.
- AVG_SHFT = 4 (in place of 7) lets the average move within a few calls.
- The jitter stays below the 2x margin of MARG_SHFT = 1.
- With a user timeout of 1, a call can run out of retries. `reset()` then
  discards the learnt average, and a run of such failures can repeat for
  ever. So the property is checked where no call fails.

**Path.**
- Three devices in three levels, arrays of 1, 2 and 3 elements and a name
  that is not in the hierarchy: enough for an array below an array (so
  `nelmsLeft` is a real product), for leaves, and for every error branch.
- Indices 0..1 in names, -1..2 in appends and -1..1 in clips reach the defaults, the clamps
  and the out-of-range errors; two components reach `..` after a name.
- Concat and the iterator's append take the empty paths and the one-entry
  paths below each device; clip and append nest the iterator's stack to the
  depth of the hierarchy.

**Yaml.**
- Three mappings give chains of two merges, and sequences of one or two
  aliases. Two classes are enough: `DevImpl` (declared, a Dev, so its
  children nest a second frame) and `Bogus` (no factory, unless a later
  `addFactory` adds one).
- Two frames are enough: a failed load and a later load at the same depth
  share a buffer, and a child's frame is a buffer that its parent's frame
  does not share.
- Freed buffers are reused with junk only. A later `makeItem` at the same
  depth is what writes a class name into them.

**DynTimeout.**
- The initial values and round trips include 0 and a value below the cap.
- `AvgMax` bounds relax.

### Fairness

- **Depack:** `WF(Timeout)`. The pop of `threadBody` with the oldest
  running slot's deadline always returns eventually. `WindowDrains` excuses
  a crashed thread, which no fairness can revive (finding 1).
- **SrpAddress:** `WF(Timeout)`. A pop with a timeout returns.
- **RssiQueue:** `WF(RssiSend)`. The RSSI thread keeps draining `inpQ_` while
  the connection is open.
- **DynTimeout:** the liveness property carries its own assumption (weak
  fairness of an update with the fixed round trip) in its antecedent.
- **SrpTiming:** weak fairness of `Expire` or `Arrive` (a pop returns by
  its deadline) and of `Pause` (a reply on its way arrives). The caller's
  calls are an assumption in the antecedent of `SettlesOnFirstAttempt`.
  Liveness results were confirmed with one TLC worker.
- **BufChain, StackBuilder, ProtoStackBuilder, Path and Yaml:** no fairness, because their properties are
  safety only.

## 4. Findings

1. **Depack InternalError reachable by loss** (`cpsw_proto_mod_depack.cc:287`,
   MCDepack_crash.cfg).
   - `releaseOldestFrame(false)` may fail to advance the window, and
     `processBuffer` then stores the fragment in the oldest frame's slot.
   - A later fragment trips the frame-ID check. The exception ends the
     depacketizer thread.
2. **Unsigned "old frame" test after wrap** (`cpsw_proto_mod_depack.cc:269`,
   MCDepack_wrap.cfg).
   - Once frame numbers wrap, a fragment of a frame inside the window is
     dropped as old.
3. **Stale retried write** (`cpsw_netio_dev.cc:853`, MCSrpAddress_stale.cfg).
   - After a timeout, the earlier request may still be executed, and it
     reverts a later successful write.
   - The tid protects the replies, not the requests.
4. **V1 read overrun** (`cpsw_netio_dev.cc:819`, SrpData_overrun.cfg).
   - The `memcpy` of `hoff` bytes exceeds the `sbytes` requested when the
     read ends inside its first word.
5. **unlink cuts the chain** (`cpsw_buf.cc:315`, MCBufChain_unlink.cfg).
   - `next_` is cleared before it is copied to the predecessor.
   - The only caller in src/ is `insert`'s truncation loop (line 548). It
     unlinks every buffer after the cut, front to back, and the chain's
     head, tail and length are kept by `delFromChain`, so the cut it makes
     is the one it wants. No caller unlinks one middle buffer and keeps
     the rest.
6. **Insert padding is not zeroed** (`cpsw_buf.cc:506`, MCBufChain_gap.cfg).
   - spec.md says the gap is zero-filled. The code leaves the old contents of
     recycled buffers.
7. **RSSI push with a finite timeout pops** (`cpsw_proto_mod_rssi.cc:29`,
   RssiQueue_finite.cfg).
   - The chain is dropped, an earlier queued chain is lost, and write reports
     success.
8. **NULL port handed to CSRPAddressImpl** (`cpsw_netio_dev.cc:1590`,
   MCStackBuilder_null.cfg).
   - An SRP builder with `useSRPMux(false)` on a TDEST already served by an
     SRP mux makes `makeProtoStack` return NULL.
   - The constructor then dereferences it at line 400.

9. **NULL port from the library builder** (`src/cpsw_proto_stack_builder.cc:1180`,
   MCProtoStackBuilder_null.cfg).
   - The same branch as finding 8. A YAML `SRPMux` section with
     `instantiate: false` on a TDEST already served by an SRP mux makes
     `build()` return NULL instead of throwing.
10. **Late replies give short samples** (`cpsw_netio_dev.cc:1155` and `:730`,
    MCSrpTiming_sample.cfg).
    - `then` is taken before each attempt, and a retry keeps the tid.
    - A reply to an earlier attempt is accepted, and `update()` folds in a
      round trip shorter than the real one.
    - srp_timing shows that, under a steady round trip, the timeout still
      settles.

11. **NULL dereference in findByName** (`cpsw_path.cc:370` and `:379`,
    MCPath_null.cfg).
    - A `..` that pops the last entry reads the marker's NULL address into
      `found`, and line 433 dereferences it: `"a/.."` from an empty path
      crashes instead of giving the origin.
    - A name looked up below a leaf tail throws `NotDevError(found->getName())`
      with `found` still NULL.
12. **useDepack(false) turns the depacketizer on** (`cpsw_netio_dev.cc:225`,
    PortBuilder_depack.cfg).
    - It clears the depacketizer's options through their setters, and each
      of them calls `useDepack(true)`.
    - No builder of a NetIODev can switch the depacketizer off. An SRP stack
      with a TDEST mux always gets one. The library's builder stores the
      flag and has no such problem.
13. **A failed class lookup leaves a dangling key** (`cpsw_yaml.cc:139`,
    Yaml_stale.cfg).
    - `map_[str.c_str()]` for a class no factory serves inserts a pointer
      into `makeItem`'s local string, with a NULL factory. The string is
      freed when `makeItem` throws NotFoundError.
    - The next `makeItem` at the same stack depth writes its class into the
      same buffer. Loading `Bogus` and then `DevImpl` makes the second load
      throw NotFoundError. 'Bogus' sorts below every declared class, so the
      freed key is a leaf under `DevImpl`, where `lower_bound` meets it.
14. **Sequence merge keys are ignored** (`cpsw_yaml.cc:70`, Yaml_seq.cfg).
    - `getNode` indexes `node["<<"]` with a string key. For `<<: [*a, *b]`
      that is a sequence, so the merged mappings are never searched.

## 5. Not modelled, and why

- **Entries, enums and commands, YAML dumping, and the text of paths**
  (`cpsw_entry.cc`, `dumpYaml*` and the emitters in `cpsw_yaml.cc`,
  `cpsw_shared_obj.h`, `getnum` and `toString` in `cpsw_path.cc`): tree
  construction and string processing. `readNode`/`mustReadNode`, which read
  a node's keys, are in a header outside src/; the model takes `class` as
  read by `getNode`.
  The path model takes the hierarchy as a constant and the parsed components
  as its inputs; modelling the characters would be a transliteration.
- **The RSSI protocol itself (CRssi), CBufQueue and the UDP module:** their
  code is not under src/. Their behaviour appears only as the environment of
  the models: queues, and a lossy, reordering network.
- **The packetizer path of Depack, header bit layout and statistics:** data
  formatting with no control.
- **The MMIO device and the thread wrapper:** declarations only.

## 6. Plan for later sittings

- Add loss to SrpTiming, in a run of its own, to check retry timing when
  replies are lost.
- Compose Depack with a bounded upstream queue, to check what happens when
  `tryPush` of a completed frame fails.
- Model the modules that a failed `makeProtoStack` leaves behind: TDEST ports
  created before a later check throws (line 1587).
- Model the packetizer (`processOutput`) against Depack for end-to-end frame
  delivery.
