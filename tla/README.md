# CausalWorks in TLA+

CausalWorks listens passively to the network of an industrial cell. Captured frames are decoded, classified
to the logical nodes a manifest declares, and recorded in a fixed-size ring. When the safety interlock of the
trip node falls, the engine walks the declared dependency edges backward from the trip, measures each edge
against its time budget, ranks the edges that were over it, and the result is stored as evidence.

The modules here are translated from the Rust source under `src/src/` (paths below are relative to the
repository; `causal.rs` is `src/src/causal.rs`). `PROJECT.json` lists the components, the runs, the line range
each definition stands for, the hazards, the findings and the theorems.

## 1. The system

| Component | Source | State it keeps | Operations | Correct if |
|---|---|---|---|---|
| history ring | `causal.rs` `RingBuffer` | slots, write index, length | `push`, `iter_rev` | a reader sees exactly the last CAP transitions, newest first |
| backward attribution | `causal.rs` `backtrack` | frontier stack, visited set, candidates | one call per trip | every candidate is a real overrun upstream of the trip; what can be found is found; most severe first; it returns |
| causal engine | `causal.rs` `CausalGraphObserver` | ring, sequence number, last interlock level per node | `classify`, `observe` | a trip is exactly a falling edge of the trip node; every trip is analysed on a correct window |
| manifest loader | `manifest.rs` `build`, `lint` | the parsed file | validation in order with early returns | built exactly if valid; warnings mean what they say |
| cycle detection | `manifest.rs` `detect_cycle` | colours, explicit stack | depth-first search | verdict exact for every start order; it ends |
| evidence store | `storage.rs` `InMemorySink`, `RocksDbSink` | rows by (timestamp, trace id), a row count | `open`, `put`, `range`, `len` | append-only, no key twice, scans complete and in order, acknowledged rows kept, both backends alike on rows made from their evidence |
| capture file readers | `stream.rs`, `replay.rs` | position in the file, counters, flag | `new`, `from_bytes`, `next_frame` | whole frames in order, the end told exactly, both readers agree |
| frame parser | `ingest.rs` `parse_frame` | none | one pure function | never reads beyond the frame; whoever re-reads the frame agrees with it |
| live capture | `ingest.rs` `PcapSource` | libpcap handle | `next_frame`, `timestamp_source` | stamps of the clock it names, in order |
| hardware timestamps | `hwcapture.rs` `HwTimestampSource` | a packet socket, whether the last stamp was the card's | `open`, `recv_one`, `next_frame`, `Drop` | the provenance told is that of the frame returned; frames under one clock's name in order; one clock where hardware is required; the bound interface's frames only; the descriptor closed once |
| discovery | `discovery.rs` | per-stream histograms and toggling masks, tallies | `observe`, `observe_unclassified`, `quantile`, `toggling_bits` | each frame counted once; quantiles bracket the samples; the mask is what was seen to change |
| trace record | `trace.rs` | none | `CausalTrace::build`, `TraceRow::from_trace` | one record per trip; an attributed trip is never understated |
| harness | `bin/harness.rs` | counters, event log | the commands `run`, `run-manifest`, `preflight`, `discover`, `validate` | counts add up and agree between commands; one row per trip |

How they interact: a reader hands `(ts, bytes)` to the parser, the parser's frame goes to
`CausalGraphObserver::observe`, a trip comes back as a `TripAnalysis`, `trace.rs` turns it into a row and the sink
stores it. `preflight` and `discover` read the same file with the same parser and count on their own. All of it
is synchronous calls on one thread; nothing is shared between threads. The manifest is validated once before the
engine exists. The live sources implement the same trait as the file readers but no command uses them yet.

What is hard here is therefore not threads but *order and loss in the data*:
timestamps that tie or run backward between tap ports, a ring that forgets the trigger of a slow chain, HashMap
and HashSet orders that differ from process to process, graphs with several paths to a node, reads that return any
part of a buffer, files cut inside a record, frames whose headers lie about their length, two clocks that stamp
one stream, system calls that fail half way through a set-up, and the death of the process between a database write
and the count of it. `PROJECT.json` lists the hazards, each at its line, with the properties that watch it or the
reason none does.

## 2. The modules

    TransitionWindow (abstract)     EvidenceStore (abstract)            PcapFile
         ^ implements                   ^ implements  ^                   ^ extends      ^
     RingBuffer   Grouping       RocksDbSink     InMemorySink     StreamingPcapSource  PcapReplaySource
         ^ extends  ^                 ^ extends       ^ instance          ^ extends      ^
     CausalEngine --instance->        EvidenceSinks --+                   CaptureReaders --implements--> CaptureSource
         |         BacktrackWalk
         ^ extends                        ParseFrame    LogHistogram
     AttributionRun --extends--------------^  ^  ^        ^ extends
         \--instance--> InMemorySink          |  Discovery
                                              Preflight  ^ extends         LiveCapture
     ManifestLoader --extends--> CycleDetection   CaptureTriage

| Module | Models | Correspondence |
|---|---|---|
| `TransitionWindow` | what the ring promises | one step puts a transition in front; when full the oldest leaves |
| `RingBuffer` | `RingBuffer<CAP>` | `Push` is `push`, `IterRev` the sequence `iter_rev` yields; `pushed` is a history variable |
| `Grouping` | `entry(key).or_default().push(v)` in a loop | the adjacency lists of the engine and of the cycle search |
| `BacktrackWalk` | `backtrack` | `Call` sets up the locals; `Skip`/`Visit` is one turn of the while-loop, `PassEdge`/`MeasureEdge` one turn of the for-loop, `Rank` the sort and return |
| `CausalEngine` | `classify`, `observe` | `Ignore` (classify finds nobody), `ObserveQuiet`, `ObserveTrip`, `Backtrack` (a step of the walk, during which no frame is observed) |
| `CycleDetection` | `detect_cycle` | one action per branch of the two loops |
| `ManifestLoader` | `build`, `lint` | `Reject` (first failing check), `Search`, `DetectCycle` (the search's steps), `RejectCycle`, `Accept`, `Lint` |
| `ParseFrame` | `parse_frame`; the harness's and discovery's own re-readings of a frame | `Parse` is the pure function, with the last offset it read; `EthertypeOf`, `IoPayload`, `UdpDstPort` read the raw frame again |
| `LogHistogram` | `LogHistogram<SUB>` | `Index`, `BucketLower`, `RecordGap`, `Quantile` |
| `Discovery` | `DiscoveryEngine`, `StreamProfile` | `Observe`, `ObserveUnclassified`; `Discover` is one turn of the command's loop |
| `Preflight` | `compute_preflight` | `Measure` is one turn of its loop, `Verdict` its answer |
| `CaptureTriage` | both commands over one file | composition: a step hands one frame to both |
| `AttributionRun` | `run`, `run-manifest`, `CausalTrace::build`, `TraceRow::from_trace` | `DropFrame`, `TakeQuiet`, `TakeTrip`, `Analyse`, `Store`, `End` are the ways through one turn of the loop |
| `EvidenceStore` | the promise of `TraceSink` | `Accept(r)` adds a row under a fresh key |
| `TraceKeys` | the key of a row and the order of keys | `InKeyOrder` is the iteration of an ordered map; both sinks extend it |
| `InMemorySink` | the BTreeMap sink | `Put`, `RangeOf` |
| `RocksDbSink` | the RocksDB sink | `Open`; `put` is `PutDuplicate` or `PutCheck`, `PutWrite`, `PutCount`, with `PutFails`, `Crash` and `PowerCut` possible between; `DbRange` is the set of answers `range` may give: the rows made again from the stored evidence (`FromTrace`), a parse error, a database error |
| `EvidenceSinks` | both sinks fed by one caller | composition: an acknowledged put is repeated on the in-memory sink, which a death empties |
| `CaptureSource` | what the trait promises of a source with a fixed number of frames | `HandOver` one by one and in order, `EndOfStream` (`Ok(None)`) when all have come, `Fail` |
| `PcapFile` | the file format both readers assume | global header, records, any cut |
| `StreamingPcapSource` | `stream.rs` | one `Fill` per successful `read()`; the other actions are the branches of `new` and `next_frame` |
| `PcapReplaySource` | `replay.rs` | `FromBytes`, `Replay`, `NoMoreRecords`, `Refuse` |
| `CaptureReaders` | one file streamed, then replayed | composition; each reader is an instance of `CaptureSource`, whose frames are the whole ones of the file |
| `LiveCapture` | `HwTimestampSource`, `PcapSource` | `OpenStep`/`OpenFails` for each system call of `open`, `RecvOne`, `NextPacket`, `TimeoutExpired`, `CallFails`, `Drop`; `Arrive` is the kernel; `handed` is a history variable: each frame with its stamp and what `timestamp_source` answers for it |

`MC*.tla` give the constants their small values; `WireFrames` builds the frames two of them use, as the harness's
fixture does. `*Proofs.tla` hold the theorems, `LeastPositions` the lemmas several of them share (least elements, the lists
a loop builds, sums over finite sets). A definition
marked "Mutant" is a faulty version of the definition after it, kept to show that the properties notice the fault; no
specification uses it.

### Abstractions
- `normalized_overrun` is an f64 quotient in the code. `MoreSevere` compares the same quotients exactly by
  cross-multiplication; rounding to equal f64 values is not modelled. The rank of a quantile is likewise exact.
- A status byte, and each byte of a PROFINET payload, is the set of its bits that are 1; a node id, a topic port and
  a payload are members of small sets.
- A frame is the headers it was built with and the number of bytes captured of it. Lengths and offsets are real (14, 4,
  20..60, 8); the parser's answer records the last byte it looked at. Pose coordinates are left out.
- A trace id is a number, its rank in the byte order in which the map and the database sort it. In `AttributionRun`
  that rank is taken to be the sequence number, true for ids of one digit (the code sorts decimal strings, so row
  10 sorts before row 9 at equal stamps: nothing depends on it).
- The bytes of a capture file are not modelled: a file is its magic, the fields its records were written with, and
  the byte it stops at. Byte order is thus left out. An interrupted read is a stuttering step.
- Labels, the cell name, the JSON syntax, printing, the mean of a histogram and the statistic `max_cap_minus_orig` are left out.
- RocksDB is external: writes survive the death of the process; a power cut may take the latest part of the log
  that was never synced, because `put` uses default write options.
- The kernel is external too: it receives on a packet socket from `socket()` on and on every interface until `bind()`,
  drops what does not fit, stamps with the system clock once asked to and with the card's where the card does. Stamps may
  tie (libpcap's are whole microseconds); neither clock is ever set back, which is an assumption; the card of another interface
  may show anything. The layout of the control message is left out.
- JSON is modelled by what it refuses: evidence that is no trace cannot be read back. A trace that was written is read
  back as it was; serde_json without its `float_roundtrip` feature may change the last bit of an overrun, which is left out.
- The counts `truncated`, `ended_mid_record` and `span_ns` that preflight and discover print are left out of `Preflight` and
  `Discovery`; no verdict depends on them (the readers' own counter and flag are in `CaptureReaders`).
- `upto`, the last byte looked at, is kept for `parse_frame` only. The re-readers check lengths of their own before they index;
  `ReparsesAgree` says what they find, and nothing is claimed of how far they look.
- `classify` picks the first claimant in the iteration order of a HashMap. The order is fixed when the engine is
  made and chosen nondeterministically.
- Integers are unbounded, except in `LogHistogram`, where the product in `bucket_lower` wraps at `Width`. In the code
  (width 64, 8 buckets per band) that matters for values from 2^62 on: `Fits` says which values it spares. The stamps the
  readers produce stay below 2^62 (a u32 of seconds times 10^9 plus a u32 fraction), so all gaps fit, and `effect_ts + 1`
  cannot overflow there.

## 3. The runs

| Run | Instance | What it shows |
|---|---|---|
| `walk` | every ring content of up to 4 transitions over 3 nodes, stamps 1..4 in any order, budgets 1 and 2; a chain, two diamonds that declare the legs in either order, parallel edges, a graph with a self loop and a cycle | what is reported is genuine and upstream of the trip, the second lookup of a popped item always succeeds, no edge is taken twice, everything is found when no node competes with itself, the ranking is a stable permutation, the call returns |
| `engine` | ring of 3, 4 recorded frames, instants 1..4, stamps may tie or go back one tick, a chain, a diamond and a manifest with two nodes on one frame, 5 payloads of which one is claimed by nobody, every HashMap order | the ring is the window; a trip is exactly a falling edge of the whole history; eviction only loses and nothing but eviction or a competing instance loses; measured triggers are the latest arrivals when stamps increase |
| `pipeline` | `run` on the demo cell and `run-manifest` on one with two legs, on captures of up to 5 frames out of six kinds (interlock high and low, two tracked devices, an untracked one, one cut short), instants 1..3, stamps may tie or go back one tick, a response budget of 1 | one stored record per falling edge, no refused put, counters that add up; every cause names a trigger and an effect of the history in their order, and a record of `run` holds both in its window; an attributed record never understates its response; every trip is stored |
| `manifest_checks` | 4 node lists (empty, duplicated, one missing, complete), up to 2 edges over 3 ids, budgets 0, 1, 3, 4 with limit 3 and tight 2; every graph on 3 nodes with up to 2 children each, every start order | built exactly if valid; the cycle verdict is exact and names a node on a cycle; lint's unreachable warning is right; loading ends |
| `captures` | up to 2 records of 0..3 bytes, limit 2, snap-cut or whole, every size from 0 to the last byte, 4 magics, real header sizes 24 and 16 | both readers implement `CaptureSource` (whole frames only, in order, nothing after the end), the end is told exactly, they agree, both end |
| `discover` | every one of 33 frames cut at every length; pairs of them; 4 payloads of changing length in one stream; 5 stamps out of {0, 1, 3, 20, 37} in any order; the coverage threshold; `SUB` = 8 as in the code | no read beyond the frame; the re-readings agree with the parser; both commands' counts add up and agree; the mask is exactly what changed within the first payload's bytes; quantiles bracket the exact ones |
| `rocksdb` | 5 rows on 4 keys at 2 instants: one key with two evidences, a row whose evidence is no trace (as in the tests of `storage.rs`), a row filed under another key than its trace's; both sinks, deaths and power cuts at every point | count equals rows whenever ready; deaths lose no acknowledged row; both sinks answer puts and count alike, and scan alike exactly as long as the rows of the interval are what `from_trace` makes of their evidence; scans complete and chronological; append-only but for power cuts |
| `live` | both sources, hardware required or not, a libpcap handle set to the card's stamps or not, up to 4 packets over 3 instants with or without either stamp, a buffer of 2, a card 2 ticks ahead, another interface's card showing 1 or 9, each system call failing or not | the provenance told is that of the last frame; the bound interface's frames told one clock never run backward, and with hardware required there is one clock only; every descriptor closed exactly once |

Why these bounds suffice to meet the interesting cases: four pushes into a ring of three wrap the head and evict, so
a trigger can be missing; three transitions plus a trip are enough for two instances of a node, ties and a
reordered pair; five frames give two trips with a cause between them, and two trips at one stamp; three nodes give a diamond, a self
loop and a cycle through the trip; two children per node give parallel edges and black children met from a second
start; budgets lie just inside and outside each limit; two records make a reader start a second header after an unaligned body;
two keys that share a timestamp separate (ts, id) from ts; the stamps of `discover` give gaps in the shared bucket
of 0 and 1, in one band, and in bands apart, and four gaps make every quantile's rank fall at an end; a buffer of two
overflows, clocks two ticks apart run backward when mixed, and three instants for four packets make stamps tie.
`MaxPushes`, `MaxFrames`, `MaxPackets` and `MaxTime` (bounds on a history and on the clock), `MaxHeld`, `MaxTs`, `MaxEdges`,
`MaxChildren`, `Updates` and `Stamps` are bounds of the instances, not of the code. `pipeline` is the largest run, some
1 000 000 states; `rocksdb` has 441 000, `captures` 412 000, `engine` 108 000, the others fewer.

Fairness. `observe`, `backtrack`, `build`, `detect_cycle`, the reader loops and the body of the attribution loop are
ordinary calls that run to their return, so a step that can be taken is taken (`WF`). The arrival of further frames is
not assumed fair. A failing read is possible at every moment and never assumed to happen (`Progress` leaves it out);
a read that is interrupted again and again for ever is excluded, since an interrupted read is not a step of the model.
The two sinks and the live sources are driven by their callers and have no fairness, and no liveness is claimed of them.
Deadlock checking is off exactly where the program stops: after a returned walk, a verdict, a finished load, the end of
a file, a dropped source, and the bound on recorded frames.

### What the code does not keep
Four runs each check one sentence of the repository and end in a counterexample.

| Run | Sentence | What happens |
|---|---|---|
| `engine_lost_trigger` | `causal.rs:151-153` "Empty => trip occurred with no WCET violation on any dependency path" | the overdue trigger has left the ring: the report is empty although the path was violated |
| `engine_shared_node` | `causal.rs:14-16` "return the violation with the largest normalized magnitude" | a node feeding the trip on two paths is explained from one of its instances; the severer violation behind the other is not reported |
| `rocksdb_durable` | `storage.rs:11-12` RocksDB "survives power loss with WAL" | the log is not synced by `put`: a row that was acknowledged may be gone after a power cut |
| `live_foreign` | `hwcapture.rs:124` "Bind to the interface so we only receive its mirrored traffic" | what other interfaces brought between `socket()` and `bind()` is already queued and is handed out after it, stamped by another card |

Smaller disagreements met while reading, with no run of their own:
- `causal.rs:10` speaks of the latest earlier update; the lookups at 197 and 299 use a strict `<`, so a trigger stamped
  like its effect is passed over for an older one.
- `manifest.rs` accepts a `bit_index` of 8 or more; the shift at `causal.rs:61` panics on it in a debug build and takes
  it modulo 8 in a release build (modelled so).
- A scan with start beyond end panics on a non-empty in-memory sink (`storage.rs:105`) and is empty in RocksDB; the
  comment at 54-56 says both scan identically. `SinksAgree` is stated for start <= end.
- That comment does not hold either of a row whose evidence is no trace, such as the `"{}"` rows of the sink's own tests: the
  map returns it, the database's scan ends with a parse error and returns nothing. The harness makes every row with `from_trace`.
- `harness.rs:177-184` and 252 say S7comm on IPv4/TCP is counted unclassified; `parse_frame` (`ingest.rs:298-316`) accepts it.
  `CoverageAddsUp` holds because both commands ask the parser, not the comment.
- `trace.rs:105` calls the event sequence the "full ms-by-ms sequence preceding the trip"; the record of `run-manifest` holds
  the trip alone. What `RecordPointsIntoItsWindow` says of the window is stated for `run`, the rest for both.
- `discovery.rs:15-17` says any bit that ever changed is set, and 180-181 that the mask grows to the longest payload; lines
  207-217 compare with the first payload only, so a bit of a byte it does not have is never listed. `TogglesSeen` claims nothing of
  such bytes.
- The comment above `timestamp_source` (`ingest.rs:197-199`) asks whoever sets a libpcap handle to the card's stamps to edit the method; until then
  such a handle's frames are told as software stamps. `ProvenanceOfFrame` and `OneTimeline` except it.
- `PcapSource` answers a read timeout with `Ok(None)` (`ingest.rs:192`), which the trait gives for a "clean end-of-stream" (153): the
  next packet may arrive after it, so this source does not implement `CaptureSource` as the file readers do.
- `src/README.md:167` says each declared node is "matched against the capture by protocol and identifier (... Profinet frame_id +
  bit_index)"; `classify` (`causal.rs:115`) gives a frame to the first node of the HashMap that claims its frame_id, so of two nodes that read
  different bits of one frame one is starved, and which one depends on the process. `build` accepts such a manifest.
- Preflight's jitter floor is that of `ReplayFile`, which is 0: the warning that compares intervals with it never fires.

## 4. The proofs

All of these hold for every value of the constants: every capacity, number of pushes, ring content, graph, budget, start
order, manifest, file and way of cutting reads, number of deaths. They use only the named assumptions of the modules.

| Module | Theorems | Argument |
|---|---|---|
| `BacktrackProofs` | `WalkTypeCorrect`, `WalkCandidatesGenuine`, `WalkCandidatesUpstream`, `WalkEffectAlwaysFound` | `WalkInv` adds to the properties that what the second lookup finds for *every* frontier item is an instance upstream of the trip and of the item's own node (`FrontierUpstream`), and that the edges still to be measured are edges into an effect that is upstream too (`LoopUpstream`). An item is resolved only when popped, after others were pushed, so the properties alone do not carry over a `Visit`. |
| | `WalkCompleteWhenUnambiguous` | Under its premise, at most one upstream instance of each node that has edges into it. `ThoroughInv`: the trip is visited or still on the frontier (`Reached`); every edge into a visited instance is still waiting in the for-loop, or its trigger's node is reached and its overrun, if it is one, found (`NothingMissed`); a ranked walk has nothing waiting (`Exhausted`). The visited nodes are then closed under hops, so they hold everything upstream, by the least number of hops to something missed. |
| | `WalkRankedSevereFirst` | `RankedInv`: the returned list is `RankSevereFirst(candidates)`. That operator chooses a permutation, so the theorem needs one to exist for every list: each candidate takes as its place the number of those before it in the order (severity, position found), which is total because the quotients are compared as integers. |
| | `WalkEachEdgeOnce` | `CountInv`: the edges taken and the edges waiting are, counted with repetition, the edges declared into visited nodes (`ScansCounted`), and so for each edge that was blamed (`BlameCounted`). The nodes with edges must be finitely many, as in a HashMap. |
| `EngineProofs` | `RingTypeCorrect`, `RingHoldsLastCAP`, `RingReadsOnlyWritten`, `RingImplementsWindow` | `RingInv` is `HoldsLastCAP` with the types beside it: without `head` being a slot the modular index says nothing. The step is an arithmetic lemma (`RevIndexShifts`): a push makes the slot at `head` the newest and every other one older by one. Refinement: `IterRev` after `Push(t)` is `Slide(t, IterRev)`. |
| | `EngineTypeCorrect`, `EngineTripIffFallingEdge`, `EngineImplementsWindow` | `EngineInv` ties the code's one remembered level to a history of any length: `Tracked` says `last_interlock` is the level of the trip node's latest sample, wherever it lies, and `Numbered` that a transition's number is its place. |
| | `EngineEvictionNeverInvents`, `EngineTriggerIsLatest`, `EngineLossOnlyByEviction` | `EvictInv` adds the walk's invariants (`WalkFacts`), used through an instance of `BacktrackProofs` on the ring's view. The view is a prefix of the newest-first history, so whatever a lookup finds in the view it finds in the history, and what is upstream in the view is upstream there, by the hops from the trip. Increasing stamps make the order of stamps the order of arrival. For the loss, under the same premise as the walk's completeness: were every update on the way in the view, the walk, which finds everything, would have found the overrun. |
| `PipelineProofs` | `LoopOneRecordPerTrip`, `LoopRecordPointsIntoItsWindow`, `LoopResponseCoversOverrun` | Every step of the loop is a step of the engine or leaves it alone (`LoopStepsEngine`), so `EvictInv` holds in the loop. `LoopInv` adds where the loop stands between two frames (`TurnInv`), that the rows are those of the trips analysed so far (`RowsInv`, `TallyInv`), what an analysis claims (`ClaimsRight`), which stays true of a history that only grows (`HistoryGrows`), and that the event log of `run` is the engine's history, one transition behind while a trip is analysed (`LogInv`), so that what the ring holds is in the record's window. |
| `ManifestProofs` | `DfsTypeCorrect`, `DfsGrayIsOnStack`, `DfsAcceptsOnlyAcyclic`, `DfsRejectsOnlyCyclic` | `DfsInv`, which while the search runs says (`SearchInv`): the stack is a path of distinct gray nodes (`StackPath`), the children already passed are black or next on the stack (`PassedChildren`), black nodes have only black successors and contain no knot (`BlackDone`), every node has been reached or is still to start from (`NoneForgotten`). Cyclicity is stated without paths: a set in which everyone has a successor inside (`Knot`). |
| | `LoaderBuildIffValid`, `LoaderLintSeesDeadTrip`, `LoaderAcceptsOnlyAcyclic`, `LoaderRejectsOnlyCyclic` | `LoadInv` says what has been established at each point of `build`; the search's part is `DfsInv`, which holds when `Search` calls it because its initial condition does. `AdjHolds` shows that the adjacency lists are the edges, `ChecksAreValidity` that the checks in order are the bullet list of `manifest.rs`, and `OnCycleIsCyclic` turns the node an error names into a cycle, so that a rejection is right as well. |
| `CaptureReadersProofs` | `ReadersTypeCorrect`, `StreamYieldsWholeFrames`, `StreamEndsExactly`, `StreamAgreesWithReplay` | `ReadersInv` says at which boundary each reader stands, how much of the next header or body it has taken, and for every reason to stop the fact about the file behind it; two readers that both stopped then stopped at the same record for the same reason. That records do not overlap is derived from the file's layout (`NoOverlap`). |
| | `ReadersAreCaptureSources` | Refinement from `ReadersInv`: `Yield` and `Replay` are `HandOver`, since the record just taken is the next whole one (`NextOfContents`); an end is one where everything has come (`AllOfContents`); everything else is a stutter. The stream may fail at any read, the replay only behind its last frame (`MayFail`). |
| `SinksProofs` | `DbTypeCorrect`, `DbCountMatchesRows`, `DbAcknowledgedSurvive`, `DbImplementsStore`, `MemoryImplementsStore` | `DbInv` adds to the properties that keys are distinct in the log (`KeysDistinct`) and what a put under way has found and done (`PutSoFar`): a row checked is still absent when it is written, a row written is not yet counted. A power cut keeps a prefix of the log, which keeps all of this but the acknowledgements. |
| | `MemoryScanComplete`, `BothSinksAgree` | `SinksInv`: the map files every row under its key (`MapInv`), and until the process dies holds the rows the database holds, but for the one being put (`TeeInv`). `InKeyOrder` counts the rows before a row: distinct keys make that count a bijection onto `1..n`, so a scan lists every row once, and the rows of an interval are a block of that list, which is what seeking and stopping in the database visits; if `from_trace` makes each row of the block again, the rebuilt list is that block. |
| `IntakeProofs` | `LiveProvenanceOfFrame`, `LiveOneTimeline`, `LiveFdClosedOnce` | `LiveInv`: for either clock, the stamps it put on packets of the bound interface do not run backward along the receive buffer nor exceed what it shows (`BacklogInOrder`), and frames handed over under its name are no later than those (`HandedBeforeBacklog`); a packet of another interface counts as unstamped there, so its clock may show anything; the descriptor is open in just the steps where it is owned. |
| | `TriageReadsWithinFrame`, `TriageReparsesAgree`, `TriageTogglesSeen`, `TriageCoverageAddsUp` | The first two are facts about `Parse` on every frame of natural numbers. `TriageInv` says that a stream's statistics come from the frames of the prefix read so far that belong to it (`GroupedInv`, `MaskInv`, the latter for the bytes of the first payload); `CoverInv` that both commands' counters are sums over that prefix, each frame adding 1 in one place (`SumTakeOut`, `SumGrows`). |
| | `TriageQuantileBrackets` | `GapsInv`: a stream's histogram is that of the bag of its gaps, and the stamp it remembers is the last. `Index` is monotone (`IndexMonotone`), so the count up to a bucket is the number of gaps in the buckets up to it, and the bucket where the rank falls is that of the exact quantile (`RankInBucket`); its lower edge is below each of its values by less than one part in `SUB` (`LowerEdge`). |

The assumptions that carry weight: `CapturesAssumption`, stamps that fit the histogram, which the classic format's stamps
do (above); `HistogramAssumption`, `SUB` a power of two, as the code says of its const parameter and uses; a finite set of nodes
with edges in `WalkInit`; budgets from 1 on (`WcetAssumption`, `BudgetAssumption`), which `build` enforces.

The provers cannot instantiate an induction theorem. Where a fact is inductive by nature (`Grouped`'s lists, records one
behind another, the path back along the stack, hops from the trip, powers of two, sums over a set) the proof takes a least
counterexample instead (`LeastPosition`). Recursive functions, the powers of two and the partial sums among them, are
shown to exist the same way, by joining their restrictions.

Every safety invariant, action property and refinement that a passing run checks is proved. Model-checked only: the liveness
properties `WalkReturns`, `EveryTripStored`, `LoadingEnds` and `ReadersEnd` (the provers reach neither fairness nor `ENABLED`).

## 5. Not modelled
Printing and report layout, argument parsing, the synthetic capture the harness writes (its frames are `WireFrames`, its
sequence is test data), the JSON forms of manifest and record, and the f64 arithmetic named above: no property is about them.
`PcapSource` has no constructor in the code and libpcap is external; only its two methods are modelled. No command opens a
live source, so no composition of one with the engine is modelled.

## 6. Plan
What remains, most valuable first:
1. The manifest loader as an implementation of a one-step "valid or not", from `LoadInv`; the attribution loop as an
   implementation of "one row per falling edge", from `LoopInv`.
2. The walk without its frontier: that the candidates do not depend on the order in which edges are listed when
   no node competes with itself.
3. Lemmas in place of the longest steps of `IntakeProofs`.
