# A verification project for v-zstd

v-zstd binds the compression library zstd 1.5.7 (vendored under `libzstd/`) to
the language V. These TLA+ modules model the wrapper's staging buffers and
chunk loops, the streaming state machines of libzstd they drive, what happens
to a block between the input and the decoder's output - window, match finders,
block compressors, entropy coders, and the memory it is decoded in -, the
thread pool and multi-threaded compression, and the command `gzstd`. TLC checks
them on small instances; the safety of the wrapper, of the streaming machines, of `gzstd`,
of the pool and of multi-threaded compression is proved with TLAPS for every value of
the constants.

Paths below are relative to `src/`.

## 1. Inventory

### The parts, their state and their operations

| Part | State | Operations |
|---|---|---|
| **StreamContext** (`stream_context.v`) | `input` (array, `size`, `pos`), `output` (array, `pos`) | `new_stream_context`, `reset`, `drain_buffer` |
| **compress_chunk, compress_end** (`compress_stream.v`) | locals of the loop: `pos`, `rest_len`, `res` | copy a piece, call `ZSTD_compressStream2`, drain, check the end |
| **decompress_chunk** (`decompress_stream.v`) | the same | the same around `ZSTD_decompressStream` |
| **CompressContext, DecompressContext** (`compress_context.v`, `decompress_context.v`) | a `ZSTD_CCtx` or `ZSTD_DCtx` | create, free, reset (session, parameters), get and set parameters, pledged size, one-shot calls |
| **One-shot functions** (`compress.v`, `decompress.v`) | none | `compress*`, `decompress*`; the buffer of `decompress` has the content size of the first frame |
| **Sizes and errors** (`common.v`, `errors.v`) | none | `compress_bound`, content size queries, `check_error` |
| **gzstd, gunzstd** (`cmd/`) | the file loop, one context of each kind for all files | open, read, chunk, write through the callback, abort |
| **ZSTD_compressStream2** (`libzstd/compress/zstd_compress.c`) | `streamStage`, the input ring `inBuff`, `outBuff` with its flushed part, `frameEnded`, the pledged size | transparent init, load, compress a block, flush, session reset |
| **Frame encoder** (same file) | `stage`, `consumedSrcSize` | header, blocks, epilogue, size control |
| **Window and match state** (`zstd_compress_internal.h`) | base, limits, `nextToUpdate`, an attached dictionary | update, correct overflow, enforce distance |
| **Match finders** (`zstd_lazy.c`, `zstd_opt.c`, `zstd_ldm.c`) | hash, chain, row and tree tables; the hash cache; the rolling hash | insert, search, correct indices |
| **Block compressors** (`zstd_fast.c`, `zstd_double_fast.c`, `zstd_lazy.c`, `zstd_opt.c`) | the last offsets, the sequence store | parse a block into sequences |
| **Sources of sequences** (`zstd_compress.c`, `zstd_ldm.c`) | lists of raw sequences | long distance matches, an external producer, the application's own |
| **Block splitting** (`zstd_preSplit.c`, `zstd_compress_superblock.c`, `zstd_compress.c`) | statistics of the block | where to cut; superblocks |
| **Entropy coders** (`fse*`, `huf*`, `bitstream.h`, `hist.c`, `zstd_compress_literals.c`, `zstd_compress_sequences.c`) | tables and whether they may be repeated, bit containers | count, build, encode, decode |
| **ZSTD_decompressStream** (`libzstd/decompress/zstd_decompress.c`) | `streamStage`, `stage`, `expected`, `inBuff`, the output ring `outBuff`, `hostageByte`, `noForwardProgress`, buffer sizes | header, single pass, read, load, flush, end of the call |
| **Block decoder** (`zstd_decompress_block.c`, `huf_decompress.c`) | `litBuffer` and where it lies, the last offsets, tables | literals, sequences, copies |
| **Thread pool** (`pool.c`, `threading.c`) | circular queue, two condition variables, thread limits | create, add, try to add, join the jobs, resize, free |
| **ZSTDMT** (`zstdmt_compress.c`) | job table, round buffer, serial state, pools of buffers and contexts | cut a job, post it, compress, flush in order, resize, free |
| **Workspace** (`zstd_cwksp.h`) | one arena: objects, tables, aligned, buffers; allocation phase | reserve, mark clean or dirty, clear |
| **Checksum** (`xxhash.*`), **dictionaries** (`zstd_ddict.c`, `zstd_compress.c`) | accumulators; content, tables, a hash set | update, digest; load, attach, insert, find |

The wrapper's build does not define `ZSTD_MULTITHREAD`: the pool and ZSTDMT are
in the repository but not reachable from V.

### How they interact

The application calls `compress_chunk` with a slice. The loop copies what fits
behind `input.size` into the staging buffer, calls `ZSTD_compressStream2` once
with `ZSTD_e_continue` (`ZSTD_e_end` for the last piece of a last slice), and
`drain_buffer` hands the output to the application's callback and moves what
the codec did not consume to the front. `compress_end` is one more call with
`ZSTD_e_end`. Decompression is the same loop around `ZSTD_decompressStream`.
State crosses calls in two places that are reset separately: the
`StreamContext` (`reset`) and the codec's session (`reset(session_only)`).
`gzstd` runs the loop for every file and resets the codec only.

Below, each block goes through the window, one source of sequences, and one of
three ways out (whole, split after parsing, superblock). The encoder keeps two
copies of what it shares with the decoder, the last offsets and the entropy
tables: `prevCBlock`, which the decoder knows, and `nextCBlock`, which becomes
known only if the block is sent compressed. The decoder rebuilds both from the
bytes it gets. ZSTDMT puts jobs that lie in a round buffer into the pool; the
jobs take turns in the serial state (checksum, long distance matches) and the
caller flushes what they produced in order.

### What is hard

* **Interruption.** libzstd may stop anywhere: input used up, output full,
  block half loaded, flush half done. Every stop is a state the next call must
  resume from, with another length of slice.
* **Rings.** The input ring of the compressor, the output ring of the
  decompressor and the round buffer of ZSTDMT wrap while parts of them are
  still needed as history, by jobs, or are not flushed yet.
* **What the decoder knows.** Offsets by code, repeated tables and distances
  are shorthand for state the two sides keep apart; raw, repeated, split and
  partly compressed blocks change one side's and not the other's.
* **Stale tables.** Match tables outlive blocks, segments, frames and
  corrections of the indices, and are never cleared on the way.
* **Copies that run over.** Literals wait in the room of the output they become
  part of, and every copy may write up to 32 bytes too far.
* **Concurrency** (not in the wrapper's build): waiters of different kinds
  behind one condition, jobs that fail before their turn, resources released
  while jobs may still run.
* **Failure.** The drain callback may fail before or after it stored the data;
  the codec fails with `input.pos` unchanged although it has loaded input; the
  application may reset either context, both or none; allocations fail in jobs.
* **Ends.** The result 0 of the codec, `input.pos = input.size`, an empty
  slice, the last byte withheld by the decoder: four notions of "done".
* A crash loses everything, as nothing is persisted except the files of `gzstd`.

### What makes each part correct

* StreamContext: no copy leaves a buffer, no byte is lost, repeated or swapped.
* Compression: what left through the callback decodes to what was handed over;
  a reported end is the end of a frame; only a broken pledge is an error.
* Decompression: the content arrives in order, once; history is intact; a
  caller that goes on finishes; 0 means finished; success means complete.
* gzstd: a file reported as compressed holds its own frame and nothing else.
* Window, match finders: what is called a match is one, and within reach of the
  decoder.
* Block compressors, entropy coders: the decoder regenerates the block, with
  its own offsets and tables.
* Block decoder: overlapping copies give the same result as exact ones, inside
  the buffers.
* Pool, ZSTDMT: every job runs once, every call returns, the output is the
  frame in order, and nothing is overwritten or released while it is in use.

## 2. The modules and the code

| Module | Models | Extends |
|---|---|---|
| `StreamContext` | `stream_context.v` and the chunk loops, around any codec | |
| `StreamContextProofs` | theorems | `StreamContext` |
| `CompressStream` | `compress_stream.v` with `ZSTD_compressStream2` | `StreamContext` |
| `CompressStreamProofs` | theorems: sizes, errors, refinement, contents | `CompressStream`, `StreamContextProofs` |
| `Gzstd` | `cmd/gzstd/gzstd.v.off` | `CompressStream` |
| `GzstdProofs` | theorems | `Gzstd`, `CompressStreamProofs` |
| `DStream` | `ZSTD_decompressStream`, without a caller | |
| `DStreamCaller` | an application that calls it directly | `DStream` |
| `DStreamProofs` | theorems: delivery, window | `DStreamCaller` |
| `DStreamFrameProofs` | theorems: frames, answers, flaws | `DStreamProofs` |
| `DecompressChunk` | `decompress_stream.v` with `ZSTD_decompressStream` | `StreamContext`, `DStream` |
| `DecompressChunkProofs` | theorems | `DecompressChunk`, `StreamContextProofs`; an instance of `DStreamFrameProofs` |
| `DBlock` | the memory in which a block is decoded | |
| `Window` | `ZSTD_window_t` | |
| `SeqCodes` | sequences, offset codes, the sequence store, the decoder's execution | |
| `BlockParse` | what all block compressors share | `SeqCodes`, `Window` |
| `ParseFast`, `ParseLazy`, `ParseOpt` | the block compressors | each the one before, from `BlockParse` |
| `RawSeqs` | sequences from elsewhere | `ParseOpt` |
| `LZ` | a compression context and its decoder, block after block | `RawSeqs` |
| `TableSearch` | hash chains, rows, dedicated dictionaries | `Window` |
| `TreeSearch` | the two kinds of binary tree | `TableSearch` |
| `LdmTable` | the long distance matcher's table and lists | `TableSearch` |
| `MatchFinder` | the finders at work over a moving window | `TreeSearch`, `LdmTable` |
| `FSE` | bit streams, normalised counts, the tables of both sides | |
| `HUF`, `HUFD` | Huffman encoder; decoders | `FSE`; `HUF` |
| `LitSection`, `SeqSection` | the two sections of a block | `HUFD`; `SeqCodes`, `FSE` |
| `SuperBlock` | blocks in parts | `LitSection`, `SeqSection` |
| `EntropyBlock` | blocks through encoder and decoder, with what they keep | `SuperBlock` |
| `Pool` | `pool.c` | |
| `PoolProofs` | theorems | `Pool` |
| `ZSTDMT` | `zstdmt_compress.c`; instances of `Pool` and `Window` | |
| `ZSTDMTInvariant` | the inductive invariant | `ZSTDMT` |
| `ZSTDMTProofs` | theorems | `ZSTDMTInvariant` |
| `FrameShapes`, `MC...` | frames and instances for TLC | |

**StreamContext** is the abstract specification of the wrapper. An action is a
stretch of the loop between two points at which something else may happen:
`ChunkBegin` (the call), `Fill` (copy up to the codec call), `CodecReturn` or
`CodecFail`, `DrainBuffer` or `DrainFail`, `ChunkEnd`; `EndBegin` and `EndDrain`
for `compress_end`; `Reset`. The input buffer keeps its real contents: a byte is
the number of its place in all the application has handed over, so that order,
loss and repetition are visible; 0 is a byte that is not the application's.
`Codec` is the contract of `ZSTD_inBuffer` and `ZSTD_outBuffer`; `ThriftyCodec`
is the stronger one under which the `vmemmove` of `drain_buffer` is right: a
codec that consumes something leaves at most as much as it took. (The move takes
`input.pos` bytes, not the number of bytes that are left.)

**CompressStream** replaces the codec by the steps of
`ZSTD_compressStream_generic`. Each branch of its loop is an action: `Shortcut`
(a whole rest of the frame straight to the output), `LoadAndStop`,
`CompressDirect`, `CompressToOutBuff`, `Flush`, `EncodeError`; `InitStream` and
`ResumeStream` enter, `StreamReturn` leaves. Blocks compress to their smallest
or largest size. Output is counted in units numbered 1, 2, 3, ...; the history
`coded` says which bytes a decoder knows after which unit. Both specifications
use the same variables for the wrapper, so `ThriftyWrapper` is a refinement with
`res` mapped to zero or positive.

**DStream** has the two nested machines of the decoder: `zStage` is
`streamStage`, `dStage` is `stage`. A stream is a sequence of frames from a set
`Streams`: header length, declared size, window, blocks (raw or compressed, with
their sizes), checksum, and at most one flaw. `outBuff` keeps the number of the
content byte in each cell, so overwritten history shows. A compressed block
scribbles over `blockSizeMax + Overlength` cells: that this is as far as it may
go is what `DBlock` checks. `DStreamCaller` and `DecompressChunk` add two
different callers.

**DBlock** is `ZSTD_decompressBlock_internal` on an array of cells: an older
segment, the prefix and `dst`, `litExtraBuffer` with its slack, the compressed
block, and guard cells between them. `DecodeLiterals` places the literals
(before, behind or split over `dst`, or left in the input), `Execute`,
`CrossSplit`, `QueuedSequence`, `LastLiterals` execute one sequence with the
code's own choice of copies. A copy moves `CopyUnit` or `VecLen` cells at once
and reads what is there at that moment.

**LZ** takes one step per search, per sequence and per block. A parser accepts
any match its checks let through - the hash tables of the fast parsers may hold
any index - and stores sequences with offset codes; what lies outside of the
window may hold anything, so a check that reads it without need is seen. The
optimal parser's table is `s.opt`; comparisons of prices go either way. The
block leaves raw, whole, in partitions or in sub-blocks, and the record `dec`
follows as a decoder: its own last offsets and its own output. A session (plan)
gives the strategy, the source of sequences, the dictionary and the chunks with
their addresses.

**MatchFinder** drops the assumption that the tables may hold anything and
keeps the real ones for the finders with a table of candidates: chains, rows,
the tree that is sorted late (`btlazy2`), the sorted tree (`btopt`), and the
long distance matcher. Hashes are small, so that everything collides. Indices
are corrected at `CurrentMax`, segments overlap, frames follow each other with
the tables left as they are, and dictionaries are loaded, attached or dedicated.

**EntropyBlock** sends a few blocks with given sequences through the coders
with their real alphabets, table logarithms and default tables. Bit streams are
sequences of bits. The choice between a new table, a repeated one and none is
the code's where it decides validity or size; where only estimated costs decide,
it follows the code's formulas or is left open. `enc` is the confirmed state of
the encoder, `dec` the decoder's; a block that goes out raw leaves `dec` alone.

**Pool**: one mutex protects the context, so each critical section is one
action; a thread that waits is in the wait set of one condition and is taken
from it by a signal (any one) or a broadcast. Threads that cannot be created
are modelled. **ZSTDMT** uses its actions for posting and taking jobs. Data are
positions of the input; `mem` maps addresses of the round buffer to positions.
The caller's steps are those between two points at which it locks, waits or
returns; a worker's job goes through `resources`, its turn in the serial state,
chunks, the last chunk with the checksum, and the release of what it holds.

**Gzstd** adds the loop over files and over reads, with failing reads, and, in
a specification of its own, failing writes.

### Abstractions

In the streaming modules a unit stands for a few bytes of compressed data.
Header, block header and checksum take one or two units instead of 2-18, 3 and
4 bytes, and buffers have 3 to 14 cells instead of 128 KB; `SizesAssumption` and
`OutLenIsBound` keep the relations between the real sizes that the code relies
on, and TLC evaluates them in every run that has them. There, blocks only have
sizes; what is in them is the business of `LZ`, `MatchFinder` and `EntropyBlock`,
which in turn take the input block by block. Errors of memory allocation are
modelled in `Pool` and `ZSTDMT` only. After a call of a chunk function has
failed, the application resets both the `StreamContext` and the codec's session
before it calls again (`Restart`, `DecompressRestart`, `ResetSession`); `Gzstd`,
which resets the session only, shows what happens otherwise. In
`DecompressChunk` the decoder is not followed any further once its input is not
the stream's next units (`InputInOrder`).

Choices the code makes by estimated gain, price or cost are nondeterministic:
which of several true matches wins, how the optimal parser compares prices,
where the post splitter cuts, which decoder is chosen for a block. Hashes are
functions of the bytes, chosen so that collisions are frequent. The 62-bit
fixed point of `FSE_normalizeCount` is replaced by fractions that agree with it
for small totals. In `DBlock` a block has the decoder's sequences as data, and
their bits are those of `SeqSection`.

## 3. What TLC checks

### Runs that pass

| Run | Shows |
|---|---|
| `CompressStream` | The wrapper with two block sizes, one that divides the input buffer and one that does not, pledges, failing callbacks and resets. `EncodedInOrder`, `InputInOrder`, `OutputInOrder`: no byte lost, repeated or swapped between the slices, the buffers, the blocks and the callback. `RingInBounds`: the ring wraps. `FailsOnlyOnPledge`: room always suffices and a pledge ends with its frame. `HeaderIsTrue`: the declared size of a finished frame is its size. `ClosesFrame`: a successful last chunk or `compress_end` has delivered a whole frame with exactly its bytes, although `compress_end` ignores the result. `CallReturns`. `CopyInBounds`: the piece the loop is about to copy lies in the slice and in the buffer, for every length of input left. `ThriftyWrapper`: the refinement of `StreamContext`, with its `TypeOK`. |
| `DStreamFrames` | One frame longer than the ring, short, empty and skippable frames, and frames with one flaw each. `DeliveredInOrder`, `WindowIntact`: the ring wraps without damage. `ZeroAtFrameEnd`: 0 means the end of a frame, and no input behind it has been taken (the hostage byte). `FailsOnlyForCause`, `FlawIsFound`: a sound frame is never refused, and one with a flaw never answered with 0 - except for the wrong size behind an empty last block, which the code does accept (`SizeIsChecked`, below). `Completes`: a caller that goes on has everything. |
| `DecompressChunk` | `SuccessIsComplete`: a last slice that is not empty succeeds only at the end of a frame whose content the callback has, wherever the stream was truncated (empty ones are in the run, and `LastIsComplete`, below, shows what they do). `WholeIsFinished`: whole frames are reported as unfinished only with output left in `outBuff` or a frame that ended inside the last piece; the streams have frames for which neither happens, one that expands beyond `output.dst`, and two short ones in one buffer. `SoundIsAccepted`: only a flaw makes the decoder fail. |
| `Gzstd` | Three files with failing reads. `FileIsCompressed`: what is reported as compressed is one frame with the bytes of its file. |
| `LZ` | All four kinds of block compressor without a dictionary, with a loaded and an attached one, over contiguous input, a ring of memory, several frames and ZSTDMT jobs; long distance matches, a producer, given sequences; whole, split and superblocks. `RoundTrip`: the decoder has the input. `RepsAgree`: the offsets the encoder refers to by code are the decoder's. `MatchesInWindow`: no distance beyond what a decoder must keep. `StoreFits`: room for the sequences, and one long length. |
| `MatchFinder` | `MatchesAreTrue`: whatever the tables still hold, a match that is found repeats the bytes it says and is in reach. `CacheIsFresh`: no stale hash is taken from the row cache. `TablesFit`: the list of long distance matches and the table of a dedicated dictionary suffice. |
| `Entropy` | `Decodable`: blocks of new, repeated, default and one-symbol tables, split, partly compressed, raw and of one byte, with and without a dictionary, are decoded to their source. The offset table of the dictionary has the codes a first block can need and no more, so repeating it in a later block, whose offset has one code above, is found. `TablesAgree`: after each block, tables and offsets the encoder might reuse are the decoder's. |
| `DBlock` | `DecodedInPlace`: no cell outside of the buffers is touched, no more than `Overlength` behind a block when streaming; the content is right whenever there is room and refused otherwise. |
| `Pool` | `QueueIsFifo`, with two jobs that wait at once and five that run around the ring, `WaitersSeeAllDone`, `EveryJobRuns` (also through free and resize), `EveryCallReturns`. |
| `ZSTDMT` | `OutputInOrder`, `RoundBufferIntact`, `CutsAreContentDefined` (rsyncable mode), `ReleasedOnlyAtRest` (also for a frame dropped while its job runs, followed by one with as many workers), `FramesEnd` (no job waits forever, with failing allocations too). |

### Runs that find a violation

Each checks one property that a comment, a test or the documentation states; the
quotations are in `PROJECT.json` under `findings`.

| Run | What happens |
|---|---|
| `DecompressMove` | A short frame is followed by another one in the same buffer: less than half is consumed, `vmemmove(src, src + pos, pos)` moves too little, and the rest of the input is wrong. |
| `LZFallback` | An external producer fails for a block, the internal parser keeps two of the three last offsets, and the producer's next block refers to a third one the decoder does not have (with `searchForExternalRepcodes`, the default from level 10 on). |

### Counterexamples

What the code does and should not do is also found from the configurations of the
passing runs, with the change named here and the property given as the only one. TLC
stops within seconds.

| Configuration and change | Property | What happens |
|---|---|---|
| `CompressStream.cfg`, `SPECIFICATION CSpecEmptyLast`, `ChunkLens = {0, 5, 10}` | `ClosesFrame` | A last chunk without bytes skips the loop of `compress_chunk`: it returns without an error and without ending the frame, although `compress_stream.v:40-41` means to report `unfinished compression`. |
| `DecompressChunk.cfg` | `LastIsComplete` | A last slice without bytes skips the loop of `decompress_chunk`, so that `res` is 0: a truncated stream is accepted (`decompress_stream.v:35-36`). |
| `DecompressChunk.cfg` | `UnfinishedIsCut` | A sound frame that expands beyond `output.dst`, or one that ends inside the last piece, is reported as `unfinished decompression`: the decoder is called once per piece, where `zstd.h:897-899` asks to call it again. |
| `DStreamFrames.cfg` | `SizeIsChecked` | A frame with an empty last block ends right after the header of that block, before the only comparison of `decodedSize` with the declared size (`zstd_decompress.c:1324-1336`, 1378-1383): a wrong size is answered with 0. The single pass refuses the same frame. |
| `Gzstd.cfg`, `SPECIFICATION GSpecWriteError` | `FileIsCompressed` | After a failed write, unwritten output of one file begins the next: `drain_buffer` returns before it clears `output.pos` (`stream_context.v:26`), and only the `CompressContext` is reset (`gzstd.v.off:11` means to prevent this). |
| `ZSTDMT.cfg`, `Plans <- MCDropped` | `ReadyMeansPrepared` | A frame is dropped while `jobReady` is set (`zstdmt_compress.c:1476`); the next one posts a job that was never prepared. The comment at line 875 says 'one job is already prepared'. |
| `ZSTDMT.cfg`, `Plans <- MCGrown` | `ReleasedOnlyAtRest` | The next frame has more workers than the one that was dropped: `ZSTDMT_initCStream_internal` resizes the pools of contexts and buffers (lines 1263-1264, 1078-1084) before it waits for the jobs of the dropped frame (1269-1270); line 364 says 'all CCtx borrowed from the pool must be reverted back to the pool _before_ freeing the pool'. |
| `Pool.cfg`, `Calls <- MCShared` | `EveryCallReturns` | One thread adds, another joins: both wait for `queuePushCond`, which workers signal once per event (`pool.c:91`, 99), and the joiner takes the signal of the adder. zstd itself has one submitter. |

The passing run of each checks the same module without the one thing that breaks it, or with
a property that names the case: `SuccessIsComplete` for `LastIsComplete`, `WholeIsFinished`
for `UnfinishedIsCut`, `FlawIsFound` for `SizeIsChecked`.

The wrapper's lines have further consequences. The move of `drain_buffer` reads
behind the buffer when more than half of a full buffer was consumed (possible
with `max_block_size` below the buffer's size, so in `CompressStream` with blocks of 6; no
data is damaged then). No property bounds what `vmemmove` reads: `CopyInBounds` is about
the copy into the buffer, and `InputInOrder` would show a byte from behind it.
`compress_chunk` too reports `unfinished` when the output of the last piece does
not fit into one output buffer; `compress_end` does not have this problem, since
the buffer then has room for all that can be left (`ClosesFrame`). And `gzstd` does not
compress a file whose length is a multiple of the read buffer's: the read at its
end either fails, or returns 0 and leads to an empty last chunk.

Observations made while modelling, without a property of their own:

* `ZSTD_copyBlockSequences` (`zstd_compress.c:3492`) updates the offsets by the stored
  16-bit `litLength == 0`, which holds for a literal length of exactly 65536
  too, although it resolved the offset by the full length.
* `ZSTD_validateSequence` is called with a position behind the match, so its
  bound on the offset is more generous than the decoder's. Without delimiters
  and with a block size adjusted to 0, `ZSTD_compressSequences` makes no
  progress.
* The optimal parser never uses the last match of the long distance matcher's
  list. `ZSTD_ldm_gear_reset` (`zstd_ldm.c:61-85`) computes a hash it does not
  store, although its comment says 'This effectively resets the hash state';
  this changes only where splits fall (`LdmTable` keeps the hash).
* `ZSTDMT_waitForAllJobsCompleted` does not wait for a first job without input;
  `ZSTDMT_freeCCtx` does not wait for jobs when the pool is the application's.
* In `ZSTD_decompressSequences_bodySplitLitBuffer` the subtraction of
  `WILDCOPY_OVERLENGTH` from the limit of the output is not needed for sound
  blocks: `DecodedInPlace` holds without it.
* The assertion marked 'I believe this is guaranteed' (`zstd_lazy.c:497`) holds in
  all instances (`TablesFit`).

### Bounds

* `CompressStream`: `InLen` 8 with blocks of 4 and 6, where leftovers, a block
  over two calls and a wrap occur; slices shorter and longer than the buffer;
  `MaxBytes` 20, more than two buffers full. `OutLen` follows from
  `OutLenIsBound`, since `ZSTD_CStreamOutSize` does from the block size.
  `Pledges`: none, 0 and 8, below, at and above what can follow. `MaxUnits` stops
  new calls once so many units were written; it is above what two frames need.
* `Streams`: the long frame has more content than the ring; the short ones cover
  each flaw, each kind of frame and a second frame after the first. `Offers`
  and `Rooms` cut them below, at and above the size of a block, 0 included.
  `NoProgressMax` is 2 or 3 (16 in the code), `TooLong` 2 (128), `TooLarge` 3 as
  in the code.
* `FileLens`, `MaxFiles`: files below and above one and two read buffers, three in
  a row, so that a file whose reading fails is between two others; `ChunkLens` has
  every length a read can have.
* `LZ`: bytes have two values, blocks 8 bytes, the window 8: with `MinMatch` 2
  nearly every position has several matches, at all distances. `CurrentMax` 26
  corrects the indices within three blocks; `LenMod` 4 makes long lengths
  (65536 in the code) frequent. `MaxRaw` bounds the sequences of a list.
* `MatchFinder`: two hash values, chains, rows and trees of 4 to 8 entries, which
  are full after one block and overwritten after two; `CurrentMax` 34 for a
  window of 12.
* `DecompressChunk`: slices of 0, 1, 3 and 6 units for a buffer of 4; streams are
  cut off nowhere, by one unit, by three, or to nothing.
* `Entropy`: three blocks. The first ones take new tables, the later ones could
  repeat them but for a symbol, do not shrink, or shrink in part only.
  Strategies 1, 5 and 8 are on either side of each threshold in the code.
  `MinSeqSplit`, `SmallLiterals`, `TargetCBlockSizeMin`, `HeaderBudget` and the sampling
  of literals (`SampleSize`, `SampleRatio`, `SuspectRatio`) are scaled down with the
  blocks. The dictionary has `DictSize` 2^27 - 2^17 - 1, the largest for which a first
  block of the format needs offset codes 0..26 only; later blocks use code 27.
* `DBlock`: copy unit, vector and overlength in the ratio 1 : 2 : 4 as in the code
  (8, 16, 32); literals below, at and above `ExtraSize`; offsets 1, 3, 9 and 12,
  below a unit, below a vector and above; room one too small, exact, and up to
  the size at which literals go behind the block.
* `Pool`: two threads, a queue of two slots, five jobs, two resizes. `ZSTDMT`: two
  workers, sections of 1 to 3, six units of input that run around the round
  buffer; `MaxJobs` bounds the jobs of all frames.

What breaks a property is outside the bounds of the passing run where a counterexample
above needs a change, so that the rest can be checked: `CSpec` excludes the empty last chunk
(`CSpecEmptyLast` has it), `GSpec` the failing writes (`GSpecWriteError`); `FileLens` of
`Gzstd.cfg` has no multiple of the read buffer; the streams of `DecompressChunk.cfg` leave
no short frame before a longer rest in one buffer (`DecompressMove` has it); the plans of `LZ.cfg` combine a failing producer with
searched codes only where the internal parser keeps three offsets; the plan of
`ZSTDMT.cfg` that drops a frame has as many workers after it and no job that waits to be
posted; `Pool.cfg` has one thread that waits for jobs and adds. Of empty slices, wrong
sizes and frames that expand `DecompressChunk` and `DStreamFrames` exclude nothing: there the
exception is in the property (`SuccessIsComplete`,
`WholeIsFinished`, `FlawIsFound`), which names it.

`CHECK_DEADLOCK FALSE` is set where the system comes to its end: the caller of
`DStreamFrames` stops at the end of its stream, `Gzstd` at that of its files,
`LZ`, `LZFallback`, `MatchFinder` and `Entropy` at that of their input, `DBlock`
at that of its block. The other runs check for deadlock; `Pool` and `ZSTDMT` name
their end (`Freed`, `Terminated`).

### Fairness

`CSpec` has weak fairness of the steps of the wrapper and of libzstd taken
together: a call is a sequential computation, and once it is entered nothing in
it waits for anyone. The application is not fair: it may never call again.
`CallerSpec` has the same for the decoder (`WF(Library)`). A caller that
`persists` calls again as long as input is left, with at least one unit of input
and one byte of room (`WF(GoOn)`), as the loop documented in `libzstd/zstd.h`
does; one that does not persist may do anything, and `Completes` says nothing of
it. `Pool` has weak fairness of each thread and of each client inside a call, and
of no client outside; which waiter a signal wakes is not fair. `ZSTDMT` has weak
fairness of each worker and of the caller, an application that calls until its
frames end. The other specifications check safety only.

### Mutants

Every property of a passing run is paired with a mutated definition (marked
"mutant" in the modules) under which TLC finds it violated: a forgotten branch, a
missing reset, a ring one block too small, a signal that is not given, a table
kept that was not sent.

## 4. What is proved

The theorems hold for every value of the constants that satisfies the named
assumptions of the modules; `PROJECT.json` lists them. Eight modules contain them,
each with an inductive invariant that TLC checked on several instances first.

### The wrapper (`StreamContextProofs`)

| Theorem | Says | By |
|---|---|---|
| `TypeCorrect` | `Spec => []TypeOK` | with the bounds, since `in_size - in_pos` must stay a natural number |
| `BoundsSafe` | `Spec => []BuffersInBounds`, the cursors of both buffers | `BoundsInv` |
| `CopySafe` | `Spec => []CopyInBounds` | `LoopInv` |
| `NothingLostSafe` | `Spec => []NothingLost` | the same with the sum |
| `InputOrderSafe` | `ThriftySpec => []InputInOrder` | `OrderInv` |

None of the properties is inductive alone. `CopyInBounds` speaks of the head of
the loop; the reason it holds is `LoopInv`: as long as bytes of the slice remain,
the last piece had length `max_len`, so `pos` plus the remaining length is the
length of the slice. `InputInOrder` needs that between calls all input is counted
(`NothingLost`), that nothing is in front of `input.pos` except during a codec
call, and `ThriftInv`: after a thrifty codec call `pos` bytes suffice to move the
rest. The lemmas hold for a codec with any hint, so that the next modules can use
them. The assumptions are those named in `StreamContext`: the two capacities are
positive, slices have natural lengths. `BuffersInBounds` and `NothingLost` are proved only, and
in no run: the first follows from the cursors of the codec's contract and says nothing of
what `drain_buffer` moves, the second is weaker than `EncodedInOrder` and `InputInOrder`.

### Compression (`CompressStreamProofs`)

| Theorem | Says | By |
|---|---|---|
| `CompressTypeCorrect` | `CSpec => []CTypeOK` | `CInv` |
| `RingSafe` | `CSpec => []RingInBounds` | `TargetInv`, `FlushInv` |
| `FailuresArePledges` | `CSpec => []FailsOnlyOnPledge` | `PledgeInv` |
| `CompressInputOrderSafe` | `CSpec => []InputInOrder` | `ReturnInv` |
| `CodecIsThrifty` | `CSpec => ThriftyWrapper` | the refinement, step by step |
| `OutputOrderSafe` | `CSpec => []OutputInOrder` | `CInv` |
| `EncodedOrderSafe` | `CSpec => []EncodedInOrder` | `CInv` |
| `HeadersAreTrue` | `CSpec => []HeaderIsTrue` | `FrameInv` |
| `FramesAreClosed` | `CSpec => ClosesFrame` | `FrameInv` |

`CInv` has a part for each question that the proofs come to:

* `ControlInv`, `SessionInv`: where a call is and what the buffers then look like;
  `inBuffTarget` lies one block behind `inToCompress`, and one byte further only in
  a frame known to fit one block, whose size is then pledged. A block therefore
  never exceeds `blockSizeMax`: one byte more would contradict the pledge.
* `WorkInv`, `EndInv`, `ReturnInv`: how much a call has produced. A call only stops
  with input left if its output is full; the blocks that filled `output.dst` were
  full blocks, and `OutLenIsBound` says how many bytes they took, at least half of
  the input buffer. This is why libzstd is thrifty and the `vmemmove` of
  `drain_buffer`, wrong in general, is harmless here (`CodecIsThrifty`). The same count
  shows that what a `compress_end` may find fits `output.dst`, so that ignoring the
  result of its only codec call loses nothing.
* `PledgeInv`: a pledge the application did not make is that of the short cut, and
  equals the input at hand.

The proof has one lemma per action, in which the parts that the action may disturb
are shown one by one; the wrapper's own variables are dealt with by showing that
every step is one of `StreamContext` with a thrifty codec (`StepIsHint`).

For contents, the three steps that encode have one effect in common (`Writes`: the
next input follows the loaded bytes into a chunk, and its units come behind all
others), every other step moves units and bytes without changing their order, and
consecutive numbers stay consecutive (`Ascending`). The order holds in every state,
so the frames need only numbers: `FrameInv` says that a session in the middle of a
frame belongs to the last frame written, that it began at byte `FrameFrom` with the
size declared, that `consumed` counts the bytes since, and that this frame starts
where the application closed the one before (`opened`). The two theorems on frames
follow when the pledge check of the last chunk meets `consumed`. `encoded`, `coded`,
`emitted`, `opened` and `drained` are history variables: no action reads them, apart
from `opened`'s own bookkeeping and the bound `MaxUnits`.

The assumptions are `SizesAssumption` (what `ZSTD_compressBound` and the buffer sizes
guarantee; the margin pays for the headers of the blocks of one buffer) and
`OutLenIsBound` (`ZSTD_CStreamOutSize`). `CSpec` excludes the empty last chunk, for which
`ClosesFrame` is false (`CSpecEmptyLast`, section 3).

### The command gzstd (`GzstdProofs`)

| Theorem | Says, under `FullBlocks` and `UnevenFiles` | By |
|---|---|---|
| `GzstdInvariant` | `GSpec => []GzstdInv` | |
| `FilesAreCompressed` | `GSpec => []FileIsCompressed` | `OneFrameInv`, `ClosesFrame` |
| `GzstdIsApplication` | `GSpec => FilesAreSessions` | `FilesInv` |

`gzstd` resets the `CompressContext` before each file and never the `StreamContext`
(`gzstd.v.off:12`). Both theorems say that this is enough as long as
the output can be written. The reason is that nothing is ever left behind: a read is at
most one input buffer, so it is copied whole into the empty `input.src`, and one call of
`ZSTD_compressStream2` takes all of it. A full buffer is a full block, which goes straight to
`output.dst` when room is there, and so does the last piece with the end of the frame
(`DirectInv`: nothing is loaded in the ring, `outBuff` is never used); then `drain_buffer`
empties both buffers of the wrapper (`ReadInv`). When reading a file fails, what was in
progress is a session of the `CompressContext` alone, which the next file resets.
Opening a file is therefore the step `Restart` of an application that resets both
(`OpenIsRestart`), every other step is one of `CNext` too (`GzstdIsCaller`), and the invariant of
`CompressStreamProofs` holds of gzstd without another proof of its parts. `OneFrameInv` adds
that within a file the first item that is encoded, and no other, begins a frame, and
that only the last one ends it; with `ClosesFrame` this gives `FileIsCompressed`.

`FilesAreSessions` is proved only and in no run, but can be added to `Gzstd.cfg` as a
`PROPERTY`, where TLC finds that it holds, and that it fails with `GSpecWriteError`.

The two hypotheses are part of the meaning:

* `FullBlocks`: blocks are as long as the read buffer, and the window is not shorter. gzstd
  sets no `max_block_size`, `compress_stream_in_size` is `ZSTD_BLOCKSIZE_MAX`, and the windows that
  `libzstd/compress/clevels.h` has for sources of unknown size are longer. With shorter blocks
  a read failure may leave input in `input.src`, and the next file would begin with it.
* `UnevenFiles`: no file's length is a multiple of the read buffer's. Such a file, an empty one
  too, ends with an empty last chunk, for which no frame is ended (section 3).

They also give that no chunk fails (`NoEncodeError`, `ChunkEnds`): gzstd pledges nothing, and
one call always suffices, so `unfinished compression` is never reported.

### Decompression (`DStreamProofs`, `DStreamFrameProofs`)

| Theorem | Says | By |
|---|---|---|
| `DStreamInvariant` | `CallerSpec => []StreamInv` | |
| `DTypesCorrect` | `CallerSpec => []DTypeOK` | `Typed`, `Buffers` |
| `DeliveredInOrderSafe` | `CallerSpec => []DeliveredInOrder` | `FlushInv` |
| `WindowIntactSafe` | `CallerSpec => []WindowIntact` | `RingInv` |
| `FrameInvariant` | `CallerSpec => []FrameInv` | with `StreamInv` |
| `ZeroAtFrameEndSafe` | `CallerSpec => []ZeroAtFrameEnd` | `UnitsInv`, `BytesInv`, `AnswerInv` |
| `FailsOnlyForCauseSafe` | `CallerSpec => []FailsOnlyForCause` | `FrameInv` |
| `FlawIsFoundSafe` | `CallerSpec => []FlawIsFound` | `FlawInv` |

They hold for every stream of frames, every way of cutting input and output and
every size of block, window, checksum and overrun. All that is assumed of a frame is
`FrameOK`: that an encoder could have written it, but for the one flaw it may have.
`FlawIsFound` names what the code accepts all the same: a wrong size behind an empty last
block that was decoded on its own, and a window that is too large in a single pass, which
needs none. `FrameOK` excludes neither.

`RingInv` describes `outBuff` in two laps. Of the current lap it holds the last `outEnd`
bytes of the content. Either that is the whole frame so far (`FirstLap`), or the lap
before ended at an `E` behind which no block was sure to fit (`LaterLap`), and what the
present lap cannot have overwritten of it is still there. The ring has room for the
window, two blocks and two overruns (`NeededSizes`), so the window never reaches the
part that the next block, its literals and the copies may write: this is the theorem
on the window. `FlushInv` says that what was decoded is what was delivered and what
waits in `outBuff`. That `taken` may be decremented for the hostage byte (`FinishUnflushed`)
needs that a piece which ends a frame was consumed by the same call.

`FrameInv` relates the decoder to the places in the stream. `Used`, the units reported as
consumed, those of this call and the one that is kept back, is always the number of
units through the frames before and through the pieces of this one; `decoded` is the
same in bytes. `Finish` does not change `Used`, whichever of its four answers it gives:
a byte given back is one more that is kept. Between calls in the middle of a frame, one
unit at least is wanted or kept back (`BehindTheEnd`), so a caller has never reported
all of a frame without having its content. The count of bytes also shows that a block
of a sound frame fits into `outBuff` when that is no ring but as long as the declared
content (`BlockFits`).

The sums over blocks and frames are those of a recursive function (`PrefixSums`). That
it exists, has natural values and grows is proved by induction (`SetInduction`, from the
well-foundedness of the numbers, for the set of those where a statement fails); the
recursion is over positions, not over what is counted.

### The wrapper around the decoder (`DecompressChunkProofs`)

| Theorem | Says | By |
|---|---|---|
| `DecompressChunkInvariant` | `DCSpec => []ChunkInv` | |
| `DecompressBoundsSafe` | `DCSpec => [](BuffersInBounds /\ CopyInBounds)` | `BoundsInv`, `CallSums` |
| `SuccessIsCompleteSafe` | `DCSpec => SuccessIsComplete`, for last slices that are not empty | `HintInv`, `FrameInv` |
| `SoundIsAcceptedSafe` | `DCSpec => []SoundIsAccepted`, if `NoProgressMax > 0` | `SoundInv` |
| `WholeIsFinishedSafe` | `DCSpec => []WholeIsFinished` | `LeftInv` |
| `SmallIsFinished` | `DCSpec => []UnfinishedIsCut`, if `SmallStreams` | `WholeInv` |
| `DecompressIsWrapper` | `DCSpec => ChunkWrapper` | `HintIsAnswer` |

`decompress_chunk` is one more caller of `ZSTD_decompressStream`. The module takes
`DStreamFrameProofs` as an instance `P`, with `eaten - origin`, what the wrapper has seen
consumed since the last reset, as the position of the caller and any numbers as the
offers. Every step of `DCNext` is a step of that caller or leaves the decoder alone
(`StepIsBoth`), so `P!StreamInv` and `P!FrameInv` are part of the invariant and need no
second proof. What `ChunkInv` adds of the wrapper are its own bounds and the sum of its
lengths (`BoundsInv`, `NothingLost`, by the same lemmas as for any codec), what was
handed over in this attempt (`SliceInv`), that a call in progress has been offered what
waits in the buffer and the room behind `output.pos` (`OfferInv`), and that `res` is the
decoder's last hint, which is 0 with an empty buffer when a last slice succeeds
(`HintInv`). `SuccessIsComplete` follows: all of the stream was handed over and consumed,
and by `P!FrameInv` a hint of 0 means the end of a frame with its content delivered. `DCSpec` has empty slices
too. An empty last one runs no call, so `res` is 0 and not the decoder's hint; `HintInv` says
so only of slices with a call, and the property is about those.

The bounds rest on a lemma on the decoder (`CallSums` in `DStreamFrameProofs`): in every
call, what is taken and still available adds up to what was offered. `SoundIsAccepted` needs
that no call is without progress: the wrapper calls with room in `output.dst` and with
input, and such a call consumes or produces something unless it fails (`ProgressInv`,
`ProgressStep`), so the count of calls without progress stays 0. The hypothesis is about
a bound of the model: `ZSTD_NO_FORWARD_PROGRESS_MAX` is 16.

`WholeIsFinished` says when the loop would have had to call the decoder once more. A call
ends because its input is used up, because its output is full, or with a frame
(`StopInv`, `StopStep` in `DStreamFrameProofs`): so when the answer is not 0 and `outBuff`
holds nothing, the input buffer is empty, and all of the stream has been read (`LeftInv`).
But then the decoder is inside a frame, behind the first unit of its header and before its
last unit, so no number of whole frames ends there (`InsideAFrame`). A byte that is kept
back would break the argument; it always waits with output, since the wrapper never calls
without input.

`SmallStreams` says that a stream is one frame with no more content than `output.dst`
holds, 128 KB in the code. All of the content then fits behind what the callback
already has, so a flush empties `outBuff` and a call stops only because its input is
used up or the frame is complete (`RoomInv`, `RoomStep`). A hint other than 0 after a last
slice would mean that the frame goes on behind the stream, which `EndIsFinished` excludes by
counting the units. So neither case of `WholeIsFinished` occurs; with more content per piece
of input they do (section 3, `UnfinishedIsCut`).

All of this holds as long as the input buffer is in order, since the model stops where
`drain_buffer` has damaged it (section 3, `DecompressMove`).

### The thread pool (`PoolProofs`)

| Theorem | Says | By |
|---|---|---|
| `PoolInvariant` | `Spec => []PoolInv` | |
| `FifoSafe` | `Spec => []QueueIsFifo` | `RingInv` |
| `WaitersSafe` | `Spec => WaitersSeeAllDone` | `WorkInv`, `ThreadInv` |

`RingInv` ties `queueHead`, `queueTail` and `queueEmpty` to the jobs added and not yet
started; the step that matters is the wrapped index, and that a ring of more than
one slot is never full. `WorkInv` accounts for every job that started: it has
finished or exactly one thread runs it, and `numThreadsBusy` counts those threads, so
a waiter that finds the queue empty and the count zero has seen all jobs done.
For `POOL_free` this needs `ThreadInv`: threads leave because of `threadLimit` only as
long as others remain for the queue.

### Multi-threaded compression (`ZSTDMTProofs`)

| Theorem | Says, for clean plans | By |
|---|---|---|
| `InvariantHolds` | `Spec => [](MTInv /\ ErrorInv)` | |
| `OutputIsInOrder` | `Spec => []OutputInOrder` | `DeliveryInv`, `JobsInv`, `SerialInv` |
| `RoundBufferStaysIntact` | `Spec => []RoundBufferIntact` | `RingInv`, `WindowInv` |
| `JobsAreCutByContent` | `Spec => []CutsAreContentDefined` | `CutsInv` |
| `ResourcesReleasedAtRest` | `Spec => ReleasedOnlyAtRest` | `WorkerInv` |

They hold for any number of workers up to the size of the table, any section, prefix,
window and distance of cuts, any content, and any plan of the application that is
*clean* (`CleanPlans`): frames are not empty, none is dropped before its end, and a
frame whose allocations fail is the plan's last. The hypothesis is there because the
code needs it. `ZSTDMT_waitForAllJobsCompleted` does not wait for a first job without
input, so an empty frame may release what a worker still uses; a frame that is dropped, or
fails, while a job is prepared leaves `jobReady` set for the next one, and dropping it
resizes pools in use if the next has more workers (section 3, `MCDropped` and `MCGrown`).
So `ResourcesReleasedAtRest` says nothing of dropped frames, and of some it would be false.
The plans of the run `ZSTDMT` are clean but for the last, which drops a frame where no
property breaks; that case is model-checked only. Within a clean plan any allocation of the last frame may fail, in any
job.

Output in order is a claim about everything in the module at once, so the invariant
(`MTInv`, in `ZSTDMTInvariant`) has a part for each thing that workers and caller share:

* `WorkerInv`: a thread runs a job exactly if it is in its function; two threads never run
  the same one; a job in the queue or in the hands of a thread lies in its own slot,
  is posted and is not finished (`Owned`), and `Stage` says how far it is. Since
  `ReleasedOnlyAtRest` asks that nobody is inside, it follows once `doneJobID = nextJobID`.
* `JobsInv`: the jobs between `doneJobID` and `LastID` (the one that is prepared and not
  posted included) divide the input into consecutive parts, the last ends at what was cut off
  so far, and each has in its buffer the units of its part as far as it got (`OutputInv`,
  with the header in the first one, end mark and checksum in the last). `DeliveryInv` adds
  that what was delivered ends where the oldest of these jobs has been flushed to.
* `SerialInv`: turns are taken in the order of the jobs, so the checksum covers the input up
  to the job whose turn is next (`serial.hashed`). A job that fails before its turn makes
  the others skip theirs (`ZSTDMT_serialState_ensureFinished`); the invariant is then replaced by
  `Broken`, which says that the error lies before all that is not hashed, and `ZSTDMT_flushProduced`
  meets it first. This is why no frame with a wrong checksum gets out.
* `RingInv`: what an unfinished job reads, its prefix and its input behind it, lies in
  this lap of the round buffer behind `roundBuff.pos`, or in the lap before and above what
  may be filled next (`ThisLap`, `LastLap`), in the order of the jobs. The step that matters
  is the wrap: `ZSTDMT_tryGetInputRange` compares with the oldest unfinished job only
  (`InputDataInUse`), and `RangeInv` keeps what it found true until the range is used,
  while workers go on. It does not look at all while fewer jobs were posted than
  sections fit into the buffer; `FirstLap` says why it need not.
* `WindowInv`: the indices of the long distance matcher's window stand for the same input
  (index `i` for byte `i - 2`) and, while the caller fills a section, none of them lies in
  it (`ZSTDMT_waitForLdmComplete`). `Window` gives the steps of it
  (`WindowUpdate`, `EnforceMaxDist`), of which `ZSTDMTProofs` shows that they keep `lowLimit <= dictLimit`
  and what lies behind each index.
* `CutsInv`: the input that is loaded and not cut holds no synchronization point that could
  end a job; when a job could not be posted, `call.pc = "create"` keeps the point it ends at.
* `StaleInv` says that a slot outside of `doneJobID .. LastID` holds nothing to flush, which is what makes
  reusing it for a new job safe; `ErrorInv` that nothing remains in the table after an
  error; `ControlInv` and `CallInv` tie them to the place in the call.

Each action has a lemma that shows, part by part, what it can disturb. A worker's step
writes one slot and a turn the serial state, so most of it is a frame argument over the
other jobs (`JobWritten`, `JobsKept`); a flush, a release and a new job each change the
range `Ids` (`FlushedTerms`, `NoneLeft`, `AddedTerms`). TLC checked `MTInv` and `ErrorInv`
on three instances before, with and without long distance matching and checksum, and
with failing allocations.

### Only model-checked

* Liveness (`CallReturns`, `Completes`, `EveryJobRuns`, `EveryCallReturns`, `FramesEnd`): the
  provers have no rules for fairness here.
* Everything over sequences of bits, whose value for every input would need induction
  over data.
* `DBlock`, which the provers could take.
* The modules from `BlockParse`, `HUF` and `TableSearch` upwards, which use recursive
  operators (walks over tables, lists and trees).

`TypeOK` of
`ZSTDMT` is a type invariant that can be added to any configuration.

## 5. Not modelled

* Stable buffers (`stable_in_buffer`, `stable_out_buffer`), `ZSTD_e_flush` outside of
  ZSTDMT, legacy formats: the chunk functions do not use them or the build does
  not contain them.
* The workspace allocator and the sizes it is asked for; the prices of the
  optimal parser, the gain of lazy matches and the pre-splitter, which only choose
  between correct results; the filling of the hash tables of the fast parsers,
  which `LZ` lets hold anything; the derivation of parameters from levels.
* The bytes of frame headers and dictionaries, and the decoder's hash set of
  dictionaries. The hash function.
* One-shot functions, life cycle and the remaining parameters of the contexts,
  and `gunzstd`: each is one call, or a loop around `decompress_chunk`.
* Assembly and vector versions of functions that exist in C.

## 6. Plan

Done: the wrapper and the streaming machines in both directions, with the proofs of
their safety; the block layer (`LZ`, `MatchFinder`, `EntropyBlock`, `DBlock`); `Pool` and
`ZSTDMT`, with proofs; the wrapper around the decoder and the command `gzstd`, with proofs.

Theorems worth proving next, in this order:

1. `Window` on its own: a correction of the indices keeps the bytes behind them, as the
   update and the cut do (proved inside `ZSTDMTProofs`).
2. `DBlock`: no copy reaches literals or output that is still needed.

Worth modelling next: `Gunzstd`; the frame header with the content size as the
wrapper's `int`; the workspace with its phases; the parameters that may change
in the middle of a frame.
