-------------------------------- MODULE Reads --------------------------------
(***************************************************************************)
(* GET from the header to the last byte: the range (range.rs), the format  *)
(* an opened blob is read as (compression/format.rs, encode.rs), the       *)
(* readers of each format (streaming.rs, compression/decode.rs), the cache *)
(* of decoded blocks (block_cache.rs), and the pump that reads ahead of    *)
(* the client. Writers and maintenance rename other blobs over the path    *)
(* while a body streams.                                                   *)
(* A byte is a model value and a hash is collision-free: a block's tag is  *)
(* its content. zstd is external.                                          *)
(***************************************************************************)
EXTENDS Integers, SequencesExt, Sums

CONSTANTS
    Readers,       \* GET requests
    Contents,      \* uploads: [bytes, looks, says]; see Raw
    Kept,          \* [content, blob] pairs the data directory may start with
    Specs,         \* Range headers: [kind |-> "ignore"], "suffix" n or "span" first, last (-1: open)
    BlockSize,     \* NOS_BLOCK_SIZE
    BufferSize,    \* bytes of one pooled read or zstd step
    CacheEntries,  \* NOS_BLOCK_CACHE_ENTRIES
    CacheBytes,    \* NOS_BLOCK_CACHE_MAX_BYTES
    ReadAhead,     \* READ_AHEAD
    ChunksPerStep, \* CHUNKS_PER_STEP
    MaxWrites      \* bound: renames over the path

VARIABLES
    object,    \* the content the metadata describes
    blob,      \* the file at the object's path
    get,       \* request -> its source of chunks and what it was asked
    pump,      \* request -> "idle", "reserve", "step", "decode", "pull", "ended", "refused"
    steps,     \* request -> chunks its blocking step has read
    chan,      \* request -> chunks in the body's channel
    body,      \* request -> bytes the client has
    client,    \* request -> "waiting", "reading", "complete", "failed" or "gone"
    cache,     \* the decoded blocks, least recently used first
    cacheUsed, \* Inner::bytes
    writes

vars == <<object, blob, get, pump, steps, chan, body, client, cache, cacheUsed, writes>>

Unopened == [bad |-> {}]
None == [file |-> Unopened]
Failure == <<"error">>

-----------------------------------------------------------------------------
(* What is on disk.                                                        *)

\* The encoder's index: the logical end of every block.
IndexOf(n, size) == [i \in 1..((n + size - 1) \div size) |-> Min({i * size, n})]

\* A file: its format's magic, the size its header states, its length, its
\* bytes and index, and the blocks that rotted. A raw file has no header:
\* its first bytes look like what the upload begins with.
Raw(c) ==
    [magic |-> c.looks, says |-> c.says, len |-> Len(c.bytes), bytes |-> c.bytes, ends |-> <<>>, bad |-> {}]

Container(format, c, len, bad) ==
    [magic |-> format, says |-> Len(c.bytes), len |-> len, bytes |-> c.bytes,
     ends |-> IndexOf(Len(c.bytes), BlockSize), bad |-> bad]

RawWouldBeMisread(c) == c.looks # "Raw"

\* Whether the encoder keeps the bytes raw depends on type, prefix and ratio.
Encodings(c) ==
    {Container("Nosi", c, len, {}) : len \in {Len(c.bytes), Len(c.bytes) + 1}}
        \cup {Raw(x) : x \in {x \in {c} : ~RawWouldBeMisread(x)}}

\* The format an opened file is read as.
StoredBlobFormat(f, size) ==
    IF f.magic # "Raw" /\ f.len = size /\ f.says # size THEN "Raw" ELSE f.magic

LogicalEnd(ends, i) == IF i = 0 THEN 0 ELSE ends[i]

ValidateIndex(ends, size) == \A i \in DOMAIN ends : LogicalEnd(ends, i - 1) < ends[i] /\ ends[i] <= size

ParseIndex(ends, size) == ValidateIndex(ends, size) /\ LogicalEnd(ends, Len(ends)) = size

LogicalStart(ends, i) == LogicalEnd(ends, i - 1)
Block(f, ends, i) == SubSeq(f.bytes, LogicalStart(ends, i) + 1, ends[i])

\* The block that holds an offset; the last one past the end.
BlockForOffset(ends, offset) ==
    LET past == {i \in DOMAIN ends : offset < ends[i]}
    IN  IF past = {} THEN IF ends = <<>> THEN 1 ELSE Len(ends)
        ELSE CHOOSE i \in past : \A j \in past : i <= j

-----------------------------------------------------------------------------
(* The range.                                                              *)

Ignore == [start |-> 0, end |-> -1, status |-> 200]
Unsatisfiable == [start |-> 0, end |-> -1, status |-> 416]

EvaluateRange(spec, total) ==
    CASE spec.kind = "ignore" -> Ignore
      [] spec.kind = "suffix" ->
            IF spec.n = 0 \/ total = 0 THEN Unsatisfiable
            ELSE [start |-> total - Min({spec.n, total}), end |-> total - 1, status |-> 206]
      [] spec.kind = "span" ->
            IF spec.last # -1 /\ spec.last < spec.first THEN Ignore
            ELSE IF spec.first >= total THEN Unsatisfiable
            ELSE [start |-> spec.first, status |-> 206,
                  end |-> IF spec.last = -1 THEN total - 1 ELSE Min({spec.last, total - 1})]

-----------------------------------------------------------------------------
(* The cache of decoded blocks: one mutex, so each call is one step.       *)

Key(idx, tag) == [idx |-> idx, tag |-> tag]
Cached(k) == {i \in DOMAIN cache : cache[i].key = k}

BytesOf(entries) == SumOver([i \in DOMAIN entries |-> Len(entries[i].block)], DOMAIN entries)

\* How many entries the eviction loop removes.
Evicted(entries, used) ==
    LET fits(n) == \/ n = Len(entries)
                   \/ /\ used - BytesOf(SubSeq(entries, 1, n)) <= CacheBytes
                      /\ Len(entries) - n <= CacheEntries
    IN  Min({n \in 0..Len(entries) : fits(n)})

\* LruCache::get makes the entry the most recent one.
CacheGet(k) ==
    LET i == CHOOSE i \in Cached(k) : TRUE
    IN  cache' = Append(RemoveAt(cache, i), cache[i]) /\ UNCHANGED cacheUsed

\* Mutant of Replaced: the bytes of the entry replaced stay counted.
ReplacedUncounted(k) == 0

Replaced(k) == IF Cached(k) = {} THEN 0 ELSE Len(cache[CHOOSE i \in Cached(k) : TRUE].block)

\* The entries without the one of key k.
Without(k) == IF Cached(k) = {} THEN cache ELSE RemoveAt(cache, CHOOSE i \in Cached(k) : TRUE)

CacheInsert(k, block) ==
    IF CacheEntries = 0 \/ Len(block) > CacheBytes THEN UNCHANGED <<cache, cacheUsed>>
    ELSE LET entries == Append(Without(k), [key |-> k, block |-> block])
             used    == cacheUsed - Replaced(k) + Len(block)
             n       == Evicted(entries, used)
         IN  /\ cache' = SubSeq(entries, n + 1, Len(entries))
             /\ cacheUsed' = used - BytesOf(SubSeq(entries, 1, n))

-----------------------------------------------------------------------------
(* Opening the body.                                                       *)

\* Where a reader starts: its first block, and what it drops of it. The
\* dedup reader walks the manifest to the block with the first byte; a
\* legacy zstd stream, decoded a buffer at a time, has to start at 0.
IndexedStart(ends, start) ==
    LET first == BlockForOffset(ends, start)
    IN  [ends |-> ends, idx |-> first, skip |-> start - LogicalEnd(ends, first - 1)]

DedupStart(ends, start) ==
    LET before == {i \in DOMAIN ends : ends[i] <= start}
    IN  [ends |-> ends, idx |-> Cardinality(before) + 1, skip |-> start - LogicalEnd(ends, Cardinality(before))]

ZstdStart(f, start) == [ends |-> IndexOf(Len(f.bytes), BufferSize), idx |-> 1, skip |-> start]

Position(f, format, start) ==
    CASE format \in {"Nosi", "Nosb"} -> IndexedStart(f.ends, start)
      [] format = "Nosd" -> DedupStart(f.ends, start)
      [] format = "Nosz" -> ZstdStart(f, start)
      [] format = "Raw" -> [ends |-> <<>>, idx |-> 1, skip |-> 0]

\* Headers that a reader refuses to open.
Refused(f, format, size) ==
    /\ format # "Raw"
    /\ f.says # size \/ (format # "Nosz" /\ ~ParseIndex(f.ends, size))

\* open_object_body_stream: one handle serves the format's sniffing and every
\* byte. A ranged read fills the block cache, a whole one only consults it.
OpenObjectBodyStream(r, asked, start, length, size) ==
    LET format == StoredBlobFormat(blob, size)
        at     == Position(blob, format, start)
    IN  IF Refused(blob, format, size)
        THEN /\ get' = [get EXCEPT ![r] = asked]
             /\ pump' = [pump EXCEPT ![r] = "refused"]
             /\ client' = [client EXCEPT ![r] = "failed"]
        ELSE /\ get' = [get EXCEPT ![r] =
                    [spec |-> asked.spec, content |-> asked.content, status |-> asked.status,
                     file |-> blob, format |-> format, end |-> start + length, left |-> length,
                     populate |-> ~(start = 0 /\ length = size),
                     ends |-> at.ends, idx |-> at.idx, skip |-> at.skip]]
             /\ pump' = [pump EXCEPT ![r] = IF format = "Raw" THEN "pull" ELSE "reserve"]
             /\ client' = [client EXCEPT ![r] = "reading"]

\* get_object: metadata, range and opened file under the key's read lock.
Get(r, spec) ==
    LET size  == Len(object.bytes)
        range == EvaluateRange(spec, size)
        asked == [spec |-> spec, content |-> object, status |-> range.status, file |-> Unopened]
    IN  /\ client[r] = "waiting"
        /\ CASE range.status = 200 -> OpenObjectBodyStream(r, asked, 0, size, size)
             [] range.status = 206 ->
                    OpenObjectBodyStream(r, asked, range.start, range.end - range.start + 1, size)
             [] range.status = 416 ->
                    /\ get' = [get EXCEPT ![r] = asked]
                    /\ pump' = [pump EXCEPT ![r] = "refused"]
                    /\ client' = [client EXCEPT ![r] = "complete"]
        /\ UNCHANGED <<object, blob, steps, chan, body, cache, cacheUsed, writes>>

-----------------------------------------------------------------------------
(* The pump of a body (stream_chunks, fill_while_room).                    *)

Room(r) == Len(chan[r]) < ReadAhead

\* A permit of the channel starts a blocking step; without a receiver the
\* pump ends.
Reserve(r) ==
    /\ pump[r] = "reserve" /\ (Room(r) \/ client[r] = "gone")
    /\ pump' = [pump EXCEPT ![r] = IF client[r] = "gone" THEN "ended" ELSE "step"]
    /\ steps' = [steps EXCEPT ![r] = 0]
    /\ UNCHANGED <<object, blob, get, chan, body, client, cache, cacheUsed, writes>>

\* Mutant of AfterSend: the thread waits for the client (blocking_send).
AfterSendParked(r, queue) == IF client[r] = "gone" THEN "ended" ELSE "step"

\* What follows a sent chunk: the thread goes back when the channel is full
\* or the step has read its share.
AfterSend(r, queue) ==
    IF client[r] = "gone" THEN "ended"
    ELSE IF Len(queue) >= ReadAhead \/ steps[r] + 1 >= ChunksPerStep THEN "reserve"
    ELSE "step"

\* What of a block lies in the range.
InRange(s, block) ==
    LET drop == Min({s.skip, Len(block)})
    IN  [drop |-> drop, chunk |-> SubSeq(block, drop + 1, Min({Len(block), drop + s.left}))]

\* The source once that part is read.
Advanced(s, part) == [s EXCEPT !.idx = @ + 1, !.skip = @ - part.drop, !.left = @ - Len(part.chunk)]

\* Sends that part; a block before the range is dropped and the next one read.
Send(r, block) ==
    LET part  == InRange(get[r], block)
        queue == Append(chan[r], part.chunk)
    IN  /\ get' = [get EXCEPT ![r] = Advanced(@, part)]
        /\ IF part.chunk = <<>>
           THEN pump' = [pump EXCEPT ![r] = "step"] /\ UNCHANGED <<chan, steps>>
           ELSE /\ chan' = [chan EXCEPT ![r] = queue]
                /\ pump' = [pump EXCEPT ![r] = AfterSend(r, queue)]
                /\ steps' = [steps EXCEPT ![r] = @ + 1]

\* An error is the channel's last item.
SendError(r) ==
    /\ chan' = [chan EXCEPT ![r] = Append(@, Failure)]
    /\ pump' = [pump EXCEPT ![r] = "ended"]
    /\ UNCHANGED <<get, steps>>

\* Mutant of Handle: the reader opens the path again.
HandleReopened(r) == blob

\* The file a source reads: the handle opened with the request.
Handle(r) == get[r].file

Current(r) == Block(Handle(r), get[r].ends, get[r].idx)

\* A block's content tag: the checksum in its header, or for NOSB a hash of
\* its stored bytes.
TagOf(r) == <<get[r].format, Current(r)>>

\* A step reads a chunk only with a permit for it.
CanRead(r, formats) ==
    /\ pump[r] = "step" /\ Room(r) /\ get[r].format \in formats
    /\ get[r].left > 0 /\ get[r].idx <= Len(get[r].ends)

EndOfSource(r) ==
    /\ pump[r] = "step" /\ get[r].left = 0
    /\ pump' = [pump EXCEPT ![r] = "ended"]
    /\ UNCHANGED <<object, blob, get, steps, chan, body, client, cache, cacheUsed, writes>>

\* A block of a dedup manifest, from the block store.
ReadDedupChunk(r) ==
    /\ CanRead(r, {"Nosd"}) /\ Send(r, Current(r))
    /\ UNCHANGED <<object, blob, body, client, cache, cacheUsed, writes>>

\* A buffer of a legacy zstd stream.
ReadZstdChunk(r) ==
    /\ CanRead(r, {"Nosz"}) /\ Send(r, Current(r))
    /\ UNCHANGED <<object, blob, body, client, cache, cacheUsed, writes>>

\* A block of an indexed blob, looked up in the cache first.
LookUp(r) ==
    /\ CanRead(r, {"Nosi", "Nosb"})
    /\ LET k    == Key(get[r].idx, TagOf(r))
           hits == {i \in Cached(k) : Len(cache[i].block) = Len(Current(r))}
       IN  IF hits # {}
           THEN CacheGet(k) /\ Send(r, cache[CHOOSE i \in hits : TRUE].block)
           ELSE /\ pump' = [pump EXCEPT ![r] = "decode"]
                /\ UNCHANGED <<get, steps, chan, cache, cacheUsed>>
    /\ UNCHANGED <<object, blob, body, client, writes>>

\* A miss: decode, verify, and fill the cache unless the whole object is read.
Decode(r) ==
    /\ pump[r] = "decode"
    /\ IF get[r].idx \in Handle(r).bad
       THEN SendError(r) /\ UNCHANGED <<cache, cacheUsed>>
       ELSE /\ Send(r, Current(r))
            /\ IF get[r].populate THEN CacheInsert(Key(get[r].idx, TagOf(r)), Current(r))
               ELSE UNCHANGED <<cache, cacheUsed>>
    /\ UNCHANGED <<object, blob, body, client, writes>>

-----------------------------------------------------------------------------
(* The client.                                                             *)

Take(r) ==
    /\ client[r] = "reading" /\ chan[r] # <<>>
    /\ IF Head(chan[r]) = Failure
       THEN client' = [client EXCEPT ![r] = "failed"] /\ UNCHANGED body
       ELSE body' = [body EXCEPT ![r] = @ \o Head(chan[r])] /\ UNCHANGED client
    /\ chan' = [chan EXCEPT ![r] = Tail(@)]
    /\ UNCHANGED <<object, blob, get, pump, steps, cache, cacheUsed, writes>>

\* LimitedAsyncRead: no byte past the range.
Limited(r) == Min({get[r].left, BufferSize})

\* A raw file is read as the client polls: a pooled buffer at a time, seeked
\* to the range and limited to its length.
Pull(r) ==
    LET at == get[r].end - get[r].left
        n  == Limited(r)
    IN  /\ client[r] = "reading" /\ pump[r] = "pull" /\ n > 0
        /\ body' = [body EXCEPT ![r] = @ \o SubSeq(Handle(r).bytes, at + 1, at + n)]
        /\ get' = [get EXCEPT ![r].left = @ - n]
        /\ UNCHANGED <<object, blob, pump, steps, chan, client, cache, cacheUsed, writes>>

Complete(r) ==
    /\ client[r] = "reading" /\ chan[r] = <<>>
    /\ pump[r] = "ended" \/ (pump[r] = "pull" /\ get[r].left = 0)
    /\ client' = [client EXCEPT ![r] = "complete"]
    /\ pump' = [pump EXCEPT ![r] = "ended"]
    /\ UNCHANGED <<object, blob, get, steps, chan, body, cache, cacheUsed, writes>>

\* Dropping the body drops the channel's receiver and what it holds.
Disconnect(r) ==
    /\ client[r] = "reading"
    /\ client' = [client EXCEPT ![r] = "gone"]
    /\ chan' = [chan EXCEPT ![r] = <<>>]
    /\ pump' = [pump EXCEPT ![r] = IF @ = "pull" THEN "ended" ELSE @]
    /\ UNCHANGED <<object, blob, get, steps, body, cache, cacheUsed, writes>>

-----------------------------------------------------------------------------
(* Writers: metadata and blob change together under the key's write lock.  *)

Overwrite(c) ==
    /\ writes < MaxWrites /\ writes' = writes + 1
    /\ object' = c /\ blob' \in Encodings(c)
    /\ UNCHANGED <<get, pump, steps, chan, body, client, cache, cacheUsed>>

\* Maintenance swaps another encoding of the same object in.
Rewrite ==
    /\ writes < MaxWrites /\ writes' = writes + 1
    /\ blob' \in Encodings(object) \ {blob} /\ blob.bad = {}
    /\ UNCHANGED <<object, get, pump, steps, chan, body, client, cache, cacheUsed>>

Init ==
    /\ \E k \in Kept : object = k.content /\ blob = k.blob
    /\ get = [r \in Readers |-> None] /\ pump = [r \in Readers |-> "idle"]
    /\ steps = [r \in Readers |-> 0] /\ chan = [r \in Readers |-> <<>>]
    /\ body = [r \in Readers |-> <<>>] /\ client = [r \in Readers |-> "waiting"]
    /\ cache = <<>> /\ cacheUsed = 0 /\ writes = 0

Blocking(r) == EndOfSource(r) \/ ReadDedupChunk(r) \/ ReadZstdChunk(r) \/ LookUp(r) \/ Decode(r)

Next ==
    \/ \E r \in Readers :
        \/ \E spec \in Specs : Get(r, spec)
        \/ Reserve(r) \/ Blocking(r) \/ Take(r) \/ Pull(r) \/ Complete(r) \/ Disconnect(r)
    \/ \E c \in Contents : Overwrite(c)
    \/ Rewrite

\* A blocking step runs on; nothing is assumed of clients.
Fairness == \A r \in Readers : WF_vars(Blocking(r))

Spec == Init /\ [][Next]_vars
FairSpec == Spec /\ Fairness

-----------------------------------------------------------------------------
(* Properties.                                                             *)

\* Whether a Range header names bytes at all; if not the whole body is meant.
Ranged(spec) == spec.kind = "suffix" \/ (spec.kind = "span" /\ (spec.last = -1 \/ spec.first <= spec.last))

\* The bytes of an object that a Range header asks for, byte by byte.
Wanted(spec, i, n) ==
    \/ ~Ranged(spec)
    \/ spec.kind = "suffix" /\ i > n - spec.n
    \/ spec.kind = "span" /\ i > spec.first /\ (spec.last = -1 \/ i <= spec.last + 1)

AsAsked(r) ==
    LET bytes == get[r].content.bytes
        at    == {i \in DOMAIN bytes : Wanted(get[r].spec, i, Len(bytes))}
    IN  IF at = {} THEN <<>> ELSE SubSeq(bytes, Min(at), Max(at))

\* Whatever is renamed over the path while a body streams, whatever the cache
\* holds and whatever format the blob has, the client gets bytes of the one
\* version the request's metadata describes, in order and none outside the
\* range; a body that completes is the whole range (or a 416 for a range with
\* no byte), and only a rotten block fails one (streaming.rs, decode.rs).
RangeServed ==
    \A r \in Readers : client[r] # "waiting" =>
        /\ IsPrefix(body[r], AsAsked(r))
        /\ client[r] = "complete" => body[r] = AsAsked(r)
        /\ client[r] = "failed" => get[r].file.bad # {}
        /\ get[r].status = 416 <=> Ranged(get[r].spec) /\ AsAsked(r) = <<>>

\* The cache's byte count is what its blocks hold, and neither the bytes nor
\* the entries pass their limits, whoever inserts the same block twice
\* (BlockDecodeCache::insert).
CacheAccounted ==
    /\ cacheUsed = BytesOf(cache)
    /\ cacheUsed <= CacheBytes /\ Len(cache) <= CacheEntries

\* A download gives its blocking thread back even when its client never reads
\* another byte (stream_chunks).
HoldsThread(r) == pump[r] \in {"step", "decode"}
ThreadsReturned == \A r \in Readers : HoldsThread(r) ~> ~HoldsThread(r)
=============================================================================
